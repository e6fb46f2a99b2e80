---------------------------- MODULE MCInvoicing -----------------------------
(***************************************************************************)
(* Small instances of Invoicing.                                           *)
(*                                                                         *)
(* Two bits of history: alone, no handler has taken a step yet while       *)
(* another one was at work; cut, a restart has dropped a request.          *)
(***************************************************************************)
EXTENDS Invoicing, TLC

VARIABLES alone, cut

Symmetry == Permutations(Requests) \cup Permutations(Companies)

Alone(r) == \A q \in Requests \ {r} : request[q] = Idle

MCInit == Init /\ alone = TRUE /\ cut = FALSE

MCNext ==
  \/ \E r \in Requests : /\ Handler(r) \/ Commit(r)
                         /\ alone' = (alone /\ Alone(r))
                         /\ UNCHANGED cut
  \/ NewYear /\ UNCHANGED <<alone, cut>>
  \/ Restart /\ cut' = (cut \/ request' # request) /\ UNCHANGED alone

MCSpec == MCInit /\ [][MCNext]_<<vars, alone, cut>>

-----------------------------------------------------------------------------
\* A new invoice has a number above all present ones of its year, as long as
\* handlers do not overlap.  Once they do, a generation that waited while its
\* snapshot was deleted starts again from one.
NewestNumberHighest ==
  \A i \in Live' \ Live :
    \A j \in OfYear(invoices'[i].year) : invoices[j].number < invoices'[i].number

\* "A paid invoice cannot be voided", as long as handlers do not overlap: a
\* void that read the draft overwrites a payment committed meanwhile.
PaidNeverVoided ==
  \A i \in Live :
    invoices[i].status = "paid" /\ invoices'[i] # None => invoices'[i].status # "void"

\* "A void invoice cannot be marked paid", as long as handlers do not overlap.
VoidNeverPaid ==
  \A i \in Live :
    invoices[i].status = "void" /\ invoices'[i] # None
      => ~ (invoices'[i].paidAt /\ ~ invoices[i].paidAt)

\* One handler at a time numbers grow, and paid and void are final.
InvoicesSettle == [][alone' => NewestNumberHighest /\ PaidNeverVoided /\ VoidNeverPaid]_vars

\* "All mutations ... write an AuditLog row": every invoice has one, or the
\* handler that will write it is at work, overlapping requests and deleted
\* companies included, as long as no restart cuts a handler off between its
\* two commits.  Nothing writes the row later.
EveryInvoiceAudited ==
  cut \/ \A i \in Live :
           invoices[i].audited \/ \E r \in Requests : request[r] = [op |-> "audit", id |-> i]
=============================================================================
