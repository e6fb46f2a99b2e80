-------------------------------- MODULE Bell ---------------------------------
(***************************************************************************)
(* The notification bell of the top bar (components/NotificationBell.tsx): *)
(* a badge that is polled, and counted down by hand when a notification is *)
(* read, next to a list that is asked for when the bell is opened.         *)
(***************************************************************************)
EXTENDS Integers, FiniteSets

CONSTANTS
  Notes,   \* notifications that may arrive
  Calls    \* bound: calls under way at once

BellAssumption == IsFiniteSet(Notes)

VARIABLES
  arrived, unread,        \* the server's notifications
  count, open, loading,   \* the badge and the list
  items,                  \* the notifications of the list: TRUE is unread
  call

bell == <<count, open, loading, items>>
vars == <<arrived, unread, bell, call>>

Free == [op |-> "free"]
Waits(q) == call[q] # Free
Polling == \E q \in Calls : call[q].op = "poll"

Init ==
  /\ arrived \in SUBSET Notes /\ unread \in SUBSET arrived
  /\ count = 0 /\ open = FALSE /\ loading = FALSE /\ items = <<>>
  /\ call = [q \in Calls |-> Free]

Send(q, c) == ~Waits(q) /\ call' = [call EXCEPT ![q] = c]

Arrive(n) ==
  /\ n \notin arrived
  /\ arrived' = arrived \cup {n} /\ unread' = unread \cup {n}
  /\ UNCHANGED <<bell, call>>

\* At once, and every thirty seconds; a call lasts ten at most.
Poll(q) ==
  /\ ~Polling
  /\ Send(q, [op |-> "poll", served |-> FALSE])
  /\ UNCHANGED <<arrived, unread, bell>>

\* The list opens when it is answered, not when it is asked for.
Toggle ==
  /\ IF open THEN open' = FALSE /\ UNCHANGED <<loading, call>>
     ELSE /\ loading' = TRUE /\ UNCHANGED open
          /\ \E q \in Calls : Send(q, [op |-> "list", served |-> FALSE])
  /\ UNCHANGED <<arrived, unread, count, items>>

ClickOutside ==
  /\ open' = FALSE
  /\ UNCHANGED <<arrived, unread, count, loading, items, call>>

\* Until it is answered the notification is still shown as unread.
HandleMarkRead(q, n) ==
  /\ open /\ ~loading /\ n \in DOMAIN items /\ items[n]
  /\ Send(q, [op |-> "read", of |-> n, served |-> FALSE])
  /\ UNCHANGED <<arrived, unread, bell>>

HandleMarkAll(q) ==
  /\ open /\ count > 0
  /\ Send(q, [op |-> "readall", served |-> FALSE])
  /\ UNCHANGED <<arrived, unread, bell>>

-----------------------------------------------------------------------------
Serve(q) ==
  LET c == call[q]
      Served(answer) == call' = [call EXCEPT ![q] = answer]
  IN /\ Waits(q) /\ ~c.served
     /\ \/ /\ c.op = "poll" /\ UNCHANGED unread
           /\ Served([op |-> "poll", count |-> Cardinality(unread), served |-> TRUE])
        \/ /\ c.op = "list" /\ UNCHANGED unread
           /\ Served([op |-> "list", items |-> [n \in arrived |-> n \in unread], served |-> TRUE])
        \/ /\ c.op = "read" /\ unread' = unread \ {c.of}
           /\ Served([c EXCEPT !.served = TRUE])
        \/ /\ c.op = "readall" /\ unread' = {}
           /\ Served([c EXCEPT !.served = TRUE])
     /\ UNCHANGED <<arrived, bell>>

End(q) == call' = [call EXCEPT ![q] = Free]

\* Mutant: a poll only ever adds.
PolledMore(q) ==
  /\ call[q].op = "poll" /\ count' = IF call[q].count > count THEN call[q].count ELSE count
  /\ UNCHANGED <<open, loading, items>>

Polled(q) ==
  /\ call[q].op = "poll" /\ count' = call[q].count
  /\ UNCHANGED <<open, loading, items>>

\* The click came while the list was closed, so it opens now.
Listed(q) ==
  /\ call[q].op = "list"
  /\ items' = call[q].items /\ loading' = FALSE /\ open' = TRUE
  /\ UNCHANGED count

\* Mutant: the badge is counted down from zero as well.
MarkedBelowZero(q) ==
  /\ call[q].op = "read"
  /\ items' = [n \in DOMAIN items |-> items[n] /\ n # call[q].of]
  /\ count' = count - 1
  /\ UNCHANGED <<open, loading>>

MarkedRead(q) ==
  /\ call[q].op = "read"
  /\ items' = [n \in DOMAIN items |-> items[n] /\ n # call[q].of]
  /\ count' = IF count = 0 THEN 0 ELSE count - 1
  /\ UNCHANGED <<open, loading>>

MarkedAll(q) ==
  /\ call[q].op = "readall"
  /\ items' = [n \in DOMAIN items |-> FALSE] /\ count' = 0
  /\ UNCHANGED <<open, loading>>

Answer(q) ==
  /\ Waits(q) /\ call[q].served
  /\ Polled(q) \/ Listed(q) \/ MarkedRead(q) \/ MarkedAll(q)
  /\ End(q)
  /\ UNCHANGED <<arrived, unread>>

\* An error is ignored, but the list opens as it was.
Fail(q) ==
  /\ Waits(q)
  /\ IF call[q].op = "list" THEN loading' = FALSE /\ open' = TRUE
     ELSE UNCHANGED <<loading, open>>
  /\ End(q)
  /\ UNCHANGED <<arrived, unread, count, items>>

User ==
  \/ Toggle \/ ClickOutside
  \/ \E q \in Calls : HandleMarkAll(q) \/ \E n \in Notes : HandleMarkRead(q, n)

Next ==
  \/ User \/ \E n \in Notes : Arrive(n)
  \/ \E q \in Calls : Poll(q) \/ Serve(q) \/ Answer(q) \/ Fail(q)

Spec == Init /\ [][Next]_vars

-----------------------------------------------------------------------------
\* The badge, the list and the calls.
TypeOK ==
  /\ unread \subseteq arrived /\ arrived \subseteq Notes
  /\ count \in 0 .. Cardinality(Notes)
  /\ {open, loading} \subseteq BOOLEAN
  /\ DOMAIN items \subseteq arrived /\ \A n \in DOMAIN items : items[n] \in BOOLEAN
  /\ DOMAIN call = Calls

\* What settles the badge, and what it then shows.
PollAnswered == \E q \in Calls : Answer(q) /\ call[q].op = "poll"
BadgeTrue == count = Cardinality(unread)

\* A notification shown as read is one that was read: a list answered late may
\* show a read one as unread, never the other way round.
ReadIsRead ==
  \A n \in DOMAIN items : ~items[n] => n \notin unread
=============================================================================
