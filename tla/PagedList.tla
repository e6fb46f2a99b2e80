------------------------------ MODULE PagedList ------------------------------
(***************************************************************************)
(* The lists that the server pages: pages/employees/EmployeeList.tsx, and  *)
(* with fewer controls pages/auth/UserManagement.tsx, pages/companies/     *)
(* CompanyList.tsx and pages/rbac/AuditLogs.tsx.  What is typed, chosen or *)
(* turned sends a call; calls are answered in any order, and each answer   *)
(* replaces the list.  A row is deleted after a dialog                     *)
(* (components/ConfirmModal.tsx), which bootstrap shows and hides.         *)
(***************************************************************************)
EXTENDS Integers, Sequences, SequencesExt, FiniteSets, FiniteSetsExt

CONSTANTS
  Rows,       \* ids of rows, of those imported too
  Searches,   \* texts of the search field, the empty one among them
  Found,      \* Found[s]: the rows that s finds
  Sizes,      \* rows of a page that may be chosen
  Calls,      \* bound: calls under way at once
  None

PagedListAssumption ==
  /\ Rows \subseteq Nat /\ IsFiniteSet(Rows) /\ None \notin Rows
  /\ Found \in [Searches -> SUBSET Rows] /\ \E s \in Searches : Found[s] = Rows
  /\ Sizes \subseteq Nat \ {0} /\ IsFiniteSet(Sizes) /\ Sizes # {}

VARIABLES
  screen,               \* which of the pages
  rows,                 \* the server's rows
  search, page, perPage,
  items, pages,         \* the list that is shown
  target, shown,        \* the row a dialog asks about; whether it is seen
  importing,
  call

view == <<search, page, perPage>>
list == <<items, pages>>
dialog == <<target, shown>>
vars == <<screen, rows, view, list, dialog, importing, call>>

\* What the pages differ in: a choice of the page's size, an import, a deletion
\* and whether its dialog is put away also when it fails.
EmployeeList == [sizes |-> TRUE, imports |-> TRUE, deletes |-> TRUE, tidies |-> FALSE]
UserManagement == [sizes |-> TRUE, imports |-> FALSE, deletes |-> TRUE, tidies |-> TRUE]
CompanyList == [sizes |-> FALSE, imports |-> FALSE, deletes |-> TRUE, tidies |-> TRUE]
AuditLogs == [sizes |-> FALSE, imports |-> FALSE, deletes |-> FALSE, tidies |-> TRUE]

Screens == {EmployeeList, UserManagement, CompanyList, AuditLogs}

Free == [op |-> "free"]
Waits(q) == call[q] # Free
Quiet == \A q \in Calls : ~Waits(q)

Request(s, p, n) == [op |-> "list", search |-> s, page |-> p, perPage |-> n, served |-> FALSE]
Current == Request(search, page, perPage)

\* The calls are sent on those that are free.
Sends(cs) ==
  \E f \in [1 .. Len(cs) -> Calls] :
    /\ IsInjective(f) /\ \A i \in DOMAIN f : ~Waits(f[i])
    /\ call' = [q \in Calls |-> IF \E i \in DOMAIN f : f[i] = q
                                THEN cs[CHOOSE i \in DOMAIN f : f[i] = q] ELSE call[q]]

\* The i-th of them in order is the one with i - 1 before it.
Sorted(S) ==
  [i \in 1 .. Cardinality(S) |-> CHOOSE x \in S : Cardinality({y \in S : y < x}) = i - 1]

\* The server's answer: the rows of a page in order, none past the last page.
ResultAmong(all, r) ==
  LET found == Sorted(all \cap Found[r.search])
      from == (r.page - 1) * r.perPage + 1
  IN [items |-> SubSeq(found, from, IF from + r.perPage - 1 < Len(found)
                                    THEN from + r.perPage - 1 ELSE Len(found)),
      pages |-> IF found = <<>> THEN 1 ELSE (Len(found) + r.perPage - 1) \div r.perPage]

Result(r) == ResultAmong(rows, r)

Init ==
  /\ screen \in Screens
  /\ rows \in SUBSET Rows
  /\ search = CHOOSE s \in Searches : Found[s] = Rows
  /\ page = 1 /\ perPage = Max(Sizes)
  /\ items = <<>> /\ pages = 1
  /\ target = None /\ shown = FALSE /\ importing = FALSE
  /\ \E q \in Calls : call = [p \in Calls |-> IF p = q THEN Current ELSE Free]

-----------------------------------------------------------------------------
\* A text that is typed is searched on the page one is on, and, as the first
\* page is turned to only then, on that one too.
SetSearch(s) ==
  /\ s # search
  /\ search' = s /\ page' = 1
  /\ Sends(IF page = 1 THEN <<Request(s, 1, perPage)>>
           ELSE <<Request(s, page, perPage), Request(s, 1, perPage)>>)
  /\ UNCHANGED <<screen, rows, perPage, list, dialog, importing>>

SetPerPage(n) ==
  /\ screen.sizes /\ n # perPage
  /\ perPage' = n /\ page' = 1
  /\ Sends(<<Request(search, 1, n)>>)
  /\ UNCHANGED <<screen, rows, search, list, dialog, importing>>

\* The numbered buttons: 0 is an ellipsis.
GetPageNumbers(p, n) ==
  IF n <= 7 THEN [i \in 1 .. n |-> i]
  ELSE LET from == IF p - 1 > 2 THEN p - 1 ELSE 2
           to == IF p + 1 < n - 1 THEN p + 1 ELSE n - 1
       IN <<1>> \o (IF p > 3 THEN <<0>> ELSE <<>>)
          \o [i \in 1 .. to - from + 1 |-> from + i - 1]
          \o (IF p < n - 2 THEN <<0>> ELSE <<>>) \o <<n>>

\* The buttons and the arrows, which show only if there are several pages.
Turns == (ToSet(GetPageNumbers(page, pages)) \ {0})
         \cup {Max({1, page - 1}), Min({pages, page + 1})}

SetPage(p) ==
  /\ pages > 1 /\ p \in Turns \ {page}
  /\ page' = p
  /\ Sends(<<Request(search, p, perPage)>>)
  /\ UNCHANGED <<screen, rows, search, perPage, list, dialog, importing>>

\* The dialog is shown when there comes to be a row to ask about.
AskDelete(id) ==
  /\ screen.deletes /\ ~shown /\ id \in ToSet(items)
  /\ target' = id /\ shown' = (target = None)
  /\ UNCHANGED <<screen, rows, view, list, importing, call>>

CancelDelete ==
  /\ shown
  /\ target' = None /\ shown' = FALSE
  /\ UNCHANGED <<screen, rows, view, list, importing, call>>

\* Escape, or a click beside it, hides the dialog: the page is not told.
DismissDelete ==
  /\ shown /\ shown' = FALSE
  /\ UNCHANGED <<screen, rows, view, list, target, importing, call>>

\* The list will be asked for again as it stands now.
HandleDelete ==
  /\ shown
  /\ shown' = FALSE
  /\ Sends(<<[op |-> "delete", of |-> target, again |-> Current, served |-> FALSE]>>)
  /\ UNCHANGED <<screen, rows, view, list, target, importing>>

HandleImportFile ==
  /\ screen.imports /\ ~importing
  /\ importing' = TRUE
  /\ Sends(<<[op |-> "import", again |-> Current, served |-> FALSE]>>)
  /\ UNCHANGED <<screen, rows, view, list, dialog>>

-----------------------------------------------------------------------------
Serve(q) ==
  LET c == call[q]
      Done == call' = [call EXCEPT ![q].served = TRUE]
  IN /\ Waits(q) /\ ~c.served
     /\ \/ /\ c.op = "list" /\ UNCHANGED rows
           /\ call' = [call EXCEPT ![q] = [op |-> "list", result |-> Result(c), served |-> TRUE]]
        \/ /\ c.op = "delete" /\ c.of \in rows
           /\ rows' = rows \ {c.of} /\ Done
        \/ /\ c.op = "import"
           /\ \E new \in SUBSET (Rows \ rows) : rows' = rows \cup new
           /\ Done
     /\ UNCHANGED <<screen, view, list, dialog, importing>>

Listed(q) ==
  /\ call[q].op = "list"
  /\ items' = call[q].result.items /\ pages' = call[q].result.pages
  /\ call' = [call EXCEPT ![q] = Free]
  /\ UNCHANGED <<dialog, importing>>

\* The dialog is put away, and the list asked for as it was at the click.
Deleted(q) ==
  /\ call[q].op = "delete"
  /\ target' = None /\ shown' = FALSE
  /\ call' = [call EXCEPT ![q] = @.again]
  /\ UNCHANGED <<list, importing>>

Imported(q) ==
  /\ call[q].op = "import"
  /\ importing' = FALSE
  /\ call' = [call EXCEPT ![q] = @.again]
  /\ UNCHANGED <<list, dialog>>

Answer(q) ==
  /\ Waits(q) /\ call[q].served
  /\ Listed(q) \/ Deleted(q) \/ Imported(q)
  /\ UNCHANGED <<screen, rows, view>>

Fail(q) ==
  /\ Waits(q)
  /\ IF call[q].op = "delete" /\ screen.tidies THEN target' = None /\ shown' = FALSE
     ELSE UNCHANGED dialog
  /\ importing' = IF call[q].op = "import" THEN FALSE ELSE importing
  /\ call' = [call EXCEPT ![q] = Free]
  /\ UNCHANGED <<screen, rows, view, list>>

User ==
  \/ \E s \in Searches : SetSearch(s)
  \/ \E n \in Sizes : SetPerPage(n)
  \/ \E p \in 1 .. Cardinality(Rows) : SetPage(p)
  \/ \E id \in Rows : AskDelete(id)
  \/ CancelDelete \/ DismissDelete \/ HandleDelete \/ HandleImportFile

Next == User \/ \E q \in Calls : Serve(q) \/ Answer(q) \/ Fail(q)

Spec == Init /\ [][Next]_vars

-----------------------------------------------------------------------------
\* The controls, the list and the dialog.
TypeOK ==
  /\ screen \in Screens /\ rows \subseteq Rows
  /\ search \in Searches /\ page \in Nat \ {0} /\ perPage \in Sizes
  /\ items \in Seq(Rows) /\ pages \in Nat \ {0}
  /\ target \in Rows \cup {None}
  /\ {shown, importing} \subseteq BOOLEAN
  /\ DOMAIN call = Calls

\* The list that is shown once all calls have ended is that of the search, the
\* page and the size that are shown with it.
ShowsView ==
  Quiet => [items |-> items, pages |-> pages] = Result(Current)

\* The dialog asks about a row that was clicked.
AsksForTarget == shown => target # None

\* Of the numbered buttons the first and the last page, and that one is on, are
\* among them in order, and an ellipsis stands for one page at least.
PagerComplete(p, n) ==
  LET b == GetPageNumbers(p, n)
  IN /\ {1, p, n} \subseteq ToSet(b)
     /\ \A i, j \in 1 .. Len(b) : i < j /\ b[i] # 0 /\ b[j] # 0 => b[i] < b[j]
     /\ \A i \in 1 .. Len(b) - 1 :
          IF b[i + 1] = 0 THEN b[i] + 1 < b[i + 2] ELSE b[i] = 0 \/ b[i + 1] = b[i] + 1
=============================================================================
