------------------------------ MODULE FilteredView ------------------------------
(***************************************************************************)
(* The pages that show what the server answers for a filter: a period, a   *)
(* month, a date or an employee.  They differ in what starts a load, in    *)
(* what becomes of an answer for a filter that was left, and in what they  *)
(* do when a load fails; each page is a record that says so.               *)
(***************************************************************************)
EXTENDS Integers, FiniteSets

CONSTANTS
  Filters,
  Calls,       \* bound: calls under way at once
  MaxVersion,  \* bound: times the data change at the server
  None

FilteredViewAssumption ==
  MaxVersion \in Nat /\ None \notin Filters \cup [of : Filters, at : 0 .. MaxVersion]

\* How a page loads.  auto: when the filter changes.  cancels: the answer for a
\* filter that was left is dropped.  polls: at an interval.  clears: a failure
\* empties the page.  flag: it says that it is loading.
MissedLoad == [auto |-> TRUE, cancels |-> TRUE, polls |-> FALSE, clears |-> FALSE, flag |-> TRUE]
GeofenceLoad == [auto |-> TRUE, cancels |-> FALSE, polls |-> TRUE, clears |-> FALSE, flag |-> TRUE]
DashboardLoad == [auto |-> TRUE, cancels |-> FALSE, polls |-> FALSE, clears |-> FALSE, flag |-> TRUE]
HolidayLoad == [auto |-> TRUE, cancels |-> FALSE, polls |-> FALSE, clears |-> FALSE, flag |-> FALSE]
HistoryLoad == [auto |-> TRUE, cancels |-> FALSE, polls |-> FALSE, clears |-> TRUE, flag |-> FALSE]
PayslipLoad == [auto |-> TRUE, cancels |-> FALSE, polls |-> FALSE, clears |-> FALSE, flag |-> FALSE]
ReportLoad == [auto |-> FALSE, cancels |-> FALSE, polls |-> FALSE, clears |-> FALSE, flag |-> FALSE]
DailyLoad == [auto |-> FALSE, cancels |-> FALSE, polls |-> FALSE, clears |-> FALSE, flag |-> TRUE]
MonthLoad == [auto |-> TRUE, cancels |-> FALSE, polls |-> FALSE, clears |-> FALSE, flag |-> FALSE]
DayLoad == [auto |-> TRUE, cancels |-> FALSE, polls |-> FALSE, clears |-> FALSE, flag |-> TRUE]

\* What the reader can do.  button: ask for the data again.  gated: not while they
\* are loading.  blank: there may be no filter.  empties: the data go with it.
MissedTabs == [button |-> FALSE, gated |-> FALSE, blank |-> FALSE, empties |-> FALSE]
GeofenceFilter == [button |-> TRUE, gated |-> TRUE, blank |-> FALSE, empties |-> FALSE]
GeofenceSubmit == [button |-> TRUE, gated |-> FALSE, blank |-> FALSE, empties |-> FALSE]
DashboardControls == [button |-> TRUE, gated |-> TRUE, blank |-> FALSE, empties |-> FALSE]
HistoryControls == [button |-> FALSE, gated |-> FALSE, blank |-> TRUE, empties |-> TRUE]
ReportControls == [button |-> TRUE, gated |-> FALSE, blank |-> TRUE, empties |-> FALSE]
DailyControls == [button |-> TRUE, gated |-> TRUE, blank |-> FALSE, empties |-> FALSE]
MonthControls == [button |-> FALSE, gated |-> FALSE, blank |-> FALSE, empties |-> FALSE]
DayControls == [button |-> TRUE, gated |-> FALSE, blank |-> TRUE, empties |-> TRUE]

Pages ==
  {[load |-> MissedLoad, ui |-> MissedTabs], [load |-> GeofenceLoad, ui |-> GeofenceFilter],
   [load |-> GeofenceLoad, ui |-> GeofenceSubmit], [load |-> DashboardLoad, ui |-> DashboardControls],
   [load |-> HolidayLoad, ui |-> MonthControls], [load |-> HistoryLoad, ui |-> HistoryControls],
   [load |-> PayslipLoad, ui |-> MonthControls], [load |-> ReportLoad, ui |-> ReportControls],
   [load |-> DailyLoad, ui |-> DailyControls], [load |-> MonthLoad, ui |-> MonthControls],
   [load |-> DayLoad, ui |-> DayControls]}

VARIABLES
  page,
  version,  \* of the data at the server
  filter, data, loading,
  failed,   \* whether the last load that counted failed
  call

vars == <<page, version, filter, data, loading, failed, call>>

Data == [of : Filters, at : 0 .. MaxVersion]
Free == [stage |-> "free"]
Busy(q) == call[q] # Free
Sent(f) == [stage |-> "sent", of |-> f, cancelled |-> FALSE]

\* Of a page that cancels, the calls before it count no more.
Cancelled(q) == IF Busy(q) THEN [call[q] EXCEPT !.cancelled = TRUE] ELSE Free
\* Mutant: no call is ever cancelled.
KeptAll(changes) == call

Kept(changes) == [q \in Calls |-> IF page.load.cancels /\ changes THEN Cancelled(q) ELSE call[q]]

Load(f, changes) ==
  /\ \E q \in Calls : ~Busy(q) /\ call' = [Kept(changes) EXCEPT ![q] = Sent(f)]
  /\ loading' = page.load.flag

Init ==
  /\ page \in Pages /\ version = 0 /\ data = None /\ failed = FALSE
  /\ filter \in IF page.ui.blank THEN {None} ELSE Filters
  /\ IF page.load.auto /\ filter # None
     THEN \E q \in Calls :
            /\ call = [p \in Calls |-> IF p = q THEN Sent(filter) ELSE Free]
            /\ loading = page.load.flag
     ELSE call = [p \in Calls |-> Free] /\ loading = FALSE

-----------------------------------------------------------------------------
\* Mutant: a blank filter is asked for as well.
ChooseBlank(f) ==
  /\ f # filter /\ (f = None => page.ui.blank) /\ filter' = f
  /\ IF page.load.auto THEN Load(f, TRUE) ELSE UNCHANGED <<loading, call>>
  /\ data' = IF f = None /\ page.ui.empties THEN None ELSE data
  /\ UNCHANGED <<page, version, failed>>

\* Another tab, month, date or employee.
Choose(f) ==
  /\ f # filter /\ (f = None => page.ui.blank) /\ filter' = f
  /\ IF page.load.auto /\ f # None THEN Load(f, TRUE) ELSE UNCHANGED <<loading, call>>
  /\ data' = IF f = None /\ page.ui.empties THEN None ELSE data
  /\ UNCHANGED <<page, version, failed>>

Refresh ==
  /\ page.ui.button /\ filter # None /\ (page.ui.gated => ~loading)
  /\ Load(filter, FALSE)
  /\ UNCHANGED <<page, version, filter, data, failed>>

Poll ==
  /\ page.load.polls /\ Load(filter, FALSE)
  /\ UNCHANGED <<page, version, filter, data, failed>>

-----------------------------------------------------------------------------
Change ==
  /\ version < MaxVersion /\ version' = version + 1
  /\ UNCHANGED <<page, filter, data, loading, failed, call>>

Serve(q) ==
  /\ call[q].stage = "sent"
  /\ call' = [call EXCEPT ![q] = [stage |-> "done", of |-> @.of, cancelled |-> @.cancelled,
                                  at |-> version]]
  /\ UNCHANGED <<page, version, filter, data, loading, failed>>

Answer(q) ==
  /\ call[q].stage = "done" /\ call' = [call EXCEPT ![q] = Free]
  /\ IF call[q].cancelled THEN UNCHANGED <<data, loading, failed>>
     ELSE /\ data' = [of |-> call[q].of, at |-> call[q].at]
          /\ loading' = FALSE /\ failed' = FALSE
  /\ UNCHANGED <<page, version, filter>>

Fail(q) ==
  /\ Busy(q) /\ call' = [call EXCEPT ![q] = Free]
  /\ IF call[q].cancelled THEN UNCHANGED <<data, loading, failed>>
     ELSE /\ data' = IF page.load.clears THEN None ELSE data
          /\ loading' = FALSE /\ failed' = TRUE
  /\ UNCHANGED <<page, version, filter>>

Reader == Refresh \/ \E f \in Filters \cup {None} : Choose(f)

Next == Reader \/ Poll \/ Change \/ \E q \in Calls : Serve(q) \/ Answer(q) \/ Fail(q)

Spec == Init /\ [][Next]_vars

-----------------------------------------------------------------------------
\* The page and its calls.
TypeOK ==
  /\ page \in Pages /\ version \in 0 .. MaxVersion /\ filter \in Filters \cup {None}
  /\ data \in Data \cup {None} /\ loading \in BOOLEAN /\ failed \in BOOLEAN
  /\ \A q \in Calls : Busy(q) => call[q].of \in Filters /\ call[q].cancelled \in BOOLEAN

\* MissedAttendancePanel shows the period that is chosen whenever it does not say
\* that it is loading and the last load did not fail, however answers cross.
CancellingShowsFilter ==
  page.load.cancels /\ ~loading /\ ~failed => data # None /\ data.of = filter

Quiet == \A q \in Calls : ~Busy(q)

\* What the other pages show once every answer has come.
ShowsFilter == Quiet /\ ~failed /\ data # None /\ page.load.auto => data.of = filter
=============================================================================
