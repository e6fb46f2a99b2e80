------------------------------- MODULE MCScreens -------------------------------
(***************************************************************************)
(* The pages that show rows of the server and act on them, for TLC: tables *)
(* with a status, lists that are paged, views of a filter, and the page    *)
(* for clocking in; and two routers behind such pages, those of the face   *)
(* scans and of the vehicles.  One of them is looked at, at is its name,   *)
(* and only its variables change; those that name one alike share it.      *)
(***************************************************************************)
EXTENDS Worktable, PhysicalParameters, TLC

CONSTANTS Searches, Found, Sizes, Filters, MaxVersion, Employees, MaxAsked, MaxSessions, MaxChecks,
          Vehicles, Drivers, Assignments

VARIABLES
  at,
  screen, search, perPage, items, pages, target, importing,       \* the lists
  version, filter, data, loading, failed,                         \* the views
  att, here, activeTab, selectedEmp, todayRecord, loadingMan,     \* clocking in
  manStep, manAction, manPhoto, scanning, scanResult, asked, known, lost, camOpen, camReady,
  attached, session, running, blinkCam, frames, isChecking, blinkVerified, checks,
  users, sites, today, now,                                       \* face scans
  status, drivers, assignments,                                   \* vehicles
  request,                                                        \* scans and vehicles
  alone,    \* whether nobody else has changed a row, or run a handler
  calm,     \* whether the user always waited for the calls under way, and none failed
  orderly,  \* the same, but only of what the page itself cannot wait for
  edited    \* whether somebody has set the status of a vehicle by hand

L == INSTANCE PagedList
F == INSTANCE FilteredView
A == INSTANCE AttendanceEntry
S == INSTANCE PhysicalAttendance
V == INSTANCE Fleet

ASSUME AssumptionsOfScreens ==
  /\ L!PagedListAssumption /\ F!FilteredViewAssumption
  /\ A!AttendanceEntryAssumption /\ V!FleetAssumption

MCFound == ("" :> {1, 2}) @@ ("x" :> {2})
MCCompanyOf == [w \in Workers |-> "a"]
MCOwnerOf == (1 :> "a") @@ (2 :> "b")
Symmetric == Permutations(Requests) \cup Permutations(Vehicles) \cup Permutations(Drivers)

tableVars == <<rows, busy, dialog>>
listVars == <<screen, search, perPage, items, pages, target, importing>>
viewVars == <<version, filter, data, loading, failed>>
clockVars == <<att, here, activeTab, selectedEmp, todayRecord, loadingMan, manStep, manAction,
               manPhoto, scanning, scanResult, asked, known, lost, camOpen, camReady, attached,
               session, running, blinkCam, frames, isChecking, blinkVerified, checks>>
scanVars == <<users, sites, today, now>>
fleetVars == <<status, drivers, assignments>>
handlerVars == <<scanVars, fleetVars, request, edited>>
pageVars == <<tableVars, listVars, viewVars, clockVars, page, shown, call>>
everything == <<pageVars, scanVars, fleetVars, request, at, alone, calm, orderly, edited>>

NoTable == rows = None /\ busy = None /\ dialog = None
NoList == /\ screen = None /\ search = None /\ perPage = None /\ items = None
          /\ pages = None /\ target = None /\ importing = None
NoView == version = None /\ filter = None /\ data = None /\ loading = None /\ failed = None
NoClock == /\ att = None /\ here = None /\ activeTab = None /\ selectedEmp = None
           /\ todayRecord = None /\ loadingMan = None /\ manStep = None /\ manAction = None
           /\ manPhoto = None /\ scanning = None /\ scanResult = None /\ asked = None
           /\ known = None /\ lost = None /\ camOpen = None /\ camReady = None
           /\ attached = None /\ session = None /\ running = None /\ blinkCam = None
           /\ frames = None /\ isChecking = None /\ blinkVerified = None /\ checks = None
NoScans == users = None /\ sites = None /\ today = None /\ now = None
NoFleet == status = None /\ drivers = None /\ assignments = None
NoHandlers == NoScans /\ NoFleet /\ request = None
NoPages == /\ NoTable /\ NoList /\ NoView /\ NoClock
           /\ page = None /\ shown = None /\ call = None

-----------------------------------------------------------------------------
MCInit ==
  /\ alone = TRUE /\ calm = TRUE /\ orderly = TRUE /\ edited = FALSE
  /\ \/ at = "table" /\ Init /\ NoList /\ NoView /\ NoClock /\ NoHandlers
     \/ /\ at = "list" /\ L!Init /\ busy = None /\ dialog = None
        /\ NoView /\ NoClock /\ NoHandlers
     \/ /\ at = "view" /\ F!Init /\ NoTable /\ shown = None
        /\ NoList /\ NoClock /\ NoHandlers
     \/ /\ at = "clock" /\ A!Init /\ \A e \in Employees : att[e] = "none"
        /\ NoTable /\ page = None /\ shown = None /\ NoList /\ NoView /\ NoHandlers
     \/ at = "scan" /\ S!Init /\ NoPages /\ NoFleet
     \/ at = "fleet" /\ V!Init /\ NoPages /\ NoScans

Started == \E q \in Calls : ~Busy(q) /\ call'[q] # Free

\* The list that an action waits for is the only call that it need not wait for.
OnlyHeld == \A q \in Calls : Busy(q) => call[q].kind = "load" /\ call[q].held

LostAnswer == \E q \in Calls : Fail(q) /\ (call[q].kind = "load" \/ call[q].stage = "done")

TableNext ==
  /\ at = "table"
  /\ \/ /\ User /\ UNCHANGED alone
        /\ calm' = (calm /\ (Started => Quiet))
        /\ orderly' = (orderly /\ (Started => OnlyHeld) /\ (Refresh => Quiet))
     \/ /\ Answers /\ UNCHANGED alone
        /\ calm' = (calm /\ ~LostAnswer) /\ orderly' = (orderly /\ ~LostAnswer)
     \/ /\ alone /\ \E r \in Rows : Elsewhere(r)
        /\ alone' = FALSE /\ calm' = FALSE /\ orderly' = FALSE
  /\ UNCHANGED <<listVars, viewVars, clockVars, handlerVars>>

ListNext ==
  /\ at = "list"
  /\ \/ /\ L!User
        /\ calm' = (calm /\ \A p, q \in Calls : call'[p] # L!Free /\ call'[q] # L!Free => p = q)
     \/ (\E q \in Calls : L!Serve(q) \/ L!Answer(q)) /\ UNCHANGED calm
     \/ (\E q \in Calls : L!Fail(q)) /\ calm' = FALSE
  /\ UNCHANGED <<busy, dialog, viewVars, clockVars, handlerVars, alone, orderly>>

ViewNext ==
  /\ at = "view" /\ F!Next
  /\ calm' = (calm /\ (F!Reader \/ F!Poll => F!Quiet))
  /\ UNCHANGED <<tableVars, shown, listVars, clockVars, handlerVars, alone, orderly>>

\* The camera answers before anything else is done, and is not refused for a photo
\* that is taken again.
Unasked == \A c \in A!Cams : asked[c] = 0
Answered == \E q \in Calls, ok \in BOOLEAN : A!Answer(q, ok)
Refused == \E c \in A!Cams : A!Denied(c)

Camera == \E c \in A!Cams : A!Granted(c)

ClockNext ==
  /\ at = "clock"
  /\ \/ A!User /\ calm' = (calm /\ A!Quiet) /\ orderly' = (orderly /\ Unasked)
     \/ (A!Detection \/ Camera \/ \E q \in Calls : A!Serve(q)) /\ UNCHANGED <<calm, orderly>>
     \/ Answered /\ orderly' = (orderly /\ Unasked) /\ UNCHANGED calm
     \/ Refused /\ orderly' = (orderly /\ manStep # "confirm") /\ UNCHANGED calm
  /\ UNCHANGED <<tableVars, page, shown, listVars, viewVars, handlerVars, alone>>

\* Nothing else happens between the start of a handler and its commit.
NoHandler == \A r \in Requests : request[r] = None

ScanNext ==
  /\ at = "scan"
  /\ \/ /\ \/ \E r \in Requests : S!Admin(r) \/ S!Scans(r)
           \/ \E s \in Sites : S!UpdateLocation(s) \/ S!DeleteLocation(s)
           \/ \E w \in Workers : S!Elsewhere(w)
        /\ alone' = (alone /\ NoHandler)
     \/ (S!Tick \/ S!Restart \/ \E r \in Requests : S!Commit(r)) /\ UNCHANGED alone
  /\ UNCHANGED <<pageVars, fleetVars, calm, orderly, edited>>

FleetNext ==
  /\ at = "fleet"
  /\ \/ (V!Edits \/ \E r \in Requests : V!Begins(r))
        /\ alone' = (alone /\ NoHandler) /\ UNCHANGED edited
     \/ (V!Restart \/ \E r \in Requests : V!Commit(r)) /\ UNCHANGED <<alone, edited>>
     \/ /\ ~edited /\ \E v \in Vehicles : V!UpdateVehicle(v)
        /\ edited' = TRUE /\ UNCHANGED alone
  /\ UNCHANGED <<pageVars, scanVars, calm, orderly>>

MCNext ==
  /\ TableNext \/ ListNext \/ ViewNext \/ ClockNext \/ ScanNext \/ FleetNext
  /\ UNCHANGED at

MCSpec == MCInit /\ [][MCNext]_everything

-----------------------------------------------------------------------------
\* What is looked at keeps its type invariant.
TypesOK ==
  /\ at = "table" => TypeOK
  /\ at = "list" => L!TypeOK
  /\ at = "view" => F!TypeOK
  /\ at = "clock" => A!TypeOK
  /\ at = "scan" => S!TypeOK
  /\ at = "fleet" => V!TypeOK

\* The numbered buttons of up to twelve pages lead to all of them.
Pagers == \A n \in 1 .. 12 : \A p \in 1 .. n : L!PagerComplete(p, n)

\* Of a user who waits for each answer the page shows, once there is nothing to
\* wait for, what the server has for the search, page, filter or employee chosen;
\* a dialog asks about a row that is there; and the panel of the missed attendance
\* shows the chosen period however the answers cross (MissedAttendancePanel.tsx:54).
ShowsCurrent ==
  /\ calm => /\ at = "table" => ShowsServer
             /\ at = "list" => L!ShowsView
             /\ at = "view" => F!ShowsFilter
             /\ at = "clock" /\ A!Quiet => A!RecordOfSelected
  /\ at = "list" => Pagers /\ L!AsksForTarget
  /\ at = "view" => F!CancellingShowsFilter

\* Buttons are disabled exactly while the one call that disables them goes on; and
\* a page that is busy until its list is loaded again never asks for what the
\* server refuses, as long as nobody else changes the rows.  Before the camera there
\* is always a way on, and a camera that runs is one that the page can stop.
ButtonsWork ==
  /\ at = "table" => BusyIsHeld /\ (orderly => ActsOnCurrent)
  /\ at = "clock" /\ orderly => A!NeverStuck /\ A!ActionKnown /\ A!CamerasKnown

\* Attendance by face scan is marked at sites of the worker's company and never ended
\* by a double tap, whatever overlaps; and a user has a site only as a supervisor of
\* its company, if handlers run one at a time (physical_attendance_service.py:93).
ScansSound ==
  at = "scan" =>
    /\ S!ScansApart /\ S!MarkedAtOwnSites
    /\ alone => S!SitesOfSupervisors

\* An assignment is of a vehicle and a driver that exist; and if handlers run one at
\* a time and the status is not set by hand, a vehicle is "assigned" exactly while
\* somebody drives it, and nobody drives two (routers/assignments.py:63).
VehiclesMatch ==
  at = "fleet" =>
    /\ V!AssignmentsOwned
    /\ alone /\ ~edited => V!AssignmentsTrue /\ V!TakenIsDriven
=============================================================================
