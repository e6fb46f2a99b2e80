----------------------------- MODULE ScreensProofs -----------------------------
(***************************************************************************)
(* Proofs about MCScreens, for any number of rows, calls, filters,         *)
(* employees, threads and users.  A page changes between a call and its    *)
(* answer, and a router reads and checks in one step and writes in         *)
(* another, so what is true depends on what lies between: the invariants   *)
(* here say what a call or a handler under way still knows, always or only *)
(* as long as one waits for the other.                                     *)
(***************************************************************************)
EXTENDS MCScreens, FiniteSetTheorems, SequenceTheorems, WellFoundedInduction, TLAPS

-----------------------------------------------------------------------------
(***************************************************************************)
(* Vehicles.                                                               *)
(***************************************************************************)
IsActive(a) == assignments[a] # None /\ assignments[a].active

\* At most one handler is under way.
OneHandler == \A p, r \in Requests : request[p] # None /\ request[r] # None => p = r

\* Of a vehicle and of a driver there is at most one active assignment, and the vehicle
\* is "assigned" exactly while there is one.
OnePerVehicle ==
  \A a, b \in Assignments :
    IsActive(a) /\ IsActive(b) /\ assignments[a].vehicle = assignments[b].vehicle => a = b
OnePerDriver ==
  \A a, b \in Assignments :
    IsActive(a) /\ IsActive(b) /\ assignments[a].driver = assignments[b].driver => a = b
ActiveIsTaken ==
  \A a \in Assignments : IsActive(a) => status[assignments[a].vehicle] = "assigned"
TakenIsActive ==
  \A v \in Vehicles :
    status[v] = "assigned" /\ drivers = Drivers =>
      \E a \in Assignments : IsActive(a) /\ assignments[a].vehicle = v

\* What the handler under way has read is still so.
AssignKnows(r) ==
  request[r] \in V!AssignOf =>
    /\ status[request[r].vehicle] = "available"
    /\ request[r].driver \in drivers
    /\ \A a \in Assignments : IsActive(a) => assignments[a].driver # request[r].driver
ReleaseKnows(r) ==
  request[r] \in V!ReleaseOf =>
    /\ IsActive(request[r].id)
    /\ assignments[request[r].id].vehicle = request[r].vehicle
    /\ request[r].read = status[request[r].vehicle]

FleetApart ==
  /\ OneHandler /\ OnePerVehicle /\ OnePerDriver /\ ActiveIsTaken /\ TakenIsActive
  /\ \A r \in Requests : AssignKnows(r) /\ ReleaseKnows(r)

FleetInv ==
  /\ V!TypeOK /\ V!AssignmentsOwned
  /\ alone /\ ~edited => FleetApart

-----------------------------------------------------------------------------
(***************************************************************************)
(* Face scans.                                                             *)
(***************************************************************************)
Sound(user) ==
  user.site # None =>
    /\ user.role = "supervisor" /\ OwnerOf[user.site] = user.company
    /\ sites[user.site] # "deleted"

\* The row that an edit has read is still there, and what it writes is sound.
EditKnows(r) ==
  request[r] \in EditOf =>
    request[r].read = users[request[r].user] /\ Sound(request[r].new)

ScanApart ==
  /\ OneHandler
  /\ \A u \in Supervisors : Sound(users[u])
  /\ \A r \in Requests : EditKnows(r)

\* What a thread that has scanned a worker knows when it commits.
ScanSound(r) ==
  /\ request[r] \in S!ClockIn =>
       OwnerOf[request[r].site] = CompanyOf[request[r].worker]
  /\ request[r] \in S!ClockOut =>
       /\ OwnerOf[request[r].site] = CompanyOf[request[r].worker]
       /\ request[r].at - request[r].read.entry >= MinGap
       /\ S!SameRow(request[r].worker, request[r].read) =>
            today[request[r].worker].entry = request[r].read.entry

ScanIInv ==
  /\ S!TypeOK
  /\ S!ScansApart
  /\ S!MarkedAtOwnSites
  /\ \A r \in Requests : ScanSound(r)

ScanInv == ScanIInv /\ (alone => ScanApart)

-----------------------------------------------------------------------------
(***************************************************************************)
(* The face scans on their own.  A scan decides from a row and a site that *)
(* may be gone or changed when it commits; what keeps its decision right   *)
(* is that the update names the row by its id, that the entry of a row     *)
(* never changes, and that the supervisor and the site were read together. *)
(***************************************************************************)
LEMMA ScanNone ==
  None \notin S!Row \cup S!EditOf \cup S!ClockIn \cup S!ClockOut \cup S!Times
BY NoneAssumption
   DEF Row, S!Row, EditOf, S!EditOf, ClockIn, S!ClockIn, ClockOut, S!ClockOut,
       Times, S!Times, UserRow, S!UserRow

\* The kinds of work are told apart by op.
LEMMA ScanWorks ==
  ASSUME NEW x \in S!EditOf \cup S!ClockIn \cup S!ClockOut
  PROVE  /\ x \in S!EditOf <=> x.op = "edit"
         /\ x \in S!ClockIn <=> x.op = "in"
         /\ x \in S!ClockOut <=> x.op = "out"
BY DEF S!EditOf, S!ClockIn, S!ClockOut

LEMMA ScansInit == S!Init => ScanIInv
<1> SUFFICES ASSUME S!Init PROVE ScanIInv
  OBVIOUS
<1>1. S!TypeOK
  BY PhysicalAttendanceAssumption DEF S!Init, S!TypeOK, S!Times
<1>2. \A r \in Requests : ScanSound(r)
  BY ScanNone DEF S!Init, ScanSound
<1>3. S!ScansApart /\ S!MarkedAtOwnSites
  BY DEF S!Init, S!ScansApart, S!MarkedAtOwnSites
<1>4. QED
  BY <1>1, <1>2, <1>3 DEF ScanIInv

\* A handler that begins touches no table.
LEMMA BeginKeeps ==
  ASSUME ScanIInv, NEW r \in Requests, NEW work \in S!EditOf \cup S!ClockIn \cup S!ClockOut,
         S!Begin(r, work), ScanSound(r)'
  PROVE  ScanIInv'
<1>1. S!TypeOK'
  BY DEF ScanIInv, S!TypeOK, S!Begin
<1>2. S!ScansApart' /\ S!MarkedAtOwnSites'
  BY DEF ScanIInv, S!Begin, S!ScansApart, S!MarkedAtOwnSites
<1>3. ASSUME NEW q \in Requests PROVE ScanSound(q)'
  <2>1. CASE q # r
    <3>1. request'[q] = request[q] /\ UNCHANGED today
      BY <2>1 DEF ScanIInv, S!TypeOK, S!Begin
    <3>2. QED
      BY <3>1 DEF ScanIInv, ScanSound, S!SameRow
  <2>2. QED
    BY <2>1
<1>4. QED
  BY <1>1, <1>2, <1>3 DEF ScanIInv

LEMMA AdminKeeps ==
  ASSUME ScanIInv, NEW r \in Requests, NEW u \in Supervisors, S!SetSite(r, u) \/ S!UpdateUser(r, u)
  PROVE  ScanIInv'
<1>1. users[u] \in S!UserRow
  BY DEF ScanIInv, S!TypeOK
<1>2. PICK new \in S!UserRow : S!Begin(r, S!Edit(u, new))
  <2>1. CASE S!SetSite(r, u)
    BY <1>1, <2>1 DEF S!SetSite, S!UserRow
  <2>2. CASE S!UpdateUser(r, u)
    <3>1. PICK role \in {"supervisor", "other"}, c \in Companies :
            S!Begin(r, S!Edit(u, S!DropSiteIfIneligible(
                               [users[u] EXCEPT !.role = role, !.company = c],
                               users[u].company)))
      BY <2>2 DEF S!UpdateUser
    <3>2. [users[u] EXCEPT !.role = role, !.company = c] \in S!UserRow
      BY <1>1 DEF S!UserRow
    <3>3. \A user \in S!UserRow : \A c1 : S!DropSiteIfIneligible(user, c1) \in S!UserRow
      BY DEF S!DropSiteIfIneligible, S!UserRow
    <3>4. QED
      BY <3>1, <3>2, <3>3
  <2>3. QED
    BY <2>1, <2>2
<1>3. S!Edit(u, new) \in S!EditOf
  BY <1>1 DEF S!Edit, S!EditOf
<1>4. request'[r] = S!Edit(u, new)
  BY <1>2 DEF S!Begin, ScanIInv, S!TypeOK
<1>5. ScanSound(r)'
  BY <1>4 DEF ScanSound, S!Edit, S!ClockIn, S!ClockOut
<1>6. QED
  BY <1>2, <1>3, <1>5, BeginKeeps

LEMMA ScanningKeeps ==
  ASSUME ScanIInv, NEW r \in Requests, NEW u \in Supervisors, NEW w \in Workers, S!Scan(r, u, w)
  PROVE  ScanIInv'
<1>1. /\ users[u] \in S!UserRow /\ users[u].site \in Sites
      /\ OwnerOf[users[u].site] = CompanyOf[w]
      /\ now \in S!Times
  BY DEF ScanIInv, S!TypeOK, S!Scan, S!IsEnabled, S!GetSite, S!UserRow
<1>2. CASE /\ today[w] = None
           /\ S!Begin(r, [op |-> "in", worker |-> w, at |-> now, site |-> users[u].site])
  <2> DEFINE work == [op |-> "in", worker |-> w, at |-> now, site |-> users[u].site]
  <2>1. work \in S!ClockIn /\ work \notin S!ClockOut
    BY <1>1 DEF S!ClockIn, S!ClockOut
  <2>2. request'[r] = work
    BY <1>2 DEF S!Begin, ScanIInv, S!TypeOK
  <2>3. ScanSound(r)'
    BY <1>1, <2>1, <2>2 DEF ScanSound
  <2>4. QED
    BY <1>2, <2>1, <2>3, BeginKeeps
<1>3. CASE /\ today[w] # None /\ today[w].exit = None
           /\ ~S!ClockOutTooSoon(today[w].entry, now)
           /\ S!Begin(r, [op |-> "out", worker |-> w, at |-> now, site |-> users[u].site,
                        read |-> today[w]])
  <2> DEFINE work == [op |-> "out", worker |-> w, at |-> now, site |-> users[u].site,
                      read |-> today[w]]
  <2>1. today[w] \in S!Row
    BY <1>3 DEF ScanIInv, S!TypeOK
  <2>2. work \in S!ClockOut /\ work \notin S!ClockIn
    BY <1>1, <2>1 DEF S!ClockIn, S!ClockOut
  <2>3. request'[r] = work /\ UNCHANGED today
    BY <1>3 DEF S!Begin, ScanIInv, S!TypeOK
  <2>4. now - today[w].entry >= MinGap
    BY <1>1, <1>3, <2>1, PhysicalAttendanceAssumption DEF S!ClockOutTooSoon, S!Row, S!Times
  <2>5. ScanSound(r)'
    BY <1>1, <2>2, <2>3, <2>4 DEF ScanSound
  <2>6. QED
    BY <1>3, <2>2, <2>5, BeginKeeps
<1>4. QED
  BY <1>2, <1>3 DEF S!Scan

-----------------------------------------------------------------------------
\* A thread that is finished, while the others keep what they have in hand.
LEMMA FinishSound ==
  ASSUME ScanIInv, NEW r \in Requests, S!Finish(r), UNCHANGED today, NEW q \in Requests
  PROVE  ScanSound(q)'
<1>1. CASE q = r
  BY <1>1, ScanNone DEF S!Finish, ScanIInv, S!TypeOK, ScanSound
<1>2. CASE q # r
  <2>1. request'[q] = request[q]
    BY <1>2 DEF S!Finish, ScanIInv, S!TypeOK
  <2>2. QED
    BY <2>1 DEF ScanIInv, ScanSound, S!SameRow
<1>3. QED
  BY <1>1, <1>2

LEMMA FinishType ==
  ASSUME S!TypeOK, NEW r \in Requests, S!Finish(r)
  PROVE  request' \in [Requests -> S!EditOf \cup S!ClockIn \cup S!ClockOut \cup {None}]
BY DEF S!TypeOK, S!Finish

LEMMA CommitEditKeeps ==
  ASSUME ScanIInv, NEW r \in Requests, request[r] # None, S!CommitEdit(r)
  PROVE  ScanIInv'
<1> DEFINE u == request[r].user
           read == request[r].read
           new == request[r].new
<1>1. request[r] \in S!EditOf
  BY ScanWorks DEF ScanIInv, S!TypeOK, S!CommitEdit
<1>2. u \in Supervisors /\ read \in S!UserRow /\ new \in S!UserRow /\ users[u] \in S!UserRow
  BY <1>1 DEF S!EditOf, ScanIInv, S!TypeOK
<1>3. users' \in [Supervisors -> S!UserRow]
  <2> DEFINE merged == [role |-> S!Written(users[u].role, read.role, new.role),
                        company |-> S!Written(users[u].company, read.company, new.company),
                        site |-> S!Written(users[u].site, read.site, new.site)]
  <2>1. merged \in S!UserRow
    BY <1>2 DEF S!UserRow, S!Written
  <2>2. users' = [users EXCEPT ![u] = merged] \/ UNCHANGED users
    BY <1>2 DEF S!CommitEdit, ScanIInv, S!TypeOK
  <2> HIDE DEF merged
  <2>3. QED
    BY <2>1, <2>2 DEF ScanIInv, S!TypeOK
<1>4. S!TypeOK'
  BY <1>3, FinishType DEF S!CommitEdit, ScanIInv, S!TypeOK
<1>5. UNCHANGED today /\ S!Finish(r)
  BY DEF S!CommitEdit
<1>6. QED
  BY <1>4, <1>5, FinishSound DEF ScanIInv, S!ScansApart, S!MarkedAtOwnSites

\* A row of the table that a step has written, its id not held by any thread.
LEMMA NewRowKeeps ==
  ASSUME ScanIInv, NEW w \in Workers, NEW row \in S!Row \cup {None},
         today' = [today EXCEPT ![w] = row],
         row # None => row.id \in S!Fresh,
         row # None => row.exit = None /\ (row.site # None => OwnerOf[row.site] = CompanyOf[w])
  PROVE  /\ today' \in [Workers -> S!Row \cup {None}]
         /\ S!ScansApart' /\ S!MarkedAtOwnSites'
         /\ \A q \in Requests : request'[q] \in {None, request[q]} => ScanSound(q)'
<1>1. today' \in [Workers -> S!Row \cup {None}]
  BY DEF ScanIInv, S!TypeOK
<1>2. today'[w] = row /\ \A v \in Workers : v # w => today'[v] = today[v]
  BY DEF ScanIInv, S!TypeOK
<1>3. S!ScansApart' /\ S!MarkedAtOwnSites'
  BY <1>2 DEF ScanIInv, S!ScansApart, S!MarkedAtOwnSites
<1>4. ASSUME NEW q \in Requests, request'[q] \in {None, request[q]}
      PROVE  ScanSound(q)'
  <2>1. CASE request'[q] = None
    BY <2>1, ScanNone DEF ScanSound
  <2>2. CASE request'[q] = request[q] /\ request[q] \in S!ClockOut
    <3>1. request[q].read.id \in S!Held
      BY <2>2 DEF S!Held
    <3>2. row # None => row.id # request[q].read.id
      BY <3>1 DEF S!Fresh, S!InUse
    <3>3. request[q].worker \in Workers
      BY <2>2 DEF S!ClockOut
    <3>4. S!SameRow(request[q].worker, request[q].read)' =>
            /\ request[q].worker # w
            /\ today'[request[q].worker] = today[request[q].worker]
      BY <1>2, <2>2, <3>2, <3>3 DEF S!SameRow
    <3>5. QED
      BY <2>2, <3>4 DEF ScanIInv, ScanSound, S!SameRow
  <2>3. CASE request'[q] = request[q] /\ request[q] \notin S!ClockOut
    BY <2>3 DEF ScanIInv, ScanSound
  <2>4. QED
    BY <1>4, <2>1, <2>2, <2>3
<1>5. QED
  BY <1>1, <1>3, <1>4

LEMMA NewIdFresh ==
  ASSUME S!Fresh # {} PROVE S!NewId \in S!Fresh /\ S!NewId \in RowIds
BY DEF S!NewId, S!Fresh

LEMMA FinishOthers ==
  ASSUME S!TypeOK, NEW r \in Requests, S!Finish(r)
  PROVE  \A q \in Requests : request'[q] \in {None, request[q]}
BY DEF S!TypeOK, S!Finish

LEMMA CommitClockInKeeps ==
  ASSUME ScanIInv, NEW r \in Requests, request[r] # None, S!CommitClockIn(r)
  PROVE  ScanIInv'
<1> DEFINE w == request[r].worker
           row == [id |-> S!NewId, entry |-> request[r].at, exit |-> None,
                   site |-> request[r].site]
<1>1. request[r] \in S!ClockIn
  BY ScanWorks DEF ScanIInv, S!TypeOK, S!CommitClockIn
<1>2. /\ w \in Workers /\ request[r].at \in S!Times /\ request[r].site \in Sites
      /\ OwnerOf[request[r].site] = CompanyOf[w]
  BY <1>1 DEF S!ClockIn, ScanIInv, ScanSound
<1>3. S!Finish(r) /\ UNCHANGED <<users, sites, now>>
  BY DEF S!CommitClockIn
<1>4. CASE UNCHANGED today
  BY <1>3, <1>4, FinishSound, FinishType DEF ScanIInv, S!TypeOK, S!ScansApart, S!MarkedAtOwnSites
<1>5. CASE S!Fresh # {} /\ today' = [today EXCEPT ![w] = row]
  <2>1. row \in S!Row /\ row.id \in S!Fresh /\ row.exit = None
    BY <1>2, <1>5, NewIdFresh DEF S!Row
  <2>2. OwnerOf[row.site] = CompanyOf[w]
    BY <1>2
  <2> HIDE DEF row, w
  <2>3. /\ today' \in [Workers -> S!Row \cup {None}]
        /\ S!ScansApart' /\ S!MarkedAtOwnSites'
        /\ \A q \in Requests : ScanSound(q)'
    BY <1>2, <1>3, <1>5, <2>1, <2>2, NewRowKeeps, FinishOthers DEF ScanIInv
  <2>4. QED
    BY <1>3, <2>3, FinishType DEF ScanIInv, S!TypeOK
<1>6. QED
  BY <1>4, <1>5 DEF S!CommitClockIn

LEMMA ElsewhereKeeps ==
  ASSUME ScanIInv, NEW w \in Workers, S!Elsewhere(w)
  PROVE  ScanIInv'
<1>1. PICK row \in S!Row \cup {None} :
        /\ today' = [today EXCEPT ![w] = row]
        /\ row # None => row.id \in S!Fresh /\ row.exit = None /\ row.site = None
  <2>1. CASE today' = [today EXCEPT ![w] = None]
    BY <2>1
  <2>2. ASSUME S!Fresh # {}, NEW t \in S!Times,
               today' = [today EXCEPT
                           ![w] = [id |-> S!NewId, entry |-> t, exit |-> None, site |-> None]]
        PROVE  \E row \in S!Row :
                 /\ today' = [today EXCEPT ![w] = row]
                 /\ row.id \in S!Fresh /\ row.exit = None /\ row.site = None
    <3>1. [id |-> S!NewId, entry |-> t, exit |-> None, site |-> None] \in S!Row
      BY <2>2, NewIdFresh DEF S!Row
    <3>2. QED
      BY <2>2, <3>1, NewIdFresh
  <2>3. QED
    BY <2>1, <2>2 DEF S!Elsewhere
<1>2. UNCHANGED <<users, sites, now, request>>
  BY DEF S!Elsewhere
<1>3. \A q \in Requests : request'[q] \in {None, request[q]}
  BY <1>2
<1>4. /\ today' \in [Workers -> S!Row \cup {None}]
      /\ S!ScansApart' /\ S!MarkedAtOwnSites'
      /\ \A q \in Requests : ScanSound(q)'
  BY <1>1, <1>3, NewRowKeeps
<1>5. QED
  BY <1>2, <1>4 DEF ScanIInv, S!TypeOK

\* The row that was read gets an exit and, if it has none, a site.
LEMMA CommitClockOutKeeps ==
  ASSUME ScanIInv, NEW r \in Requests, request[r] # None, S!CommitClockOut(r)
  PROVE  ScanIInv'
<1> DEFINE w == request[r].worker
           read == request[r].read
           stamp == S!StampSite(read, request[r].site)
<1>1. request[r] \in S!ClockOut
  BY ScanWorks DEF ScanIInv, S!TypeOK, S!CommitClockOut
<1>2. /\ w \in Workers /\ request[r].at \in S!Times /\ request[r].site \in Sites
      /\ read \in S!Row
      /\ OwnerOf[request[r].site] = CompanyOf[w]
      /\ request[r].at - read.entry >= MinGap
      /\ S!SameRow(w, read) => today[w].entry = read.entry
  BY <1>1 DEF S!ClockOut, ScanIInv, ScanSound
<1>3. S!Finish(r) /\ UNCHANGED <<users, sites, now>>
  BY DEF S!CommitClockOut
<1>4. CASE UNCHANGED today
  BY <1>3, <1>4, FinishSound, FinishType DEF ScanIInv, S!TypeOK, S!ScansApart, S!MarkedAtOwnSites
<1>5. CASE /\ S!SameRow(w, read)
           /\ today' = [today EXCEPT ![w].exit = request[r].at,
                                     ![w].site = S!Written(@, read.site, stamp)]
  <2>1. today[w] \in S!Row /\ today[w].entry = read.entry
    BY <1>2, <1>5 DEF S!SameRow, ScanIInv, S!TypeOK
  <2>2. PICK site \in Sites \cup {None} :
          /\ today'[w] = [today[w] EXCEPT !.exit = request[r].at, !.site = site]
          /\ site # None => OwnerOf[site] = CompanyOf[w]
    <3>1. today'[w] = [today[w] EXCEPT !.exit = request[r].at,
                                       !.site = S!Written(today[w].site, read.site, stamp)]
      BY <1>2, <1>5, <2>1 DEF ScanIInv, S!TypeOK, S!Row
    <3>2. S!Written(today[w].site, read.site, stamp) \in {today[w].site, request[r].site}
      BY DEF S!Written, S!StampSite
    <3>3. today[w].site # None => OwnerOf[today[w].site] = CompanyOf[w]
      BY <1>2, <1>5 DEF S!SameRow, ScanIInv, S!MarkedAtOwnSites
    <3>4. today[w].site \in Sites \cup {None}
      BY <2>1 DEF S!Row
    <3>5. QED
      BY <1>2, <3>1, <3>2, <3>3, <3>4
  <2>3. \A v \in Workers : v # w => today'[v] = today[v]
    BY <1>5 DEF ScanIInv, S!TypeOK
  <2>4. /\ today'[w] \in S!Row /\ today'[w].id = today[w].id
        /\ today'[w].entry = today[w].entry
        /\ today'[w].exit = request[r].at /\ today'[w].site = site
    BY <1>2, <2>1, <2>2 DEF S!Row
  <2>5. DOMAIN today' = Workers /\ today' = [v \in Workers |-> today'[v]]
    BY <1>5 DEF ScanIInv, S!TypeOK
  <2>6. today' \in [Workers -> S!Row \cup {None}]
    BY <2>3, <2>4, <2>5 DEF ScanIInv, S!TypeOK
  <2>7. S!ScansApart'
    <3>1. today'[w].exit - today'[w].entry >= MinGap
      BY <1>2, <2>1, <2>4
    <3>2. QED
      BY <2>3, <3>1 DEF ScanIInv, S!ScansApart
  <2>8. S!MarkedAtOwnSites'
    BY <2>2, <2>3, <2>4 DEF ScanIInv, S!MarkedAtOwnSites
  <2>9. ASSUME NEW q \in Requests PROVE ScanSound(q)'
    <3>1. CASE request'[q] = None
      BY <3>1, ScanNone DEF ScanSound
    <3>2. CASE request'[q] = request[q]
      <4>1. today[w] # None
        BY <1>5 DEF S!SameRow
      <4>2. today'[w].id = today[w].id /\ today'[w].entry = today[w].entry
        BY <2>4
      <4>3. request[q] \in S!ClockOut => request[q].read \in S!Row /\ request[q].worker \in Workers
        BY DEF S!ClockOut
      <4>4. CASE request[q] \in S!ClockOut /\ request[q].worker = w
        <5>1. request'[q].worker = w /\ request'[q].read = request[q].read
              /\ request'[q].site = request[q].site /\ request'[q].at = request[q].at
          BY <3>2, <4>4
        <5>2. ScanSound(q)
          BY DEF ScanIInv
        <5> HIDE DEF w
        <5>3. QED
          BY <3>2, <4>1, <4>2, <4>4, <5>1, <5>2 DEF ScanSound, S!SameRow
      <4>5. CASE request[q] \in S!ClockOut /\ request[q].worker # w
        BY <2>3, <3>2, <4>3, <4>5 DEF ScanIInv, ScanSound, S!SameRow
      <4>6. CASE request[q] \notin S!ClockOut
        BY <3>2, <4>6 DEF ScanIInv, ScanSound
      <4>7. QED
        BY <4>4, <4>5, <4>6
    <3>3. QED
      BY <1>3, <3>1, <3>2, FinishOthers DEF ScanIInv
  <2>10. QED
    BY <1>3, <2>6, <2>7, <2>8, <2>9, FinishType DEF ScanIInv, S!TypeOK
<1>6. QED
  BY <1>4, <1>5 DEF S!CommitClockOut

-----------------------------------------------------------------------------
LEMMA UpdateLocationKeeps ==
  ASSUME ScanIInv, NEW s \in Sites, S!UpdateLocation(s)
  PROVE  ScanIInv'
<1>1. S!TypeOK'
  BY DEF ScanIInv, S!TypeOK, S!UpdateLocation
<1>2. UNCHANGED <<today, request>>
  BY DEF S!UpdateLocation
<1>3. \A r \in Requests : ScanSound(r)'
  BY <1>2 DEF ScanIInv, ScanSound, S!SameRow
<1>4. QED
  BY <1>1, <1>2, <1>3 DEF ScanIInv, S!ScansApart, S!MarkedAtOwnSites

\* A row loses nothing but its site.
LEMMA DeleteLocationKeeps ==
  ASSUME ScanIInv, NEW s \in Sites, S!DeleteLocation(s)
  PROVE  ScanIInv'
<1> USE DEF ScanIInv
<1>1. ASSUME NEW w \in Workers
      PROVE  \/ today[w] = None /\ today'[w] = None
             \/ /\ today[w] \in S!Row /\ today[w] # None
                /\ today'[w] \in S!Row /\ today'[w] # None
                /\ today'[w].id = today[w].id /\ today'[w].entry = today[w].entry
                /\ today'[w].exit = today[w].exit
                /\ today'[w].site \in {None, today[w].site}
  <2>1. CASE today[w] = None
    BY <2>1 DEF S!DeleteLocation
  <2>2. CASE today[w] # None
    <3>1. today[w] \in S!Row
      BY <2>2 DEF S!TypeOK
    <3>2. today'[w] = [today[w] EXCEPT !.site = S!Pointing(@, s)]
      BY <2>2 DEF S!DeleteLocation
    <3>3. today'[w] \in S!Row
      BY <3>1, <3>2 DEF S!Row, S!Pointing
    <3>4. today'[w] # None
      BY <3>3, ScanNone
    <3>5. QED
      BY <2>2, <3>1, <3>2, <3>3, <3>4 DEF S!Row, S!Pointing
  <2>3. QED
    BY <2>1, <2>2
<1>2. S!TypeOK'
  <2>1. today' \in [Workers -> S!Row \cup {None}]
    BY <1>1 DEF S!DeleteLocation
  <2>2. users' \in [Supervisors -> S!UserRow]
    BY DEF S!DeleteLocation, S!TypeOK, S!UserRow, S!Pointing
  <2>3. QED
    BY <2>1, <2>2 DEF S!DeleteLocation, S!TypeOK
<1>3. S!ScansApart' /\ S!MarkedAtOwnSites'
  BY <1>1 DEF S!ScansApart, S!MarkedAtOwnSites
<1>4. ASSUME NEW r \in Requests PROVE ScanSound(r)'
  <2>1. request'[r] = request[r] /\ ScanSound(r)
    BY DEF S!DeleteLocation
  <2>2. request[r] \in S!ClockOut => request[r].worker \in Workers
    BY DEF S!ClockOut
  <2>3. QED
    BY <1>1, <2>1, <2>2 DEF ScanSound, S!SameRow
<1>5. QED
  BY <1>2, <1>3, <1>4

LEMMA ScansKeep ==
  ASSUME ScanIInv, [S!Next]_(S!vars) PROVE ScanIInv'
<1>1. ASSUME NEW r \in Requests, S!Admin(r) \/ S!Scans(r) \/ S!Commit(r)
      PROVE  ScanIInv'
  BY <1>1, AdminKeeps, ScanningKeeps, CommitEditKeeps, CommitClockInKeeps, CommitClockOutKeeps
     DEF S!Admin, S!Scans, S!Commit
<1>2. ASSUME NEW s \in Sites, S!UpdateLocation(s) \/ S!DeleteLocation(s)
      PROVE  ScanIInv'
  BY <1>2, UpdateLocationKeeps, DeleteLocationKeeps
<1>3. ASSUME NEW w \in Workers, S!Elsewhere(w)
      PROVE  ScanIInv'
  BY <1>3, ElsewhereKeeps
<1>4. CASE S!Tick \/ S!Restart \/ UNCHANGED S!vars
  <2>1. UNCHANGED today /\ \A r \in Requests : request'[r] \in {None, request[r]}
    BY <1>4 DEF S!Tick, S!Restart, S!vars
  <2>2. S!TypeOK'
    <3>1. CASE S!Tick
      <4>1. now' \in S!Times
        BY <3>1, PhysicalAttendanceAssumption DEF S!Tick, ScanIInv, S!TypeOK, S!Times
      <4>2. QED
        BY <3>1, <4>1 DEF S!Tick, ScanIInv, S!TypeOK
    <3>2. CASE S!Restart
      BY <3>2 DEF S!Restart, ScanIInv, S!TypeOK
    <3>3. CASE UNCHANGED S!vars
      BY <3>3 DEF S!vars, ScanIInv, S!TypeOK
    <3>4. QED
      BY <1>4, <3>1, <3>2, <3>3
  <2>3. ASSUME NEW r \in Requests PROVE ScanSound(r)'
    <3>1. CASE request'[r] = None
      BY <3>1, ScanNone DEF ScanSound
    <3>2. CASE request'[r] = request[r]
      BY <2>1, <3>2 DEF ScanIInv, ScanSound, S!SameRow
    <3>3. QED
      BY <2>1, <3>1, <3>2
  <2>4. QED
    BY <2>1, <2>2, <2>3 DEF ScanIInv, S!ScansApart, S!MarkedAtOwnSites
<1>5. QED
  BY <1>1, <1>2, <1>3, <1>4 DEF S!Next

\* Whatever the scans, edits and deletions do meanwhile, a scan in flight knows a site of
\* the worker's company and a time past the gap of the entry it read, and if that row is
\* still there, it has that entry (physical_attendance_service.py:174).
THEOREM ScansInductive == S!Spec => []ScanIInv
<1>1. QED
  BY ScansInit, ScansKeep, PTL DEF S!Spec

\* Users, sites, rows and requests are of their types
\* (models/user.py, models/attendance.py).
THEOREM ScansTyped == S!Spec => []S!TypeOK
<1>1. QED
  BY ScansInductive, PTL DEF ScanIInv

\* No interleaving of scans, deletions and other ways to clock in clocks a worker out
\* within the gap after the entry (physical_attendance_service.py:208).
THEOREM ScansStayApart == S!Spec => []S!ScansApart
<1>1. QED
  BY ScansInductive, PTL DEF ScanIInv

\* Attendance is marked at sites of the worker's own company, also while the
\* supervisor is moved or given another site (physical_attendance_service.py:168).
THEOREM MarkedSitesOwn == S!Spec => []S!MarkedAtOwnSites
<1>1. QED
  BY ScansInductive, PTL DEF ScanIInv

-----------------------------------------------------------------------------
(***************************************************************************)
(* The face scans behind the pages.                                        *)
(***************************************************************************)
LEMMA ScanKeeps ==
  ASSUME ScanIInv, ScanNext \/ UNCHANGED everything PROVE ScanIInv'
<1>1. S!Next \/ UNCHANGED S!vars
  BY DEF ScanNext, S!Next, S!vars, everything, scanVars
<1>2. QED
  BY <1>1, ScansKeep

\* What is known of a handler that begins while none is under way.
LEMMA BeginApart ==
  ASSUME S!TypeOK, ScanApart, NoHandler, NEW r \in Requests, NEW work, S!Begin(r, work),
         work # None,
         work \in EditOf => work.read = users[work.user] /\ Sound(work.new)
  PROVE  ScanApart'
<1>1. /\ \A p \in Requests : request'[p] = IF p = r THEN work ELSE None
      /\ UNCHANGED <<users, sites>>
  BY DEF S!TypeOK, NoHandler, S!Begin
<1>2. OneHandler'
  BY <1>1 DEF OneHandler
<1>3. \A u \in Supervisors : Sound(users[u])'
  BY <1>1 DEF ScanApart, Sound
<1>4. ASSUME NEW p \in Requests PROVE EditKnows(p)'
  <2>1. CASE p = r
    BY <1>1, <2>1 DEF EditKnows, Sound
  <2>2. CASE p # r
    BY <1>1, <2>2, NoneAssumption DEF EditKnows
  <2>3. QED
    BY <2>1, <2>2
<1>5. QED
  BY <1>2, <1>3, <1>4 DEF ScanApart

LEMMA AdminApart ==
  ASSUME S!TypeOK, ScanApart, NoHandler, NEW r \in Requests, S!Admin(r)
  PROVE  ScanApart'
<1>1. PICK u \in Supervisors : S!SetSite(r, u) \/ S!UpdateUser(r, u)
  BY DEF S!Admin
<1>2. users[u] \in UserRow /\ Sound(users[u])
  BY DEF S!TypeOK, S!UserRow, UserRow, ScanApart
<1>3. ASSUME NEW new \in UserRow, Sound(new), S!Begin(r, S!Edit(u, new)) PROVE ScanApart'
  <2>1. S!Edit(u, new) \in EditOf
    BY <1>2 DEF S!Edit, EditOf
  <2>2. S!Edit(u, new).read = users[u] /\ S!Edit(u, new).user = u /\ S!Edit(u, new).new = new
    BY DEF S!Edit
  <2>3. S!Edit(u, new) # None
    BY <2>1, NoneAssumption
  <2>4. QED
    BY <1>3, <2>2, <2>3, BeginApart
<1>4. CASE S!SetSite(r, u)
  <2>1. PICK s \in Sites \cup {None} :
          /\ s # None => sites[s] = "active" /\ OwnerOf[s] = users[u].company
          /\ S!Begin(r, S!Edit(u, [users[u] EXCEPT !.site = s]))
    BY <1>4 DEF S!SetSite
  <2>2. users[u].role = "supervisor"
    BY <1>4 DEF S!SetSite
  <2>3. PICK new : new = [users[u] EXCEPT !.site = s]
    OBVIOUS
  <2>4. /\ new \in UserRow
        /\ new.role = "supervisor" /\ new.company = users[u].company /\ new.site = s
    BY <1>2, <2>2, <2>3 DEF UserRow
  <2>5. Sound(new)
    BY <2>1, <2>4 DEF Sound
  <2>6. QED
    BY <1>3, <2>1, <2>3, <2>4, <2>5
<1>5. CASE S!UpdateUser(r, u)
  <2>1. PICK role \in {"supervisor", "other"}, c \in Companies :
          S!Begin(r, S!Edit(u, S!DropSiteIfIneligible(
                                 [users[u] EXCEPT !.role = role, !.company = c],
                                 users[u].company)))
    BY <1>5 DEF S!UpdateUser
  <2>2. PICK new : new = S!DropSiteIfIneligible([users[u] EXCEPT !.role = role, !.company = c],
                                                users[u].company)
    OBVIOUS
  <2>3. /\ new \in UserRow /\ new.role = role /\ new.company = c
        /\ new.site = IF role # "supervisor" \/ c # users[u].company
                      THEN None ELSE users[u].site
    BY <1>2, <2>2 DEF S!DropSiteIfIneligible, UserRow
  <2>4. Sound(new)
    BY <1>2, <2>3 DEF Sound
  <2>5. QED
    BY <1>3, <2>1, <2>2, <2>3, <2>4
<1>6. QED
  BY <1>1, <1>4, <1>5

LEMMA ScansApartStep ==
  ASSUME S!TypeOK, ScanApart, NoHandler, NEW r \in Requests, S!Scans(r)
  PROVE  ScanApart'
<1>1. PICK work : work.op \in {"in", "out"} /\ work # None /\ S!Begin(r, work)
  <2>1. PICK u \in Supervisors, w \in Workers : S!Scan(r, u, w)
    BY DEF S!Scans
  <2>2. users[u].site \in Sites /\ now \in Times
    BY <2>1, PhysicalAttendanceAssumption
       DEF S!Scan, S!IsEnabled, S!TypeOK, S!UserRow, S!Times, Times
  <2>3. CASE /\ today[w] = None
             /\ S!Begin(r, [op |-> "in", worker |-> w, at |-> now, site |-> users[u].site])
    <3>1. [op |-> "in", worker |-> w, at |-> now, site |-> users[u].site] \in ClockIn
      BY <2>2 DEF ClockIn
    <3>2. QED
      BY <2>3, <3>1, NoneAssumption
  <2>4. CASE /\ today[w] # None
             /\ S!Begin(r, [op |-> "out", worker |-> w, at |-> now, site |-> users[u].site,
                            read |-> today[w]])
    <3>1. [op |-> "out", worker |-> w, at |-> now, site |-> users[u].site, read |-> today[w]]
             \in ClockOut
      BY <2>2, <2>4 DEF ClockOut, S!TypeOK, S!Row, Row, S!Times, Times
    <3>2. QED
      BY <2>4, <3>1, NoneAssumption
  <2>5. QED
    BY <2>1, <2>3, <2>4 DEF S!Scan
<1>2. work \notin EditOf
  BY <1>1 DEF EditOf
<1>3. QED
  BY <1>1, <1>2, BeginApart

\* A commit leaves no handler under way; an edit writes what it was to write.
LEMMA CommitApart ==
  ASSUME S!TypeOK, ScanApart, NEW r \in Requests, S!Commit(r)
  PROVE  ScanApart'
<1>1. \A p \in Requests : request'[p] = None
  BY DEF S!TypeOK, S!Commit, S!CommitEdit, S!CommitClockIn, S!CommitClockOut, S!Finish,
         ScanApart, OneHandler
<1>2. OneHandler' /\ \A p \in Requests : EditKnows(p)'
  BY <1>1, NoneAssumption DEF OneHandler, EditKnows
<1>3. UNCHANGED sites
  BY DEF S!Commit, S!CommitEdit, S!CommitClockIn, S!CommitClockOut
<1>4. ASSUME NEW u \in Supervisors PROVE Sound(users[u])'
  <2>1. CASE UNCHANGED users
    BY <1>3, <2>1 DEF ScanApart, Sound
  <2>2. CASE ~UNCHANGED users
    <3>1. PICK v, read, new :
            /\ v = request[r].user /\ read = request[r].read /\ new = request[r].new
      OBVIOUS
    <3>2. S!CommitEdit(r) /\ request[r] # None
      BY <2>2 DEF S!Commit, S!CommitClockIn, S!CommitClockOut
    <3>3. request[r] \in EditOf
      BY <3>2 DEF S!CommitEdit, S!TypeOK, S!EditOf, EditOf, S!ClockIn, S!ClockOut,
                  S!UserRow, UserRow
    <3>4. v \in Supervisors /\ new \in UserRow /\ read = users[v] /\ Sound(new)
      BY <3>1, <3>3 DEF EditOf, ScanApart, EditKnows
    <3>5. users' = [users EXCEPT
                     ![v] = [role |-> S!Written(@.role, read.role, new.role),
                             company |-> S!Written(@.company, read.company, new.company),
                             site |-> S!Written(@.site, read.site, new.site)]]
      BY <2>2, <3>1, <3>2 DEF S!CommitEdit
    <3>6. CASE u = v
      <4>1. /\ users'[u].role = new.role /\ users'[u].company = new.company
            /\ users'[u].site = new.site
        BY <3>4, <3>5, <3>6 DEF S!Written, S!TypeOK
      <4>2. QED
        BY <1>3, <3>4, <4>1 DEF Sound
    <3>7. CASE u # v
      BY <1>3, <3>5, <3>7 DEF ScanApart, Sound, S!TypeOK
    <3>8. QED
      BY <3>6, <3>7
  <2>3. QED
    BY <2>1, <2>2
<1>5. QED
  BY <1>2, <1>4 DEF ScanApart

LEMMA LocationApart ==
  ASSUME S!TypeOK, ScanApart, NoHandler, NEW s \in Sites,
         S!UpdateLocation(s) \/ S!DeleteLocation(s)
  PROVE  ScanApart'
<1>1. UNCHANGED request /\ \A p \in Requests : request'[p] = None
  BY DEF S!UpdateLocation, S!DeleteLocation, NoHandler
<1>2. OneHandler' /\ \A p \in Requests : EditKnows(p)'
  BY <1>1, NoneAssumption DEF OneHandler, EditKnows
<1>3. ASSUME NEW u \in Supervisors PROVE Sound(users[u])'
  <2>1. users[u] \in UserRow /\ Sound(users[u])
    BY DEF S!TypeOK, S!UserRow, UserRow, ScanApart
  <2>2. CASE S!UpdateLocation(s)
    BY <2>1, <2>2 DEF S!UpdateLocation, S!TypeOK, Sound, UserRow
  <2>3. CASE S!DeleteLocation(s)
    <3>1. /\ users'[u].role = users[u].role /\ users'[u].company = users[u].company
          /\ users'[u].site = IF users[u].site = s THEN None ELSE users[u].site
      BY <2>1, <2>3 DEF S!DeleteLocation, S!Pointing, UserRow
    <3>2. users[u].site \in Sites \cup {None}
      BY <2>1 DEF UserRow
    <3>3. \A t \in Sites : t # s => sites'[t] = sites[t]
      BY <2>3 DEF S!DeleteLocation, S!TypeOK
    <3>4. QED
      BY <2>1, <3>1, <3>2, <3>3 DEF Sound
  <2>4. QED
    BY <2>2, <2>3
<1>4. QED
  BY <1>2, <1>3 DEF ScanApart

LEMMA ScanStep ==
  ASSUME ScanInv, ScanNext \/ UNCHANGED everything PROVE ScanInv'
<1>1. ScanIInv' /\ S!TypeOK
  BY ScanKeeps DEF ScanInv, ScanIInv
<1>2. SUFFICES ASSUME alone' PROVE ScanApart'
  BY <1>1 DEF ScanInv
<1>3. alone /\ ScanApart
  BY <1>2 DEF ScanInv, ScanNext, everything
<1>4. CASE UNCHANGED everything
  BY <1>3, <1>4 DEF everything, scanVars, ScanApart, OneHandler, Sound, EditKnows
<1>5. CASE NoHandler /\ \E r \in Requests : S!Admin(r) \/ S!Scans(r)
  BY <1>1, <1>3, <1>5, AdminApart, ScansApartStep
<1>6. CASE NoHandler /\ \E s \in Sites : S!UpdateLocation(s) \/ S!DeleteLocation(s)
  BY <1>1, <1>3, <1>6, LocationApart
<1>7. CASE (\E w \in Workers : S!Elsewhere(w)) \/ S!Tick
  BY <1>3, <1>7 DEF S!Elsewhere, S!Tick, ScanApart, OneHandler, Sound, EditKnows
<1>8. CASE S!Restart
  BY <1>3, <1>8, NoneAssumption DEF S!Restart, ScanApart, OneHandler, Sound, EditKnows
<1>9. CASE \E r \in Requests : S!Commit(r)
  BY <1>1, <1>3, <1>9, CommitApart
<1>10. QED
  BY <1>2, <1>4, <1>5, <1>6, <1>7, <1>8, <1>9 DEF ScanNext

-----------------------------------------------------------------------------
(***************************************************************************)
(* The vehicles.                                                           *)
(***************************************************************************)
LEMMA FleetNone ==
  /\ None \notin V!Statuses /\ None \notin V!Row
  /\ None \notin V!AssignOf /\ None \notin V!ReleaseOf
BY AssumptionsOfScreens DEF V!FleetAssumption

LEMMA Works ==
  ASSUME NEW x \in V!AssignOf \cup V!ReleaseOf
  PROVE  /\ x \in V!AssignOf <=> x.op = "assign"
         /\ x \in V!ReleaseOf <=> x.op = "release"
BY DEF V!AssignOf, V!ReleaseOf

LEMMA SameCardinality == ASSUME NEW T PROVE V!Cardinality(T) = Cardinality(T)
BY DEF V!Cardinality, Cardinality

LEMMA ActiveIs == \A a \in Assignments : IsActive(a) <=> a \in V!Active
BY DEF IsActive, V!Active, V!Live

\* The id of a new assignment is of none that is there.
LEMMA NewAssignment ==
  ASSUME V!Free # {}
  PROVE  V!NewId \in Assignments /\ assignments[V!NewId] = None
BY DEF V!Free, V!NewId, V!Live

LEMMA FleetBegin ==
  ASSUME FleetInv, NEW r \in Requests, V!Begins(r)
  PROVE  /\ V!TypeOK' /\ V!AssignmentsOwned'
         /\ (FleetApart /\ NoHandler => FleetApart')
<1> USE FleetNone
<1>1. PICK work \in V!AssignOf \cup V!ReleaseOf :
        /\ V!Begin(r, work)
        /\ work \in V!AssignOf =>
             /\ status[work.vehicle] = "available" /\ work.driver \in drivers
             /\ \A a \in Assignments : IsActive(a) => assignments[a].driver # work.driver
        /\ work \in V!ReleaseOf =>
             /\ IsActive(work.id) /\ assignments[work.id].vehicle = work.vehicle
             /\ work.read = status[work.vehicle]
  <2>1. CASE \E v \in Vehicles, e \in Drivers : V!Assign(r, v, e)
    <3>1. PICK v \in Vehicles, e \in Drivers : V!Assign(r, v, e)
      BY <2>1
    <3>2. PICK work : work = [op |-> "assign", vehicle |-> v, driver |-> e]
      OBVIOUS
    <3>3. /\ work \in V!AssignOf /\ work \notin V!ReleaseOf
          /\ work.vehicle = v /\ work.driver = e
      BY <3>2 DEF V!AssignOf, V!ReleaseOf
    <3>4. V!DrivenBy(e) = {} /\ status[v] = "available" /\ e \in drivers /\ V!Begin(r, work)
      BY <3>1, <3>2 DEF V!Assign
    <3>5. QED
      BY <3>3, <3>4, ActiveIs DEF V!DrivenBy
  <2>2. CASE \E a \in Assignments : V!Release(r, a)
    <3>1. PICK a \in Assignments : V!Release(r, a)
      BY <2>2
    <3>2. PICK work : work = [op |-> "release", id |-> a, vehicle |-> assignments[a].vehicle,
                              read |-> status[assignments[a].vehicle]]
      OBVIOUS
    <3>3. a \in V!Active /\ V!Begin(r, work)
      BY <3>1, <3>2 DEF V!Release
    <3>4. assignments[a] \in V!Row /\ status[assignments[a].vehicle] # None
      BY <3>3 DEF FleetInv, V!TypeOK, V!AssignmentsOwned, V!Active, V!Live
    <3>5. assignments[a].vehicle \in Vehicles
      BY <3>4 DEF V!Row
    <3>6. status[assignments[a].vehicle] \in V!Statuses
      BY <3>4, <3>5 DEF FleetInv, V!TypeOK
    <3>7. /\ work \in V!ReleaseOf /\ work \notin V!AssignOf
          /\ work.id = a /\ work.vehicle = assignments[a].vehicle
          /\ work.read = status[assignments[a].vehicle]
      BY <3>2, <3>5, <3>6 DEF V!AssignOf, V!ReleaseOf
    <3>8. QED
      BY <3>3, <3>7, ActiveIs
  <2>3. QED
    BY <2>1, <2>2 DEF V!Begins
<1>2. /\ UNCHANGED <<status, drivers, assignments>>
      /\ request' = [request EXCEPT ![r] = work]
  BY <1>1 DEF V!Begin, V!tables
<1>3. V!TypeOK' /\ V!AssignmentsOwned'
  BY <1>2 DEF FleetInv, V!TypeOK, V!AssignmentsOwned, V!Live
<1>4. ASSUME FleetApart, NoHandler PROVE FleetApart'
  <2>1. \A p \in Requests : request'[p] = IF p = r THEN work ELSE None
    BY <1>2, <1>4 DEF FleetInv, V!TypeOK, NoHandler
  <2>2. OneHandler'
    BY <2>1 DEF OneHandler
  <2>3. OnePerVehicle' /\ OnePerDriver' /\ ActiveIsTaken' /\ TakenIsActive'
    BY <1>2, <1>4
       DEF FleetApart, OnePerVehicle, OnePerDriver, ActiveIsTaken, TakenIsActive, IsActive
  <2>4. ASSUME NEW p \in Requests PROVE AssignKnows(p)' /\ ReleaseKnows(p)'
    <3>1. CASE p = r
      BY <1>1, <1>2, <2>1, <3>1 DEF AssignKnows, ReleaseKnows, IsActive
    <3>2. CASE p # r
      BY <2>1, <3>2 DEF AssignKnows, ReleaseKnows
    <3>3. QED
      BY <3>1, <3>2
  <2>5. QED
    BY <2>2, <2>3, <2>4 DEF FleetApart
<1>5. QED
  BY <1>3, <1>4

\* Nothing is under way once the only handler has ended.
LEMMA NoneKnows ==
  ASSUME \A p \in Requests : request'[p] = None
  PROVE  OneHandler' /\ \A p \in Requests : AssignKnows(p)' /\ ReleaseKnows(p)'
BY FleetNone DEF OneHandler, AssignKnows, ReleaseKnows

LEMMA FleetFinish ==
  ASSUME V!TypeOK, NEW r \in Requests, V!Commit(r)
  PROVE  /\ request' \in [Requests -> V!AssignOf \cup V!ReleaseOf \cup {None}]
         /\ OneHandler => \A p \in Requests : request'[p] = None
         /\ UNCHANGED drivers
BY DEF V!TypeOK, V!Commit, V!CommitAssign, V!CommitRelease, V!Finish, OneHandler

LEMMA FleetCommitAssign ==
  ASSUME FleetInv, NEW r \in Requests, V!Commit(r), V!CommitAssign(r)
  PROVE  /\ V!TypeOK' /\ V!AssignmentsOwned'
         /\ (FleetApart => FleetApart')
<1>1. request[r] \in V!AssignOf
  BY Works DEF FleetInv, V!TypeOK, V!Commit, V!CommitAssign
<1>2. PICK v \in Vehicles, e \in Drivers : v = request[r].vehicle /\ e = request[r].driver
  BY <1>1 DEF V!AssignOf
<1>3. FleetApart => /\ status[v] = "available" /\ e \in drivers
                    /\ \A a \in Assignments : IsActive(a) => assignments[a].driver # e
  BY <1>1, <1>2 DEF FleetApart, AssignKnows
<1>4. CASE status[v] # None /\ e \in drivers
  <2>1. PICK id : id = V!NewId
    OBVIOUS
  <2>2. PICK row : row = [vehicle |-> v, driver |-> e, active |-> TRUE]
    OBVIOUS
  <2>3. row \in V!Row /\ row.vehicle = v /\ row.driver = e /\ row.active /\ row # None
    <3>1. row \in V!Row
      BY <2>2 DEF V!Row
    <3>2. row.vehicle = v /\ row.driver = e /\ row.active
      BY <2>2
    <3>3. QED
      BY <3>1, <3>2, FleetNone
  <2>4. /\ V!Free # {}
        /\ assignments' = [assignments EXCEPT ![id] = row]
        /\ status' = [status EXCEPT ![v] = "assigned"]
    BY <1>2, <1>4, <2>1, <2>2 DEF V!CommitAssign
  <2>5. id \in Assignments /\ assignments[id] = None
    BY <2>1, <2>4, NewAssignment
  <2>6. \A a \in Assignments : assignments'[a] = IF a = id THEN row ELSE assignments[a]
    BY <2>4, <2>5 DEF FleetInv, V!TypeOK
  <2>7. \A w \in Vehicles : status'[w] = IF w = v THEN "assigned" ELSE status[w]
    BY <2>4 DEF FleetInv, V!TypeOK
  <2>8. V!TypeOK'
    <3>1. status' \in [Vehicles -> V!Statuses \cup {None}]
      BY <2>4 DEF FleetInv, V!TypeOK, V!Statuses
    <3>2. assignments' \in [Assignments -> V!Row \cup {None}]
      BY <2>3, <2>4 DEF FleetInv, V!TypeOK
    <3>3. QED
      BY <3>1, <3>2, FleetFinish DEF FleetInv, V!TypeOK
  <2>9. \A a \in Assignments : assignments[a] # None => assignments[a].vehicle \in Vehicles
    BY DEF FleetInv, V!TypeOK, V!Row
  <2>10. V!AssignmentsOwned'
    <3>1. ASSUME NEW a \in Assignments, assignments'[a] # None
          PROVE  /\ status'[assignments'[a].vehicle] # None
                 /\ assignments'[a].driver \in drivers'
      <4>1. CASE a = id
        BY <1>4, <2>3, <2>6, <2>7, <4>1, FleetFinish, FleetNone DEF FleetInv, V!Statuses
      <4>2. CASE a # id
        <5>1. assignments'[a] = assignments[a] /\ assignments[a] # None
          BY <2>6, <3>1, <4>2
        <5>2. /\ assignments[a].vehicle \in Vehicles /\ status[assignments[a].vehicle] # None
              /\ assignments[a].driver \in drivers
          BY <2>9, <5>1 DEF FleetInv, V!AssignmentsOwned, V!Live
        <5>3. QED
          BY <2>7, <5>1, <5>2, FleetFinish, FleetNone DEF FleetInv, V!Statuses
      <4>3. QED
        BY <4>1, <4>2
    <3>2. QED
      BY <3>1 DEF V!AssignmentsOwned, V!Live
  <2>11. ASSUME FleetApart PROVE FleetApart'
    <3>1. \A a \in Assignments : IsActive(a)' <=> a = id \/ IsActive(a)
      BY <2>3, <2>5, <2>6 DEF IsActive
    <3>2. \A a \in Assignments : IsActive(a) =>
            /\ a # id /\ assignments[a].vehicle \in Vehicles
            /\ assignments[a].vehicle # v /\ assignments[a].driver # e
      BY <1>3, <2>5, <2>9, <2>11 DEF IsActive, FleetApart, ActiveIsTaken
    <3>3. OnePerVehicle'
      BY <2>3, <2>6, <2>11, <3>1, <3>2 DEF FleetApart, OnePerVehicle
    <3>4. OnePerDriver'
      BY <2>3, <2>6, <2>11, <3>1, <3>2 DEF FleetApart, OnePerDriver
    <3>5. ActiveIsTaken'
      BY <2>3, <2>6, <2>7, <2>11, <3>1, <3>2 DEF FleetApart, ActiveIsTaken
    <3>6. TakenIsActive'
      <4>1. SUFFICES ASSUME NEW w \in Vehicles, status'[w] = "assigned", drivers' = Drivers
                     PROVE  \E a \in Assignments : IsActive(a)' /\ assignments'[a].vehicle = w
        BY DEF TakenIsActive
      <4>2. CASE w = v
        BY <2>3, <2>5, <2>6, <3>1, <4>2
      <4>3. CASE w # v
        <5>1. PICK a \in Assignments : IsActive(a) /\ assignments[a].vehicle = w
          BY <2>7, <2>11, <4>1, <4>3, FleetFinish DEF FleetInv, FleetApart, TakenIsActive
        <5>2. QED
          BY <2>6, <3>1, <3>2, <5>1
      <4>4. QED
        BY <4>2, <4>3
    <3>7. QED
      BY <2>11, <3>3, <3>4, <3>5, <3>6, FleetFinish, NoneKnows DEF FleetInv, FleetApart
  <2>12. QED
    BY <2>8, <2>10, <2>11
<1>5. CASE ~(status[v] # None /\ e \in drivers)
  <2>1. UNCHANGED <<status, drivers, assignments>>
    BY <1>2, <1>5 DEF V!CommitAssign
  <2>2. V!TypeOK' /\ V!AssignmentsOwned'
    BY <2>1, FleetFinish DEF FleetInv, V!TypeOK, V!AssignmentsOwned, V!Live
  <2>3. ~FleetApart
    BY <1>3, <1>5, FleetNone DEF V!Statuses
  <2>4. QED
    BY <2>2, <2>3
<1>6. QED
  BY <1>4, <1>5

LEMMA FleetCommitRelease ==
  ASSUME FleetInv, NEW r \in Requests, V!Commit(r), V!CommitRelease(r)
  PROVE  /\ V!TypeOK' /\ V!AssignmentsOwned'
         /\ (FleetApart => FleetApart')
<1>1. request[r] \in V!ReleaseOf
  BY Works DEF FleetInv, V!TypeOK, V!Commit, V!CommitRelease
<1>2. PICK id \in Assignments, v \in Vehicles, read \in V!Statuses :
        id = request[r].id /\ v = request[r].vehicle /\ read = request[r].read
  BY <1>1 DEF V!ReleaseOf
<1>3. FleetApart => /\ IsActive(id) /\ assignments[id].vehicle = v
                    /\ read = status[v] /\ read = "assigned"
  BY <1>1, <1>2 DEF FleetApart, ReleaseKnows, ActiveIsTaken
<1>4. CASE assignments[id] # None
  <2>1. /\ assignments' = [assignments EXCEPT ![id].active = FALSE]
        /\ status' = [status EXCEPT ![v] = IF read = "available" THEN @ ELSE "available"]
    BY <1>2, <1>4 DEF V!CommitRelease, V!Live
  <2>2. assignments[id] \in V!Row
    BY <1>4 DEF FleetInv, V!TypeOK
  <2>3. PICK row : row = [assignments[id] EXCEPT !.active = FALSE]
    OBVIOUS
  <2>4. /\ row \in V!Row /\ ~row.active /\ row # None
        /\ row.vehicle = assignments[id].vehicle /\ row.driver = assignments[id].driver
    BY <2>2, <2>3, FleetNone DEF V!Row
  <2>5. \A a \in Assignments : assignments'[a] = IF a = id THEN row ELSE assignments[a]
    BY <2>1, <2>3 DEF FleetInv, V!TypeOK
  <2>6. \A w \in Vehicles :
          status'[w] = IF w = v /\ read # "available" THEN "available" ELSE status[w]
    BY <2>1 DEF FleetInv, V!TypeOK
  <2>7. V!TypeOK'
    <3>1. status' \in [Vehicles -> V!Statuses \cup {None}]
      BY <2>1 DEF FleetInv, V!TypeOK, V!Statuses
    <3>2. assignments' \in [Assignments -> V!Row \cup {None}]
      BY <2>1, <2>3, <2>4 DEF FleetInv, V!TypeOK
    <3>3. QED
      BY <3>1, <3>2, FleetFinish DEF FleetInv, V!TypeOK
  <2>8. \A a \in Assignments :
          assignments[a] # None =>
            /\ assignments[a].vehicle \in Vehicles /\ status[assignments[a].vehicle] # None
            /\ assignments[a].driver \in drivers
    BY DEF FleetInv, V!TypeOK, V!Row, V!AssignmentsOwned, V!Live
  <2>9. V!AssignmentsOwned'
    <3>1. ASSUME NEW a \in Assignments, assignments'[a] # None
          PROVE  /\ status'[assignments'[a].vehicle] # None
                 /\ assignments'[a].driver \in drivers'
      <4>1. /\ assignments[a] # None
            /\ assignments'[a].vehicle = assignments[a].vehicle
            /\ assignments'[a].driver = assignments[a].driver
        BY <1>4, <2>4, <2>5, <3>1
      <4>2. QED
        BY <2>6, <2>8, <4>1, FleetFinish, FleetNone DEF FleetInv, V!Statuses
    <3>2. QED
      BY <3>1 DEF V!AssignmentsOwned, V!Live
  <2>10. ASSUME FleetApart PROVE FleetApart'
    <3>1. \A a \in Assignments :
            /\ IsActive(a)' <=> a # id /\ IsActive(a)
            /\ a # id => assignments'[a] = assignments[a]
      BY <2>4, <2>5 DEF IsActive
    <3>2. \A a \in Assignments : IsActive(a) =>
            /\ assignments[a].vehicle \in Vehicles
            /\ a # id => assignments[a].vehicle # v
      BY <1>3, <2>8, <2>10 DEF IsActive, FleetApart, OnePerVehicle
    <3>3. OnePerVehicle' /\ OnePerDriver'
      BY <2>10, <3>1 DEF FleetApart, OnePerVehicle, OnePerDriver
    <3>4. ActiveIsTaken'
      BY <2>6, <2>10, <3>1, <3>2 DEF FleetApart, ActiveIsTaken
    <3>5. TakenIsActive'
      <4>1. SUFFICES ASSUME NEW w \in Vehicles, status'[w] = "assigned", drivers' = Drivers
                     PROVE  \E a \in Assignments : IsActive(a)' /\ assignments'[a].vehicle = w
        BY DEF TakenIsActive
      <4>2. w # v /\ status[w] = "assigned"
        BY <1>3, <2>6, <2>10, <4>1
      <4>3. PICK a \in Assignments : IsActive(a) /\ assignments[a].vehicle = w
        BY <2>10, <4>1, <4>2, FleetFinish DEF FleetInv, FleetApart, TakenIsActive
      <4>4. a # id
        BY <1>3, <2>10, <4>2, <4>3
      <4>5. QED
        BY <3>1, <4>3, <4>4
    <3>6. QED
      BY <2>10, <3>3, <3>4, <3>5, FleetFinish, NoneKnows DEF FleetInv, FleetApart
  <2>11. QED
    BY <2>7, <2>9, <2>10
<1>5. CASE assignments[id] = None
  <2>1. UNCHANGED <<status, drivers, assignments>>
    BY <1>2, <1>5 DEF V!CommitRelease, V!Live
  <2>2. V!TypeOK' /\ V!AssignmentsOwned'
    BY <2>1, FleetFinish DEF FleetInv, V!TypeOK, V!AssignmentsOwned, V!Live
  <2>3. ~FleetApart
    BY <1>3, <1>5 DEF IsActive
  <2>4. QED
    BY <2>2, <2>3
<1>6. QED
  BY <1>4, <1>5

LEMMA FleetEdits ==
  ASSUME FleetInv, V!Edits \/ V!Restart \/ \E v \in Vehicles : V!UpdateVehicle(v)
  PROVE  V!TypeOK' /\ V!AssignmentsOwned'
<1>1. \A a \in Assignments : assignments[a] # None =>
        /\ assignments[a].vehicle \in Vehicles /\ status[assignments[a].vehicle] # None
        /\ assignments[a].driver \in drivers
  BY DEF FleetInv, V!TypeOK, V!Row, V!AssignmentsOwned, V!Live
<1>2. CASE \E v \in Vehicles : V!CreateVehicle(v) \/ V!UpdateVehicle(v)
  <2>1. PICK v \in Vehicles, s \in V!Statuses :
          /\ status' = [status EXCEPT ![v] = s]
          /\ UNCHANGED <<drivers, assignments, request>>
    BY <1>2 DEF V!CreateVehicle, V!UpdateVehicle, V!Statuses
  <2>2. V!TypeOK'
    BY <2>1 DEF FleetInv, V!TypeOK
  <2>3. \A w \in Vehicles : status[w] # None => status'[w] # None
    BY <2>1, FleetNone DEF FleetInv, V!TypeOK
  <2>4. V!AssignmentsOwned'
    BY <1>1, <2>1, <2>3 DEF V!AssignmentsOwned, V!Live
  <2>5. QED
    BY <2>2, <2>4
<1>3. CASE \E v \in Vehicles : V!DeleteVehicle(v)
  <2>1. PICK v \in Vehicles : V!DeleteVehicle(v)
    BY <1>3
  <2>2. \A a \in Assignments :
          assignments'[a] = IF assignments[a] # None /\ assignments[a].vehicle = v
                            THEN None ELSE assignments[a]
    BY <2>1 DEF V!DeleteVehicle, V!Without, V!Live
  <2>3. V!TypeOK'
    <3>1. status' \in [Vehicles -> V!Statuses \cup {None}]
      BY <2>1 DEF V!DeleteVehicle, FleetInv, V!TypeOK
    <3>2. assignments' \in [Assignments -> V!Row \cup {None}]
      BY <2>1 DEF V!DeleteVehicle, V!Without, FleetInv, V!TypeOK
    <3>3. QED
      BY <2>1, <3>1, <3>2 DEF V!DeleteVehicle, FleetInv, V!TypeOK
  <2>4. \A w \in Vehicles : w # v => status'[w] = status[w]
    BY <2>1 DEF V!DeleteVehicle, FleetInv, V!TypeOK
  <2>5. UNCHANGED drivers
    BY <2>1 DEF V!DeleteVehicle
  <2>6. V!AssignmentsOwned'
    BY <1>1, <2>2, <2>4, <2>5 DEF V!AssignmentsOwned, V!Live
  <2>7. QED
    BY <2>3, <2>6
<1>4. CASE \E e \in Drivers : V!DeleteEmployee(e)
  <2>1. PICK e \in Drivers : V!DeleteEmployee(e)
    BY <1>4
  <2>2. \A a \in Assignments :
          assignments'[a] = IF assignments[a] # None /\ assignments[a].driver = e
                            THEN None ELSE assignments[a]
    BY <2>1 DEF V!DeleteEmployee, V!Without, V!Live
  <2>3. assignments' \in [Assignments -> V!Row \cup {None}]
    BY <2>1 DEF V!DeleteEmployee, V!Without, FleetInv, V!TypeOK
  <2>4. drivers' = drivers \ {e} /\ UNCHANGED <<status, request>>
    BY <2>1 DEF V!DeleteEmployee
  <2>5. V!TypeOK'
    BY <2>3, <2>4 DEF FleetInv, V!TypeOK
  <2>6. V!AssignmentsOwned'
    BY <1>1, <2>2, <2>4 DEF V!AssignmentsOwned, V!Live
  <2>7. QED
    BY <2>5, <2>6
<1>5. CASE V!Restart
  BY <1>5 DEF V!Restart, V!tables, FleetInv, V!TypeOK, V!AssignmentsOwned, V!Live
<1>6. QED
  BY <1>2, <1>3, <1>4, <1>5 DEF V!Edits

\* An edit between two handlers leaves the two records in agreement, unless it is the
\* one that sets the status.
LEMMA FleetEditsApart ==
  ASSUME FleetInv, FleetApart, V!Edits, NoHandler
  PROVE  FleetApart'
<1>1. \A p \in Requests : request'[p] = None
  BY DEF NoHandler, V!Edits, V!CreateVehicle, V!DeleteVehicle, V!DeleteEmployee
<1>2. \A a \in Assignments : IsActive(a) => assignments[a].vehicle \in Vehicles
  BY DEF IsActive, FleetInv, V!TypeOK, V!Row
<1>3. CASE \E v \in Vehicles : V!CreateVehicle(v)
  <2>1. PICK v \in Vehicles : V!CreateVehicle(v)
    BY <1>3
  <2>2. UNCHANGED <<drivers, assignments>> /\ \A a \in Assignments : IsActive(a)' <=> IsActive(a)
    BY <2>1 DEF V!CreateVehicle, IsActive
  <2>3. \A w \in Vehicles : status'[w] = IF w = v THEN "available" ELSE status[w]
    BY <2>1 DEF V!CreateVehicle, FleetInv, V!TypeOK
  <2>4. \A a \in Assignments : IsActive(a) => assignments[a].vehicle # v
    BY <2>1, FleetNone DEF V!CreateVehicle, FleetApart, ActiveIsTaken, V!Statuses
  <2>5. OnePerVehicle' /\ OnePerDriver'
    BY <2>2 DEF FleetApart, OnePerVehicle, OnePerDriver
  <2>6. ActiveIsTaken'
    BY <1>2, <2>2, <2>3, <2>4 DEF FleetApart, ActiveIsTaken
  <2>7. TakenIsActive'
    BY <2>2, <2>3 DEF FleetApart, TakenIsActive
  <2>8. QED
    BY <1>1, <2>5, <2>6, <2>7, NoneKnows DEF FleetApart
<1>4. CASE \E v \in Vehicles : V!DeleteVehicle(v)
  <2>1. PICK v \in Vehicles : V!DeleteVehicle(v)
    BY <1>4
  <2>2. \A a \in Assignments :
          assignments'[a] = IF assignments[a] # None /\ assignments[a].vehicle = v
                            THEN None ELSE assignments[a]
    BY <2>1 DEF V!DeleteVehicle, V!Without, V!Live
  <2>3. \A a \in Assignments :
          /\ IsActive(a)' <=> IsActive(a) /\ assignments[a].vehicle # v
          /\ IsActive(a)' => assignments'[a] = assignments[a]
    BY <2>2 DEF IsActive
  <2>4. UNCHANGED drivers /\ \A w \in Vehicles : status'[w] = IF w = v THEN None ELSE status[w]
    BY <2>1 DEF V!DeleteVehicle, FleetInv, V!TypeOK
  <2>5. OnePerVehicle' /\ OnePerDriver'
    BY <2>3 DEF FleetApart, OnePerVehicle, OnePerDriver
  <2>6. ActiveIsTaken'
    BY <1>2, <2>3, <2>4 DEF FleetApart, ActiveIsTaken
  <2>7. TakenIsActive'
    BY <2>3, <2>4, FleetNone DEF FleetApart, TakenIsActive, V!Statuses
  <2>8. QED
    BY <1>1, <2>5, <2>6, <2>7, NoneKnows DEF FleetApart
<1>5. CASE \E e \in Drivers : V!DeleteEmployee(e)
  <2>1. PICK e \in Drivers : V!DeleteEmployee(e)
    BY <1>5
  <2>2. \A a \in Assignments :
          assignments'[a] = IF assignments[a] # None /\ assignments[a].driver = e
                            THEN None ELSE assignments[a]
    BY <2>1 DEF V!DeleteEmployee, V!Without, V!Live
  <2>3. \A a \in Assignments :
          IsActive(a)' => IsActive(a) /\ assignments'[a] = assignments[a]
    BY <2>2 DEF IsActive
  <2>4. UNCHANGED status /\ drivers' # Drivers
    BY <2>1 DEF V!DeleteEmployee
  <2>5. OnePerVehicle' /\ OnePerDriver'
    BY <2>3 DEF FleetApart, OnePerVehicle, OnePerDriver
  <2>6. ActiveIsTaken' /\ TakenIsActive'
    BY <2>3, <2>4 DEF FleetApart, ActiveIsTaken, TakenIsActive
  <2>7. QED
    BY <1>1, <2>5, <2>6, NoneKnows DEF FleetApart
<1>6. QED
  BY <1>3, <1>4, <1>5 DEF V!Edits

LEMMA FleetStep ==
  ASSUME FleetInv, FleetNext \/ UNCHANGED everything PROVE FleetInv'
<1>1. CASE UNCHANGED everything
  BY <1>1 DEF everything, fleetVars, FleetInv, V!TypeOK, V!AssignmentsOwned, V!Live, FleetApart,
              OneHandler, OnePerVehicle, OnePerDriver, ActiveIsTaken, TakenIsActive, IsActive,
              AssignKnows, ReleaseKnows
<1>2. CASE (\E r \in Requests : V!Begins(r)) /\ (alone' => alone /\ NoHandler) /\ UNCHANGED edited
  <2>1. PICK r \in Requests : V!Begins(r)
    BY <1>2
  <2>2. QED
    BY <1>2, <2>1, FleetBegin DEF FleetInv
<1>3. CASE V!Edits /\ (alone' => alone /\ NoHandler) /\ UNCHANGED edited
  BY <1>3, FleetEdits, FleetEditsApart DEF FleetInv
<1>4. CASE (\E r \in Requests : V!Commit(r)) /\ UNCHANGED <<alone, edited>>
  <2>1. PICK r \in Requests : V!Commit(r)
    BY <1>4
  <2>2. QED
    BY <1>4, <2>1, FleetCommitAssign, FleetCommitRelease DEF FleetInv, V!Commit
<1>5. CASE V!Restart /\ UNCHANGED <<alone, edited>>
  <2>1. V!TypeOK' /\ V!AssignmentsOwned'
    BY <1>5, FleetEdits
  <2>2. ASSUME FleetApart PROVE FleetApart'
    <3>1. (\A p \in Requests : request'[p] = None) /\ UNCHANGED <<status, drivers, assignments>>
      BY <1>5 DEF V!Restart, V!tables
    <3>2. OnePerVehicle' /\ OnePerDriver' /\ ActiveIsTaken' /\ TakenIsActive'
      BY <2>2, <3>1
         DEF FleetApart, OnePerVehicle, OnePerDriver, ActiveIsTaken, TakenIsActive, IsActive
    <3>3. QED
      BY <3>1, <3>2, NoneKnows DEF FleetApart
  <2>3. QED
    BY <1>5, <2>1, <2>2 DEF FleetInv
<1>6. CASE (\E v \in Vehicles : V!UpdateVehicle(v)) /\ edited'
  BY <1>6, FleetEdits DEF FleetInv
<1>7. QED
  BY <1>1, <1>2, <1>3, <1>4, <1>5, <1>6 DEF FleetNext

-----------------------------------------------------------------------------
(***************************************************************************)
(* The tables that are edited in place. A page that is busy keeps it until *)
(* the list is loaded again, so the call that holds it is the only one     *)
(* that acts; and a user who waits leaves at most one call under way,      *)
(* whose answer is what the server has.                                    *)
(***************************************************************************)
Able == {"disabled", "enabled"}

\* What the pages have in common: a page that holds busy flags each of its actions and
\* accepts it wherever it offers it, and a page that patches its rows only switches them.
PageSound(p) ==
  /\ p.held \in BOOLEAN /\ p.patch \in BOOLEAN /\ (p.held => ~p.patch)
  /\ p.new # None => p.new # "same"
  /\ \A o \in p.ops : o.name # "create" /\ "same" \notin o.from
  /\ p.chain # None =>
       /\ p.chain \in p.ops /\ p.held /\ {"create", p.chain.name} \subseteq p.flagged
       /\ p.new \in p.chain.needs
  /\ p.patch =>
       /\ p.flagged = {} /\ p.dialogs = {} /\ p.new = None /\ {"on", "off"} \subseteq Statuses(p)
       /\ \A o \in p.ops : \/ o.to = "gone"
                           \/ o.to = "on" /\ o.from = {"off"}
                           \/ o.to = "off" /\ o.from = {"on"}
  /\ p.held =>
       /\ p.new # None => "create" \in p.flagged
       /\ \A o \in p.ops : o.name \in p.flagged /\ o.from \subseteq o.needs
       /\ p.dialogs # {} =>
            /\ p.new \in Able
            /\ \A o \in p.ops : o.from \subseteq Able /\ o.needs = Able /\ o.to \in Able

\* A call under way: what it can be, what it does, whether it holds busy.
Asked == page.ops \cup (IF page.new = None THEN {} ELSE {Create})
Asks(o, r) == o \in Asked /\ r \in Rows \cup {None} /\ (o.name # "create" => r \in Rows)
LoadCall ==
  [kind : {"load"}, held : BOOLEAN, stage : {"sent"}]
    \cup [kind : {"load"}, held : BOOLEAN, stage : {"done"}, rows : [Rows -> Statuses(page)]]
DoCall ==
  {c \in [kind : {"do"}, op : Asked, row : Rows \cup {None}, chained : BOOLEAN,
          stage : {"sent", "done", "refused"}] :
     /\ Asks(c.op, c.row)
     /\ c.stage = "done" => c.row \in Rows
     /\ c.chained => page.chain # None}
CallSet == {Free} \cup LoadCall \cup DoCall
Acting(q) == Busy(q) /\ call[q].kind = "do"
HoldC(c) == c # Free /\ IF c.kind = "load" THEN c.held ELSE Flags(c.op)

\* A dialog asks about what can be asked, and so does a call.
TableTyped ==
  /\ page \in Pages /\ busy \in BOOLEAN
  /\ rows \in [Rows -> Statuses(page)] /\ shown \in [Rows -> Statuses(page)]
  /\ dialog # None => Asks(dialog.op, dialog.row) /\ dialog.op.name \in page.dialogs
  /\ call \in [Calls -> CallSet]

\* As long as the user waits, or a page that waits for its list does.
Careful == calm \/ (orderly /\ page.held)
OneBusy == \A p, q \in Calls : Busy(p) /\ Busy(q) => p = q
TableCurrent ==
  /\ OneBusy
  /\ Quiet => shown = rows
  /\ \A q \in Calls :
       /\ Busy(q) /\ call[q].kind = "load" /\ call[q].stage = "done" => call[q].rows = rows
       /\ Acting(q) /\ ~call[q].chained /\ call[q].stage # "done" => shown = rows
\* An action under way was offered on the row as it is shown, and is all that changed.
Switched ==
  \A q \in Calls : Acting(q) =>
    /\ shown[call[q].row] \in call[q].op.from
    /\ call[q].stage = "done" => rows = [shown EXCEPT ![call[q].row] = call[q].op.to]
\* An action under way is one that the server takes or has taken.
Accepted(c) ==
  /\ c.stage # "refused"
  /\ c.stage = "sent" /\ c.op.name # "create" => rows[c.row] \in c.op.needs
  /\ c.stage = "done" /\ c.op.name = "create" => rows[c.row] = page.new
Acceptable ==
  /\ \A q \in Calls : Acting(q) => Accepted(call[q])
  /\ page.dialogs # {} =>
       /\ \A r \in Rows : shown[r] \in Able => rows[r] \in Able
       /\ dialog # None /\ dialog.op.name # "create" => rows[dialog.row] \in Able

TableInv ==
  /\ TableTyped /\ BusyIsHeld
  /\ Careful => TableCurrent
  /\ calm /\ page.patch => Switched
  /\ orderly /\ page.held => Acceptable

LEMMA PagesSound == \A p \in Pages : PageSound(p)
<1>1. PageSound(PayrollRunPage) /\ PageSound(PayrollDetail)
  BY DEF PageSound, PayrollRunPage, PayrollDetail, Page, DraftOps, Op, Delete
<1>2. PageSound(Advances) /\ PageSound(SalaryStructures)
  BY DEF PageSound, Advances, AdvanceOps, AdvanceState, SalaryStructures, StructureOps, Page, Op,
         Delete
<1>3. PageSound(InvoiceList)
  BY DEF PageSound, InvoiceList, InvoiceOps, Page, Op
<1>4. PageSound(SubscriptionDetail)
  BY DEF PageSound, SubscriptionDetail, SubscriptionOps, Term, Page, Op
<1>5. PageSound(JobList)
  <2>1. Op("off", {"on"}, Switch, "off") \in JobList.ops
    BY DEF JobList, JobOps, Page, Op
  <2>2. PICK o \in JobList.ops : o.needs = {"on", "off"}
    BY <2>1 DEF Op, Switch
  <2>3. {"on", "off"} \subseteq Statuses(JobList)
    <3>1. PICK U : U = UNION {p.from \cup p.needs \cup {p.to} : p \in JobList.ops}
      OBVIOUS
    <3>2. {"on", "off"} \subseteq U
      BY <2>2, <3>1
    <3>3. Statuses(JobList) = (U \ {"same"}) \cup ({JobList.new} \ {None}) \cup {"none", "gone"}
      BY <3>1, Zenon DEF Statuses
    <3>4. QED
      BY <3>2, <3>3
  <2>4. QED
    BY <2>3 DEF PageSound, JobList, JobOps, Switch, Page, Op, Delete
<1>6. PageSound(VehicleList) /\ PageSound(AssignVehicle)
  BY DEF PageSound, VehicleList, VehicleOps, AssignVehicle, ReleaseOp, Page, Op, Delete
<1>7. PageSound(RolesPermissions) /\ PageSound(HolidayPanel)
  BY DEF PageSound, RolesPermissions, RoleOps, HolidayPanel, HolidayOps, Page, Op, Delete
<1>8. PageSound(PhysicalAttendance)
  BY DEF PageSound, PhysicalAttendance, SupervisorOps, Enable, Able, Page, Op
<1>9. QED
  BY <1>1, <1>2, <1>3, <1>4, <1>5, <1>6, <1>7, <1>8 DEF Pages

LEMMA StatusOf ==
  ASSUME TableTyped
  PROVE  /\ PageSound(page)
         /\ \A o \in page.ops : o.from \subseteq Statuses(page)
         /\ \A o \in Asked : o.to = "same" \/ o.to \in Statuses(page)
         /\ {"none", "gone"} \subseteq Statuses(page)
         /\ \A o \in Asked : o.name = "create" <=> o = Create
<1>1. PageSound(page)
  BY PagesSound DEF TableTyped
<1>2. ASSUME NEW x \in page.ops
      PROVE  x.from \subseteq Statuses(page) /\ (x.to = "same" \/ x.to \in Statuses(page))
  <2>1. "same" \notin x.from
    BY <1>1 DEF PageSound
  <2>2. PICK U : U = UNION {o.from \cup o.needs \cup {o.to} : o \in page.ops}
    OBVIOUS
  <2>3. x.from \cup x.needs \cup {x.to} \subseteq U
    BY <2>2
  <2>4. Statuses(page) = (U \ {"same"}) \cup ({page.new} \ {None}) \cup {"none", "gone"}
    BY <2>2, Zenon DEF Statuses
  <2>5. QED
    BY <2>1, <2>3, <2>4
<1>3. page.new # None => Create.to \in Statuses(page)
  BY DEF Create, Op, Statuses
<1>4. {"none", "gone"} \subseteq Statuses(page) /\ Create.name = "create"
  BY DEF Statuses, Create, Op
<1>5. QED
  BY <1>1, <1>2, <1>3, <1>4 DEF Asked, PageSound

\* The calls that are made, and what they hold.
LEMMA NewCalls ==
  ASSUME TableTyped
  PROVE  /\ \A held \in BOOLEAN : Loading(held) \in LoadCall /\ (HoldC(Loading(held)) <=> held)
         /\ \A o, r : Asks(o, r) => Doing(o, r) \in DoCall /\ (HoldC(Doing(o, r)) <=> Flags(o))
         /\ \A c \in LoadCall : c # Free /\ c.kind = "load"
         /\ \A c \in DoCall : c # Free /\ c.kind = "do"
         /\ ~HoldC(Free)
<1>1. \A c \in LoadCall : c # Free /\ c.kind = "load"
  BY DEF LoadCall, Free
<1>2. \A c \in DoCall : c # Free /\ c.kind = "do"
  BY DEF DoCall, Free
<1>3. ASSUME NEW held \in BOOLEAN
      PROVE Loading(held) \in LoadCall /\ (HoldC(Loading(held)) <=> held)
  <2>1. Loading(held) \in LoadCall /\ Loading(held).held = held
    BY DEF Loading, LoadCall
  <2>2. QED
    BY <1>1, <2>1 DEF HoldC
<1>4. ASSUME NEW o, NEW r, Asks(o, r)
      PROVE  Doing(o, r) \in DoCall /\ (HoldC(Doing(o, r)) <=> Flags(o))
  <2>1. Doing(o, r) \in DoCall /\ Doing(o, r).op = o
    BY <1>4 DEF Doing, DoCall, Asks
  <2>2. QED
    BY <1>2, <2>1 DEF HoldC
<1>5. QED
  BY <1>1, <1>2, <1>3, <1>4 DEF HoldC

\* One call changes at a step.
LEMMA Turned ==
  ASSUME TableTyped, NEW q \in Calls, NEW c, call' = [call EXCEPT ![q] = c]
  PROVE  \A p \in Calls : call'[p] = IF p = q THEN c ELSE call[p]
BY DEF TableTyped

\* What holds busy afterwards.
LEMMA HoldsKept ==
  ASSUME TableTyped, BusyIsHeld, NEW q \in Calls, NEW c, page' = page,
         \A p \in Calls : call'[p] = IF p = q THEN c ELSE call[p],
         busy' <=> (busy /\ ~HoldC(call[q])) \/ HoldC(c),
         HoldC(c) => HoldC(call[q]) \/ ~busy
  PROVE  BusyIsHeld'
<1>1. \A p \in Calls : Holds(p) <=> HoldC(call[p])
  BY DEF Holds, HoldC, Busy
<1>2. \A p \in Calls : Holds(p)' <=> IF p = q THEN HoldC(c) ELSE HoldC(call[p])
  BY DEF Holds, HoldC, Busy, Flags
<1>3. QED
  BY <1>1, <1>2 DEF BusyIsHeld

LEMMA TypedKept ==
  ASSUME TableTyped, NEW q \in Calls, NEW c \in CallSet, call' = [call EXCEPT ![q] = c],
         page' = page, busy' \in BOOLEAN, rows' \in [Rows -> Statuses(page)],
         shown' \in [Rows -> Statuses(page)], dialog' \in {dialog, None}
  PROVE  TableTyped'
<1>1. Statuses(page)' = Statuses(page) /\ Asked' = Asked
  BY DEF Statuses, Asked, Create
<1>2. \A o, r : Asks(o, r)' <=> Asks(o, r)
  BY <1>1 DEF Asks
<1>3. CallSet' = CallSet
  BY <1>1, <1>2 DEF CallSet, LoadCall, DoCall
<1>4. call' \in [Calls -> CallSet]
  BY DEF TableTyped
<1>5. dialog' # None => Asks(dialog'.op, dialog'.row) /\ dialog'.op.name \in page.dialogs
  BY DEF TableTyped
<1>6. QED
  BY <1>1, <1>2, <1>3, <1>4, <1>5 DEF TableTyped

\* A page that waits for its list asks for nothing while a call is under way.
LEMMA QuietStart ==
  ASSUME TableTyped, BusyIsHeld, NEW o, NEW r, Asks(o, r), Start(o, r), page.held, OnlyHeld
  PROVE  Quiet
<1>1. Flags(o)
  BY StatusOf DEF PageSound, Asks, Asked, Flags
<1>2. ~busy
  BY <1>1 DEF Start
<1>3. QED
  BY <1>2 DEF BusyIsHeld, Holds, OnlyHeld, Quiet

LEMMA SendKeeps ==
  ASSUME TableInv, NEW o, NEW r, Asks(o, r), Start(o, r), dialog' = dialog,
         calm' => calm /\ Quiet, orderly' => orderly /\ OnlyHeld,
         shown[r] \in o.from \/ (dialog # None /\ dialog.op = o /\ dialog.row = r) \/ o = Create
  PROVE  TableInv'
<1>1. PICK q \in Calls : ~Busy(q) /\ call' = [call EXCEPT ![q] = Doing(o, r)]
  BY DEF Start, Send
<1>2. /\ page' = page /\ rows' = rows /\ shown' = shown
      /\ busy' = (busy \/ Flags(o)) /\ (Flags(o) => ~busy)
  BY DEF Start
<1>3. Doing(o, r) \in DoCall /\ (HoldC(Doing(o, r)) <=> Flags(o))
  BY NewCalls DEF TableInv
<1>4. PICK c : c = Doing(o, r)
  OBVIOUS
<1>5. /\ c.kind = "do" /\ c.op = o /\ c.row = r /\ ~c.chained /\ c.stage = "sent" /\ c # Free
      /\ c \in DoCall /\ c \in CallSet
  BY <1>3, <1>4, NewCalls DEF Doing, CallSet, TableInv
<1>6. \A p \in Calls : call'[p] = IF p = q THEN c ELSE call[p]
  BY <1>1, <1>4 DEF TableInv, TableTyped
<1>7. ~HoldC(call[q])
  BY <1>1 DEF HoldC, Busy
<1>8. TableTyped'
  BY <1>1, <1>2, <1>4, <1>5, TypedKept DEF TableInv, TableTyped
<1>9. BusyIsHeld'
  BY <1>2, <1>3, <1>4, <1>6, <1>7, HoldsKept DEF TableInv
<1>10. Careful' => Careful /\ Quiet /\ TableCurrent
  BY <1>2, QuietStart DEF TableInv, Careful
<1>11. ASSUME Quiet PROVE \A p \in Calls : Busy(p)' <=> p = q
  BY <1>5, <1>6, <1>11 DEF Quiet, Busy
<1>12. ASSUME Careful' PROVE TableCurrent'
  <2>1. \A p \in Calls : Busy(p)' <=> p = q
    BY <1>10, <1>11, <1>12
  <2>2. OneBusy' /\ ~Quiet'
    BY <2>1 DEF OneBusy, Quiet
  <2>3. shown' = rows' /\ call'[q] = c
    BY <1>2, <1>6, <1>10, <1>12 DEF TableCurrent
  <2>4. QED
    BY <1>5, <2>1, <2>2, <2>3 DEF TableCurrent, Acting
<1>13. ASSUME calm', page'.patch PROVE Switched'
  <2>1. shown[r] \in o.from
    BY <1>2, <1>13, StatusOf DEF TableInv, TableTyped, PageSound, Asks, Asked
  <2>2. \A p \in Calls : Busy(p)' <=> p = q
    BY <1>11, <1>13
  <2>3. QED
    BY <1>2, <1>5, <1>6, <2>1, <2>2 DEF Switched, Acting
<1>14. ASSUME orderly', page'.held PROVE Acceptable'
  <2>1. Quiet /\ shown = rows /\ Acceptable /\ \A p \in Calls : Busy(p)' <=> p = q
    BY <1>2, <1>10, <1>11, <1>14 DEF Careful, TableCurrent, TableInv
  <2>2. o.name # "create" => rows[r] \in o.needs
    <3>1. CASE shown[r] \in o.from
      BY <1>2, <1>14, <2>1, <3>1, StatusOf DEF PageSound, TableInv, Asks, Asked
    <3>2. CASE dialog # None /\ dialog.op = o /\ dialog.row = r
      BY <1>2, <1>14, <2>1, <3>2, StatusOf DEF PageSound, TableInv, TableTyped, Asks, Asked,
                                               Acceptable
    <3>3. CASE o = Create
      BY <3>3 DEF Create, Op
    <3>4. QED
      BY <3>1, <3>2, <3>3
  <2>3. \A p \in Calls : Acting(p)' => Accepted(call[p])'
    BY <1>2, <1>5, <1>6, <2>1, <2>2 DEF Accepted, Acting
  <2>4. QED
    BY <1>2, <2>1, <2>3 DEF Acceptable
<1>15. QED
  BY <1>8, <1>9, <1>12, <1>13, <1>14 DEF TableInv

LEMMA ClickKeeps ==
  ASSUME TableInv, User, calm' = (calm /\ (Started => Quiet)),
         orderly' = (orderly /\ (Started => OnlyHeld) /\ (Refresh => Quiet))
  PROVE  TableInv'
<1>1. ASSUME NEW o, NEW r, Asks(o, r), Start(o, r), dialog' = dialog,
             \/ shown[r] \in o.from
             \/ dialog # None /\ dialog.op = o /\ dialog.row = r
             \/ o = Create
      PROVE  TableInv'
  <2>1. Started
    <3>1. PICK q \in Calls : ~Busy(q) /\ call' = [call EXCEPT ![q] = Doing(o, r)]
      BY <1>1 DEF Start, Send
    <3>2. call'[q] = Doing(o, r) /\ Doing(o, r) # Free
      BY <1>1, <3>1, NewCalls DEF TableInv, TableTyped
    <3>3. QED
      BY <3>1, <3>2 DEF Started
  <2>2. (calm' => calm /\ Quiet) /\ (orderly' => orderly /\ OnlyHeld)
    BY <2>1
  <2>3. QED
    BY <1>1, <2>2, SendKeeps
<1>2. ASSUME page' = page, rows' = rows, shown' = shown, busy' = busy, call' = call,
             dialog' # None => Asks(dialog'.op, dialog'.row) /\ dialog'.op.name \in page.dialogs,
             page.held /\ dialog' # None /\ dialog'.op.name # "create" =>
               \/ dialog' = dialog
               \/ shown[dialog'.row] \in dialog'.op.from /\ dialog'.row \in Rows /\
                  dialog'.op \in page.ops
      PROVE  TableInv'
  <2>1. Statuses(page)' = Statuses(page) /\ Asked' = Asked
    BY <1>2 DEF Statuses, Asked, Create
  <2>2. (\A p, s : Asks(p, s)' <=> Asks(p, s))
    BY <2>1 DEF Asks
  <2>3. TableTyped'
    BY <1>2, <2>1, <2>2 DEF TableTyped, TableInv, CallSet, LoadCall, DoCall
  <2>4. BusyIsHeld'
    BY <1>2 DEF TableInv, BusyIsHeld, Holds, Busy, Flags
  <2>5. (Careful' => Careful) /\ (Careful => TableCurrent')
    BY <1>2 DEF TableInv, Careful, TableCurrent, OneBusy, Quiet, Busy, Acting
  <2>6. calm' /\ page'.patch => Switched'
    BY <1>2 DEF TableInv, Switched, Acting, Busy
  <2>7. ASSUME orderly', page'.held PROVE Acceptable'
    <3>1. Acceptable /\ \A q \in Calls : Acting(q)' => Accepted(call[q])'
      BY <1>2, <2>7 DEF Acceptable, Accepted, Acting, Busy, TableInv
    <3>2. page.dialogs # {} /\ dialog' # None /\ dialog'.op.name # "create" =>
          rows[dialog'.row] \in Able
      BY <1>2, <2>7, <3>1, StatusOf DEF Acceptable, PageSound, TableInv
    <3>3. QED
      BY <1>2, <3>1, <3>2 DEF Acceptable
  <2>8. QED
    BY <2>3, <2>4, <2>5, <2>6, <2>7 DEF TableInv
<1>3. CASE Add
  <2>1. Asks(Create, None) /\ Create.name = "create"
    BY <1>3 DEF Add, Asks, Asked, Create, Op
  <2>2. CASE "create" \in page.dialogs
    <3>1. PICK d : d = [op |-> Create, row |-> None]
      OBVIOUS
    <3>2. d.op = Create /\ d.row = None
      BY <3>1
    <3>3. dialog' = d /\ UNCHANGED <<page, rows, shown, busy, call>>
      BY <1>3, <2>2, <3>1 DEF Add
    <3>4. QED
      BY <1>2, <2>1, <2>2, <3>2, <3>3
  <2>3. CASE "create" \notin page.dialogs
    BY <1>1, <1>3, <2>1, <2>3 DEF Add
  <2>4. QED
    BY <2>2, <2>3
<1>4. CASE Confirm
  BY <1>1, <1>4 DEF Confirm, TableInv, TableTyped
<1>5. CASE Dismiss
  BY <1>2, <1>5 DEF Dismiss
<1>6. CASE Refresh
  <2>1. PICK q \in Calls, c \in LoadCall : /\ ~Busy(q) /\ call' = [call EXCEPT ![q] = c]
                                        /\ c.stage = "sent" /\ ~HoldC(c)
    BY <1>6, NewCalls DEF Refresh, Send, Loading, TableInv
  <2>2. c # Free /\ c.kind = "load" /\ c \in CallSet
    BY NewCalls DEF TableInv, CallSet
  <2>3. page' = page /\ rows' = rows /\ shown' = shown /\ busy' = busy /\ dialog' = dialog
    BY <1>6 DEF Refresh
  <2>4. \A p \in Calls : call'[p] = IF p = q THEN c ELSE call[p]
    BY <2>1 DEF TableInv, TableTyped
  <2>5. TableTyped'
    BY <2>1, <2>2, <2>3, TypedKept DEF TableInv, TableTyped
  <2>6. BusyIsHeld'
    BY <2>1, <2>3, <2>4, HoldsKept DEF TableInv, HoldC, Busy
  <2>7. Started
    BY <2>1, <2>2, <2>4 DEF Started
  <2>8. (calm' => calm /\ Quiet) /\ (orderly' => orderly /\ Quiet)
    BY <1>6, <2>7
  <2>9. ASSUME Quiet PROVE \A p \in Calls : Busy(p)' <=> p = q
    BY <2>2, <2>4, <2>9 DEF Quiet, Busy
  <2>10. ASSUME Careful' PROVE TableCurrent'
    BY <2>1, <2>2, <2>4, <2>8, <2>9, <2>10
       DEF TableCurrent, OneBusy, Quiet, Acting, Careful
  <2>11. calm' => Switched'
    BY <2>2, <2>4, <2>8, <2>9 DEF Switched, Acting
  <2>12. ASSUME orderly', page'.held PROVE Acceptable'
    BY <2>2, <2>3, <2>4, <2>8, <2>9, <2>12 DEF Acceptable, Acting, TableInv
  <2>13. QED
    BY <2>5, <2>6, <2>10, <2>11, <2>12 DEF TableInv
<1>7. ASSUME NEW o \in page.ops, NEW r \in Rows, Click(o, r) PROVE TableInv'
  <2>1. Asks(o, r)
    BY DEF Asks, Asked
  <2>2. QED
    BY <1>1, <1>7, <2>1 DEF Click
<1>8. ASSUME NEW o \in page.ops, NEW r \in Rows, Open(o, r) PROVE TableInv'
  <2>1. Asks(o, r)
    BY DEF Asks, Asked
  <2>2. QED
    BY <1>2, <1>8, <2>1 DEF Open
<1>9. QED
  BY <1>3, <1>4, <1>5, <1>6, <1>7, <1>8 DEF User

\* What a call comes to when it is served.
LEMMA ServedCalls ==
  ASSUME TableTyped, NEW q \in Calls, Serve(q)
  PROVE  \E d \in CallSet :
           /\ call' = [call EXCEPT ![q] = d]
           /\ d # Free /\ d.kind = call[q].kind /\ d.stage # "sent" /\ call[q].stage = "sent"
           /\ HoldC(d) <=> HoldC(call[q])
           /\ \/ d.kind = "load" /\ d.rows = rows /\ rows' = rows
              \/ /\ d.kind = "do" /\ d.stage = "done" /\ d.op = call[q].op /\
                    d.chained = call[q].chained
                 /\ d.row \in Rows /\ (d.op.name # "create" => d.row = call[q].row)
                 /\ rows' = [rows EXCEPT ![d.row] = IF d.op.to = "same" THEN rows[d.row]
                             ELSE d.op.to]
              \/ /\ d.kind = "do" /\ d.stage = "refused" /\ d.op = call[q].op /\
                    d.chained = call[q].chained
                 /\ d.row = call[q].row /\ rows' = rows
                 /\ d.op.name # "create" /\ rows[call[q].row] \notin call[q].op.needs
<1>1. PICK c : c = call[q]
  OBVIOUS
<1>2. c \in CallSet /\ c # Free /\ c.stage = "sent"
  BY <1>1 DEF TableTyped, Serve, Busy
<1>3. CASE c.kind = "load"
  <2>1. PICK d : d = [kind |-> "load", held |-> c.held, stage |-> "done", rows |-> rows]
    OBVIOUS
  <2>2. c \in LoadCall
    BY <1>2, <1>3, NewCalls DEF CallSet
  <2>3. d \in LoadCall /\ d.kind = "load" /\ d.held = c.held /\ d.stage = "done" /\ d.rows = rows
    BY <2>1, <2>2 DEF LoadCall, TableTyped
  <2>4. d # Free /\ d \in CallSet /\ (HoldC(d) <=> HoldC(c))
    BY <1>2, <1>3, <2>3, NewCalls DEF HoldC, CallSet
  <2>5. call' = [call EXCEPT ![q] = d] /\ rows' = rows
    BY <1>1, <1>3, <2>1 DEF Serve
  <2>6. QED
    BY <1>1, <1>2, <1>3, <2>3, <2>4, <2>5
<1>4. CASE c.kind = "do"
  <2>1. c \in DoCall
    BY <1>2, <1>4, NewCalls DEF CallSet
  <2>2. CASE \E r \in IF c.op.name = "create" THEN Rows ELSE {c.row} :
               /\ rows[r] \in c.op.needs
               /\ rows' = [rows EXCEPT ![r] = IF c.op.to = "same" THEN @ ELSE c.op.to]
               /\ call' = [call EXCEPT ![q].stage = "done", ![q].row = r]
    <3>1. PICK r : /\ r \in Rows /\ (c.op.name # "create" => r = c.row)
                   /\ rows' = [rows EXCEPT ![r] = IF c.op.to = "same" THEN rows[r] ELSE c.op.to]
                   /\ call' = [call EXCEPT ![q].stage = "done", ![q].row = r]
      BY <2>1, <2>2 DEF DoCall, Asks
    <3>2. PICK d : d = [c EXCEPT !.stage = "done", !.row = r]
      OBVIOUS
    <3>3. call' = [call EXCEPT ![q] = d]
      BY <1>1, <3>1, <3>2 DEF TableTyped
    <3>4. /\ d.kind = "do" /\ d.stage = "done" /\ d.op = c.op /\ d.chained = c.chained /\
             d.row = r
          /\ d \in DoCall
      BY <2>1, <3>1, <3>2 DEF DoCall, Asks
    <3>5. d # Free /\ d \in CallSet /\ (HoldC(d) <=> HoldC(c))
      BY <1>2, <1>4, <3>4, NewCalls DEF HoldC, CallSet
    <3>6. QED
      BY <1>1, <1>2, <1>4, <3>1, <3>3, <3>4, <3>5
  <2>3. CASE /\ c.op.name # "create" /\ rows[c.row] \notin c.op.needs
             /\ call' = [call EXCEPT ![q].stage = "refused"] /\ rows' = rows
    <3>1. PICK d : d = [c EXCEPT !.stage = "refused"]
      OBVIOUS
    <3>2. call' = [call EXCEPT ![q] = d]
      BY <1>1, <2>3, <3>1 DEF TableTyped
    <3>3. /\ d.kind = "do" /\ d.stage = "refused" /\ d.op = c.op /\ d.chained = c.chained /\
             d.row = c.row
          /\ d \in DoCall
      BY <2>1, <3>1 DEF DoCall, Asks
    <3>4. d # Free /\ d \in CallSet /\ (HoldC(d) <=> HoldC(c))
      BY <1>2, <1>4, <3>3, NewCalls DEF HoldC, CallSet
    <3>5. QED
      BY <1>1, <1>2, <1>4, <2>3, <3>2, <3>3, <3>4
  <2>4. QED
    BY <1>1, <1>4, <2>2, <2>3 DEF Serve
<1>5. QED
  BY <1>2, <1>3, <1>4, NewCalls DEF CallSet

LEMMA ServeKeeps ==
  ASSUME TableInv, NEW q \in Calls, Serve(q), calm' => calm, orderly' => orderly
  PROVE  TableInv'
<1>1. PICK d \in CallSet :
        /\ call' = [call EXCEPT ![q] = d]
        /\ d # Free /\ d.kind = call[q].kind /\ d.stage # "sent" /\ call[q].stage = "sent"
        /\ HoldC(d) <=> HoldC(call[q])
        /\ \/ d.kind = "load" /\ d.rows = rows /\ rows' = rows
           \/ /\ d.kind = "do" /\ d.stage = "done" /\ d.op = call[q].op /\
                 d.chained = call[q].chained
              /\ d.row \in Rows /\ (d.op.name # "create" => d.row = call[q].row)
              /\ rows' = [rows EXCEPT ![d.row] = IF d.op.to = "same" THEN rows[d.row]
                          ELSE d.op.to]
           \/ /\ d.kind = "do" /\ d.stage = "refused" /\ d.op = call[q].op /\
                 d.chained = call[q].chained
              /\ d.row = call[q].row /\ rows' = rows
              /\ d.op.name # "create" /\ rows[call[q].row] \notin call[q].op.needs
  BY ServedCalls DEF TableInv
<1>2. Busy(q) /\ UNCHANGED <<page, shown, busy, dialog>>
  BY DEF Serve
<1>3. \A p \in Calls : call'[p] = IF p = q THEN d ELSE call[p]
  BY <1>1 DEF TableInv, TableTyped
<1>4. d.kind = "do" => d \in DoCall /\ d.op \in Asked
  <2>1. d.kind = "do" => d \in DoCall
    BY <1>1, NewCalls DEF CallSet, TableInv, LoadCall
  <2>2. QED
    BY <2>1 DEF DoCall
<1>5. rows' \in [Rows -> Statuses(page)]
  BY <1>1, <1>4, StatusOf DEF TableInv, TableTyped
<1>6. TableTyped'
  BY <1>1, <1>2, <1>5, TypedKept DEF TableInv, TableTyped
<1>7. BusyIsHeld'
  <2>1. HoldC(call[q]) => busy
    BY <1>2 DEF TableInv, BusyIsHeld, Holds, HoldC, Busy
  <2>2. QED
    BY <1>1, <1>2, <1>3, <2>1, HoldsKept DEF TableInv
<1>8. \A p \in Calls : Busy(p)' <=> Busy(p)
  BY <1>1, <1>2, <1>3 DEF Busy
<1>9. ASSUME Careful' PROVE TableCurrent /\ \A p \in Calls : Busy(p)' <=> p = q
  BY <1>2, <1>8, <1>9 DEF TableInv, Careful, TableCurrent, OneBusy
<1>10. ASSUME Careful' PROVE TableCurrent'
  <2>1. OneBusy' /\ ~Quiet'
    BY <1>9, <1>10 DEF OneBusy, Quiet
  <2>2. Busy(q)' /\ call'[q] = d /\ shown' = shown
    BY <1>2, <1>3, <1>8
  <2>3. d.kind = "load" /\ d.stage = "done" => d.rows = rows'
    BY <1>1
  <2>4. d.kind = "do" /\ ~d.chained /\ d.stage # "done" => shown' = rows'
    BY <1>1, <1>2, <1>9, <1>10 DEF TableCurrent, Acting
  <2>5. QED
    BY <1>9, <1>10, <2>1, <2>2, <2>3, <2>4 DEF TableCurrent, Acting
<1>11. ASSUME calm', page'.patch PROVE Switched'
  <2>1. PageSound(page) /\ Switched /\ TableCurrent /\ Careful'
    BY <1>2, <1>9, <1>11, StatusOf DEF TableInv, Careful
  <2>2. ASSUME d.kind = "do"
        PROVE  /\ shown[d.row] \in d.op.from
               /\ d.stage = "done" => rows' = [shown EXCEPT ![d.row] = d.op.to]
    <3>1. d.op \in page.ops /\ d.op.name # "create" /\ d.op.to # "same" /\ d.row = call[q].row
      BY <1>1, <1>2, <1>4, <1>11, <2>1, <2>2 DEF PageSound, Asked
    <3>2. shown[d.row] \in d.op.from
      BY <1>1, <1>2, <2>1, <2>2, <3>1 DEF Switched, Acting
    <3>3. ~d.chained
      BY <1>2, <1>4, <1>11, <2>1, <2>2 DEF DoCall, PageSound
    <3>4. shown = rows
      BY <1>1, <1>2, <2>1, <2>2, <3>3 DEF TableCurrent, Acting
    <3>5. QED
      BY <1>1, <2>2, <3>1, <3>2, <3>4
  <2>3. QED
    BY <1>2, <1>3, <1>9, <2>1, <2>2 DEF Switched, Acting
<1>12. ASSUME orderly', page'.held PROVE Acceptable'
  <2>1. PageSound(page) /\ Acceptable /\ page.held /\ Careful'
    BY <1>2, <1>12, StatusOf DEF TableInv, Careful
  <2>2. ASSUME d.kind = "do" PROVE d.stage = "done"
    BY <1>1, <1>2, <2>1, <2>2 DEF Acceptable, Accepted, Acting
  <2>3. ASSUME d.kind = "do", d.op.name = "create"
        PROVE rows'[d.row] = page.new /\ d.op.to = page.new
    <3>1. d.op.to = page.new /\ page.new # None
      BY <1>4, <2>1, <2>3, StatusOf DEF TableInv, Create, Op, Asked, PageSound
    <3>2. QED
      BY <1>1, <2>1, <2>2, <2>3, <3>1 DEF PageSound, TableInv, TableTyped
  <2>4. \A p \in Calls : Acting(p)' => Accepted(call[p])'
    BY <1>1, <1>2, <1>3, <1>9, <2>1, <2>2, <2>3 DEF Acting, Accepted
  <2>5. ASSUME page.dialogs # {}, NEW r \in Rows, rows[r] \in Able PROVE rows'[r] \in Able
    <3>1. d.kind = "do" => d.op.to \in Able
      BY <1>4, <2>1, <2>3, <2>5, StatusOf DEF PageSound, Asked, TableInv
    <3>2. QED
      BY <1>1, <2>5, <3>1 DEF TableInv, TableTyped
  <2>6. page.dialogs # {} /\ dialog # None /\ dialog.op.name # "create" => dialog.row \in Rows
    BY DEF TableInv, TableTyped, Asks
  <2>7. QED
    BY <1>2, <2>1, <2>4, <2>5, <2>6 DEF Acceptable
<1>13. QED
  BY <1>6, <1>7, <1>10, <1>11, <1>12 DEF TableInv

LEMMA LoadedKeeps ==
  ASSUME TableInv, NEW q \in Calls, Loaded(q), calm' => calm, orderly' => orderly
  PROVE  TableInv'
<1>1. PICK c : c = call[q]
  OBVIOUS
<1>2. /\ c.kind = "load" /\ c.stage = "done" /\ call' = [call EXCEPT ![q] = Free]
      /\ shown' = c.rows /\ busy' = (busy /\ ~c.held) /\ UNCHANGED <<page, rows, dialog>>
  BY <1>1 DEF Loaded
<1>3. c \in LoadCall /\ c # Free
  BY <1>1, <1>2, NewCalls DEF TableInv, TableTyped, CallSet, Free
<1>4. shown' \in [Rows -> Statuses(page)] /\ Free \in CallSet
  BY <1>2, <1>3 DEF LoadCall, CallSet
<1>5. \A p \in Calls : call'[p] = IF p = q THEN Free ELSE call[p]
  BY <1>2 DEF TableInv, TableTyped
<1>6. TableTyped'
  BY <1>2, <1>4, TypedKept DEF TableInv, TableTyped
<1>7. BusyIsHeld'
  <2>1. HoldC(c) <=> c.held
    BY <1>2, <1>3 DEF HoldC
  <2>2. ~HoldC(Free)
    BY DEF HoldC
  <2>3. QED
    BY <1>1, <1>2, <1>5, <2>1, <2>2, HoldsKept DEF TableInv
<1>8. ASSUME Careful' PROVE shown' = rows' /\ \A p \in Calls : ~Busy(p)'
  BY <1>1, <1>2, <1>3, <1>5, <1>8 DEF TableInv, Careful, TableCurrent, OneBusy, Busy
<1>9. Careful' => TableCurrent'
  BY <1>8 DEF TableCurrent, OneBusy, Acting
<1>10. calm' => Switched'
  BY <1>8 DEF Careful, Switched, Acting
<1>11. orderly' /\ page'.held => Acceptable'
  BY <1>2, <1>8 DEF TableInv, Careful, Acceptable, Acting
<1>12. QED
  BY <1>6, <1>7, <1>9, <1>10, <1>11 DEF TableInv

LEMMA ReloadKeeps ==
  ASSUME TableInv, NEW q \in Calls, Acting(q), Reload(q), CloseDialog(call[q].op),
    UNCHANGED <<page, rows>>,
         call[q].stage = "done" \/ call[q].chained, calm' => calm, orderly' => orderly
  PROVE  TableInv'
<1>1. PICK c : c = call[q]
  OBVIOUS
<1>2. c \in DoCall /\ c # Free /\ c.kind = "do"
  BY <1>1, NewCalls DEF TableInv, TableTyped, CallSet, Acting, Busy
<1>3. c.op \in Asked /\ c.row \in Rows \cup {None} /\ (c.chained => page.chain # None)
  BY <1>2 DEF DoCall
<1>4. PageSound(page) /\ dialog' \in {dialog, None} /\ (HoldC(c) <=> Flags(c.op))
  BY <1>1, <1>2, StatusOf DEF TableInv, CloseDialog, HoldC
<1>5. CASE page.patch
  <2>1. /\ call' = [call EXCEPT ![q] = Free] /\ busy' = busy
        /\ shown' = [shown EXCEPT ![c.row] = CASE c.op.to = "gone" -> "gone"
                                               [] c.op.to = "same" -> shown[c.row]
                                               [] OTHER -> IF shown[c.row] = "on" THEN "off"
                                                 ELSE "on"]
    BY <1>1, <1>5 DEF Reload, Patch
  <2>2. c.stage = "done" /\ c.row \in Rows /\ c.op \in page.ops /\ ~Flags(c.op) /\ ~page.held /\
        c.op.to # "same"
    BY <1>1, <1>2, <1>3, <1>4, <1>5 DEF PageSound, DoCall, Asked, Flags
  <2>3. PICK x \in {"gone", "on", "off"} :
          /\ shown' = [shown EXCEPT ![c.row] = x]
          /\ shown[c.row] \in c.op.from => x = c.op.to
    <3>1. CASE c.op.to = "gone"
      BY <2>1, <3>1
    <3>2. CASE c.op.to # "gone"
      BY <1>4, <1>5, <2>1, <2>2, <3>2 DEF PageSound
    <3>3. QED
      BY <3>1, <3>2
  <2>4. shown' \in [Rows -> Statuses(page)]
    BY <1>4, <1>5, <2>3, StatusOf DEF PageSound, TableInv, TableTyped
  <2>5. \A p \in Calls : call'[p] = IF p = q THEN Free ELSE call[p]
    BY <2>1 DEF TableInv, TableTyped
  <2>6. TableTyped'
    BY <1>4, <2>1, <2>4, TypedKept DEF TableInv, TableTyped, CallSet
  <2>7. BusyIsHeld'
    BY <1>1, <1>4, <2>1, <2>2, <2>5, HoldsKept, NewCalls DEF TableInv
  <2>8. ASSUME calm' PROVE shown' = rows' /\ \A p \in Calls : ~Busy(p)'
    <3>1. TableCurrent /\ Switched
      BY <1>5, <2>8 DEF TableInv, Careful
    <3>2. rows = [shown EXCEPT ![c.row] = c.op.to] /\ shown[c.row] \in c.op.from
      BY <1>1, <2>2, <3>1 DEF Switched
    <3>3. \A p \in Calls : ~Busy(p)'
      BY <1>1, <1>2, <2>5, <3>1 DEF TableCurrent, OneBusy, Busy
    <3>4. QED
      BY <2>3, <3>2, <3>3
  <2>9. Careful' => calm'
    BY <2>2 DEF Careful
  <2>10. (calm' => TableCurrent') /\ (calm' => Switched')
    BY <2>8 DEF TableCurrent, OneBusy, Acting, Switched
  <2>11. QED
    BY <2>2, <2>6, <2>7, <2>9, <2>10 DEF TableInv
<1>6. CASE ~page.patch
  <2>1. PICK held \in BOOLEAN, d \in LoadCall :
          /\ held = (page.held /\ Flags(c.op)) /\ d = Loading(held)
    BY <1>4, NewCalls DEF TableInv, PageSound, Flags
  <2>2. /\ call' = [call EXCEPT ![q] = d] /\ shown' = shown
        /\ busy' = (busy /\ (~Flags(c.op) \/ page.held))
    BY <1>1, <1>6, <2>1 DEF Reload
  <2>3. d # Free /\ d.kind = "load" /\ d.stage = "sent" /\ d \in CallSet /\ (HoldC(d) <=> held)
    BY <2>1, NewCalls DEF TableInv, CallSet, Loading
  <2>4. \A p \in Calls : call'[p] = IF p = q THEN d ELSE call[p]
    BY <2>2 DEF TableInv, TableTyped
  <2>5. TableTyped'
    BY <1>4, <2>2, <2>3, TypedKept DEF TableInv, TableTyped
  <2>6. Flags(c.op) => busy
    BY <1>1, <1>2 DEF TableInv, BusyIsHeld, Holds, Busy
  <2>7. BusyIsHeld'
    BY <1>1, <1>4, <2>1, <2>2, <2>3, <2>4, <2>6, HoldsKept DEF TableInv
  <2>8. \A p \in Calls : Busy(p)' <=> Busy(p)
    BY <1>1, <1>2, <2>3, <2>4 DEF Busy
  <2>9. Busy(q)' /\ call'[q] = d
    BY <1>1, <1>2, <2>4, <2>8 DEF Busy
  <2>10. ASSUME Careful' PROVE TableCurrent' /\ \A p \in Calls : Busy(p)' => p = q
    <3>1. OneBusy
      BY <2>10 DEF TableInv, Careful, TableCurrent
    <3>2. \A p \in Calls : Busy(p)' => p = q
      BY <2>8, <2>9, <3>1 DEF OneBusy
    <3>3. QED
      BY <2>3, <2>9, <3>2 DEF TableCurrent, OneBusy, Quiet, Acting
  <2>11. orderly' /\ page'.held => Acceptable'
    BY <1>4, <2>2, <2>3, <2>9, <2>10 DEF TableInv, Careful, Acceptable, Acting
  <2>12. ~page'.patch
    BY <1>6
  <2>13. QED
    BY <2>5, <2>7, <2>10, <2>11, <2>12 DEF TableInv
<1>7. QED
  BY <1>5, <1>6

LEMMA DoneKeeps ==
  ASSUME TableInv, NEW q \in Calls, Done(q), Busy(q), calm' => calm, orderly' => orderly
  PROVE  TableInv'
<1>1. PICK c : c = call[q]
  OBVIOUS
<1>2. c.kind = "do" /\ c.stage = "done" /\ UNCHANGED <<page, rows>>
  BY <1>1 DEF Done
<1>3. CASE c.op.name = "create" /\ page.chain # None
  <2>1. c \in DoCall /\ c # Free
    BY <1>1, <1>2, NewCalls DEF TableInv, TableTyped, CallSet, Busy
  <2>2. c.row \in Rows /\ c.op \in Asked /\ PageSound(page)
    BY <1>2, <2>1, StatusOf DEF DoCall, TableInv
  <2>3. PICK o \in page.ops : o = page.chain /\ Asks(o, c.row) /\ o.name # "create"
    BY <1>3, <2>2 DEF PageSound, Asks, Asked
  <2>4. PICK e : e = Doing(o, c.row)
    OBVIOUS
  <2>5. e \in DoCall
    BY <2>3, <2>4, NewCalls DEF TableInv
  <2>6. PICK d : d = [e EXCEPT !.chained = TRUE]
    OBVIOUS
  <2>7. /\ d \in DoCall /\ d.kind = "do" /\ d.op = o /\ d.row = c.row /\ d.chained /\
           d.stage = "sent"
    BY <1>3, <2>4, <2>5, <2>6 DEF DoCall, Doing
  <2>8. call' = [call EXCEPT ![q] = d] /\ UNCHANGED <<shown, busy, dialog>>
    BY <1>1, <1>3, <2>3, <2>4, <2>6 DEF Done
  <2>9. \A p \in Calls : call'[p] = IF p = q THEN d ELSE call[p]
    BY <2>8 DEF TableInv, TableTyped
  <2>10. d # Free /\ d \in CallSet
    BY <2>7, NewCalls DEF TableInv, CallSet
  <2>11. HoldC(c) /\ HoldC(d)
    BY <1>2, <1>3, <2>1, <2>2, <2>3, <2>7, <2>10 DEF PageSound, HoldC, Flags
  <2>12. TableTyped'
    BY <1>2, <2>8, <2>10, TypedKept DEF TableInv, TableTyped
  <2>13. BusyIsHeld'
    <3>1. busy
      BY <1>1, <1>2, <2>1, <2>11 DEF TableInv, BusyIsHeld, Holds, HoldC, Busy
    <3>2. QED
      BY <1>1, <1>2, <2>8, <2>9, <2>11, <3>1, HoldsKept DEF TableInv
  <2>14. ASSUME Careful'
         PROVE TableCurrent' /\ (\A p \in Calls : Busy(p)' => p = q) /\ call'[q] = d
    <3>1. OneBusy
      BY <1>2, <2>14 DEF TableInv, Careful, TableCurrent
    <3>2. \A p \in Calls : Busy(p)' <=> p = q
      BY <1>1, <2>1, <2>9, <2>10, <3>1 DEF OneBusy, Busy
    <3>3. QED
      BY <2>7, <2>9, <3>2 DEF TableCurrent, OneBusy, Quiet, Acting
  <2>15. ~page'.patch
    BY <1>2, <1>3, <2>2 DEF PageSound
  <2>16. ASSUME orderly', page'.held PROVE Acceptable'
    <3>1. Acceptable /\ Careful'
      BY <1>2, <2>16 DEF TableInv, Careful
    <3>2. rows'[d.row] \in d.op.needs
      BY <1>1, <1>2, <1>3, <2>1, <2>2, <2>3, <2>7, <3>1 DEF Acceptable, Accepted, Acting, Busy,
                                                            PageSound
    <3>3. \A p \in Calls : Acting(p)' => Accepted(call[p])'
      BY <2>7, <2>14, <3>1, <3>2 DEF Accepted, Acting
    <3>4. QED
      BY <1>2, <2>8, <3>1, <3>3 DEF Acceptable
  <2>17. QED
    BY <2>12, <2>13, <2>14, <2>15, <2>16 DEF TableInv
<1>4. CASE ~(c.op.name = "create" /\ page.chain # None)
  <2>1. Reload(q) /\ CloseDialog(c.op)
    BY <1>1, <1>4 DEF Done
  <2>2. QED
    BY <1>1, <1>2, <2>1, ReloadKeeps DEF Acting
<1>5. QED
  BY <1>3, <1>4

LEMMA FailKeeps ==
  ASSUME TableInv, NEW q \in Calls, Fail(q),
         calm' => calm /\ ~LostAnswer, orderly' => orderly /\ ~LostAnswer
  PROVE  TableInv'
<1>1. PICK c : c = call[q]
  OBVIOUS
<1>2. c # Free /\ c \in CallSet /\ UNCHANGED <<page, rows>>
  BY <1>1 DEF Fail, Busy, TableInv, TableTyped
<1>3. CASE c.kind = "do" /\ c.chained
  BY <1>1, <1>2, <1>3, ReloadKeeps DEF Fail, Acting
<1>4. CASE ~(c.kind = "do" /\ c.chained)
  <2>1. /\ call' = [call EXCEPT ![q] = Free] /\ shown' = shown /\ dialog' \in {dialog, None}
        /\ busy' = (busy /\ ~HoldC(c))
    BY <1>1, <1>2, <1>4 DEF Fail, CloseDialog, HoldC
  <2>2. \A p \in Calls : call'[p] = IF p = q THEN Free ELSE call[p]
    BY <2>1 DEF TableInv, TableTyped
  <2>3. TableTyped'
    BY <1>2, <2>1, TypedKept DEF TableInv, TableTyped, CallSet
  <2>4. BusyIsHeld'
    BY <1>1, <1>2, <2>1, <2>2, HoldsKept, NewCalls DEF TableInv
  <2>5. ASSUME Careful' PROVE shown' = rows' /\ \A p \in Calls : ~Busy(p)'
    <3>1. TableCurrent /\ ~LostAnswer
      BY <1>2, <2>5 DEF TableInv, Careful
    <3>2. c.kind # "load" /\ c.stage # "done"
      BY <1>1, <3>1 DEF LostAnswer
    <3>3. c.kind = "do"
      BY <1>2, <3>2, NewCalls DEF CallSet, TableInv
    <3>4. shown = rows
      BY <1>1, <1>2, <1>4, <3>1, <3>2, <3>3 DEF TableCurrent, Acting, Busy
    <3>5. QED
      BY <1>1, <1>2, <2>1, <2>2, <3>1, <3>4 DEF TableCurrent, OneBusy, Busy
  <2>6. Careful' => TableCurrent'
    BY <2>5 DEF TableCurrent, OneBusy, Acting
  <2>7. calm' => Switched'
    BY <2>5 DEF Careful, Switched, Acting
  <2>8. orderly' /\ page'.held => Acceptable'
    BY <1>2, <2>1, <2>5 DEF TableInv, Careful, Acceptable, Acting
  <2>9. QED
    BY <2>3, <2>4, <2>6, <2>7, <2>8 DEF TableInv
<1>5. QED
  BY <1>3, <1>4

LEMMA TableStep ==
  ASSUME TableInv, TableNext \/ UNCHANGED <<tableVars, page, shown, call, calm, orderly>>
  PROVE  TableInv'
<1>1. CASE UNCHANGED <<tableVars, page, shown, call, calm, orderly>>
  BY <1>1 DEF tableVars, TableInv, TableTyped, Statuses, Asked, Create, Asks, CallSet, LoadCall,
              DoCall,
              BusyIsHeld, Holds, Busy, Flags, Careful, TableCurrent, OneBusy, Quiet, Acting,
                Switched,
              Acceptable, Accepted
<1>2. CASE User /\ calm' = (calm /\ (Started => Quiet))
                /\ orderly' = (orderly /\ (Started => OnlyHeld) /\ (Refresh => Quiet))
  BY <1>2, ClickKeeps
<1>3. CASE Answers /\ calm' = (calm /\ ~LostAnswer) /\ orderly' = (orderly /\ ~LostAnswer)
  <2>1. PICK q \in Calls : Serve(q) \/ Loaded(q) \/ Done(q) \/ Fail(q)
    BY <1>3 DEF Answers
  <2>2. Done(q) => Busy(q)
    BY DEF Done, Busy, Free
  <2>3. QED
    BY <1>3, <2>1, <2>2, ServeKeeps, LoadedKeeps, DoneKeeps, FailKeeps
<1>4. ASSUME NEW r \in Rows, Elsewhere(r), ~calm', ~orderly' PROVE TableInv'
  <2>1. rows' \in [Rows -> Statuses(page)] /\ UNCHANGED <<page, shown, busy, dialog, call>>
    BY <1>4 DEF Elsewhere, TableInv, TableTyped
  <2>2. Statuses(page)' = Statuses(page) /\ Asked' = Asked
    BY <2>1 DEF Statuses, Asked, Create
  <2>3. TableTyped'
    BY <2>1, <2>2 DEF TableInv, TableTyped, CallSet, LoadCall, DoCall, Asks
  <2>4. BusyIsHeld'
    BY <2>1 DEF TableInv, BusyIsHeld, Holds, Busy, Flags
  <2>5. QED
    BY <1>4, <2>3, <2>4 DEF TableInv, Careful
<1>5. QED
  BY <1>1, <1>2, <1>3, <1>4 DEF TableNext

LEMMA TableStart ==
  ASSUME Init, calm, orderly
  PROVE  TableInv
<1>1. PageSound(page) /\ page \in Pages
  BY PagesSound DEF Init
<1>2. PICK q \in Calls, c \in LoadCall :
        /\ c = Loading(FALSE) /\ call = [p \in Calls |-> IF p = q THEN c ELSE Free]
  BY DEF Init, Loading, LoadCall
<1>3. c # Free /\ c.stage = "sent" /\ c.kind = "load" /\ c.held = FALSE
  BY <1>2 DEF Loading, Free
<1>4. (\A p \in Calls : Busy(p) <=> p = q) /\ call[q] = c
  BY <1>2, <1>3 DEF Busy
<1>5. (UNION {o.from : o \in page.ops}) \cup {"none"} \subseteq Statuses(page)
  <2>1. PICK U : U = UNION {o.from \cup o.needs \cup {o.to} : o \in page.ops}
    OBVIOUS
  <2>2. \A x \in UNION {o.from : o \in page.ops} : x \in U /\ x # "same"
    BY <1>1, <2>1 DEF PageSound
  <2>3. Statuses(page) = (U \ {"same"}) \cup ({page.new} \ {None}) \cup {"none", "gone"}
    BY <2>1, Zenon DEF Statuses
  <2>4. QED
    BY <2>2, <2>3
<1>6. TableTyped
  BY <1>1, <1>2, <1>5 DEF Init, TableTyped, CallSet
<1>7. BusyIsHeld
  BY <1>3, <1>4 DEF Init, BusyIsHeld, Holds
<1>8. TableCurrent /\ Switched
  BY <1>3, <1>4 DEF TableCurrent, OneBusy, Quiet, Acting, Switched
<1>9. Acceptable
  BY <1>3, <1>4 DEF Init, Acceptable, Acting, Able
<1>10. QED
  BY <1>6, <1>7, <1>8, <1>9 DEF TableInv

LEMMA TableFollows ==
  ASSUME TableInv
  PROVE  TypeOK /\ BusyIsHeld /\ (calm => ShowsServer) /\ (orderly => ActsOnCurrent)
<1>1. TypeOK
  <2>1. \A q \in Calls : Busy(q) => call[q].stage \in {"sent", "done", "refused"}
    BY DEF TableInv, TableTyped, CallSet, LoadCall, DoCall, Busy
  <2>2. dialog # None => dialog.op \in page.ops \cup {Create} /\ dialog.row \in Rows \cup {None}
    BY DEF TableInv, TableTyped, Asks, Asked
  <2>3. QED
    BY <2>1, <2>2 DEF TableInv, TableTyped, TypeOK
<1>2. calm => ShowsServer
  BY DEF TableInv, Careful, TableCurrent, ShowsServer
<1>3. orderly => ActsOnCurrent
  <2>1. \A q \in Calls : Busy(q) => (call[q].kind = "load" /\ call[q].stage # "refused") \/
        Acting(q)
    BY DEF TableInv, TableTyped, CallSet, LoadCall, DoCall, Busy, Acting
  <2>2. QED
    BY <2>1 DEF TableInv, Acceptable, Accepted, ActsOnCurrent
<1>4. QED
  BY <1>1, <1>2, <1>3 DEF TableInv

-----------------------------------------------------------------------------
(***************************************************************************)
(* The list by pages. A row that is asked about is one of the list, and of *)
(* a user who waits for each answer at most one call is under way, which   *)
(* brings the page that is on.                                             *)
(***************************************************************************)
\* Of the members of a finite set of numbers, each number of them is how many are
\* smaller than some one.
LEMMA LeastOf ==
  ASSUME NEW T \in SUBSET Nat, T # {}
  PROVE  \E n \in T : \A m \in T : n <= m
<1>1. PICK n \in T : \A y \in T : ~ (<<y, n>> \in OpToRel(<, Nat))
  BY NatLessThanWellFounded, WFMin
<1>2. \A y \in T : ~ (y < n)
  BY <1>1 DEF OpToRel
<1>3. QED
  BY <1>2

LEMMA Ranked ==
  ASSUME NEW T \in SUBSET Nat, IsFiniteSet(T), NEW k \in 0 .. Cardinality(T) - 1
  PROVE  \E x \in T : Cardinality({y \in T : y < x}) = k
<1> DEFINE Below(x) == {y \in T : y < x}
           Has(i) == \E x \in T : Cardinality(Below(x)) = i
           Missing == {i \in 0 .. Cardinality(T) - 1 : ~Has(i)}
<1>1. /\ Cardinality(T) \in Nat
      /\ \A x \in T : /\ Below(x) \subseteq T /\ IsFiniteSet(Below(x))
                      /\ Cardinality(Below(x)) \in Nat
  BY FS_Subset, FS_CardinalityType
<1>2. SUFFICES ASSUME Missing # {} PROVE FALSE
  BY DEF Missing
<1>3. PICK i \in Missing : \A j \in Missing : i <= j
  <2>1. Missing \in SUBSET Nat
    BY <1>1
  <2>2. QED
    <3> HIDE DEF Missing
    <3>1. QED
      BY <1>2, <2>1, LeastOf
<1>4. i \in 0 .. Cardinality(T) - 1 /\ ~Has(i)
  BY <1>3
<1>5. CASE i = 0
  <2>1. T # {}
    BY <1>1, <1>4, FS_EmptySet
  <2>2. PICK x \in T : \A y \in T : x <= y
    BY <2>1, LeastOf
  <2>3. Below(x) = {}
    <3>1. \A y \in T : ~(y < x)
      BY <2>2
    <3>2. QED
      BY <3>1
  <2>4. Cardinality(Below(x)) = 0
    BY <2>3, FS_EmptySet
  <2>5. QED
    BY <1>4, <1>5, <2>4
<1>6. CASE i # 0
  <2>1. i - 1 \in 0 .. Cardinality(T) - 1 /\ i - 1 \notin Missing
    <3>1. i - 1 \in 0 .. Cardinality(T) - 1 /\ i \in Nat /\ i - 1 < i
      BY <1>1, <1>4, <1>6
    <3>2. QED
      BY <1>3, <3>1
  <2>2. PICK x \in T : Cardinality(Below(x)) = i - 1
    BY <2>1
  <2>3. PICK B : B = Below(x) \cup {x}
    OBVIOUS
  <2>4. x \notin Below(x) /\ B \subseteq T
    BY <2>3
  <2>5. IsFiniteSet(B) /\ Cardinality(B) = i
    <3>1. PICK D : D = Below(x)
      OBVIOUS
    <3>2. IsFiniteSet(D) /\ x \notin D /\ Cardinality(D) = i - 1
      BY <1>1, <2>2, <2>4, <3>1
    <3>3. IsFiniteSet(D \cup {x}) /\ Cardinality(D \cup {x}) = (i - 1) + 1
      BY <3>2, FS_AddElement
    <3>4. (i - 1) + 1 = i
      BY <1>1, <1>4
    <3>5. QED
      BY <2>3, <3>1, <3>3, <3>4
  <2>6. T \ B # {}
    <3>1. B # T
      BY <1>1, <1>4, <2>5
    <3>2. QED
      BY <2>4, <3>1
  <2>7. PICK z \in T \ B : \A y \in T \ B : z <= y
    BY <2>6, LeastOf
  <2>8. Below(z) = B
    <3>1. x \in Nat /\ z \in Nat /\ z >= x /\ z # x
      BY <2>3, <2>7
    <3>2. ASSUME NEW y \in T PROVE y < z <=> y \in B
      <4>1. y \in Nat /\ (y \in B <=> y < x \/ y = x)
        BY <2>3
      <4>2. CASE y \in B
        BY <3>1, <4>1, <4>2
      <4>3. CASE y \notin B
        BY <2>7, <3>1, <4>1, <4>3
      <4>4. QED
        BY <4>2, <4>3
    <3>3. QED
      BY <2>4, <3>2
  <2>9. Cardinality(Below(z)) = i
    BY <2>5, <2>8
  <2>10. QED
    BY <1>4, <2>7, <2>9
<1>7. QED
  BY <1>5, <1>6

LEMMA GreatestOf ==
  ASSUME NEW T \in SUBSET Nat, IsFiniteSet(T), T # {}
  PROVE  \E n \in T : \A m \in T : n >= m
<1>1. Cardinality(T) \in Nat /\ Cardinality(T) # 0
  BY FS_CardinalityType, FS_EmptySet
<1>2. PICK x \in T : Cardinality({y \in T : y < x}) = Cardinality(T) - 1
  BY <1>1, Ranked
<1>3. PICK B : B = {y \in T : y < x}
  OBVIOUS
<1>4. IsFiniteSet(B) /\ B \subseteq T /\ Cardinality(B) = Cardinality(T) - 1 /\ x \notin B
  BY <1>2, <1>3, FS_Subset
<1>5. ASSUME NEW z \in T, ~(x >= z) PROVE FALSE
  <2>1. z \notin B \cup {x} /\ B \cup {x} \subseteq T
    BY <1>3, <1>5
  <2>2. IsFiniteSet(B \cup {x}) /\ Cardinality(B \cup {x}) = Cardinality(T)
    <3>1. IsFiniteSet(B \cup {x}) /\ Cardinality(B \cup {x}) = Cardinality(B) + 1
      BY <1>4, FS_AddElement
    <3>2. QED
      BY <1>1, <1>4, <3>1
  <2>3. Cardinality(T) < Cardinality(T)
    <3>1. B \cup {x} # T
      BY <2>1
    <3>2. QED
      BY <2>1, <2>2, <3>1, FS_Subset, FS_CardinalityType
  <2>4. QED
    BY <1>1, <2>3
<1>6. QED
  BY <1>5

LEMMA ListAssumption ==
  /\ Rows \in SUBSET Nat /\ IsFiniteSet(Rows) /\ None \notin Rows
  /\ Found \in [Searches -> SUBSET Rows] /\ \E s \in Searches : Found[s] = Rows
  /\ Sizes \in SUBSET (Nat \ {0}) /\ Sizes \in SUBSET Nat /\ IsFiniteSet(Sizes) /\ Sizes # {}
BY AssumptionsOfScreens DEF L!PagedListAssumption, L!IsFiniteSet, IsFiniteSet

LEMMA SameListCardinality == \A T : L!Cardinality(T) = Cardinality(T)
BY DEF L!Cardinality, Cardinality

LEMMA SequenceOf ==
  ASSUME NEW T, NEW n \in Nat, NEW f \in [1 .. n -> T]
  PROVE  f \in Seq(T)
OBVIOUS

LEMMA SortedTyped ==
  ASSUME NEW T \in SUBSET Rows
  PROVE  L!Sorted(T) \in Seq(Rows)
<1>1. T \in SUBSET Nat /\ IsFiniteSet(T)
  BY ListAssumption, FS_Subset
<1>2. Cardinality(T) \in Nat
  BY <1>1, FS_CardinalityType
<1>3. ASSUME NEW i \in 1 .. Cardinality(T)
      PROVE  (CHOOSE x \in T : Cardinality({y \in T : y < x}) = i - 1) \in T
  <2>1. i - 1 \in 0 .. Cardinality(T) - 1
    BY <1>2
  <2>2. \E x \in T : Cardinality({y \in T : y < x}) = i - 1
    BY <1>1, <2>1, Ranked
  <2>3. QED
    BY <2>2
<1>4. [i \in 1 .. Cardinality(T) |-> CHOOSE x \in T : Cardinality({y \in T : y < x}) = i - 1]
        \in [1 .. Cardinality(T) -> Rows]
  BY <1>3
<1>5. L!Sorted(T) = [i \in 1 .. Cardinality(T)
                     |-> CHOOSE x \in T : Cardinality({y \in T : y < x}) = i - 1]
  BY SameListCardinality DEF L!Sorted
<1>6. QED
  BY <1>2, <1>4, <1>5, SequenceOf

\* What a call asks for, what a page of it is, and what a call under way can be.
ListRequest ==
  [op : {"list"}, search : Searches, page : Nat \ {0}, perPage : Sizes, served : {FALSE}]
ListResult == [items : Seq(Rows), pages : Nat \ {0}]
ListCall ==
  {L!Free} \cup ListRequest
    \cup [op : {"list"}, result : ListResult, served : {TRUE}]
    \cup [op : {"delete"}, of : Rows, again : ListRequest, served : BOOLEAN]
    \cup [op : {"import"}, again : ListRequest, served : BOOLEAN]

LEMMA Window ==
  ASSUME NEW T, NEW s \in Seq(T), NEW m \in Nat \ {0}, NEW n \in Nat, n <= Len(s)
  PROVE  SubSeq(s, m, n) \in Seq(T)
OBVIOUS

LEMMA Quotient ==
  ASSUME NEW a \in Nat, NEW n \in Nat \ {0}, a >= n
  PROVE  a \div n \in Nat \ {0}
OBVIOUS

LEMMA ResultTyped ==
  ASSUME NEW T \in SUBSET Rows, NEW r \in ListRequest
  PROVE  L!ResultAmong(T, r) \in ListResult
<1>1. r.page \in Nat \ {0} /\ r.perPage \in Nat \ {0}
  BY ListAssumption DEF ListRequest
<1>2. PICK found : found = L!Sorted(T \cap Found[r.search])
  OBVIOUS
<1>3. found \in Seq(Rows) /\ Len(found) \in Nat
  BY <1>2, SortedTyped
<1>4. PICK from : from = (r.page - 1) * r.perPage + 1
  OBVIOUS
<1>5. from \in Nat \ {0}
  BY <1>1, <1>4
<1>6. PICK to : to = IF from + r.perPage - 1 < Len(found) THEN from + r.perPage - 1
      ELSE Len(found)
  OBVIOUS
<1>7. to \in Nat /\ to <= Len(found)
  BY <1>1, <1>3, <1>5, <1>6
<1>8. SubSeq(found, from, to) \in Seq(Rows)
  BY <1>3, <1>5, <1>7, Window
<1>9. PICK n : n = IF found = <<>> THEN 1 ELSE (Len(found) + r.perPage - 1) \div r.perPage
  OBVIOUS
<1>10. n \in Nat \ {0}
  <2>1. CASE found = <<>>
    BY <1>9, <2>1
  <2>2. CASE found # <<>>
    <3>1. Len(found) # 0
      BY <1>3, <2>2, EmptySeq
    <3>2. Len(found) + r.perPage - 1 \in Nat /\ Len(found) + r.perPage - 1 >= r.perPage
      BY <1>1, <1>3, <3>1
    <3>3. QED
      BY <1>1, <1>9, <2>2, <3>2, Quotient
  <2>3. QED
    BY <2>1, <2>2
<1>11. L!ResultAmong(T, r) = [items |-> SubSeq(found, from, to), pages |-> n]
  BY <1>2, <1>4, <1>6, <1>9 DEF L!ResultAmong
<1>12. QED
  BY <1>8, <1>10, <1>11 DEF ListResult

ListTyped == L!TypeOK /\ L!AsksForTarget /\ \A q \in Calls : call[q] \in ListCall

\* The one call that is waited for, and what it will show.
ListCalm ==
  /\ \A p, q \in Calls : L!Waits(p) /\ L!Waits(q) => p = q
  /\ L!ShowsView
  /\ \A q \in Calls : L!Waits(q) =>
       IF call[q].op # "list" THEN call[q].again = L!Current
       ELSE IF call[q].served THEN call[q].result = L!Result(L!Current) ELSE call[q] = L!Current

ListInv == ListTyped /\ (calm => ListCalm)

LEMMA ListCallSound ==
  ASSUME NEW c \in ListCall
  PROVE  /\ c.op \in {"free", "list", "delete", "import"} /\ (c = L!Free <=> c.op = "free")
         /\ c.op = "list" /\ c.served => c.result \in ListResult
         /\ c.op = "list" /\ ~c.served => c \in ListRequest
         /\ c.op = "delete" => c.of \in Rows /\ c.again \in ListRequest /\ c.served \in BOOLEAN
         /\ c.op = "import" => c.again \in ListRequest /\ c.served \in BOOLEAN
<1>1. CASE c = L!Free
  BY <1>1 DEF L!Free
<1>2. CASE c \in ListRequest
  <2>1. c.op = "list" /\ c.served = FALSE
    BY <1>2 DEF ListRequest
  <2>2. c # L!Free
    BY <2>1 DEF L!Free
  <2>3. QED
    BY <1>2, <2>1, <2>2
<1>3. CASE c \in [op : {"list"}, result : ListResult, served : {TRUE}]
  <2>1. c.op = "list" /\ c.served = TRUE /\ c.result \in ListResult
    BY <1>3
  <2>2. c # L!Free
    BY <2>1 DEF L!Free
  <2>3. QED
    BY <2>1, <2>2
<1>4. CASE c \in [op : {"delete"}, of : Rows, again : ListRequest, served : BOOLEAN]
  BY <1>4 DEF L!Free
<1>5. CASE c \in [op : {"import"}, again : ListRequest, served : BOOLEAN]
  BY <1>5 DEF L!Free
<1>6. QED
  BY <1>1, <1>2, <1>3, <1>4, <1>5 DEF ListCall

LEMMA Requested ==
  ASSUME NEW s \in Searches, NEW p \in Nat \ {0}, NEW n \in Sizes
  PROVE  /\ L!Request(s, p, n) \in ListRequest /\ L!Request(s, p, n) # L!Free
         /\ L!Request(s, p, n).op = "list" /\ L!Request(s, p, n).served = FALSE
BY DEF L!Request, ListRequest, L!Free

LEMMA RequestIsCall ==
  \A r \in ListRequest : r \in ListCall /\ r # L!Free /\ r.op = "list" /\ r.served = FALSE
<1>1. \A r \in ListRequest : r \in ListCall
  BY DEF ListCall
<1>2. \A r \in ListRequest : r.op = "list" /\ r.served = FALSE
  BY DEF ListRequest
<1>3. QED
  BY <1>1, <1>2 DEF L!Free

\* A call that is sent, or two.
LEMMA SendsOne ==
  ASSUME NEW c, L!Sends(<<c>>)
  PROVE  /\ DOMAIN call' = Calls
         /\ \E q \in Calls : ~L!Waits(q) /\ \A p \in Calls : call'[p] = IF p = q THEN c
            ELSE call[p]
<1>1. PICK f \in [1 .. 1 -> Calls] :
        /\ \A i \in DOMAIN f : ~L!Waits(f[i])
        /\ call' = [q \in Calls |-> IF \E i \in DOMAIN f : f[i] = q
                                    THEN <<c>>[CHOOSE i \in DOMAIN f : f[i] = q] ELSE call[q]]
  BY DEF L!Sends
<1>2. DOMAIN f = {1} /\ f[1] \in Calls /\ ~L!Waits(f[1])
  BY <1>1
<1>3. \A q \in Calls : call'[q] = IF q = f[1] THEN c ELSE call[q]
  BY <1>1, <1>2
<1>4. QED
  BY <1>1, <1>2, <1>3

LEMMA SendsTwo ==
  ASSUME NEW c, NEW d, L!Sends(<<c, d>>)
  PROVE  /\ DOMAIN call' = Calls
         /\ \E q, r \in Calls : /\ q # r
                               /\ \A p \in Calls : call'[p] = IF p = q THEN c ELSE
                                  IF p = r THEN d ELSE call[p]
<1>1. PICK f \in [1 .. 2 -> Calls] :
        /\ L!IsInjective(f)
        /\ call' = [q \in Calls |-> IF \E i \in DOMAIN f : f[i] = q
                                    THEN <<c, d>>[CHOOSE i \in DOMAIN f : f[i] = q] ELSE call[q]]
  BY DEF L!Sends
<1>2. DOMAIN f = {1, 2} /\ f[1] \in Calls /\ f[2] \in Calls /\ f[1] # f[2]
  BY <1>1 DEF L!IsInjective
<1>3. \A q \in Calls : call'[q] = IF q = f[1] THEN c ELSE IF q = f[2] THEN d ELSE call[q]
  BY <1>1, <1>2
<1>4. QED
  BY <1>1, <1>2, <1>3

\* A call of the reader's, with the fields it leaves.
LEMMA ListSend ==
  ASSUME ListInv, NEW c \in ListCall, L!Sends(<<c>>), c # L!Free,
         screen' = screen, rows' = rows, search' \in Searches, page' \in Nat \ {0},
           perPage' \in Sizes,
         items' = items, pages' = pages, target' = target, shown' = shown \/ shown' = FALSE,
         shown' \in BOOLEAN, importing' \in BOOLEAN,
         c = L!Current' \/ (c.op # "list" /\ c.again = L!Current'),
         calm' => calm /\ \A p, q \in Calls : call'[p] # L!Free /\ call'[q] # L!Free => p = q
  PROVE  ListInv'
<1>1. PICK q \in Calls : ~L!Waits(q) /\ \A p \in Calls : call'[p] = IF p = q THEN c ELSE call[p]
  BY SendsOne
<1>2. ListTyped'
  <2>1. L!TypeOK'
    BY SendsOne DEF ListInv, ListTyped, L!TypeOK
  <2>2. \A p \in Calls : call'[p] \in ListCall
    BY <1>1 DEF ListInv, ListTyped
  <2>3. L!AsksForTarget'
    BY DEF ListInv, ListTyped, L!AsksForTarget
  <2>4. QED
    BY <2>1, <2>2, <2>3 DEF ListTyped, ListCall, ListRequest, ListResult
<1>3. ASSUME calm' PROVE ListCalm'
  <2>1. \A p \in Calls : L!Waits(p)' <=> p = q
    BY <1>1, <1>3 DEF L!Waits
  <2>2. call'[q] = c /\ ~L!Quiet'
    BY <1>1, <2>1 DEF L!Quiet
  <2>3. c = L!Current' => c.op = "list" /\ c.served = FALSE
    BY DEF L!Current, L!Request
  <2>4. QED
    BY <2>1, <2>2, <2>3 DEF ListCalm, L!ShowsView
<1>4. QED
  BY <1>2, <1>3 DEF ListInv

LEMMA ListUser ==
  ASSUME ListInv, L!User,
         calm' = (calm /\ \A p, q \in Calls : call'[p] # L!Free /\ call'[q] # L!Free => p = q)
  PROVE  ListInv'
<1>. USE DEF L!view, L!list, L!dialog
<1>0. /\ search \in Searches /\ page \in Nat \ {0} /\ perPage \in Sizes /\ shown \in BOOLEAN /\
         importing \in BOOLEAN
      /\ L!Current \in ListRequest
  BY Requested DEF ListInv, ListTyped, L!TypeOK, L!Current
<1>1. ASSUME NEW s \in Searches, L!SetSearch(s) PROVE ListInv'
  <2>1. /\ search' = s /\ page' = 1
        /\ UNCHANGED <<screen, rows, perPage, items, pages, target, shown, importing>>
    BY <1>1 DEF L!SetSearch
  <2>2. PICK c : c = L!Request(s, 1, perPage)
    OBVIOUS
  <2>a. page' \in Nat \ {0} /\ 1 \in Nat \ {0}
    BY <2>1
  <2>3. c \in ListRequest /\ c = L!Current' /\ c \in ListCall /\ c # L!Free
    <3>1. c \in ListRequest
      BY <1>0, <2>a, <2>2, Requested
    <3>2. c = L!Current'
      BY <2>1, <2>2 DEF L!Current
    <3>3. QED
      BY <3>1, <3>2, RequestIsCall
  <2>4. CASE page = 1
    <3>1. L!Sends(<<c>>)
      BY <1>1, <2>2, <2>4 DEF L!SetSearch
    <3>2. QED
      BY <1>0, <2>1, <2>a, <2>3, <3>1, ListSend
  <2>5. CASE page # 1
    <3>1. PICK d : d = L!Request(s, page, perPage)
      OBVIOUS
    <3>2. d \in ListCall /\ d # L!Free /\ L!Sends(<<d, c>>)
      BY <1>0, <1>1, <2>2, <2>5, <3>1, Requested, RequestIsCall DEF L!SetSearch
    <3>3. PICK q, r \in Calls : /\ q # r
                               /\ \A p \in Calls : call'[p] = IF p = q THEN d ELSE
                                  IF p = r THEN c ELSE call[p]
      BY <3>2, SendsTwo
    <3>4. ~calm'
      BY <2>3, <3>2, <3>3
    <3>5. L!TypeOK' /\ L!AsksForTarget'
      BY <1>0, <2>1, <3>2, SendsTwo DEF ListInv, ListTyped, L!TypeOK, L!AsksForTarget
    <3>6. \A p \in Calls : call'[p] \in ListCall
      BY <2>3, <3>2, <3>3 DEF ListInv, ListTyped
    <3>7. QED
      BY <3>4, <3>5, <3>6 DEF ListInv, ListTyped, ListCall, ListRequest, ListResult
  <2>6. QED
    BY <2>4, <2>5
<1>2. ASSUME NEW n \in Sizes, L!SetPerPage(n) PROVE ListInv'
  <2>1. /\ perPage' = n /\ page' = 1
        /\ UNCHANGED <<screen, rows, search, items, pages, target, shown, importing>>
    BY <1>2 DEF L!SetPerPage
  <2>2. PICK c : c = L!Request(search, 1, n)
    OBVIOUS
  <2>a. page' \in Nat \ {0} /\ 1 \in Nat \ {0}
    BY <2>1
  <2>3. c \in ListRequest /\ c = L!Current' /\ c \in ListCall /\ c # L!Free /\ L!Sends(<<c>>)
    <3>1. c \in ListRequest
      BY <1>0, <2>a, <2>2, Requested
    <3>2. c = L!Current' /\ L!Sends(<<c>>)
      BY <1>2, <2>1, <2>2 DEF L!Current, L!SetPerPage
    <3>3. QED
      BY <3>1, <3>2, RequestIsCall
  <2>4. QED
    BY <1>0, <2>1, <2>a, <2>3, ListSend
<1>3. ASSUME NEW p \in 1 .. L!Cardinality(Rows), L!SetPage(p) PROVE ListInv'
  <2>0. p \in Nat \ {0}
    BY ListAssumption, SameListCardinality, FS_CardinalityType
  <2>1. /\ page' = p
        /\ UNCHANGED <<screen, rows, search, perPage, items, pages, target, shown, importing>>
    BY <1>3 DEF L!SetPage
  <2>2. PICK c : c = L!Request(search, p, perPage)
    OBVIOUS
  <2>3. c \in ListRequest /\ c = L!Current' /\ c \in ListCall /\ c # L!Free /\ L!Sends(<<c>>)
    BY <1>0, <1>3, <2>0, <2>1, <2>2, Requested, RequestIsCall DEF L!Current, L!SetPage
  <2>4. QED
    BY <1>0, <2>0, <2>1, <2>3, ListSend
<1>4. ASSUME (\E id \in Rows : L!AskDelete(id)) \/ L!CancelDelete \/ L!DismissDelete
      PROVE ListInv'
  <2>1. /\ UNCHANGED <<screen, rows, search, page, perPage, items, pages, importing, call>>
        /\ target' \in Rows \cup {None} /\ shown' \in BOOLEAN /\ (shown' => target' # None)
    BY <1>4, ListAssumption DEF L!AskDelete, L!CancelDelete, L!DismissDelete, ListInv, ListTyped,
                                L!TypeOK
  <2>2. ListTyped'
    BY <2>1 DEF ListInv, ListTyped, L!TypeOK, L!AsksForTarget, ListCall, ListRequest, ListResult
  <2>3. ListCalm => ListCalm'
    BY <2>1 DEF ListCalm, L!Waits, L!ShowsView, L!Quiet, L!Result, L!Current
  <2>4. QED
    BY <2>2, <2>3 DEF ListInv
<1>5. ASSUME L!HandleDelete PROVE ListInv'
  <2>1. /\ shown /\ shown' = FALSE
        /\ UNCHANGED <<screen, rows, search, page, perPage, items, pages, target, importing>>
    BY <1>5 DEF L!HandleDelete
  <2>2. target \in Rows
    BY <2>1 DEF ListInv, ListTyped, L!TypeOK, L!AsksForTarget
  <2>3. PICK r : r = L!Current
    OBVIOUS
  <2>4. r \in ListRequest /\ r = L!Current'
    BY <1>0, <2>1, <2>3 DEF L!Current
  <2>5. PICK c : c = [op |-> "delete", of |-> target, again |-> r, served |-> FALSE]
    OBVIOUS
  <2>6. c \in ListCall /\ c # L!Free /\ c.op # "list" /\ c.again = r /\ L!Sends(<<c>>)
    BY <1>5, <2>2, <2>3, <2>4, <2>5 DEF ListCall, L!Free, L!HandleDelete
  <2>7. QED
    BY <1>0, <2>1, <2>4, <2>6, ListSend
<1>6. ASSUME L!HandleImportFile PROVE ListInv'
  <2>1. /\ importing' = TRUE
        /\ UNCHANGED <<screen, rows, search, page, perPage, items, pages, target, shown>>
    BY <1>6 DEF L!HandleImportFile
  <2>2. PICK r : r = L!Current
    OBVIOUS
  <2>3. r \in ListRequest /\ r = L!Current'
    BY <1>0, <2>1, <2>2 DEF L!Current
  <2>4. PICK c : c = [op |-> "import", again |-> r, served |-> FALSE]
    OBVIOUS
  <2>5. c \in ListCall /\ c # L!Free /\ c.op # "list" /\ c.again = r /\ L!Sends(<<c>>)
    BY <1>6, <2>2, <2>3, <2>4 DEF ListCall, L!Free, L!HandleImportFile
  <2>6. QED
    BY <1>0, <2>1, <2>3, <2>5, ListSend
<1>7. QED
  BY <1>1, <1>2, <1>3, <1>4, <1>5, <1>6 DEF L!User

\* What becomes of a call, the others left as they are.
LEMMA CallBecomes ==
  ASSUME ListTyped, NEW q \in Calls, NEW d, call' = [call EXCEPT ![q] = d]
  PROVE  DOMAIN call' = Calls /\ \A p \in Calls : call'[p] = IF p = q THEN d ELSE call[p]
BY DEF ListTyped, L!TypeOK

LEMMA ListServe ==
  ASSUME ListInv, NEW q \in Calls, L!Serve(q), calm' => calm
  PROVE  ListInv'
<1>. USE DEF L!view, L!list, L!dialog
<1>1. /\ UNCHANGED <<screen, search, page, perPage, items, pages, target, shown, importing>>
      /\ L!Waits(q) /\ ~call[q].served
  BY DEF L!Serve
<1>2. PICK c \in ListCall : c = call[q]
  BY DEF ListInv, ListTyped
<1>3. c # L!Free
  BY <1>1, <1>2 DEF L!Waits
<1>4. ASSUME NEW d \in ListCall, d # L!Free, call' = [call EXCEPT ![q] = d],
      rows' \in SUBSET Rows,
             calm => \/ d.op # "list" /\ d.again = L!Current
                     \/ d.op = "list" /\ d.served = TRUE /\ d.result = L!Result(L!Current)'
      PROVE  ListInv'
  <2>1. DOMAIN call' = Calls /\ \A p \in Calls : call'[p] = IF p = q THEN d ELSE call[p]
    BY <1>4, CallBecomes DEF ListInv
  <2>2. ListTyped'
    <3>1. L!TypeOK' /\ L!AsksForTarget'
      BY <1>1, <1>4, <2>1 DEF ListInv, ListTyped, L!TypeOK, L!AsksForTarget
    <3>2. \A p \in Calls : call'[p] \in ListCall
      BY <1>4, <2>1 DEF ListInv, ListTyped
    <3>3. QED
      BY <3>1, <3>2 DEF ListTyped, ListCall, ListRequest, ListResult
  <2>3. ASSUME calm PROVE ListCalm'
    <3>1. \A p \in Calls : L!Waits(p)' <=> p = q
      BY <1>1, <1>4, <2>1, <2>3 DEF ListInv, ListCalm, L!Waits
    <3>2. ~L!Quiet' /\ L!Current' = L!Current /\ call'[q] = d
      BY <1>1, <2>1, <3>1 DEF L!Quiet, L!Current
    <3>3. QED
      BY <1>4, <2>3, <3>1, <3>2 DEF ListCalm, L!ShowsView
  <2>4. QED
    BY <2>2, <2>3 DEF ListInv
<1>5. CASE c.op = "list"
  <2>1. c \in ListRequest
    BY <1>1, <1>2, <1>5, ListCallSound
  <2>2. rows' = rows /\ rows \in SUBSET Rows
    BY <1>2, <1>5 DEF L!Serve, ListInv, ListTyped, L!TypeOK
  <2>3. PICK r : r = L!Result(c)
    OBVIOUS
  <2>4. r \in ListResult
    BY <2>1, <2>2, <2>3, ResultTyped DEF L!Result
  <2>5. PICK d : d = [op |-> "list", result |-> r, served |-> TRUE]
    OBVIOUS
  <2>6. d \in ListCall /\ d # L!Free /\ d.op = "list" /\ d.served = TRUE /\ d.result = r
    <3>1. d \in [op : {"list"}, result : ListResult, served : {TRUE}]
      BY <2>4, <2>5
    <3>2. QED
      BY <2>5, <3>1 DEF ListCall, L!Free
  <2>7. call' = [call EXCEPT ![q] = d]
    BY <1>2, <1>5, <2>3, <2>5 DEF L!Serve
  <2>8. calm => r = L!Result(L!Current)'
    <3>1. calm => c = L!Current
      BY <1>1, <1>2, <1>5 DEF ListInv, ListCalm
    <3>2. L!Result(L!Current)' = L!Result(L!Current)
      BY <1>1, <2>2 DEF L!Result, L!Current
    <3>3. QED
      BY <2>3, <3>1, <3>2
  <2>9. QED
    BY <1>4, <2>2, <2>6, <2>7, <2>8
<1>6. CASE c.op \in {"delete", "import"}
  <2>1. PICK d : d = [c EXCEPT !.served = TRUE]
    OBVIOUS
  <2>2. d \in ListCall /\ d # L!Free /\ d.op = c.op /\ d.again = c.again
    <3>1. CASE c \in [op : {"delete"}, of : Rows, again : ListRequest, served : BOOLEAN]
      <4>1. d \in [op : {"delete"}, of : Rows, again : ListRequest, served : BOOLEAN]
        BY <2>1, <3>1
      <4>2. d.op = c.op /\ d.again = c.again /\ d.op = "delete"
        BY <2>1, <3>1
      <4>3. d # L!Free
        BY <4>2 DEF L!Free
      <4>4. QED
        BY <4>1, <4>2, <4>3 DEF ListCall
    <3>2. CASE c \in [op : {"import"}, again : ListRequest, served : BOOLEAN]
      <4>1. d \in [op : {"import"}, again : ListRequest, served : BOOLEAN]
        BY <2>1, <3>2
      <4>2. d.op = c.op /\ d.again = c.again /\ d.op = "import"
        BY <2>1, <3>2
      <4>3. d # L!Free
        BY <4>2 DEF L!Free
      <4>4. QED
        BY <4>1, <4>2, <4>3 DEF ListCall
    <3>3. QED
      BY <1>3, <1>6, <3>1, <3>2 DEF ListCall, ListRequest
  <2>3. call' = [call EXCEPT ![q] = d] /\ rows' \in SUBSET Rows
    BY <1>2, <1>6, <2>1 DEF L!Serve, ListInv, ListTyped, L!TypeOK
  <2>4. calm => c.again = L!Current
    BY <1>1, <1>2, <1>6 DEF ListInv, ListCalm
  <2>5. QED
    BY <1>4, <1>6, <2>2, <2>3, <2>4
<1>7. QED
  BY <1>3, <1>5, <1>6, ListCallSound

LEMMA ListAnswer ==
  ASSUME ListInv, NEW q \in Calls, L!Answer(q), calm' => calm
  PROVE  ListInv'
<1>. USE DEF L!view, L!list, L!dialog
<1>1. UNCHANGED <<screen, rows, search, page, perPage>> /\ L!Waits(q) /\ call[q].served
  BY DEF L!Answer
<1>2. PICK c \in ListCall : c = call[q]
  BY DEF ListInv, ListTyped
<1>3. CASE L!Listed(q)
  <2>1. PICK r : r = c.result
    OBVIOUS
  <2>2. /\ c.op = "list" /\ items' = r.items /\ pages' = r.pages /\
           call' = [call EXCEPT ![q] = L!Free]
        /\ UNCHANGED <<target, shown, importing>>
    BY <1>2, <1>3, <2>1 DEF L!Listed
  <2>3. r \in ListResult
    BY <1>1, <1>2, <2>1, <2>2, ListCallSound
  <2>4. DOMAIN call' = Calls /\ \A p \in Calls : call'[p] = IF p = q THEN L!Free ELSE call[p]
    BY <2>2, CallBecomes DEF ListInv
  <2>5. ListTyped'
    <3>1. L!TypeOK' /\ L!AsksForTarget'
      BY <1>1, <2>2, <2>3, <2>4 DEF ListInv, ListTyped, L!TypeOK, L!AsksForTarget, ListResult
    <3>2. \A p \in Calls : call'[p] \in ListCall
      BY <2>4 DEF ListInv, ListTyped, ListCall
    <3>3. QED
      BY <3>1, <3>2 DEF ListTyped, ListCall, ListRequest, ListResult
  <2>6. ASSUME calm PROVE ListCalm'
    <3>1. r = L!Result(L!Current) /\ \A p \in Calls : ~L!Waits(p)'
      BY <1>1, <1>2, <2>1, <2>2, <2>4, <2>6 DEF ListInv, ListCalm, L!Waits
    <3>2. L!Result(L!Current)' = L!Result(L!Current)
      BY <1>1 DEF L!Result, L!Current
    <3>3. [items |-> items', pages |-> pages'] = r
      BY <2>2, <2>3 DEF ListResult
    <3>4. L!ShowsView'
      BY <3>1, <3>2, <3>3 DEF L!ShowsView
    <3>5. QED
      BY <3>1, <3>4 DEF ListCalm
  <2>7. QED
    BY <2>5, <2>6 DEF ListInv
<1>4. CASE L!Deleted(q) \/ L!Imported(q)
  <2>1. PICK r : r = c.again
    OBVIOUS
  <2>2. /\ c.op \in {"delete", "import"} /\ call' = [call EXCEPT ![q] = r]
        /\ UNCHANGED <<items, pages>>
        /\ UNCHANGED <<target, shown>> \/ (target' = None /\ shown' = FALSE)
        /\ importing' = importing \/ importing' = FALSE
    <3>1. call' = [call EXCEPT ![q] = call[q].again]
      BY <1>4 DEF L!Deleted, L!Imported
    <3>2. QED
      BY <1>2, <1>4, <2>1, <3>1 DEF L!Deleted, L!Imported
  <2>3. r \in ListRequest /\ r \in ListCall /\ r # L!Free /\ r.op = "list" /\ r.served = FALSE
    BY <2>1, <2>2, ListCallSound, RequestIsCall
  <2>4. DOMAIN call' = Calls /\ \A p \in Calls : call'[p] = IF p = q THEN r ELSE call[p]
    BY <2>2, CallBecomes DEF ListInv
  <2>5. ListTyped'
    <3>1. L!TypeOK' /\ L!AsksForTarget'
      <4>1. target' \in Rows \cup {None} /\ shown' \in BOOLEAN /\ importing' \in BOOLEAN /\
            (shown' => target' # None)
        <5>1. target \in Rows \cup {None} /\ shown \in BOOLEAN /\ importing \in BOOLEAN /\
              (shown => target # None)
          BY DEF ListInv, ListTyped, L!TypeOK, L!AsksForTarget
        <5>2. CASE target' = target /\ shown' = shown
          BY <2>2, <5>1, <5>2
        <5>3. CASE target' = None /\ shown' = FALSE
          BY <2>2, <5>1, <5>3
        <5>4. QED
          BY <2>2, <5>2, <5>3
      <4>2. QED
        BY <1>1, <2>2, <2>4, <4>1 DEF ListInv, ListTyped, L!TypeOK, L!AsksForTarget
    <3>2. \A p \in Calls : call'[p] \in ListCall
      BY <2>3, <2>4 DEF ListInv, ListTyped
    <3>3. QED
      BY <3>1, <3>2 DEF ListTyped, ListCall, ListRequest, ListResult
  <2>6. ASSUME calm PROVE ListCalm'
    <3>1. r = L!Current /\ \A p \in Calls : L!Waits(p)' <=> p = q
      BY <1>1, <1>2, <2>1, <2>2, <2>3, <2>4, <2>6 DEF ListInv, ListCalm, L!Waits
    <3>2. L!Current' = L!Current /\ ~L!Quiet' /\ call'[q] = r
      BY <1>1, <2>4, <3>1 DEF L!Current, L!Quiet
    <3>3. QED
      BY <2>3, <3>1, <3>2 DEF ListCalm, L!ShowsView
  <2>7. QED
    BY <2>5, <2>6 DEF ListInv
<1>5. QED
  BY <1>3, <1>4 DEF L!Answer

LEMMA ListFail ==
  ASSUME ListInv, NEW q \in Calls, L!Fail(q), calm' = FALSE
  PROVE  ListInv'
<1>. USE DEF L!view, L!list, L!dialog
<1>1. /\ UNCHANGED <<screen, rows, search, page, perPage, items, pages>> /\
         call' = [call EXCEPT ![q] = L!Free]
      /\ UNCHANGED <<target, shown>> \/ (target' = None /\ shown' = FALSE)
      /\ importing' = importing \/ importing' = FALSE
  BY DEF L!Fail
<1>2. DOMAIN call' = Calls /\ \A p \in Calls : call'[p] = IF p = q THEN L!Free ELSE call[p]
  BY <1>1, CallBecomes DEF ListInv
<1>3. L!TypeOK' /\ L!AsksForTarget'
  <2>1. target' \in Rows \cup {None} /\ shown' \in BOOLEAN /\ importing' \in BOOLEAN /\
        (shown' => target' # None)
    <3>1. target \in Rows \cup {None} /\ shown \in BOOLEAN /\ importing \in BOOLEAN /\
          (shown => target # None)
      BY DEF ListInv, ListTyped, L!TypeOK, L!AsksForTarget
    <3>2. CASE target' = target /\ shown' = shown
      BY <1>1, <3>1, <3>2
    <3>3. CASE target' = None /\ shown' = FALSE
      BY <1>1, <3>1, <3>3
    <3>4. QED
      BY <1>1, <3>2, <3>3
  <2>2. QED
    BY <1>1, <1>2, <2>1 DEF ListInv, ListTyped, L!TypeOK, L!AsksForTarget
<1>4. \A p \in Calls : call'[p] \in ListCall
  BY <1>2 DEF ListInv, ListTyped, ListCall
<1>5. QED
  BY <1>3, <1>4 DEF ListInv, ListTyped, ListCall, ListRequest, ListResult

LEMMA ListStep ==
  ASSUME ListInv,
         ListNext \/ UNCHANGED <<screen, rows, search, page, perPage, items, pages, target, shown,
                                 importing, call, calm>>
  PROVE  ListInv'
<1>1. ASSUME ListNext PROVE ListInv'
  <2>1. CASE /\ L!User
             /\ calm' = (calm /\ \A p, q \in Calls :
                                    call'[p] # L!Free /\ call'[q] # L!Free => p = q)
    BY <2>1, ListUser
  <2>2. CASE (\E q \in Calls : L!Serve(q) \/ L!Answer(q)) /\ UNCHANGED calm
    BY <2>2, ListServe, ListAnswer
  <2>3. CASE (\E q \in Calls : L!Fail(q)) /\ calm' = FALSE
    BY <2>3, ListFail
  <2>4. QED
    BY <1>1, <2>1, <2>2, <2>3 DEF ListNext
<1>2. CASE UNCHANGED <<screen, rows, search, page, perPage, items, pages, target, shown,
                       importing, call, calm>>
  <2>1. ListTyped'
    BY <1>2 DEF ListInv, ListTyped, L!TypeOK, L!AsksForTarget, ListCall, ListRequest, ListResult
  <2>2. ListCalm => ListCalm'
    BY <1>2 DEF ListCalm, L!Waits, L!ShowsView, L!Quiet, L!Result, L!Current
  <2>3. QED
    BY <1>2, <2>1, <2>2 DEF ListInv
<1>3. QED
  BY <1>1, <1>2

LEMMA ListStart ==
  ASSUME L!Init
  PROVE  ListInv
<1>1. /\ screen \in L!Screens /\ rows \in SUBSET Rows /\ page = 1 /\ items = <<>> /\ pages = 1
      /\ target = None /\ shown = FALSE /\ importing = FALSE
      /\ search = CHOOSE s \in Searches : Found[s] = Rows
      /\ perPage = L!Max(Sizes)
      /\ \E q \in Calls : call = [p \in Calls |-> IF p = q THEN L!Current ELSE L!Free]
  BY DEF L!Init
<1>2. search \in Searches
  BY <1>1, ListAssumption
<1>3. perPage \in Sizes
  BY <1>1, ListAssumption, GreatestOf DEF L!Max
<1>4. PICK r : r = L!Current
  OBVIOUS
<1>a. page \in Nat \ {0} /\ pages \in Nat \ {0} /\ items \in Seq(Rows)
  BY <1>1
<1>5. r \in ListRequest
  BY <1>a, <1>2, <1>3, <1>4, Requested DEF L!Current
<1>6. PICK q \in Calls : call = [p \in Calls |-> IF p = q THEN r ELSE L!Free]
  BY <1>1, <1>4
<1>7. r \in ListCall /\ r # L!Free /\ r.op = "list" /\ r.served = FALSE
  BY <1>5, RequestIsCall
<1>8. ListTyped
  <2>1. L!TypeOK
    BY <1>a, <1>1, <1>2, <1>3, <1>6 DEF L!TypeOK
  <2>2. QED
    BY <1>1, <1>6, <1>7, <2>1 DEF ListTyped, L!AsksForTarget, ListCall
<1>9. ListCalm
  <2>1. \A p \in Calls : L!Waits(p) <=> p = q
    BY <1>6, <1>7 DEF L!Waits
  <2>2. QED
    BY <1>4, <1>6, <1>7, <2>1 DEF ListCalm, L!ShowsView, L!Quiet
<1>10. QED
  BY <1>8, <1>9 DEF ListInv

LEMMA ListFollows ==
  ASSUME ListInv
  PROVE  L!TypeOK /\ L!AsksForTarget /\ (calm => L!ShowsView)
BY DEF ListInv, ListTyped, ListCalm

-----------------------------------------------------------------------------
(***************************************************************************)
(* The buttons of the pages: however many pages there are, they are in     *)
(* order, and a mark stands where at least one is left out.                *)
(***************************************************************************)
\* What PagerComplete says of a sequence of buttons.
ButtonsComplete(b, p, n) ==
  /\ {1, p, n} \subseteq {b[i] : i \in DOMAIN b}
  /\ \A i, j \in 1 .. Len(b) : i < j /\ b[i] # 0 /\ b[j] # 0 => b[i] < b[j]
  /\ \A i \in 1 .. Len(b) - 1 :
       IF b[i + 1] = 0 THEN b[i] + 1 < b[i + 2] ELSE b[i] = 0 \/ b[i + 1] = b[i] + 1

LEMMA FewButtons ==
  ASSUME NEW n \in Nat \ {0}, NEW p \in 1 .. n
  PROVE  ButtonsComplete([i \in 1 .. n |-> i], p, n)
<1>1. PICK b : b = [i \in 1 .. n |-> i]
  OBVIOUS
<1>2. DOMAIN b = 1 .. n /\ Len(b) = n /\ \A i \in 1 .. n : b[i] = i
  BY <1>1
<1>3. QED
  BY <1>1, <1>2 DEF ButtonsComplete

LEMMA SingleButton ==
  ASSUME NEW k \in Int
  PROVE  \E s \in Seq(Int) : s = <<k>> /\ Len(s) = 1 /\ s[1] = k
<1>1. PICK s : s = <<k>>
  OBVIOUS
<1>2. s \in Seq(Int)
  BY <1>1
<1>3. Len(s) = 1 /\ s[1] = k
  BY <1>1
<1>4. QED
  BY <1>1, <1>2, <1>3

\* Two sequences of buttons one after the other.
JoinedAs(s, t, c) ==
  /\ c = s \o t
  /\ Len(c) = Len(s) + Len(t)
  /\ \A i \in 1 .. Len(s) : c[i] = s[i]
  /\ \A i \in 1 .. Len(t) : c[Len(s) + i] = t[i]

LEMMA ButtonsJoined ==
  ASSUME NEW s \in Seq(Int), NEW t \in Seq(Int)
  PROVE  \E c \in Seq(Int) : JoinedAs(s, t, c)
<1>1. PICK c \in Seq(Int) : c = s \o t
  BY ConcatProperties
<1>2. Len(c) = Len(s) + Len(t)
      /\ \A i \in 1 .. Len(s) + Len(t) : c[i] = IF i <= Len(s) THEN s[i] ELSE t[i - Len(s)]
  BY <1>1, ConcatProperties
<1>3. Len(s) \in Nat /\ Len(t) \in Nat
  OBVIOUS
<1>4. \A i \in 1 .. Len(s) : c[i] = s[i]
  BY <1>2, <1>3
<1>5. ASSUME NEW i \in 1 .. Len(t) PROVE c[Len(s) + i] = t[i]
  <2>1. PICK j \in Int : j = Len(s) + i
    BY <1>3
  <2>2. j \in 1 .. Len(s) + Len(t) /\ ~(j <= Len(s)) /\ j - Len(s) = i
    BY <1>3, <2>1
  <2>3. QED
    BY <1>2, <2>1, <2>2
<1>6. JoinedAs(s, t, c)
  BY <1>1, <1>2, <1>4, <1>5 DEF JoinedAs
<1>7. QED
  BY <1>6

\* A mark for the pages left out, if there are any.
LEMMA OmissionMark ==
  ASSUME NEW c \in BOOLEAN
  PROVE  \E d \in Seq(Int) : /\ d = (IF c THEN <<0>> ELSE <<>>)
                             /\ (c => Len(d) = 1 /\ d[1] = 0)
                             /\ (~c => Len(d) = 0)
<1>1. CASE c
  <2>1. PICK d \in Seq(Int) : d = <<0>> /\ Len(d) = 1 /\ d[1] = 0
    BY SingleButton
  <2>2. QED
    BY <1>1, <2>1
<1>2. CASE ~c
  <2>1. PICK d : d = <<>>
    OBVIOUS
  <2>2. d \in Seq(Int) /\ Len(d) = 0
    BY <2>1
  <2>3. QED
    BY <1>2, <2>1, <2>2
<1>3. QED
  BY <1>1, <1>2

\* The first page, a mark, the middle, a mark and the last page.
PutTogether(d, m, e, n, b) ==
  /\ b = <<1>> \o d \o m \o e \o <<n>>
  /\ Len(b) = Len(d) + Len(m) + Len(e) + 2
  /\ b[1] = 1
  /\ \A i \in 1 .. Len(d) : b[i + 1] = d[i]
  /\ \A i \in 1 .. Len(m) : b[i + Len(d) + 1] = m[i]
  /\ \A i \in 1 .. Len(e) : b[i + Len(d) + Len(m) + 1] = e[i]
  /\ b[Len(b)] = n

LEMMA ButtonsInOrder ==
  ASSUME NEW n \in Int, NEW d \in Seq(Int), NEW m \in Seq(Int), NEW e \in Seq(Int)
  PROVE  \E b \in Seq(Int) : PutTogether(d, m, e, n, b)
<1>1. PICK s \in Seq(Int) : s = <<1>> /\ Len(s) = 1 /\ s[1] = 1
  BY SingleButton
<1>2. PICK t \in Seq(Int) : t = <<n>> /\ Len(t) = 1 /\ t[1] = n
  BY SingleButton
<1>3. PICK u \in Seq(Int) : JoinedAs(s, d, u)
  BY ButtonsJoined
<1>4. PICK v \in Seq(Int) : JoinedAs(u, m, v)
  BY ButtonsJoined
<1>5. PICK w \in Seq(Int) : JoinedAs(v, e, w)
  BY ButtonsJoined
<1>6. PICK b \in Seq(Int) : JoinedAs(w, t, b)
  BY ButtonsJoined
<1>7. PICK x \in Nat, y \in Nat, z \in Nat : x = Len(d) /\ y = Len(m) /\ z = Len(e)
  OBVIOUS
<1>8. Len(s) = 1 /\ Len(t) = 1 /\ Len(u) = x + 1 /\ Len(v) = x + y + 1
      /\ Len(w) = x + y + z + 1 /\ Len(b) = x + y + z + 2
  BY <1>1, <1>2, <1>3, <1>4, <1>5, <1>6, <1>7 DEF JoinedAs
<1>9. /\ \A i \in 1 .. x + y + z + 1 : b[i] = w[i]
      /\ \A i \in 1 .. x + y + 1 : w[i] = v[i]
      /\ \A i \in 1 .. x + 1 : v[i] = u[i]
      /\ u[1] = 1
      /\ b[x + y + z + 2] = n
  <2>1. \A i \in 1 .. x + y + z + 1 : b[i] = w[i]
    BY <1>6, <1>8 DEF JoinedAs
  <2>2. \A i \in 1 .. x + y + 1 : w[i] = v[i]
    BY <1>5, <1>8 DEF JoinedAs
  <2>3. \A i \in 1 .. x + 1 : v[i] = u[i]
    BY <1>4, <1>8 DEF JoinedAs
  <2>4. u[1] = 1
    BY <1>1, <1>3, <1>8 DEF JoinedAs
  <2>5. b[x + y + z + 2] = n
    <3>1. 1 \in 1 .. Len(t) /\ Len(w) + 1 = x + y + z + 2
      BY <1>7, <1>8
    <3>2. b[Len(w) + 1] = t[1]
      BY <1>6, <3>1 DEF JoinedAs
    <3>3. QED
      BY <1>2, <3>1, <3>2
  <2>6. QED
    BY <2>1, <2>2, <2>3, <2>4, <2>5
<1>10. b[1] = 1
  <2>1. 1 \in 1 .. x + y + z + 1 /\ 1 \in 1 .. x + y + 1 /\ 1 \in 1 .. x + 1
    BY <1>7
  <2>2. b[1] = w[1] /\ w[1] = v[1] /\ v[1] = u[1]
    BY <1>9, <2>1
  <2>3. QED
    BY <1>9, <2>2
<1>11. ASSUME NEW i \in 1 .. x PROVE b[i + 1] = d[i]
  <2>1. PICK j \in Int : j = i + 1
    BY <1>7
  <2>2. j \in 1 .. x + 1 /\ j = Len(s) + i
    BY <1>7, <1>8, <2>1
  <2>3. u[j] = d[i]
    BY <1>3, <1>7, <2>2 DEF JoinedAs
  <2>4. j \in 1 .. x + y + z + 1 /\ j \in 1 .. x + y + 1
    BY <1>7, <2>2
  <2>5. b[j] = w[j] /\ w[j] = v[j] /\ v[j] = u[j]
    BY <1>9, <2>2, <2>4
  <2>6. QED
    BY <2>1, <2>3, <2>5
<1>12. ASSUME NEW i \in 1 .. y PROVE b[i + x + 1] = m[i]
  <2>1. PICK j \in Int : j = i + x + 1
    BY <1>7
  <2>2. j \in 1 .. x + y + 1 /\ j = Len(u) + i
    BY <1>7, <1>8, <1>12, <2>1
  <2>3. v[j] = m[i]
    BY <1>4, <1>7, <2>2 DEF JoinedAs
  <2>4. j \in 1 .. x + y + z + 1
    BY <1>7, <2>2
  <2>5. b[j] = w[j] /\ w[j] = v[j]
    BY <1>9, <2>2, <2>4
  <2>6. QED
    BY <2>1, <2>3, <2>5
<1>13. ASSUME NEW i \in 1 .. z PROVE b[i + x + y + 1] = e[i]
  <2>1. PICK j \in Int : j = i + x + y + 1
    BY <1>7
  <2>2. j \in 1 .. x + y + z + 1
    BY <1>7, <1>13, <2>1
  <2>3. j = Len(v) + i
    BY <1>7, <1>8, <2>1
  <2>4. w[j] = e[i]
    BY <1>5, <1>7, <2>3 DEF JoinedAs
  <2>5. QED
    BY <1>9, <2>1, <2>2, <2>4
<1>14. b[Len(b)] = n
  BY <1>8, <1>9
<1>15. b = <<1>> \o d \o m \o e \o <<n>>
  BY <1>1, <1>2, <1>3, <1>4, <1>5, <1>6 DEF JoinedAs
<1>16. Len(b) = Len(d) + Len(m) + Len(e) + 2
  BY <1>7, <1>8
<1>17. PutTogether(d, m, e, n, b)
  BY <1>7, <1>10, <1>11, <1>12, <1>13, <1>14, <1>15, <1>16 DEF PutTogether
<1>18. QED
  BY <1>17

\* What the arrangement of the buttons comes to: the page that is on has its
\* neighbours, a mark stands for at least one page, and nothing else is left out.
Arranged(n, p, from, to, k, z, b) ==
  /\ from = (IF p - 1 > 2 THEN p - 1 ELSE 2)
  /\ to = (IF p + 1 < n - 1 THEN p + 1 ELSE n - 1)
  /\ k = (IF p > 3 THEN 1 ELSE 0)
  /\ z = (IF p < n - 2 THEN 1 ELSE 0)
  /\ Len(b) = k + z + to - from + 3 /\ b[1] = 1
  /\ k = 1 => b[2] = 0
  /\ \A i \in k + 2 .. k + to - from + 2 : b[i] = from + i - k - 2
  /\ z = 1 => b[k + to - from + 3] = 0
  /\ b[k + z + to - from + 3] = n

LEMMA ArrangedComplete ==
  ASSUME NEW n \in Nat, n > 7, NEW p \in 1 .. n, NEW from \in Int, NEW to \in Int,
         NEW k \in 0 .. 1, NEW z \in 0 .. 1, NEW b \in Seq(Int),
         Arranged(n, p, from, to, k, z, b)
  PROVE  ButtonsComplete(b, p, n)
<1> USE DEF Arranged
<1>1. from \in 2 .. n - 1 /\ to \in from .. n - 1
  OBVIOUS
<1>2. PICK last \in Nat : last = k + z + to - from + 3
  BY <1>1
<1>3. DOMAIN b = 1 .. last /\ Len(b) = last /\ b[last] = n /\ 1 \in 1 .. last /\
      last \in 1 .. last
  BY <1>1, <1>2
<1>4. \A i \in 1 .. last : \/ i = 1
                           \/ k = 1 /\ i = 2
                           \/ i \in k + 2 .. k + to - from + 2
                           \/ z = 1 /\ i = k + to - from + 3
                           \/ i = last
  BY <1>1, <1>2
<1>5. {1, p, n} \subseteq {b[i] : i \in DOMAIN b}
  <2>1. \E i \in 1 .. last : b[i] = p
    <3>1. CASE p \in from .. to
      <4>1. PICK i \in 1 .. last : i = p - from + k + 2 /\ i \in k + 2 .. k + to - from + 2
        BY <1>1, <1>2, <3>1
      <4>2. b[i] = p
        BY <1>1, <4>1
      <4>3. QED
        BY <4>2
    <3>2. CASE p \notin from .. to
      <4>1. p = 1 \/ p = n
        BY <1>1, <3>2
      <4>2. QED
        BY <1>3, <4>1
    <3>3. QED
      BY <3>1, <3>2
  <2>2. QED
    BY <1>3, <2>1
<1>6. ASSUME NEW i \in 1 .. last, NEW j \in 1 .. last, i < j, b[i] # 0, b[j] # 0
      PROVE  b[i] < b[j]
  <2>1. \/ i = 1 /\ b[i] = 1
        \/ i \in k + 2 .. k + to - from + 2 /\ b[i] = from + i - k - 2
    BY <1>1, <1>2, <1>4, <1>6
  <2>2. \/ j = last /\ b[j] = n
        \/ j \in k + 2 .. k + to - from + 2 /\ b[j] = from + j - k - 2
    BY <1>1, <1>2, <1>3, <1>4, <1>6
  <2>3. QED
    BY <1>1, <1>6, <2>1, <2>2
<1>7. ASSUME NEW i \in 1 .. last - 1
      PROVE  IF b[i + 1] = 0 THEN b[i] + 1 < b[i + 2] ELSE b[i] = 0 \/ b[i + 1] = b[i] + 1
  <2>1. PICK j \in Nat, h \in Nat : j = i + 1 /\ h = i + 2
    OBVIOUS
  <2>2. CASE i = 1
    <3>1. CASE k = 1
      <4>1. b[j] = 0 /\ b[i] = 1
        BY <2>1, <2>2, <3>1
      <4>2. b[h] = from /\ from > 2
        BY <1>1, <2>1, <2>2, <3>1
      <4>3. QED
        BY <2>1, <4>1, <4>2
    <3>2. CASE k = 0
      <4>1. from = 2 /\ j \in k + 2 .. k + to - from + 2 /\ j = 2
        BY <1>1, <2>1, <2>2, <3>2
      <4>2. b[j] = 2 /\ b[i] = 1
        BY <2>2, <3>2, <4>1
      <4>3. QED
        BY <2>1, <4>2
    <3>3. QED
      BY <3>1, <3>2
  <2>3. CASE k = 1 /\ i = 2
    <3>1. j \in k + 2 .. k + to - from + 2 /\ b[i] = 0
      BY <1>1, <2>1, <2>3
    <3>2. b[j] # 0
      BY <1>1, <3>1
    <3>3. QED
      BY <2>1, <3>1, <3>2
  <2>4. CASE i \in k + 2 .. k + to - from + 2
    <3>1. b[i] = from + i - k - 2
      BY <2>4
    <3>2. CASE i < k + to - from + 2
      <4>1. j \in k + 2 .. k + to - from + 2
        BY <1>1, <2>1, <2>4, <3>2
      <4>2. b[j] = from + j - k - 2 /\ b[j] # 0
        BY <1>1, <4>1
      <4>3. b[j] = b[i] + 1
        BY <1>1, <2>1, <3>1, <4>2
      <4>4. QED
        BY <2>1, <4>2, <4>3
    <3>3. CASE i = k + to - from + 2
      <4>1. b[i] = to
        BY <1>1, <3>1, <3>3
      <4>2. CASE z = 1
        <5>1. j = k + to - from + 3 /\ h = last
          BY <1>1, <1>2, <2>1, <3>3, <4>2
        <5>2. b[j] = 0 /\ b[h] = n /\ to + 1 < n
          BY <1>1, <1>3, <4>2, <5>1
        <5>3. QED
          BY <2>1, <4>1, <5>2
      <4>3. CASE z = 0
        <5>1. j = last /\ to = n - 1
          BY <1>1, <1>2, <2>1, <3>3, <4>3
        <5>2. b[j] = n /\ n # 0
          BY <1>3, <5>1
        <5>3. QED
          BY <2>1, <4>1, <5>1, <5>2
      <4>4. QED
        BY <4>2, <4>3
    <3>4. QED
      BY <1>1, <2>4, <3>2, <3>3
  <2>5. CASE z = 1 /\ i = k + to - from + 3
    <3>1. b[i] = 0 /\ j = last
      BY <1>1, <1>2, <2>1, <2>5
    <3>2. b[j] # 0
      BY <1>3, <3>1
    <3>3. QED
      BY <2>1, <3>1, <3>2
  <2>6. i \in 1 .. last /\ i # last
    BY <1>7
  <2>7. QED
    BY <1>4, <2>2, <2>3, <2>4, <2>5, <2>6
<1>8. QED
  BY <1>3, <1>5, <1>6, <1>7 DEF ButtonsComplete

LEMMA ManyButtons ==
  ASSUME NEW n \in Nat, n > 7, NEW p \in 1 .. n
  PROVE  L!PagerComplete(p, n)
<1>1. PICK from \in Int : from = (IF p - 1 > 2 THEN p - 1 ELSE 2)
  OBVIOUS
<1>2. PICK to \in Int : to = (IF p + 1 < n - 1 THEN p + 1 ELSE n - 1)
  OBVIOUS
<1>3. from \in 2 .. n - 1 /\ to \in from .. n - 1
  BY <1>1, <1>2
<1>4. PICK d \in Seq(Int) : /\ d = (IF p > 3 THEN <<0>> ELSE <<>>)
                            /\ (p > 3 => Len(d) = 1 /\ d[1] = 0)
                            /\ (~(p > 3) => Len(d) = 0)
  BY OmissionMark
<1>5. PICK e \in Seq(Int) : /\ e = (IF p < n - 2 THEN <<0>> ELSE <<>>)
                            /\ (p < n - 2 => Len(e) = 1 /\ e[1] = 0)
                            /\ (~(p < n - 2) => Len(e) = 0)
  BY OmissionMark
<1>6. PICK k \in 0 .. 1 : k = (IF p > 3 THEN 1 ELSE 0)
  OBVIOUS
<1>7. PICK z \in 0 .. 1 : z = (IF p < n - 2 THEN 1 ELSE 0)
  OBVIOUS
<1>8. PICK m \in Seq(Int) :
        /\ m = [i \in 1 .. to - from + 1 |-> from + i - 1]
        /\ Len(m) = to - from + 1 /\ \A i \in 1 .. Len(m) : m[i] = from + i - 1
  <2>1. PICK m : m = [i \in 1 .. to - from + 1 |-> from + i - 1]
    OBVIOUS
  <2>2. m \in [1 .. to - from + 1 -> Int] /\ to - from + 1 \in Nat
    BY <1>3, <2>1
  <2>3. m \in Seq(Int) /\ Len(m) = to - from + 1
    BY <2>2
  <2>4. QED
    BY <2>1, <2>3
<1>9. n \in Int
  OBVIOUS
<1>10. PICK b \in Seq(Int) : PutTogether(d, m, e, n, b)
  BY <1>9, ButtonsInOrder
<1>11. /\ b = <<1>> \o d \o m \o e \o <<n>>
       /\ Len(b) = Len(d) + Len(m) + Len(e) + 2
       /\ b[1] = 1
       /\ \A i \in 1 .. Len(d) : b[i + 1] = d[i]
       /\ \A i \in 1 .. Len(m) : b[i + Len(d) + 1] = m[i]
       /\ \A i \in 1 .. Len(e) : b[i + Len(d) + Len(m) + 1] = e[i]
       /\ b[Len(b)] = n
  BY <1>10 DEF PutTogether
<1>12. Len(d) = k /\ Len(e) = z /\ Len(b) = k + z + to - from + 3
  <2>1. Len(d) = k /\ Len(e) = z
    BY <1>4, <1>5, <1>6, <1>7
  <2>2. QED
    BY <1>3, <1>8, <1>11, <2>1
<1>13. k = 1 => b[2] = 0
  BY <1>4, <1>6, <1>11, <1>12
<1>14. ASSUME NEW i \in k + 2 .. k + to - from + 2 PROVE b[i] = from + i - k - 2
  <2>1. PICK j \in 1 .. Len(m) : j = i - k - 1 /\ j + Len(d) + 1 = i
    BY <1>3, <1>8, <1>12
  <2>2. b[i] = m[j]
    BY <1>11, <2>1
  <2>3. QED
    BY <1>3, <1>8, <2>1, <2>2
<1>15. z = 1 => b[k + to - from + 3] = 0
  <2>1. SUFFICES ASSUME z = 1 PROVE b[k + to - from + 3] = 0
    OBVIOUS
  <2>2. 1 \in 1 .. Len(e) /\ 1 + Len(d) + Len(m) + 1 = k + to - from + 3
    BY <1>3, <1>8, <1>12, <2>1
  <2>3. e[1] = 0
    BY <1>5, <1>7, <2>1
  <2>4. QED
    BY <1>11, <2>2, <2>3
<1>16. ButtonsComplete(b, p, n)
  <2>1. b[k + z + to - from + 3] = n
    BY <1>12, <1>11
  <2>2. Arranged(n, p, from, to, k, z, b)
    BY <1>1, <1>2, <1>6, <1>7, <1>12, <1>13, <1>14, <1>15, <1>11, <2>1 DEF Arranged
  <2>3. QED
    BY <2>2, ArrangedComplete
<1>17. L!GetPageNumbers(p, n) = b
  <2>1. ~(n <= 7)
    OBVIOUS
  <2>2. L!GetPageNumbers(p, n) = <<1>> \o (IF p > 3 THEN <<0>> ELSE <<>>)
          \o [i \in 1 .. to - from + 1 |-> from + i - 1]
          \o (IF p < n - 2 THEN <<0>> ELSE <<>>) \o <<n>>
    BY <1>1, <1>2, <2>1, Zenon DEF L!GetPageNumbers
  <2>3. QED
    BY <1>4, <1>5, <1>8, <1>11, <2>2, Zenon
<1>18. QED
  BY <1>16, <1>17 DEF L!PagerComplete, ButtonsComplete, L!ToSet

\* However many pages there are, the numbered buttons lead to the first, to the last
\* and to the one that is on.
LEMMA PagersComplete ==
  ASSUME NEW n \in Nat \ {0}, NEW p \in 1 .. n
  PROVE  L!PagerComplete(p, n)
<1>1. CASE n <= 7
  <2>1. L!GetPageNumbers(p, n) = [i \in 1 .. n |-> i]
    BY <1>1 DEF L!GetPageNumbers
  <2>2. QED
    BY <2>1, FewButtons DEF L!PagerComplete, ButtonsComplete, L!ToSet
<1>2. CASE n > 7
  BY <1>2, ManyButtons
<1>3. QED
  BY <1>1, <1>2

-----------------------------------------------------------------------------
(***************************************************************************)
(* The views by filter. The answer that counts is the one for the filter   *)
(* that is on: the others are cancelled, or there is none.                 *)
(***************************************************************************)
\* What the views have in common: one that cancels loads by itself, with a flag.
ViewPageSound(p) ==
  /\ p.load.cancels \in BOOLEAN /\ p.load.flag \in BOOLEAN
  /\ p.load.cancels => p.load.auto /\ p.load.flag /\ ~p.load.polls /\ ~p.ui.button /\ ~p.ui.blank
  /\ p.load.polls => ~p.ui.blank
  /\ p.load.auto /\ p.ui.blank => p.ui.empties

ViewCall ==
  {F!Free} \cup [stage : {"sent"}, of : Filters, cancelled : BOOLEAN]
    \cup [stage : {"done"}, of : Filters, cancelled : BOOLEAN, at : 0 .. MaxVersion]

ViewTyped ==
  /\ F!TypeOK /\ call \in [Calls -> ViewCall]
  /\ ~page.ui.blank => filter # None

\* The answer that counts is one for the filter.
Counts(q) == F!Busy(q) /\ ~call[q].cancelled
OneCounts ==
  /\ \A p, q \in Calls : Counts(p) /\ Counts(q) => p = q
  /\ \A q \in Calls : Counts(q) => loading /\ call[q].of = filter
  /\ F!CancellingShowsFilter

\* The call of a user who waits is the only one, and for the filter.
OneAsks ==
  /\ \A p, q \in Calls : F!Busy(p) /\ F!Busy(q) => p = q
  /\ \A q \in Calls : F!Busy(q) => ~call[q].cancelled /\ call[q].of = filter
  /\ F!ShowsFilter

ViewInv ==
  /\ ViewTyped
  /\ page.load.cancels => OneCounts
  /\ calm /\ page.load.auto => OneAsks

LEMMA ViewPagesSound == \A p \in F!Pages : ViewPageSound(p)
<1>1. ViewPageSound([load |-> F!MissedLoad, ui |-> F!MissedTabs])
  BY DEF ViewPageSound, F!MissedLoad, F!MissedTabs
<1>2. ViewPageSound([load |-> F!GeofenceLoad, ui |-> F!GeofenceFilter])
  BY DEF ViewPageSound, F!GeofenceLoad, F!GeofenceFilter
<1>3. ViewPageSound([load |-> F!GeofenceLoad, ui |-> F!GeofenceSubmit])
  BY DEF ViewPageSound, F!GeofenceLoad, F!GeofenceSubmit
<1>4. ViewPageSound([load |-> F!DashboardLoad, ui |-> F!DashboardControls])
  BY DEF ViewPageSound, F!DashboardLoad, F!DashboardControls
<1>5. ViewPageSound([load |-> F!HolidayLoad, ui |-> F!MonthControls])
  BY DEF ViewPageSound, F!HolidayLoad, F!MonthControls
<1>6. ViewPageSound([load |-> F!HistoryLoad, ui |-> F!HistoryControls])
  BY DEF ViewPageSound, F!HistoryLoad, F!HistoryControls
<1>7. ViewPageSound([load |-> F!PayslipLoad, ui |-> F!MonthControls])
  BY DEF ViewPageSound, F!PayslipLoad, F!MonthControls
<1>8. ViewPageSound([load |-> F!ReportLoad, ui |-> F!ReportControls])
  BY DEF ViewPageSound, F!ReportLoad, F!ReportControls
<1>9. ViewPageSound([load |-> F!DailyLoad, ui |-> F!DailyControls])
  BY DEF ViewPageSound, F!DailyLoad, F!DailyControls
<1>10. ViewPageSound([load |-> F!MonthLoad, ui |-> F!MonthControls])
  BY DEF ViewPageSound, F!MonthLoad, F!MonthControls
<1>11. ViewPageSound([load |-> F!DayLoad, ui |-> F!DayControls])
  BY DEF ViewPageSound, F!DayLoad, F!DayControls
<1>12. QED
  BY <1>1, <1>2, <1>3, <1>4, <1>5, <1>6, <1>7, <1>8, <1>9, <1>10, <1>11 DEF F!Pages

LEMMA ViewAssumption == F!FilteredViewAssumption
BY AssumptionsOfScreens

LEMMA SentCall ==
  ASSUME NEW f \in Filters
  PROVE  /\ F!Sent(f) \in ViewCall /\ F!Sent(f) # F!Free
         /\ F!Sent(f).of = f /\ F!Sent(f).cancelled = FALSE
BY DEF F!Sent, F!Free, ViewCall

\* A call that is under way, and what becomes of it when the filter changes.
LEMMA ViewCalls ==
  ASSUME ViewTyped, NEW q \in Calls
  PROVE  /\ F!Busy(q) => call[q] \in ViewCall /\ call[q].of \in Filters /\
            call[q].cancelled \in BOOLEAN
         /\ F!Cancelled(q) \in ViewCall
         /\ F!Busy(q) => F!Cancelled(q).cancelled = TRUE
         /\ F!Cancelled(q) = F!Free <=> ~F!Busy(q)
<1>1. call[q] \in ViewCall
  BY DEF ViewTyped
<1>2. CASE F!Busy(q)
  BY <1>1, <1>2 DEF ViewCall, F!Cancelled, F!Busy, F!Free
<1>3. CASE ~F!Busy(q)
  BY <1>3 DEF F!Cancelled, ViewCall
<1>4. QED
  BY <1>2, <1>3

LEMMA LoadKeeps ==
  ASSUME ViewInv, NEW f \in Filters, NEW changes \in BOOLEAN, F!Load(f, changes),
         page' = page, version' = version, filter' = f, data' \in F!Data \cup {None},
           failed' = failed,
         page.load.cancels => changes,
         calm' => calm /\ F!Quiet
  PROVE  ViewInv'
<1>1. PICK q \in Calls : ~F!Busy(q) /\ call' = [F!Kept(changes) EXCEPT ![q] = F!Sent(f)]
  BY DEF F!Load
<1>2. PICK c : c = F!Sent(f)
  OBVIOUS
<1>3. c \in ViewCall /\ c # F!Free /\ c.of = f /\ c.cancelled = FALSE
  BY <1>2, SentCall
<1>4. \A p \in Calls :
        call'[p] = IF p = q THEN c
                   ELSE IF page.load.cancels /\ changes THEN F!Cancelled(p) ELSE call[p]
  BY <1>1, <1>2 DEF F!Kept
<1>5. \A p \in Calls : call'[p] \in ViewCall
  BY <1>3, <1>4, ViewCalls DEF ViewInv, ViewTyped
<1>6. ViewPageSound(page) /\ loading' = page.load.flag
  BY ViewPagesSound DEF ViewInv, ViewTyped, F!TypeOK, F!Load
<1>7. \A p \in Calls : F!Busy(p)' => call'[p].of \in Filters /\ call'[p].cancelled \in BOOLEAN
  BY <1>5 DEF F!Busy, F!Free, ViewCall
<1>8. ViewTyped'
  <2>1. call' = [p \in Calls |-> call'[p]]
    BY <1>1 DEF F!Kept
  <2>2. call' \in [Calls -> ViewCall]
    BY <1>5, <2>1
  <2>3. F!TypeOK'
    BY <1>6, <1>7 DEF ViewInv, ViewTyped, F!TypeOK, ViewPageSound
  <2>4. f # None
    BY ViewAssumption DEF F!FilteredViewAssumption
  <2>5. QED
    BY <2>2, <2>3, <2>4 DEF ViewTyped, ViewCall
<1>9. ASSUME page.load.cancels PROVE OneCounts'
  <2>1. \A p \in Calls : Counts(p)' <=> p = q
    BY <1>3, <1>4, <1>9, ViewCalls DEF Counts, F!Busy, ViewInv
  <2>2. loading' /\ call'[q].of = f
    BY <1>3, <1>4, <1>6, <1>9 DEF ViewPageSound
  <2>3. QED
    BY <2>1, <2>2 DEF OneCounts, F!CancellingShowsFilter
<1>10. ASSUME calm' PROVE OneAsks'
  <2>1. \A p \in Calls : F!Busy(p)' <=> p = q
    BY <1>3, <1>4, <1>10, ViewCalls DEF F!Busy, F!Quiet, ViewInv
  <2>2. call'[q] = c /\ ~F!Quiet'
    BY <1>4, <2>1 DEF F!Quiet
  <2>3. QED
    BY <1>3, <2>1, <2>2 DEF OneAsks, F!ShowsFilter
<1>11. QED
  BY <1>8, <1>9, <1>10 DEF ViewInv

\* An answer, or a failure, of a call that is under way.
LEMMA EndKeeps ==
  ASSUME ViewInv, NEW q \in Calls, F!Busy(q), call' = [call EXCEPT ![q] = F!Free],
         page' = page, version' = version, filter' = filter, calm' => calm,
         IF call[q].cancelled THEN UNCHANGED <<data, loading, failed>>
         ELSE /\ loading' = FALSE
              /\ \/ failed' = TRUE /\ data' \in {data, None}
                 \/ failed' = FALSE /\ data' \in F!Data /\ data'.of = call[q].of
  PROVE  ViewInv'
<1>1. \A p \in Calls : call'[p] = IF p = q THEN F!Free ELSE call[p]
  BY DEF ViewInv, ViewTyped
<1>2. \A p \in Calls : F!Busy(p)' <=> p # q /\ F!Busy(p)
  BY <1>1 DEF F!Busy
<1>3. call[q].of \in Filters /\ call[q].cancelled \in BOOLEAN
  BY ViewCalls DEF ViewInv
<1>4. None \notin F!Data
  BY ViewAssumption DEF F!FilteredViewAssumption, F!Data
<1>5. ViewTyped'
  <2>1. call' \in [Calls -> ViewCall]
    BY DEF ViewInv, ViewTyped, ViewCall
  <2>2. F!TypeOK'
    BY <1>1, <1>2 DEF ViewInv, ViewTyped, F!TypeOK
  <2>3. QED
    BY <2>1, <2>2 DEF ViewInv, ViewTyped, ViewCall
<1>6. ASSUME page.load.cancels PROVE OneCounts'
  <2>1. OneCounts
    BY <1>6 DEF ViewInv
  <2>2. CASE call[q].cancelled
    <3>1. \A p \in Calls : Counts(p)' <=> Counts(p)
      BY <1>1, <1>2, <2>2 DEF Counts
    <3>2. QED
      BY <1>1, <1>2, <2>1, <2>2, <3>1 DEF OneCounts, Counts, F!CancellingShowsFilter
  <2>3. CASE ~call[q].cancelled
    <3>1. \A p \in Calls : ~Counts(p)'
      BY <1>1, <1>2, <2>1, <2>3 DEF Counts, OneCounts
    <3>2. call[q].of = filter
      BY <2>1, <2>3 DEF OneCounts, Counts
    <3>3. F!CancellingShowsFilter'
      BY <1>4, <2>3, <3>2 DEF F!CancellingShowsFilter
    <3>4. QED
      BY <3>1, <3>3 DEF OneCounts
  <2>4. QED
    BY <2>2, <2>3
<1>7. ASSUME calm', page.load.auto PROVE OneAsks'
  <2>1. OneAsks
    BY <1>7 DEF ViewInv
  <2>2. call[q].of = filter /\ ~call[q].cancelled /\ \A p \in Calls : ~F!Busy(p)'
    BY <1>2, <2>1 DEF OneAsks
  <2>3. F!ShowsFilter'
    BY <2>2 DEF F!ShowsFilter
  <2>4. QED
    BY <2>2, <2>3 DEF OneAsks
<1>8. QED
  BY <1>5, <1>6, <1>7 DEF ViewInv

LEMMA ViewServeKeeps ==
  ASSUME ViewInv, NEW q \in Calls, F!Serve(q), calm' => calm
  PROVE  ViewInv'
<1>1. PICK c : c = call[q]
  OBVIOUS
<1>2. c \in ViewCall /\ c.stage = "sent"
  BY <1>1 DEF F!Serve, ViewInv, ViewTyped
<1>3. c \in [stage : {"sent"}, of : Filters, cancelled : BOOLEAN]
  BY <1>2 DEF ViewCall, F!Free
<1>4. PICK d : d = [stage |-> "done", of |-> c.of, cancelled |-> c.cancelled, at |-> version]
  OBVIOUS
<1>5. d \in ViewCall /\ d.of = c.of /\ d.cancelled = c.cancelled /\ d # F!Free /\ c # F!Free
  BY <1>2, <1>3, <1>4 DEF ViewCall, F!Free, ViewInv, ViewTyped, F!TypeOK
<1>6. call' = [call EXCEPT ![q] = d] /\ UNCHANGED <<page, version, filter, data, loading, failed>>
  BY <1>1, <1>4 DEF F!Serve, ViewInv, ViewTyped
<1>7. \A p \in Calls : call'[p] = IF p = q THEN d ELSE call[p]
  BY <1>6 DEF ViewInv, ViewTyped
<1>8. \A p \in Calls : /\ F!Busy(p)' <=> F!Busy(p)
                       /\ F!Busy(p) => call'[p].of = call[p].of /\
                          call'[p].cancelled = call[p].cancelled
                       /\ Counts(p)' <=> Counts(p)
  BY <1>1, <1>5, <1>7 DEF F!Busy, Counts
<1>9. ViewTyped'
  <2>1. call' \in [Calls -> ViewCall]
    BY <1>5, <1>6 DEF ViewInv, ViewTyped
  <2>2. F!TypeOK'
    <3>1. \A p \in Calls : F!Busy(p)' => call'[p].of \in Filters /\ call'[p].cancelled \in BOOLEAN
      BY <1>8, ViewCalls DEF ViewInv
    <3>2. QED
      BY <1>6, <3>1 DEF ViewInv, ViewTyped, F!TypeOK
  <2>3. QED
    BY <1>6, <2>1, <2>2 DEF ViewInv, ViewTyped, ViewCall
<1>10. ASSUME page.load.cancels PROVE OneCounts'
  <2>1. OneCounts /\ (F!CancellingShowsFilter => F!CancellingShowsFilter')
    BY <1>6, <1>10 DEF ViewInv, F!CancellingShowsFilter
  <2>2. \A p \in Calls : Counts(p)' => loading' /\ call'[p].of = filter'
    BY <1>6, <1>8, <2>1 DEF OneCounts, Counts
  <2>3. QED
    BY <1>8, <2>1, <2>2 DEF OneCounts
<1>11. ASSUME calm', page.load.auto PROVE OneAsks'
  <2>1. OneAsks /\ (F!ShowsFilter => F!ShowsFilter')
    BY <1>6, <1>8, <1>11 DEF ViewInv, F!ShowsFilter, F!Quiet
  <2>2. \A p \in Calls : F!Busy(p)' => ~call'[p].cancelled /\ call'[p].of = filter'
    BY <1>6, <1>8, <2>1 DEF OneAsks
  <2>3. QED
    BY <1>8, <2>1, <2>2 DEF OneAsks
<1>12. QED
  BY <1>6, <1>9, <1>10, <1>11 DEF ViewInv

\* A change of the data at the server, and a choice that loads nothing.
LEMMA ViewChangeKeeps ==
  ASSUME ViewInv, F!Change, calm' => calm
  PROVE  ViewInv'
<1>1. UNCHANGED <<page, filter, data, loading, failed, call>> /\ version' \in 0 .. MaxVersion
  BY ViewAssumption DEF F!Change, F!FilteredViewAssumption, ViewInv, ViewTyped, F!TypeOK
<1>2. ViewTyped'
  BY <1>1 DEF ViewInv, ViewTyped, F!TypeOK, ViewCall, F!Busy
<1>3. /\ OneCounts' <=> OneCounts
      /\ OneAsks' <=> OneAsks
  BY <1>1 DEF OneCounts, OneAsks, Counts, F!Busy, F!CancellingShowsFilter, F!ShowsFilter, F!Quiet
<1>4. QED
  BY <1>1, <1>2, <1>3 DEF ViewInv

LEMMA ViewChooseKeeps ==
  ASSUME ViewInv, NEW f \in Filters \cup {None}, F!Choose(f), calm' => calm /\ F!Quiet
  PROVE  ViewInv'
<1>1. ViewPageSound(page) /\ data \in F!Data \cup {None}
  BY ViewPagesSound DEF ViewInv, ViewTyped, F!TypeOK
<1>2. page' = page /\ version' = version /\ failed' = failed /\ filter' = f /\
      data' \in F!Data \cup {None}
  BY <1>1 DEF F!Choose
<1>3. CASE page.load.auto /\ f # None
  <2>1. F!Load(f, TRUE) /\ f \in Filters
    BY <1>3 DEF F!Choose
  <2>2. QED
    BY <1>2, <2>1, LoadKeeps
<1>4. CASE ~(page.load.auto /\ f # None)
  <2>1. UNCHANGED <<loading, call>> /\ (f = None => page.ui.blank)
    BY <1>4 DEF F!Choose
  <2>2. ViewTyped'
    <3>1. F!TypeOK'
      BY <1>2, <2>1 DEF ViewInv, ViewTyped, F!TypeOK, F!Busy
    <3>2. QED
      BY <1>2, <2>1, <3>1 DEF ViewInv, ViewTyped, ViewCall
  <2>3. ~page.load.cancels
    BY <1>1, <1>4, <2>1 DEF ViewPageSound
  <2>4. ASSUME calm', page.load.auto PROVE OneAsks'
    <3>1. \A p \in Calls : ~F!Busy(p)'
      BY <2>1, <2>4 DEF F!Quiet, F!Busy
    <3>2. data' = None
      BY <1>1, <1>4, <2>1, <2>4 DEF F!Choose, ViewPageSound
    <3>3. QED
      BY <3>1, <3>2 DEF OneAsks, F!ShowsFilter
  <2>5. QED
    BY <1>2, <2>2, <2>3, <2>4 DEF ViewInv
<1>5. QED
  BY <1>3, <1>4

LEMMA ViewAgainKeeps ==
  ASSUME ViewInv, F!Refresh \/ F!Poll, calm' => calm /\ F!Quiet
  PROVE  ViewInv'
<1>1. ViewPageSound(page) /\ data \in F!Data \cup {None} /\ filter \in Filters \cup {None}
  BY ViewPagesSound DEF ViewInv, ViewTyped, F!TypeOK
<1>2. /\ UNCHANGED <<page, version, filter, data, failed>> /\ F!Load(filter, FALSE)
      /\ (page.ui.button /\ filter # None) \/ page.load.polls
  BY DEF F!Refresh, F!Poll
<1>3. filter \in Filters
  BY <1>1, <1>2 DEF ViewPageSound, ViewInv, ViewTyped
<1>4. ~page.load.cancels
  BY <1>1, <1>2 DEF ViewPageSound
<1>5. QED
  BY <1>1, <1>2, <1>3, <1>4, LoadKeeps

LEMMA ViewEnds ==
  ASSUME ViewInv, NEW q \in Calls, F!Answer(q) \/ F!Fail(q), calm' => calm
  PROVE  ViewInv'
<1>1. /\ call' = [call EXCEPT ![q] = F!Free] /\ UNCHANGED <<page, version, filter>>
      /\ F!Busy(q)
  BY DEF F!Answer, F!Fail, F!Busy, F!Free
<1>2. CASE F!Answer(q)
  <2>1. PICK c : c = call[q]
    OBVIOUS
  <2>2. c \in ViewCall /\ c.stage = "done"
    BY <1>2, <2>1 DEF F!Answer, ViewInv, ViewTyped
  <2>3. c \in [stage : {"done"}, of : Filters, cancelled : BOOLEAN, at : 0 .. MaxVersion]
    BY <2>2 DEF ViewCall, F!Free
  <2>4. [of |-> c.of, at |-> c.at] \in F!Data
    BY <2>3 DEF F!Data
  <2>5. IF c.cancelled THEN UNCHANGED <<data, loading, failed>>
        ELSE data' = [of |-> c.of, at |-> c.at] /\ loading' = FALSE /\ failed' = FALSE
    BY <1>2, <2>1 DEF F!Answer
  <2>6. [of |-> c.of, at |-> c.at].of = c.of
    OBVIOUS
  <2>7. PICK d : d = [of |-> c.of, at |-> c.at]
    OBVIOUS
  <2>8. d \in F!Data /\ d.of = call[q].of /\ c = call[q]
    BY <2>1, <2>4, <2>6, <2>7
  <2>9. IF call[q].cancelled THEN UNCHANGED <<data, loading, failed>>
        ELSE failed' = FALSE /\ data' = d /\ loading' = FALSE
    BY <2>5, <2>7, <2>8
  <2>10. QED
    BY <1>1, <2>8, <2>9, EndKeeps
<1>3. CASE F!Fail(q)
  <2>1. IF call[q].cancelled THEN UNCHANGED <<data, loading, failed>>
        ELSE data' \in {data, None} /\ loading' = FALSE /\ failed' = TRUE
    BY <1>3 DEF F!Fail
  <2>2. QED
    BY <1>1, <2>1, EndKeeps
<1>4. QED
  BY <1>2, <1>3

LEMMA ViewStep ==
  ASSUME ViewInv, ViewNext \/ UNCHANGED <<page, version, filter, data, loading, failed, call,
                                          calm>>
  PROVE  ViewInv'
<1>1. ASSUME ViewNext PROVE ViewInv'
  <2>1. calm' = (calm /\ (F!Reader \/ F!Poll => F!Quiet)) /\ F!Next
    BY <1>1 DEF ViewNext
  <2>2. CASE \E f \in Filters \cup {None} : F!Choose(f)
    BY <2>1, <2>2, ViewChooseKeeps DEF F!Reader
  <2>3. CASE F!Refresh \/ F!Poll
    BY <2>1, <2>3, ViewAgainKeeps DEF F!Reader
  <2>4. CASE F!Change
    BY <2>1, <2>4, ViewChangeKeeps
  <2>5. CASE \E q \in Calls : F!Serve(q)
    BY <2>1, <2>5, ViewServeKeeps
  <2>6. CASE \E q \in Calls : F!Answer(q) \/ F!Fail(q)
    BY <2>1, <2>6, ViewEnds
  <2>7. QED
    BY <2>1, <2>2, <2>3, <2>4, <2>5, <2>6 DEF F!Next, F!Reader
<1>2. ASSUME UNCHANGED <<page, version, filter, data, loading, failed, call, calm>> PROVE ViewInv'
  <2>1. ViewTyped'
    BY <1>2 DEF ViewInv, ViewTyped, F!TypeOK, ViewCall, F!Busy
  <2>2. OneCounts' <=> OneCounts
    BY <1>2 DEF OneCounts, Counts, F!Busy, F!CancellingShowsFilter
  <2>3. OneAsks' <=> OneAsks
    BY <1>2 DEF OneAsks, F!Busy, F!ShowsFilter, F!Quiet
  <2>4. QED
    BY <1>2, <2>1, <2>2, <2>3 DEF ViewInv
<1>3. QED
  BY <1>1, <1>2

LEMMA ViewStart ==
  ASSUME F!Init
  PROVE  ViewInv
<1>1. /\ page \in F!Pages /\ version = 0 /\ data = None /\ failed = FALSE
      /\ filter \in Filters \cup {None} /\ (~page.ui.blank => filter \in Filters)
  BY DEF F!Init
<1>2. ViewPageSound(page) /\ None \notin Filters /\ version \in 0 .. MaxVersion
  BY <1>1, ViewPagesSound, ViewAssumption DEF F!FilteredViewAssumption
<1>3. CASE page.load.auto /\ filter # None
  <2>1. PICK f \in Filters : f = filter
    BY <1>1, <1>3
  <2>2. PICK q \in Calls : call = [p \in Calls |-> IF p = q THEN F!Sent(f) ELSE F!Free] /\
        loading = page.load.flag
    BY <1>3, <2>1 DEF F!Init
  <2>3. PICK c : c = F!Sent(f)
    OBVIOUS
  <2>4. c \in ViewCall /\ c # F!Free /\ c.of = f /\ c.cancelled = FALSE
    BY <2>3, SentCall
  <2>5. \A p \in Calls : (F!Busy(p) <=> p = q) /\ call[p] = IF p = q THEN c ELSE F!Free
    BY <2>2, <2>3, <2>4 DEF F!Busy
  <2>6. call \in [Calls -> ViewCall]
    BY <2>2, <2>3, <2>4 DEF ViewCall
  <2>7. ViewTyped
    BY <1>1, <1>2, <2>1, <2>2, <2>4, <2>5, <2>6 DEF ViewTyped, F!TypeOK, ViewPageSound
  <2>8. page.load.cancels => OneCounts
    BY <1>2, <2>1, <2>2, <2>4, <2>5 DEF OneCounts, Counts, F!CancellingShowsFilter, ViewPageSound
  <2>9. OneAsks
    BY <1>1, <2>1, <2>4, <2>5 DEF OneAsks, F!ShowsFilter
  <2>10. QED
    BY <2>7, <2>8, <2>9 DEF ViewInv
<1>4. CASE ~(page.load.auto /\ filter # None)
  <2>1. call = [p \in Calls |-> F!Free] /\ loading = FALSE
    BY <1>4 DEF F!Init
  <2>2. \A p \in Calls : ~F!Busy(p)
    BY <2>1 DEF F!Busy
  <2>3. ViewTyped
    BY <1>1, <1>2, <2>1, <2>2 DEF ViewTyped, F!TypeOK, ViewCall
  <2>4. ~page.load.cancels
    BY <1>1, <1>2, <1>4 DEF ViewPageSound
  <2>5. OneAsks
    BY <1>1, <2>2 DEF OneAsks, F!ShowsFilter
  <2>6. QED
    BY <2>3, <2>4, <2>5 DEF ViewInv
<1>5. QED
  BY <1>3, <1>4

LEMMA ViewFollows ==
  ASSUME ViewInv
  PROVE  F!TypeOK /\ (calm => F!ShowsFilter) /\ F!CancellingShowsFilter
<1>1. F!TypeOK /\ (page.load.cancels => F!CancellingShowsFilter)
  BY DEF ViewInv, ViewTyped, OneCounts
<1>2. calm /\ page.load.auto => F!ShowsFilter
  BY DEF ViewInv, OneAsks
<1>3. QED
  BY <1>1, <1>2 DEF F!ShowsFilter, F!CancellingShowsFilter

-----------------------------------------------------------------------------
(***************************************************************************)
(* The entry of attendance. What is under way fits the step that is shown: *)
(* of face scans at most one, of cameras none but the one of the open tab. *)
(***************************************************************************)
\* What a call under way can be; all but the scan of a face are about one employee.
EntryCall ==
  {A!Free}
    \cup [op : {"status", "clock_in", "clock_out"}, of : Employees, stage : {"sent"}]
    \cup [op : {"scan"}, of : {None}, stage : {"sent"}]
    \cup [op : {"status"}, of : Employees, stage : {"done"}, row : A!Records \cup {None}]
    \cup [op : {"clock_in", "clock_out", "scan"}, of : Employees, stage : {"done"},
          row : A!Records]
AboutOne == {"status", "clock_in", "clock_out"}

\* What holds whoever answers when: the checks under way are of detections begun.
EntryTyped ==
  /\ A!TypeOK /\ call \in [Calls -> EntryCall]
  /\ manAction = "clock_in" => selectedEmp # None
  /\ \A n \in A!Sessions : checks[n] > 0 => n <= session

\* The cameras: one is asked for on the tab that is open, and not while it runs.
Streams ==
  /\ lost = 0
  /\ ~here => \A c \in A!Cams : asked[c] = 0 /\ ~known[c]
  /\ \A c \in A!Cams :
       /\ asked[c] \in {0, 1} /\ (asked[c] = 1 => activeTab = c /\ ~known[c])
       /\ here => (known[c] <=> camOpen[c])
       /\ camReady[c] => camOpen[c]

\* On the face tab at most one scan is under way, with the camera closed.
Scans(q) == call[q].op = "scan"
FaceSteps ==
  here =>
    /\ \A p, q \in Calls : Scans(p) /\ Scans(q) => p = q
    /\ \A q \in Calls : Scans(q) => scanning
    /\ scanning \/ scanResult => asked["face"] = 0 /\ ~camOpen["face"]
    /\ ~(scanning /\ scanResult)

\* The manual tab's step says whether its camera is open, and what for.
ManualSteps ==
  /\ here => (camOpen["manual"] <=> manStep = "capture")
  /\ manStep # "idle" \/ asked["manual"] = 1 => manAction # None
  /\ manStep = "confirm" => manPhoto \/ asked["manual"] = 1

EntryCareful == Streams /\ FaceSteps /\ ManualSteps

\* Of a user who waits, the one call under way is about the employee chosen.
EntryCalm ==
  /\ \A p, q \in Calls : A!Busy(p) /\ A!Busy(q) => p = q
  /\ ~here => A!Quiet
  /\ A!Quiet => A!RecordOfSelected
  /\ \A q \in Calls : call[q].op \in AboutOne =>
       /\ call[q].of = selectedEmp
       /\ call[q].stage = "done" /\ call[q].row # None => call[q].row.emp = selectedEmp
  /\ \A q \in Calls : A!Busy(q) /\ call[q].op # "status" => A!RecordOfSelected

EntryInv == EntryTyped /\ (orderly => EntryCareful) /\ (calm => EntryCalm)

LEMMA EntryAssumption ==
  /\ None \notin Employees /\ None # "clock_in" /\ None # "clock_out"
  /\ MaxAsked \in Nat /\ MaxSessions \in Nat /\ MaxChecks \in Nat
BY AssumptionsOfScreens DEF A!AttendanceEntryAssumption

LEMMA EntryCallSound ==
  ASSUME NEW c \in EntryCall
  PROVE  /\ c.op \in AboutOne \cup {"scan", "free"} /\ (c = A!Free <=> c.op = "free")
         /\ c.op \in AboutOne => c.of \in Employees
         /\ c.op = "scan" /\ c.stage = "sent" => c.of = None
         /\ c # A!Free => c.stage \in {"sent", "done"}
         /\ c.op = "status" /\ c.stage = "done" => c.row \in A!Records \cup {None}
         /\ c.op \in {"clock_in", "clock_out", "scan"} /\ c.stage = "done" => c.row \in A!Records
BY DEF EntryCall, AboutOne, A!Free

LEMMA EntryCallsMade ==
  /\ A!Free \in EntryCall
  /\ \A o \in AboutOne, e \in Employees : [op |-> o, of |-> e, stage |-> "sent"] \in EntryCall
  /\ [op |-> "scan", of |-> None, stage |-> "sent"] \in EntryCall
  /\ \A e \in Employees, r \in A!Records \cup {None} :
       [op |-> "status", of |-> e, stage |-> "done", row |-> r] \in EntryCall
  /\ \A o \in {"clock_in", "clock_out", "scan"}, e \in Employees, r \in A!Records :
       [op |-> o, of |-> e, stage |-> "done", row |-> r] \in EntryCall
BY DEF EntryCall, AboutOne

\* What TypeOK says, of the fields, of the cameras and of the detection.
FieldTypes ==
  /\ att \in [Employees -> {"none", "in", "out"}]
  /\ activeTab \in A!Cams /\ selectedEmp \in Employees \cup {None}
  /\ todayRecord \in A!Records \cup {None} /\ manStep \in {"idle", "capture", "confirm"}
  /\ manAction \in {"clock_in", "clock_out", None}
  /\ manAction = "clock_in" => selectedEmp # None
  /\ here \in BOOLEAN /\ loadingMan \in BOOLEAN /\ manPhoto \in BOOLEAN /\ scanning \in BOOLEAN
  /\ scanResult \in BOOLEAN
CameraTypes ==
  /\ asked \in [A!Cams -> 0 .. MaxAsked] /\ lost \in Nat
  /\ known \in [A!Cams -> BOOLEAN] /\ camOpen \in [A!Cams -> BOOLEAN]
  /\ camReady \in [A!Cams -> BOOLEAN] /\ attached \in [A!Cams -> BOOLEAN]
BlinkTypes ==
  /\ running \in BOOLEAN /\ frames \in BOOLEAN /\ isChecking \in BOOLEAN
  /\ blinkVerified \in 0 .. session /\ session \in 0 .. MaxSessions
  /\ checks \in [A!Sessions -> 0 .. MaxChecks]
  /\ \A n \in A!Sessions : checks[n] > 0 => n <= session
EntryOk == FieldTypes /\ CameraTypes /\ BlinkTypes /\ call \in [Calls -> EntryCall]

LEMMA EntryOkIs == (EntryOk <=> EntryTyped) /\ (EntryOk' <=> EntryTyped')
<1>. USE DEF A!TypeOK, FieldTypes, CameraTypes, BlinkTypes, EntryOk, EntryTyped, EntryCall
<1>1. EntryOk <=> EntryTyped
  OBVIOUS
<1>2. EntryOk' <=> EntryTyped'
  OBVIOUS
<1>3. QED
  BY <1>1, <1>2

\* A call that is sent, and one that has come to an end.
LEMMA Sending ==
  ASSUME EntryTyped, NEW o, NEW e, [op |-> o, of |-> e, stage |-> "sent"] \in EntryCall,
         o \in AboutOne \cup {"scan"}, A!Send(o, e)
  PROVE  /\ call' \in [Calls -> EntryCall]
         /\ \E q \in Calls, c \in EntryCall :
              /\ call[q] = A!Free /\ c.op = o /\ c.of = e /\ c.stage = "sent" /\ c # A!Free
              /\ \A p \in Calls : call'[p] = IF p = q THEN c ELSE call[p]
<1>1. PICK c \in EntryCall : c = [op |-> o, of |-> e, stage |-> "sent"]
  OBVIOUS
<1>2. PICK q \in Calls : call[q] = A!Free /\ call' = [call EXCEPT ![q] = c]
  BY <1>1 DEF A!Send, A!Busy
<1>3. c.op = o /\ c.of = e /\ c.stage = "sent" /\ c # A!Free
  BY <1>1 DEF A!Free, AboutOne
<1>4. \A p \in Calls : call'[p] = IF p = q THEN c ELSE call[p]
  BY <1>2 DEF EntryTyped
<1>5. call' \in [Calls -> EntryCall]
  BY <1>2 DEF EntryTyped
<1>6. QED
  BY <1>2, <1>3, <1>4, <1>5

LEMMA Ending ==
  ASSUME EntryTyped, NEW q \in Calls, call' = [call EXCEPT ![q] = A!Free]
  PROVE  /\ call' \in [Calls -> EntryCall]
         /\ \A p \in Calls : call'[p] = IF p = q THEN A!Free ELSE call[p]
BY EntryCallsMade DEF EntryTyped

LEMMA Unverified ==
  ASSUME EntryOk, UNCHANGED <<session, checks>>,
         blinkVerified' \in {blinkVerified, 0}, running' \in BOOLEAN, frames' \in BOOLEAN,
           isChecking' \in BOOLEAN
  PROVE  BlinkTypes'
<1>1. session' \in 0 .. MaxSessions /\ blinkVerified' \in 0 .. session'
  BY EntryAssumption DEF EntryOk, BlinkTypes
<1>2. /\ checks' \in [A!Sessions -> 0 .. MaxChecks]
      /\ \A n \in A!Sessions : checks'[n] > 0 => n <= session'
  BY DEF EntryOk, BlinkTypes
<1>3. QED
  BY <1>1, <1>2 DEF BlinkTypes

\* What StopStreams does to each camera.
LEMMA Stopping ==
  ASSUME EntryOk, NEW C, A!StopStreams(C)
  PROVE  /\ asked' = asked => CameraTypes'
         /\ BlinkTypes'
         /\ \A c \in A!Cams : /\ known'[c] <=> known[c] /\ c \notin C
                              /\ camOpen'[c] <=> camOpen[c] /\ c \notin C
                              /\ camReady'[c] <=> camReady[c] /\ c \notin C
         /\ lost' = lost
<1>1. asked' = asked => CameraTypes'
  BY DEF A!StopStreams, A!detect, EntryOk, CameraTypes
<1>2. BlinkTypes'
  <2>1. UNCHANGED <<session, frames, isChecking, checks>> /\ running' = FALSE /\
        blinkVerified' = 0
    BY DEF A!StopStreams, A!detect
  <2>2. frames' \in BOOLEAN /\ isChecking' \in BOOLEAN
    BY <2>1 DEF EntryOk, BlinkTypes
  <2>3. QED
    BY <2>1, <2>2, Unverified
<1>3. QED
  BY <1>1, <1>2 DEF A!StopStreams

LEMMA StoppingManual ==
  ASSUME EntryOk, A!ResetManualFlow, UNCHANGED <<asked, att, here, activeTab, scanning,
                                                 scanResult>>,
         selectedEmp' \in Employees \cup {None}, todayRecord' \in A!Records \cup {None},
         loadingMan' \in BOOLEAN, call' \in [Calls -> EntryCall]
  PROVE  EntryOk'
<1>1. CameraTypes' /\ BlinkTypes'
  BY Stopping DEF A!ResetManualFlow
<1>2. FieldTypes'
  BY EntryAssumption DEF A!ResetManualFlow, EntryOk, FieldTypes
<1>3. QED
  BY <1>1, <1>2 DEF EntryOk, EntryCall

LEMMA SameTypes ==
  ASSUME EntryOk
  PROVE  /\ UNCHANGED <<asked, lost, known, camOpen, camReady, attached>> => CameraTypes'
         /\ UNCHANGED <<running, frames, isChecking, blinkVerified, session, checks>> =>
            BlinkTypes'
         /\ UNCHANGED <<att, activeTab, selectedEmp, todayRecord, manStep, manAction, here,
                        loadingMan, manPhoto, scanning, scanResult>> => FieldTypes'
         /\ UNCHANGED call => call' \in [Calls -> EntryCall]
<1>1. UNCHANGED <<asked, lost, known, camOpen, camReady, attached>> => CameraTypes'
  BY DEF EntryOk, CameraTypes
<1>2. UNCHANGED <<running, frames, isChecking, blinkVerified, session, checks>> => BlinkTypes'
  BY DEF EntryOk, BlinkTypes
<1>3. UNCHANGED <<att, activeTab, selectedEmp, todayRecord, manStep, manAction, here,
                  loadingMan, manPhoto, scanning, scanResult>> => FieldTypes'
  BY DEF EntryOk, FieldTypes
<1>4. QED
  BY <1>1, <1>2, <1>3 DEF EntryOk

\* The types first, action by action.
LEMMA TypesUser ==
  ASSUME EntryTyped, A!User
  PROVE  EntryTyped'
<1>. USE DEF A!manual, A!face, A!camera, A!detect, A!blink
<1>0. EntryOk
  BY EntryOkIs
<1>0a. EntryOk' <=> FieldTypes' /\ CameraTypes' /\ BlinkTypes' /\ call' \in [Calls -> EntryCall]
  BY DEF EntryOk, EntryCall
<1>1. ASSUME NEW t \in A!Cams, A!ShowTab(t) PROVE EntryOk'
  <2>1. FieldTypes' /\ call' \in [Calls -> EntryCall]
    BY <1>0, <1>1 DEF A!ShowTab, EntryOk, FieldTypes
  <2>2. CameraTypes'
    BY <1>0, <1>1 DEF A!ShowTab, EntryOk, CameraTypes, A!Cams
  <2>3. BlinkTypes'
    <3>1. UNCHANGED <<session, frames, isChecking, checks>> /\ running' = FALSE /\
          blinkVerified' = 0
      BY <1>1 DEF A!ShowTab
    <3>2. frames' \in BOOLEAN /\ isChecking' \in BOOLEAN
      BY <1>0, <3>1 DEF EntryOk, BlinkTypes
    <3>3. QED
      BY <1>0, <3>1, <3>2, Unverified
  <2>4. QED
    BY <1>0a, <2>1, <2>2, <2>3
<1>2. ASSUME NEW e \in Employees \cup {None}, A!SelectEmployee(e) PROVE EntryOk'
  <2>1. call' \in [Calls -> EntryCall] /\ todayRecord' \in {todayRecord, None}
    <3>1. CASE e = None
      BY <1>0, <1>2, <3>1 DEF A!SelectEmployee, EntryOk
    <3>2. CASE e # None
      <4>1. e \in Employees /\ A!Send("status", e) /\ todayRecord' = todayRecord
        BY <1>2, <3>2 DEF A!SelectEmployee
      <4>2. [op |-> "status", of |-> e, stage |-> "sent"] \in EntryCall
        BY <4>1, EntryCallsMade DEF AboutOne
      <4>3. QED
        BY <4>1, <4>2, Sending DEF AboutOne
    <3>3. QED
      BY <3>1, <3>2
  <2>2. /\ UNCHANGED <<att, here, activeTab, loadingMan, scanning, scanResult, asked>>
        /\ selectedEmp' = e /\ A!ResetManualFlow
    BY <1>2 DEF A!SelectEmployee
  <2>3. QED
    BY <1>0, <2>1, <2>2, StoppingManual DEF EntryOk, FieldTypes
<1>3. ASSUME A!OpenCamera PROVE EntryOk'
  <2>1. FieldTypes' /\ call' \in [Calls -> EntryCall]
    BY <1>0, <1>3 DEF A!OpenCamera, EntryOk, FieldTypes
  <2>2. CameraTypes'
    BY <1>0, <1>3, EntryAssumption DEF A!OpenCamera, A!Ask, EntryOk, CameraTypes, A!Cams
  <2>3. BlinkTypes'
    BY <1>0, <1>3 DEF A!OpenCamera, A!Ask, EntryOk, BlinkTypes
  <2>4. QED
    BY <1>0a, <2>1, <2>2, <2>3
<1>4. ASSUME NEW a \in {"clock_in", "clock_out", None}, A!OpenManCamera(a) PROVE EntryOk'
  <2>1. FieldTypes' /\ call' \in [Calls -> EntryCall]
    BY <1>0, <1>4 DEF A!OpenManCamera, EntryOk, FieldTypes
  <2>2. CameraTypes'
    BY <1>0, <1>4, EntryAssumption DEF A!OpenManCamera, A!Ask, EntryOk, CameraTypes, A!Cams
  <2>3. BlinkTypes'
    BY <1>0, <1>4 DEF A!OpenManCamera, A!Ask, EntryOk, BlinkTypes
  <2>4. QED
    BY <1>0a, <2>1, <2>2, <2>3
<1>5. ASSUME NEW c \in A!Cams, A!Cancel(c) PROVE EntryOk'
  <2>1. A!StopStreams({c}) /\ manStep' \in {manStep, "idle"}
        /\ (manAction' = manAction \/ manAction' = None) /\ manPhoto' \in {manPhoto, FALSE}
    BY <1>5 DEF A!Cancel, A!ResetManualFlow
  <2>2. UNCHANGED <<att, here, activeTab, selectedEmp, todayRecord, loadingMan, scanning,
                    scanResult, asked, call>>
    BY <1>5 DEF A!Cancel
  <2>3. FieldTypes'
    BY <1>0, <2>1, <2>2, EntryAssumption DEF EntryOk, FieldTypes
  <2>4. CameraTypes' /\ BlinkTypes'
    BY <1>0, <2>1, <2>2, Stopping
  <2>5. QED
    BY <1>0, <1>0a, <2>2, <2>3, <2>4, SameTypes
<1>6. ASSUME A!HandleFaceScan PROVE EntryOk'
  <2>1. A!StopStreams({"face"}) /\ scanning' = TRUE /\ A!Send("scan", None)
        /\ UNCHANGED <<att, here, activeTab, selectedEmp, todayRecord, loadingMan, manStep,
                       manAction, manPhoto, scanResult, asked>>
    BY <1>6 DEF A!HandleFaceScan
  <2>2. call' \in [Calls -> EntryCall]
    BY <2>1, Sending, EntryCallsMade
  <2>3. FieldTypes'
    BY <1>0, <2>1 DEF EntryOk, FieldTypes
  <2>4. CameraTypes' /\ BlinkTypes'
    BY <1>0, <2>1, Stopping
  <2>5. QED
    BY <1>0a, <2>2, <2>3, <2>4
<1>7. ASSUME A!CaptureManPhoto PROVE EntryOk'
  <2>1. A!StopStreams({"manual"}) /\ manPhoto' = TRUE /\ manStep' = "confirm"
        /\ UNCHANGED <<att, here, activeTab, selectedEmp, todayRecord, loadingMan, manAction,
                       scanning, scanResult, asked, call>>
    BY <1>7 DEF A!CaptureManPhoto
  <2>2. FieldTypes'
    BY <1>0, <2>1 DEF EntryOk, FieldTypes
  <2>3. CameraTypes' /\ BlinkTypes'
    BY <1>0, <2>1, Stopping
  <2>4. QED
    BY <1>0, <1>0a, <2>1, <2>2, <2>3, SameTypes
<1>8. ASSUME A!HandleClockIn PROVE EntryOk'
  <2>1. /\ loadingMan' = TRUE /\ A!Send("clock_in", selectedEmp) /\ selectedEmp \in Employees
        /\ UNCHANGED <<att, here, activeTab, selectedEmp, todayRecord, manStep, manAction,
                       manPhoto,
                       A!face, asked, A!camera, A!blink>>
    BY <1>0, <1>8 DEF A!HandleClockIn, EntryOk, FieldTypes
  <2>2. call' \in [Calls -> EntryCall]
    BY <2>1, Sending, EntryCallsMade DEF AboutOne
  <2>3. FieldTypes'
    BY <1>0, <2>1 DEF EntryOk, FieldTypes
  <2>4. QED
    BY <1>0, <1>0a, <2>1, <2>2, <2>3, SameTypes
<1>9. ASSUME A!HandleClockOut PROVE EntryOk'
  <2>1. UNCHANGED <<att, here, activeTab, selectedEmp, todayRecord, scanning, scanResult, asked>>
    BY <1>9 DEF A!HandleClockOut
  <2>2. CASE todayRecord = None
    <3>1. A!ResetManualFlow /\ UNCHANGED <<loadingMan, call>>
      BY <1>9, <2>2 DEF A!HandleClockOut
    <3>2. QED
      BY <1>0, <2>1, <3>1, StoppingManual DEF EntryOk, FieldTypes
  <2>3. CASE todayRecord # None
    <3>1. /\ loadingMan' = TRUE /\ A!Send("clock_out", todayRecord.emp)
          /\ UNCHANGED <<manStep, manAction, manPhoto, A!camera, A!blink>>
      BY <1>0, <1>9, <2>3 DEF A!HandleClockOut
    <3>2. todayRecord.emp \in Employees
      BY <1>0, <2>3 DEF EntryOk, FieldTypes, A!Records
    <3>3. call' \in [Calls -> EntryCall]
      BY <3>1, <3>2, Sending, EntryCallsMade DEF AboutOne
    <3>4. FieldTypes'
      BY <1>0, <2>1, <3>1 DEF EntryOk, FieldTypes
    <3>5. QED
      BY <1>0, <1>0a, <2>1, <3>1, <3>3, <3>4, SameTypes
  <2>4. QED
    BY <2>2, <2>3
<1>10. ASSUME A!Leave PROVE EntryOk'
  <2>1. A!StopStreams(A!Cams) /\ here' = FALSE
        /\ UNCHANGED <<att, activeTab, selectedEmp, todayRecord, loadingMan, manStep, manAction,
                       manPhoto, scanning, scanResult, asked, call>>
    BY <1>10 DEF A!Leave
  <2>2. FieldTypes'
    BY <1>0, <2>1 DEF EntryOk, FieldTypes
  <2>3. CameraTypes' /\ BlinkTypes'
    BY <1>0, <2>1, Stopping
  <2>4. QED
    BY <1>0, <1>0a, <2>1, <2>2, <2>3, SameTypes
<1>11. QED
  BY <1>1, <1>2, <1>3, <1>4, <1>5, <1>6, <1>7, <1>8, <1>9, <1>10, EntryOkIs DEF A!User

LEMMA TypesDetection ==
  ASSUME EntryTyped, A!Detection \/ Camera \/ Refused
  PROVE  EntryTyped'
<1>. USE DEF A!manual, A!face, A!camera, A!detect, A!blink
<1>0. EntryOk
  BY EntryOkIs
<1>0a. EntryOk' <=> FieldTypes' /\ CameraTypes' /\ BlinkTypes' /\ call' \in [Calls -> EntryCall]
  BY DEF EntryOk, EntryCall
<1>1. ASSUME NEW c \in A!Cams, A!StartBlinkDetection(c) PROVE EntryOk'
  <2>1. FieldTypes' /\ call' \in [Calls -> EntryCall]
    BY <1>0, <1>1, SameTypes DEF A!StartBlinkDetection
  <2>2. CameraTypes'
    BY <1>0, <1>1 DEF A!StartBlinkDetection, EntryOk, CameraTypes
  <2>3. BlinkTypes'
    <3>1. session' \in 0 .. MaxSessions /\ blinkVerified' \in 0 .. session'
      BY <1>0, <1>1, EntryAssumption DEF A!StartBlinkDetection, EntryOk, BlinkTypes
    <3>2. running' = TRUE /\ frames' = FALSE /\ isChecking' = FALSE /\ checks' = checks /\
          session' = session + 1
      BY <1>1 DEF A!StartBlinkDetection
    <3>3. \A n \in A!Sessions : checks'[n] > 0 => n <= session'
      BY <1>0, <3>2, EntryAssumption DEF EntryOk, BlinkTypes, A!Sessions
    <3>4. QED
      BY <1>0, <3>1, <3>2, <3>3 DEF EntryOk, BlinkTypes
  <2>4. QED
    BY <1>0a, <2>1, <2>2, <2>3
<1>2. ASSUME A!DrawFrames \/ A!VerifyBlink \/ \E n \in A!Sessions,
      seen \in BOOLEAN : A!BlinkAnswer(n, seen)
      PROVE EntryOk'
  <2>1. FieldTypes' /\ CameraTypes' /\ call' \in [Calls -> EntryCall]
    BY <1>0, <1>2, SameTypes DEF A!DrawFrames, A!VerifyBlink, A!BlinkAnswer
  <2>2. ASSUME A!DrawFrames PROVE BlinkTypes'
    <3>1. UNCHANGED <<session, running, isChecking, checks, blinkVerified>> /\ frames' = TRUE
      BY <2>2 DEF A!DrawFrames
    <3>2. /\ running' \in BOOLEAN /\ isChecking' \in BOOLEAN /\ frames' \in BOOLEAN
          /\ blinkVerified' \in {blinkVerified, 0}
      BY <1>0, <3>1 DEF EntryOk, BlinkTypes
    <3>3. QED
      BY <1>0, <3>1, <3>2, Unverified
  <2>3. ASSUME A!VerifyBlink PROVE BlinkTypes'
    <3>1. /\ UNCHANGED <<session, running, frames, blinkVerified>> /\ isChecking' = TRUE
          /\ checks' = [checks EXCEPT ![session] = @ + 1] /\ checks[session] < MaxChecks
      BY <2>3 DEF A!VerifyBlink
    <3>2. session \in A!Sessions => checks[session] + 1 \in 0 .. MaxChecks
      BY <1>0, <3>1, EntryAssumption DEF EntryOk, BlinkTypes
    <3>3. checks' \in [A!Sessions -> 0 .. MaxChecks]
      BY <1>0, <3>1, <3>2 DEF EntryOk, BlinkTypes
    <3>4. \A n \in A!Sessions : checks'[n] > 0 => n <= session
      BY <1>0, <3>1, EntryAssumption DEF EntryOk, BlinkTypes, A!Sessions
    <3>5. QED
      BY <1>0, <3>1, <3>3, <3>4 DEF EntryOk, BlinkTypes
  <2>4. ASSUME NEW n \in A!Sessions, NEW seen \in BOOLEAN, A!BlinkAnswer(n, seen)
        PROVE BlinkTypes'
    <3>1. checks[n] - 1 \in 0 .. MaxChecks
      BY <1>0, <2>4, EntryAssumption DEF A!BlinkAnswer, EntryOk, BlinkTypes
    <3>2. checks' \in [A!Sessions -> 0 .. MaxChecks]
      BY <1>0, <2>4, <3>1 DEF A!BlinkAnswer, EntryOk, BlinkTypes
    <3>3. session' = session /\ frames' = frames /\ isChecking' = FALSE
          /\ blinkVerified' = (IF seen /\ here THEN n ELSE blinkVerified)
          /\ (running' <=> running /\ ~seen) /\ running' \in BOOLEAN
      BY <2>4 DEF A!BlinkAnswer, A!detect
    <3>4. n <= session
      BY <1>0, <2>4 DEF A!BlinkAnswer, EntryOk, BlinkTypes
    <3>5. blinkVerified' \in 0 .. session'
      BY <1>0, <3>3, <3>4, EntryAssumption DEF EntryOk, BlinkTypes, A!Sessions
    <3>6. \A m \in A!Sessions : checks'[m] > 0 => m <= session
      BY <1>0, <2>4, EntryAssumption DEF A!BlinkAnswer, EntryOk, BlinkTypes, A!Sessions
    <3>7. QED
      BY <1>0, <3>2, <3>3, <3>5, <3>6 DEF EntryOk, BlinkTypes
  <2>5. QED
    BY <1>0a, <1>2, <2>1, <2>2, <2>3, <2>4
<1>5. ASSUME NEW c \in A!Cams, A!Granted(c) PROVE EntryOk'
  <2>1. FieldTypes' /\ call' \in [Calls -> EntryCall]
    BY <1>0, <1>5 DEF A!Granted, EntryOk, FieldTypes
  <2>2. CameraTypes'
    <3>1. asked[c] - 1 \in 0 .. MaxAsked /\ lost' \in Nat
      BY <1>0, <1>5, EntryAssumption DEF A!Granted, EntryOk, CameraTypes
    <3>2. asked' \in [A!Cams -> 0 .. MaxAsked]
      BY <1>0, <1>5, <3>1 DEF A!Granted, EntryOk, CameraTypes
    <3>3. known' \in [A!Cams -> BOOLEAN] /\ camOpen' \in [A!Cams -> BOOLEAN] /\
          camReady' = camReady
      BY <1>0, <1>5 DEF A!Granted, EntryOk, CameraTypes
    <3>4. \/ attached' = attached
          \/ attached' = [attached EXCEPT ![c] = @ \/ (~camOpen[c] /\ activeTab = c)]
      BY <1>5 DEF A!Granted
    <3>5. attached' \in [A!Cams -> BOOLEAN]
      BY <1>0, <3>4 DEF EntryOk, CameraTypes
    <3>6. QED
      BY <1>0, <3>1, <3>2, <3>3, <3>5 DEF EntryOk, CameraTypes
  <2>3. BlinkTypes'
    BY <1>0, <1>5, SameTypes DEF A!Granted
  <2>4. QED
    BY <1>0a, <2>1, <2>2, <2>3
<1>6. ASSUME NEW c \in A!Cams, A!Denied(c) PROVE EntryOk'
  <2>1. FieldTypes' /\ BlinkTypes' /\ call' \in [Calls -> EntryCall]
    BY <1>0, <1>6, SameTypes DEF A!Denied
  <2>2. CameraTypes'
    <3>1. asked[c] - 1 \in 0 .. MaxAsked
      BY <1>0, <1>6, EntryAssumption DEF A!Denied, EntryOk, CameraTypes
    <3>2. asked' \in [A!Cams -> 0 .. MaxAsked] /\
          UNCHANGED <<lost, known, camOpen, camReady, attached>>
      BY <1>0, <1>6, <3>1 DEF A!Denied, EntryOk, CameraTypes
    <3>3. QED
      BY <1>0, <3>2 DEF EntryOk, CameraTypes
  <2>3. QED
    BY <1>0a, <2>1, <2>2
<1>7. QED
  BY <1>1, <1>2, <1>5, <1>6, EntryOkIs DEF A!Detection, Camera, Refused

\* The server's answer to a call.
LEMMA Serving ==
  ASSUME EntryTyped, NEW q \in Calls, A!Serve(q)
  PROVE  /\ call[q] # A!Free /\ att' \in [Employees -> {"none", "in", "out"}] /\
            call' \in [Calls -> EntryCall]
         /\ UNCHANGED <<here, activeTab, A!manual, A!face, asked, A!camera, A!blink>>
         /\ \E d \in EntryCall :
              /\ d # A!Free /\ d.op = call[q].op /\ d.stage = "done"
              /\ \A p \in Calls : call'[p] = IF p = q THEN d ELSE call[p]
              /\ d.op \in AboutOne => d.of = call[q].of /\ (d.row # None => d.row.emp = d.of)
<1>1. PICK c : c = call[q]
  OBVIOUS
<1>2. c \in EntryCall /\ c # A!Free /\ c.stage = "sent"
  BY <1>1 DEF A!Serve, A!Busy, EntryTyped
<1>3. c.op \in AboutOne => c.of \in Employees
  BY <1>2, EntryCallSound
<1>4. EntryOk
  BY EntryOkIs
<1>5. UNCHANGED <<here, activeTab, A!manual, A!face, asked, A!camera, A!blink>>
  BY DEF A!Serve
<1>6. ASSUME NEW e \in Employees, NEW from \in {"none", "in"},
      c.op \in {"clock_in", "clock_out", "scan"},
             c.op # "scan" => e = c.of, att[e] = from,
             att' = [att EXCEPT ![e] = IF from = "none" THEN "in" ELSE "out"],
             call' = [call EXCEPT ![q] = [op |-> c.op, of |-> e, stage |-> "done",
                                          row |-> [emp |-> e, out |-> from = "in"]]]
      PROVE  /\ att' \in [Employees -> {"none", "in", "out"}]
             /\ \E d \in EntryCall :
                  /\ d # A!Free /\ d.op = c.op /\ d.stage = "done" /\
                     call' = [call EXCEPT ![q] = d]
                  /\ d.op \in AboutOne => d.of = c.of /\ (d.row # None => d.row.emp = d.of)
  <2>1. att' \in [Employees -> {"none", "in", "out"}]
    BY <1>4, <1>6 DEF EntryOk, FieldTypes
  <2>2. PICK r : r = [emp |-> e, out |-> from = "in"]
    OBVIOUS
  <2>3. r \in A!Records /\ r.emp = e
    BY <2>2 DEF A!Records
  <2>4. PICK d : d = [op |-> c.op, of |-> e, stage |-> "done", row |-> r]
    OBVIOUS
  <2>5. d \in EntryCall
    BY <1>6, <2>3, <2>4, EntryCallsMade
  <2>6. d # A!Free /\ d.op = c.op /\ d.stage = "done" /\ d.of = e /\ d.row = r
    BY <1>6, <2>4 DEF A!Free
  <2>7. call' = [call EXCEPT ![q] = d]
    BY <1>6, <2>2, <2>4
  <2>8. d.op \in AboutOne => d.of = c.of
    BY <1>6, <2>6 DEF AboutOne
  <2>9. QED
    BY <2>1, <2>3, <2>5, <2>6, <2>7, <2>8
<1>7. CASE c.op = "status" /\ UNCHANGED att
           /\ call' = [call EXCEPT ![q] = [op |-> "status", of |-> c.of, stage |-> "done",
                                           row |-> A!RecordOf(c.of)]]
  <2>1. PICK e \in Employees : e = c.of
    BY <1>3, <1>7 DEF AboutOne
  <2>2. PICK r : r = A!RecordOf(e)
    OBVIOUS
  <2>3. r \in A!Records \cup {None} /\ (r # None => r.emp = e)
    BY <2>1, <2>2 DEF A!RecordOf, A!Records
  <2>4. PICK d : d = [op |-> "status", of |-> e, stage |-> "done", row |-> r]
    OBVIOUS
  <2>5. d \in EntryCall
    BY <2>3, <2>4, EntryCallsMade
  <2>6. d # A!Free /\ d.op = c.op /\ d.stage = "done" /\ d.of = e /\ d.row = r
    BY <1>7, <2>4 DEF A!Free
  <2>7. call' = [call EXCEPT ![q] = d]
    BY <1>7, <2>1, <2>2, <2>4
  <2>8. \A p \in Calls : call'[p] = IF p = q THEN d ELSE call[p]
    BY <2>7 DEF EntryTyped
  <2>9. call' \in [Calls -> EntryCall] /\ att' \in [Employees -> {"none", "in", "out"}]
    BY <1>4, <1>7, <2>5, <2>7 DEF EntryOk, FieldTypes
  <2>10. QED
    BY <1>1, <1>2, <1>5, <2>1, <2>3, <2>5, <2>6, <2>8, <2>9
<1>8. ASSUME NEW e \in Employees, NEW from \in {"none", "in"},
      c.op \in {"clock_in", "clock_out", "scan"},
             c.op # "scan" => e = c.of, att[e] = from,
             att' = [att EXCEPT ![e] = IF from = "none" THEN "in" ELSE "out"],
             call' = [call EXCEPT ![q] = [op |-> c.op, of |-> e, stage |-> "done",
                                          row |-> [emp |-> e, out |-> from = "in"]]]
      PROVE  /\ call' \in [Calls -> EntryCall] /\ att' \in [Employees -> {"none", "in", "out"}]
             /\ \E d \in EntryCall :
                  /\ d # A!Free /\ d.op = call[q].op /\ d.stage = "done"
                  /\ \A p \in Calls : call'[p] = IF p = q THEN d ELSE call[p]
                  /\ d.op \in AboutOne => d.of = call[q].of /\ (d.row # None => d.row.emp = d.of)
  <2>1. att' \in [Employees -> {"none", "in", "out"}]
    BY <1>6, <1>8
  <2>2. PICK d \in EntryCall :
          /\ d # A!Free /\ d.op = c.op /\ d.stage = "done" /\ call' = [call EXCEPT ![q] = d]
          /\ d.op \in AboutOne => d.of = c.of /\ (d.row # None => d.row.emp = d.of)
    BY <1>6, <1>8
  <2>3. call' \in [Calls -> EntryCall] /\ \A p \in Calls : call'[p] = IF p = q THEN d ELSE call[p]
    BY <2>2 DEF EntryTyped
  <2>4. QED
    BY <1>1, <2>1, <2>2, <2>3
<1>9. CASE \E e \in Employees, from \in {"none", "in"} :
             /\ c.op \in {"clock_in", "clock_out", "scan"} /\ (c.op # "scan" => e = c.of) /\
                att[e] = from
             /\ att' = [att EXCEPT ![e] = IF from = "none" THEN "in" ELSE "out"]
             /\ call' = [call EXCEPT ![q] = [op |-> c.op, of |-> e, stage |-> "done",
                                              row |-> [emp |-> e, out |-> from = "in"]]]
  BY <1>1, <1>2, <1>5, <1>8, <1>9
<1>10. QED
  <2>1. \/ /\ c.op = "status" /\ UNCHANGED att
           /\ call' = [call EXCEPT ![q] = [op |-> "status", of |-> c.of, stage |-> "done",
                                           row |-> A!RecordOf(c.of)]]
        \/ \E e \in Employees, from \in {"none", "in"} :
             /\ c.op \in {"clock_in", "clock_out", "scan"} /\ (c.op # "scan" => e = c.of) /\
                att[e] = from
             /\ att' = [att EXCEPT ![e] = IF from = "none" THEN "in" ELSE "out"]
             /\ call' = [call EXCEPT ![q] = [op |-> c.op, of |-> e, stage |-> "done",
                                              row |-> [emp |-> e, out |-> from = "in"]]]
    BY <1>1, <1>2, <1>3 DEF A!Serve, AboutOne
  <2>2. QED
    BY <1>7, <1>9, <2>1

LEMMA TypesAnswers ==
  ASSUME EntryTyped, NEW q \in Calls, A!Serve(q) \/ \E ok \in BOOLEAN : A!Answer(q, ok)
  PROVE  EntryTyped'
<1>. USE DEF A!manual, A!face, A!camera, A!detect, A!blink
<1>0. EntryOk
  BY EntryOkIs
<1>0a. EntryOk' <=> FieldTypes' /\ CameraTypes' /\ BlinkTypes' /\ call' \in [Calls -> EntryCall]
  BY DEF EntryOk, EntryCall
<1>1. CASE A!Serve(q)
  <2>1. /\ call' \in [Calls -> EntryCall] /\ att' \in [Employees -> {"none", "in", "out"}]
        /\ UNCHANGED <<here, activeTab, A!manual, A!face, asked, A!camera, A!blink>>
    BY <1>1, Serving
  <2>2. CameraTypes' /\ BlinkTypes'
    BY <1>0, <2>1, SameTypes
  <2>3. FieldTypes'
    BY <1>0, <2>1 DEF EntryOk, FieldTypes
  <2>4. QED
    BY <1>0a, <2>1, <2>2, <2>3, EntryOkIs
<1>2. ASSUME NEW ok \in BOOLEAN, A!Answer(q, ok) PROVE EntryOk'
  <2>1. PICK c : c = call[q]
    OBVIOUS
  <2>2. c \in EntryCall /\ c # A!Free /\ (ok => c.stage = "done")
    BY <1>2, <2>1 DEF A!Answer, A!Busy, EntryTyped
  <2>3. ok => /\ c.op \in AboutOne \cup {"scan"} => c.row \in A!Records \cup {None}
    BY <2>2, EntryCallSound DEF AboutOne
  <2>4. call' \in [Calls -> EntryCall] /\ UNCHANGED <<att, here, activeTab, asked>>
    BY <1>2, Ending DEF A!Answer
  <2>5. CASE ~here
    <3>1. UNCHANGED <<A!manual, A!face, A!camera, A!blink>>
      BY <1>2, <2>5 DEF A!Answer
    <3>2. QED
      BY <1>0, <1>0a, <2>4, <3>1, SameTypes
  <2>6. CASE here /\ c.op = "status"
    <3>1. /\ todayRecord' = IF ok THEN c.row ELSE None
          /\ UNCHANGED <<selectedEmp, loadingMan, manStep, manAction, manPhoto, A!face, A!camera,
                         A!blink>>
      BY <1>2, <2>1, <2>6 DEF A!Answer, A!Ended
    <3>2. todayRecord' \in A!Records \cup {None}
      BY <2>3, <2>6, <3>1 DEF AboutOne
    <3>3. FieldTypes'
      BY <1>0, <2>4, <3>1, <3>2 DEF EntryOk, FieldTypes
    <3>4. QED
      BY <1>0, <1>0a, <2>4, <3>1, <3>3, SameTypes
  <2>7. CASE here /\ c.op \in {"clock_in", "clock_out"}
    <3>1. /\ todayRecord' = IF ok THEN c.row ELSE todayRecord
          /\ loadingMan' = FALSE /\ A!ResetManualFlow /\ UNCHANGED <<selectedEmp, A!face>>
      BY <1>2, <2>1, <2>7 DEF A!Answer, A!Ended
    <3>2. todayRecord' \in A!Records \cup {None} /\ selectedEmp' \in Employees \cup {None}
      BY <1>0, <2>3, <2>7, <3>1 DEF AboutOne, EntryOk, FieldTypes
    <3>3. QED
      BY <1>0, <2>4, <3>1, <3>2, StoppingManual
  <2>8. CASE here /\ c.op = "scan"
    <3>1. scanning' = FALSE /\ (scanResult' <=> scanResult \/ ok) /\ scanResult' \in BOOLEAN
          /\ UNCHANGED <<A!manual, A!camera, A!blink>>
      BY <1>2, <2>1, <2>8 DEF A!Answer, A!Ended
    <3>2. FieldTypes'
      BY <1>0, <2>4, <3>1 DEF EntryOk, FieldTypes
    <3>3. QED
      BY <1>0, <1>0a, <2>4, <3>1, <3>2, SameTypes
  <2>9. c.op \in AboutOne \cup {"scan"}
    BY <2>2, EntryCallSound
  <2>10. QED
    BY <2>5, <2>6, <2>7, <2>8, <2>9 DEF AboutOne
<1>3. QED
  BY <1>1, <1>2, EntryOkIs

\* The cameras and the photo, of a page whose cameras answer before anything else is done.
LEMMA CarefulUser ==
  ASSUME EntryTyped, EntryCareful, Unasked, A!User
  PROVE  EntryCareful'
<1>. USE DEF A!manual, A!face, A!camera, A!detect, A!blink
<1>0. /\ EntryOk /\ FieldTypes /\ CameraTypes
      /\ lost = 0 /\ \A c \in A!Cams : asked[c] = 0
  BY EntryOkIs DEF EntryOk, Unasked, EntryCareful, Streams
<1>c. A!Cams = {"face", "manual"}
  BY DEF A!Cams
<1>1. ASSUME NEW t \in A!Cams, A!ShowTab(t) PROVE EntryCareful'
  <2>1. /\ UNCHANGED <<here, A!manual, scanning, asked, lost, call>> /\ here /\
           (scanResult' => scanResult)
        /\ \A c \in A!Cams : /\ known'[c] <=> known[c] /\ c # "face"
                             /\ camOpen'[c] <=> camOpen[c] /\ c # "face"
                             /\ camReady'[c] <=> camReady[c] /\ c # "face"
    BY <1>0, <1>1, <1>c DEF A!ShowTab, CameraTypes
  <2>2. Streams'
    BY <1>0, <2>1 DEF EntryCareful, Streams
  <2>3. ManualSteps'
    BY <1>0, <1>c, <2>1 DEF EntryCareful, ManualSteps
  <2>4. FaceSteps'
    BY <1>0, <1>c, <2>1 DEF EntryCareful, FaceSteps, Scans
  <2>5. QED
    BY <2>2, <2>3, <2>4 DEF EntryCareful
<1>2. ASSUME NEW C, A!StopStreams(C), UNCHANGED <<here, asked>>, here,
             "manual" \in C => manStep' \in {"idle", "confirm"} /\
               (manStep' = "confirm" => manPhoto' /\ manAction # None /\ manAction' = manAction),
             "manual" \notin C => UNCHANGED <<manStep, manAction, manPhoto>>,
             FaceSteps'
      PROVE  EntryCareful'
  <2>1. /\ lost' = lost
        /\ \A c \in A!Cams : /\ known'[c] <=> known[c] /\ c \notin C
                             /\ camOpen'[c] <=> camOpen[c] /\ c \notin C
                             /\ camReady'[c] <=> camReady[c] /\ c \notin C
    BY <1>0, <1>2, Stopping
  <2>2. Streams'
    BY <1>0, <1>2, <2>1 DEF EntryCareful, Streams
  <2>3. ManualSteps'
    BY <1>0, <1>2, <1>c, <2>1 DEF EntryCareful, ManualSteps
  <2>4. QED
    BY <1>2, <2>2, <2>3 DEF EntryCareful
<1>3. ASSUME UNCHANGED <<here, asked, scanning, scanResult>>, camOpen'["face"] => camOpen["face"],
             \A p \in Calls : call'[p].op = "scan" => call[p].op = "scan"
      PROVE  FaceSteps'
  BY <1>0, <1>3, <1>c DEF EntryCareful, FaceSteps, Scans
<1>4. ASSUME NEW C, A!StopStreams(C) PROVE camOpen'["face"] => camOpen["face"] /\ "face" \notin C
  BY <1>0, <1>4, <1>c, Stopping
<1>5. ASSUME NEW e \in Employees \cup {None}, A!SelectEmployee(e) PROVE EntryCareful'
  <2>1. /\ A!StopStreams({"manual"}) /\ manStep' = "idle" /\
           UNCHANGED <<here, asked, scanning, scanResult>> /\ here
        /\ call' = call \/ (e \in Employees /\ A!Send("status", e))
    BY <1>5 DEF A!SelectEmployee, A!ResetManualFlow
  <2>2. ASSUME NEW f \in Employees, A!Send("status", f)
        PROVE  \A p \in Calls : call'[p].op = "scan" => call[p].op = "scan"
    <3>1. [op |-> "status", of |-> f, stage |-> "sent"] \in EntryCall
      BY EntryCallsMade DEF AboutOne
    <3>2. PICK q \in Calls, c \in EntryCall :
            c.op = "status" /\ \A p \in Calls : call'[p] = IF p = q THEN c ELSE call[p]
      BY <2>2, <3>1, Sending DEF AboutOne
    <3>3. QED
      BY <3>2
  <2>3. FaceSteps'
    BY <1>3, <1>4, <2>1, <2>2
  <2>4. QED
    BY <1>2, <2>1, <2>3
<1>6. ASSUME A!OpenCamera PROVE EntryCareful'
  <2>1. /\ here /\ activeTab = "face" /\ (scanResult \/ (~camOpen["face"] /\ ~scanning)) /\
           scanResult' = FALSE
        /\ asked' = [asked EXCEPT !["face"] = @ + 1]
        /\ UNCHANGED <<here, activeTab, manStep, manAction, manPhoto, scanning, known, lost,
                       camOpen, camReady, call>>
    BY <1>6 DEF A!OpenCamera, A!Ask
  <2>2. ~scanning
    BY <2>1 DEF EntryCareful, FaceSteps
  <2>3. \A c \in A!Cams : asked'[c] = IF c = "face" THEN 1 ELSE 0
    BY <1>0, <2>1 DEF CameraTypes
  <2>4. ~camOpen["face"] /\ ~known["face"]
    BY <1>c, <2>1 DEF EntryCareful, FaceSteps, Streams
  <2>5. Streams'
    BY <1>0, <1>c, <2>1, <2>3, <2>4 DEF EntryCareful, Streams
  <2>6. ManualSteps'
    BY <1>0, <1>c, <2>1, <2>3 DEF EntryCareful, ManualSteps
  <2>7. FaceSteps'
    BY <1>0, <1>c, <2>1, <2>2, <2>3, <2>4 DEF EntryCareful, FaceSteps, Scans
  <2>8. QED
    BY <2>5, <2>6, <2>7 DEF EntryCareful
<1>7. ASSUME NEW a \in {"clock_in", "clock_out", None}, A!OpenManCamera(a) PROVE EntryCareful'
  <2>1. /\ here /\ activeTab = "manual" /\ manAction' = a
        /\ asked' = [asked EXCEPT !["manual"] = @ + 1]
        /\ UNCHANGED <<here, activeTab, manStep, scanning, scanResult, known, lost, camOpen,
                       camReady, call>>
    BY <1>7 DEF A!OpenManCamera, A!Ask
  <2>2. \A c \in A!Cams : asked'[c] = IF c = "manual" THEN 1 ELSE 0
    BY <1>0, <2>1 DEF CameraTypes
  <2>3. manStep \in {"idle", "confirm"} /\ a # None
    BY <1>0, <1>7, EntryAssumption DEF A!OpenManCamera, EntryCareful, ManualSteps
  <2>4. ~camOpen["manual"] /\ ~known["manual"]
    BY <1>c, <2>1, <2>3 DEF EntryCareful, ManualSteps, Streams
  <2>5. Streams'
    BY <1>0, <1>c, <2>1, <2>2, <2>4 DEF EntryCareful, Streams
  <2>6. ManualSteps'
    BY <1>0, <1>c, <2>1, <2>2, <2>3 DEF EntryCareful, ManualSteps
  <2>7. FaceSteps'
    <3>1. asked'["face"] = asked["face"]
      BY <1>0, <1>c, <2>2
    <3>2. QED
      BY <1>c, <2>1, <3>1 DEF EntryCareful, FaceSteps, Scans
  <2>8. QED
    BY <2>5, <2>6, <2>7 DEF EntryCareful
<1>8. ASSUME NEW c \in A!Cams, A!Cancel(c) PROVE EntryCareful'
  <2>1. /\ A!StopStreams({c}) /\ here /\ UNCHANGED <<here, asked, scanning, scanResult, call>>
        /\ c = "manual" => manStep' = "idle"
        /\ c # "manual" => UNCHANGED <<manStep, manAction, manPhoto>>
    BY <1>8 DEF A!Cancel, A!ResetManualFlow
  <2>2. FaceSteps'
    BY <1>3, <1>4, <2>1
  <2>3. QED
    BY <1>2, <2>1, <2>2
<1>9. ASSUME A!HandleFaceScan PROVE EntryCareful'
  <2>1. /\ A!StopStreams({"face"}) /\ here /\ UNCHANGED <<here, asked, manStep, manAction,
                                                          manPhoto>>
        /\ ~scanning /\ scanning' = TRUE /\ A!Send("scan", None) /\ scanResult' = scanResult
        /\ camReady["face"]
    BY <1>9 DEF A!HandleFaceScan, A!Ready
  <2>a. ~scanResult
    BY <1>c, <2>1 DEF EntryCareful, Streams, FaceSteps
  <2>2. PICK q \in Calls, c \in EntryCall :
          c.op = "scan" /\ \A p \in Calls : call'[p] = IF p = q THEN c ELSE call[p]
    BY <2>1, Sending, EntryCallsMade
  <2>3. \A p \in Calls : call[p].op # "scan"
    BY <2>1 DEF EntryCareful, FaceSteps, Scans
  <2>4. ~camOpen'["face"] /\ asked'["face"] = 0
    BY <1>0, <1>4, <1>c, <2>1
  <2>5. FaceSteps'
    BY <2>1, <2>a, <2>2, <2>3, <2>4 DEF FaceSteps, Scans
  <2>6. QED
    BY <1>2, <2>1, <2>5
<1>10. ASSUME A!CaptureManPhoto PROVE EntryCareful'
  <2>1. /\ A!StopStreams({"manual"}) /\ here /\
           UNCHANGED <<here, asked, scanning, scanResult, call, manAction>>
        /\ manStep = "capture" /\ manStep' = "confirm" /\ manPhoto' = TRUE
    BY <1>10 DEF A!CaptureManPhoto, A!Ready
  <2>2. FaceSteps'
    BY <1>3, <1>4, <2>1
  <2>3. manAction # None
    BY <2>1 DEF EntryCareful, ManualSteps
  <2>4. QED
    BY <1>2, <2>1, <2>2, <2>3
<1>11. ASSUME A!HandleClockIn \/ (A!HandleClockOut /\ todayRecord # None) PROVE EntryCareful'
  <2>1. /\ UNCHANGED <<here, activeTab, manStep, manAction, manPhoto, A!face, asked, A!camera,
                       selectedEmp, todayRecord>>
        /\ \E o \in {"clock_in", "clock_out"}, e \in Employees : A!Send(o, e)
    <3>1. CASE A!HandleClockIn
      BY <1>0, <1>11, <3>1 DEF A!HandleClockIn, FieldTypes
    <3>2. CASE A!HandleClockOut /\ todayRecord # None
      <4>1. todayRecord.emp \in Employees
        BY <1>0, <3>2 DEF FieldTypes, A!Records
      <4>2. QED
        BY <3>2, <4>1 DEF A!HandleClockOut
    <3>3. QED
      BY <1>11, <3>1, <3>2
  <2>2. \A p \in Calls : call'[p].op = "scan" => call[p].op = "scan"
    BY <2>1, Sending, EntryCallsMade DEF AboutOne
  <2>3. FaceSteps'
    BY <1>3, <2>1, <2>2
  <2>4. Streams' /\ ManualSteps'
    BY <2>1 DEF EntryCareful, Streams, ManualSteps
  <2>5. QED
    BY <2>3, <2>4 DEF EntryCareful
<1>12. ASSUME A!HandleClockOut, todayRecord = None PROVE EntryCareful'
  <2>1. /\ A!StopStreams({"manual"}) /\ manStep' = "idle" /\
           UNCHANGED <<here, asked, scanning, scanResult, call>> /\ here
    BY <1>12 DEF A!HandleClockOut, A!ResetManualFlow, A!Confirm
  <2>2. FaceSteps'
    BY <1>3, <1>4, <2>1
  <2>3. QED
    BY <1>2, <2>1, <2>2
<1>13. ASSUME A!Leave PROVE EntryCareful'
  <2>1. /\ A!StopStreams(A!Cams) /\ here' = FALSE /\
           UNCHANGED <<asked, activeTab, manStep, manAction, manPhoto>>
    BY <1>13 DEF A!Leave
  <2>2. lost' = lost /\ \A c \in A!Cams : ~known'[c] /\ ~camReady'[c]
    BY <1>0, <2>1, Stopping
  <2>3. Streams'
    BY <1>0, <2>1, <2>2 DEF Streams
  <2>4. FaceSteps' /\ ManualSteps'
    BY <2>1 DEF FaceSteps, EntryCareful, ManualSteps
  <2>5. QED
    BY <2>3, <2>4 DEF EntryCareful
<1>14. QED
  BY <1>1, <1>5, <1>6, <1>7, <1>8, <1>9, <1>10, <1>11, <1>12, <1>13 DEF A!User

LEMMA CarefulDetection ==
  ASSUME EntryTyped, EntryCareful, A!Detection \/ Camera \/ (Refused /\ manStep # "confirm")
  PROVE  EntryCareful'
<1>. USE DEF A!manual, A!face, A!camera, A!detect, A!blink
<1>0. /\ EntryOk /\ FieldTypes /\ CameraTypes
  BY EntryOkIs DEF EntryOk
<1>c. A!Cams = {"face", "manual"}
  BY DEF A!Cams
<1>1. CASE A!Detection
  <2>1. UNCHANGED <<here, activeTab, manStep, manAction, manPhoto, scanning, scanResult, asked,
                    known, lost, camOpen, call>>
    BY <1>1 DEF A!Detection, A!StartBlinkDetection, A!DrawFrames, A!VerifyBlink, A!BlinkAnswer
  <2>2. \A c \in A!Cams : camReady'[c] => camReady[c] \/ camOpen[c]
    BY <1>0, <1>1 DEF A!Detection, A!StartBlinkDetection, A!DrawFrames, A!VerifyBlink,
                      A!BlinkAnswer, CameraTypes
  <2>3. Streams'
    BY <2>1, <2>2 DEF EntryCareful, Streams
  <2>4. QED
    BY <2>1, <2>3 DEF EntryCareful, FaceSteps, ManualSteps, Scans
<1>2. ASSUME NEW c \in A!Cams, A!Granted(c) PROVE EntryCareful'
  <2>1. /\ here /\ activeTab = c /\ ~known[c] /\ asked[c] = 1 /\ ~camOpen[c]
        /\ \A d \in A!Cams : d # c => asked[d] = 0
    BY <1>2 DEF A!Granted, EntryCareful, Streams
  <2>2. /\ UNCHANGED <<here, activeTab, manAction, manPhoto, scanning, scanResult, lost, camReady,
                       call>>
        /\ manStep' = IF c = "manual" THEN "capture" ELSE manStep
    BY <1>2, <2>1 DEF A!Granted
  <2>3. \A d \in A!Cams : /\ asked'[d] = 0
                          /\ known'[d] <=> d = c \/ known[d]
                          /\ camOpen'[d] <=> d = c \/ camOpen[d]
    BY <1>0, <1>2, <2>1 DEF A!Granted, CameraTypes
  <2>4. Streams'
    BY <2>1, <2>2, <2>3 DEF EntryCareful, Streams
  <2>5. ManualSteps'
    BY <1>c, <2>1, <2>2, <2>3 DEF EntryCareful, ManualSteps
  <2>6. FaceSteps'
    BY <1>c, <2>1, <2>2, <2>3 DEF EntryCareful, FaceSteps, Scans
  <2>7. QED
    BY <2>4, <2>5, <2>6 DEF EntryCareful
<1>3. ASSUME NEW c \in A!Cams, A!Denied(c), manStep # "confirm" PROVE EntryCareful'
  <2>1. UNCHANGED <<here, activeTab, manStep, manAction, manPhoto, scanning, scanResult, lost,
                    known, camOpen, camReady, call>>
    BY <1>3 DEF A!Denied
  <2>2. \A d \in A!Cams : asked'[d] = IF d = c THEN 0 ELSE asked[d]
    BY <1>0, <1>3 DEF A!Denied, CameraTypes, EntryCareful, Streams
  <2>3. Streams'
    BY <2>1, <2>2 DEF EntryCareful, Streams
  <2>4. ManualSteps'
    BY <1>3, <1>c, <2>1, <2>2 DEF EntryCareful, ManualSteps
  <2>5. FaceSteps'
    BY <1>c, <2>1, <2>2 DEF EntryCareful, FaceSteps, Scans
  <2>6. QED
    BY <2>3, <2>4, <2>5 DEF EntryCareful
<1>4. QED
  BY <1>1, <1>2, <1>3 DEF Camera, Refused

LEMMA CarefulAnswers ==
  ASSUME EntryTyped, EntryCareful, NEW q \in Calls,
         A!Serve(q) \/ (Unasked /\ \E ok \in BOOLEAN : A!Answer(q, ok))
  PROVE  EntryCareful'
<1>. USE DEF A!manual, A!face, A!camera, A!detect, A!blink
<1>0. /\ EntryOk /\ FieldTypes /\ CameraTypes
  BY EntryOkIs DEF EntryOk
<1>c. A!Cams = {"face", "manual"}
  BY DEF A!Cams
<1>1. CASE A!Serve(q)
  <2>1. UNCHANGED <<here, activeTab, manStep, manAction, manPhoto, scanning, scanResult, asked,
                    known, lost, camOpen, camReady>>
    BY <1>1, Serving
  <2>2. \A p \in Calls : call'[p].op = call[p].op
    BY <1>1, Serving
  <2>3. QED
    BY <2>1, <2>2 DEF EntryCareful, Streams, FaceSteps, ManualSteps, Scans
<1>2. ASSUME NEW ok \in BOOLEAN, A!Answer(q, ok), Unasked PROVE EntryCareful'
  <2>0. /\ UNCHANGED <<here, activeTab, asked>> /\ call[q] \in EntryCall /\ call[q] # A!Free
        /\ \A p \in Calls : call'[p] = IF p = q THEN A!Free ELSE call[p]
        /\ \A c \in A!Cams : asked[c] = 0
    BY <1>2, Ending DEF A!Answer, A!Busy, EntryTyped, Unasked
  <2>1. A!Free.op # "scan" /\ call[q].op \in {"status", "clock_in", "clock_out", "scan"}
    BY <2>0, EntryCallSound DEF A!Free, AboutOne
  <2>2. CASE ~here
    <3>1. UNCHANGED <<A!manual, A!face, A!camera>>
      BY <1>2, <2>2 DEF A!Answer
    <3>2. QED
      BY <2>0, <2>2, <3>1 DEF EntryCareful, Streams, FaceSteps, ManualSteps
  <2>3. CASE here /\ call[q].op = "status"
    <3>1. UNCHANGED <<manStep, manAction, manPhoto, A!face, A!camera>>
      BY <1>2, <2>3 DEF A!Answer, A!Ended
    <3>2. Streams' /\ ManualSteps'
      BY <2>0, <3>1 DEF EntryCareful, Streams, ManualSteps
    <3>3. FaceSteps'
      BY <2>0, <2>1, <3>1 DEF EntryCareful, FaceSteps, Scans
    <3>4. QED
      BY <3>2, <3>3 DEF EntryCareful
  <2>4. CASE here /\ call[q].op \in {"clock_in", "clock_out"}
    <3>1. A!StopStreams({"manual"}) /\ manStep' = "idle" /\ UNCHANGED A!face
      BY <1>2, <2>4 DEF A!Answer, A!Ended, A!ResetManualFlow
    <3>2. /\ lost' = lost
          /\ \A c \in A!Cams : /\ known'[c] <=> known[c] /\ c # "manual"
                               /\ camOpen'[c] <=> camOpen[c] /\ c # "manual"
                               /\ camReady'[c] <=> camReady[c] /\ c # "manual"
      BY <1>0, <3>1, Stopping
    <3>3. Streams'
      BY <2>0, <2>4, <3>2 DEF EntryCareful, Streams
    <3>4. ManualSteps'
      BY <1>c, <2>0, <3>1, <3>2 DEF ManualSteps
    <3>5. FaceSteps'
      BY <1>c, <2>0, <2>1, <3>1, <3>2 DEF EntryCareful, FaceSteps, Scans
    <3>6. QED
      BY <3>3, <3>4, <3>5 DEF EntryCareful
  <2>5. CASE here /\ call[q].op = "scan"
    <3>1. UNCHANGED <<A!manual, A!camera>>
      BY <1>2, <2>5 DEF A!Answer, A!Ended
    <3>2. Streams' /\ ManualSteps'
      BY <2>0, <3>1 DEF EntryCareful, Streams, ManualSteps
    <3>3. \A p \in Calls : call'[p].op # "scan"
      BY <2>0, <2>1, <2>5 DEF EntryCareful, FaceSteps, Scans
    <3>4. asked'["face"] = 0 /\ ~camOpen'["face"]
      BY <1>c, <2>0, <2>5, <3>1 DEF EntryCareful, FaceSteps, Scans
    <3>5. FaceSteps'
      <4>1. scanning' = FALSE
        BY <1>2, <2>5 DEF A!Answer, A!Ended
      <4>2. QED
        BY <3>3, <3>4, <4>1 DEF FaceSteps, Scans
    <3>6. QED
      BY <3>2, <3>5 DEF EntryCareful
  <2>6. QED
    BY <2>1, <2>2, <2>3, <2>4, <2>5
<1>3. QED
  BY <1>1, <1>2

\* The record of who is chosen, of a user who waits.
LEMMA CalmSame ==
  ASSUME EntryCalm, UNCHANGED <<call, selectedEmp, todayRecord>>, here' = here \/ A!Quiet
  PROVE  EntryCalm'
BY DEF EntryCalm, A!Quiet, A!Busy, A!RecordOfSelected

LEMMA CalmSend ==
  ASSUME EntryTyped, A!Quiet, here', NEW o \in AboutOne \cup {"scan"}, NEW e, A!Send(o, e),
         [op |-> o, of |-> e, stage |-> "sent"] \in EntryCall,
         o \in AboutOne => e = selectedEmp', o # "status" => A!RecordOfSelected'
  PROVE  EntryCalm'
<1>1. PICK q \in Calls, c \in EntryCall :
        /\ call[q] = A!Free /\ c.op = o /\ c.of = e /\ c.stage = "sent" /\ c # A!Free
        /\ \A p \in Calls : call'[p] = IF p = q THEN c ELSE call[p]
  BY Sending
<1>2. \A p \in Calls : call'[p] = IF p = q THEN c ELSE A!Free
  BY <1>1 DEF A!Quiet, A!Busy
<1>3. \A p \in Calls : A!Busy(p)' <=> p = q
  BY <1>1, <1>2 DEF A!Busy
<1>4. A!Free.op \notin AboutOne /\ ~A!Quiet'
  BY <1>3 DEF A!Free, AboutOne, A!Quiet
<1>5. \A p \in Calls : call'[p].op \in AboutOne => p = q
  BY <1>2, <1>4
<1>6. QED
  BY <1>1, <1>2, <1>3, <1>4, <1>5 DEF EntryCalm

LEMMA CalmUser ==
  ASSUME EntryTyped, EntryCalm, A!Quiet, A!User
  PROVE  EntryCalm'
<1>. USE DEF A!manual, A!face, A!camera, A!detect, A!blink
<1>0. FieldTypes /\ A!RecordOfSelected
  BY EntryOkIs DEF EntryOk, EntryCalm
<1>1. ASSUME A!Leave \/ A!OpenCamera \/ A!CaptureManPhoto \/ \E c \in A!Cams : A!ShowTab(c) \/
      A!Cancel(c)
      PROVE  EntryCalm'
  BY <1>1, CalmSame DEF A!Leave, A!OpenCamera, A!CaptureManPhoto, A!ShowTab, A!Cancel
<1>2. ASSUME NEW a \in {"clock_in", "clock_out", None}, A!OpenManCamera(a) PROVE EntryCalm'
  BY <1>2, CalmSame DEF A!OpenManCamera
<1>3. ASSUME NEW e \in Employees \cup {None}, A!SelectEmployee(e) PROVE EntryCalm'
  <2>1. here' /\ selectedEmp' = e
    BY <1>3 DEF A!SelectEmployee
  <2>2. CASE e = None
    <3>1. todayRecord' = None /\ call' = call
      BY <1>3, <2>2 DEF A!SelectEmployee
    <3>2. A!RecordOfSelected' /\ \A p \in Calls : call'[p] = A!Free
      BY <3>1 DEF A!RecordOfSelected, A!Quiet, A!Busy
    <3>3. A!Free.op \notin AboutOne
      BY DEF A!Free, AboutOne
    <3>4. QED
      BY <2>1, <3>2, <3>3 DEF EntryCalm, A!Quiet, A!Busy
  <2>3. CASE e # None
    <3>1. e \in Employees /\ A!Send("status", e)
      BY <1>3, <2>3 DEF A!SelectEmployee
    <3>2. [op |-> "status", of |-> e, stage |-> "sent"] \in EntryCall
      BY <3>1, EntryCallsMade DEF AboutOne
    <3>3. QED
      BY <2>1, <3>1, <3>2, CalmSend DEF AboutOne
  <2>4. QED
    BY <2>2, <2>3
<1>4. CASE A!HandleFaceScan
  <2>1. here' /\ A!Send("scan", None) /\ UNCHANGED <<selectedEmp, todayRecord>>
    BY <1>4 DEF A!HandleFaceScan, A!Ready
  <2>2. A!RecordOfSelected' /\ [op |-> "scan", of |-> None, stage |-> "sent"] \in EntryCall
    BY <1>0, <2>1, EntryCallsMade DEF A!RecordOfSelected
  <2>3. QED
    BY <2>1, <2>2, CalmSend DEF AboutOne
<1>5. CASE A!HandleClockIn
  <2>1. here' /\ A!Send("clock_in", selectedEmp) /\ UNCHANGED <<selectedEmp, todayRecord>> /\
        selectedEmp \in Employees
    BY <1>0, <1>5 DEF A!HandleClockIn, A!Confirm, FieldTypes
  <2>2. A!RecordOfSelected' /\ [op |-> "clock_in", of |-> selectedEmp,
                                stage |-> "sent"] \in EntryCall
    BY <1>0, <2>1, EntryCallsMade DEF A!RecordOfSelected, AboutOne
  <2>3. QED
    BY <2>1, <2>2, CalmSend DEF AboutOne
<1>6. CASE A!HandleClockOut
  <2>1. here' /\ UNCHANGED <<selectedEmp, todayRecord>>
    BY <1>6 DEF A!HandleClockOut, A!Confirm
  <2>2. CASE todayRecord = None
    BY <1>6, <2>1, <2>2, CalmSame DEF A!HandleClockOut
  <2>3. CASE todayRecord # None
    <3>1. /\ A!Send("clock_out", todayRecord.emp) /\ todayRecord.emp = selectedEmp /\
             todayRecord.emp \in Employees
      BY <1>0, <1>6, <2>3 DEF A!HandleClockOut, A!RecordOfSelected, FieldTypes, A!Records
    <3>2. A!RecordOfSelected' /\ [op |-> "clock_out", of |-> todayRecord.emp,
                                  stage |-> "sent"] \in EntryCall
      BY <1>0, <2>1, <3>1, EntryCallsMade DEF A!RecordOfSelected, AboutOne
    <3>3. QED
      BY <2>1, <3>1, <3>2, CalmSend DEF AboutOne
  <2>4. QED
    BY <2>2, <2>3
<1>7. QED
  BY <1>1, <1>2, <1>3, <1>4, <1>5, <1>6 DEF A!User

LEMMA CalmAnswers ==
  ASSUME EntryTyped, EntryCalm, NEW q \in Calls,
         A!Serve(q) \/ \E ok \in BOOLEAN : A!Answer(q, ok)
  PROVE  EntryCalm'
<1>. USE DEF A!manual, A!face, A!camera, A!detect, A!blink
<1>1. CASE A!Serve(q)
  <2>1. UNCHANGED <<here, selectedEmp, todayRecord>> /\ call[q] # A!Free
    BY <1>1, Serving
  <2>2. PICK d \in EntryCall :
          /\ d # A!Free /\ d.op = call[q].op /\ d.stage = "done"
          /\ \A p \in Calls : call'[p] = IF p = q THEN d ELSE call[p]
          /\ d.op \in AboutOne => d.of = call[q].of /\ (d.row # None => d.row.emp = d.of)
    BY <1>1, Serving
  <2>3. \A p \in Calls : (A!Busy(p)' <=> A!Busy(p)) /\ call'[p].op = call[p].op
    BY <2>1, <2>2 DEF A!Busy
  <2>4. (A!Quiet' <=> A!Quiet) /\ (A!RecordOfSelected' <=> A!RecordOfSelected)
    BY <2>1, <2>3 DEF A!Quiet, A!RecordOfSelected
  <2>5. \A p \in Calls : call'[p].op \in AboutOne =>
          /\ call'[p].of = selectedEmp
          /\ call'[p].stage = "done" /\ call'[p].row # None => call'[p].row.emp = selectedEmp
    BY <2>2, <2>3 DEF EntryCalm
  <2>6. QED
    BY <2>1, <2>3, <2>4, <2>5 DEF EntryCalm
<1>2. ASSUME NEW ok \in BOOLEAN, A!Answer(q, ok) PROVE EntryCalm'
  <2>1. /\ A!Busy(q) /\ call[q] \in EntryCall /\ call[q] # A!Free /\
           (ok => call[q].stage = "done")
        /\ here' = here /\ \A p \in Calls : call'[p] = IF p = q THEN A!Free ELSE call[p]
    BY <1>2, Ending DEF A!Answer, A!Busy, EntryTyped
  <2>2. here /\ (A!Ended(q, ok)) /\ \A p \in Calls : call'[p] = A!Free
    BY <1>2, <2>1 DEF EntryCalm, A!Quiet, A!Answer, A!Busy
  <2>3. call[q].op \in {"status", "clock_in", "clock_out", "scan"}
    BY <2>1, EntryCallSound DEF AboutOne
  <2>4. /\ call[q].op \in AboutOne /\ ok /\ call[q].row # None => call[q].row.emp = selectedEmp
        /\ call[q].op # "status" => A!RecordOfSelected
    BY <2>1 DEF EntryCalm
  <2>5. selectedEmp' = selectedEmp
    BY <2>2 DEF A!Ended
  <2>6. ASSUME call[q].op = "status" PROVE A!RecordOfSelected'
    <3>1. todayRecord' = IF ok THEN call[q].row ELSE None
      BY <2>2, <2>6 DEF A!Ended
    <3>2. A!RecordOfSelected'
      BY <2>4, <2>5, <2>6, <3>1 DEF A!RecordOfSelected, AboutOne
    <3>3. QED
      BY <3>2
  <2>7. ASSUME call[q].op \in {"clock_in", "clock_out"} PROVE A!RecordOfSelected'
    <3>1. todayRecord' = IF ok THEN call[q].row ELSE todayRecord
      BY <2>2, <2>7 DEF A!Ended
    <3>2. A!RecordOfSelected'
      BY <2>4, <2>5, <2>7, <3>1 DEF A!RecordOfSelected, AboutOne
    <3>3. QED
      BY <3>2
  <2>8. ASSUME call[q].op = "scan" PROVE A!RecordOfSelected'
    BY <2>2, <2>4, <2>5, <2>8 DEF A!Ended, A!RecordOfSelected
  <2>9. A!RecordOfSelected'
    BY <2>3, <2>6, <2>7, <2>8
  <2>10. A!Free.op \notin AboutOne
    BY DEF A!Free, AboutOne
  <2>11. QED
    BY <2>1, <2>2, <2>9, <2>10 DEF EntryCalm, A!Busy, A!Quiet
<1>3. QED
  BY <1>1, <1>2

LEMMA EntryStep ==
  ASSUME EntryInv, ClockNext \/ UNCHANGED <<clockVars, call, calm, orderly>>
  PROVE  EntryInv'
<1>. USE DEF EntryInv
<1>1. CASE A!User /\ calm' = (calm /\ A!Quiet) /\ orderly' = (orderly /\ Unasked)
  BY <1>1, TypesUser, CarefulUser, CalmUser
<1>2. CASE (A!Detection \/ Camera) /\ UNCHANGED <<calm, orderly>>
  <2>1. UNCHANGED <<here, call, selectedEmp, todayRecord>>
    BY <1>2 DEF A!Detection, Camera, A!StartBlinkDetection, A!DrawFrames, A!VerifyBlink,
                A!BlinkAnswer,
                A!Granted, A!manual
  <2>2. QED
    BY <1>2, <2>1, TypesDetection, CarefulDetection, CalmSame
<1>3. CASE Refused /\ orderly' = (orderly /\ manStep # "confirm") /\ UNCHANGED calm
  <2>1. UNCHANGED <<here, call, selectedEmp, todayRecord>>
    BY <1>3 DEF Refused, A!Denied, A!manual
  <2>2. QED
    BY <1>3, <2>1, TypesDetection, CarefulDetection, CalmSame
<1>4. CASE (\E q \in Calls : A!Serve(q)) /\ UNCHANGED <<calm, orderly>>
  BY <1>4, TypesAnswers, CarefulAnswers, CalmAnswers
<1>5. CASE Answered /\ orderly' = (orderly /\ Unasked) /\ UNCHANGED calm
  BY <1>5, TypesAnswers, CarefulAnswers, CalmAnswers DEF Answered
<1>6. CASE UNCHANGED <<clockVars, call, calm, orderly>>
  <2>1. EntryTyped'
    BY <1>6 DEF clockVars, EntryTyped, A!TypeOK, EntryCall
  <2>2. EntryCareful' <=> EntryCareful
    BY <1>6 DEF clockVars, EntryCareful, Streams, FaceSteps, ManualSteps, Scans
  <2>3. EntryCalm' <=> EntryCalm
    BY <1>6 DEF clockVars, EntryCalm, A!Quiet, A!Busy, A!RecordOfSelected
  <2>4. QED
    BY <1>6, <2>1, <2>2, <2>3
<1>7. QED
  BY <1>1, <1>2, <1>3, <1>4, <1>5, <1>6 DEF ClockNext

LEMMA EntryStart ==
  ASSUME A!Init, orderly = TRUE, calm = TRUE
  PROVE  EntryInv
<1>1. /\ att \in [Employees -> {"none", "in", "out"}]
      /\ here = TRUE /\ activeTab = "face" /\ selectedEmp = None /\ todayRecord = None
      /\ loadingMan = FALSE /\ manStep = "idle" /\ manAction = None /\ manPhoto = FALSE
      /\ scanning = FALSE /\ scanResult = FALSE /\ lost = 0
      /\ session = 0 /\ running = FALSE /\ frames = FALSE /\ isChecking = FALSE /\
         blinkVerified = 0
      /\ asked = [c \in A!Cams |-> 0] /\ known = [c \in A!Cams |-> FALSE]
      /\ camOpen = known /\ camReady = known /\ attached = known
      /\ checks = [n \in A!Sessions |-> 0] /\ call = [q \in Calls |-> A!Free]
  BY DEF A!Init
<1>2. FieldTypes
  BY <1>1, EntryAssumption DEF FieldTypes, A!Cams
<1>3. CameraTypes
  BY <1>1, EntryAssumption DEF CameraTypes
<1>4. BlinkTypes
  <2>1. session \in 0 .. MaxSessions /\ blinkVerified \in 0 .. session /\ 0 \in 0 .. MaxChecks
    BY <1>1, EntryAssumption
  <2>2. /\ checks \in [A!Sessions -> 0 .. MaxChecks]
        /\ \A n \in A!Sessions : checks[n] > 0 => n <= session
    BY <1>1, <2>1
  <2>3. QED
    BY <1>1, <2>1, <2>2 DEF BlinkTypes
<1>5. EntryTyped
  BY <1>1, <1>2, <1>3, <1>4, EntryOkIs, EntryCallsMade DEF EntryOk
<1>6. EntryCareful
  <2>1. \A c \in A!Cams : asked[c] = 0 /\ ~known[c] /\ ~camOpen[c] /\ ~camReady[c]
    BY <1>1
  <2>2. "face" \in A!Cams /\ "manual" \in A!Cams /\ \A q \in Calls : call[q].op # "scan"
    BY <1>1 DEF A!Cams, A!Free
  <2>3. QED
    BY <1>1, <2>1, <2>2 DEF EntryCareful, Streams, FaceSteps, ManualSteps, Scans
<1>7. EntryCalm
  <2>1. \A q \in Calls : ~A!Busy(q) /\ call[q].op \notin AboutOne
    BY <1>1 DEF A!Busy, A!Free, AboutOne
  <2>2. QED
    BY <1>1, <2>1 DEF EntryCalm, A!Quiet, A!RecordOfSelected
<1>8. QED
  BY <1>5, <1>6, <1>7 DEF EntryInv

LEMMA EntryFollows ==
  ASSUME EntryInv
  PROVE  /\ A!TypeOK
         /\ orderly => A!NeverStuck /\ A!ActionKnown /\ A!CamerasKnown
         /\ calm /\ A!Quiet => A!RecordOfSelected
<1>1. A!TypeOK
  BY DEF EntryInv, EntryTyped
<1>2. ASSUME orderly PROVE A!NeverStuck /\ A!ActionKnown /\ A!CamerasKnown
  <2>1. FieldTypes /\ EntryCareful
    BY <1>2, EntryOkIs DEF EntryInv, EntryOk
  <2>2. A!ActionKnown /\ A!CamerasKnown
    BY <2>1 DEF EntryCareful, ManualSteps, Streams, A!ActionKnown, A!CamerasKnown
  <2>3. A!NeverStuck
    BY <2>1 DEF EntryCareful, ManualSteps, A!NeverStuck, FieldTypes
  <2>4. QED
    BY <2>2, <2>3
<1>3. calm /\ A!Quiet => A!RecordOfSelected
  BY DEF EntryInv, EntryCalm
<1>4. QED
  BY <1>1, <1>2, <1>3

-----------------------------------------------------------------------------
(***************************************************************************)
(* The screens and routers together: what is looked at keeps its own.      *)
(***************************************************************************)
ScreensInv ==
  /\ at = "table" => TableInv
  /\ at = "list" => ListInv
  /\ at = "view" => ViewInv
  /\ at = "clock" => EntryInv
  /\ at = "scan" => ScanInv
  /\ at = "fleet" => FleetInv

LEMMA InitScans == ASSUME S!Init PROVE ScanInv
<1>1. ScanIInv
  BY ScansInit
<1>2. (\A p \in Requests : request[p] = None) /\ \A u \in Supervisors : users[u].site = None
  BY DEF S!Init, S!UserRow
<1>3. ScanApart
  BY <1>2, NoneAssumption DEF ScanApart, OneHandler, Sound, EditKnows
<1>4. QED
  BY <1>1, <1>3 DEF ScanInv

LEMMA InitFleet == ASSUME V!Init PROVE FleetInv
<1>1. V!TypeOK /\ V!AssignmentsOwned
  BY DEF V!Init, V!TypeOK, V!AssignmentsOwned, V!Live
<1>2. FleetApart
  BY FleetNone
     DEF V!Init, FleetApart, OneHandler, OnePerVehicle, OnePerDriver, ActiveIsTaken,
         TakenIsActive, IsActive, AssignKnows, ReleaseKnows, V!Statuses
<1>3. QED
  BY <1>1, <1>2 DEF FleetInv

LEMMA InitScreens == MCInit => ScreensInv
<1> SUFFICES ASSUME MCInit PROVE ScreensInv
  OBVIOUS
<1>1. calm = TRUE /\ orderly = TRUE
  BY DEF MCInit
<1>2. /\ at = "table" => Init
      /\ at = "list" => L!Init
      /\ at = "view" => F!Init
      /\ at = "clock" => A!Init
      /\ at = "scan" => S!Init
      /\ at = "fleet" => V!Init
  BY DEF MCInit
<1>3. QED
  BY <1>1, <1>2, TableStart, ListStart, ViewStart, EntryStart, InitScans, InitFleet
     DEF ScreensInv

LEMMA NextScreens == ScreensInv /\ [MCNext]_everything => ScreensInv'
<1> SUFFICES ASSUME ScreensInv, [MCNext]_everything PROVE ScreensInv'
  OBVIOUS
<1>1. UNCHANGED at
  BY DEF MCNext, everything
<1>2. ASSUME at = "table" PROVE TableInv'
  <2>1. TableNext \/ UNCHANGED everything
    BY <1>2 DEF MCNext, ListNext, ViewNext, ClockNext, ScanNext, FleetNext
  <2>2. TableNext \/ UNCHANGED <<tableVars, page, shown, call, calm, orderly>>
    BY <2>1 DEF everything, pageVars
  <2>3. QED
    BY <1>2, <2>2, TableStep DEF ScreensInv
<1>3. ASSUME at = "list" PROVE ListInv'
  <2>1. ListNext \/ UNCHANGED everything
    BY <1>3 DEF MCNext, TableNext, ViewNext, ClockNext, ScanNext, FleetNext
  <2>2. ListNext \/ UNCHANGED <<screen, rows, search, page, perPage, items, pages, target,
                                shown, importing, call, calm>>
    BY <2>1 DEF everything, pageVars, tableVars, listVars
  <2>3. QED
    BY <1>3, <2>2, ListStep DEF ScreensInv
<1>4. ASSUME at = "view" PROVE ViewInv'
  <2>1. ViewNext \/ UNCHANGED everything
    BY <1>4 DEF MCNext, TableNext, ListNext, ClockNext, ScanNext, FleetNext
  <2>2. ViewNext \/ UNCHANGED <<page, version, filter, data, loading, failed, call, calm>>
    BY <2>1 DEF everything, pageVars, viewVars
  <2>3. QED
    BY <1>4, <2>2, ViewStep DEF ScreensInv
<1>5. ASSUME at = "clock" PROVE EntryInv'
  <2>1. ClockNext \/ UNCHANGED everything
    BY <1>5 DEF MCNext, TableNext, ListNext, ViewNext, ScanNext, FleetNext
  <2>2. ClockNext \/ UNCHANGED <<clockVars, call, calm, orderly>>
    BY <2>1 DEF everything, pageVars
  <2>3. QED
    BY <1>5, <2>2, EntryStep DEF ScreensInv
<1>6. ASSUME at = "scan" PROVE ScanInv'
  <2>1. ScanNext \/ UNCHANGED everything
    BY <1>6 DEF MCNext, TableNext, ListNext, ViewNext, ClockNext, FleetNext
  <2>2. QED
    BY <1>6, <2>1, ScanStep DEF ScreensInv
<1>7. ASSUME at = "fleet" PROVE FleetInv'
  <2>1. FleetNext \/ UNCHANGED everything
    BY <1>7 DEF MCNext, TableNext, ListNext, ViewNext, ClockNext, ScanNext
  <2>2. QED
    BY <1>7, <2>1, FleetStep DEF ScreensInv
<1>8. QED
  BY <1>1, <1>2, <1>3, <1>4, <1>5, <1>6, <1>7 DEF ScreensInv

LEMMA ScreensInductive == MCSpec => []ScreensInv
<1>1. QED
  BY InitScreens, NextScreens, PTL DEF MCSpec

LEMMA SameScanTypes == S!TypeOK => S!TypeOK
BY DEF S!TypeOK, S!TypeOK, S!Row, S!Row, S!EditOf, S!EditOf, S!ClockIn, S!ClockIn,
       S!ClockOut, S!ClockOut, S!Times, S!Times, S!UserRow, S!UserRow

\* Whatever is looked at, and however its answers, handlers and users meet, its state
\* is one that the page or the router is written for.
THEOREM ScreensTyped == MCSpec => []TypesOK
<1>1. ScreensInv => TypesOK
  BY TableFollows, ListFollows, ViewFollows, EntryFollows, SameScanTypes
     DEF ScreensInv, TypesOK, ScanInv, ScanIInv, FleetInv
<1>2. QED
  BY <1>1, ScreensInductive, PTL

\* Of a user who waits for each answer, a page with nothing under way shows what the
\* server has for what is chosen on it, for any rows, filters, employees and calls;
\* the dialog of the deletion asks about a row of the list; the view that cancels its
\* calls shows the chosen filter however the answers cross (MissedAttendancePanel.tsx:54);
\* and the numbered buttons leave no page out (EmployeeList.tsx:113).
THEOREM ScreensShowCurrent == MCSpec => []ShowsCurrent
<1>1. Pagers
  <2>1. 1 .. 12 \subseteq Nat \ {0}
    OBVIOUS
  <2>2. QED
    BY <2>1, PagersComplete DEF Pagers
<1>2. ScreensInv => ShowsCurrent
  BY <1>1, TableFollows, ListFollows, ViewFollows, EntryFollows DEF ScreensInv, ShowsCurrent
<1>3. QED
  BY <1>2, ScreensInductive, PTL

\* A page's buttons are disabled exactly while the call that disables them is under
\* way; a page that stays busy until its list is there again never asks for what the
\* server refuses, as long as nobody else changes the rows; and the panel of the manual
\* entry always has a way on and can stop the camera that runs (AttendanceEntry.tsx).
THEOREM ButtonsAlwaysWork == MCSpec => []ButtonsWork
<1>1. ScreensInv => ButtonsWork
  BY TableFollows, EntryFollows DEF ScreensInv, ButtonsWork
<1>2. QED
  BY <1>1, ScreensInductive, PTL

\* Whatever handlers overlap, attendance by face scan is marked at sites of the
\* worker's company and never ended by a double tap; and as long as they run one at a
\* time, only a supervisor of the site's company has a site
\* (physical_attendance_service.py:93, 168 and 208).
THEOREM ScansAreSound == MCSpec => []ScansSound
<1>1. ScreensInv => ScansSound
  <2>1. SUFFICES ASSUME ScanInv
                 PROVE  /\ S!ScansApart /\ S!MarkedAtOwnSites
                        /\ alone => S!SitesOfSupervisors
    BY DEF ScreensInv, ScansSound
  <2>2. S!ScansApart /\ S!MarkedAtOwnSites
    BY <2>1 DEF ScanInv, ScanIInv, S!ScansApart, S!ScansApart, S!MarkedAtOwnSites,
                S!MarkedAtOwnSites
  <2>3. alone => S!SitesOfSupervisors
    BY <2>1 DEF ScanInv, ScanApart, Sound, S!SitesOfSupervisors
  <2>4. QED
    BY <2>2, <2>3
<1>2. QED
  BY <1>1, ScreensInductive, PTL

\* An assignment is of a vehicle and a driver that exist, whatever handlers overlap;
\* as long as they run one at a time and nobody sets a status by hand, the status and
\* the assignments of a vehicle agree and nobody drives two (routers/assignments.py:63).
THEOREM FleetAgrees == MCSpec => []VehiclesMatch
<1>1. ScreensInv => VehiclesMatch
  <2>1. SUFFICES ASSUME FleetInv
                 PROVE  /\ V!AssignmentsOwned
                        /\ alone /\ ~edited => V!AssignmentsTrue /\ V!TakenIsDriven
    BY DEF ScreensInv, VehiclesMatch
  <2>2. ASSUME FleetApart PROVE V!AssignmentsTrue
    <3>1. ASSUME NEW M, \A a, b \in M : a = b PROVE Cardinality(M) <= 1
      <4>1. M = {} \/ \E a : M = {a}
        BY <3>1
      <4>2. Cardinality(M) \in {0, 1}
        BY <4>1, FS_EmptySet, FS_Singleton
      <4>3. QED
        BY <4>2
    <3>2. ASSUME NEW v \in Vehicles
          PROVE  Cardinality(V!ActiveOf(v)) <= 1 /\ (V!ActiveOf(v) # {} => status[v] = "assigned")
      <4>1. V!ActiveOf(v) = {a \in Assignments : IsActive(a) /\ assignments[a].vehicle = v}
        BY ActiveIs DEF V!ActiveOf, V!Active, V!Live
      <4>2. QED
        BY <2>2, <3>1, <4>1 DEF FleetApart, OnePerVehicle, ActiveIsTaken
    <3>3. ASSUME NEW e \in Drivers PROVE Cardinality(V!DrivenBy(e)) <= 1
      <4>1. V!DrivenBy(e) = {a \in Assignments : IsActive(a) /\ assignments[a].driver = e}
        BY ActiveIs DEF V!DrivenBy, V!Active, V!Live
      <4>2. QED
        BY <2>2, <3>1, <4>1 DEF FleetApart, OnePerDriver
    <3>4. QED
      BY <3>2, <3>3, SameCardinality DEF V!AssignmentsTrue
  <2>3. ASSUME FleetApart PROVE V!TakenIsDriven
    BY <2>3, ActiveIs DEF FleetApart, TakenIsActive, V!TakenIsDriven, V!ActiveOf
  <2>4. QED
    BY <2>1, <2>2, <2>3 DEF FleetInv
<1>2. QED
  BY <1>1, ScreensInductive, PTL
=============================================================================
