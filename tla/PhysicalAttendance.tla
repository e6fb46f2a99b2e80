--------------------------- MODULE PhysicalAttendance ---------------------------
(***************************************************************************)
(* Physical attendance (services/physical_attendance_service.py): an admin *)
(* assigns a site to a supervisor, who then marks the attendance of the    *)
(* workers there by face scan.  The site is a column of the supervisor's   *)
(* users row, which editing a user (routers/auth.py) may clear, and it     *)
(* points to a work location, which may be deactivated or deleted          *)
(* (routers/locations.py).                                                 *)
(*                                                                         *)
(* A handler reads and checks, and commits later the columns that it       *)
(* changed.  Of the attendance table this is the day's row of each worker; *)
(* what else writes it (Attendance) adds and deletes rows here.            *)
(***************************************************************************)
EXTENDS PhysicalParameters

VARIABLES
  users,    \* role, company and site of each supervisor
  sites,    \* the status of each work location
  today,    \* the day's attendance row of each worker
  now,      \* the server's clock
  request   \* what the handler in each thread is about to commit

vars == <<users, sites, today, now, request>>

-----------------------------------------------------------------------------
TypeOK ==
  /\ users \in [Supervisors -> UserRow]
  /\ sites \in [Sites -> {"active", "inactive", "deleted"}]
  /\ today \in [Workers -> Row \cup {None}]
  /\ now \in Times
  /\ request \in [Requests -> EditOf \cup ClockIn \cup ClockOut \cup {None}]

Init ==
  /\ users \in [Supervisors -> {u \in UserRow : u.site = None}]
  /\ sites = [s \in Sites |-> "active"]
  /\ today = [w \in Workers |-> None]
  /\ now = 0
  /\ request = [r \in Requests |-> None]

Begin(r, work) ==
  /\ request[r] = None
  /\ request' = [request EXCEPT ![r] = work]
  /\ UNCHANGED <<users, sites, today, now>>

Finish(r) == request' = [request EXCEPT ![r] = None]

-----------------------------------------------------------------------------
(***************************************************************************)
(* The admin side.                                                         *)
(***************************************************************************)
Edit(u, new) == [op |-> "edit", user |-> u, read |-> users[u], new |-> new]

\* PUT /physical-attendance/supervisors/{id}: assigns, changes or clears the site.
SetSite(r, u) ==
  /\ users[u].role = "supervisor"
  /\ \E s \in Sites \cup {None} :
       /\ s # None => sites[s] = "active" /\ OwnerOf[s] = users[u].company
       /\ Begin(r, Edit(u, [users[u] EXCEPT !.site = s]))

DropSiteIfIneligible(user, previous) ==
  IF user.role # "supervisor" \/ user.company # previous
  THEN [user EXCEPT !.site = None] ELSE user

\* PUT /auth/users/{id}.
UpdateUser(r, u) ==
  \E role \in {"supervisor", "other"}, c \in Companies :
    Begin(r, Edit(u, DropSiteIfIneligible([users[u] EXCEPT !.role = role, !.company = c],
                                          users[u].company)))

\* PUT and DELETE /locations/{id}; the columns that point to a deleted one are cleared.
UpdateLocation(s) ==
  /\ \/ sites[s] = "active" /\ sites' = [sites EXCEPT ![s] = "inactive"]
     \/ sites[s] = "inactive" /\ sites' = [sites EXCEPT ![s] = "active"]
  /\ UNCHANGED <<users, today, now, request>>

Pointing(to, s) == IF to = s THEN None ELSE to

DeleteLocation(s) ==
  /\ sites[s] # "deleted"
  /\ sites' = [sites EXCEPT ![s] = "deleted"]
  /\ users' = [u \in Supervisors |-> [users[u] EXCEPT !.site = Pointing(@, s)]]
  /\ today' = [w \in Workers |->
                 IF today[w] = None THEN None
                 ELSE [today[w] EXCEPT !.site = Pointing(@, s)]]
  /\ UNCHANGED <<now, request>>

-----------------------------------------------------------------------------
(***************************************************************************)
(* The supervisor side.                                                    *)
(***************************************************************************)
IsEnabled(user) == user.role = "supervisor" /\ user.site # None

\* Mutant: the site is used whatever company it is of.
SiteUsable(user) == sites[user.site] = "active"

\* get_site: "A site of another company is never usable, whatever the column says."
GetSite(user) == OwnerOf[user.site] = user.company /\ sites[user.site] = "active"

ClockOutTooSoon(entry, time) == time - entry < MinGap

\* POST /physical-attendance/scan.
Scan(r, u, w) ==
  /\ IsEnabled(users[u]) /\ GetSite(users[u])
  /\ CompanyOf[w] = users[u].company
  /\ \/ /\ today[w] = None
        /\ Begin(r, [op |-> "in", worker |-> w, at |-> now, site |-> users[u].site])
     \/ /\ today[w] # None /\ today[w].exit = None
        /\ ~ClockOutTooSoon(today[w].entry, now)
        /\ Begin(r, [op |-> "out", worker |-> w, at |-> now, site |-> users[u].site,
                     read |-> today[w]])

-----------------------------------------------------------------------------
(***************************************************************************)
(* Commits.                                                                *)
(***************************************************************************)
Written(current, read, new) == IF new = read THEN current ELSE new

Exists(s) == s = None \/ sites[s] # "deleted"

\* A site that has been deleted meanwhile cannot be pointed to.
CommitEdit(r) ==
  /\ request[r].op = "edit"
  /\ LET u == request[r].user
         read == request[r].read
         new == request[r].new
     IN  IF new.site = read.site \/ Exists(new.site)
         THEN users' = [users EXCEPT
                ![u] = [role |-> Written(@.role, read.role, new.role),
                        company |-> Written(@.company, read.company, new.company),
                        site |-> Written(@.site, read.site, new.site)]]
         ELSE UNCHANGED users
  /\ Finish(r) /\ UNCHANGED <<sites, today, now>>

Held == {request[r].read.id : r \in {q \in Requests : request[q] \in ClockOut}}
InUse == Held \cup {today[w].id : w \in {v \in Workers : today[v] # None}}
Fresh == RowIds \ InUse
NewId == CHOOSE id \in Fresh : TRUE

\* One row of a worker and a date, uq_attendance_employee_date.
CommitClockIn(r) ==
  /\ request[r].op = "in"
  /\ LET w == request[r].worker IN
       IF today[w] = None /\ Exists(request[r].site)
       THEN /\ Fresh # {}
            /\ today' = [today EXCEPT ![w] = [id |-> NewId, entry |-> request[r].at,
                                              exit |-> None, site |-> request[r].site]]
       ELSE UNCHANGED today
  /\ Finish(r) /\ UNCHANGED <<users, sites, now>>

\* stamp_site: unless it already has one.
StampSite(read, site) == IF read.site = None THEN site ELSE read.site

\* The row that was read, by its id, is still there.
SameRow(w, read) == today[w] # None /\ today[w].id = read.id

CommitClockOut(r) ==
  /\ request[r].op = "out"
  /\ LET w == request[r].worker
         read == request[r].read
         stamp == StampSite(read, request[r].site)
     IN  IF SameRow(w, read) /\ (stamp = read.site \/ Exists(stamp))
         THEN today' = [today EXCEPT ![w].exit = request[r].at,
                                     ![w].site = Written(@, read.site, stamp)]
         ELSE UNCHANGED today
  /\ Finish(r) /\ UNCHANGED <<users, sites, now>>

Commit(r) ==
  /\ request[r] # None
  /\ CommitEdit(r) \/ CommitClockIn(r) \/ CommitClockOut(r)

\* A worker clocks in otherwise, without a site, or an admin deletes the row.
Elsewhere(w) ==
  /\ \/ /\ today[w] = None /\ Fresh # {}
        /\ \E t \in Times :
             today' = [today EXCEPT
                         ![w] = [id |-> NewId, entry |-> t, exit |-> None, site |-> None]]
     \/ today[w] # None /\ today' = [today EXCEPT ![w] = None]
  /\ UNCHANGED <<users, sites, now, request>>

Tick ==
  /\ now < MaxTime /\ now' = now + 1
  /\ UNCHANGED <<users, sites, today, request>>

Restart ==
  /\ request' = [r \in Requests |-> None]
  /\ UNCHANGED <<users, sites, today, now>>

-----------------------------------------------------------------------------
Admin(r) == \E u \in Supervisors : SetSite(r, u) \/ UpdateUser(r, u)

Scans(r) == \E u \in Supervisors, w \in Workers : Scan(r, u, w)

Next ==
  \/ \E r \in Requests : Admin(r) \/ Scans(r) \/ Commit(r)
  \/ \E s \in Sites : UpdateLocation(s) \/ DeleteLocation(s)
  \/ \E w \in Workers : Elsewhere(w)
  \/ Tick \/ Restart

Spec == Init /\ [][Next]_vars

-----------------------------------------------------------------------------
\* However scans overlap each other, deletions and other ways to clock in, none clocks
\* a worker out sooner than MinGap after the entry: "a second scan this soon after
\* clock-in is treated as an accidental re-scan" (physical_attendance_service.py:26).
ScansApart ==
  \A w \in Workers :
    today[w] # None /\ today[w].exit # None => today[w].exit - today[w].entry >= MinGap

\* However the site of a supervisor got there, attendance is marked at sites of the
\* worker's own company ("a site of another company is never usable",
\* physical_attendance_service.py:167).
MarkedAtOwnSites ==
  \A w \in Workers :
    today[w] # None /\ today[w].site # None => OwnerOf[today[w].site] = CompanyOf[w]

\* A user has a site only as a supervisor of the site's company: "a later re-promotion
\* must not silently bring physical attendance back" (physical_attendance_service.py:96).
SitesOfSupervisors ==
  \A u \in Supervisors :
    users[u].site # None =>
      /\ users[u].role = "supervisor"
      /\ OwnerOf[users[u].site] = users[u].company
      /\ sites[users[u].site] # "deleted"
=============================================================================
