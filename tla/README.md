# Verification of the ERP: attendance, payroll, licensing, and the web client

TLA+ models of the backend in `src/backend` (FastAPI, SQLAlchemy, PostgreSQL) and of the
web client in `src/frontend` (React), the TLC runs that check them on small instances, and
the theorems TLAPS proves for every instance, about the backend and about the client's shell
and pages. The models follow the
code under `src/`; docs and comments are quoted only where they say what the code should
guarantee, or where the code does something else.

## 1. The system

The product is a multi-tenant ERP for small factories and fleets: employees clock in
and out with their face or by hand, a payroll is run from the attendance, companies pay
for seats through subscriptions and licences, vehicles and workers are followed by GPS.

```
 frontend (React) ──┐                         ┌── PostgreSQL (db/init.sql, alembic)
 mobile (Kotlin) ───┼── HTTP ── backend ──────┤
 gateway (GT06 TCP)─┘        (FastAPI)        └── providers (bank, KYC, e-mail, SMS, push)
                               │  cron loop (jobs, retention)
                               └─ WebSocket (fleet positions)
```

**The backend.** Two facts shape every model of it:

* Handlers declared with `def` run in a thread pool, each with a database session of its
  own (`database.py`: autocommit off, autoflush off, READ COMMITTED). A handler reads and
  checks, and commits later; nothing but the constraints of the database stands between
  the two, as no handler locks the rows it read (the one exception is the invoice number).
* A commit writes only the columns that the handler changed, and it fails as a whole when
  a constraint is violated or a row to update is gone.

So a handler that decides from what it read is modelled as **two steps**, a *begin* that
reads, checks and keeps its session's copies in a request slot (`request[r]`, one slot per
worker thread), and a *commit* that applies them to the table as it then is, or rolls
back. A handler whose checks cannot be falsified by another commit is one step. A handler
that is refused changes nothing and is not an action. `Restart` drops what was in flight.

**The web client.** It has no store: each page keeps the rows it loaded, the form being
typed, flags that disable its buttons, and a call or two under way. A call is **started**
(by a click, an effect or a timer), **served** (the server does its part), and **answered**
or **failed** (`api/axiosConfig.ts` gives up after ten seconds, so a failed call may have
been served). These are separate steps, so answers come late, in another order, after the
user has gone on, or not at all. The closures of React matter: what a handler captured when
it was started is kept in the call. What the server does is as much of it as the page can
notice, and no more.

### 1.1 Components

| Component | Source (`src/backend`, `src/frontend/src`) | Model |
|---|---|---|
| Attendance | `routers/attendance.py`, `services/attendance_service.py`, `config/shifts.py` | `Attendance`, `WorkedHours`, `Rounding`, `DayLifecycle` |
| Physical attendance | `services/physical_attendance_service.py`, `routers/physical_attendance.py` | `PhysicalAttendance`, `PhysicalParameters` |
| Geofence alerts | `services/geofence_service.py`, `routers/geofence.py` | `Geofence`, `GeofenceParameters` |
| Licensing | `services/subscription_service.py`, `routers/subscriptions.py`, `routers/licenses.py` | `Licensing` |
| Invoicing | `services/invoice_service.py`, `routers/invoices.py` | `Invoicing`, `Billing` |
| Payroll, payslips | `services/payroll_service.py`, `services/payslip_service.py` and routers | `Payroll`, `Pay` |
| Fleet | `routers/vehicles.py`, `routers/assignments.py` | `Fleet` |
| Accounts, employees, companies | `routers/{auth,employees,companies}.py` | what concerns seats in `Licensing`, deletion in `Attendance` and `Fleet`, roles in `PhysicalAttendance`, password, PIN and codes in `Session` and `Profile` |
| Notifications | `services/notification_service.py` | the server's side of `Bell` |
| Session, routes | `context/AuthContext.tsx`, `App.tsx`, `components/{Sidebar,LockScreen}.tsx`, `pages/auth/{Login,SetPassword}.tsx` | `Session`, `Routes` |
| Notification bell | `components/NotificationBell.tsx` | `Bell` |
| Live map | `pages/tracking/LiveTracking.tsx` | `LiveMap` |
| Payslip builder | `pages/payroll/PayslipBuilder.tsx` | `PayslipLayout`, `PayslipTemplates` |
| Forms | `pages/auth/UserManagement.tsx`, `pages/companies/CompanyList.tsx`, `pages/employees/EmployeeForm.tsx`, `components/MultiStepForm.tsx` | `UserForms`, `CompanyForm`, `EmployeeForm` |
| Profile | `pages/profile/Profile.tsx`, `context/ThemeContext.tsx` | `Profile` |
| Clocking page | `pages/attendance/AttendanceEntry.tsx` | `AttendanceEntry` |
| Lists, views, tables | the pages that show rows (`PROJECT.json` lists them) | `PagedList`, `FilteredView`, `Worktable` |
| Tracking, GT06 gateway, integrations, jobs, roles, locations, external services, other pages, mobile apps | | not modelled, see section 6 |

### 1.2 How they interact

* Attendance rows are read by payslips, payroll, geofence and the dashboards, all of which
  assume one row per employee and date, and hours where there is an exit time. Three
  handlers write them: by hand, by the worker's face, and by a supervisor's scan.
* Deleting an employee deletes the employee's attendance, advances and vehicle assignments;
  deleting a location empties the columns that point to it, a supervisor's site among them.
* Every business request first asks licensing whether the company is valid
  (`require_valid_license`); every creation of a user asks for a seat.
* Invoices are drawn up from the licences of a subscription; payroll items withhold the
  monthly deductions of active advances, whose balances finalizing reduces.
* Geofence pings look at today's attendance row and at the places of work: only an employee
  who is clocked in can leave the site. Alerts become notifications, which the bell shows.
* The browser's tabs share a session through `localStorage`; routes, sidebar and pages read
  the role from it; a lock, a reset password or an expired token ends it.
* Positions reach the live map by polling and by one WebSocket per vehicle.

### 1.3 What makes each one correct, and what is hard about it

The hazards are listed line by line in `PROJECT.json`, each with the property that would
catch it; in short:

* **Attendance** One record a day under racing clock-ins; hours and exit time always
  written together although an edit and a clock-out may each hold an old copy; no closed
  record reopened, no deleted one resurrected, none without its employee.
* **Physical attendance** Double taps and two supervisors at once; a site that survives a
  demotion, a move, or its own deletion.
* **Geofence** Overlapping pings that open two events; handlers cut off between storing a
  ping, an event and its alert; events that clock-out leaves open.
* **Licensing** One current subscription per company; users added only within the pool.
* **Payroll** A month paid once, an advance recovered exactly once and never beyond its
  amount, a finalized run left alone.
* **Invoicing** Numbers unique under concurrent generation; a paid invoice never void,
  a void one never paid; every licence billed in just the periods it was active.
* **Fleet** Two records of one fact, a vehicle's status and its open assignment.
* **Web client** Late answers over newer state; flags lowered by the wrong call; forms
  that serve two targets; timers, polls and sockets that must make what is shown true in
  the end; buttons, links and cameras that must leave a way on.

## 2. Plan

Each module has one action per handler step or event, parameters as CONSTANTS with named
assumptions, and no RECURSIVE operator where it is to be proved about. A proof module extends
the component's module, or the MC module that composes several slices and has the histories.

| | Module | Composed with | State |
|---|---|---|---|
| 1 | `Attendance` | `WorkedHours`, refines `DayLifecycle` | done, proofs |
| 2 | `Licensing`, `Payroll`, `Pay`, `Invoicing`, `Billing` | `Rounding`, `MCArithmetic` | done, proofs |
| 3 | `PhysicalAttendance` | the rows of `Attendance` as its environment | done, proofs |
| 4 | `Geofence` | attendance, places and positions as its environment | done, proofs, liveness |
| 5 | `Fleet` | | done, proofs |
| 6 | `PayslipLayout`, `PayslipTemplates`, `UserForms`, `CompanyForm`, `EmployeeForm`, `Profile` | `MCEditors` | done, proofs |
| 7 | `Session`, `Routes`, `Bell`, `LiveMap` | `MCShell` | done, proofs, liveness |
| 8 | `Worktable`, `PagedList`, `FilteredView`, `AttendanceEntry` | `MCScreens` | done, proofs |
| 9 | Gateway and tracking: frames, acknowledgement, IMEI cache, forwarding | `LiveMap` | left |
| 10 | Provider calls (retries, fallback, usage counters), the scheduler of jobs | | left |
| 11 | Payslip upsert, roles, employee codes, work locations and company settings | `Attendance`, `Pay` | left |

Every invariant and every action property that a run checks is also a theorem (section 5).
Of the rest, what must come true in the end stays with TLC.

## 3. The modules

### 3.1 The backend

**`Rounding`** is `quantize(0.01, ROUND_HALF_UP)` on integers in hundredths, the one
rounding the backend applies to hours and money. **`Null`** is the `None` that modules
extended together share.

**`WorkedHours`** is `calculate_hours_worked`, `calc_overtime` and the two configured
shifts: the break is deducted only where it overlaps the time worked.

**`Attendance`** keeps the table as a function from row ids to rows, the id sequence, the
`users` rows and `request`, what each thread is about to commit. `ClockIn`, `ClockOut`,
`FaceScan`, `UpdateAttendance`, `DeleteAttendance` and `DeleteEmployee` are the handlers up
to the commit; `CommitInsert`, `CommitUpdate`, `CommitDelete`, `CommitDismiss` the commits.
An update keeps the row as read and as computed; `Merge` writes the columns that differ,
as SQLAlchemy does. `Rollback` is the commit that the database refuses: the foreign key,
the unique constraint, or a row to update that is gone. Times are the client's or the
server's clock; no handler of it compares two of them, so each picks any time.

**`DayLifecycle`** is the abstract specification: each employee and day is absent, open or
closed; open follows absent, closed follows open, and only an edit that moves the record
or a deletion undoes anything. `Attendance!ImplementsDayLifecycle` maps the table to it.

**`PhysicalAttendance`** (its constants, rows and requests are in `PhysicalParameters`)
keeps what a supervisor's `users` row says of role, company and site, the status of each
work location, and the day's row of each worker. `SetSite` and `UpdateUser` both write the
supervisor's row from a copy, the second clearing the site of a user who is demoted or
moved (`DropSiteIfIneligible`); `Scan` clocks in or out after the checks of `GetSite` and
of the minimum gap; `DeleteLocation` empties the columns that point to the site;
`Elsewhere` is everybody else who writes the table. It has the server's clock, since here
two times are compared.

**`Geofence`** (constants, and the stages of the work of a thread, in `GeofenceParameters`) is `record_ping`, which is not one
transaction: it commits the ping, asks for the open event, asks for the last pings,
commits the event, and then tells the supervisors. `Report`, `Store`, `Look`, `Count`,
`Open`, `Notify`, `Close` are these steps, and `Fail` cuts a handler off before any of
them. A ping has its place in the order of `recorded_at` from the time its transaction
began, although others see it later. Clocking in and out, being assigned a place of work
and walking about are the environment. Pings are kept as far back as counts: `Store` drops
those that cannot be among the last `Threshold` again.

**`Fleet`** keeps the status of the vehicles and the table of assignments, which say one
thing twice. Assigning and releasing check and commit later; creating, editing and
deleting a vehicle and deleting a driver are one step.

**`Licensing`** keeps subscriptions and licences as sequences in id order, the number of
admins and other users of each company, the bypass setting and the requests in flight. The
creation of a user, an import row by row and the creation of a subscription check first
and commit later; edits of billing rows and of users check nothing that another commit
could change and are one step. `Pooled` adds up the seats of a company's active licences;
`Valid`, `Room` and `Allowed` are `evaluate_state` in its
order of tests. The partial unique index on subscriptions is `IndexAllows`.

**`Pay`** is the arithmetic of payslips and of payroll runs side by side: monthly salary,
daily rate, the cap at a full month, and the two passes over the components of a salary
structure. A breakdown is a dict in Python and here the sequence of its entries, in the
order in which their names came. The passes and the sums are recursive functions on the
number of components done, so that an invariant of their values can be proved. Statutory
rates and overtime do not differ between the two and are left out.

**`Payroll`** keeps advances, runs with their items (withholding for advances or not) and
the requests in flight. Finalizing has three steps: the router reads the run, the service
reads items and active advances (its own query of the run returns the copy the session
already has), and the commit writes balances computed from what was read. Creating and
cancelling a run are two steps; giving and deleting an advance and dismissing an employee
one.

**`Invoicing`** has generation in four steps: the snapshot of the statement, the wait for
the row locks, the insert with the number allocated, and the audit row in a second
transaction. Under READ COMMITTED `SELECT ... FOR UPDATE` re-reads the rows it waited for
and drops deleted ones, and does not see rows inserted after its snapshot: `seen \cap Live`.
Paying and voiding read a status and write without a condition on it. **`Billing`** is the
loop of `build_lines` and its test, on instants.

### 3.2 The web client

A call under way is a record in `call`: what it asks, what its closure captured, and how
far it got. `Serve` is the server's part, `Answer` and `Fail` what the page then does.
Text is told apart only as far as the page tells it apart.

| Module | State | Actions |
|---|---|---|
| `PayslipLayout` | the sections on the canvas, their pairs and fields, the list's copy of the same template, which sections the two share as one object | drag, pair, toggle, add, remove, style, edit a field, pick the template, save |
| `PayslipTemplates` | the server's templates, the page's list, the one selected and the layout being edited | pick, save the layout, create, update, duplicate, delete, and the reloads that follow, each with its call |
| `UserForms` | the form in three steps that creates a user, the one that edits a row, the busy flag they share with the list | open, type, next, back, submit, edit, close, and the answers |
| `CompanyForm` | one form for new and edited companies, one flag for form and list | the same |
| `EmployeeForm` | the fields as missing, bad or good, the step, the saved id, the bank check, the camera's streams | type, step, submit, verify the bank, open, stop and capture, register the face, leave the page |
| `Profile` | the user on the server, in the session, on the page and in each form; codes; one flag per button | save account, photo, PIN, lock time, theme, password and details; send and verify a code; reload, sign in |
| `Session` | `localStorage`, each tab's copy, its timer, the call of its form | load, log in, set a password, lock, unlock, log out, switch company, expire, reset by an admin |
| `Routes` | who visits, and the path | type a path, follow a link, log in and out; guards and redirections are evaluated until they stop |
| `Bell` | the server's notifications, the badge, the list | arrive, poll, open, read one, read all |
| `LiveMap` | positions at the server and on the page, sockets, updates in them | move and list vehicles, load, drop a socket, deliver an update |
| `PagedList` | rows, search, page, page size, dialog | type, turn, resize, delete, import; four pages differ in their controls |
| `FilteredView` | data of a version for a filter, flags | choose, load, poll, cancel; a page is a record of how it loads and what its reader can do |
| `Worktable` | rows with a status, the page's copy, busy, dialog | the operations of each page, one record per page |
| `AttendanceEntry` | two tabs, two cameras, the blink check, the record shown | choose, start and stop a camera, frames and checks, capture, confirm |

`FilteredView` and `Worktable` stand for many pages that are built alike; each page is a
record of the differences, next to the lines it was read from in `PROJECT.json`.

### 3.3 The modules that TLC runs

`MCArithmetic` evaluates the pure operators. `MCAttendance`, `MCLicensing`, `MCPayroll` and
`MCInvoicing` extend one module each. The last three put several small components into
one run, as **slices**: the variable `at` is chosen in the initial state and says which
component is looked at; only its variables change, those of the others are `None`. The
slices do not interact; the run is their disjoint union, and what is said of a slice
begins with `at = ... =>`.

* `MCEditors`: `PayslipLayout` (four slices, a part of the canvas each, since they are
  independent), `PayslipTemplates`, `UserForms`, `CompanyForm`, `EmployeeForm` (two: the
  form, the camera), `Profile` (a slice for each tab).
* `MCShell`: `Session` (used by all users who never leave; used by one who does),
  `Routes`, `Bell`, `LiveMap`, `Geofence`.
* `MCScreens`: `Worktable`, `PagedList`, `FilteredView`, `AttendanceEntry`,
  `PhysicalAttendance`, `Fleet`.

A slice may be proved about by itself: what is not its own is `None` and stays so, so the
invariant of the whole is one implication per slice.

The MC modules add **history variables**, which no action reads:

| History | TRUE as long as (or, for the last group, once) |
|---|---|
| `alone` (backend) | no handler has taken a step while another was in the middle of its own |
| `alone`, `calm` (client) | the user has waited for the calls under way, and none was lost after it was served |
| `orderly` | the same, of what the page's disabled buttons do not make the user wait for |
| `whole` | each ping was handled alone and to its end |
| `steady` | a state of its own: whether the canvas's array is in the order it shows |
| `cut`, `dirty`, `reset`, `crossed`, `swapped`, `edited` | a restart dropped a request; a form was typed in since its save; an administrator reset a password; a notification came while all were being marked read; as many vehicles left the map as came; a vehicle's status was set by hand |

They tell what the code guarantees to a user who waits, or to handlers one at a time,
from what it guarantees always. The unconditional properties are stated without them.

### 3.4 Bounds

`MaxDay`, `MaxTime`, `MaxRecords` (Attendance), `MaxSubs`, `MaxLicenses`, `MaxMembers`,
`MaxRows` (Licensing), `MaxAdvances`, `MaxRuns`, `Amounts`, `Months` (Payroll), `MaxYear`,
`MaxInvoices` (Invoicing), `RowIds` (PhysicalAttendance), `EventIds` (Geofence),
`Assignments` (Fleet), `MaxIds`, `MaxLive`, `MaxFields` (PayslipLayout), `MaxAt` (LiveMap),
`MaxVersion` (FilteredView), `MaxAsked`, `MaxSessions`, `MaxChecks` (AttendanceEntry),
`Streams` (EmployeeForm) and everywhere `Requests` and `Calls` (handlers and calls at once)
appear in guards or as the sets that are drawn from, and make the state finite; the
theorems hold for every value of those they concern. `RowIds` and `EventIds` come again
once nothing refers to them, so they bound what is there at once and not the length of a
behaviour. Three restrictions are in the MC modules and not in the components: on the
canvas's slice of pairs there are at most three sections; in the slice of the geofence
employees clock in and out and get or lose a place of work only while no ping is being
handled (the modules and the theorems allow it at any time); and a vehicle's status is set
by hand at most once.

## 4. The runs

Eight passing runs and four that show a disagreement.

| Run | Instance | What it shows |
|---|---|---|
| `arithmetic` | every minute from each interesting entry to 18:00 on both shifts and an unknown one; 0 to 31 days, five salaries, two hourly rates, 22 or 26 working days; every structure of up to three components; every pair of licences over four periods | hours are those of the minutes worked outside the break, a full shift earns no overtime (`HoursOfDay`); a full month pays the salary, a structure's totals do not depend on order, a licence is billed in just the periods it was active (`MoneyAddsUp`) |
| `attendance` | 2 threads, 1 employee, 2 days, 2 times, 2 rows ever (910,000 states) | one record a day, hours with exit times, no orphan (`RecordsSound`), nothing reopened or resurrected (`NeverUndone`), the lifecycle refined, under any interleaving; while `alone`, hours match times and an exit time is written once |
| `licensing` | 2 threads, 1 company, 2 subscriptions, 2 one-seat licences, 1 user of each kind, imports of 2 rows (970,000) | one current subscription, licences of their subscriber (`SubscriptionsSound`); while `alone`, users are added within the pool |
| `payroll` | 2 threads, 1 employee, a company's and a master's callers, 2 advances, 3 runs, 2 periods (4.6 million) | an active advance owes something, a repaid one stays repaid and a cancelled run recovers nothing (`StaysSettled`); while `alone`, a repaid advance owes nothing, no more is recovered than the runs withheld, one run a month (`RunsAlone`), completed runs stay |
| `invoicing` | 2 threads, 2 companies, 2 years, 3 invoices (2.8 million) | numbers unique, paid is dated, allocations hold disjoint locks (`InvoicesSound`), every invoice audited unless a restart cut its handler off; while `alone`, numbers grow, paid is never voided, void never paid (`InvoicesSettle`) |
| `editors` | 2 calls; 2 templates, 3 sections of 3 fields; 1 user and company in the user forms, 3 companies; 2 logins and accounts; 2 streams | sections are paired two by two and each is previewed once, no template gets another's layout (`BuilderSound`); a drag moves what was dragged (`SteadyDragMovesShown`); a review step is complete, no company is saved as another (`FormsAreTrue`); no button has two calls under way (`OneCallEach`); forms end up with what the server keeps (`ShowsServer`) |
| `shell` | 2 tabs, 2 users of whom 1 is a master; 4 roles over all paths; 2 notifications, 2 vehicles with 2 positions, 2 calls; 1 employee, 2 threads, threshold 2 (320,000) | links lead to pages that are shown, redirections end (`LinksAdmit`); a new password is asked for until it is set (`SessionsAreTrue`); read marks and sockets are true (`CopiesAreTrue`); events follow pings and stay bounded (`EpisodesSound`); and four things that come true in the end, below |
| `screens` | 2 rows, 2 calls; 2 filters, 2 versions; 2 employees before 2 cameras; 1 supervisor, 1 worker, 2 companies with a site each, 2 minutes; 2 vehicles and drivers; 2 threads (2.1 million) | pages show what the server has for what is chosen, pagers reach every page, dialogs ask about their row (`ShowsCurrent`); buttons are disabled just while they must be and the clocking page always has a way on (`ButtonsWork`); scans keep their gap and their company (`ScansSound`); a vehicle's two records agree (`VehiclesMatch`) |

The slices of `shell` have between 400 (routes) and 120,000 (map) states, geofence 58,000.

Why the bounds are enough. The properties of the backend speak of at most two rows and two
handlers, so two of each show a bad interleaving if there is one (a third payroll run lets
a stale balance be written after a repayment; a third invoice lets a number be freed
between two others; a third row id lets a worker's row be deleted and made again while a
scan holds the first). Two times of a day tell a changed time from an unchanged one. The
constraints that carry the concurrent properties are per employee, company or year, so
more of those add no conflict. In the client two calls of one page cross in every way, and
what a page shows belongs to one of two filters, rows, templates or targets; a third adds
another place to be wrong but no other way. A threshold of two tells the last outside ping
from the streak, and two threads let two streaks be found at once. Beyond the bounds there
are the theorems. Each property has a mutant in `PROJECT.json`, a plausible bug in one
definition, under which the same run finds it violated.

### Fairness and what comes true

A handler of the backend promises no progress: a restart may cut it off, and a client need
not come back. Where the code keeps itself up to date it does, and `MCShell` states it:

* `IdleLocks`: a session whose user has left is locked or over in the end. Weak fairness of
  each tab's inactivity timer and of the answers to its form; the browser runs timers.
* `BadgeSettles`: if polls go on being answered, the badge becomes the number of the
  unread. Weak fairness of the 30-second interval and of answering or giving up, which
  axios does after ten seconds.
* `MapHeals`: once vehicles stand still, the map comes to show the server's positions,
  whatever sockets were dropped and answers came late. Weak fairness of the 25-second interval; strong fairness of
  serving and of answering, that is, not every single poll is lost. Strong, because each
  lost call disables the step until the next poll.
* `EpisodesSettle`: once an employee stays where he or she is and handlers end only as they
  would anyway, an exit event is open just while the employee is outside, whatever
  overlapped and was cut off before. Weak fairness of the phone's report once a minute
  (`mobile`'s location service, as the backend relies on it) and of the server going on.
* `ManualBlinkSeen` has `AttendanceEntry!FairSpec`: the two intervals of the check go on
  (weak fairness), and whoever stands before the camera blinks for some check that is sent
  (strong fairness). It is violated, see below: not for want of a blink.

### What the code does other than it says

| Run | The code |
|---|---|
| `run_pays_beyond_month` | a run pays every day worked, a payslip stops at a full month, though the comment says "the same basis payslips use" |
| `seat_limit_race` | two creations take the same last seat |
| `number_allocated_twice` | a generation that waited for the lock computes the number just taken and fails on the unique constraint |
| `manual_blink` | on the manual tab no frame is drawn, since its canvas is rendered in the other tab only: a blink is never seen and Capture stays disabled |

The same pattern as in `seat_limit_race`, a check on a copy and a later unconditional
commit, makes every property under `alone` fail without it: two clock-outs of one record,
an edit and a clock-out that overlap (hours of other times), two runs for a month, a
completed run deleted, a balance written back, a paid invoice voided, a vehicle given to
two drivers, a site set on a supervisor who is being demoted. These are stated where they
hold rather than as runs of their own. A restart between the two commits of a generation
leaves an invoice without an audit row.

## 5. What is proved

TLAPS checks every leaf of the following for every value of the constants under the named
assumptions of the modules: bounds are naturals, shifts and kinds have the types of the
configuration, amounts and months are positive as the request schemas demand, rates, days
and prices are not negative and a billing period is not empty, a site and a worker have a
company, the geofence's threshold is positive and its threads finitely many; in the client
notes, vehicles, rows and page sizes are finitely many, page sizes positive, one search
finds everything, masters are users, and the layout that a template starts from has known
types and room within the bounds. `None` is no row, ping, request, answer, filter, instant
or employee. TLC evaluates each of these on the instances it runs.

The theorems of a module follow from one inductive invariant: Init establishes it, every
action keeps it (one lemma per action or group of actions), and the property follows from
it; action properties use it at each step.

| Module | Theorems | What the invariant adds, and why |
|---|---|---|
| `AttendanceProofs` | `TypeCorrect`, `RecordsStaySound` (`OneRecord`, `HoursIffExitTime`, `NoOrphans`), `NothingUndone`; `Refinement` | ids not handed out hold no row; an update in flight is a copy of a record of the same employee, hours and exit agree in the copy as read and as computed, and a copy of a closed record is of a record still closed. Without the last, a stale copy could reopen a record. `Merge` keeps hours and exit together because each writer changes both or neither. With this every commit is a step of `DayLifecycle` or none |
| | `HoursFollowTimes`, `ClockedOutOnce` | while `alone`, the row that an update in flight copied is still there and as it was read (open, if it is a clock-out's), so the row it writes is the one it computed, hours and times together |
| `LicensingProofs` | `TypeCorrect`, `SubscriptionsStaySound` (`OneCurrent`, `LicensesWellPlaced`) | inductive as they stand: the index is tested in the committing step, whatever the request had read |
| | `AddedWithRoom` | while `alone`, the room that a creation found at its check is still there at its insert. The seats of a pool are the cardinality of a finite set, so adding them up needs no recursion |
| `PayrollProofs` | `TypeCorrect`, `ActiveAdvancesOwe`, `NeverCollectedAgain` | a copy in flight was active with something left and has the amount of its row, if the row is there. An active result therefore comes only with a positive balance, whichever finalize wrote which column |
| | `SoundAlone`, `CompletedKept` | while `alone`, the run that a finalize in flight read is there and a draft, and its copies of advances are the rows; a run about to be created is the only one of its month, one about to be cancelled is not completed. So what an advance has paid back is at most its deduction times the completed runs that withheld, which are counted and only grow |
| `InvoicingProofs` | `TypeCorrect`, `LedgerSound` (`NumbersStayUnique`, `PaidHasDate`, `OneAllocator`) | fresh ids are empty, numbers lie below the id sequence and allocated ones at most at it: so the largest number plus one exists within the bound and CHOOSE is defined. Uniqueness is the constraint's at insert; exclusion is the wait for the locks |
| | `InvoicesAudited`, `SettledAlone` | `EveryInvoiceAudited` is kept as it stands: an invoice without its audit row has a handler that is to write it. While `alone`, a generation has seen all invoices of its year, the number in hand is above theirs, and an invoice about to be paid is not void nor one about to be voided paid |
| `ShellProofs` (of `MCShell`) | `ShellTyped`, `LinksAlwaysAdmit`, `SessionsStayTrue`, `CopiesStayTrue`, `EpisodesStaySound` | one invariant per slice. Session: until an administrator resets a password, no copy of a session (stored, in a tab, or in a password's call that was served) stops asking for one that the server still asks for. Routes: every link and every landing of every role, case by case. Bell: of the list and of an answer under way, what is marked as read is so at the server, and so is what a served call was to mark. Map: a page has one socket a vehicle and, until as many left as came, of its own vehicles. Alerts, while pings are handled alone and whole: what each stage of the one ping in hand knows of the last pings and of the open event, and between pings that there is an event, announced, when the streak is full and none when the last ping came from inside |
| | `EpisodesTyped`, `EpisodesStayBounded`, `OneAtATime` (of `Geofence` itself) | the open events of an employee **and** the threads that have found none and not yet opened one are together at most the threads. Nothing in the database forbids a second open event, so the count of events alone is not inductive; a thread can only come to decide while no event is open. With one thread there is at most one event |
| `ScreensProofs` (of `MCScreens`) | `ScreensTyped` | what each call, dialog and timer in flight can be: above all, that it is about a row, filter or employee that is there, and that a check of the blink belongs to a detection that began |
| | `ScreensShowCurrent` | while `calm`, at most one call is under way, and what it has been served is still so and for what is chosen. The view that cancels needs no `calm`: of its calls at most one is not cancelled, and it is for the filter. The pager is proved for any number of pages, not the twelve of the run: the buttons are laid out explicitly (first, mark, middle, mark, last) and compared position by position. The rows of a page are the sorted ones, which needs that each rank of a finite set is taken (`Ranked`), by its least counterexample |
| | `ButtonsAlwaysWork` | a page that holds busy until its list is back has one call that holds it, so what an action under way was offered on is what the server has. At the cameras: a camera asked for is the one of the open tab and does not run; one that runs is open in the page; a scan and its result, and either and the camera, exclude each other; the step of the manual tab says whether its camera is open |
| | `ScansInductive`, `ScansTyped`, `ScansStayApart`, `MarkedSitesOwn` (of `PhysicalAttendance` itself) | every scan in flight is sound (`ScanSound`): its site is of the worker's company, its time lies the minimum gap after the entry it read, and if that row is still there its entry is the one read. Rows are found again by id, and an id is not handed out while a scan holds it, so a row deleted and made anew is never closed by an old scan. Sites of supervisors need not be sound for this, since `GetSite` compares the companies again |
| | `ScansAreSound`, `FleetAgrees` | that invariant holds behind the pages too; while `alone`, the copy that an edit of a supervisor holds is the row, and an assignment or release in flight has read a status and drivers that still are so |
| `EditorsProofs` (of `MCEditors`) | `EditorsTyped`, `FormsStayTrue`, `CallsOfAButton` | one invariant per page, of its state and of every call under way. Companies: the form that is open, and the one a save carries, are of its target. Users: the step shown has the complete ones before it (`StepsBehind`). Employee and profile: a flag is up while a call of its kind is under way, and there is one (`Flagged`, `OneFlag`), though in the profile several buttons share a flag; whom a call is about is still an employee of the server (`InStaff`) |
| | `FormsShowServer` | while `alone`, what a form holds that was not typed since is what the server holds, or what the one call under way will make of it (`FormKept`, `PageTrue`): a served save is in the form it came from, and the page's user, the session and each form differ from the server's only where that call is `Behind` |
| | `LayoutsAreSound` | of the canvas **and** of the copy the list holds (`Sound`): ids differ and are not above the last one handed out, nor are groups, and a group has at most two sections. The list's copy must be in it: edits of objects that both share reach it, and picking the template again takes it over. Of templates, while `alone`: one call is under way that the user waits for, and what it saves is the selected one (`OneTemplate`). The preview is the loop that skips what it has placed, as a function on prefixes: up to each section, the rows hold just what is on so far and the mates of that, each once, with both of a group in one row (`Laid`, `Closed`). What an `Array.sort` returns is defined by ranks, and that every rank is taken needs the least element of an order on a finite set |
| | `DragsMoveWhatIsShown` | array positions and `order` agree (`InPlace`) in the canvas unless `steady` is off, and in the list's copy until a drag: so the drop index of the sorted canvas is the splice's |
| `ArithmeticProofs` (of `MCArithmetic`) | `HoursOfEveryDay` | the inductive invariant only says of what type the inputs are: any integers for entry and exit, not those near a break that the run takes. The minutes worked are an interval less an interval, and the length of their intersection is `BreakOverlap`; rounding is bounded from both sides (`Rounded`) |
| | `MoneyAlwaysAddsUp` | structures and subscriptions of any length. After `k` components the first pass has the basic pay and the first `k` earnings for gross, the breakdowns list each name once and every deduction with its amount (`FirstHolds`); after `k` of the second, whatever is of the gross and comes later is still listed with 0, so replacing it adds all of its amount (`SecondHolds`). Names must differ: of two components of one name the dict keeps the later. A licence has a line just if it was granted before the period's end and not revoked before its start, and then the later of grant and start is an instant at which it was active |

The proofs also say what the model checker could not have told: `RunsAlone`, `VehiclesMatch`,
`EpisodesSound` and the like hold *because* of `alone`, `whole`, `calm` or `orderly` and of
nothing about the instance, with any number of threads, rows and calls.

Induction over data is not available to the provers as a rule that takes a predicate, so
`ArithmeticProofs` and `EditorsProofs` use it for a set: numbers that include 0 and with
each its successor are all (`UpTo`, by the least one missing). In the same way they show
that a recursive function on `0 .. n` exists (`Recursion`), which a definition by CHOOSE
does not say of itself.

Only model-checked: the violations, and whatever must come true in the end. Liveness under
fairness and ENABLED are outside what the prover does, so `IdleLocks`, `BadgeSettles`,
`MapHeals` and `EpisodesSettle` hold on the instance of `shell` and are not theorems.

## 6. Not modelled, and why

* **Tracking, the GT06 gateway, provider calls, jobs** are in the plan (9, 10). What a
  viewer makes of the positions is `LiveMap`.
* **Payslip rows, roles, employee codes, locations and holidays** are single-row edits and
  one upsert (11); a location that is deactivated or deleted is in `PhysicalAttendance`.
* **Push, e-mail, SMS, KYC, IFSC, face recognition, storage, the licence client** are calls
  of outside systems: what they return is a nondeterministic choice where it matters.
* **Pages** that only read and draw, or fill fields and save one row: pagination and print
  layouts, the vehicle form, subscription list and info, work locations, integrations,
  company and payroll settings, the job form, the master's dashboard, the view of one
  invoice, the seat widget, system information. `pages/settings/Settings.tsx` is on no route.
* **The mobile apps** are screens and a location service beside the web client; the phone's
  reports are in `Geofence`.
* Tenant and role checks of the backend refuse a request and change nothing; every action
  is available to some caller whom they let through. Formatting and layout are left out.

Met while reading, and not stated as properties:

* Reset to Default in the payslip builder makes six updates from one captured style, of
  which React keeps the last.
* A change of role or of company asks licensing for no seat, and revoking the last licence
  makes every business request of a company fail, where the product's README promises that
  existing users are never locked out.
* A ping from outside on the evening before counts towards the streak of the morning; an
  event open at clock-out stays open, and no alert is raised for the next absence until a
  ping from inside closed it; a crash between storing an event and telling the supervisors
  loses the alert (`whole` leaves that out, `EpisodesSettle` does not need it).
* A worker who clocks in before midnight and is scanned after it is clocked in again, since
  the scan looks for the row of the day.
* Deleting an employee who drives leaves the vehicle "assigned" to nobody (`TakenIsDriven`
  is about the vehicles of drivers who are there).
