-------------------------------- MODULE MCShell --------------------------------
(***************************************************************************)
(* What goes on around the pages of the web client, for TLC: the session   *)
(* that the tabs share, the router, the bell of the top bar and the live   *)
(* map, which keep themselves up to date; and the alerts about employees   *)
(* who leave their site, which their phones keep up to date.  One of them  *)
(* is looked at, at is its name, and only its variables change.            *)
(***************************************************************************)
EXTENDS Session, GeofenceParameters

CONSTANTS Notes, Vehicles, Calls, MaxAt

VARIABLES
  at,
  who, page,                                            \* the router
  arrived, unread, count, open, loading, items,         \* the bell
  fleet, vehicles, socketsRef, alive, updates,          \* the live map
  working, assigned, away, pings, events, request,      \* the alerts
  reset,    \* whether an administrator gave a user another password
  crossed,  \* whether a notification arrived while all were being read
  swapped,  \* whether vehicles left the map as others came to it
  whole     \* whether each ping was handled alone, and to its end

R == INSTANCE Routes
B == INSTANCE Bell
V == INSTANCE LiveMap
G == INSTANCE Geofence

ASSUME AssumptionsOfShell == B!BellAssumption /\ V!LiveMapAssumption

sessionVars == <<stored, storedLock, tab, watch, must>>
routeVars == <<who, page>>
bellVars == <<arrived, unread, count, open, loading, items>>
mapVars == <<fleet, vehicles, socketsRef, alive, updates>>
siteVars == <<working, assigned, away, pings, events, request, whole>>
everything == <<sessionVars, routeVars, bellVars, mapVars, siteVars, call, at, reset, crossed,
                swapped>>

NoSession == stored = None /\ storedLock = None /\ tab = None /\ watch = None /\ must = None
NoRoutes == who = None /\ page = None
NoBell == /\ arrived = None /\ unread = None /\ count = None
          /\ open = None /\ loading = None /\ items = None
NoMap == /\ fleet = None /\ vehicles = None /\ socketsRef = None
         /\ alive = None /\ updates = None
NoSite == /\ working = None /\ assigned = None /\ away = None
          /\ pings = None /\ events = None /\ request = None

-----------------------------------------------------------------------------
\* The session is looked at twice: used by all users, who never leave, and by one
\* who does.
Uses == {"used", "idle"}
One == {CHOOSE u \in Users : TRUE}
Works == {u \in Users : at = "idle" => u \in One}

MCInit ==
  /\ reset = FALSE /\ crossed = FALSE /\ swapped = FALSE /\ whole = TRUE
  /\ \/ at \in Uses /\ Init /\ must \subseteq Works /\ NoRoutes /\ NoBell /\ NoMap /\ NoSite
     \/ at = "routes" /\ R!Init /\ call = None /\ NoSession /\ NoBell /\ NoMap /\ NoSite
     \/ at = "bell" /\ B!Init /\ NoSession /\ NoRoutes /\ NoMap /\ NoSite
     \/ at = "map" /\ V!Init /\ NoSession /\ NoRoutes /\ NoBell /\ NoSite
     \/ /\ at = "site" /\ G!Init /\ call = None
        /\ NoSession /\ NoRoutes /\ NoBell /\ NoMap

SessionNext ==
  /\ at \in Uses
  /\ \/ /\ \E t \in Tabs :
           \/ at = "idle" /\ (Leave(t) \/ Return(t) \/ Timer(t))
           \/ \E u \in Works : SubmitLogin(t, u)
           \/ \E c \in Companies \cup {All} : SwitchCompany(t, c)
           \/ Reload(t) \/ Lock(t) \/ Logout(t) \/ Request(t)
           \/ SubmitUnlock(t) \/ SubmitPassword(t) \/ ServePassword(t) \/ Answers(t)
        /\ UNCHANGED reset
     \/ (\E u \in Works : ResetPassword(u)) /\ reset' = TRUE
  /\ UNCHANGED <<routeVars, bellVars, mapVars, siteVars, crossed, swapped>>

RoutesNext ==
  /\ at = "routes" /\ R!Next
  /\ UNCHANGED <<sessionVars, bellVars, mapVars, siteVars, call, reset, crossed, swapped>>

Crossing == \E q \in Calls : call[q].op = "readall"

BellNext ==
  /\ at = "bell" /\ B!Next
  /\ crossed' = (crossed \/ (arrived' # arrived /\ Crossing))
  /\ UNCHANGED <<sessionVars, routeVars, mapVars, siteVars, reset, swapped>>

Swapping ==
  /\ V!Listed(vehicles') # V!Listed(vehicles)
  /\ socketsRef' = socketsRef

MapNext ==
  /\ at = "map" /\ V!Next
  /\ swapped' = (swapped \/ Swapping)
  /\ UNCHANGED <<sessionVars, routeVars, bellVars, siteVars, reset, crossed>>

\* Employees clock in and out, and get or lose a site, while no ping is handled.
NoPing == \A r \in Requests : request[r] = None

SiteNext ==
  /\ at = "site"
  /\ \/ /\ \/ NoPing /\ \E e \in Employees : G!Clock(e) \/ G!Assign(e)
           \/ \E e \in Employees : G!Move(e) \/ G!PurgeOldPings(e)
           \/ G!NewDay \/ \E r \in Requests : G!Goes(r)
        /\ UNCHANGED whole
     \/ (\E r \in Requests : G!Fail(r)) /\ whole' = FALSE
     \/ \E r \in Requests, e \in Employees : G!Report(r, e) /\ whole' = (whole /\ NoPing)
  /\ UNCHANGED <<sessionVars, routeVars, bellVars, mapVars, call, reset, crossed, swapped>>

MCNext ==
  /\ SessionNext \/ RoutesNext \/ BellNext \/ MapNext \/ SiteNext
  /\ UNCHANGED at

\* Timers go off and intervals go on by themselves; a call is answered or given
\* up after ten seconds; and of the calls of the map not every one is lost.  The
\* phone of whoever is clocked in reports once a minute, and the server goes on.
Fairness ==
  /\ \A t \in Tabs : /\ WF_vars(at = "idle" /\ Timer(t))
                     /\ WF_vars(at = "idle" /\ Answers(t))
  /\ \A q \in Calls : /\ WF_(B!vars)(at = "bell" /\ B!Poll(q))
                      /\ WF_(B!vars)(at = "bell" /\ (B!Answer(q) \/ B!Fail(q)))
  /\ WF_(V!vars)(at = "map" /\ V!Load)
  /\ SF_(V!vars)(at = "map" /\ \E q \in Calls : V!Serve(q))
  /\ SF_(V!vars)(at = "map" /\ \E q \in Calls : V!Answer(q))
  /\ \A e \in Employees : WF_(G!vars)(at = "site" /\ \E r \in Requests : G!Report(r, e))
  /\ WF_(G!vars)(at = "site" /\ \E r \in Requests : G!Goes(r))

MCSpec == MCInit /\ [][MCNext]_everything /\ Fairness

-----------------------------------------------------------------------------
\* The component that is looked at keeps its type invariant.
TypesOK ==
  /\ at \in Uses => TypeOK
  /\ at = "routes" => R!TypeOK
  /\ at = "bell" => B!TypeOK
  /\ at = "map" => V!TypeOK
  /\ at = "site" => G!TypeOK

\* Unless an administrator resets a password meanwhile, no tab's session stops
\* asking for a new one before the server has it (SetPassword.tsx:41); and the page
\* that a new session is sent to is one that it is shown.
SessionsAreTrue ==
  [][/\ at \in Uses /\ ~reset' => AsksUntilSet
     /\ at = "routes" => R!HomeAdmits]_everything

\* A session whose user has left is locked or over in the end, unless another tab
\* has ended it (AuthContext.tsx:72).
IdleLocks ==
  \A t \in Tabs : at = "idle" /\ LeftAlone(t) ~> at = "idle" /\ Guarded(t)

\* Links, the login and the first password lead to pages that are shown to whom
\* they are offered, and redirections never go round (App.tsx, Sidebar.tsx).
LinksAdmit == at = "routes" => R!LinksAdmit /\ R!RedirectsEnd

\* Once notifications stop arriving the badge settles at the number of the unread,
\* if polls go on being answered (NotificationBell.tsx:20): however often one was
\* clicked, and however late those calls were answered.
BadgeSettles ==
  []<><<at = "bell" /\ B!PollAnswered>>_everything => <>[](at = "bell" => B!BadgeTrue)

\* Once the world stands still, the page comes to show it and goes on showing it:
\* "a dropped socket or a missed cross-process broadcast self-heals"
\* (LiveTracking.tsx:55).
MapHeals ==
  <>[][~(at = "map" /\ V!World)]_everything => <>[](at = "map" => vehicles = fleet)

\* Once an employee's world stands still and handlers only end as they would anyway,
\* an exit event comes to be open exactly while the employee is outside of the site,
\* whatever overlapped and failed before: "returned_at is NULL while the employee is
\* still outside" (models/geofence.py:29).
EpisodesSettle ==
  <>[][at = "site" /\ G!World => \E r \in Requests : G!Goes(r)]_everything
    => <>[](at = "site" => G!EventsTrue)

\* There are never more open events of an employee than pings that are handled at a
\* time; and if pings are handled alone, what is open follows from the pings that
\* are stored, and has been announced (geofence_service.py:206).
EpisodesSound ==
  at = "site" => G!EpisodesBounded /\ (whole => G!EventsFollowPings)

\* The list never shows a notification as read that is not, unless it came while
\* all were being marked; each vehicle of the map has its socket, and none has two.
CopiesAreTrue ==
  /\ at = "bell" /\ ~crossed => B!ReadIsRead
  /\ at = "map" => V!SocketsCounted /\ (~swapped => V!Subscribed)
=============================================================================
