-------------------------------- MODULE Routes -------------------------------
(***************************************************************************)
(* The router of the web client (frontend/src/App.tsx): which page a       *)
(* session is shown, where it is sent instead, and the links it is offered *)
(* (components/Sidebar.tsx, Navbar.tsx, pages/landing, auth/Login.tsx,     *)
(* auth/SetPassword.tsx).  One visitor; a page with a parameter is one.    *)
(***************************************************************************)
CONSTANT None

VARIABLES
  who,    \* the session: None, or [role, must]: must set a password first
  page    \* the path in the address bar

vars == <<who, page>>

Roles == {"master", "admin", "supervisor", "worker"}
Sessions == [role : Roles, must : BOOLEAN] \cup {None}

Open == {"/", "/login", "/set-password"}

MasterPages ==
  {"/master", "/companies", "/companies/:id", "/master/subscriptions",
   "/master/subscriptions/:id", "/master/invoices", "/integrations/providers",
   "/integrations/company/:companyId"}

OwnerPages == {"/subscription"}

OfficePages ==
  {"/master/invoices/:id", "/audit-logs", "/integrations", "/integrations/company",
   "/employees/:id/edit", "/workforce/physical-attendance",
   "/payslips", "/payslips/:employeeId/:year/:month", "/users",
   "/jobs", "/jobs/new", "/jobs/:id/edit",
   "/payroll/structures", "/payroll/runs", "/payroll/runs/:id", "/payroll/advances",
   "/payroll/settings", "/payroll/templates",
   "/vehicles/new", "/vehicles/:id/edit", "/company-settings", "/roles-permissions"}

FieldPages ==
  {"/employees", "/employees/new", "/work-locations", "/dashboard", "/attendance/report",
   "/vehicles", "/tracking/assign", "/tracking/live", "/tracking/alerts"}

SharedPages == {"/attendance", "/profile"}

Guarded == MasterPages \cup OwnerPages \cup OfficePages \cup FieldPages \cup SharedPages

Admitted ==
  [p \in Guarded |-> CASE p \in MasterPages -> {"master"}
                       [] p \in OwnerPages  -> {"admin"}
                       [] p \in OfficePages -> {"master", "admin"}
                       [] p \in FieldPages  -> {"master", "admin", "supervisor"}
                       [] p \in SharedPages -> Roles]

Unknown == "/no-such-page"
Paths == Open \cup Guarded \cup {"/settings", Unknown}

-----------------------------------------------------------------------------
Forced(s) == s # None /\ s.must

\* Where a guarded page sends who may not see it; itself otherwise.
RequireAuth(s, p) ==
  CASE s = None  -> "/login"
    [] Forced(s) -> "/set-password"
    [] OTHER     -> IF s.role \in Admitted[p] THEN p ELSE "/attendance"

\* The element of the route: a page, or a redirection to another path.
Route(s, p) ==
  CASE p = "/login"        -> IF s = None THEN p
                              ELSE IF Forced(s) THEN "/set-password" ELSE "/dashboard"
    [] p = "/set-password" -> IF s = None THEN "/login" ELSE p
    [] p = "/"             -> p
    [] p \in Guarded       -> RequireAuth(s, p)
    [] p = "/settings"     -> "/profile"
    [] OTHER               -> "/"

Shows == Route(who, page) = page

\* The sections of the side menu that name a role.
Sidebar(role) ==
  {p \in MasterPages \ {"/companies/:id", "/master/subscriptions/:id",
                        "/integrations/company/:companyId"} : role = "master"}
  \cup {p \in {"/roles-permissions", "/audit-logs"} : role = "master"}
  \cup {p \in {"/subscription"} : role = "admin"}
  \cup {p \in {"/payslips", "/payroll/runs", "/payroll/structures", "/payroll/advances",
               "/payroll/templates", "/payroll/settings", "/integrations",
               "/integrations/company", "/workforce/physical-attendance", "/users", "/jobs",
               "/company-settings", "/roles-permissions"} : role \in {"master", "admin"}}
  \cup {p \in FieldPages \ {"/employees/new"} : role # "worker"}
  \cup SharedPages

\* Mutant: everybody starts at the dashboard.
DashboardOf(role) == "/dashboard"

Home(role) == IF role = "worker" THEN "/attendance" ELSE "/dashboard"

\* Guarded pages stand in the layout, which has the side menu and the top bar.
Links ==
  CASE page = "/" /\ who = None -> {"/login"}
    [] page = "/" /\ who # None -> {Home(who.role)}
    [] page \in Guarded         -> Sidebar(who.role)
    [] OTHER                    -> {}

-----------------------------------------------------------------------------
Init == who \in Sessions /\ page \in Paths

Redirect == ~Shows /\ page' = Route(who, page) /\ UNCHANGED who

Follow == Shows /\ page' \in Links /\ UNCHANGED who

\* The gear of the top bar and the brand of the side menu.
Bar ==
  /\ Shows /\ page \in Guarded
  /\ page' \in {"/settings", "/dashboard"}
  /\ UNCHANGED who

Login(s) ==
  /\ Shows /\ page = "/login"
  /\ who' = s
  /\ page' = IF s.must THEN "/set-password" ELSE Home(s.role)

SetPassword ==
  /\ Shows /\ page = "/set-password"
  /\ who' = [who EXCEPT !.must = FALSE]
  /\ page' = Home(who.role)

Logout ==
  /\ Shows /\ page \in Guarded
  /\ who' = None
  /\ page' = "/login"

Next ==
  \/ Redirect \/ Follow \/ Bar \/ SetPassword \/ Logout
  \/ \E s \in Sessions \ {None} : Login(s)

Spec == Init /\ [][Next]_vars

-----------------------------------------------------------------------------
\* Sessions and paths of the application.
TypeOK == who \in Sessions /\ page \in Paths

\* Where the redirections lead: no session ever follows more than three of them.
Landing(s, p) == Route(s, Route(s, Route(s, p)))

\* Every chain of redirections ends at a page: the guards, the roles' default
\* page and the login page never send a session round in a circle.
RedirectsEnd == Route(who, Landing(who, page)) = Landing(who, page)

\* A link that is offered leads to its page: the side menu's table of roles
\* (Sidebar.tsx) agrees with the routes' (App.tsx), and so do the home pages.
\* Who must still set a password is sent to that page first.
LinksAdmit == Shows /\ ~Forced(who) => \A p \in Links : Route(who, p) = p

\* Login and the new password lead to a page that is shown, never to a second
\* redirection.
HomeAdmits == who' # who /\ who' # None => Route(who', page') = page'
=============================================================================
