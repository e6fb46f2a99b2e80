------------------------------ MODULE ShellProofs ------------------------------
(***************************************************************************)
(* Proofs about MCShell.                                                   *)
(***************************************************************************)
EXTENDS MCShell, FiniteSetTheorems, SequenceTheorems, TLAPS

-----------------------------------------------------------------------------
(***************************************************************************)
(* The router.                                                             *)
(***************************************************************************)
\* The paths that the router names itself, and whom it shows them to.
LEMMA NamedPaths ==
  /\ {"/", "/login", "/set-password", "/settings", "/no-such-page"} \cap R!Guarded = {}
  /\ {"/dashboard", "/attendance", "/profile"} \subseteq R!Guarded
  /\ R!Admitted["/dashboard"] = {"master", "admin", "supervisor"}
  /\ R!Admitted["/attendance"] = R!Roles
  /\ R!Admitted["/profile"] = R!Roles
<1>1. \A p \in {"/dashboard", "/attendance", "/profile"} :
        /\ p \in R!Guarded
        /\ p \in R!FieldPages <=> p = "/dashboard"
        /\ p \in R!SharedPages <=> p # "/dashboard"
        /\ p \notin R!MasterPages /\ p \notin R!OwnerPages /\ p \notin R!OfficePages
  BY DEF R!Guarded, R!MasterPages, R!OwnerPages, R!OfficePages, R!FieldPages, R!SharedPages
<1>2. {"/", "/login", "/set-password", "/settings", "/no-such-page"} \cap R!Guarded = {}
  BY DEF R!Guarded, R!MasterPages, R!OwnerPages, R!OfficePages, R!FieldPages, R!SharedPages
<1>3. QED
  BY <1>1, <1>2 DEF R!Admitted

\* The side menu's table of roles agrees with the routes'.
LEMMA SidebarAdmits ==
  ASSUME NEW role \in R!Roles, NEW p \in R!Sidebar(role)
  PROVE  p \in R!Guarded /\ role \in R!Admitted[p]
<1>1. CASE p \in R!MasterPages /\ role = "master"
  <2>1. p \in R!Guarded
    BY <1>1 DEF R!Guarded
  <2>2. /\ p \notin R!OwnerPages /\ p \notin R!OfficePages
        /\ p \notin R!FieldPages /\ p \notin R!SharedPages
    BY <1>1 DEF R!MasterPages, R!OwnerPages, R!OfficePages, R!FieldPages, R!SharedPages
  <2>3. R!Admitted[p] = {"master"}
    BY <1>1, <2>1, <2>2 DEF R!Admitted
  <2>4. QED
    BY <1>1, <2>1, <2>3
<1>2. CASE p \in {"/roles-permissions", "/audit-logs"} /\ role = "master"
  <2>1. p \in R!OfficePages /\ p \notin R!MasterPages /\ p \notin R!OwnerPages
    BY <1>2 DEF R!MasterPages, R!OwnerPages, R!OfficePages
  <2>2. QED
    BY <1>2, <2>1 DEF R!Guarded, R!Admitted
<1>3. CASE p = "/subscription" /\ role = "admin"
  <2>1. p \in R!OwnerPages /\ p \notin R!MasterPages
    BY <1>3 DEF R!MasterPages, R!OwnerPages
  <2>2. QED
    BY <1>3, <2>1 DEF R!Guarded, R!Admitted
<1>4. CASE /\ p \in {"/payslips", "/payroll/runs", "/payroll/structures", "/payroll/advances",
                     "/payroll/templates", "/payroll/settings", "/integrations",
                     "/integrations/company", "/workforce/physical-attendance", "/users",
                     "/jobs", "/company-settings", "/roles-permissions"}
           /\ role \in {"master", "admin"}
  <2>1. p \in R!OfficePages /\ p \notin R!MasterPages /\ p \notin R!OwnerPages
    BY <1>4 DEF R!MasterPages, R!OwnerPages, R!OfficePages
  <2>2. QED
    BY <1>4, <2>1 DEF R!Guarded, R!Admitted
<1>5. CASE p \in R!FieldPages /\ role # "worker"
  <2>1. p \notin R!MasterPages /\ p \notin R!OwnerPages /\ p \notin R!OfficePages
    BY <1>5 DEF R!MasterPages, R!OwnerPages, R!OfficePages, R!FieldPages
  <2>2. QED
    BY <1>5, <2>1 DEF R!Guarded, R!Admitted, R!Roles
<1>6. CASE p \in R!SharedPages
  BY <1>6, NamedPaths DEF R!SharedPages
<1>7. QED
  BY <1>1, <1>2, <1>3, <1>4, <1>5, <1>6 DEF R!Sidebar

\* What a session is shown instead of a path, case by case.
LEMMA RouteCases ==
  ASSUME NEW s \in R!Sessions, NEW p \in R!Paths
  PROVE  /\ p \in R!Guarded => R!Route(s, p) = R!RequireAuth(s, p)
         /\ p = "/" => R!Route(s, p) = p
         /\ p = "/settings" => R!Route(s, p) = "/profile"
         /\ p = "/no-such-page" => R!Route(s, p) = "/"
         /\ p = "/login" => R!Route(s, p) = IF s = None THEN p
                              ELSE IF R!Forced(s) THEN "/set-password" ELSE "/dashboard"
         /\ p = "/set-password" => R!Route(s, p) = IF s = None THEN "/login" ELSE p
BY NamedPaths DEF R!Route

LEMMA KnownPaths ==
  R!Paths = {"/", "/login", "/set-password", "/settings", "/no-such-page"} \cup R!Guarded
BY DEF R!Paths, R!Open, R!Unknown

\* A guarded page leads to itself or to a page that is shown.
LEMMA GuardedLeads ==
  ASSUME NEW s \in R!Sessions, NEW p \in R!Guarded
  PROVE  /\ R!Route(s, p) \in {p, "/login", "/set-password", "/attendance"}
         /\ R!Route(s, R!Route(s, p)) = R!Route(s, p)
<1>1. /\ R!Route(s, p) = R!RequireAuth(s, p)
      /\ R!Route(s, "/attendance") = R!RequireAuth(s, "/attendance")
      /\ s = None => R!Route(s, "/login") = "/login"
      /\ s # None => R!Route(s, "/set-password") = "/set-password"
  BY RouteCases, NamedPaths, KnownPaths
<1>2. CASE s = None
  BY <1>1, <1>2 DEF R!RequireAuth, R!Forced
<1>3. CASE R!Forced(s)
  BY <1>1, <1>3 DEF R!RequireAuth, R!Forced
<1>4. CASE s # None /\ ~R!Forced(s)
  <2>1. s.role \in R!Roles
    BY <1>4 DEF R!Sessions
  <2>2. R!Route(s, "/attendance") = "/attendance"
    BY <1>1, <1>4, <2>1, NamedPaths DEF R!RequireAuth
  <2>3. QED
    BY <1>1, <1>4, <2>2 DEF R!RequireAuth
<1>5. QED
  BY <1>2, <1>3, <1>4

\* After two redirections at most a session is shown a page.
LEMMA TwoHops ==
  ASSUME NEW s \in R!Sessions, NEW p \in R!Paths
  PROVE  /\ R!Route(s, p) \in R!Paths
         /\ R!Route(s, R!Route(s, R!Route(s, p))) = R!Route(s, R!Route(s, p))
<1>1. CASE p \in R!Guarded
  BY <1>1, GuardedLeads, NamedPaths, KnownPaths
<1>2. CASE p \in {"/", "/no-such-page"}
  BY <1>2, RouteCases, KnownPaths
<1>3. CASE p = "/settings"
  BY <1>3, RouteCases, GuardedLeads, NamedPaths, KnownPaths
<1>4. CASE p \in {"/login", "/set-password"}
  <2>1. CASE s = None
    BY <1>4, <2>1, RouteCases, KnownPaths
  <2>2. CASE R!Forced(s)
    BY <1>4, <2>2, RouteCases, KnownPaths DEF R!Forced
  <2>3. CASE s # None /\ ~R!Forced(s)
    BY <1>4, <2>3, RouteCases, GuardedLeads, NamedPaths, KnownPaths
  <2>4. QED
    BY <2>1, <2>2, <2>3
<1>5. QED
  BY <1>1, <1>2, <1>3, <1>4, KnownPaths

LEMMA HomeShown ==
  ASSUME NEW s \in R!Sessions \ {None}, ~R!Forced(s)
  PROVE  /\ R!Home(s.role) \in R!Guarded
         /\ R!Route(s, R!Home(s.role)) = R!Home(s.role)
<1>1. s.role \in R!Roles
  BY DEF R!Sessions
<1>2. R!Home(s.role) \in R!Guarded /\ s.role \in R!Admitted[R!Home(s.role)]
  BY <1>1, NamedPaths DEF R!Home, R!Roles
<1>3. QED
  BY <1>2, RouteCases, KnownPaths DEF R!RequireAuth

LEMMA LinkPaths ==
  ASSUME R!TypeOK, R!Shows, NEW p \in R!Links PROVE p \in R!Paths
<1>1. CASE page = "/"
  BY <1>1, NamedPaths, KnownPaths DEF R!Links, R!Home
<1>2. CASE page \in R!Guarded
  <2>1. who # None
    BY <1>2, RouteCases, NamedPaths, KnownPaths DEF R!TypeOK, R!Shows, R!RequireAuth
  <2>2. who.role \in R!Roles
    BY <2>1 DEF R!TypeOK, R!Sessions
  <2>3. p \in R!Sidebar(who.role)
    BY <1>2, NamedPaths DEF R!Links
  <2>4. QED
    BY <2>2, <2>3, SidebarAdmits, KnownPaths
<1>3. QED
  BY <1>1, <1>2 DEF R!Links

LEMMA RoutesStep ==
  ASSUME R!TypeOK, R!Next PROVE R!TypeOK' /\ R!HomeAdmits
<1>1. CASE R!Redirect
  BY <1>1, TwoHops DEF R!Redirect, R!TypeOK, R!HomeAdmits
<1>2. CASE R!Follow
  BY <1>2, LinkPaths DEF R!Follow, R!TypeOK, R!HomeAdmits
<1>3. CASE R!Bar
  BY <1>3, NamedPaths, KnownPaths DEF R!Bar, R!TypeOK, R!HomeAdmits
<1>4. ASSUME NEW s \in R!Sessions \ {None}, R!Login(s) PROVE R!TypeOK' /\ R!HomeAdmits
  <2>1. CASE R!Forced(s)
    BY <1>4, <2>1, RouteCases, KnownPaths DEF R!Login, R!Forced, R!TypeOK, R!HomeAdmits
  <2>2. CASE ~R!Forced(s)
    BY <1>4, <2>2, HomeShown, KnownPaths DEF R!Login, R!Forced, R!TypeOK, R!HomeAdmits
  <2>3. QED
    BY <2>1, <2>2
<1>5. CASE R!SetPassword
  <2>1. who # None /\ who \in R!Sessions
    BY <1>5, RouteCases, KnownPaths DEF R!SetPassword, R!Shows, R!TypeOK
  <2>2. PICK s : s = [who EXCEPT !.must = FALSE]
    OBVIOUS
  <2>3. s \in R!Sessions /\ s.role = who.role /\ ~s.must
    BY <2>1, <2>2 DEF R!Sessions
  <2>4. who' = s /\ page' = R!Home(s.role)
    BY <1>5, <2>2, <2>3 DEF R!SetPassword
  <2>5. page' \in R!Paths
    BY <2>4, NamedPaths, KnownPaths DEF R!Home
  <2>6. QED
    BY <2>3, <2>4, <2>5, HomeShown DEF R!TypeOK, R!HomeAdmits, R!Forced
<1>6. CASE R!Logout
  BY <1>6, KnownPaths DEF R!Logout, R!TypeOK, R!HomeAdmits, R!Sessions
<1>7. QED
  BY <1>1, <1>2, <1>3, <1>4, <1>5, <1>6 DEF R!Next

LEMMA LinksLead ==
  ASSUME R!TypeOK PROVE R!LinksAdmit /\ R!RedirectsEnd
<1>1. R!RedirectsEnd
  BY TwoHops DEF R!TypeOK, R!RedirectsEnd, R!Landing
<1>2. ASSUME R!Shows, ~R!Forced(who), NEW p \in R!Links PROVE R!Route(who, p) = p
  <2>1. CASE page = "/" /\ who = None
    <3>1. p = "/login"
      BY <1>2, <2>1, NamedPaths DEF R!Links
    <3>2. QED
      BY <2>1, <3>1, RouteCases, KnownPaths DEF R!TypeOK
  <2>2. CASE page = "/" /\ who # None
    <3>1. p = R!Home(who.role)
      BY <1>2, <2>2, NamedPaths DEF R!Links
    <3>2. QED
      BY <1>2, <2>2, <3>1, HomeShown DEF R!TypeOK
  <2>3. CASE page \in R!Guarded
    <3>1. who # None /\ who \in R!Sessions
      BY <1>2, <2>3, RouteCases, NamedPaths, KnownPaths DEF R!TypeOK, R!Shows, R!RequireAuth
    <3>2. p \in R!Sidebar(who.role) /\ who.role \in R!Roles
      BY <1>2, <2>3, <3>1, NamedPaths DEF R!Links, R!Sessions
    <3>3. p \in R!Guarded /\ who.role \in R!Admitted[p]
      BY <3>2, SidebarAdmits
    <3>4. QED
      BY <1>2, <3>1, <3>3, RouteCases, KnownPaths DEF R!RequireAuth
  <2>4. QED
    BY <1>2, <2>1, <2>2, <2>3 DEF R!Links
<1>3. QED
  BY <1>1, <1>2 DEF R!LinksAdmit

-----------------------------------------------------------------------------
(***************************************************************************)
(* The session.  A copy of it that asks for no new password is of a user   *)
(* who need not set one, unless an administrator has reset one since.      *)
(***************************************************************************)
Truthful(s) == s # None /\ ~s.must => s.user \notin must

Settled ==
  /\ Truthful(stored)
  /\ \A t \in Tabs : Truthful(tab[t].auth)
  /\ \A t \in Tabs : call[t].op = "password" /\ call[t].served => call[t].auth.user \notin must

SessionInv == TypeOK /\ (~reset => Settled)

LoginCall == [op : {"login"}, user : Users]
UnlockCall == [op : {"unlock"}, user : Users, right : BOOLEAN]
PasswordCall == [op : {"password"}, auth : Session, served : BOOLEAN]

LEMMA FormCalls ==
  ASSUME TypeOK, NEW t \in Tabs
  PROVE  /\ call[t] = Free \/ call[t] \in LoginCall \cup UnlockCall \cup PasswordCall
         /\ call[t].op = "login" => call[t] \in LoginCall
         /\ call[t].op = "unlock" => call[t] \in UnlockCall
         /\ call[t].op = "password" => call[t] \in PasswordCall
<1>1. call[t] = Free \/ call[t] \in LoginCall \cup UnlockCall \cup PasswordCall
  BY DEF TypeOK, LoginCall, UnlockCall, PasswordCall
<1>2. Free.op = "free"
  BY DEF Free
<1>3. QED
  BY <1>1, <1>2 DEF LoginCall, UnlockCall, PasswordCall

\* A tab's copy of the session and its lock, and its call, are replaced; the storage
\* keeps the session, gets the tab's or loses it; and nobody else has to set a password.
LEMMA CopySettled ==
  ASSUME TypeOK, NEW t \in Tabs, NEW s \in Session \cup {None}, NEW l \in BOOLEAN,
         Copy(t, s, l), End(t) \/ UNCHANGED call,
         stored' \in {stored, s, None}, storedLock' \in BOOLEAN,
         UNCHANGED <<watch, must>> \/ (UNCHANGED must /\ watch' = [watch EXCEPT ![t] = "spent"])
  PROVE  TypeOK' /\ (Settled /\ Truthful(s) => Settled')
<1>1. tab' = [tab EXCEPT ![t] = [auth |-> s, locked |-> l]]
  BY DEF Copy, Loaded
<1>2. \A p \in Tabs : tab'[p] = IF p = t THEN [auth |-> s, locked |-> l] ELSE tab[p]
  BY <1>1 DEF TypeOK
<1>3. \A p \in Tabs : call'[p] \in {call[p], Free}
  BY DEF TypeOK, End
<1>4. TypeOK'
  <2>1. tab' \in [Tabs -> [auth : Session \cup {None}, locked : BOOLEAN]]
    BY <1>1 DEF TypeOK
  <2>2. stored' \in Session \cup {None} /\ storedLock' \in BOOLEAN
    BY DEF TypeOK
  <2>3. /\ call' \in [Tabs -> {Free} \cup [op : {"login"}, user : Users]
                          \cup [op : {"unlock"}, user : Users, right : BOOLEAN]
                          \cup [op : {"password"}, auth : Session, served : BOOLEAN]]
        /\ watch' \in [Tabs -> {"reset", "runs", "spent"}]
        /\ must' \subseteq Users
    BY DEF TypeOK, End
  <2>4. QED
    BY <2>1, <2>2, <2>3 DEF TypeOK
<1>5. ASSUME Settled, Truthful(s) PROVE Settled'
  <2>1. UNCHANGED must
    OBVIOUS
  <2>2. Truthful(stored)'
    BY <1>5, <2>1 DEF Settled, Truthful
  <2>3. \A p \in Tabs : Truthful(tab[p].auth)'
    BY <1>2, <1>5, <2>1 DEF Settled, Truthful
  <2>4. Free.op = "free"
    BY DEF Free
  <2>5. \A p \in Tabs :
          (call[p].op = "password" /\ call[p].served => call[p].auth.user \notin must)'
    BY <1>3, <1>5, <2>1, <2>4 DEF Settled
  <2>6. QED
    BY <2>2, <2>3, <2>5 DEF Settled
<1>6. QED
  BY <1>4, <1>5

\* A form is submitted.
LEMMA SendSettled ==
  ASSUME TypeOK, NEW t \in Tabs, NEW c \in LoginCall \cup UnlockCall \cup PasswordCall,
         c \in PasswordCall => ~c.served,
         call' = [call EXCEPT ![t] = c],
         UNCHANGED <<stored, storedLock, tab, watch, must>>
  PROVE  TypeOK' /\ (Settled => Settled')
<1>1. TypeOK'
  BY DEF TypeOK, LoginCall, UnlockCall, PasswordCall
<1>2. \A p \in Tabs : call'[p] = IF p = t THEN c ELSE call[p]
  BY DEF TypeOK
<1>3. c.op = "password" => c \in PasswordCall
  BY DEF LoginCall, UnlockCall, PasswordCall
<1>4. QED
  BY <1>1, <1>2, <1>3 DEF Settled, Truthful

LEMMA TabSettled ==
  ASSUME TypeOK, NEW t \in Tabs,
         \/ Timer(t) \/ Reload(t) \/ Lock(t) \/ Logout(t) \/ Request(t)
         \/ \E c \in Companies \cup {All} : SwitchCompany(t, c)
  PROVE  TypeOK' /\ (Settled => Settled')
<1>1. /\ tab[t].auth \in Session \cup {None} /\ tab[t].locked \in BOOLEAN
      /\ stored \in Session \cup {None} /\ storedLock \in BOOLEAN
  BY DEF TypeOK
<1>2. PICK s, l : s = tab[t].auth /\ l = tab[t].locked
  OBVIOUS
<1>3. PICK old, oldLock : old = stored /\ oldLock = storedLock
  OBVIOUS
<1>4. Settled => Truthful(s) /\ Truthful(old) /\ Truthful(None)
  BY <1>2, <1>3 DEF Settled, Truthful
<1>5. CASE Reload(t)
  BY <1>1, <1>3, <1>4, <1>5, CopySettled DEF Reload
<1>6. CASE Timer(t)
  <2>1. CASE stored # None
    BY <1>1, <1>2, <1>4, <1>6, <2>1, CopySettled DEF Timer, lock
  <2>2. CASE stored = None
    BY <1>6, <2>2 DEF Timer, TypeOK, Settled, Truthful
  <2>3. QED
    BY <2>1, <2>2
<1>7. CASE Lock(t)
  BY <1>1, <1>2, <1>4, <1>7, CopySettled DEF Lock, lock
<1>8. CASE Logout(t)
  BY <1>4, <1>8, CopySettled DEF Logout, logout
<1>9. CASE Request(t)
  BY <1>1, <1>3, <1>4, <1>9, CopySettled DEF Request, Unauthorized
<1>10. ASSUME NEW c \in Companies \cup {All}, SwitchCompany(t, c)
       PROVE  TypeOK' /\ (Settled => Settled')
  <2>1. s \in Session
    BY <1>1, <1>2, <1>10 DEF SwitchCompany, SignedIn
  <2>2. PICK new : new = [s EXCEPT !.company = c]
    OBVIOUS
  <2>3. new \in Session /\ new.user = s.user /\ new.must = s.must
    BY <2>1, <2>2 DEF Session
  <2>4. stored' = new /\ Copy(t, new, l) /\ UNCHANGED <<storedLock, call, watch, must>>
    BY <1>2, <1>10, <2>2 DEF SwitchCompany, switchCompany
  <2>5. Settled /\ s # None => Truthful(new)
    BY <1>4, <2>3 DEF Truthful
  <2>6. s # None
    BY <1>2, <1>10 DEF SwitchCompany, SignedIn
  <2>7. QED
    BY <1>1, <1>2, <2>3, <2>4, <2>5, <2>6, CopySettled
<1>11. QED
  BY <1>5, <1>6, <1>7, <1>8, <1>9, <1>10

LEMMA FormsSettled ==
  ASSUME TypeOK, NEW t \in Tabs,
         \/ \E u \in Users : SubmitLogin(t, u)
         \/ SubmitUnlock(t) \/ SubmitPassword(t) \/ ServePassword(t)
  PROVE  TypeOK' /\ (Settled => Settled')
<1>1. ASSUME NEW u \in Users, SubmitLogin(t, u) PROVE TypeOK' /\ (Settled => Settled')
  <2>1. PICK c : c = [op |-> "login", user |-> u]
    OBVIOUS
  <2>2. c \in LoginCall /\ c \notin PasswordCall
    BY <2>1 DEF LoginCall, PasswordCall
  <2>3. QED
    BY <1>1, <2>1, <2>2, SendSettled DEF SubmitLogin, Send
<1>2. CASE SubmitUnlock(t)
  <2>1. tab[t].auth \in Session
    BY <1>2 DEF SubmitUnlock, Locked, TypeOK
  <2>2. PICK right \in BOOLEAN :
          Send(t, [op |-> "unlock", user |-> tab[t].auth.user, right |-> right])
    BY <1>2 DEF SubmitUnlock
  <2>3. PICK c : c = [op |-> "unlock", user |-> tab[t].auth.user, right |-> right]
    OBVIOUS
  <2>4. c \in UnlockCall /\ c \notin PasswordCall
    BY <2>1, <2>3 DEF UnlockCall, PasswordCall, Session
  <2>5. QED
    BY <1>2, <2>2, <2>3, <2>4, SendSettled DEF SubmitUnlock, Send
<1>3. CASE SubmitPassword(t)
  <2>1. PICK c : c = [op |-> "password", auth |-> tab[t].auth, served |-> FALSE]
    OBVIOUS
  <2>2. c \in PasswordCall /\ ~c.served
    BY <1>3, <2>1 DEF SubmitPassword, SignedIn, TypeOK, PasswordCall
  <2>3. QED
    BY <1>3, <2>1, <2>2, SendSettled DEF SubmitPassword, Send
<1>4. CASE ServePassword(t)
  <2>1. call[t] \in PasswordCall
    BY <1>4, FormCalls DEF ServePassword
  <2>2. PICK c : c = [call[t] EXCEPT !.served = TRUE]
    OBVIOUS
  <2>3. c \in PasswordCall /\ c.auth = call[t].auth
    BY <2>1, <2>2 DEF PasswordCall
  <2>4. /\ call' = [call EXCEPT ![t] = c] /\ must' = must \ {call[t].auth.user}
        /\ UNCHANGED <<stored, storedLock, tab, watch>>
    BY <1>4, <2>2 DEF ServePassword
  <2>5. TypeOK'
    BY <2>3, <2>4 DEF TypeOK, PasswordCall
  <2>6. \A p \in Tabs : call'[p] = IF p = t THEN c ELSE call[p]
    BY <2>4 DEF TypeOK
  <2>7. Settled => Settled'
    BY <2>3, <2>4, <2>6 DEF Settled, Truthful
  <2>8. QED
    BY <2>5, <2>7
<1>5. QED
  BY <1>1, <1>2, <1>3, <1>4

LEMMA AnswersSettled ==
  ASSUME TypeOK, NEW t \in Tabs, Answers(t)
  PROVE  TypeOK' /\ (Settled => Settled')
<1>1. Truthful(None) /\ None \in Session \cup {None} /\ storedLock \in BOOLEAN
  BY DEF Truthful, TypeOK
<1>2. ASSUME Unauthorized(t), UNCHANGED <<watch, must>>
      PROVE  TypeOK' /\ (Settled => Settled')
  <2>1. PICK l : l = storedLock
    OBVIOUS
  <2>2. QED
    BY <1>1, <1>2, <2>1, CopySettled DEF Unauthorized
<1>3. CASE LoginAnswer(t)
  <2>1. PICK s \in Session : s.must = (s.user \in must) /\ login(t, s)
    BY <1>3 DEF LoginAnswer
  <2>2. Truthful(s)
    BY <2>1 DEF Truthful
  <2>3. QED
    BY <1>3, <2>1, <2>2, CopySettled DEF LoginAnswer, login
<1>4. CASE LoginRefused(t)
  BY <1>2, <1>4 DEF LoginRefused
<1>5. CASE UnlockAnswer(t)
  <2>1. CASE Accepted(call[t])
    <3>1. PICK s : s = tab[t].auth
      OBVIOUS
    <3>2. s \in Session \cup {None} /\ (Settled => Truthful(s))
      BY <3>1 DEF TypeOK, Settled
    <3>3. QED
      BY <1>5, <2>1, <3>1, <3>2, CopySettled DEF UnlockAnswer, unlock
  <2>2. QED
    BY <1>2, <1>5, <2>1 DEF UnlockAnswer
<1>6. CASE PasswordAnswer(t)
  <2>1. call[t] \in PasswordCall
    BY <1>6, FormCalls DEF PasswordAnswer
  <2>2. CASE call[t].served
    <3>1. PICK s : s = [call[t].auth EXCEPT !.must = FALSE]
      OBVIOUS
    <3>2. s \in Session /\ s.user = call[t].auth.user
      BY <2>1, <3>1 DEF PasswordCall, Session
    <3>3. Settled => Truthful(s)
      BY <1>6, <2>2, <3>2 DEF Settled, Truthful, PasswordAnswer
    <3>4. QED
      BY <1>6, <2>2, <3>1, <3>2, <3>3, CopySettled DEF PasswordAnswer, login
  <2>3. QED
    BY <1>2, <1>6, <2>2 DEF PasswordAnswer
<1>7. CASE Fail(t)
  <2>1. TypeOK' /\ \A p \in Tabs : call'[p] \in {call[p], Free}
    BY <1>7 DEF Fail, End, TypeOK
  <2>2. Free.op = "free"
    BY DEF Free
  <2>3. QED
    BY <1>7, <2>1, <2>2 DEF Fail, Settled, Truthful
<1>8. QED
  BY <1>3, <1>4, <1>5, <1>6, <1>7 DEF Answers

LEMMA SessionStep ==
  ASSUME SessionInv, SessionNext PROVE SessionInv' /\ (~reset' => AsksUntilSet)
<1>1. \A u \in Works : u \in Users
  BY DEF Works
<1>2. CASE \E u \in Works : ResetPassword(u) /\ reset' = TRUE
  BY <1>1, <1>2 DEF ResetPassword, SessionInv, TypeOK
<1>3. CASE UNCHANGED reset /\ \E t \in Tabs : Leave(t) \/ Return(t)
  <2>1. PICK t \in Tabs : Leave(t) \/ Return(t)
    BY <1>3
  <2>2. UNCHANGED <<stored, storedLock, tab, call, must>>
    BY <2>1 DEF Leave, Return
  <2>3. TypeOK'
    BY <2>1, <2>2 DEF SessionInv, TypeOK, Leave, Return
  <2>4. QED
    BY <1>3, <2>2, <2>3 DEF SessionInv, Settled, Truthful, AsksUntilSet
<1>4. CASE UNCHANGED reset /\ TypeOK' /\ (Settled => Settled')
  <2>1. SessionInv'
    BY <1>4 DEF SessionInv
  <2>2. Settled' => AsksUntilSet
    BY DEF Settled, Truthful, AsksUntilSet
  <2>3. QED
    BY <1>4, <2>1, <2>2 DEF SessionInv
<1>5. QED
  BY <1>1, <1>2, <1>3, <1>4, TabSettled, FormsSettled, AnswersSettled DEF SessionNext, SessionInv

-----------------------------------------------------------------------------
(***************************************************************************)
(* The bell.  What an answer under way says is read was read, unless it    *)
(* arrived while all were being read.                                      *)
(***************************************************************************)
Counts == 0 .. B!Cardinality(Notes)

ListOK(f) ==
  /\ DOMAIN f \subseteq arrived
  /\ \A n \in DOMAIN f : f[n] \in BOOLEAN /\ (~crossed /\ ~f[n] => n \notin unread)

ReadCall == [op : {"read"}, of : Notes, served : BOOLEAN]
ReadAllCall == [op : {"readall"}, served : BOOLEAN]

BellCallOK(q) ==
  /\ call[q] = B!Free \/ call[q].op \in {"poll", "list"} \/ call[q] \in ReadCall \cup ReadAllCall
  /\ call[q].op = "poll" /\ call[q].served => call[q].count \in Counts
  /\ call[q].op = "list" /\ call[q].served => ListOK(call[q].items)
  /\ call[q].op = "read" => call[q].of \in arrived
  /\ call[q].op = "read" /\ call[q].served /\ ~crossed => call[q].of \notin unread
  /\ call[q].op = "readall" /\ call[q].served /\ ~crossed => unread = {}

BellInv == B!TypeOK /\ ListOK(items) /\ \A q \in Calls : BellCallOK(q)

LEMMA CountsOK ==
  /\ \A S \in SUBSET Notes : B!Cardinality(S) \in Counts
  /\ \A n \in Counts : n \in Nat /\ (n # 0 => n - 1 \in Counts)
<1>1. IsFiniteSet(Notes)
  BY AssumptionsOfShell DEF B!BellAssumption, B!IsFiniteSet, IsFiniteSet
<1>2. ASSUME NEW T PROVE B!Cardinality(T) = Cardinality(T)
  BY DEF B!Cardinality, Cardinality
<1>3. \A S \in SUBSET Notes : Cardinality(S) \in Nat /\ Cardinality(S) <= Cardinality(Notes)
  BY <1>1, FS_Subset, FS_CardinalityType
<1>4. Cardinality(Notes) \in Nat
  BY <1>1, FS_CardinalityType
<1>5. QED
  BY <1>2, <1>3, <1>4 DEF Counts

\* A step that replaces a call by one that says nothing untrue.
LEMMA BellCallStep ==
  ASSUME BellInv, NEW q \in Calls, NEW c, call' = [call EXCEPT ![q] = c],
         UNCHANGED arrived, unread' \subseteq unread, crossed' <=> crossed,
         open' \in BOOLEAN, loading' \in BOOLEAN, count' \in Counts, ListOK(items)',
         /\ c = B!Free \/ c.op \in {"poll", "list"} \/ c \in ReadCall \cup ReadAllCall
         /\ c.op = "poll" /\ c.served => c.count \in Counts
         /\ c.op = "list" /\ c.served => ListOK(c.items)
         /\ c.op = "read" => c.of \in arrived
         /\ c.op = "read" /\ c.served /\ ~crossed => c.of \notin unread'
         /\ c.op = "readall" /\ c.served /\ ~crossed => unread' = {}
  PROVE  BellInv'
<1>1. DOMAIN call = Calls /\ DOMAIN call' = Calls
  BY DEF BellInv, B!TypeOK
<1>2. \A p \in Calls : call'[p] = IF p = q THEN c ELSE call[p]
  BY <1>1
<1>3. B!TypeOK'
  BY <1>1 DEF BellInv, B!TypeOK, ListOK, Counts
<1>4. \A f : ListOK(f) => ListOK(f)'
  BY DEF ListOK
<1>5. ASSUME NEW p \in Calls PROVE BellCallOK(p)'
  <2>1. CASE p = q
    BY <1>2, <1>4, <2>1 DEF BellCallOK, Counts
  <2>2. CASE p # q
    <3>1. BellCallOK(p) /\ call'[p] = call[p]
      BY <1>2, <2>2 DEF BellInv
    <3>2. QED
      BY <1>4, <3>1 DEF BellCallOK, Counts
  <2>3. QED
    BY <2>1, <2>2
<1>6. QED
  BY <1>3, <1>4, <1>5 DEF BellInv

LEMMA BellKnown ==
  ASSUME BellInv
  PROVE  /\ count \in Counts /\ open \in BOOLEAN /\ loading \in BOOLEAN
         /\ unread \subseteq arrived /\ arrived \subseteq Notes
         /\ ListOK(items) /\ (UNCHANGED <<arrived, items>> /\ unread' \subseteq unread
                              /\ (crossed' <=> crossed) => ListOK(items)')
         /\ B!Free.op = "free"
BY DEF BellInv, B!TypeOK, Counts, ListOK, B!Free

LEMMA BellUserStep ==
  ASSUME BellInv, B!User \/ \E q \in Calls : B!Poll(q), crossed' <=> crossed
  PROVE  BellInv'
<1> USE BellKnown
<1>1. CASE UNCHANGED call
  <2>1. UNCHANGED <<arrived, unread, count, items>> /\ {open', loading'} \subseteq BOOLEAN
    BY <1>1 DEF B!User, B!Toggle, B!ClickOutside, B!HandleMarkAll, B!HandleMarkRead, B!Send,
           B!Waits,
                B!Poll, B!bell
  <2>2. QED
    BY <1>1, <2>1 DEF BellInv, B!TypeOK, BellCallOK, ListOK, Counts
<1>2. ASSUME NEW q \in Calls, B!Poll(q) PROVE BellInv'
  <2>1. PICK c : c = [op |-> "poll", served |-> FALSE]
    OBVIOUS
  <2>2. c.op = "poll" /\ ~c.served
    BY <2>1
  <2>3. QED
    BY <1>2, <2>1, <2>2, BellCallStep DEF B!Poll, B!Send, B!bell
<1>3. CASE B!Toggle /\ ~open
  <2>1. PICK q \in Calls : B!Send(q, [op |-> "list", served |-> FALSE])
    BY <1>3 DEF B!Toggle
  <2>2. PICK c : c = [op |-> "list", served |-> FALSE]
    OBVIOUS
  <2>3. c.op = "list" /\ ~c.served
    BY <2>2
  <2>4. QED
    BY <1>3, <2>1, <2>2, <2>3, BellCallStep DEF B!Toggle, B!Send
<1>4. ASSUME NEW q \in Calls, NEW n \in Notes, B!HandleMarkRead(q, n) PROVE BellInv'
  <2>1. PICK c : c = [op |-> "read", of |-> n, served |-> FALSE]
    OBVIOUS
  <2>2. c \in ReadCall /\ c.op = "read" /\ c.of = n /\ ~c.served
    BY <2>1 DEF ReadCall
  <2>3. n \in arrived
    BY <1>4 DEF B!HandleMarkRead, ListOK
  <2>4. QED
    BY <1>4, <2>1, <2>2, <2>3, BellCallStep DEF B!HandleMarkRead, B!Send, B!bell
<1>5. ASSUME NEW q \in Calls, B!HandleMarkAll(q) PROVE BellInv'
  <2>1. PICK c : c = [op |-> "readall", served |-> FALSE]
    OBVIOUS
  <2>2. c \in ReadAllCall /\ c.op = "readall" /\ ~c.served
    BY <2>1 DEF ReadAllCall
  <2>3. QED
    BY <1>5, <2>1, <2>2, BellCallStep DEF B!HandleMarkAll, B!Send, B!bell
<1>6. QED
  BY <1>1, <1>2, <1>3, <1>4, <1>5 DEF B!User, B!Toggle, B!ClickOutside

LEMMA BellServeStep ==
  ASSUME BellInv, NEW q \in Calls, B!Serve(q), crossed' <=> crossed
  PROVE  BellInv'
<1> USE BellKnown
<1>1. UNCHANGED <<arrived, count, open, loading, items>>
  BY DEF B!Serve, B!bell
<1>2. CASE call[q].op = "poll" /\ UNCHANGED unread
           /\ call' = [call EXCEPT ![q] =
                         [op |-> "poll", count |-> B!Cardinality(unread), served |-> TRUE]]
  <2>1. PICK c : c = [op |-> "poll", count |-> B!Cardinality(unread), served |-> TRUE]
    OBVIOUS
  <2>2. c.op = "poll" /\ c.count \in Counts
    BY <2>1, CountsOK
  <2>3. QED
    BY <1>1, <1>2, <2>1, <2>2, BellCallStep
<1>3. CASE call[q].op = "list" /\ UNCHANGED unread
           /\ call' = [call EXCEPT ![q] = [op |-> "list", served |-> TRUE,
                                           items |-> [n \in arrived |-> n \in unread]]]
  <2>1. PICK f : f = [n \in arrived |-> n \in unread]
    OBVIOUS
  <2>2. ListOK(f)
    <3>1. DOMAIN f = arrived
      BY <2>1
    <3>2. ASSUME NEW n \in arrived PROVE f[n] = (n \in unread)
      BY <2>1
    <3>3. ASSUME NEW n \in arrived PROVE f[n] \in BOOLEAN /\ (~f[n] => n \notin unread)
      <4>1. CASE n \in unread
        <5>1. f[n] = TRUE
          BY <3>2, <4>1
        <5>2. QED
          BY <5>1
      <4>2. CASE n \notin unread
        <5>1. (n \in unread) = FALSE
          BY <4>2
        <5>2. f[n] = FALSE
          BY <3>2, <5>1, Zenon
        <5>3. QED
          BY <4>2, <5>2
      <4>3. QED
        BY <4>1, <4>2
    <3>4. QED
      BY <3>1, <3>3 DEF ListOK
  <2>3. PICK c : c = [op |-> "list", served |-> TRUE, items |-> f]
    OBVIOUS
  <2>4. c.op = "list" /\ c.items = f
    BY <2>3
  <2>5. QED
    BY <1>1, <1>3, <2>1, <2>2, <2>3, <2>4, BellCallStep
<1>4. CASE call[q].op = "read" /\ unread' = unread \ {call[q].of}
           /\ call' = [call EXCEPT ![q] = [call[q] EXCEPT !.served = TRUE]]
  <2>1. call[q] \in ReadCall /\ call[q].of \in arrived
    BY <1>4 DEF BellInv, BellCallOK, ReadAllCall
  <2>2. PICK c : c = [call[q] EXCEPT !.served = TRUE]
    OBVIOUS
  <2>3. c \in ReadCall /\ c.op = "read" /\ c.of = call[q].of
    BY <2>1, <2>2 DEF ReadCall
  <2>4. c.of \in arrived /\ c.of \notin unread' /\ unread' \subseteq unread
    BY <1>4, <2>1, <2>3
  <2>5. call' = [call EXCEPT ![q] = c]
    BY <1>4, <2>2
  <2>6. QED
    BY <1>1, <2>3, <2>4, <2>5, BellCallStep
<1>5. CASE call[q].op = "readall" /\ unread' = {}
           /\ call' = [call EXCEPT ![q] = [call[q] EXCEPT !.served = TRUE]]
  <2>1. call[q] \in ReadAllCall
    BY <1>5 DEF BellInv, BellCallOK, ReadCall
  <2>2. PICK c : c = [call[q] EXCEPT !.served = TRUE]
    OBVIOUS
  <2>3. c \in ReadAllCall /\ c.op = "readall"
    BY <2>1, <2>2 DEF ReadAllCall
  <2>4. QED
    BY <1>1, <1>5, <2>1, <2>2, <2>3, BellCallStep
<1>6. QED
  BY <1>2, <1>3, <1>4, <1>5 DEF B!Serve

LEMMA BellEndStep ==
  ASSUME BellInv, NEW q \in Calls, B!Answer(q) \/ B!Fail(q), crossed' <=> crossed
  PROVE  BellInv'
<1> USE BellKnown
<1>1. UNCHANGED <<arrived, unread>> /\ call' = [call EXCEPT ![q] = B!Free]
  BY DEF B!Answer, B!Fail, B!End
<1>2. SUFFICES count' \in Counts /\ {open', loading'} \subseteq BOOLEAN /\ ListOK(items)'
  BY <1>1, BellCallStep
<1>3. BellCallOK(q)
  BY DEF BellInv
<1>4. CASE B!Fail(q)
  BY <1>1, <1>4 DEF B!Fail
<1>5. CASE B!Answer(q) /\ B!Polled(q)
  BY <1>1, <1>3, <1>5 DEF B!Answer, B!Polled, BellCallOK
<1>6. CASE B!Answer(q) /\ B!Listed(q)
  BY <1>1, <1>3, <1>6 DEF B!Answer, B!Listed, BellCallOK, ListOK
<1>7. CASE B!Answer(q) /\ B!MarkedRead(q)
  <2>1. count' \in Counts
    BY <1>7, CountsOK DEF B!MarkedRead
  <2>2. call[q].of \notin unread \/ crossed
    BY <1>3, <1>7 DEF B!Answer, B!MarkedRead, BellCallOK
  <2>3. items' = [n \in DOMAIN items |-> items[n] /\ n # call[q].of]
    BY <1>7 DEF B!MarkedRead
  <2>4. ListOK(items)'
    BY <1>1, <2>2, <2>3 DEF ListOK
  <2>5. QED
    BY <1>7, <2>1, <2>4 DEF B!MarkedRead
<1>8. CASE B!Answer(q) /\ B!MarkedAll(q)
  <2>1. count' = 0 /\ 0 \in Counts
    BY <1>8, CountsOK DEF B!MarkedAll, Counts
  <2>2. unread = {} \/ crossed
    BY <1>3, <1>8 DEF B!Answer, B!MarkedAll, BellCallOK
  <2>3. ListOK(items)'
    BY <1>1, <1>8, <2>2 DEF B!MarkedAll, ListOK
  <2>4. QED
    BY <1>8, <2>1, <2>3 DEF B!MarkedAll
<1>9. QED
  BY <1>4, <1>5, <1>6, <1>7, <1>8 DEF B!Answer

LEMMA ArriveStep ==
  ASSUME BellInv, NEW n \in Notes, B!Arrive(n),
         crossed' <=> crossed \/ (arrived' # arrived /\ Crossing)
  PROVE  BellInv'
<1> USE BellKnown
<1>1. /\ n \notin arrived /\ arrived' = arrived \cup {n} /\ unread' = unread \cup {n}
      /\ UNCHANGED <<count, open, loading, items, call>>
  BY DEF B!Arrive, B!bell
<1>2. arrived' # arrived
  BY <1>1
<1>3. B!TypeOK'
  BY <1>1 DEF BellInv, B!TypeOK
<1>4. \A f : ListOK(f) => ListOK(f)'
  BY <1>1 DEF ListOK
<1>5. ASSUME NEW p \in Calls PROVE BellCallOK(p)'
  <2>1. BellCallOK(p) /\ call'[p] = call[p]
    BY <1>1 DEF BellInv
  <2>2. call[p].op = "readall" => crossed'
    BY <1>2 DEF Crossing
  <2>3. QED
    BY <1>1, <1>2, <1>4, <2>1, <2>2 DEF BellCallOK, Counts
<1>6. QED
  BY <1>1, <1>3, <1>4, <1>5 DEF BellInv

LEMMA BellStep ==
  ASSUME BellInv, BellNext PROVE BellInv'
<1>1. crossed' <=> crossed \/ (arrived' # arrived /\ Crossing)
  BY DEF BellNext
<1>2. (\A n \in Notes : ~B!Arrive(n)) => UNCHANGED arrived
  BY DEF BellNext, B!Next, B!User, B!Toggle, B!ClickOutside, B!HandleMarkAll, B!HandleMarkRead,
         B!Poll, B!Serve, B!Answer, B!Fail
<1>3. QED
  BY <1>1, <1>2, ArriveStep, BellUserStep, BellServeStep, BellEndStep DEF BellNext, B!Next

-----------------------------------------------------------------------------
(***************************************************************************)
(* The live map.  The sockets are as many as the vehicles listed, since    *)
(* they are made anew exactly when the number changes.                     *)
(***************************************************************************)
Sent == [stage |-> "sent"]
MapCalls == {V!Free, Sent} \cup [stage : {"done"}, fleet : V!Fleets]

MapInv ==
  /\ V!TypeOK /\ call \in [Calls -> MapCalls]
  /\ V!SocketsCounted
  /\ ~swapped => V!Subscribed

LEMMA MapKnown ==
  /\ V!Free.stage = "free" /\ Sent.stage = "sent"
  /\ \A c \in MapCalls : c.stage = "done" => c.fleet \in V!Fleets
BY DEF MapCalls, Sent, V!Free

LEMMA MapStep ==
  ASSUME MapInv, MapNext PROVE MapInv'
<1> USE MapKnown
<1>1. swapped' <=> swapped \/ Swapping
  BY DEF MapNext
<1>2. MaxAt \in Nat /\ None \notin 0 .. MaxAt
  BY AssumptionsOfShell DEF V!LiveMapAssumption
<1>3. ASSUME call' \in [Calls -> MapCalls], UNCHANGED <<vehicles, socketsRef>>,
             fleet' \in V!Fleets, alive' \subseteq socketsRef,
             updates' \subseteq [of : alive', at : V!Positions]
      PROVE  MapInv'
  <2>1. V!TypeOK'
    BY <1>3 DEF MapInv, V!TypeOK
  <2>2. QED
    BY <1>1, <1>3, <2>1 DEF MapInv, V!SocketsCounted, V!Subscribed, V!Listed
<1>4. CASE V!Load
  BY <1>3, <1>4 DEF V!Load, MapInv, V!TypeOK, MapCalls, Sent
<1>5. ASSUME NEW q \in Calls, V!Serve(q) PROVE MapInv'
  <2>1. call' \in [Calls -> MapCalls]
    BY <1>5 DEF V!Serve, MapInv, V!TypeOK, MapCalls
  <2>2. QED
    BY <1>3, <1>5, <2>1 DEF V!Serve, MapInv, V!TypeOK
<1>6. ASSUME NEW q \in Calls, V!Fail(q) PROVE MapInv'
  BY <1>3, <1>6 DEF V!Fail, MapInv, V!TypeOK, MapCalls
<1>7. ASSUME NEW q \in Calls, V!Answer(q) PROVE MapInv'
  <2>1. PICK f : f = call[q].fleet
    OBVIOUS
  <2>2. f \in V!Fleets /\ call' \in [Calls -> MapCalls]
    BY <1>7, <2>1 DEF V!Answer, MapInv, MapCalls
  <2>3. vehicles' = f /\ UNCHANGED fleet /\ V!Subscribe(f)
    BY <1>7, <2>1 DEF V!Answer
  <2>4. V!Listed(vehicles)' = V!Listed(f) /\ V!Listed(f) \subseteq Vehicles
    BY <2>3 DEF V!Listed
  <2>5. CASE V!Cardinality(V!Listed(f)) = V!Cardinality(V!Listed(vehicles))
    <3>1. UNCHANGED <<socketsRef, alive, updates>>
      BY <2>3, <2>5 DEF V!Subscribe
    <3>2. V!SocketsCounted'
      BY <2>4, <2>5, <3>1 DEF MapInv, V!SocketsCounted
    <3>3. ~swapped' => V!Subscribed'
      BY <1>1, <2>3, <2>4, <3>1 DEF MapInv, V!Subscribed, Swapping
    <3>4. V!TypeOK'
      BY <2>2, <2>3, <3>1 DEF MapInv, V!TypeOK
    <3>5. QED
      BY <2>2, <3>2, <3>3, <3>4 DEF MapInv
  <2>6. CASE V!Cardinality(V!Listed(f)) # V!Cardinality(V!Listed(vehicles))
    <3>1. socketsRef' = V!Listed(f) /\ alive' = V!Listed(f) /\ updates' = {}
      BY <2>3, <2>6 DEF V!Subscribe
    <3>2. V!SocketsCounted' /\ V!Subscribed'
      BY <2>4, <3>1 DEF V!SocketsCounted, V!Subscribed
    <3>3. V!TypeOK'
      BY <2>2, <2>3, <2>4, <3>1 DEF MapInv, V!TypeOK
    <3>4. QED
      BY <2>2, <3>2, <3>3 DEF MapInv
  <2>7. QED
    BY <2>5, <2>6
<1>8. ASSUME NEW u \in updates, V!Update(u) PROVE MapInv'
  <2>1. u.of \in Vehicles /\ u.at \in V!Positions /\ u.at # None
    BY <1>2 DEF MapInv, V!TypeOK, V!Positions
  <2>2. \A v \in Vehicles : vehicles'[v] = IF v = u.of /\ vehicles[v] # None THEN u.at
                                           ELSE vehicles[v]
    BY <1>8 DEF V!Update, MapInv, V!TypeOK, V!Fleets
  <2>3. vehicles' \in V!Fleets
    BY <1>8, <2>1 DEF V!Update, MapInv, V!TypeOK, V!Fleets
  <2>4. V!Listed(vehicles') = V!Listed(vehicles)
    BY <2>1, <2>2 DEF V!Listed
  <2>5. UNCHANGED <<fleet, socketsRef, alive, call>> /\ updates' \subseteq updates
    BY <1>8 DEF V!Update
  <2>6. V!TypeOK'
    BY <2>3, <2>5 DEF MapInv, V!TypeOK
  <2>7. V!Listed(vehicles)' = V!Listed(vehicles)
    BY <2>4 DEF V!Listed
  <2>8. QED
    BY <1>1, <2>5, <2>6, <2>7 DEF MapInv, V!SocketsCounted, V!Subscribed
<1>9. ASSUME NEW v \in Vehicles, V!Drop(v) PROVE MapInv'
  BY <1>3, <1>9 DEF V!Drop, MapInv, V!TypeOK
<1>10. ASSUME NEW v \in Vehicles, V!Move(v) PROVE MapInv'
  <2>1. fleet[v] \in V!Positions /\ fleet[v] + 1 \in V!Positions
    BY <1>2, <1>10 DEF V!Move, MapInv, V!TypeOK, V!Fleets, V!Positions
  <2>2. fleet' \in V!Fleets
    BY <1>10, <2>1 DEF V!Move, MapInv, V!TypeOK, V!Fleets
  <2>3. UNCHANGED <<vehicles, socketsRef, alive, call>>
    BY <1>10 DEF V!Move
  <2>4. updates' \subseteq [of : alive, at : V!Positions]
    BY <1>10, <2>1 DEF V!Move, MapInv, V!TypeOK
  <2>5. QED
    BY <1>3, <2>2, <2>3, <2>4 DEF MapInv, V!TypeOK
<1>11. ASSUME NEW v \in Vehicles, V!Enlist(v) \/ V!Remove(v) PROVE MapInv'
  <2>1. fleet' \in V!Fleets
    BY <1>2, <1>11 DEF V!Enlist, V!Remove, MapInv, V!TypeOK, V!Fleets, V!Positions
  <2>2. QED
    BY <1>3, <1>11, <2>1 DEF V!Enlist, V!Remove, MapInv, V!TypeOK
<1>12. QED
  BY <1>4, <1>5, <1>6, <1>7, <1>8, <1>9, <1>10, <1>11 DEF MapNext, V!Next, V!World

-----------------------------------------------------------------------------
(***************************************************************************)
(* The alerts, first by themselves, for any employees, threads, threshold  *)
(* and number of events.  Nothing in the database forbids a second open    *)
(* event; what bounds them is that a thread opens one only after it found  *)
(* none.                                                                   *)
(***************************************************************************)
EpisodesInv == G!TypeOK /\ G!EpisodesBounded

\* The module and its instance speak of the same sets.
LEMMA SameSets ==
  /\ Work = G!Work /\ Founds = G!Founds /\ Stages = G!Stages
  /\ \A T : G!Cardinality(T) = Cardinality(T)
BY DEF Work, G!Work, Founds, G!Founds, Stages, G!Stages, G!Cardinality, Cardinality

LEMMA WithoutOK ==
  ASSUME NEW S, NEW s \in Seq(S), NEW i \in DOMAIN s
  PROVE  G!Without(s, i) \in Seq(S) /\ Len(G!Without(s, i)) = Len(s) - 1
BY DEF G!Without

LEMMA OpenedOK ==
  ASSUME NEW S, NEW s \in Seq(S), NEW n \in 0 .. Len(s), NEW x \in S
  PROVE  G!Opened(s, n, x) \in Seq(S) /\ Len(G!Opened(s, n, x)) = Len(s) + 1
<1>1. SubSeq(s, 1, n) \in Seq(S) /\ Len(SubSeq(s, 1, n)) = n
  OBVIOUS
<1>2. SubSeq(s, n + 1, Len(s)) \in Seq(S) /\ Len(SubSeq(s, n + 1, Len(s))) = Len(s) - n
  OBVIOUS
<1>3. /\ Append(SubSeq(s, 1, n), x) \in Seq(S)
      /\ Len(Append(SubSeq(s, 1, n), x)) = n + 1
  BY <1>1
<1>4. \A a, b \in Seq(S) : a \o b \in Seq(S) /\ Len(a \o b) = Len(a) + Len(b)
  OBVIOUS
<1> DEFINE a == Append(SubSeq(s, 1, n), x)
           b == SubSeq(s, n + 1, Len(s))
<1>5. G!Opened(s, n, x) = a \o b
  BY DEF G!Opened
<1>6. a \in Seq(S) /\ b \in Seq(S) /\ Len(a) = n + 1 /\ Len(b) = Len(s) - n
  BY <1>2, <1>3
<1>7. Len(s) \in Nat /\ n \in Nat
  OBVIOUS
<1> HIDE DEF a, b
<1>8. QED
  BY <1>4, <1>5, <1>6, <1>7

\* A sequence whose elements are changed one by one.
LEMMA ChangedOK ==
  ASSUME NEW S, NEW s \in Seq(S), NEW t,
         t = [i \in DOMAIN s |-> t[i]],
         \A i \in DOMAIN s : t[i] \in S
  PROVE  t \in Seq(S) /\ Len(t) = Len(s)
<1>1. Len(s) \in Nat /\ DOMAIN s = 1 .. Len(s)
  OBVIOUS
<1>2. t \in [1 .. Len(s) -> S]
  BY <1>1
<1>3. QED
  BY <1>1, <1>2, IsASeq

LEMMA ToldOK ==
  ASSUME NEW s \in Seq(G!Event), NEW id
  PROVE  G!Told(s, id) \in Seq(G!Event) /\ Len(G!Told(s, id)) = Len(s)
<1> DEFINE t == G!Told(s, id)
<1>1. \A i \in DOMAIN s : s[i] \in G!Event
  OBVIOUS
<1>2. \A i \in DOMAIN s : t[i] \in G!Event
  BY <1>1 DEF G!Told, G!Event
<1>3. t = [i \in DOMAIN s |-> t[i]]
  BY DEF G!Told
<1> HIDE DEF t
<1>4. t \in Seq(G!Event) /\ Len(t) = Len(s)
  BY <1>2, <1>3, ChangedOK
<1>5. QED
  BY <1>4 DEF t

\* A step that is nobody's turn to open one.
LEMMA NoMoreDeciding ==
  ASSUME EpisodesInv, NEW e \in Employees, Len(events'[e]) \in Nat,
         Len(events'[e]) <= Len(events[e]),
         G!Deciding(e)' \subseteq G!Deciding(e)
  PROVE  Len(events'[e]) + Cardinality(G!Deciding(e)') <= Cardinality(Requests)
<1>1. IsFiniteSet(G!Deciding(e))
  BY SameSets, FS_Subset, GeofenceAssumption DEF G!Deciding
<1>2. /\ IsFiniteSet(G!Deciding(e)')
      /\ Cardinality(G!Deciding(e)') \in Nat /\ Cardinality(G!Deciding(e)) \in Nat
      /\ Cardinality(G!Deciding(e)') <= Cardinality(G!Deciding(e))
  BY <1>1, FS_Subset, FS_CardinalityType
<1>3. Len(events[e]) \in Nat /\ Cardinality(Requests) \in Nat
  BY SameSets, FS_CardinalityType, GeofenceAssumption DEF EpisodesInv, G!TypeOK
<1>4. Len(events[e]) + Cardinality(G!Deciding(e)) <= Cardinality(Requests)
  BY SameSets DEF EpisodesInv, G!EpisodesBounded
<1>5. \A a, b, c, d, n \in Nat : a <= b /\ c <= d /\ b + d <= n => a + c <= n
  OBVIOUS
<1>6. QED
  BY <1>2, <1>3, <1>4, <1>5

-----------------------------------------------------------------------------
\* What goes on around the handler, and the ends of it that open no event.
LEMMA WorldTypeOK ==
  ASSUME G!TypeOK, G!World PROVE G!TypeOK'
<1> USE DEF G!TypeOK
<1>1. ASSUME NEW e \in Employees, G!Clock(e) \/ G!Assign(e) \/ G!Move(e)
      PROVE  G!TypeOK'
  BY <1>1 DEF G!Clock, G!Assign, G!Move
<1>2. ASSUME NEW e \in Employees, G!PurgeOldPings(e)
      PROVE  G!TypeOK'
  BY <1>2 DEF G!PurgeOldPings, G!world
<1>3. ASSUME G!NewDay PROVE G!TypeOK'
  <2>1. ASSUME NEW e \in Employees
        PROVE  [i \in DOMAIN pings[e] |-> [pings[e][i] EXCEPT !.today = FALSE]] \in Seq(G!Ping)
    <3> DEFINE t == [i \in DOMAIN pings[e] |-> [pings[e][i] EXCEPT !.today = FALSE]]
    <3>1. pings[e] \in Seq(G!Ping)
      OBVIOUS
    <3>2. \A i \in DOMAIN pings[e] : pings[e][i] \in G!Ping
      BY <3>1
    <3>3. \A i \in DOMAIN pings[e] : t[i] \in G!Ping
      BY <3>2 DEF G!Ping
    <3>4. t = [i \in DOMAIN pings[e] |-> t[i]]
      OBVIOUS
    <3> HIDE DEF t
    <3>5. t \in Seq(G!Ping)
      BY <3>1, <3>3, <3>4, ChangedOK
    <3>6. QED
      BY <3>5 DEF t
  <2>2. QED
    BY <1>3, <2>1 DEF G!NewDay
<1>4. ASSUME NEW r \in Requests, G!Fail(r)
      PROVE  G!TypeOK'
  <2>1. request[r] \in G!Work
    BY <1>4 DEF G!Fail
  <2>2. pings' \in [Employees -> Seq(G!Ping)]
    <3> DEFINE e == request[r].employee
    <3>1. e \in Employees
      BY <2>1 DEF G!Work
    <3>2. ASSUME NEW i \in DOMAIN pings[e]
          PROVE  G!Without(pings[e], i) \in Seq(G!Ping)
      BY <3>1, <3>2, WithoutOK
    <3> HIDE DEF e
    <3>3. CASE UNCHANGED pings
      BY <3>3
    <3>4. CASE \E i \in DOMAIN pings[e] : pings' = [pings EXCEPT ![e] = G!Without(@, i)]
      BY <3>1, <3>2, <3>4
    <3>5. QED
      BY <1>4, <3>3, <3>4 DEF G!Fail, e
  <2>3. QED
    BY <1>4, <2>2 DEF G!Fail, G!Done, G!world
<1>5. QED
  BY <1>1, <1>2, <1>3, <1>4 DEF G!World

LEMMA InHand ==
  ASSUME G!TypeOK, NEW r \in Requests, request[r] # None
  PROVE  /\ request[r] \in G!Work
         /\ request[r].employee \in Employees
         /\ pings[request[r].employee] \in Seq(G!Ping)
         /\ events[request[r].employee] \in Seq(G!Event)
<1>1. request[r] \in G!Work
  BY DEF G!TypeOK
<1>2. QED
  BY <1>1 DEF G!TypeOK, G!Work

LEMMA GoesTypeOK ==
  ASSUME G!TypeOK, NEW r \in Requests, G!Goes(r) PROVE G!TypeOK'
<1>1. request[r] # None
  BY DEF G!Goes, G!Store, G!Look, G!Count, G!Open, G!Notify, G!Close, G!At
<1> DEFINE e == request[r].employee
<1>2. /\ e \in Employees /\ request[r] \in G!Work
      /\ pings[e] \in Seq(G!Ping) /\ events[e] \in Seq(G!Event)
  BY <1>1, InHand
<1>3. request' \in [Requests -> G!Work \cup {None}]
  <2>1. ASSUME NEW stage \in G!Stages, G!GoOn(r, stage)
        PROVE  request' \in [Requests -> G!Work \cup {None}]
    BY <1>2, <2>1 DEF G!TypeOK, G!Work, G!GoOn
  <2>2. ASSUME G!Done(r) PROVE request' \in [Requests -> G!Work \cup {None}]
    BY <2>2 DEF G!TypeOK, G!Done
  <2>3. ASSUME NEW stage \in G!Stages, NEW id \in EventIds,
               request' = [request EXCEPT ![r].at = stage, ![r].event = id]
        PROVE  request' \in [Requests -> G!Work \cup {None}]
    BY <1>2, <2>3 DEF G!TypeOK, G!Work
  <2>4. CASE G!Store(r) \/ G!Count(r) \/ G!Notify(r) \/ G!Close(r)
    BY <2>1, <2>2, <2>4 DEF G!Store, G!Count, G!Notify, G!Close, G!Stages
  <2>5. CASE G!Look(r)
    <3>1. ASSUME events[e] # <<>>
          PROVE  events[e][Len(events[e])].id \in EventIds
      <4>1. Len(events[e]) \in DOMAIN events[e]
        BY <1>2, <3>1
      <4>2. events[e][Len(events[e])] \in G!Event
        BY <1>2, <4>1
      <4>3. QED
        BY <4>2 DEF G!Event
    <3>2. \/ G!Done(r) \/ G!GoOn(r, "count")
          \/ /\ events[e] # <<>>
             /\ request' = [request EXCEPT ![r].at = "close",
                                           ![r].event = events[e][Len(events[e])].id]
      BY <2>5 DEF G!Look
    <3>3. "count" \in G!Stages /\ "close" \in G!Stages
      BY DEF G!Stages
    <3>4. CASE G!Done(r)
      BY <2>2, <3>4
    <3>5. CASE G!GoOn(r, "count")
      BY <2>1, <3>3, <3>5
    <3>6. QED
      BY <2>3, <3>1, <3>2, <3>3, <3>4, <3>5
  <2>6. CASE G!Open(r)
    <3>1. PICK id \in EventIds :
            request' = [request EXCEPT ![r].at = "notify", ![r].event = id]
      BY <2>6 DEF G!Open
    <3>2. "notify" \in G!Stages
      BY DEF G!Stages
    <3>3. QED
      BY <2>3, <3>1, <3>2
  <2>7. QED
    BY <2>4, <2>5, <2>6 DEF G!Goes, G!Store, G!Look, G!Count, G!Open, G!Notify, G!Close
<1>4. pings' \in [Employees -> Seq(G!Ping)]
  <2>1. CASE G!Store(r)
    <3> DEFINE seen == G!Committed(pings[e], r)
    <3>1. \A i \in DOMAIN pings[e] : pings[e][i] \in G!Ping
      BY <1>2
    <3>2. \A i \in DOMAIN pings[e] : seen[i] \in G!Ping
      BY <3>1 DEF G!Committed, G!Ping
    <3>3. seen = [i \in DOMAIN pings[e] |-> seen[i]]
      BY DEF G!Committed
    <3> HIDE DEF seen
    <3>4. seen \in Seq(G!Ping)
      BY <1>2, <3>2, <3>3, ChangedOK
    <3>5. \A n \in 0 .. Len(seen) : SubSeq(seen, n + 1, Len(seen)) \in Seq(G!Ping)
      BY <3>4
    <3>6. \E n \in 0 .. Len(seen) :
            pings' = [pings EXCEPT ![e] = SubSeq(seen, n + 1, Len(seen))]
      BY <2>1 DEF G!Store, seen
    <3>7. QED
      BY <1>2, <3>5, <3>6 DEF G!TypeOK
  <2>2. CASE UNCHANGED pings
    BY <2>2 DEF G!TypeOK
  <2>3. QED
    BY <2>1, <2>2 DEF G!Goes, G!Store, G!Look, G!Count, G!Open, G!Notify, G!Close
<1>5. events' \in [Employees -> Seq(G!Event)]
  <2>1. CASE G!Open(r)
    <3>1. \A n \in 0 .. Len(events[e]), id \in EventIds :
            G!Opened(events[e], n, [id |-> id, told |-> FALSE]) \in Seq(G!Event)
      BY <1>2, OpenedOK DEF G!Event
    <3>2. \E n \in 0 .. Len(events[e]), id \in EventIds :
            events' = [events EXCEPT ![e] = G!Opened(@, n, [id |-> id, told |-> FALSE])]
      BY <2>1 DEF G!Open
    <3>3. QED
      BY <1>2, <3>1, <3>2 DEF G!TypeOK
  <2>2. CASE G!Notify(r)
    <3>1. G!Told(events[e], request[r].event) \in Seq(G!Event)
      BY <1>2, ToldOK
    <3>2. QED
      BY <1>2, <2>2, <3>1 DEF G!Notify, G!TypeOK
  <2>3. CASE G!Close(r)
    <3>1. \A i \in DOMAIN events[e] : G!Without(events[e], i) \in Seq(G!Event)
      BY <1>2, WithoutOK
    <3>2. QED
      BY <1>2, <2>3, <3>1 DEF G!Close, G!TypeOK
  <2>4. CASE UNCHANGED events
    BY <2>4 DEF G!TypeOK
  <2>5. QED
    BY <2>1, <2>2, <2>3, <2>4 DEF G!Goes, G!Store, G!Look, G!Count
<1>6. UNCHANGED G!world
  BY DEF G!Goes, G!Store, G!Look, G!Count, G!Open, G!Notify, G!Close
<1>7. QED
  BY <1>3, <1>4, <1>5, <1>6 DEF G!TypeOK, G!world

LEMMA ReportTypeOK ==
  ASSUME G!TypeOK, NEW r \in Requests, NEW e \in Employees, G!Report(r, e) PROVE G!TypeOK'
<1> DEFINE found == G!EvaluatePosition(e)
<1>1. found \in G!Founds
  BY DEF G!EvaluatePosition, G!Founds
<1>2. [found |-> found, today |-> TRUE, by |-> r] \in G!Ping
  BY <1>1 DEF G!Ping
<1>3. [employee |-> e, found |-> found, at |-> "store", event |-> None] \in G!Work
  BY <1>1 DEF G!Work, G!Stages
<1> HIDE DEF found
<1>4. pings' \in [Employees -> Seq(G!Ping)]
  BY <1>2 DEF G!Report, G!TypeOK, found
<1>5. request' \in [Requests -> G!Work \cup {None}]
  BY <1>3 DEF G!Report, G!TypeOK, found
<1>6. QED
  BY <1>4, <1>5 DEF G!Report, G!TypeOK, G!world

-----------------------------------------------------------------------------
\* Whoever is deciding when no event is open is a thread.
LEMMA NoneOpen ==
  ASSUME G!TypeOK, NEW e \in Employees, events'[e] = <<>>
  PROVE  Len(events'[e]) + Cardinality(G!Deciding(e)') <= Cardinality(Requests)
<1>1. G!Deciding(e)' \subseteq Requests
  BY DEF G!Deciding
<1>2. /\ Cardinality(G!Deciding(e)') \in Nat /\ Cardinality(Requests) \in Nat
      /\ Cardinality(G!Deciding(e)') <= Cardinality(Requests)
  BY SameSets, <1>1, GeofenceAssumption, FS_Subset, FS_CardinalityType
<1>3. QED
  BY <1>2

LEMMA InitEpisodes == G!Init => EpisodesInv
<1> SUFFICES ASSUME G!Init PROVE EpisodesInv
  OBVIOUS
<1>1. G!TypeOK
  BY DEF G!Init, G!TypeOK
<1>2. ASSUME NEW e \in Employees
      PROVE  Len(events[e]) + Cardinality(G!Deciding(e)) <= Cardinality(Requests)
  <2>1. G!Deciding(e) = {} /\ events[e] = <<>>
    BY DEF G!Init, G!Deciding, G!Of
  <2>2. QED
    BY SameSets, <2>1, FS_EmptySet, FS_CardinalityType, GeofenceAssumption
<1>3. QED
  BY SameSets, <1>1, <1>2 DEF EpisodesInv, G!EpisodesBounded

-----------------------------------------------------------------------------
\* An employee whose deciders and events no step has touched.
LEMMA Untouched ==
  ASSUME EpisodesInv, NEW e \in Employees,
         events'[e] = events[e], G!Deciding(e)' \subseteq G!Deciding(e)
  PROVE  Len(events'[e]) + Cardinality(G!Deciding(e)') <= Cardinality(Requests)
<1>1. Len(events'[e]) \in Nat /\ Len(events'[e]) <= Len(events[e])
  BY DEF EpisodesInv, G!TypeOK
<1>2. QED
  BY <1>1, NoMoreDeciding

LEMMA WorldBounded ==
  ASSUME EpisodesInv, G!World PROVE G!EpisodesBounded'
<1> SUFFICES ASSUME NEW e \in Employees
             PROVE  Len(events'[e]) + Cardinality(G!Deciding(e)') <= Cardinality(Requests)
  BY SameSets DEF G!EpisodesBounded
<1>1. UNCHANGED events
  BY DEF G!World, G!Clock, G!Assign, G!Move, G!PurgeOldPings, G!NewDay, G!Fail
<1>2. CASE UNCHANGED request
  <2>1. G!Deciding(e)' = G!Deciding(e)
    BY <1>2 DEF G!Deciding, G!Of, G!At
  <2>2. QED
    BY <1>1, <2>1, Untouched
<1>3. ASSUME NEW r \in Requests, G!Fail(r)
      PROVE  G!Deciding(e)' \subseteq G!Deciding(e)
  BY <1>3 DEF G!Fail, G!Done, G!Deciding, G!Of, G!At, EpisodesInv, G!TypeOK
<1>4. QED
  BY <1>1, <1>2, <1>3, Untouched DEF G!World, G!Clock, G!Assign, G!Move, G!PurgeOldPings, G!NewDay

LEMMA ReportBounded ==
  ASSUME EpisodesInv, NEW r \in Requests, NEW e \in Employees, G!Report(r, e)
  PROVE  G!EpisodesBounded'
<1> SUFFICES ASSUME NEW f \in Employees
             PROVE  Len(events'[f]) + Cardinality(G!Deciding(f)') <= Cardinality(Requests)
  BY SameSets DEF G!EpisodesBounded
<1>1. events'[f] = events[f]
  BY DEF G!Report
<1>2. G!Deciding(f)' \subseteq G!Deciding(f)
  BY DEF G!Report, G!Deciding, G!Of, G!At, EpisodesInv, G!TypeOK
<1>3. QED
  BY <1>1, <1>2, Untouched

\* A thread that goes on without having found that no event is open decides nothing.
LEMMA GoesOnBounded ==
  ASSUME EpisodesInv, NEW r \in Requests, G!Store(r) \/ G!Count(r) \/ G!Notify(r) \/ G!Close(r)
  PROVE  G!EpisodesBounded'
<1> SUFFICES ASSUME NEW e \in Employees
             PROVE  Len(events'[e]) + Cardinality(G!Deciding(e)') <= Cardinality(Requests)
  BY SameSets DEF G!EpisodesBounded
<1>0. request[r] \in G!Work /\ G!TypeOK /\ events[request[r].employee] \in Seq(G!Event)
      /\ events[e] \in Seq(G!Event)
  BY InHand DEF EpisodesInv, G!TypeOK, G!Store, G!Count, G!Notify, G!Close, G!At
<1>1. G!Deciding(e)' \subseteq G!Deciding(e)
  <2>1. CASE G!Done(r)
    BY <1>0, <2>1 DEF G!Done, G!Deciding, G!Of, G!At, G!TypeOK
  <2>2. CASE G!GoOn(r, "look")
    BY <1>0, <2>2 DEF G!GoOn, G!Deciding, G!Of, G!At, G!TypeOK, G!Work
  <2>3. CASE G!At(r, "count") /\ G!GoOn(r, "open")
    BY <1>0, <2>3 DEF G!GoOn, G!Deciding, G!Of, G!At, G!TypeOK, G!Work
  <2>4. QED
    BY <2>1, <2>2, <2>3 DEF G!Store, G!Count, G!Notify, G!Close
<1>2. Len(events'[e]) \in Nat /\ Len(events'[e]) <= Len(events[e])
  <2>1. CASE events'[e] = events[e]
    BY <1>0, <2>1
  <2>2. CASE G!Notify(r) /\ e = request[r].employee
    <3>1. events'[e] = G!Told(events[e], request[r].event)
      BY <1>0, <2>2 DEF G!Notify, G!TypeOK
    <3>2. QED
      BY <1>0, <3>1, ToldOK
  <2>3. CASE G!Close(r) /\ e = request[r].employee /\ events' # events
    <3>1. PICK i \in DOMAIN events[e] : events'[e] = G!Without(events[e], i)
      BY <1>0, <2>3 DEF G!Close, G!TypeOK
    <3>2. Len(events'[e]) = Len(events[e]) - 1
      BY <1>0, <3>1, WithoutOK
    <3>3. Len(events[e]) \in Nat /\ Len(events[e]) >= 1
      BY <1>0, <3>1
    <3>4. QED
      BY <3>2, <3>3
  <2>4. e # request[r].employee => events'[e] = events[e]
    BY <1>0 DEF G!Store, G!Count, G!Notify, G!Close, G!TypeOK
  <2>5. G!Store(r) \/ G!Count(r) => events'[e] = events[e]
    BY DEF G!Store, G!Count
  <2>6. QED
    BY <2>1, <2>2, <2>3, <2>4, <2>5
<1>3. QED
  BY <1>1, <1>2, NoMoreDeciding

LEMMA LookBounded ==
  ASSUME EpisodesInv, NEW r \in Requests, G!Look(r)
  PROVE  G!EpisodesBounded'
<1> SUFFICES ASSUME NEW e \in Employees
             PROVE  Len(events'[e]) + Cardinality(G!Deciding(e)') <= Cardinality(Requests)
  BY SameSets DEF G!EpisodesBounded
<1>0. request[r] \in G!Work /\ G!TypeOK
  BY InHand DEF EpisodesInv, G!Look, G!At
<1>1. events' = events
  BY DEF G!Look
<1>2. CASE events[e] = <<>>
  BY <1>0, <1>1, <1>2, NoneOpen
<1>3. CASE events[e] # <<>>
  <2>1. CASE e = request[r].employee
    <3>1. \/ G!Done(r)
          \/ \E id : request' = [request EXCEPT ![r].at = "close", ![r].event = id]
      BY <1>3, <2>1 DEF G!Look
    <3>2. G!Deciding(e)' \subseteq G!Deciding(e)
      BY <1>0, <3>1 DEF G!Done, G!Deciding, G!Of, G!At, G!TypeOK, G!Work
    <3>3. QED
      BY <1>1, <3>2, Untouched
  <2>2. CASE e # request[r].employee
    <3>1. \/ G!Done(r) \/ G!GoOn(r, "count")
          \/ \E id : request' = [request EXCEPT ![r].at = "close", ![r].event = id]
      BY DEF G!Look
    <3>2. \A q \in Requests : q # r => request'[q] = request[q]
      BY <1>0, <3>1 DEF G!Done, G!GoOn, G!TypeOK
    <3>3. request'[r] = None \/ request'[r].employee = request[r].employee
      BY <1>0, <3>1 DEF G!Done, G!GoOn, G!TypeOK, G!Work
    <3>4. G!Deciding(e)' \subseteq G!Deciding(e)
      BY <2>2, <3>2, <3>3 DEF G!Deciding, G!Of, G!At
    <3>5. QED
      BY <1>1, <3>4, Untouched
  <2>3. QED
    BY <2>1, <2>2
<1>4. QED
  BY <1>2, <1>3

\* The thread that opens an event decides no longer.
LEMMA OpenBounded ==
  ASSUME EpisodesInv, NEW r \in Requests, G!Open(r)
  PROVE  G!EpisodesBounded'
<1> SUFFICES ASSUME NEW e \in Employees
             PROVE  Len(events'[e]) + Cardinality(G!Deciding(e)') <= Cardinality(Requests)
  BY SameSets DEF G!EpisodesBounded
<1>0. request[r] \in G!Work /\ G!TypeOK /\ events[e] \in Seq(G!Event)
  BY InHand DEF EpisodesInv, G!TypeOK, G!Open, G!At
<1>1. PICK id \in EventIds, n \in 0 .. Len(events[request[r].employee]) :
        /\ events' = [events EXCEPT ![request[r].employee] =
                        G!Opened(@, n, [id |-> id, told |-> FALSE])]
        /\ request' = [request EXCEPT ![r].at = "notify", ![r].event = id]
  BY DEF G!Open
<1>2. G!Deciding(e)' \subseteq G!Deciding(e) \ {r}
  BY <1>0, <1>1 DEF G!Deciding, G!Of, G!At, G!TypeOK, G!Work
<1>3. CASE e # request[r].employee
  <2>1. events'[e] = events[e]
    BY <1>0, <1>1, <1>3 DEF G!TypeOK
  <2>2. QED
    BY <1>2, <2>1, Untouched
<1>4. CASE e = request[r].employee
  <2>1. r \in G!Deciding(e)
    BY <1>0, <1>4 DEF G!Deciding, G!Of, G!At, G!Open
  <2>2. IsFiniteSet(G!Deciding(e))
    BY SameSets, FS_Subset, GeofenceAssumption DEF G!Deciding
  <2>3. /\ IsFiniteSet(G!Deciding(e) \ {r})
        /\ Cardinality(G!Deciding(e) \ {r}) = Cardinality(G!Deciding(e)) - 1
    BY <2>1, <2>2, FS_RemoveElement
  <2>4. /\ IsFiniteSet(G!Deciding(e)')
        /\ Cardinality(G!Deciding(e)') <= Cardinality(G!Deciding(e)) - 1
    BY <1>2, <2>3, FS_Subset
  <2>5. events'[e] = G!Opened(events[e], n, [id |-> id, told |-> FALSE])
    BY <1>0, <1>1, <1>4 DEF G!TypeOK
  <2>6. Len(events'[e]) = Len(events[e]) + 1
    <3>1. [id |-> id, told |-> FALSE] \in G!Event /\ n \in 0 .. Len(events[e])
      BY <1>4 DEF G!Event
    <3>2. PICK w \in Seq(G!Event), x \in G!Event :
            w = events[e] /\ x = [id |-> id, told |-> FALSE]
      BY <1>0, <1>4, <3>1
    <3>3. n \in 0 .. Len(w)
      BY <3>1, <3>2
    <3>4. Len(G!Opened(w, n, x)) = Len(w) + 1
      BY <3>3, OpenedOK
    <3>5. QED
      BY <2>5, <3>2, <3>4
  <2>7. Len(events[e]) + Cardinality(G!Deciding(e)) <= Cardinality(Requests)
    BY SameSets DEF EpisodesInv, G!EpisodesBounded
  <2>8. /\ Len(events[e]) \in Nat /\ Cardinality(G!Deciding(e)) \in Nat
        /\ Cardinality(G!Deciding(e)') \in Nat /\ Cardinality(Requests) \in Nat
    BY SameSets, <1>0, <2>2, <2>4, FS_CardinalityType, GeofenceAssumption
  <2>9. \A a, b, c, d \in Nat : c <= b - 1 /\ a + b <= d => (a + 1) + c <= d
    OBVIOUS
  <2>10. QED
    BY <2>4, <2>6, <2>7, <2>8, <2>9
<1>5. QED
  BY <1>3, <1>4

LEMMA NextEpisodes ==
  ASSUME EpisodesInv, [G!Next]_(G!vars) PROVE EpisodesInv'
<1>1. CASE G!World
  BY <1>1, WorldTypeOK, WorldBounded DEF EpisodesInv
<1>2. ASSUME NEW r \in Requests, G!Goes(r)
      PROVE  EpisodesInv'
  <2>1. G!TypeOK'
    BY <1>2, GoesTypeOK DEF EpisodesInv
  <2>2. G!EpisodesBounded'
    BY <1>2, GoesOnBounded, LookBounded, OpenBounded DEF G!Goes
  <2>3. QED
    BY <2>1, <2>2 DEF EpisodesInv
<1>3. ASSUME NEW r \in Requests, NEW e \in Employees, G!Report(r, e)
      PROVE  EpisodesInv'
  BY <1>3, ReportTypeOK, ReportBounded DEF EpisodesInv
<1>4. CASE UNCHANGED G!vars
  <2>1. G!TypeOK'
    BY <1>4 DEF EpisodesInv, G!TypeOK, G!vars, G!world
  <2>2. \A e \in Employees : G!Deciding(e)' = G!Deciding(e)
    BY <1>4 DEF G!Deciding, G!Of, G!At, G!vars
  <2>3. G!EpisodesBounded'
    BY SameSets, <1>4, <2>2 DEF EpisodesInv, G!EpisodesBounded, G!vars
  <2>4. QED
    BY <2>1, <2>3 DEF EpisodesInv
<1>5. QED
  BY <1>1, <1>2, <1>3, <1>4 DEF G!Next

\* The inductive invariant holds in every reachable state.
THEOREM EpisodesInductive == G!Spec => []EpisodesInv
<1>1. QED
  BY InitEpisodes, NextEpisodes, PTL DEF G!Spec

\* The rows of pings and events, and what a thread has in hand, are of their types
\* (models/geofence.py, record_ping).
THEOREM EpisodesTyped == G!Spec => []G!TypeOK
<1>1. QED
  BY EpisodesInductive, PTL DEF EpisodesInv

\* However many threads handle pings, an employee has no more open exit events than
\* there are threads (geofence_service.py:206).
THEOREM EpisodesStayBounded == G!Spec => []G!EpisodesBounded
<1>1. QED
  BY EpisodesInductive, PTL DEF EpisodesInv

OneEpisode == \A e \in Employees : Len(events[e]) <= 1

\* Were pings handled one at a time, an employee would have one open event at most.
THEOREM OneAtATime ==
  ASSUME Cardinality(Requests) = 1
  PROVE  G!Spec => []OneEpisode
<1>1. ASSUME EpisodesInv PROVE OneEpisode
  <2> SUFFICES ASSUME NEW e \in Employees PROVE Len(events[e]) <= 1
    BY DEF OneEpisode
  <2>1. Len(events[e]) + Cardinality(G!Deciding(e)) <= 1
    BY SameSets, <1>1 DEF EpisodesInv, G!EpisodesBounded
  <2>2. IsFiniteSet(G!Deciding(e))
    BY SameSets, FS_Subset, GeofenceAssumption DEF G!Deciding
  <2>3. Cardinality(G!Deciding(e)) \in Nat /\ Len(events[e]) \in Nat
    BY <1>1, <2>2, FS_CardinalityType DEF EpisodesInv, G!TypeOK
  <2>4. QED
    BY <2>1, <2>3
<1>2. QED
  BY <1>1, EpisodesInductive, PTL

-----------------------------------------------------------------------------
(***************************************************************************)
(* Pings that are handled alone, each to its end: at most one thread has   *)
(* one in hand, and what it has found so far is still so.                  *)
(***************************************************************************)
AllStored(s) == \A i \in DOMAIN s : s[i].by = None
AllTold(w) == \A i \in DOMAIN w : w[i].told
EndsWith(s, found) == s # <<>> => G!Last(s) = found

\* The pings and the open events of an employee, once the pings are handled.
EpisodeOK(s, w) ==
  /\ AllStored(s) /\ AllTold(w) /\ Len(w) <= 1
  /\ s # <<>> /\ G!Last(s) = "in" => w = <<>>
  /\ G!ShouldOpenExit(s) => w # <<>>

\* The same while thread r has the last ping in hand.
UnderWay(r, job, s, w) ==
  CASE job.at = "store" ->
         /\ s # <<>> /\ s[Len(s)].by = r /\ G!Last(s) = job.found
         /\ \A i \in 1 .. Len(s) - 1 : s[i].by = None
         /\ AllTold(w) /\ Len(w) <= 1
    [] job.at = "look" ->
         /\ AllStored(s) /\ EndsWith(s, job.found) /\ job.found \in {"in", "out"}
         /\ AllTold(w) /\ Len(w) <= 1
    [] job.at \in {"count", "open"} ->
         AllStored(s) /\ EndsWith(s, "out") /\ w = <<>>
    [] job.at = "notify" ->
         AllStored(s) /\ EndsWith(s, "out") /\ Len(w) = 1 /\ w[1].id = job.event
    [] job.at = "close" ->
         AllStored(s) /\ EndsWith(s, "in") /\ Len(w) = 1 /\ w[1].id = job.event

Apart ==
  /\ \A p, q \in Requests : request[p] # None /\ request[q] # None => p = q
  /\ \A e \in Employees : G!Quiet(e) => EpisodeOK(pings[e], events[e])
  /\ \A r \in Requests : request[r] # None =>
       UnderWay(r, request[r], pings[request[r].employee], events[request[r].employee])
\* When all pings are stored, an exit event is due if the last Threshold of them came
\* from outside, and there are as many.
LEMMA ExitDue ==
  ASSUME NEW s \in Seq(G!Ping), AllStored(s)
  PROVE  G!ShouldOpenExit(s) <=> /\ Len(s) >= Threshold
                               /\ \A i \in Len(s) - Threshold + 1 .. Len(s) : s[i].found = "out"
<1>1. Threshold \in Nat /\ Threshold >= 1 /\ Len(s) \in Nat /\ DOMAIN s = 1 .. Len(s)
  BY SameSets, GeofenceAssumption
<1>2. ASSUME NEW i \in DOMAIN s PROVE Cardinality(G!Beyond(s, i)) = Len(s) - i
  <2>1. G!Beyond(s, i) = i + 1 .. Len(s)
    BY <1>1 DEF G!Beyond, AllStored
  <2>2. PICK a, b : a = i + 1 /\ b = Len(s)
    OBVIOUS
  <2>3. a \in Int /\ b \in Int /\ a <= b + 1
    BY <1>1, <2>2
  <2>4. Cardinality(a .. b) = IF a > b THEN 0 ELSE b - a + 1
    BY <2>3, FS_Interval
  <2>5. QED
    BY <1>1, <2>1, <2>2, <2>3, <2>4
<1>3. G!Recent(s) = {i \in 1 .. Len(s) : Len(s) - i < Threshold}
  BY SameSets, <1>1, <1>2 DEF G!Recent, AllStored
<1>4. CASE Len(s) >= Threshold
  <2>1. G!Recent(s) = Len(s) - Threshold + 1 .. Len(s)
    BY <1>1, <1>3, <1>4
  <2>2. Cardinality(G!Recent(s)) = Threshold
    BY <1>1, <1>4, <2>1, FS_Interval
  <2>3. QED
    BY SameSets, <1>1, <1>4, <2>1, <2>2 DEF G!ShouldOpenExit
<1>5. CASE Len(s) < Threshold
  <2>1. G!Recent(s) = 1 .. Len(s)
    BY <1>1, <1>3, <1>5
  <2>2. Cardinality(G!Recent(s)) = Len(s)
    BY <1>1, <2>1, FS_Interval
  <2>3. QED
    BY SameSets, <1>1, <1>5, <2>2 DEF G!ShouldOpenExit
<1>6. QED
  BY <1>1, <1>4, <1>5

\* An exit event is due only if the last ping came from outside.
LEMMA DueOutside ==
  ASSUME NEW s \in Seq(G!Ping), AllStored(s), G!ShouldOpenExit(s)
  PROVE  s # <<>> /\ G!Last(s) = "out"
<1>1. Threshold \in Nat /\ Threshold >= 1 /\ Len(s) \in Nat
  BY SameSets, GeofenceAssumption
<1>2. Len(s) >= Threshold /\ Len(s) \in Len(s) - Threshold + 1 .. Len(s)
  BY <1>1, ExitDue
<1>3. s[Len(s)].found = "out"
  BY <1>2, ExitDue
<1>4. QED
  BY <1>1, <1>2, <1>3 DEF G!Last

\* What the first pings were matters to nobody once they are gone.
LEMMA TailKept ==
  ASSUME NEW s \in Seq(G!Ping), NEW t \in Seq(G!Ping), NEW n \in Nat, Len(t) = Len(s) - n,
         \A i \in 1 .. Len(t) : t[i] = s[i + n]
  PROVE  /\ t # <<>> => s # <<>> /\ t[Len(t)] = s[Len(s)]
         /\ AllStored(s) => AllStored(t) /\ (G!ShouldOpenExit(t) => G!ShouldOpenExit(s))
<1>1. PICK k, m : k = Len(s) /\ m = Len(t)
  OBVIOUS
<1>2. k \in Nat /\ m \in Nat /\ k = m + n /\ DOMAIN t = 1 .. m /\ DOMAIN s = 1 .. k
  BY <1>1
<1>3. \A i \in 1 .. m : i + n \in 1 .. k /\ t[i] = s[i + n]
  BY <1>1, <1>2
<1>4. t # <<>> => s # <<>> /\ t[m] = s[k]
  <2>1. t # <<>> => m > 0
    BY <1>1
  <2>2. s = <<>> => k = 0
    BY <1>1
  <2>3. m > 0 => m \in 1 .. m /\ k > 0
    BY <1>2
  <2>4. QED
    BY <1>2, <1>3, <2>1, <2>2, <2>3
<1>5. ASSUME AllStored(s) PROVE AllStored(t)
  BY <1>2, <1>3, <1>5 DEF AllStored
<1>6. ASSUME AllStored(s), G!ShouldOpenExit(t) PROVE G!ShouldOpenExit(s)
  <2>1. Threshold \in Nat /\ Threshold >= 1
    BY SameSets, GeofenceAssumption
  <2>2. m >= Threshold /\ \A i \in m - Threshold + 1 .. m : t[i].found = "out"
    BY <1>1, <1>5, <1>6, ExitDue
  <2>3. ASSUME NEW i \in k - Threshold + 1 .. k PROVE s[i].found = "out"
    <3>1. PICK j : j = i - n
      OBVIOUS
    <3>2. j \in m - Threshold + 1 .. m /\ j \in 1 .. m /\ j + n = i
      BY <1>2, <2>1, <2>2, <3>1
    <3>3. QED
      BY <1>3, <2>2, <3>2
  <2>4. k >= Threshold
    BY <1>2, <2>1, <2>2
  <2>5. QED
    BY <1>1, <1>6, <2>3, <2>4, ExitDue
<1>7. QED
  BY <1>1, <1>4, <1>5, <1>6

LEMMA Cut ==
  ASSUME NEW s \in Seq(G!Ping), NEW n \in 0 .. Len(s)
  PROVE  /\ SubSeq(s, n + 1, Len(s)) \in Seq(G!Ping)
         /\ Len(SubSeq(s, n + 1, Len(s))) = Len(s) - n
         /\ \A i \in 1 .. Len(s) - n : SubSeq(s, n + 1, Len(s))[i] = s[i + n]
OBVIOUS

-----------------------------------------------------------------------------
\* A step of one thread, about one employee, while no other thread has a ping in hand.
LEMMA ApartStep ==
  ASSUME G!TypeOK, Apart, NEW r \in Requests, NEW e \in Employees,
         \A q \in Requests : q # r => request[q] = None /\ request'[q] = None,
         request[r] # None => request[r].employee = e,
         request'[r] # None => request'[r].employee = e,
         \A f \in Employees : f # e => pings'[f] = pings[f] /\ events'[f] = events[f],
         request'[r] = None => EpisodeOK(pings'[e], events'[e]),
         request'[r] # None => UnderWay(r, request'[r], pings'[e], events'[e])
  PROVE  Apart'
<1>1. \A p, q \in Requests : request'[p] # None /\ request'[q] # None => p = q
  OBVIOUS
<1>2. ASSUME NEW f \in Employees, G!Quiet(f)'
      PROVE  EpisodeOK(pings'[f], events'[f])
  <2>1. CASE f # e
    <3>1. G!Quiet(f)
      BY <2>1 DEF G!Quiet, G!Of
    <3>2. QED
      BY <2>1, <3>1 DEF Apart
  <2>2. CASE f = e
    BY <1>2, <2>2 DEF G!Quiet, G!Of
  <2>3. QED
    BY <2>1, <2>2
<1>3. ASSUME NEW q \in Requests, request'[q] # None
      PROVE  UnderWay(q, request'[q], pings'[request'[q].employee], events'[request'[q].employee])
  <2>1. q = r
    BY <1>3
  <2>2. QED
    BY <1>3, <2>1
<1>4. QED
  BY <1>1, <1>2, <1>3 DEF Apart

LEMMA ReportApart ==
  ASSUME G!TypeOK, G!TypeOK', Apart, NEW r \in Requests, NEW e \in Employees, G!Report(r, e),
         \A q \in Requests : request[q] = None
  PROVE  Apart'
<1>1. PICK found : found = G!EvaluatePosition(e)
  OBVIOUS
<1>2. PICK p : p = [found |-> found, today |-> TRUE, by |-> r]
  OBVIOUS
<1>3. PICK job : job = [employee |-> e, found |-> found, at |-> "store", event |-> None]
  OBVIOUS
<1>4. /\ pings' = [pings EXCEPT ![e] = Append(@, p)] /\ events' = events
      /\ request' = [request EXCEPT ![r] = job]
  BY <1>1, <1>2, <1>3 DEF G!Report
<1>5. PICK s, t : s = pings[e] /\ t = Append(s, p)
  OBVIOUS
<1>6. s \in Seq(G!Ping) /\ p \in G!Ping
  BY <1>1, <1>2, <1>5 DEF G!TypeOK, G!Ping, G!EvaluatePosition, G!Founds
<1>7. /\ pings'[e] = t /\ request'[r] = job
      /\ \A f \in Employees : f # e => pings'[f] = pings[f]
      /\ \A q \in Requests : q # r => request'[q] = None
  BY <1>4, <1>5 DEF G!TypeOK
<1>8. EpisodeOK(s, events[e])
  BY <1>5 DEF Apart, G!Quiet, G!Of
<1>9. UnderWay(r, job, t, events[e])
  <2>1. Len(t) = Len(s) + 1 /\ t[Len(t)] = p /\ t # <<>> /\ \A i \in 1 .. Len(s) : t[i] = s[i]
    BY <1>5, <1>6
  <2>2. \A i \in 1 .. Len(t) - 1 : t[i].by = None
    BY <1>6, <1>8, <2>1 DEF EpisodeOK, AllStored
  <2>3. p.by = r /\ p.found = found /\ job.at = "store" /\ job.found = found
    BY <1>2, <1>3
  <2>4. QED
    BY <1>8, <2>1, <2>2, <2>3 DEF UnderWay, EpisodeOK, G!Last
<1>10. job # None /\ job.employee = e
  <2>1. job \in G!Work
    BY <1>1, <1>3 DEF G!Work, G!Stages, G!EvaluatePosition, G!Founds
  <2>2. QED
    BY SameSets, <1>3, <2>1, GeofenceAssumption
<1>11. QED
  BY <1>4, <1>7, <1>9, <1>10, ApartStep

\* What a step of the thread that has a ping in hand starts from, and what it leaves.
LEMMA InHandApart ==
  ASSUME G!TypeOK, Apart, NEW r \in Requests, request[r] # None,
         NEW e, e = request[r].employee,
         \A q \in Requests : q # r => request'[q] = request[q],
         request'[r] # None => request'[r].employee = e,
         \A f \in Employees : f # e => pings'[f] = pings[f] /\ events'[f] = events[f],
         request'[r] = None => EpisodeOK(pings'[e], events'[e]),
         request'[r] # None => UnderWay(r, request'[r], pings'[e], events'[e])
  PROVE  Apart'
<1>1. e \in Employees
  BY InHand
<1>2. \A q \in Requests : q # r => request[q] = None
  BY DEF Apart
<1>3. QED
  BY <1>1, <1>2, ApartStep

\* The whole step of a thread that goes on with the same ping, or is done with it.
LEMMA GoOnRow ==
  ASSUME G!TypeOK, NEW r \in Requests, request[r] # None, NEW job, job = request[r]
  PROVE  /\ \A stage \in G!Stages : G!GoOn(r, stage) =>
              /\ request'[r] # None /\ request'[r].at = stage
              /\ request'[r].employee = job.employee /\ request'[r].found = job.found
              /\ request'[r].event = job.event
              /\ \A q \in Requests : q # r => request'[q] = request[q]
         /\ G!Done(r) => /\ request'[r] = None
                       /\ \A q \in Requests : q # r => request'[q] = request[q]
<1>1. job \in G!Work
  BY DEF G!TypeOK
<1>2. ASSUME NEW stage \in G!Stages, G!GoOn(r, stage)
      PROVE  /\ request'[r] # None /\ request'[r].at = stage
             /\ request'[r].employee = job.employee /\ request'[r].found = job.found
             /\ request'[r].event = job.event
             /\ \A q \in Requests : q # r => request'[q] = request[q]
  <2>1. PICK new : new = [job EXCEPT !.at = stage]
    OBVIOUS
  <2>2. /\ new \in G!Work /\ new.at = stage /\ new.employee = job.employee
        /\ new.found = job.found /\ new.event = job.event
    BY <1>1, <2>1 DEF G!Work
  <2>3. request' = [request EXCEPT ![r] = new]
    BY <1>2, <2>1 DEF G!GoOn
  <2>4. request'[r] = new /\ \A q \in Requests : q # r => request'[q] = request[q]
    BY <2>3 DEF G!TypeOK
  <2>5. QED
    BY SameSets, <2>2, <2>4, GeofenceAssumption
<1>3. QED
  BY <1>2 DEF G!Done, G!TypeOK

LEMMA StoreApart ==
  ASSUME G!TypeOK, Apart, NEW r \in Requests, G!Store(r) PROVE Apart'
<1>1. PICK job, e : job = request[r] /\ e = job.employee
  OBVIOUS
<1>2. PICK s, w : s = pings[e] /\ w = events[e]
  OBVIOUS
<1>3. request[r] # None /\ job.at = "store"
  BY <1>1 DEF G!Store, G!At
<1>4. e \in Employees /\ s \in Seq(G!Ping) /\ job \in G!Work
  BY <1>1, <1>2, <1>3, InHand
<1>5. PICK seen : seen = G!Committed(s, r)
  OBVIOUS
<1>6. /\ s # <<>> /\ s[Len(s)].by = r /\ G!Last(s) = job.found
      /\ \A i \in 1 .. Len(s) - 1 : s[i].by = None
      /\ AllTold(w) /\ Len(w) <= 1
  BY <1>1, <1>2, <1>3 DEF Apart, UnderWay
<1>7. Len(s) \in Nat /\ DOMAIN s = 1 .. Len(s) /\ \A i \in DOMAIN s : s[i] \in G!Ping
  BY <1>4
<1>8. /\ DOMAIN seen = 1 .. Len(s)
      /\ \A i \in 1 .. Len(s) :
           seen[i] \in G!Ping /\ seen[i].by = None /\ seen[i].found = s[i].found
  <2>1. ASSUME NEW i \in 1 .. Len(s)
        PROVE  seen[i] \in G!Ping /\ seen[i].by = None /\ seen[i].found = s[i].found
    <3>1. CASE s[i].by = r
      <4>1. seen[i] = [s[i] EXCEPT !.by = None]
        BY <1>5, <1>7, <3>1 DEF G!Committed
      <4>2. QED
        BY <1>7, <4>1 DEF G!Ping
    <3>2. CASE s[i].by # r
      <4>1. seen[i] = s[i]
        BY <1>5, <1>7, <3>2 DEF G!Committed
      <4>2. i # Len(s)
        BY <1>6, <3>2
      <4>3. \A k \in Nat : \A j \in 1 .. k : j # k => j \in 1 .. k - 1
        OBVIOUS
      <4>4. i \in 1 .. Len(s) - 1
        BY <1>7, <4>2, <4>3
      <4>5. QED
        BY <1>6, <1>7, <4>1, <4>4
    <3>3. QED
      BY <3>1, <3>2
  <2>2. QED
    BY <1>5, <1>7, <2>1 DEF G!Committed
<1>9. seen = [i \in DOMAIN s |-> seen[i]]
  BY <1>5 DEF G!Committed
<1>10. seen \in Seq(G!Ping) /\ Len(seen) = Len(s)
  BY <1>4, <1>7, <1>8, <1>9, ChangedOK
<1>11. PICK n \in 0 .. Len(seen) :
         G!Outdated(seen, n) /\ pings' = [pings EXCEPT ![e] = SubSeq(seen, n + 1, Len(seen))]
  BY <1>1, <1>2, <1>5 DEF G!Store
<1>12. PICK t : t = SubSeq(seen, n + 1, Len(seen))
  OBVIOUS
<1>13. /\ t \in Seq(G!Ping) /\ Len(t) = Len(seen) - n
       /\ \A i \in 1 .. Len(t) : t[i] = seen[i + n]
  BY <1>10, <1>12, Cut
<1>14. AllStored(seen)
  BY <1>8 DEF AllStored
<1>15. AllStored(t) /\ (t # <<>> => G!Last(t) = job.found)
  <2>1. AllStored(t) /\ (t # <<>> => t[Len(t)] = seen[Len(seen)])
    BY <1>10, <1>13, <1>14, TailKept
  <2>2. Len(s) \in 1 .. Len(s)
    BY <1>4, <1>6
  <2>3. seen[Len(seen)].found = job.found
    BY <1>6, <1>8, <1>10, <2>2 DEF G!Last
  <2>4. QED
    BY <2>1, <2>3 DEF G!Last
<1>16. /\ pings'[e] = t /\ events'[e] = w
       /\ \A f \in Employees : f # e => pings'[f] = pings[f] /\ events'[f] = events[f]
  BY <1>2, <1>4, <1>11, <1>12 DEF G!TypeOK, G!Store
<1>17. "look" \in G!Stages /\ job.found \in {"in", "out", "free"}
  BY <1>4 DEF G!Stages, G!Work, G!Founds
<1>18. CASE job.found = "free"
  <2>1. G!Done(r)
    BY <1>1, <1>18 DEF G!Store
  <2>2. EpisodeOK(t, w)
    BY <1>6, <1>13, <1>15, <1>18, DueOutside DEF EpisodeOK
  <2>3. QED
    BY <1>1, <1>3, <1>16, <2>1, <2>2, GoOnRow, InHandApart
<1>19. CASE job.found # "free"
  <2>1. G!GoOn(r, "look")
    BY <1>1, <1>19 DEF G!Store
  <2>2. /\ request'[r] # None /\ request'[r].at = "look" /\ request'[r].employee = e
        /\ request'[r].found = job.found
        /\ \A q \in Requests : q # r => request'[q] = request[q]
    BY <1>1, <1>3, <1>17, <2>1, GoOnRow
  <2>3. UnderWay(r, request'[r], t, w)
    BY <1>6, <1>15, <1>17, <1>19, <2>2 DEF UnderWay, EndsWith
  <2>4. QED
    BY <1>1, <1>3, <1>16, <2>2, <2>3, InHandApart
<1>20. QED
  BY <1>18, <1>19

LEMMA OneOpen ==
  ASSUME NEW w \in Seq(G!Event), Len(w) <= 1, w # <<>>
  PROVE  Len(w) = 1 /\ w[1] \in G!Event
<1>1. Len(w) \in Nat /\ Len(w) # 0
  BY EmptySeq, LenProperties
<1>2. \A n \in Nat : n # 0 /\ n <= 1 => n = 1
  OBVIOUS
<1>3. Len(w) = 1
  BY <1>1, <1>2
<1>4. QED
  BY <1>3, LenProperties

LEMMA LookApart ==
  ASSUME G!TypeOK, Apart, NEW r \in Requests, G!Look(r) PROVE Apart'
<1>1. PICK job, e : job = request[r] /\ e = job.employee
  OBVIOUS
<1>2. PICK s, w : s = pings[e] /\ w = events[e]
  OBVIOUS
<1>3. request[r] # None /\ job.at = "look"
  BY <1>1 DEF G!Look, G!At
<1>4. e \in Employees /\ s \in Seq(G!Ping) /\ w \in Seq(G!Event) /\ job \in G!Work
  BY <1>1, <1>2, <1>3, InHand
<1>5. /\ AllStored(s) /\ EndsWith(s, job.found) /\ job.found \in {"in", "out"}
      /\ AllTold(w) /\ Len(w) <= 1
  BY <1>1, <1>2, <1>3 DEF Apart, UnderWay
<1>6. /\ pings'[e] = s /\ events'[e] = w
      /\ \A f \in Employees : f # e => pings'[f] = pings[f] /\ events'[f] = events[f]
  BY <1>2 DEF G!Look
<1>7. CASE job.found = "in" /\ w # <<>>
  <2>1. Len(w) = 1 /\ w[1] \in G!Event
    BY OneOpen, <1>4, <1>5, <1>7
  <2>2. PICK new : new = [job EXCEPT !.at = "close", !.event = w[1].id]
    OBVIOUS
  <2>3. request' = [request EXCEPT ![r] = new]
    BY <1>1, <1>2, <1>7, <2>1, <2>2 DEF G!Look
  <2>4. w[1].id \in EventIds
    BY <2>1 DEF G!Event
  <2>5. new \in G!Work /\ new.at = "close" /\ new.employee = e /\ new.event = w[1].id
    BY <1>1, <1>4, <2>2, <2>4 DEF G!Work, G!Stages
  <2>6. request'[r] = new /\ new # None /\ \A q \in Requests : q # r => request'[q] = request[q]
    BY SameSets, <2>3, <2>5, GeofenceAssumption DEF G!TypeOK
  <2>7. UnderWay(r, new, s, w)
    BY <1>5, <1>7, <2>1, <2>5 DEF UnderWay
  <2>8. QED
    BY <1>1, <1>3, <1>6, <2>5, <2>6, <2>7, InHandApart
<1>8. CASE job.found = "out" /\ w = <<>>
  <2>1. G!GoOn(r, "count") /\ "count" \in G!Stages
    BY <1>1, <1>2, <1>8 DEF G!Look, G!Stages
  <2>2. /\ request'[r] # None /\ request'[r].at = "count" /\ request'[r].employee = e
        /\ \A q \in Requests : q # r => request'[q] = request[q]
    BY <1>1, <1>3, <2>1, GoOnRow
  <2>3. UnderWay(r, request'[r], s, w)
    BY <1>5, <1>8, <2>2 DEF UnderWay
  <2>4. QED
    BY <1>1, <1>3, <1>6, <2>2, <2>3, InHandApart
<1>9. CASE ~(job.found = "in" /\ w # <<>>) /\ ~(job.found = "out" /\ w = <<>>)
  <2>1. G!Done(r)
    BY <1>1, <1>2, <1>9 DEF G!Look
  <2>2. EpisodeOK(s, w)
    BY <1>4, <1>5, <1>9, DueOutside DEF EpisodeOK, EndsWith
  <2>3. QED
    BY <1>1, <1>3, <1>6, <2>1, <2>2, GoOnRow, InHandApart
<1>10. QED
  BY <1>7, <1>8, <1>9

LEMMA CountApart ==
  ASSUME G!TypeOK, Apart, NEW r \in Requests, G!Count(r) PROVE Apart'
<1>1. PICK job, e : job = request[r] /\ e = job.employee
  OBVIOUS
<1>2. PICK s, w : s = pings[e] /\ w = events[e]
  OBVIOUS
<1>3. request[r] # None /\ job.at = "count"
  BY <1>1 DEF G!Count, G!At
<1>4. AllStored(s) /\ EndsWith(s, "out") /\ w = <<>>
  BY <1>1, <1>2, <1>3 DEF Apart, UnderWay
<1>5. /\ pings'[e] = s /\ events'[e] = w
      /\ \A f \in Employees : f # e => pings'[f] = pings[f] /\ events'[f] = events[f]
  BY <1>2 DEF G!Count
<1>6. CASE G!ShouldOpenExit(s)
  <2>1. G!GoOn(r, "open") /\ "open" \in G!Stages
    BY <1>1, <1>2, <1>6 DEF G!Count, G!Stages
  <2>2. /\ request'[r] # None /\ request'[r].at = "open" /\ request'[r].employee = e
        /\ \A q \in Requests : q # r => request'[q] = request[q]
    BY <1>1, <1>3, <2>1, GoOnRow
  <2>3. UnderWay(r, request'[r], s, w)
    BY <1>4, <2>2 DEF UnderWay
  <2>4. QED
    BY <1>1, <1>3, <1>5, <2>2, <2>3, InHandApart
<1>7. CASE ~G!ShouldOpenExit(s)
  <2>1. G!Done(r)
    BY <1>1, <1>2, <1>7 DEF G!Count
  <2>2. EpisodeOK(s, w)
    BY <1>4, <1>7 DEF EpisodeOK, EndsWith, AllTold
  <2>3. QED
    BY <1>1, <1>3, <1>5, <2>1, <2>2, GoOnRow, InHandApart
<1>8. QED
  BY <1>6, <1>7

LEMMA OpenApart ==
  ASSUME G!TypeOK, Apart, NEW r \in Requests, G!Open(r) PROVE Apart'
<1>1. PICK job, e : job = request[r] /\ e = job.employee
  OBVIOUS
<1>2. PICK s, w : s = pings[e] /\ w = events[e]
  OBVIOUS
<1>3. request[r] # None /\ job.at = "open"
  BY <1>1 DEF G!Open, G!At
<1>4. e \in Employees /\ job \in G!Work
  BY <1>1, <1>2, <1>3, InHand
<1>5. AllStored(s) /\ EndsWith(s, "out") /\ w = <<>>
  BY <1>1, <1>2, <1>3 DEF Apart, UnderWay
<1>6. PICK id \in EventIds, n \in 0 .. Len(w) :
        /\ events' = [events EXCEPT ![e] = G!Opened(w, n, [id |-> id, told |-> FALSE])]
        /\ request' = [request EXCEPT ![r].at = "notify", ![r].event = id]
  BY <1>1, <1>2 DEF G!Open
<1>7. PICK v : v = G!Opened(w, n, [id |-> id, told |-> FALSE])
  OBVIOUS
<1>8. Len(v) = 1 /\ v[1].id = id
  <2>1. PICK x : x = [id |-> id, told |-> FALSE]
    OBVIOUS
  <2>2. n = 0
    BY <1>5
  <2>3. v = Append(SubSeq(<<>>, 1, 0), x) \o SubSeq(<<>>, 1, 0)
    BY <1>5, <1>7, <2>1, <2>2 DEF G!Opened
  <2>4. SubSeq(<<>>, 1, 0) = <<>>
    OBVIOUS
  <2>5. v = <<x>>
    <3>1. x \in G!Event
      BY <2>1 DEF G!Event
    <3>2. \A y \in G!Event : Append(<<>>, y) \o <<>> = <<y>>
      OBVIOUS
    <3>3. QED
      BY <2>3, <2>4, <3>1, <3>2
  <2>6. QED
    BY <2>1, <2>5
<1>9. PICK new : new = [job EXCEPT !.at = "notify", !.event = id]
  OBVIOUS
<1>10. new \in G!Work /\ new.at = "notify" /\ new.employee = e /\ new.event = id
  BY <1>1, <1>4, <1>9 DEF G!Work, G!Stages
<1>11. request'[r] = new /\ new # None /\ \A q \in Requests : q # r => request'[q] = request[q]
  BY SameSets, <1>1, <1>6, <1>9, <1>10, GeofenceAssumption DEF G!TypeOK
<1>12. /\ pings'[e] = s /\ events'[e] = v
       /\ \A f \in Employees : f # e => pings'[f] = pings[f] /\ events'[f] = events[f]
  BY <1>2, <1>4, <1>6, <1>7 DEF G!Open, G!TypeOK
<1>13. UnderWay(r, new, s, v)
  BY <1>5, <1>8, <1>10 DEF UnderWay
<1>14. QED
  BY <1>1, <1>3, <1>10, <1>11, <1>12, <1>13, InHandApart

LEMMA NotifyApart ==
  ASSUME G!TypeOK, Apart, NEW r \in Requests, G!Notify(r) PROVE Apart'
<1>1. PICK job, e : job = request[r] /\ e = job.employee
  OBVIOUS
<1>2. PICK s, w : s = pings[e] /\ w = events[e]
  OBVIOUS
<1>3. request[r] # None /\ job.at = "notify"
  BY <1>1 DEF G!Notify, G!At
<1>4. e \in Employees /\ s \in Seq(G!Ping) /\ w \in Seq(G!Event)
  BY <1>1, <1>2, <1>3, InHand
<1>5. AllStored(s) /\ EndsWith(s, "out") /\ Len(w) = 1 /\ w[1].id = job.event
  BY <1>1, <1>2, <1>3 DEF Apart, UnderWay
<1>6. PICK v : v = G!Told(w, job.event)
  OBVIOUS
<1>7. v \in Seq(G!Event) /\ Len(v) = 1 /\ v # <<>>
  <2>1. v \in Seq(G!Event) /\ Len(v) = 1
    BY <1>4, <1>5, <1>6, ToldOK
  <2>2. QED
    BY <2>1, EmptySeq
<1>8. AllTold(v)
  <2>1. DOMAIN w = 1 .. 1 /\ DOMAIN v = 1 .. 1 /\ w[1] \in G!Event
    BY <1>4, <1>5, <1>7, LenProperties
  <2>2. v[1] = [w[1] EXCEPT !.told = TRUE]
    BY <1>5, <1>6, <2>1 DEF G!Told
  <2>3. v[1].told
    BY <2>1, <2>2 DEF G!Event
  <2>4. QED
    BY <2>1, <2>3 DEF AllTold
<1>9. EpisodeOK(s, v)
  BY <1>5, <1>7, <1>8 DEF EpisodeOK, EndsWith
<1>10. /\ pings'[e] = s /\ events'[e] = v
       /\ \A f \in Employees : f # e => pings'[f] = pings[f] /\ events'[f] = events[f]
  BY <1>1, <1>2, <1>4, <1>6 DEF G!Notify, G!TypeOK
<1>11. G!Done(r)
  BY DEF G!Notify
<1>12. QED
  BY <1>1, <1>3, <1>9, <1>10, <1>11, GoOnRow, InHandApart

LEMMA CloseApart ==
  ASSUME G!TypeOK, Apart, NEW r \in Requests, G!Close(r) PROVE Apart'
<1>1. PICK job, e : job = request[r] /\ e = job.employee
  OBVIOUS
<1>2. PICK s, w : s = pings[e] /\ w = events[e]
  OBVIOUS
<1>3. request[r] # None /\ job.at = "close"
  BY <1>1 DEF G!Close, G!At
<1>4. e \in Employees /\ s \in Seq(G!Ping) /\ w \in Seq(G!Event)
  BY <1>1, <1>2, <1>3, InHand
<1>5. AllStored(s) /\ EndsWith(s, "in") /\ Len(w) = 1 /\ w[1].id = job.event
  BY <1>1, <1>2, <1>3 DEF Apart, UnderWay
<1>6. DOMAIN w = 1 .. 1
  BY <1>4, <1>5, LenProperties
<1>7. PICK i \in DOMAIN w : events' = [events EXCEPT ![e] = G!Without(w, i)]
  BY <1>1, <1>2, <1>5, <1>6 DEF G!Close
<1>8. PICK v : v = G!Without(w, i)
  OBVIOUS
<1>9. v = <<>>
  <2>1. v \in Seq(G!Event) /\ Len(v) = Len(w) - 1
    BY <1>4, <1>8, WithoutOK
  <2>2. Len(v) = 0
    BY <1>5, <2>1
  <2>3. QED
    BY <2>1, <2>2, EmptySeq
<1>10. EpisodeOK(s, v)
  BY <1>4, <1>5, <1>9, DueOutside DEF EpisodeOK, EndsWith, AllTold
<1>11. /\ pings'[e] = s /\ events'[e] = v
       /\ \A f \in Employees : f # e => pings'[f] = pings[f] /\ events'[f] = events[f]
  BY <1>2, <1>4, <1>7, <1>8 DEF G!Close, G!TypeOK
<1>12. G!Done(r)
  BY DEF G!Close
<1>13. QED
  BY <1>1, <1>3, <1>10, <1>11, <1>12, GoOnRow, InHandApart

\* Whatever is changed of an employee's pings, as long as they tell no less of how it ends.
LEMMA PingsApart ==
  ASSUME G!TypeOK, Apart, UNCHANGED <<events, request>>,
         \A e \in Employees : LET s == pings[e]
                                  t == pings'[e]
                              IN  /\ t # <<>> => /\ s # <<>> /\ t[Len(t)].by = s[Len(s)].by
                                                 /\ G!Last(t) = G!Last(s)
                                  /\ s # <<>> /\ s[Len(s)].by # None => t # <<>>
                                  /\ (\A i \in 1 .. Len(s) - 1 : s[i].by = None)
                                       => \A i \in 1 .. Len(t) - 1 : t[i].by = None
                                  /\ AllStored(s) => /\ AllStored(t)
                                                     /\ G!ShouldOpenExit(t) => G!ShouldOpenExit(s)
  PROVE  Apart'
<1>1. ASSUME NEW e \in Employees, G!Quiet(e)' PROVE EpisodeOK(pings'[e], events'[e])
  <2>1. EpisodeOK(pings[e], events[e])
    BY <1>1 DEF Apart, G!Quiet, G!Of
  <2>2. QED
    BY <2>1 DEF EpisodeOK
<1>2. ASSUME NEW r \in Requests, request[r] # None,
             NEW job, NEW e, job = request[r], e = job.employee
      PROVE  UnderWay(r, job, pings'[e], events'[e])
  <2>1. e \in Employees
    BY <1>2, InHand
  <2>2. PICK s, t, w : s = pings[e] /\ t = pings'[e] /\ w = events[e]
    OBVIOUS
  <2>3. UnderWay(r, job, s, w) /\ events'[e] = w
    BY <1>2, <2>2 DEF Apart
  <2>4. /\ t # <<>> => s # <<>> /\ t[Len(t)].by = s[Len(s)].by /\ G!Last(t) = G!Last(s)
        /\ s # <<>> /\ s[Len(s)].by # None => t # <<>>
        /\ (\A i \in 1 .. Len(s) - 1 : s[i].by = None) => \A i \in 1 .. Len(t) - 1 : t[i].by = None
        /\ AllStored(s) => AllStored(t)
    BY <2>1, <2>2
  <2>5. r # None
    BY SameSets, GeofenceAssumption
  <2>6. CASE job.at = "store"
    BY <2>2, <2>3, <2>4, <2>5, <2>6 DEF UnderWay
  <2>7. ASSUME NEW found, AllStored(s), EndsWith(s, found) PROVE AllStored(t) /\ EndsWith(t, found)
    BY <2>4, <2>7 DEF EndsWith
  <2>8. CASE job.at = "look"
    BY <2>2, <2>3, <2>7, <2>8 DEF UnderWay
  <2>9. CASE job.at \in {"count", "open"}
    BY <2>2, <2>3, <2>7, <2>9 DEF UnderWay
  <2>10. CASE job.at = "notify"
    BY <2>2, <2>3, <2>7, <2>10 DEF UnderWay
  <2>11. CASE job.at = "close"
    BY <2>2, <2>3, <2>7, <2>11 DEF UnderWay
  <2>12. job.at \in G!Stages
    BY <1>2 DEF G!TypeOK, G!Work
  <2>13. QED
    BY <2>6, <2>8, <2>9, <2>10, <2>11, <2>12 DEF G!Stages
<1>3. QED
  BY <1>1, <1>2 DEF Apart

LEMMA PurgeApart ==
  ASSUME G!TypeOK, Apart, NEW e \in Employees, G!PurgeOldPings(e) PROVE Apart'
<1>1. PICK n \in DOMAIN pings[e] :
        /\ \A i \in 1 .. n : pings[e][i].by = None
        /\ pings' = [pings EXCEPT ![e] = SubSeq(@, n + 1, Len(@))]
  BY DEF G!PurgeOldPings
<1>2. UNCHANGED <<events, request>>
  BY DEF G!PurgeOldPings
<1>3. PICK s, t : s = pings[e] /\ t = SubSeq(s, n + 1, Len(s))
  OBVIOUS
<1>4. s \in Seq(G!Ping) /\ DOMAIN s = 1 .. Len(s) /\ n \in 1 .. Len(s) /\ Len(s) \in Nat
  BY <1>1, <1>3 DEF G!TypeOK
<1>5. n \in 0 .. Len(s) /\ n \in Nat
  BY <1>4
<1>6. t \in Seq(G!Ping) /\ Len(t) = Len(s) - n /\ \A i \in 1 .. Len(t) : t[i] = s[i + n]
  BY <1>3, <1>4, <1>5, Cut
<1>7. /\ t # <<>> => s # <<>> /\ t[Len(t)] = s[Len(s)]
      /\ AllStored(s) => AllStored(t) /\ (G!ShouldOpenExit(t) => G!ShouldOpenExit(s))
  BY <1>4, <1>5, <1>6, TailKept
<1>8. ASSUME s[Len(s)].by # None PROVE t # <<>>
  <2>1. n # Len(s)
    BY <1>1, <1>3, <1>4, <1>8
  <2>2. \A k \in Nat : \A j \in 1 .. k : j # k => k - j # 0
    OBVIOUS
  <2>3. Len(t) # 0
    BY <1>4, <1>6, <2>1, <2>2
  <2>4. QED
    BY <2>3, EmptySeq
<1>9. ASSUME \A i \in 1 .. Len(s) - 1 : s[i].by = None, NEW i \in 1 .. Len(t) - 1
      PROVE  t[i].by = None
  <2>1. PICK k, m : k = Len(s) /\ m = Len(t)
    OBVIOUS
  <2>2. k \in Nat /\ m = k - n /\ i \in 1 .. m - 1
    BY <1>4, <1>6, <2>1
  <2>3. i + n \in 1 .. k - 1 /\ i \in 1 .. m
    BY <1>5, <2>2
  <2>4. QED
    BY <1>6, <1>9, <2>1, <2>3
<1>10. \A f \in Employees : pings'[f] = IF f = e THEN t ELSE pings[f]
  BY <1>1, <1>3 DEF G!TypeOK
<1>11. QED
  BY <1>2, <1>3, <1>7, <1>8, <1>9, <1>10, PingsApart DEF G!Last

LEMMA NewDayApart ==
  ASSUME G!TypeOK, G!TypeOK', Apart, G!NewDay PROVE Apart'
<1>1. UNCHANGED <<events, request>>
  BY DEF G!NewDay
<1>2. ASSUME NEW e \in Employees, NEW s, NEW t, s = pings[e], t = pings'[e]
      PROVE  /\ s \in Seq(G!Ping) /\ t \in Seq(G!Ping) /\ Len(t) = Len(s)
             /\ \A i \in 1 .. Len(s) : t[i].by = s[i].by /\ t[i].found = s[i].found
  <2>1. s \in Seq(G!Ping) /\ t \in Seq(G!Ping)
    BY <1>2 DEF G!TypeOK
  <2>2. DOMAIN s = 1 .. Len(s) /\ Len(s) \in Nat /\ DOMAIN t = 1 .. Len(t) /\ Len(t) \in Nat
    BY <2>1, LenProperties
  <2>3. t = [i \in DOMAIN s |-> [s[i] EXCEPT !.today = FALSE]]
    BY <1>2 DEF G!NewDay
  <2>4. t = [i \in DOMAIN s |-> t[i]]
    BY <2>3
  <2>5. Len(t) = Len(s)
    <3>1. DOMAIN t = DOMAIN s
      BY <2>3
    <3>2. \A i \in DOMAIN t : t[i] \in G!Ping
      BY <2>1, <2>2
    <3>3. \A i \in DOMAIN s : t[i] \in G!Ping
      BY <3>1, <3>2
    <3>4. QED
      BY <2>1, <2>4, <3>3, ChangedOK
  <2>6. \A i \in 1 .. Len(s) : s[i] \in G!Ping /\ t[i] = [s[i] EXCEPT !.today = FALSE]
    BY <2>1, <2>2, <2>3
  <2>7. QED
    BY <2>1, <2>5, <2>6 DEF G!Ping
<1>3. ASSUME NEW e \in Employees, NEW s, NEW t, s = pings[e], t = pings'[e]
      PROVE  /\ t # <<>> => /\ s # <<>> /\ t[Len(t)].by = s[Len(s)].by /\ G!Last(t) = G!Last(s)
             /\ s # <<>> => t # <<>>
             /\ (\A i \in 1 .. Len(s) - 1 : s[i].by = None)
                  => \A i \in 1 .. Len(t) - 1 : t[i].by = None
             /\ AllStored(s) => AllStored(t) /\ (G!ShouldOpenExit(t) => G!ShouldOpenExit(s))
  <2>1. PICK k : k = Len(s)
    OBVIOUS
  <2>2. /\ s \in Seq(G!Ping) /\ t \in Seq(G!Ping) /\ Len(t) = k
        /\ \A i \in 1 .. k : t[i].by = s[i].by /\ t[i].found = s[i].found
    BY <1>2, <1>3, <2>1
  <2>3. k \in Nat /\ DOMAIN s = 1 .. k /\ DOMAIN t = 1 .. k /\ Threshold \in Nat /\ Threshold >= 1
    BY SameSets, <2>1, <2>2, LenProperties, GeofenceAssumption
  <2>4. (s # <<>> => k # 0) /\ (t # <<>> => k # 0) /\ (k # 0 => s # <<>> /\ t # <<>>)
    BY <2>1, <2>2, EmptySeq
  <2>5. k # 0 => k \in 1 .. k
    BY <2>3
  <2>6. \A i \in 1 .. k - 1 : i \in 1 .. k
    BY <2>3
  <2>7. ASSUME AllStored(s) PROVE AllStored(t)
    BY <2>2, <2>3, <2>7 DEF AllStored
  <2>8. ASSUME AllStored(s), G!ShouldOpenExit(t) PROVE G!ShouldOpenExit(s)
    <3>1. k >= Threshold /\ \A i \in k - Threshold + 1 .. k : t[i].found = "out"
      BY <2>2, <2>7, <2>8, ExitDue
    <3>2. \A i \in k - Threshold + 1 .. k : i \in 1 .. k
      BY <2>3, <3>1
    <3>3. \A i \in k - Threshold + 1 .. k : s[i].found = "out"
      BY <2>2, <3>1, <3>2
    <3>4. QED
      BY <2>1, <2>2, <2>8, <3>1, <3>3, ExitDue
  <2>9. QED
    BY <2>1, <2>2, <2>4, <2>5, <2>6, <2>7, <2>8 DEF G!Last
<1>4. QED
  BY <1>1, <1>3, PingsApart

\* Pings that are handled alone, with nothing failing, stay in good order.
LEMMA StepApart ==
  ASSUME G!TypeOK, Apart,
         \/ \E e \in Employees : G!Clock(e) \/ G!Assign(e) \/ G!Move(e) \/ G!PurgeOldPings(e)
         \/ G!NewDay \/ \E r \in Requests : G!Goes(r)
         \/ \E r \in Requests, e \in Employees :
              G!Report(r, e) /\ \A q \in Requests : request[q] = None
  PROVE  Apart'
<1>1. ASSUME NEW e \in Employees, G!Clock(e) \/ G!Assign(e) \/ G!Move(e) PROVE Apart'
  BY <1>1 DEF G!Clock, G!Assign, G!Move, Apart, G!Quiet, G!Of
<1>2. CASE G!NewDay
  BY <1>2, WorldTypeOK, NewDayApart DEF G!World
<1>3. ASSUME NEW r \in Requests, NEW e \in Employees, G!Report(r, e),
             \A q \in Requests : request[q] = None
      PROVE  Apart'
  BY <1>3, ReportTypeOK, ReportApart
<1>4. ASSUME NEW r \in Requests, G!Goes(r) PROVE Apart'
  BY <1>4, StoreApart, LookApart, CountApart, OpenApart, NotifyApart, CloseApart DEF G!Goes
<1>5. QED
  BY <1>1, <1>2, <1>3, <1>4, PurgeApart

LEMMA InitApart ==
  ASSUME G!Init PROVE Apart
<1>1. ASSUME NEW e \in Employees PROVE EpisodeOK(pings[e], events[e])
  <2>1. pings[e] = <<>> /\ events[e] = <<>> /\ <<>> \in Seq(G!Ping)
    BY DEF G!Init
  <2>2. AllStored(<<>>) /\ AllTold(<<>>) /\ Len(<<>>) = 0
    BY DEF AllStored, AllTold
  <2>3. ~G!ShouldOpenExit(<<>>)
    BY <2>1, <2>2, DueOutside
  <2>4. QED
    BY <2>1, <2>2, <2>3 DEF EpisodeOK
<1>2. QED
  BY <1>1 DEF G!Init, Apart

\* What is open then follows from the pings that are stored.
LEMMA ApartFollows ==
  ASSUME G!TypeOK, Apart PROVE G!EventsFollowPings
BY DEF Apart, G!EventsFollowPings, EpisodeOK, AllTold

-----------------------------------------------------------------------------
(***************************************************************************)
(* The alerts behind the pages: as long as each ping was handled alone and *)
(* to its end, what a thread has found so far is still so.                 *)
(***************************************************************************)
SiteInv == EpisodesInv /\ (whole => Apart)

LEMMA SiteStep ==
  ASSUME SiteInv, SiteNext PROVE SiteInv'
<1>1. G!Next
  BY DEF SiteNext, G!Next, G!World
<1>2. EpisodesInv'
  BY <1>1, NextEpisodes DEF SiteInv
<1>3. ASSUME whole' PROVE Apart'
  <2>1. whole
    BY <1>3 DEF SiteNext
  <2>2. \/ \E e \in Employees : G!Clock(e) \/ G!Assign(e) \/ G!Move(e) \/ G!PurgeOldPings(e)
        \/ G!NewDay \/ \E r \in Requests : G!Goes(r)
        \/ \E r \in Requests, e \in Employees :
             G!Report(r, e) /\ \A q \in Requests : request[q] = None
    BY <1>3 DEF SiteNext, NoPing
  <2>3. QED
    BY <2>1, <2>2, StepApart DEF SiteInv, EpisodesInv
<1>4. QED
  BY <1>2, <1>3 DEF SiteInv

LEMMA SiteFollows ==
  ASSUME SiteInv PROVE G!TypeOK /\ G!EpisodesBounded /\ (whole => G!EventsFollowPings)
BY ApartFollows DEF SiteInv, EpisodesInv

-----------------------------------------------------------------------------
(***************************************************************************)
(* Whichever is looked at.                                                 *)
(***************************************************************************)
ShellInv ==
  /\ at \in Uses => SessionInv
  /\ at = "routes" => R!TypeOK
  /\ at = "bell" => BellInv
  /\ at = "map" => MapInv
  /\ at = "site" => SiteInv

LEMMA InitShell == MCInit => ShellInv
<1> SUFFICES ASSUME MCInit PROVE ShellInv
  OBVIOUS
<1>1. CASE at \in Uses
  <2>1. Init
    BY <1>1 DEF MCInit, Uses
  <2>2. SessionInv
    <3>1. TypeOK
      <4>1. tab \in [Tabs -> [auth : Session \cup {None}, locked : BOOLEAN]]
        BY <2>1 DEF Init, Loaded
      <4>2. QED
        BY <2>1, <4>1 DEF Init, TypeOK
    <3>2. \A t \in Tabs : tab[t].auth = None /\ call[t].op = "free"
      BY <2>1 DEF Init, Loaded, Free
    <3>3. Settled
      BY <2>1, <3>2 DEF Init, Settled, Truthful
    <3>4. QED
      BY <3>1, <3>3 DEF SessionInv
  <2>3. QED
    BY <1>1, <2>2 DEF ShellInv, Uses
<1>2. CASE at = "routes"
  BY <1>2 DEF MCInit, ShellInv, Uses, R!Init, R!TypeOK
<1>3. CASE at = "bell"
  <2>1. B!Init /\ crossed = FALSE
    BY <1>3 DEF MCInit, Uses
  <2>2. BellInv
    <3>1. DOMAIN items = {} /\ count = 0 /\ open = FALSE /\ loading = FALSE
      BY <2>1 DEF B!Init
    <3>2. 0 \in Counts
      <4>1. B!Cardinality(Notes) \in Counts
        BY CountsOK
      <4>2. QED
        BY <4>1 DEF Counts
    <3>3. DOMAIN call = Calls /\ \A q \in Calls : call[q] = B!Free
      BY <2>1 DEF B!Init
    <3>4. B!Free.op = "free"
      BY DEF B!Free
    <3>5. \A q \in Calls : BellCallOK(q)
      BY <3>3, <3>4 DEF BellCallOK
    <3>6. B!TypeOK
      BY <2>1, <3>1, <3>2, <3>3 DEF B!Init, B!TypeOK, Counts
    <3>7. QED
      BY <3>1, <3>5, <3>6 DEF BellInv, ListOK
  <2>3. QED
    BY <1>3, <2>2 DEF ShellInv, Uses
<1>4. CASE at = "map"
  <2>1. V!Init
    BY <1>4 DEF MCInit, Uses
  <2>2. MapInv
    <3>1. 0 \in V!Positions
      BY AssumptionsOfShell DEF V!LiveMapAssumption, V!Positions
    <3>2. fleet \in V!Fleets /\ vehicles \in V!Fleets
      BY <2>1, <3>1 DEF V!Init, V!Fleets
    <3>3. V!Listed(vehicles) = {} /\ socketsRef = {} /\ alive = {} /\ updates = {}
      BY <2>1 DEF V!Init, V!Listed
    <3>4. call \in [Calls -> MapCalls] /\ \A q \in Calls : call[q] \in {V!Free, Sent}
      BY <2>1 DEF V!Init, MapCalls, Sent
    <3>5. \A q \in Calls : call[q].stage # "done"
      BY <3>4, MapKnown
    <3>6. V!TypeOK
      BY <3>2, <3>3, <3>5 DEF V!TypeOK
    <3>7. QED
      BY <3>3, <3>4, <3>6 DEF MapInv, V!SocketsCounted, V!Subscribed
  <2>3. QED
    BY <1>4, <2>2 DEF ShellInv, Uses
<1>5. CASE at = "site"
  <2>1. G!Init
    BY <1>5 DEF MCInit, Uses
  <2>2. SiteInv
    BY <2>1, InitEpisodes, InitApart DEF SiteInv
  <2>3. QED
    BY <1>5, <2>2 DEF ShellInv, Uses
<1>6. QED
  BY <1>1, <1>2, <1>3, <1>4, <1>5 DEF MCInit

\* A step changes only what is looked at, and of that no more than its actions do.
LEMMA NextShell == ShellInv /\ MCNext => ShellInv'
<1> SUFFICES ASSUME ShellInv, MCNext PROVE ShellInv'
  OBVIOUS
<1>1. at' = at
  BY DEF MCNext
<1>2. CASE SessionNext
  BY <1>1, <1>2, SessionStep DEF ShellInv, SessionNext, Uses
<1>3. CASE RoutesNext
  BY <1>1, <1>3, RoutesStep DEF ShellInv, RoutesNext, Uses
<1>4. CASE BellNext
  BY <1>1, <1>4, BellStep DEF ShellInv, BellNext, Uses
<1>5. CASE MapNext
  BY <1>1, <1>5, MapStep DEF ShellInv, MapNext, Uses
<1>6. CASE SiteNext
  BY <1>1, <1>6, SiteStep DEF ShellInv, SiteNext, Uses
<1>7. QED
  BY <1>2, <1>3, <1>4, <1>5, <1>6 DEF MCNext

LEMMA IdleShell == ShellInv /\ UNCHANGED everything => ShellInv'
<1> SUFFICES ASSUME ShellInv, UNCHANGED everything PROVE ShellInv'
  OBVIOUS
<1>1. UNCHANGED <<sessionVars, call, at, reset>>
  BY DEF everything
<1>2. at \in Uses => SessionInv'
  BY <1>1 DEF ShellInv, sessionVars, SessionInv, TypeOK, Settled, Truthful
<1>3. UNCHANGED routeVars
  BY DEF everything
<1>4. at = "routes" => R!TypeOK'
  BY <1>3 DEF ShellInv, routeVars, R!TypeOK
<1>5. UNCHANGED <<bellVars, call, crossed>>
  BY DEF everything
<1>6. at = "bell" => BellInv'
  <2>1. \A q : BellCallOK(q) => BellCallOK(q)'
    BY <1>5 DEF bellVars, BellCallOK, ListOK, Counts
  <2>2. BellInv => BellInv'
    BY <1>5, <2>1 DEF bellVars, BellInv, B!TypeOK, ListOK
  <2>3. QED
    BY <2>2 DEF ShellInv
<1>7. UNCHANGED <<mapVars, call, swapped>>
  BY DEF everything
<1>8. at = "map" => MapInv'
  BY <1>7 DEF ShellInv, mapVars, MapInv, V!TypeOK, V!SocketsCounted, V!Subscribed, V!Listed
<1>9. UNCHANGED siteVars
  BY DEF everything
<1>10. at = "site" => SiteInv'
  <2>1. UNCHANGED G!vars /\ UNCHANGED whole
    BY <1>9 DEF siteVars, G!vars, G!world
  <2>2. EpisodesInv => EpisodesInv'
    BY <2>1, NextEpisodes
  <2>3. Apart => Apart'
    BY <2>1 DEF G!vars, Apart, G!Quiet, G!Of
  <2>4. QED
    BY <2>1, <2>2, <2>3 DEF ShellInv, SiteInv
<1>11. QED
  BY <1>1, <1>2, <1>4, <1>6, <1>8, <1>10 DEF ShellInv

LEMMA ShellKept == MCSpec => []ShellInv
<1>1. ShellInv /\ [MCNext]_everything => ShellInv'
  BY NextShell, IdleShell
<1>2. QED
  BY InitShell, <1>1, PTL DEF MCSpec

\* The session, the bell, the map and the alerts hold what their types say
\* (AuthContext.tsx, NotificationBell.tsx, LiveTracking.tsx, geofence_service.py).
THEOREM ShellTyped == MCSpec => []TypesOK
<1>1. ShellInv => TypesOK
  BY SiteFollows DEF ShellInv, TypesOK, SessionInv, BellInv, MapInv
<1>2. QED
  BY ShellKept, <1>1, PTL

\* Whatever the role, no link that is offered leads elsewhere than to its page, and no
\* chain of redirections goes round (App.tsx, Sidebar.tsx).
THEOREM LinksAlwaysAdmit == MCSpec => []LinksAdmit
<1>1. ShellInv => LinksAdmit
  BY LinksLead DEF ShellInv, LinksAdmit
<1>2. QED
  BY ShellKept, <1>1, PTL

\* However many calls of the bell overlap, its list shows as read only what was read;
\* and however the list of vehicles changes, the map has as many sockets as vehicles,
\* and theirs (NotificationBell.tsx, LiveTracking.tsx).
THEOREM CopiesStayTrue == MCSpec => []CopiesAreTrue
<1>1. ShellInv => CopiesAreTrue
  BY DEF ShellInv, CopiesAreTrue, BellInv, ListOK, B!ReadIsRead, MapInv
<1>2. QED
  BY ShellKept, <1>1, PTL

\* For any number of threads and any threshold, an employee has no more open events
\* than threads; and as long as pings are handled alone and to their ends, an event is
\* open and announced once the last Threshold pings came from outside, and none once
\* the last came from inside (geofence_service.py:206).
THEOREM EpisodesStaySound == MCSpec => []EpisodesSound
<1>1. ShellInv => EpisodesSound
  BY SiteFollows DEF ShellInv, EpisodesSound
<1>2. QED
  BY ShellKept, <1>1, PTL

\* No tab's session stops asking for a new password before the server has one, unless
\* an administrator reset it meanwhile; and login leads to a page that is shown
\* (SetPassword.tsx:41, Login.tsx).
THEOREM SessionsStayTrue == MCSpec => SessionsAreTrue
<1>1. ASSUME ShellInv, MCNext
      PROVE  /\ at \in Uses /\ ~reset' => AsksUntilSet
             /\ at = "routes" => R!HomeAdmits
  <2>1. CASE SessionNext
    BY <1>1, <2>1, SessionStep DEF ShellInv, SessionNext, Uses
  <2>2. CASE RoutesNext
    BY <1>1, <2>2, RoutesStep DEF ShellInv, RoutesNext, Uses
  <2>3. CASE BellNext \/ MapNext \/ SiteNext
    BY <2>3 DEF BellNext, MapNext, SiteNext, Uses
  <2>4. QED
    BY <1>1, <2>1, <2>2, <2>3 DEF MCNext
<1>2. ShellInv /\ [MCNext]_everything =>
        [/\ at \in Uses /\ ~reset' => AsksUntilSet
         /\ at = "routes" => R!HomeAdmits]_everything
  BY <1>1
<1>3. QED
  BY ShellKept, <1>2, PTL DEF MCSpec, SessionsAreTrue
=============================================================================
