------------------------------- MODULE Session -------------------------------
(***************************************************************************)
(* The session of the web client: context/AuthContext.tsx, the lock        *)
(* screen, the login and set-password forms, the company switcher, and the *)
(* interceptor of api/axiosConfig.ts that ends a session the server no     *)
(* longer knows.  Browser tabs share the session in local storage; each    *)
(* keeps a copy, made when it was loaded, which no other tab updates.      *)
(***************************************************************************)
EXTENDS Naturals, Null

CONSTANTS
  Tabs,       \* browser tabs
  Users,      \* users that sign in
  Masters,    \* those with the company switcher
  Companies,  \* the companies it offers
  All         \* no company: the global view

ASSUME SessionAssumption == Masters \subseteq Users /\ None \notin Users

VARIABLES
  stored,      \* erp_auth in local storage
  storedLock,  \* erp_locked in local storage
  tab,         \* for each tab, its copy: [auth, locked]
  call,        \* for each tab, the call of its form under way
  watch,       \* for each tab, the inactivity timer: "reset" while its user is
               \* there, "runs" once the user has left, "spent" when it went off
  must         \* the server's users that have to set their own password

vars == <<stored, storedLock, tab, call, watch, must>>

Session == [user : Users, must : BOOLEAN, company : Companies \cup {All}]

Free == [op |-> "free"]
Idle(t) == call[t] = Free

\* A page that is loaded takes its copy from the storage.
Loaded(s, l) == [auth |-> s, locked |-> l]

Init ==
  /\ stored = None /\ storedLock = FALSE
  /\ tab = [t \in Tabs |-> Loaded(None, FALSE)]
  /\ call = [t \in Tabs |-> Free]
  /\ watch = [t \in Tabs |-> "reset"]
  /\ must \in SUBSET Users

\* What a tab does is done by a user who is there.
There(t) == watch[t] = "reset"
SignedIn(t) == tab[t].auth # None /\ ~tab[t].locked
Locked(t) == tab[t].auth # None /\ tab[t].locked

Copy(t, s, l) == tab' = [tab EXCEPT ![t] = Loaded(s, l)]
Send(t, c) == Idle(t) /\ call' = [call EXCEPT ![t] = c]
End(t) == call' = [call EXCEPT ![t] = Free]

-----------------------------------------------------------------------------
\* The functions of the context, as they are called by tab t.
login(t, s) == stored' = s /\ storedLock' = FALSE /\ Copy(t, s, FALSE)

logout(t) == stored' = None /\ storedLock' = FALSE /\ Copy(t, None, FALSE)

\* Mutant: only the storage is locked.
lockStored(t) == storedLock' = TRUE /\ UNCHANGED <<stored, tab>>

lock(t) == storedLock' = TRUE /\ Copy(t, tab[t].auth, TRUE) /\ UNCHANGED stored

unlock(t) == storedLock' = FALSE /\ Copy(t, tab[t].auth, FALSE) /\ UNCHANGED stored

switchCompany(t, c) ==
  /\ stored' = [tab[t].auth EXCEPT !.company = c]
  /\ Copy(t, stored', tab[t].locked)
  /\ UNCHANGED storedLock

\* An answer 401, whatever was asked: the session leaves the storage, not the
\* lock, and the login page is loaded.
Unauthorized(t) ==
  /\ stored' = None
  /\ Copy(t, None, storedLock)
  /\ End(t)
  /\ UNCHANGED storedLock

-----------------------------------------------------------------------------
Reload(t) ==
  /\ There(t)
  /\ Copy(t, stored, storedLock)
  /\ End(t)
  /\ UNCHANGED <<stored, storedLock, watch, must>>

Leave(t) ==
  /\ There(t)
  /\ watch' = [watch EXCEPT ![t] = "runs"]
  /\ UNCHANGED <<stored, storedLock, tab, call, must>>

Return(t) ==
  /\ ~There(t)
  /\ watch' = [watch EXCEPT ![t] = "reset"]
  /\ UNCHANGED <<stored, storedLock, tab, call, must>>

\* The effect arms the timer of a session that is not locked.  It is longer
\* than any call: minutes, and a call is given up after ten seconds.
Timer(t) ==
  /\ watch[t] = "runs" /\ SignedIn(t) /\ Idle(t)
  /\ watch' = [watch EXCEPT ![t] = "spent"]
  /\ IF stored # None THEN lock(t) ELSE UNCHANGED <<stored, storedLock, tab>>
  /\ UNCHANGED <<call, must>>

Lock(t) ==
  /\ There(t) /\ SignedIn(t) /\ ~tab[t].auth.must
  /\ lock(t)
  /\ UNCHANGED <<call, watch, must>>

Logout(t) ==
  /\ There(t) /\ tab[t].auth # None
  /\ SignedIn(t) => ~tab[t].auth.must
  /\ logout(t)
  /\ UNCHANGED <<call, watch, must>>

SwitchCompany(t, c) ==
  /\ There(t) /\ SignedIn(t) /\ ~tab[t].auth.must
  /\ tab[t].auth.user \in Masters
  /\ switchCompany(t, c)
  /\ UNCHANGED <<call, watch, must>>

\* Any page's request carries the storage's token, and none is a reason for a
\* 401; so is one that has expired.
Request(t) ==
  /\ There(t) /\ SignedIn(t)
  /\ Unauthorized(t)
  /\ UNCHANGED <<watch, must>>

-----------------------------------------------------------------------------
\* The forms: a submit, and its answer.
SubmitLogin(t, u) ==
  /\ There(t) /\ tab[t].auth = None
  /\ Send(t, [op |-> "login", user |-> u])
  /\ UNCHANGED <<stored, storedLock, tab, watch, must>>

LoginAnswer(t) ==
  /\ call[t].op = "login"
  /\ \E s \in Session :
       /\ s.user = call[t].user /\ s.must = (s.user \in must)
       /\ s.company = All <=> s.user \in Masters
       /\ login(t, s)
  /\ End(t)
  /\ UNCHANGED <<watch, must>>

LoginRefused(t) ==
  /\ call[t].op = "login"
  /\ Unauthorized(t)
  /\ UNCHANGED <<watch, must>>

\* The secret is compared with the one of the token's user.
SubmitUnlock(t) ==
  /\ There(t) /\ Locked(t)
  /\ \E right \in BOOLEAN :
       Send(t, [op |-> "unlock", user |-> tab[t].auth.user, right |-> right])
  /\ UNCHANGED <<stored, storedLock, tab, watch, must>>

Accepted(c) == c.right /\ stored # None /\ stored.user = c.user

UnlockAnswer(t) ==
  /\ call[t].op = "unlock"
  /\ IF Accepted(call[t]) THEN unlock(t) /\ End(t) ELSE Unauthorized(t)
  /\ UNCHANGED <<watch, must>>

\* The handler keeps the session of the render in which it was submitted.
SubmitPassword(t) ==
  /\ There(t) /\ SignedIn(t)
  /\ Send(t, [op |-> "password", auth |-> tab[t].auth, served |-> FALSE])
  /\ UNCHANGED <<stored, storedLock, tab, watch, must>>

\* The password in the form is that of the user of the form.
ServePassword(t) ==
  /\ call[t].op = "password" /\ ~call[t].served
  /\ stored # None /\ stored.user = call[t].auth.user
  /\ must' = must \ {stored.user}
  /\ call' = [call EXCEPT ![t].served = TRUE]
  /\ UNCHANGED <<stored, storedLock, tab, watch>>

\* Mutant: the session goes on whatever the answer was.
PasswordAnswerAny(t) ==
  /\ call[t].op = "password"
  /\ login(t, [call[t].auth EXCEPT !.must = FALSE]) /\ End(t)
  /\ UNCHANGED <<watch, must>>

PasswordAnswer(t) ==
  /\ call[t].op = "password"
  /\ IF call[t].served THEN login(t, [call[t].auth EXCEPT !.must = FALSE]) /\ End(t)
     ELSE stored = None /\ Unauthorized(t)
  /\ UNCHANGED <<watch, must>>

\* A wrong password of that form, or no answer at all: an error is shown.
Fail(t) ==
  /\ ~Idle(t)
  /\ End(t)
  /\ UNCHANGED <<stored, storedLock, tab, watch, must>>

\* An administrator gives a user another password (backend/routers/auth.py:325).
ResetPassword(u) ==
  /\ must' = must \cup {u}
  /\ UNCHANGED <<stored, storedLock, tab, call, watch>>

Answers(t) == LoginAnswer(t) \/ LoginRefused(t) \/ UnlockAnswer(t) \/ PasswordAnswer(t) \/ Fail(t)

TabStep(t) ==
  \/ Reload(t) \/ Leave(t) \/ Return(t) \/ Timer(t)
  \/ Lock(t) \/ Logout(t) \/ Request(t)
  \/ \E c \in Companies \cup {All} : SwitchCompany(t, c)
  \/ \E u \in Users : SubmitLogin(t, u)
  \/ SubmitUnlock(t) \/ SubmitPassword(t) \/ ServePassword(t) \/ Answers(t)

Next == (\E t \in Tabs : TabStep(t)) \/ \E u \in Users : ResetPassword(u)

Spec == Init /\ [][Next]_vars

-----------------------------------------------------------------------------
\* The session, the lock and the calls of the tabs.
TypeOK ==
  /\ stored \in Session \cup {None}
  /\ storedLock \in BOOLEAN
  /\ tab \in [Tabs -> [auth : Session \cup {None}, locked : BOOLEAN]]
  /\ call \in [Tabs -> {Free} \cup [op : {"login"}, user : Users]
                       \cup [op : {"unlock"}, user : Users, right : BOOLEAN]
                       \cup [op : {"password"}, auth : Session, served : BOOLEAN]]
  /\ watch \in [Tabs -> {"reset", "runs", "spent"}]
  /\ must \subseteq Users

\* A session stops asking for a new password only after the server has one.
AsksUntilSet ==
  \A t \in Tabs :
    /\ tab[t].auth # None /\ tab[t].auth.must
    /\ tab'[t].auth # None /\ ~tab'[t].auth.must
    => tab'[t].auth.user \notin must'

\* A session whose user has left is to be locked or over in the end, unless
\* another tab has taken it out of the storage, which is what the timer looks at.
LeftAlone(t) == watch[t] = "runs"
Guarded(t) == ~SignedIn(t) \/ stored = None \/ There(t)
=============================================================================
