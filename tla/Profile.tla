------------------------------- MODULE Profile -------------------------------
(***************************************************************************)
(* The profile page (frontend/src/pages/profile/Profile.tsx) with the      *)
(* theme of context/ThemeContext.tsx: its forms, each with its call and    *)
(* its busy flag, the codes that verify an address, and the session's      *)
(* copies of what the page changes, which are those of the sign-in.        *)
(***************************************************************************)
EXTENDS Naturals

CONSTANTS
  Names,    \* contents of the account, of a photo, of the employee's details
  Minutes,  \* lock timeouts
  Themes,
  Calls,    \* bound: calls under way at once
  None

ProfileAssumption == None \notin Themes

VARIABLES
  server,    \* the user the server keeps
  pending,   \* the server's type of the code it waits for, if any
  session,   \* lock, pin and theme as they were at the sign-in
  theme,     \* the theme in use, and in local storage
  user, employee,        \* the page's copies of the user and of the employee
  profile, lockTimeout,  \* what the forms hold
  empForm, editing,
  verifying, codeSent,
  busy,      \* the flags that are set
  call       \* the calls under way

page == <<user, employee, profile, lockTimeout, empForm, editing, verifying, codeSent, busy>>
vars == <<server, pending, session, theme, page, call>>

Kinds == {"email", "phone"}
User == [profile : Names, photo : Names, lock : Minutes, pin : BOOLEAN,
         theme : Themes \cup {None}, employee : Names]

Free == [op |-> "free"]
Waits(q) == call[q] # Free
Quiet == \A q \in Calls : ~Waits(q)

\* A change is the part of the user that the server will replace.
Sent(op, change) == [op |-> op, change |-> change, served |-> FALSE]
Send(q, c) == ~Waits(q) /\ call' = [call EXCEPT ![q] = c]

\* What the sign-in answers, and the theme's effect on every new session.
SessionOf(u) == [lock |-> u.lock, pin |-> u.pin, theme |-> u.theme]
Applied(s, t) == IF s.theme = None THEN t ELSE s.theme

\* The page as it is mounted, asking for the user.
Mounted ==
  /\ user' = None /\ employee' = None
  /\ profile' = None /\ lockTimeout' = None /\ empForm' = None /\ editing' = FALSE
  /\ verifying' = None /\ codeSent' = FALSE /\ busy' = {}
  /\ \E q \in Calls : call' = [p \in Calls |-> IF p = q THEN Sent("load", <<>>) ELSE Free]

Init ==
  /\ server \in User /\ pending = None
  /\ session = SessionOf(server)
  /\ \E t \in Themes : theme = Applied(session, t)
  /\ user = None /\ employee = None
  /\ profile = None /\ lockTimeout = None /\ empForm = None /\ editing = FALSE
  /\ verifying = None /\ codeSent = FALSE /\ busy = {}
  /\ \E q \in Calls : call = [p \in Calls |-> IF p = q THEN Sent("load", <<>>) ELSE Free]

SignIn ==
  /\ session' = SessionOf(server)
  /\ theme' = Applied(session', theme)
  /\ Mounted
  /\ UNCHANGED <<server, pending>>

Reload ==
  /\ theme' = Applied(session, theme)
  /\ Mounted
  /\ UNCHANGED <<server, pending, session>>

\* Another company is chosen: a new session object, and the theme's effect.
SwitchCompany ==
  /\ theme' = Applied(session, theme)
  /\ UNCHANGED <<server, pending, session, page, call>>

-----------------------------------------------------------------------------
Flag ==
  [op \in {"account", "photo", "lock", "pin", "unpin", "refresh", "theme", "employee",
           "password"} |->
     CASE op \in {"account", "photo"} -> "saving"
       [] op = "lock" -> "lockSaving"
       [] op \in {"pin", "unpin", "refresh"} -> "pinSaving"
       [] op = "theme" -> "themeSaving"
       [] op = "employee" -> "empSaving"
       [] op = "password" -> "pwSaving"]

Flags == {Flag[op] : op \in DOMAIN Flag}

\* A button that is disabled while its flag is set.
Submit(q, op, change) ==
  /\ Flag[op] \notin busy
  /\ busy' = busy \cup {Flag[op]}
  /\ Send(q, Sent(op, change))
  /\ UNCHANGED <<server, pending, session>>
  /\ UNCHANGED <<user, employee, profile, lockTimeout, empForm, editing, verifying, codeSent>>

Type ==
  /\ \/ profile' \in Names /\ UNCHANGED <<lockTimeout, empForm>>
     \/ lockTimeout' \in Minutes /\ UNCHANGED <<profile, empForm>>
     \/ editing /\ empForm' \in Names /\ UNCHANGED <<profile, lockTimeout>>
  /\ user # None
  /\ UNCHANGED <<server, pending, session, theme, call>>
  /\ UNCHANGED <<user, employee, editing, verifying, codeSent, busy>>

HandleProfileSave(q) ==
  /\ user # None
  /\ Submit(q, "account", [profile |-> profile]) /\ UNCHANGED theme

HandlePhotoUpload(q, image) ==
  /\ user # None
  /\ Submit(q, "photo", [photo |-> image]) /\ UNCHANGED theme

\* The account form is sent along, saved or not.
HandleLockSave(q) ==
  /\ user # None
  /\ Submit(q, "lock", [profile |-> profile, lock |-> lockTimeout]) /\ UNCHANGED theme

HandleSetPin(q) == user # None /\ Submit(q, "pin", [pin |-> TRUE]) /\ UNCHANGED theme

HandleRemovePin(q) ==
  /\ user # None /\ user.pin
  /\ Submit(q, "unpin", [pin |-> FALSE]) /\ UNCHANGED theme

HandlePwChange(q) == user # None /\ Submit(q, "password", <<>>) /\ UNCHANGED theme

\* The theme is used before it is saved, and stays whatever the answer.
HandleThemeSave(q, t) == Submit(q, "theme", [theme |-> t]) /\ theme' = t

StartEdit ==
  /\ employee # None /\ ~editing
  /\ empForm' = employee /\ editing' = TRUE
  /\ UNCHANGED <<server, pending, session, theme, call>>
  /\ UNCHANGED <<user, employee, profile, lockTimeout, verifying, codeSent, busy>>

CancelEdit ==
  /\ editing /\ editing' = FALSE
  /\ UNCHANGED <<server, pending, session, theme, call>>
  /\ UNCHANGED <<user, employee, profile, lockTimeout, empForm, verifying, codeSent, busy>>

HandleEmpSave(q) ==
  /\ editing
  /\ Submit(q, "employee", [employee |-> empForm]) /\ UNCHANGED theme

\* One kind is verified at a time; only that kind's button is disabled.
HandleSendCode(q, kind) ==
  /\ user # None /\ verifying # kind
  /\ verifying' = kind /\ codeSent' = FALSE
  /\ Send(q, [op |-> "send", kind |-> kind, served |-> FALSE])
  /\ UNCHANGED <<server, pending, session, theme>>
  /\ UNCHANGED <<user, employee, profile, lockTimeout, empForm, editing, busy>>

HandleVerifyCode(q) ==
  /\ verifying # None /\ codeSent
  /\ Send(q, [op |-> "verify", kind |-> verifying, served |-> FALSE])
  /\ UNCHANGED <<server, pending, session, theme, page>>

CancelVerify ==
  /\ verifying # None /\ codeSent
  /\ verifying' = None /\ codeSent' = FALSE
  /\ UNCHANGED <<server, pending, session, theme, call>>
  /\ UNCHANGED <<user, employee, profile, lockTimeout, empForm, editing, busy>>

-----------------------------------------------------------------------------
\* A user with the part of it that a change holds.
Changed(u, change) ==
  [part \in DOMAIN u |-> IF part \in DOMAIN change THEN change[part] ELSE u[part]]

\* The server; a call that is not served is refused, or lost.
Serve(q) ==
  /\ Waits(q) /\ ~call[q].served
  /\ \/ /\ call[q].op = "send"
        /\ pending' = call[q].kind
        /\ call' = [call EXCEPT ![q].served = TRUE] /\ UNCHANGED server
     \/ /\ call[q].op = "verify" /\ pending = call[q].kind
        /\ pending' = None
        /\ call' = [call EXCEPT ![q].served = TRUE] /\ UNCHANGED server
     \/ /\ call[q].op \notin {"send", "verify"}
        /\ server' = Changed(server, call[q].change)
        /\ call' = [call EXCEPT ![q] = [op |-> @.op, answer |-> server', served |-> TRUE]]
        /\ UNCHANGED pending
  /\ UNCHANGED <<session, theme, page>>

\* A code lasts five minutes.
Expire ==
  /\ pending # None /\ pending' = None
  /\ UNCHANGED <<server, session, theme, page, call>>

End(q) == call' = [call EXCEPT ![q] = Free]
Lowered(op) == busy' = IF op \in DOMAIN Flag THEN busy \ {Flag[op]} ELSE busy

Loaded(q) ==
  /\ call[q].op = "load"
  /\ user' = call[q].answer
  /\ profile' = call[q].answer.profile /\ lockTimeout' = call[q].answer.lock
  /\ call' = [call EXCEPT ![q] = Sent("details", <<>>)]
  /\ UNCHANGED <<employee, empForm, editing, verifying, codeSent, busy>>

Detailed(q) ==
  /\ call[q].op = "details"
  /\ employee' = call[q].answer.employee
  /\ End(q)
  /\ UNCHANGED <<user, profile, lockTimeout, empForm, editing, verifying, codeSent, busy>>

Stored(q) ==
  /\ call[q].op \in {"account", "photo", "lock", "refresh"}
  /\ user' = call[q].answer
  /\ Lowered(call[q].op) /\ End(q)
  /\ UNCHANGED <<employee, profile, lockTimeout, empForm, editing, verifying, codeSent>>

\* Mutant: the user is not asked for again.
PinChangedOnly(q) ==
  /\ call[q].op \in {"pin", "unpin"}
  /\ Lowered("pin") /\ End(q)
  /\ UNCHANGED <<user, employee, profile, lockTimeout, empForm, editing, verifying, codeSent>>

\* After the PIN was set or removed the user is asked for again.
PinChanged(q) ==
  /\ call[q].op \in {"pin", "unpin"}
  /\ call' = [call EXCEPT ![q] = Sent("refresh", <<>>)]
  /\ UNCHANGED page

Done(q) ==
  /\ call[q].op \in {"theme", "password"}
  /\ Lowered(call[q].op) /\ End(q)
  /\ UNCHANGED <<user, employee, profile, lockTimeout, empForm, editing, verifying, codeSent>>

EmpSaved(q) ==
  /\ call[q].op = "employee"
  /\ employee' = call[q].answer.employee /\ editing' = FALSE
  /\ Lowered("employee") /\ End(q)
  /\ UNCHANGED <<user, profile, lockTimeout, empForm, verifying, codeSent>>

CodeSent(q) ==
  /\ call[q].op = "send"
  /\ codeSent' = TRUE
  /\ End(q)
  /\ UNCHANGED <<user, employee, profile, lockTimeout, empForm, editing, verifying, busy>>

Verified(q) ==
  /\ call[q].op = "verify"
  /\ verifying' = None /\ codeSent' = FALSE
  /\ End(q)
  /\ UNCHANGED <<user, employee, profile, lockTimeout, empForm, editing, busy>>

Answer(q) ==
  /\ Waits(q) /\ call[q].served
  /\ \/ Loaded(q) \/ Detailed(q) \/ Stored(q) \/ PinChanged(q) \/ Done(q) \/ EmpSaved(q)
     \/ CodeSent(q) \/ Verified(q)
  /\ UNCHANGED <<server, pending, session, theme>>

Fail(q) ==
  /\ Waits(q)
  /\ Lowered(call[q].op) /\ End(q)
  /\ verifying' = IF call[q].op = "send" THEN None ELSE verifying
  /\ UNCHANGED <<server, pending, session, theme>>
  /\ UNCHANGED <<user, employee, profile, lockTimeout, empForm, editing, codeSent>>

-----------------------------------------------------------------------------
Handlers ==
  \E q \in Calls :
    \/ HandleProfileSave(q) \/ HandleLockSave(q) \/ HandleSetPin(q) \/ HandleRemovePin(q)
    \/ HandlePwChange(q) \/ HandleEmpSave(q) \/ HandleVerifyCode(q)
    \/ \E image \in Names : HandlePhotoUpload(q, image)
    \/ \E t \in Themes : HandleThemeSave(q, t)
    \/ \E kind \in Kinds : HandleSendCode(q, kind)

Clicks == Type \/ StartEdit \/ CancelEdit \/ CancelVerify \/ SwitchCompany

Next ==
  \/ Handlers \/ Clicks \/ SignIn \/ Reload \/ Expire
  \/ \E q \in Calls : Serve(q) \/ Answer(q) \/ Fail(q)

Spec == Init /\ [][Next]_vars

-----------------------------------------------------------------------------
Call ==
  {Free} \cup [op : {"send", "verify"}, kind : Kinds, served : BOOLEAN]
  \cup [op : DOMAIN Flag \cup {"load", "details"}, answer : User, served : {TRUE}]
  \cup [op : DOMAIN Flag \cup {"load", "details"}, served : {FALSE},
          change : {<<>>} \cup [profile : Names] \cup [photo : Names]
                    \cup [profile : Names, lock : Minutes] \cup [pin : BOOLEAN]
                    \cup [theme : Themes] \cup [employee : Names]]

\* The user and the page's copies, forms and calls.
TypeOK ==
  /\ server \in User /\ pending \in Kinds \cup {None}
  /\ session \in [lock : Minutes, pin : BOOLEAN, theme : Themes \cup {None}]
  /\ theme \in Themes
  /\ user \in User \cup {None}
  /\ {employee, profile, empForm} \subseteq Names \cup {None}
  /\ lockTimeout \in Minutes \cup {None}
  /\ {editing, codeSent} \subseteq BOOLEAN
  /\ verifying \in Kinds \cup {None}
  /\ busy \subseteq Flags
  /\ call \in [Calls -> Call]

\* A flag is set exactly while one call of its form is under way, and never two:
\* the account and the photo, and setting and removing a PIN, share theirs.
OnePerFlag ==
  \A f \in Flags :
    LET own == {q \in Calls : Waits(q) /\ call[q].op \in DOMAIN Flag /\ Flag[call[q].op] = f}
    IN (f \in busy <=> own # {}) /\ \A p, q \in own : p = q

\* Once its calls have ended, the page shows what the server keeps.
ShowsServer ==
  Quiet => /\ user # None =>
                [user EXCEPT !.theme = server.theme, !.employee = server.employee] = server
           /\ employee # None => employee = server.employee

\* The code that is asked for is one of the kind that the server waits for.
CodePending ==
  Quiet /\ verifying # None /\ codeSent => pending \in {None, verifying}
=============================================================================
