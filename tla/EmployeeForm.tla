----------------------------- MODULE EmployeeForm -----------------------------
(***************************************************************************)
(* pages/employees/EmployeeForm.tsx: an employee is created or edited in   *)
(* three steps, and a fourth registers the face with the computer's        *)
(* camera.  Of a field the form only tells whether it is missing, bad by   *)
(* hooks/useFormValidation.ts or good; the user name and the bank account  *)
(* keep their values.  The address of a branch and its bank are looked up  *)
(* without a change of what is saved but the bank's name, and are left out.*)
(***************************************************************************)
EXTENDS Integers, FiniteSets

CONSTANTS
  Logins,    \* user names
  Accounts,  \* bank accounts, with their IFSC code
  Streams,   \* bound: streams of the camera at once, running or asked for
  Calls,     \* bound: calls under way at once
  None

VARIABLES
  staff,                                \* the server's: [Logins -> None or an employee]
  isEdit, here,                         \* the employee that is edited; whether the page is open
  form, step, savedId, kycStatus,
  loading, verifying, faceLoading,
  asked, live, streamRef,               \* streams asked for, running, and known
  camOpen, camReady, attached, captured,
  call

data == <<form, savedId, kycStatus>>
flags == <<loading, verifying, faceLoading>>
camera == <<asked, live, streamRef, camOpen, camReady, attached, captured>>
vars == <<staff, isEdit, here, data, step, flags, camera, call>>

Grades == {"missing", "bad", "good"}
EMPTY == [login |-> None, rest |-> "missing", account |-> None]
Forms == [login : Logins \cup {None}, rest : Grades, account : Accounts \cup {None}]

\* What the server keeps of an employee; kyc is the account that was found to be
\* the employee's, None when none was.
Employees == [account : Accounts, kyc : Accounts \cup {None}, face : BOOLEAN]

EmployeeFormAssumption == None \notin Logins \cup Accounts \cup Streams \cup Employees

Free == [op |-> "free"]
Busy(q) == call[q] # Free
Send(c) == \E q \in Calls : ~Busy(q) /\ call' = [call EXCEPT ![q] = c]

Init ==
  /\ staff \in [Logins -> {None} \cup [account : Accounts, kyc : {None}, face : {FALSE}]]
  /\ isEdit \in {None} \cup {l \in Logins : staff[l] # None}
  /\ here = TRUE /\ form = EMPTY /\ step = 0 /\ savedId = None /\ kycStatus = None
  /\ loading = FALSE /\ verifying = FALSE /\ faceLoading = FALSE
  /\ asked = {} /\ live = {} /\ streamRef = None
  /\ camOpen = FALSE /\ camReady = FALSE /\ attached = FALSE /\ captured = FALSE
  /\ \E q \in Calls :
       call = [p \in Calls |-> IF p = q /\ isEdit # None
                               THEN [op |-> "load", of |-> isEdit, stage |-> "sent"] ELSE Free]

-----------------------------------------------------------------------------
\* The fields of a step.  The user name and its password are those of a new one.
HandleChange ==
  /\ here
  /\ \/ /\ step = 0 /\ isEdit = None
        /\ \E l \in Logins \cup {None} : form' = [form EXCEPT !.login = l]
     \/ /\ step \in {0, 2} /\ \E g \in Grades : form' = [form EXCEPT !.rest = g]
     \/ /\ step = 1 /\ \E a \in Accounts \cup {None} : form' = [form EXCEPT !.account = a]
  /\ UNCHANGED <<staff, isEdit, here, step, savedId, kycStatus, flags, camera, call>>

\* The element of the video goes with its step, and the stream does not.
GoTo(i) ==
  /\ step' = i
  /\ attached' = (attached /\ i = 3)
  /\ UNCHANGED <<asked, live, streamRef, camOpen, camReady, captured>>

\* Next only asks that nothing is missing.
NextStep ==
  /\ here
  /\ \/ step = 0 /\ form.rest # "missing" /\ (isEdit # None \/ form.login # None)
     \/ step = 1 /\ form.account # None
  /\ GoTo(step + 1)
  /\ UNCHANGED <<staff, isEdit, here, data, flags, call>>

\* Back, and a step of the bar, which shows only those behind as links: that the
\* page would turn to the face of somebody who is saved is never asked of it.
StepClick(i) ==
  /\ here /\ i <= step /\ (i < step \/ (i = 3 /\ savedId # None))
  /\ GoTo(i)
  /\ UNCHANGED <<staff, isEdit, here, data, flags, call>>

Valid == form.rest = "good" /\ form.account # None /\ (isEdit # None \/ form.login # None)

HandleSubmit ==
  /\ here /\ step = 2 /\ ~loading
  /\ IF ~Valid THEN GoTo(0) /\ UNCHANGED <<loading, call>>
     ELSE /\ loading' = TRUE
          /\ Send([op |-> IF isEdit = None THEN "create" ELSE "update",
                   of |-> IF isEdit = None THEN form.login ELSE isEdit,
                   account |-> form.account, stage |-> "sent"])
          /\ UNCHANGED <<step, camera>>
  /\ UNCHANGED <<staff, isEdit, here, data, verifying, faceLoading>>

\* The account that is looked at is the one that was saved.
HandleVerifyBank ==
  /\ here /\ step = 1 /\ savedId # None /\ form.account # None /\ ~verifying
  /\ verifying' = TRUE
  /\ Send([op |-> "verify", of |-> savedId, account |-> None, stage |-> "sent"])
  /\ UNCHANGED <<staff, isEdit, here, data, step, loading, faceLoading, camera>>

\* To the list: the effect's cleanup stops the camera.
Leave ==
  /\ here /\ step \in {0, 3} /\ here' = FALSE
  /\ live' = live \ {streamRef} /\ streamRef' = None
  /\ camOpen' = FALSE /\ camReady' = FALSE /\ attached' = FALSE
  /\ UNCHANGED <<staff, isEdit, data, step, flags, asked, captured, call>>

-----------------------------------------------------------------------------
\* The browser asks whether the camera may be used.
OpenCamera ==
  /\ here /\ step = 3 /\ savedId # None /\ (captured \/ ~camOpen)
  /\ \E s \in Streams \ (live \cup asked) : asked' = asked \cup {s}
  /\ UNCHANGED <<staff, isEdit, here, data, step, flags, live, streamRef, camOpen, camReady,
                 attached, captured, call>>

\* The stream is put into the video when the camera comes to be open; one that is
\* granted when the page is left runs, and nobody knows it.
Granted(s) ==
  /\ s \in asked /\ asked' = asked \ {s}
  /\ live' = live \cup {s} /\ streamRef' = s
  /\ IF here
     THEN /\ camOpen' = TRUE /\ captured' = FALSE
          /\ attached' = (attached \/ (~camOpen /\ step = 3))
     ELSE UNCHANGED <<camOpen, attached, captured>>
  /\ UNCHANGED <<staff, isEdit, here, data, step, flags, camReady, call>>

Denied(s) ==
  /\ s \in asked /\ asked' = asked \ {s}
  /\ UNCHANGED <<staff, isEdit, here, data, step, flags, live, streamRef, camOpen, camReady,
                 attached, captured, call>>

Ready ==
  /\ here /\ camOpen /\ attached /\ ~camReady /\ camReady' = TRUE
  /\ UNCHANGED <<staff, isEdit, here, data, step, flags, asked, live, streamRef, camOpen,
                 attached, captured, call>>

Stop ==
  /\ live' = live \ {streamRef} /\ streamRef' = None
  /\ camOpen' = FALSE /\ camReady' = FALSE /\ attached' = FALSE

StopCamera ==
  /\ here /\ step = 3 /\ camOpen
  /\ Stop
  /\ UNCHANGED <<staff, isEdit, here, data, step, flags, asked, captured, call>>

\* A video without a picture is not taken.
CapturePhoto ==
  /\ here /\ step = 3 /\ camReady /\ attached
  /\ captured' = TRUE /\ Stop
  /\ UNCHANGED <<staff, isEdit, here, data, step, flags, asked, call>>

HandleRegisterFace ==
  /\ here /\ step = 3 /\ captured /\ savedId # None /\ ~faceLoading
  /\ faceLoading' = TRUE
  /\ Send([op |-> "face", of |-> savedId, account |-> None, stage |-> "sent"])
  /\ UNCHANGED <<staff, isEdit, here, data, step, loading, verifying, camera>>

-----------------------------------------------------------------------------
\* The server reads an employee, waits for the bank, and writes what it heard.
Serve(q) ==
  LET c == call[q]
      To(stage, a) == call' = [call EXCEPT ![q].stage = stage, ![q].account = a]
      Done == call' = [call EXCEPT ![q].stage = "done"]
  IN /\ Busy(q)
     /\ \/ /\ c.op = "load" /\ c.stage = "sent"
           /\ call' = [call EXCEPT ![q] = [op |-> "load", of |-> c.of, stage |-> "done",
                                           row |-> staff[c.of]]]
           /\ UNCHANGED staff
        \/ /\ c.op = "create" /\ c.stage = "sent" /\ staff[c.of] = None
           /\ staff' = [staff EXCEPT ![c.of] =
                           [account |-> c.account, kyc |-> None, face |-> FALSE]]
           /\ Done
        \/ /\ c.op = "update" /\ c.stage = "sent"
           /\ staff' = [staff EXCEPT ![c.of].account = c.account] /\ Done
        \/ /\ c.op = "verify" /\ c.stage = "sent"
           /\ To("asked", staff[c.of].account) /\ UNCHANGED staff
        \/ /\ c.op = "verify" /\ c.stage = "asked"
           /\ \E kyc \in {c.account, None} :
                staff' = [staff EXCEPT ![c.of].kyc = kyc] /\ To("done", kyc)
        \/ /\ c.op = "face" /\ c.stage = "sent"
           /\ staff' = [staff EXCEPT ![c.of].face = TRUE] /\ Done
     /\ UNCHANGED <<isEdit, here, data, step, flags, camera>>

Ended(q) ==
  LET op == call[q].op
  IN /\ loading' = (loading /\ op \notin {"create", "update"})
     /\ verifying' = (verifying /\ op # "verify")
     /\ faceLoading' = (faceLoading /\ op # "face")
     /\ call' = [call EXCEPT ![q] = Free]
     /\ UNCHANGED <<staff, isEdit, here>>

\* The employee as it was when it was asked for takes the place of what was typed.
Loaded(q) ==
  /\ call[q].op = "load"
  /\ form' = [login |-> call[q].of, rest |-> "good", account |-> call[q].row.account]
  /\ savedId' = call[q].of /\ kycStatus' = call[q].row.kyc
  /\ UNCHANGED <<step, camera>>

Saved(q) ==
  /\ call[q].op \in {"create", "update"}
  /\ savedId' = IF call[q].op = "create" THEN call[q].of ELSE savedId
  /\ GoTo(3)
  /\ UNCHANGED <<form, kycStatus>>

Verified(q) ==
  /\ call[q].op = "verify" /\ kycStatus' = call[q].account
  /\ UNCHANGED <<form, savedId, step, camera>>

Registered(q) ==
  /\ call[q].op = "face" /\ captured' = FALSE
  /\ UNCHANGED <<data, step, asked, live, streamRef, camOpen, camReady, attached>>

Answer(q) ==
  /\ Busy(q) /\ call[q].stage = "done"
  /\ IF here THEN Loaded(q) \/ Saved(q) \/ Verified(q) \/ Registered(q)
     ELSE UNCHANGED <<data, step, camera>>
  /\ Ended(q)

Fail(q) ==
  /\ Busy(q) /\ Ended(q)
  /\ UNCHANGED <<data, step, camera>>

User ==
  \/ HandleChange \/ NextStep \/ HandleSubmit \/ HandleVerifyBank \/ Leave
  \/ OpenCamera \/ StopCamera \/ CapturePhoto \/ HandleRegisterFace
  \/ \E i \in 0 .. 3 : StepClick(i)

Browser == Ready \/ \E s \in Streams : Granted(s) \/ Denied(s)

Next == User \/ Browser \/ \E q \in Calls : Serve(q) \/ Answer(q) \/ Fail(q)

Spec == Init /\ [][Next]_vars

-----------------------------------------------------------------------------
\* The form, its flags, the camera and the calls.
TypeOK ==
  /\ staff \in [Logins -> {None} \cup Employees]
  /\ isEdit \in Logins \cup {None} /\ form \in Forms /\ step \in 0 .. 3
  /\ savedId \in Logins \cup {None} /\ kycStatus \in Accounts \cup {None}
  /\ {here, loading, verifying, faceLoading} \subseteq BOOLEAN
  /\ {camOpen, camReady, attached, captured} \subseteq BOOLEAN
  /\ asked \subseteq Streams /\ live \subseteq Streams /\ streamRef \in Streams \cup {None}
  /\ \A q \in Calls : Busy(q) => call[q].of \in Logins

\* Of each kind of call one is under way at most.
OneOfAKind ==
  LET Kind(q) == IF call[q].op = "update" THEN "create" ELSE call[q].op
  IN \A p, q \in Calls : Busy(p) /\ Kind(p) = Kind(q) => p = q

\* Once all calls have ended, a form that nobody has typed in since is what the
\* server keeps.
ShowsServer ==
  (\A q \in Calls : ~Busy(q)) /\ savedId # None => form.account = staff[savedId].account
=============================================================================
