---------------------------- MODULE AttendanceEntry ----------------------------
(***************************************************************************)
(* pages/attendance/AttendanceEntry.tsx: a worker clocks in or out before  *)
(* the computer's camera, found by the face on one tab and chosen from a   *)
(* list on the other.  Each tab has a camera of its own; both share the    *)
(* check that somebody alive is seen, which sends frames until a blink is  *)
(* detected.  Frames are drawn on a canvas that only the first tab has.    *)
(***************************************************************************)
EXTENDS Integers, FiniteSets

CONSTANTS
  Employees,
  Calls,        \* bound: calls under way at once
  MaxAsked,     \* bound: times a camera is asked for at once
  MaxSessions,  \* bound: cameras that came to run
  MaxChecks,    \* bound: checks of one session under way at once
  None

AttendanceEntryAssumption ==
  /\ None \notin Employees \cup {"clock_in", "clock_out"}
  /\ {MaxAsked, MaxSessions, MaxChecks} \subseteq Nat

Cams == {"face", "manual"}   \* and the tabs
Sessions == 1 .. MaxSessions

VARIABLES
  att,                                    \* the server's record of today, by employee
  here, activeTab,
  selectedEmp, todayRecord, loadingMan, manStep, manAction, manPhoto,
  scanning, scanResult,
  asked,                                  \* answers of the browser that are waited for
  known, lost,                            \* whether the page knows a stream; those it forgot
  camOpen, camReady, attached,
  session,                                \* the number of the last session of blink detection
  running, blinkCam, frames, isChecking,
  blinkVerified,                          \* 0, or the session whose frames showed the blink
  checks,                                 \* checks under way, by session
  call

manual == <<selectedEmp, todayRecord, loadingMan, manStep, manAction, manPhoto>>
face == <<scanning, scanResult>>
camera == <<known, lost, camOpen, camReady, attached>>
detect == <<session, blinkCam, frames, isChecking, checks>>
blink == <<detect, running, blinkVerified>>
vars == <<att, here, activeTab, manual, face, asked, camera, blink, call>>

Records == [emp : Employees, out : BOOLEAN]
RecordOf(e) == IF att[e] = "none" THEN None ELSE [emp |-> e, out |-> att[e] = "out"]

Free == [op |-> "free"]
Busy(q) == call[q] # Free
Send(op, e) ==
  \E q \in Calls : ~Busy(q) /\ call' = [call EXCEPT ![q] = [op |-> op, of |-> e, stage |-> "sent"]]

Init ==
  /\ att \in [Employees -> {"none", "in", "out"}]
  /\ here = TRUE /\ activeTab = "face"
  /\ selectedEmp = None /\ todayRecord = None /\ loadingMan = FALSE
  /\ manStep = "idle" /\ manAction = None /\ manPhoto = FALSE
  /\ scanning = FALSE /\ scanResult = FALSE
  /\ asked = [c \in Cams |-> 0] /\ lost = 0
  /\ known = [c \in Cams |-> FALSE] /\ camOpen = known /\ camReady = known /\ attached = known
  /\ session = 0 /\ running = FALSE /\ blinkCam = "face" /\ frames = FALSE
  /\ isChecking = FALSE /\ blinkVerified = 0 /\ checks = [n \in Sessions |-> 0]
  /\ call = [q \in Calls |-> Free]

-----------------------------------------------------------------------------
\* A camera that is stopped takes the detection with it, whosever it is.
StopStreams(C) ==
  /\ known' = [c \in Cams |-> known[c] /\ c \notin C]
  /\ camOpen' = [c \in Cams |-> camOpen[c] /\ c \notin C]
  /\ camReady' = [c \in Cams |-> camReady[c] /\ c \notin C]
  /\ attached' = [c \in Cams |-> attached[c] /\ c \notin C]
  /\ running' = FALSE /\ blinkVerified' = 0
  /\ UNCHANGED <<lost, detect>>

ResetManualFlow ==
  /\ StopStreams({"manual"})
  /\ manStep' = "idle" /\ manAction' = None /\ manPhoto' = FALSE

\* Both tabs stop the camera of the first; the video of the second only leaves
\* the page, and its camera goes on.
ShowTab(t) ==
  /\ here /\ activeTab' = t
  /\ known' = [known EXCEPT !["face"] = FALSE] /\ camOpen' = [camOpen EXCEPT !["face"] = FALSE]
  /\ camReady' = [camReady EXCEPT !["face"] = FALSE]
  /\ attached' = [c \in Cams |-> attached[c] /\ c = "manual" /\ t = "manual"]
  /\ running' = FALSE /\ blinkVerified' = 0
  /\ scanResult' = (scanResult /\ t = "manual")
  /\ UNCHANGED <<att, here, manual, scanning, asked, lost, detect, call>>

\* The effect asks for today's record and shows the last one until the answer.
SelectEmployee(e) ==
  /\ here /\ activeTab = "manual" /\ e # selectedEmp
  /\ selectedEmp' = e /\ ResetManualFlow
  /\ IF e = None THEN todayRecord' = None /\ UNCHANGED call
     ELSE Send("status", e) /\ UNCHANGED todayRecord
  /\ UNCHANGED <<att, here, activeTab, loadingMan, face, asked>>

Ask(c) == asked[c] < MaxAsked /\ asked' = [asked EXCEPT ![c] = @ + 1] /\ blinkVerified' = 0

OpenCamera ==
  /\ here /\ activeTab = "face" /\ (scanResult \/ (~camOpen["face"] /\ ~scanning))
  /\ Ask("face") /\ scanResult' = FALSE
  /\ UNCHANGED <<att, here, activeTab, manual, scanning, camera, detect, running, call>>

OpenManCamera(a) ==
  /\ here /\ activeTab = "manual"
  /\ \/ manStep = "idle" /\ a = "clock_in" /\ selectedEmp # None /\ todayRecord = None
     \/ manStep = "idle" /\ a = "clock_out" /\ todayRecord # None /\ ~todayRecord.out
     \/ manStep = "confirm" /\ manPhoto /\ a = manAction
  /\ Ask("manual") /\ manAction' = a /\ manPhoto' = FALSE
  /\ UNCHANGED <<att, here, activeTab, selectedEmp, todayRecord, loadingMan, manStep, face,
                 camera, detect, running, call>>

Cancel(c) ==
  /\ here /\ activeTab = c
  /\ \/ c = "face" /\ camOpen[c] /\ StopStreams({c}) /\ UNCHANGED <<manStep, manAction, manPhoto>>
     \/ /\ c = "manual"
        /\ (manStep = "capture" /\ camOpen[c]) \/ (manStep = "confirm" /\ manPhoto)
        /\ ResetManualFlow
  /\ UNCHANGED <<att, here, activeTab, selectedEmp, todayRecord, loadingMan, face, asked, call>>

\* A button that waits for the camera and for the blink.
Ready(c) == here /\ activeTab = c /\ camReady[c] /\ attached[c] /\ blinkVerified # 0

HandleFaceScan ==
  /\ Ready("face") /\ ~scanning
  /\ StopStreams({"face"}) /\ scanning' = TRUE /\ Send("scan", None)
  /\ UNCHANGED <<att, here, activeTab, manual, scanResult, asked>>

CaptureManPhoto ==
  /\ Ready("manual") /\ manStep = "capture"
  /\ manPhoto' = TRUE /\ manStep' = "confirm" /\ StopStreams({"manual"})
  /\ UNCHANGED <<att, here, activeTab, selectedEmp, todayRecord, loadingMan, manAction, face,
                 asked, call>>

Confirm == here /\ activeTab = "manual" /\ manStep = "confirm" /\ manPhoto /\ ~loadingMan

HandleClockIn ==
  /\ Confirm /\ manAction = "clock_in"
  /\ loadingMan' = TRUE /\ Send("clock_in", selectedEmp)
  /\ UNCHANGED <<att, here, activeTab, selectedEmp, todayRecord, manStep, manAction, manPhoto,
                 face, asked, camera, blink>>

\* Whatever is not a clock-in; without a record the handler throws, and catches.
HandleClockOut ==
  /\ Confirm /\ manAction # "clock_in"
  /\ IF todayRecord = None
     THEN ResetManualFlow /\ UNCHANGED <<loadingMan, call>>
     ELSE /\ loadingMan' = TRUE /\ Send("clock_out", todayRecord.emp)
          /\ UNCHANGED <<manStep, manAction, manPhoto, camera, blink>>
  /\ UNCHANGED <<att, here, activeTab, selectedEmp, todayRecord, face, asked>>

Leave ==
  /\ here /\ here' = FALSE /\ StopStreams(Cams)
  /\ UNCHANGED <<att, activeTab, manual, face, asked, call>>

-----------------------------------------------------------------------------
\* The stream goes into the video when the camera comes to be open and the video
\* is on the page; of two, the first is forgotten.
Granted(c) ==
  /\ asked[c] > 0 /\ asked' = [asked EXCEPT ![c] = @ - 1]
  /\ known' = [known EXCEPT ![c] = TRUE] /\ lost' = IF known[c] THEN lost + 1 ELSE lost
  /\ IF here
     THEN /\ camOpen' = [camOpen EXCEPT ![c] = TRUE]
          /\ attached' = [attached EXCEPT ![c] = @ \/ (~camOpen[c] /\ activeTab = c)]
          /\ manStep' = IF c = "manual" THEN "capture" ELSE manStep
     ELSE UNCHANGED <<camOpen, attached, manStep>>
  /\ UNCHANGED <<att, here, activeTab, selectedEmp, todayRecord, loadingMan, manAction, manPhoto,
                 face, camReady, blink, call>>

Denied(c) ==
  /\ asked[c] > 0 /\ asked' = [asked EXCEPT ![c] = @ - 1]
  /\ UNCHANGED <<att, here, activeTab, manual, face, camera, blink, call>>

StartBlinkDetection(c) ==
  /\ here /\ camOpen[c] /\ attached[c] /\ ~camReady[c] /\ session < MaxSessions
  /\ camReady' = [camReady EXCEPT ![c] = TRUE]
  /\ session' = session + 1 /\ running' = TRUE /\ blinkCam' = c /\ frames' = FALSE
  /\ isChecking' = FALSE /\ blinkVerified' = 0
  /\ UNCHANGED <<att, here, activeTab, manual, face, asked, known, lost, camOpen, attached, checks, call>>

\* The first interval, until there are frames enough to be sent.
DrawFrames ==
  /\ running /\ ~frames /\ activeTab = "face" /\ attached[blinkCam]
  /\ frames' = TRUE
  /\ UNCHANGED <<att, here, activeTab, manual, face, asked, camera, session, blinkCam, isChecking,
                 checks, running, blinkVerified, call>>

VerifyBlink ==
  /\ running /\ frames /\ ~isChecking /\ checks[session] < MaxChecks
  /\ isChecking' = TRUE /\ checks' = [checks EXCEPT ![session] = @ + 1]
  /\ UNCHANGED <<att, here, activeTab, manual, face, asked, camera, session, blinkCam, frames,
                 running, blinkVerified, call>>

\* An answer does not ask which session it is of.
BlinkAnswer(n, seen) ==
  /\ checks[n] > 0 /\ checks' = [checks EXCEPT ![n] = @ - 1]
  /\ isChecking' = FALSE
  /\ blinkVerified' = IF seen /\ here THEN n ELSE blinkVerified
  /\ running' = (running /\ ~seen)
  /\ UNCHANGED <<att, here, activeTab, manual, face, asked, camera, session, blinkCam, frames, call>>

-----------------------------------------------------------------------------
\* The server refuses a second clock-in and a clock-out that was made; a face is
\* somebody's, and clocks in or out.
Serve(q) ==
  LET c == call[q]
      Clock(e, from) ==
        /\ att[e] = from
        /\ att' = [att EXCEPT ![e] = IF from = "none" THEN "in" ELSE "out"]
        /\ call' = [call EXCEPT ![q] = [op |-> c.op, of |-> e, stage |-> "done",
                                        row |-> [emp |-> e, out |-> from = "in"]]]
  IN /\ Busy(q) /\ c.stage = "sent"
     /\ \/ /\ c.op = "status" /\ UNCHANGED att
           /\ call' = [call EXCEPT ![q] = [op |-> "status", of |-> c.of, stage |-> "done",
                                           row |-> RecordOf(c.of)]]
        \/ c.op = "clock_in" /\ Clock(c.of, "none")
        \/ c.op = "clock_out" /\ Clock(c.of, "in")
        \/ c.op = "scan" /\ \E e \in Employees : Clock(e, "none") \/ Clock(e, "in")
     /\ UNCHANGED <<here, activeTab, manual, face, asked, camera, blink>>

\* ok: the answer came; a status that fails is no record.
Ended(q, ok) ==
  LET c == call[q]
  IN \/ /\ c.op = "status"
        /\ todayRecord' = IF ok THEN c.row ELSE None
        /\ UNCHANGED <<selectedEmp, loadingMan, manStep, manAction, manPhoto, face, camera, blink>>
     \/ /\ c.op \in {"clock_in", "clock_out"}
        /\ todayRecord' = IF ok THEN c.row ELSE todayRecord
        /\ loadingMan' = FALSE /\ ResetManualFlow
        /\ UNCHANGED <<selectedEmp, face>>
     \/ /\ c.op = "scan"
        /\ scanning' = FALSE /\ scanResult' = (scanResult \/ ok)
        /\ UNCHANGED <<manual, camera, blink>>

\* A call that was served may fail all the same.
Answer(q, ok) ==
  /\ Busy(q) /\ (ok => call[q].stage = "done") /\ call' = [call EXCEPT ![q] = Free]
  /\ IF here THEN Ended(q, ok) ELSE UNCHANGED <<manual, face, camera, blink>>
  /\ UNCHANGED <<att, here, activeTab, asked>>

User ==
  \/ \E t \in Cams : ShowTab(t) \/ Cancel(t)
  \/ \E e \in Employees \cup {None} : SelectEmployee(e)
  \/ \E a \in {"clock_in", "clock_out", None} : OpenManCamera(a)
  \/ OpenCamera \/ HandleFaceScan \/ CaptureManPhoto \/ HandleClockIn \/ HandleClockOut \/ Leave

Detection ==
  \/ \E c \in Cams : StartBlinkDetection(c)
  \/ DrawFrames \/ VerifyBlink \/ \E n \in Sessions, seen \in BOOLEAN : BlinkAnswer(n, seen)

Next ==
  \/ User \/ Detection
  \/ \E c \in Cams : Granted(c) \/ Denied(c)
  \/ \E q \in Calls : Serve(q) \/ \E ok \in BOOLEAN : Answer(q, ok)

Spec == Init /\ [][Next]_vars

\* The intervals go on, and who stands before the camera blinks for some check.
FairSpec ==
  Spec /\ WF_vars(DrawFrames) /\ WF_vars(VerifyBlink)
       /\ SF_vars(\E n \in Sessions : BlinkAnswer(n, TRUE))

-----------------------------------------------------------------------------
\* The tabs, their cameras and the detection.
TypeOK ==
  /\ att \in [Employees -> {"none", "in", "out"}]
  /\ activeTab \in Cams /\ selectedEmp \in Employees \cup {None}
  /\ todayRecord \in Records \cup {None} /\ manStep \in {"idle", "capture", "confirm"}
  /\ manAction \in {"clock_in", "clock_out", None} /\ asked \in [Cams -> 0 .. MaxAsked]
  /\ {known, camOpen, camReady, attached} \subseteq [Cams -> BOOLEAN] /\ lost \in Nat
  /\ {here, loadingMan, manPhoto, scanning, scanResult, running, frames, isChecking} \subseteq BOOLEAN
  /\ blinkVerified \in 0 .. session /\ session \in 0 .. MaxSessions
  /\ checks \in [Sessions -> 0 .. MaxChecks]

Quiet == \A q \in Calls : ~Busy(q)

\* The record shown is the chosen employee's.
RecordOfSelected == todayRecord # None => todayRecord.emp = selectedEmp

\* A photo is asked for to clock in or to clock out, and never for neither.
ActionKnown == manStep # "idle" => manAction # None

\* With an employee chosen there is always a way on: a button, the day's times, or
\* an answer that is waited for.
NeverStuck ==
  here /\ activeTab = "manual" /\ asked["manual"] = 0 =>
    \/ manStep = "idle" \/ (manStep = "capture" /\ camOpen["manual"])
    \/ (manStep = "confirm" /\ manPhoto)

\* "Blink detection state (shared between tabs)" (AttendanceEntry.tsx:15): on either
\* tab the blink that is asked for is seen, unless the camera is stopped before.
BlinkSeen(c) == running /\ blinkCam = c ~> blinkVerified # 0 \/ ~running
ManualBlinkSeen == BlinkSeen("manual")

\* A camera that runs is one that the page can stop.
CamerasKnown == lost = 0 /\ (~here => \A c \in Cams : ~known[c])
=============================================================================
