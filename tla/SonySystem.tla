------------------------------ MODULE SonySystem ------------------------------
(***************************************************************************)
(* SonyPTP3_Impl together with its transports and one camera.  A transport *)
(* is what WiaTransport implements (EscapeChannel): a queue from which     *)
(* commands are carried out in order.  The Escape() in progress has the    *)
(* last command of the current transport's queue.  If it times out the     *)
(* command stays, and the camera carries it out later, when the object has *)
(* moved on: this module is about what that can do.                        *)
(*                                                                         *)
(* The camera is worst case: it may refuse anything, and a failed HRESULT  *)
(* may or may not mean that it obeyed; but it keeps a session open until   *)
(* it obeys a CloseSession.                                                *)
(***************************************************************************)
EXTENDS SonyPTP3_Impl

CONSTANTS
  Workload,    \* operations that the callers use
  Buttons,     \* controls that the callers use
  MaxBacklog,  \* bound: commands given up on and not carried out yet
  MaxSets      \* bound: calls of SetExposureParams()

ASSUME SystemAssumption ==
  /\ Buttons \subseteq Controls
  /\ MaxBacklog \in Nat /\ MaxSets \in Nat

VARIABLES
  queue,    \* queue[tr]: commands of tr that are not carried out yet
  gone,     \* transports that have been destroyed
  session,  \* the camera's session is open
  pressed,  \* buttons the camera holds down
  applied,  \* applied[s]: which call's value the camera has for setting s
  set,      \* number of SetExposureParams() calls that sent something
  refused,  \* buttons whose last release the camera did not obey
  healthy,  \* history: the camera answered this Connect() as it should
  unsure    \* history: no reply tells what the last movie command did

sysVars == <<vars, queue, gone, session, pressed, applied, set, refused,
            healthy, unsure>>
cameraVars == <<session, pressed, applied, refused>>

Button == [S1Down |-> "S1", S1Up |-> "S1", S2Down |-> "S2", S2Up |-> "S2",
           MovieDown |-> "Movie", MovieUp |-> "Movie"]
Presses == {"S1Down", "S2Down", "MovieDown"}
SettingNames == {Settings[i] : i \in 1..Len(Settings)}

SysTypeOK ==
  /\ TypeOK
  /\ queue \in [Transports -> Seq([cmd : Commands, set : Nat])]
  /\ gone \subseteq Transports
  /\ session \in BOOLEAN
  /\ pressed \subseteq {"S1", "S2", "Movie"}
  /\ applied \in [SettingNames -> Nat]
  /\ set \in Nat
  /\ refused \subseteq {"S1", "S2", "Movie"}
  /\ healthy \in BOOLEAN /\ unsure \in BOOLEAN

(* A program that was killed may have left its session open.               *)
SysInit ==
  /\ Init
  /\ queue = [tr \in Transports |-> <<>>]
  /\ gone = {}
  /\ session \in BOOLEAN
  /\ pressed = {}
  /\ applied = [s \in SettingNames |-> 0]
  /\ set = 0
  /\ refused = {}
  /\ healthy = TRUE
  /\ unsure = FALSE

(***************************************************************************)
(* The camera carries out command e, or does not.                          *)
(***************************************************************************)

Obeys(e) ==
  /\ session' = IF e.cmd \in {"OpenSession", "CloseSession"}
                  THEN e.cmd = "OpenSession" ELSE session
  /\ pressed' = IF e.cmd \notin Controls THEN pressed
                ELSE IF e.cmd \in Presses THEN pressed \cup {Button[e.cmd]}
                                          ELSE pressed \ {Button[e.cmd]}
  /\ refused' = IF e.cmd \in Controls \ Presses THEN refused \ {Button[e.cmd]}
                                                ELSE refused
  /\ applied' = IF e.cmd \in SettingNames THEN [applied EXCEPT ![e.cmd] = e.set]
                                          ELSE applied

Ignores(e) ==
  /\ refused' = IF e.cmd \in Controls \ Presses THEN refused \cup {Button[e.cmd]}
                                                ELSE refused
  /\ UNCHANGED <<session, pressed, applied>>

\* The camera's answer r to e.
Performs(e, r) ==
  \/ r \in Good \cup {"failed"} /\ Obeys(e)
  \/ r \notin Good /\ Ignores(e)

(* What a camera in good order answers to cmd of the handshake: it refuses *)
(* to open a second session and nothing else.                              *)
HealthyAnswer(cmd, r) ==
  CASE cmd = "OpenSession" /\ session -> r = "reject"
    [] cmd = "GetExtDeviceInfo"       -> r = "ok"
    [] OTHER                          -> r \in Good

(* A movie command of the caller's leaves no doubt if it is answered; the  *)
(* end of a session does not look at the reply to its own.                 *)
Unsure(cmd, r) ==
  IF cmd \notin {"MovieDown", "MovieUp"} THEN unsure
  ELSE IF Runs("ControlDevice") /\ r # "failed" THEN unsure /\ r \notin Good
  ELSE TRUE

(* What a status has for the movie button: 0 or 1 for a state, or 1 (up)   *)
(* or 2 (down) as for a command.  Nothing in the repository says which     *)
(* cameras send, so that a 1 may mean either.                              *)
Dumped(recording) == IF recording THEN {1, 2} ELSE {0, 1}

\* A status may name the recording; with 1 it leaves it in doubt.
Tells(cmd, r) ==
  \/ /\ Runs("UpdateStatus") => movie_recording' = movie_recording
     /\ unsure' = Unsure(cmd, r)
  \/ /\ Runs("UpdateStatus") /\ r = "ok"
     /\ \E v \in Dumped("Movie" \in pressed) :
          movie_recording' = IsRecording(v) /\ unsure' = (v = 1)

(***************************************************************************)
(* The object's steps, with what they do to the queues.                    *)
(***************************************************************************)

Entry == [cmd |-> Head(todo'), set |-> set']

\* q, the current transport's queue, and the next command if there is one.
Sends(q) ==
  queue' = [queue EXCEPT ![transport_] = IF todo' = <<>> THEN q ELSE Append(q, Entry)]

Backlog(tr) == Len(queue[tr]) - (IF todo # <<>> /\ tr = transport_ THEN 1 ELSE 0)

(* The caller passes a transport it still has a reference to: with one it  *)
(* does not retain, a call in progress has the only one.                   *)
SysCall(t, q) ==
  /\ q.op \in Workload
  /\ q.op = "SetExposureParams" => set < MaxSets
  /\ q.op = "ControlDevice" => q.arg \in Buttons
  /\ q.arg \in Transports =>
       /\ q.arg \notin gone
       /\ q.arg = transport_ \/ (\E u \in Threads : call[u] = q)
            => q.arg \in Retained
  /\ Call(t, q)
  /\ UNCHANGED <<queue, gone, cameraVars, set, healthy, unsure>>

\* The first Escape() of a call.
SysStart(t) ==
  /\ Begin(t) /\ todo' # <<>>
  /\ set' = IF call[t].op = "SetExposureParams" THEN set + 1 ELSE set
  /\ Sends(queue[transport_])
  /\ healthy' = TRUE
  /\ UNCHANGED <<gone, cameraVars, unsure>>

\* A call that needs no Escape(): it returns, or joins the old worker.
SysAtOnce(t) ==
  /\ Begin(t) /\ todo' = <<>>
  /\ UNCHANGED <<queue, gone, cameraVars, set, healthy, unsure>>

(* The worker that ~WiaTransport() joins first has all that is left in the *)
(* queue q carried out (LateExecution).  A destructor that did not wait,   *)
(* like a caller that keeps a reference, leaves it for later.              *)
DoesNotJoin(q) == TRUE
Joins(q)       == q = <<>>

SysJoined ==
  /\ Joined
  /\ Joins(queue[transport_])
  /\ gone' = gone \cup {transport_}
  /\ UNCHANGED <<queue, cameraVars, set, healthy, unsure>>

SysGivesUp(t) ==
  /\ LockTimeout(t)
  /\ UNCHANGED <<queue, gone, cameraVars, set, healthy, unsure>>

Running == todo # <<>>

(* The running Escape() gets the camera's answer, or fails.                *)
SysAnswer ==
  /\ Running /\ Len(queue[transport_]) = 1
  /\ \E r \in Replies :
       /\ Performs(Head(queue[transport_]), r)
       /\ Reply(r)
       /\ healthy' = (healthy /\ HealthyAnswer(Head(todo), r))
       /\ Tells(Head(todo), r)
  /\ set' = set
  /\ Sends(<<>>)
  /\ UNCHANGED gone

(* The running Escape() times out and leaves its command in the queue.     *)
SysTimeout ==
  /\ Running
  /\ Backlog(transport_) < MaxBacklog
  /\ Reply("failed")
  /\ healthy' = FALSE
  /\ unsure' = Unsure(Head(todo), "failed")
  /\ set' = set
  /\ Sends(queue[transport_])
  /\ UNCHANGED <<gone, cameraVars>>

\* Nothing was queued.
SysThrows ==
  /\ ConnectThrows
  /\ queue' = [queue EXCEPT ![transport_] = SubSeq(@, 1, Len(@) - 1)]
  /\ healthy' = FALSE
  /\ UNCHANGED <<gone, cameraVars, set, unsure>>

(* The oldest command of tr, given up on by its caller, is carried out.    *)
LateExecution(tr) ==
  /\ Backlog(tr) > 0
  /\ \E r \in Replies : Performs(Head(queue[tr]), r)
  /\ queue' = [queue EXCEPT ![tr] = Tail(@)]
  /\ UNCHANGED <<vars, gone, set, healthy, unsure>>

SysNext ==
  \/ \E t \in Threads :
       \/ \E q \in Requests : SysCall(t, q)
       \/ Destroy(t) /\ UNCHANGED <<queue, gone, cameraVars, set, healthy, unsure>>
       \/ SysStart(t) \/ SysAtOnce(t) \/ SysGivesUp(t)
  \/ SysAnswer \/ SysTimeout \/ SysThrows \/ SysJoined
  \/ \E tr \in Transports : LateExecution(tr)
  \/ Destroyed /\ UNCHANGED <<queue, gone, cameraVars, set, healthy, unsure>>

SysSpec == SysInit /\ [][SysNext]_sysVars

(***************************************************************************)
(* Properties.                                                             *)
(***************************************************************************)

(* SonyPTP3_Impl.h: "SessionOpen  PTP session active and ready".  While    *)
(* the object says so and is not closing it, the camera's session is open: *)
(* no CloseSession that timed out long ago takes effect after the          *)
(* OpenSession that followed it.                                           *)
SessionIsOpen ==
  EnsureConnected /\ ~(Running /\ Head(todo) = "CloseSession") => session

(* No button moves and no setting changes outside a session, not even by a *)
(* command that its caller gave up on before it closed the session.        *)
StaysInSession == [][pressed' # pressed \/ applied' # applied => session]_sysVars

(* When the object has closed its session and the queues have run empty,   *)
(* no recording and no focus request is left behind, unless the camera     *)
(* would not let go: not even one whose start had timed out.  (Nothing     *)
(* releases S2.)                                                           *)
ReleasedWhenClosed ==
  ~EnsureConnected /\ ~Running /\ (\A tr \in Transports : queue[tr] = <<>>)
    => {"S1", "Movie"} \cap pressed \subseteq refused

(* SonyPTP3_Impl.cpp: the CloseSession before the second attempt is there   *)
(* "to recover the camera into a known clean state".  Connect() succeeds   *)
(* with a camera that has a session open from an earlier Connect() or from *)
(* a program that was killed, whatever commands are still queued, if the   *)
(* camera refuses nothing but a second session.                            *)
ConnectRecovers ==
  [][Runs("Connect") /\ todo # <<>> /\ todo' = <<>> /\ healthy'
       => ret'[holder] = "true"]_sysVars

(* IsMovieRecording() is right about the camera after an answered          *)
(* MovieRecStart() or MovieRecEnd(), or a status with a 0 or a 2, until    *)
(* the next movie command without an answer, status with a 1 or end of the *)
(* session: a command that its caller gave up on has been carried out      *)
(* before a later one is answered.                                         *)
RecordingIsKnown == ~unsure => (movie_recording <=> "Movie" \in pressed)

(* SetExposureParams() returns true only if the camera then has all four   *)
(* values of this call, and none of a call that timed out before.          *)
TrueMeansApplied ==
  [][\A t \in Threads :
       /\ Runs("SetExposureParams") /\ holder = t
       /\ call'[t] = Idle /\ ret'[t] = "true"
       => \A s \in SettingNames : applied'[s] = set]_sysVars
=============================================================================
