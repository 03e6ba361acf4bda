-------------------------- MODULE SonySystemProofs --------------------------
(****************************************************************************)
(* The promises of the whole system, SonyPTP3_Impl with its transports and  *)
(* the camera: the inductive invariant SInv, one lemma per kind of step     *)
(* that the step keeps it, and the theorems that follow from it.            *)
(****************************************************************************)
EXTENDS SonySystemSteps

(* The caller never has two transports with commands left in their         *)
(* queues: it retains none, or there is only one.                          *)
Exclusive == Retained = {} \/ (\A a, b \in Transports : a = b)

(* The running Escape() has the last entry of the current transport, and   *)
(* what is left in another one was given up on by a caller that kept it.   *)
QueueInv ==
  /\ Running => /\ queue[transport_] # <<>>
                /\ queue[transport_][Len(queue[transport_])]
                     = [cmd |-> Head(todo), set |-> set]
  /\ \A tr \in Transports \ Retained : tr # transport_ => queue[tr] = <<>>

(* In a session, only the end of the session has a CloseSession queued.    *)
OpenInv ==
  connection_state_ = "SessionOpen" =>
    /\ session
    /\ \A i \in Nat : Queued(transport_, i, "CloseSession")
         => IsRunning(transport_, i)

(* A button or a setting is never behind a CloseSession.                   *)
OrderInv ==
  \A tr \in Transports, i \in Nat, c \in Controls \cup SettingNames :
    Queued(tr, i, c) =>
      session /\ \A j \in Nat : j < i => ~Queued(tr, j, "CloseSession")

(* A call that ends the session has the lock.                              *)
RunsClosing == holder # Nobody /\ call[holder].op \in Closes

(* From the release on, every press in a queue has a release behind it,    *)
(* and what is still down has one to come or did not obey.                 *)
ReleasedInv(b, down, up) ==
  /\ \A tr \in Transports, i \in Nat :
       Queued(tr, i, down) => \E j \in Nat : j > i /\ Queued(tr, j, up)
  /\ b \in pressed => \/ b \in refused
                      \/ \E tr \in Transports, i \in Nat : Queued(tr, i, up)

(* When the session is over, or about to be, the recording and S1 have     *)
(* been released.                                                          *)
ReleaseInv ==
  /\ connection_state_ # "SessionOpen" \/ RunsClosing
       => ReleasedInv("Movie", "MovieDown", "MovieUp")
  /\ connection_state_ # "SessionOpen" \/ (RunsClosing /\ todo # Closing)
       => ReleasedInv("S1", "S1Down", "S1Up")

(* As long as nothing is in doubt, no movie command has been given up on.  *)
MovieInv ==
  ~unsure =>
    /\ movie_recording <=> "Movie" \in pressed
    /\ \A tr \in Transports, i \in Nat, c \in {"MovieDown", "MovieUp"} :
         Queued(tr, i, c) => IsRunning(tr, i)

(* As long as every setting was answered, nothing else is queued.          *)
SettingsInv ==
  Runs("SetExposureParams") /\ ok /\ todo # Settings =>
    /\ Len(queue[transport_]) = 1
    /\ \A k \in 1..Len(Settings) :
         k <= Len(Settings) - Len(todo) => applied[Settings[k]] = set

(* After the CloseSession between the attempts, nothing is queued that     *)
(* could open a session before the second attempt does.                    *)
RecoveryInv ==
  Runs("Connect") /\ attempt = 2 /\ healthy =>
    ~session /\ Len(queue[transport_]) = 1

(* The inductive invariant. No promise of the system is inductive: each    *)
(* is about commands that were queued many steps, and sometimes several    *)
(* calls, before.                                                          *)
SInv ==
  /\ SysTypeOK /\ QueueInv /\ OpenInv /\ OrderInv
  /\ ReleaseInv /\ MovieInv /\ SettingsInv /\ RecoveryInv
-----------------------------------------------------------------------------
(* The invariant holds of a new system: nothing is queued and nothing is   *)
(* pressed.                                                                *)
LEMMA SysInitSInv == SysInit => SInv
<1> SUFFICES ASSUME SysInit PROVE SInv
  OBVIOUS
<1> USE DEF SysInit
<1>1. Init
  OBVIOUS
<1>2. SysTypeOK
  BY SysInitTypes
<1>3. \A tr \in Transports, i \in Nat, c \in Commands : ~Queued(tr, i, c)
  BY DEF Queued
<1>4. Controls \cup SettingNames \subseteq Commands
  BY DEF SettingNames, Settings, Controls, Commands
<1>5. todo = <<>> /\ holder = Nobody /\ connection_state_ = "Disconnected"
        /\ movie_recording = FALSE
  BY <1>1 DEF Init
<1>6. QueueInv /\ OpenInv /\ SettingsInv /\ RecoveryInv
  BY <1>5 DEF QueueInv, OpenInv, SettingsInv, RecoveryInv, Running, Runs
<1>7. OrderInv
  BY <1>3, <1>4 DEF OrderInv
<1>8. ReleaseInv
  BY <1>3, <1>4, <1>5 DEF ReleaseInv, ReleasedInv, Controls
<1>9. MovieInv
  BY <1>3, <1>4, <1>5 DEF MovieInv, Controls
<1> QED
  BY <1>2, <1>6, <1>7, <1>8, <1>9 DEF SInv

(* A step that leaves the lock, the queues and the camera alone keeps it.  *)
LEMMA QuietKeeps == ASSUME SInv, SysTypeOK', Quiet PROVE SInv'
<1> USE DEF Quiet, cameraVars
<1>1. \A tr, i, c : Queued(tr, i, c)' <=> Queued(tr, i, c)
  BY DEF Queued
<1>2. \A tr, i : IsRunning(tr, i)' <=> IsRunning(tr, i)
  BY DEF IsRunning, Running
<1>3. /\ RunsClosing' <=> RunsClosing
      /\ \A op : Runs(op)' <=> Runs(op)
  BY DEF RunsClosing, Runs
<1>4. QueueInv' /\ OpenInv' /\ OrderInv' /\ MovieInv'
  BY <1>1, <1>2 DEF SInv, QueueInv, OpenInv, OrderInv, MovieInv, Running
<1>5. ReleaseInv'
  BY <1>1, <1>3 DEF SInv, ReleaseInv, ReleasedInv
<1>6. SettingsInv' /\ RecoveryInv'
  BY <1>3 DEF SInv, SettingsInv, RecoveryInv
<1> QED
  BY <1>4, <1>5, <1>6 DEF SInv

(* With another transport than the current one nothing is queued.          *)
LEMMA Alone ==
  ASSUME SysTypeOK, QueueInv, Exclusive, transport_ \in Transports,
         NEW tr \in Transports, tr # transport_
  PROVE  queue[tr] = <<>> /\ \A i \in Nat, c \in Commands : ~Queued(tr, i, c)
<1>1. queue[tr] = <<>>
  BY DEF QueueInv, Exclusive
<1> QED
  BY <1>1 DEF Queued

(* Two queues are never both in use.                                       *)
LEMMA OneQueue ==
  ASSUME SysTypeOK, QueueInv, Exclusive, NEW a \in Transports,
         NEW b \in Transports,
         queue[a] # <<>>, queue[b] # <<>>
  PROVE  a = b
BY DEF QueueInv, Exclusive
-----------------------------------------------------------------------------
(* A call that queues its first command keeps the invariant: that command  *)
(* goes behind those that were given up on before.                         *)
LEMMA StartKeeps ==
  ASSUME SInv, IInv, IInv', SysTypeOK', Exclusive, NEW t \in Threads,
         SysStart(t)
  PROVE  SInv'
<1> USE DEF cameraVars
<1> DEFINE c0 == Head(todo')
           e0 == [cmd |-> c0, set |-> set']
<1>1. Starts(t)
  BY BeginShape DEF SysStart, AtOnce
<1>2. /\ transport_ \in Transports /\ transport_' = transport_
      /\ t # Nobody /\ c0 \in Commands /\ set' \in Nat
      /\ todo = <<>> /\ todo' # <<>>
  <2>1. transport_' \in Transports /\ t # Nobody
    BY <1>1, ImplAssumption DEF IInv, TypeOK, ScriptInv, Starts
  <2>2. todo' \in Seq(Commands) /\ todo' # <<>>
    BY <1>1 DEF IInv, TypeOK, SysStart
  <2>3. set' \in Nat
    BY DEF SInv, SysTypeOK, SysStart
  <2> QED
    BY <1>1, <2>1, <2>2, <2>3, HeadTailProperties DEF Starts
<1>3. /\ UNCHANGED <<gone, session, pressed, applied, refused, unsure>>
      /\ healthy' = TRUE
      /\ queue' = [queue EXCEPT ![transport_] = Append(queue[transport_], e0)]
  BY <1>2 DEF SysStart, Sends, Entry
<1>4. PICK n \in Nat : n = Len(queue[transport_])
  BY <1>2 DEF SInv, SysTypeOK
<1>5. e0 \in Entries /\ e0.cmd = c0
  BY <1>2 DEF Entries
<1>6. \/ call[t].op = "Connect" /\ c0 = "SDIOConnect1"
      \/ call[t].op \in Closes /\ c0 = "MovieUp"
      \/ call[t].op = "SetExposureParams" /\ c0 = "ShutterSpeed"
      \/ call[t].op = "UpdateStatus" /\ c0 = "GetAllExtDeviceInfo"
      \/ call[t].op = "ControlDevice" /\ c0 \in Controls
  <2>1. \A c : Head(<<c>>) = c
    OBVIOUS
  <2> QED
    BY <1>1, <2>1, Names DEF Starts
<1> HIDE DEF c0, e0
<1>7. /\ queue' \in [Transports -> Seq(Entries)]
      /\ Len(queue'[transport_]) = n + 1 /\ n \in Nat
      /\ queue'[transport_] # <<>>
      /\ queue'[transport_][Len(queue'[transport_])] = e0
      /\ \A tr \in Transports, i \in Nat, c \in Commands :
           Queued(tr, i, c)' <=>
             Queued(tr, i, c) \/ (tr = transport_ /\ i = n + 1 /\ c = c0)
  <2>1. SysTypeOK
    BY DEF SInv
  <2>2. /\ queue' \in [Transports -> Seq(Entries)]
        /\ Len(queue'[transport_]) = n + 1 /\ n \in Nat
        /\ queue'[transport_] # <<>>
        /\ queue'[transport_][Len(queue'[transport_])] = e0
    BY <1>2, <1>3, <1>5, <1>4, <2>1, Appended
  <2>3. \A tr \in Transports, i \in Nat, c \in Commands :
           Queued(tr, i, c)' <=>
             \/ Queued(tr, i, c)
             \/ tr = transport_ /\ i = Len(queue[transport_]) + 1 /\ c = e0.cmd
    BY <1>2, <1>3, <1>5, <2>1, Appended
  <2> QED
    BY <1>5, <1>4, <2>2, <2>3
<1>8. QueueInv'
  BY <1>2, <1>3, <1>7 DEF SInv, QueueInv, c0, e0
<1>9. \A tr \in Transports, i \in Nat, c \in Commands :
        Queued(tr, i, c) => tr = transport_ /\ i \in 1..n
  BY <1>2, <1>4, Alone DEF SInv, Queued
<1>10. \A tr, i : ~IsRunning(tr, i)
  BY <1>2 DEF IsRunning, Running
<1>11. connection_state_ = "SessionOpen" =>
         /\ session
         /\ \A tr \in Transports, i \in Nat : ~Queued(tr, i, "CloseSession")
  BY <1>9, <1>10, Names DEF SInv, OpenInv
<1>12. OpenInv'
  BY <1>1, <1>2, <1>3, <1>6, <1>7, <1>11, Names DEF OpenInv, Starts, Closes
<1>13. OrderInv'
  <2> SUFFICES ASSUME NEW tr \in Transports, NEW i \in Nat,
                      NEW c \in Controls \cup SettingNames, Queued(tr, i, c)'
               PROVE  /\ session
                      /\ \A j \in Nat :
                           j < i => ~Queued(tr, j, "CloseSession")'
    BY <1>3 DEF OrderInv
  <2>1. c \in Commands /\ "CloseSession" \in Commands
    BY Names
  <2>2. session /\ \A j \in Nat : j < i => ~Queued(tr, j, "CloseSession")
    <3>1. CASE Queued(tr, i, c)
      BY <3>1 DEF SInv, OrderInv
    <3>2. CASE c = c0
      <4>1. connection_state_ = "SessionOpen"
        <5>1. call[t].op # "Connect"
          BY <1>6, <3>2, Names DEF Closes
        <5> QED
          BY <1>1, <5>1 DEF Starts
      <4> QED
        BY <1>11, <4>1
    <3> QED
      BY <1>7, <2>1, <3>1, <3>2
  <2>3. c0 # "CloseSession"
    BY <1>6, Names
  <2> QED
    BY <1>7, <2>1, <2>2, <2>3
<1>14. ReleaseInv'
  <2>1. CASE call[t].op = "Connect"
    BY <1>1, <1>3, <1>6, <1>7, <2>1, Names
    DEF SInv, ReleaseInv, ReleasedInv, RunsClosing, Starts, Closes
  <2>2. CASE call[t].op \in Closes
    <3>1. ReleasedInv("Movie", "MovieDown", "MovieUp")'
      <4>1. c0 = "MovieUp"
        BY <1>6, <2>2 DEF Closes
      <4>2. "MovieUp" \in Commands /\ "MovieDown" \in Commands /\ n + 1 \in Nat
        BY <1>7, Names
      <4>3. Queued(transport_, n + 1, "MovieUp")'
        BY <1>2, <1>7, <4>1, <4>2
      <4>4. \A tr \in Transports, i \in Nat :
              Queued(tr, i, "MovieDown")' => tr = transport_ /\ n + 1 > i
        BY <1>7, <1>9, <4>1, <4>2
      <4> QED
        BY <1>2, <4>2, <4>3, <4>4 DEF ReleasedInv
    <3>2. connection_state_' = "SessionOpen" /\ todo' = Closing
      BY <1>1, <2>2 DEF Starts, Closes
    <3> QED
      BY <3>1, <3>2 DEF ReleaseInv
  <2>3. CASE call[t].op \notin Closes \cup {"Connect"}
    BY <1>1, <2>3 DEF ReleaseInv, RunsClosing, Starts
  <2> QED
    BY <2>1, <2>2, <2>3
<1>15. MovieInv'
  <2>1. IsRunning(transport_, n + 1)'
    BY <1>2, <1>7 DEF IsRunning, Running
  <2>2. {"MovieDown", "MovieUp"} \subseteq Commands
    BY Names
  <2>3. ASSUME ~unsure, NEW tr \in Transports, NEW i \in Nat,
               NEW c \in {"MovieDown", "MovieUp"}, Queued(tr, i, c)'
        PROVE  IsRunning(tr, i)'
    <3>1. ~Queued(tr, i, c)
      BY <1>10, <2>3 DEF SInv, MovieInv
    <3>2. tr = transport_ /\ i = n + 1
      BY <1>7, <2>2, <2>3, <3>1
    <3> QED
      BY <1>2, <2>1, <3>2
  <2>4. movie_recording' = movie_recording /\ unsure' = unsure
          /\ pressed' = pressed
    BY <1>1, <1>3 DEF Starts
  <2> QED
    BY <2>3, <2>4 DEF SInv, MovieInv
<1>16. SettingsInv' /\ RecoveryInv'
  BY <1>1 DEF SettingsInv, RecoveryInv, Starts, Runs, Closes
<1> QED
  BY <1>8, <1>12, <1>13, <1>14, <1>15, <1>16 DEF SInv

(* So does a call that sends nothing: a getter, a refusal, or a new        *)
(* transport while there is no session.                                    *)
LEMMA AtOnceKeeps ==
  ASSUME SInv, IInv, IInv', SysTypeOK', Exclusive, NEW t \in Threads,
         SysAtOnce(t)
  PROVE  SInv'
<1> USE DEF cameraVars
<1>1. AtOnce(t)
        /\ UNCHANGED <<queue, session, pressed, applied, refused, set,
                       healthy, unsure>>
  <2>1. Starts(t) \/ AtOnce(t)
    BY BeginShape DEF SysAtOnce
  <2>2. ~Starts(t)
    BY DEF SysAtOnce, Starts, Handshake, Closing, Settings
  <2> QED
    BY <2>1, <2>2 DEF SysAtOnce
<1>2. \A tr, i, c : Queued(tr, i, c)' <=> Queued(tr, i, c)
  BY <1>1 DEF Queued
<1>3. \A tr, i : ~IsRunning(tr, i) /\ ~IsRunning(tr, i)'
  BY <1>1 DEF IsRunning, Running, AtOnce
<1>4. /\ ~Runs("SetExposureParams")' /\ ~Runs("Connect")' /\ ~RunsClosing
      /\ RunsClosing' => connection_state_' # "SessionOpen"
  <2>1. CASE LetsGo(t)
    BY <1>1, <2>1 DEF RunsClosing, Runs, AtOnce, LetsGo
  <2>2. CASE WaitsForWorker(t)
    <3>1. joining' => connection_state_' = "TransportReady"
      BY DEF IInv, LockInv
    <3>2. holder' # Nobody
      BY <2>2, ImplAssumption DEF WaitsForWorker
    <3>3. joining'
      BY <1>1, <3>2 DEF AtOnce, IInv, LockInv
    <3> QED
      BY <1>1, <2>2, <3>1, <3>3
      DEF RunsClosing, Runs, AtOnce, WaitsForWorker, Closes
  <2> QED
    BY <1>1, <2>1, <2>2 DEF AtOnce
<1>5. QueueInv'
  BY <1>1 DEF SInv, QueueInv, AtOnce, LetsGo, WaitsForWorker, Running
<1>6. OpenInv' /\ OrderInv' /\ MovieInv'
  BY <1>1, <1>2, <1>3 DEF SInv, AtOnce, OpenInv, OrderInv, MovieInv
<1>7. ReleaseInv'
  <2>1. \A b, down, up :
          ReleasedInv(b, down, up) => ReleasedInv(b, down, up)'
    BY <1>1, <1>2 DEF ReleasedInv
  <2>2. connection_state_' # "SessionOpen" \/ RunsClosing'
          => connection_state_ # "SessionOpen"
    BY <1>1, <1>4 DEF AtOnce
  <2> QED
    BY <2>1, <2>2 DEF SInv, ReleaseInv
<1>8. SettingsInv' /\ RecoveryInv'
  BY <1>4 DEF SettingsInv, RecoveryInv
<1> QED
  BY <1>5, <1>6, <1>7, <1>8 DEF SInv

(* So does the end of a join: nothing was left in the queue of the         *)
(* transport that is gone.                                                 *)
LEMMA JoinKeeps ==
  ASSUME SInv, IInv, IInv', SysTypeOK', Exclusive, SysJoined
  PROVE  SInv'
<1> USE DEF cameraVars
<1>1. /\ holder \in Threads /\ holder # Nobody
      /\ todo = <<>> /\ connection_state_ # "SessionOpen"
      /\ transport_ \in Transports
  BY DEF SysJoined, Joined, IInv, TypeOK, LockInv, Closes
<1>2. /\ holder' = Nobody /\ todo' = <<>>
      /\ connection_state_' # "SessionOpen"
  <2>1. Finish(holder)
    BY DEF SysJoined, Joined
  <2> QED
    BY <1>1, <2>1, Finished DEF Return
<1>3. /\ UNCHANGED <<queue, session, pressed, applied, refused, set, healthy,
                     unsure, movie_recording>>
      /\ queue[transport_] = <<>>
  BY DEF SysJoined, Joined, Joins
<1>4. \A tr, i, c : Queued(tr, i, c)' <=> Queued(tr, i, c)
  BY <1>3 DEF Queued
<1>5. \A tr, i : ~IsRunning(tr, i)
  BY <1>1 DEF IsRunning, Running
<1>6. QueueInv'
  BY <1>2, <1>3 DEF SInv, QueueInv, Running
<1>7. OpenInv' /\ OrderInv' /\ MovieInv'
  BY <1>2, <1>3, <1>4, <1>5 DEF SInv, OpenInv, OrderInv, MovieInv
<1>8. ReleaseInv'
  BY <1>1, <1>3, <1>4 DEF SInv, ReleaseInv, ReleasedInv
<1>9. SettingsInv' /\ RecoveryInv'
  BY <1>2 DEF SettingsInv, RecoveryInv, Runs
<1> QED
  BY <1>6, <1>7, <1>8, <1>9 DEF SInv

(* So does a handshake that an exception of the transport ends: its first  *)
(* command is withdrawn.                                                   *)
LEMMA ThrowKeeps ==
  ASSUME SInv, IInv, IInv', SysTypeOK', Exclusive, SysThrows
  PROVE  SInv'
<1> USE DEF cameraVars, objectVars
<1>1. /\ holder # Nobody /\ call[holder].op = "Connect" /\ todo = Handshake
      /\ holder' = Nobody /\ todo' = <<>> /\ Running
      /\ UNCHANGED <<transport_, connection_state_, movie_recording>>
      /\ UNCHANGED <<gone, session, pressed, applied, refused, set, unsure>>
      /\ healthy' = FALSE
  BY DEF SysThrows, ConnectThrows, Runs, Return, Running, Handshake
<1>2. transport_ \in Transports /\ connection_state_ # "SessionOpen"
  BY <1>1, InScript DEF Closes, IInv, TypeOK, ScriptInv
<1>3. PICK n \in Nat : n = Len(queue[transport_])
  BY <1>2 DEF SInv, SysTypeOK
<1>4. /\ queue[transport_] # <<>>
      /\ \A i \in Nat : \A c : Queued(transport_, i, c) /\ i = n
           => c = "SDIOConnect1"
  BY <1>1, <1>3, Names DEF SInv, QueueInv, Queued
<1>5. /\ queue' \in [Transports -> Seq(Entries)]
      /\ \A tr \in Transports, i \in Nat, c \in Commands :
           Queued(tr, i, c)' <=>
             Queued(tr, i, c)
               /\ (tr = transport_ => i # Len(queue[transport_]))
  <2>1. SysTypeOK
    BY DEF SInv
  <2>2. queue' = [queue EXCEPT ![transport_] =
                     SubSeq(queue[transport_], 1, Len(queue[transport_]) - 1)]
    BY DEF SysThrows
  <2> QED
    BY <1>2, <1>4, <2>1, <2>2, Shortened
<1>6. \A tr \in Transports, i \in Nat, c \in Commands :
        c # "SDIOConnect1" => (Queued(tr, i, c)' <=> Queued(tr, i, c))
  BY <1>3, <1>4, <1>5
<1>7. QueueInv'
  BY <1>1 DEF SInv, QueueInv, Running, SysThrows, SysTypeOK
<1>8. OpenInv' /\ SettingsInv' /\ RecoveryInv' /\ ~RunsClosing'
  BY <1>1, <1>2 DEF OpenInv, SettingsInv, RecoveryInv, Runs, RunsClosing
<1>9. OrderInv'
  BY <1>1, <1>6, Names DEF SInv, OrderInv
<1>10. ReleaseInv'
  BY <1>1, <1>2, <1>6, Names DEF SInv, ReleaseInv, ReleasedInv
<1>11. MovieInv'
  <2>1. ASSUME ~unsure, NEW tr \in Transports, NEW i \in Nat,
               NEW c \in {"MovieDown", "MovieUp"}
        PROVE  ~Queued(tr, i, c)'
    <3>1. c \in Commands /\ c # "SDIOConnect1"
      BY Names
    <3>2. ~(Queued(tr, i, c) /\ IsRunning(tr, i))
      BY <1>3, <1>4, <3>1 DEF IsRunning
    <3> QED
      BY <1>6, <2>1, <3>1, <3>2 DEF SInv, MovieInv
  <2> QED
    BY <1>1, <2>1 DEF SInv, MovieInv
<1> QED
  BY <1>7, <1>8, <1>9, <1>10, <1>11 DEF SInv
-----------------------------------------------------------------------------
(* So does the execution of a command that its caller gave up on.          *)
LEMMA LateKeeps ==
  ASSUME SInv, IInv, IInv', SysTypeOK', Exclusive, NEW tr0 \in Transports,
         LateExecution(tr0)
  PROVE  SInv'
<1> USE DEF objectVars, scriptVars, vars
<1>1. /\ UNCHANGED <<transport_, connection_state_, movie_recording, call,
                     holder, todo, attempt, ok>>
      /\ UNCHANGED <<gone, set, healthy, unsure>>
  BY DEF LateExecution
<1>2. SysTypeOK
  BY DEF SInv
<1>3. PICK n \in Nat : n = Len(queue[tr0])
  BY DEF SInv, SysTypeOK
<1>4. queue[tr0] # <<>> /\ n > 0 /\ (Running /\ tr0 = transport_ => n > 1)
  BY <1>2, <1>3, LateHasCommand
<1>5. /\ queue' \in [Transports -> Seq(Entries)]
      /\ Head(queue[tr0]) \in Entries
      /\ Len(queue'[tr0]) = n - 1
      /\ \A i \in 1..(n - 1) : queue'[tr0][i] = queue[tr0][i + 1]
      /\ \A tr \in Transports, i \in Nat, c \in Commands :
              Queued(tr, i, c)' <=>
                \/ tr # tr0 /\ Queued(tr, i, c)
                \/ tr = tr0 /\ i # 0 /\ Queued(tr0, i + 1, c)
      /\ Queued(tr0, 1, Head(queue[tr0]).cmd)
  <2>1. queue' = [queue EXCEPT ![tr0] = Tail(queue[tr0])]
    BY DEF LateExecution
  <2> QED
    BY <1>2, <1>3, <1>4, <2>1, CarriedOut
<1>6. PICK e \in Entries : e = Head(queue[tr0])
  BY <1>5
<1>7. PICK r \in Replies : Performs(e, r)
  BY <1>6 DEF LateExecution
<1>8. /\ Queued(tr0, 1, e.cmd) /\ e.cmd \in Commands
      /\ \A c : Queued(tr0, 1, c) => c = e.cmd
  BY <1>5, <1>6 DEF Queued, Entries
<1>9. \A i \in Nat : IsRunning(tr0, i + 1) => IsRunning(tr0, i)' /\ i # 0
  BY <1>1, <1>3, <1>4, <1>5 DEF IsRunning, Running
<1>10. ~IsRunning(tr0, 1)
  <2>1. ASSUME Running, tr0 = transport_ PROVE n # 1
    BY <1>4, <2>1
  <2> QED
    BY <1>3, <2>1 DEF IsRunning
<1>11. \A tr \in Transports, i \in Nat : \A c : Queued(tr, i, c) => tr = tr0
  <2>1. \A tr \in Transports, i \in Nat : \A c : Queued(tr, i, c)
          => queue[tr] # <<>>
    BY DEF Queued
  <2> QED
    BY <1>2, <1>4, <2>1, OneQueue DEF SInv
<1>12. transport_ \in Transports => tr0 = transport_
  BY <1>2, <1>4, Alone DEF SInv
<1>13. QueueInv'
  <2>1. Running => transport_ \in Transports
    BY DEF Running, IInv, TypeOK, LockInv, ScriptInv
  <2>2. ASSUME Running
        PROVE  /\ queue'[transport_] # <<>>
               /\ queue'[transport_][Len(queue'[transport_])]
                    = [cmd |-> Head(todo), set |-> set]
    <3>1. tr0 = transport_ /\ n > 1 /\ Len(queue'[tr0]) \in 1..(n - 1)
      BY <1>4, <1>5, <1>12, <2>1, <2>2
    <3>2. queue'[tr0][n - 1] = queue[tr0][n]
      BY <1>5, <3>1
    <3>3. Len(<<>>) = 0
      OBVIOUS
    <3> QED
      BY <1>3, <1>5, <2>2, <3>1, <3>2, <3>3 DEF SInv, QueueInv
  <2>3. \A tr \in Transports \ Retained : tr # transport_ => queue'[tr] = <<>>
    BY <1>4, <1>2 DEF SInv, QueueInv, LateExecution, SysTypeOK
  <2> QED
    BY <1>1, <2>2, <2>3 DEF QueueInv, Running
<1>14. OpenInv'
  <2> SUFFICES ASSUME connection_state_ = "SessionOpen"
               PROVE  /\ session'
                      /\ \A i \in Nat : Queued(transport_, i, "CloseSession")'
                           => IsRunning(transport_, i)'
    BY <1>1 DEF OpenInv
  <2>1. tr0 = transport_
    BY <1>12 DEF IInv, TypeOK, StateInv, StateConsistent
  <2>2. session /\ e.cmd # "CloseSession"
    BY <1>8, <1>10, <2>1 DEF SInv, OpenInv
  <2>3. session'
    BY <1>2, <1>7, <2>2, Effects DEF Performs, Obeys, Ignores
  <2>4. ASSUME NEW i \in Nat, Queued(transport_, i, "CloseSession")'
        PROVE  IsRunning(transport_, i)'
    <3>1. Queued(tr0, i + 1, "CloseSession")
      BY <1>1, <1>5, <2>1, <2>4, Names
    <3> QED
      BY <1>1, <1>9, <2>1, <3>1 DEF SInv, OpenInv
  <2> QED
    BY <2>3, <2>4
<1>15. OrderInv'
  <2> SUFFICES ASSUME NEW tr \in Transports, NEW i \in Nat,
                      NEW c \in Controls \cup SettingNames, Queued(tr, i, c)'
               PROVE  /\ session'
                      /\ \A j \in Nat :
                           j < i => ~Queued(tr, j, "CloseSession")'
    BY DEF OrderInv
  <2>1. c \in Commands /\ "CloseSession" \in Commands
    BY Names
  <2>2. tr = tr0 /\ i # 0 /\ Queued(tr0, i + 1, c)
    BY <1>5, <1>11, <2>1
  <2>3. session /\ \A j \in Nat : j < i + 1 => ~Queued(tr0, j, "CloseSession")
    BY <2>2 DEF SInv, OrderInv
  <2>4. e.cmd # "CloseSession"
    BY <1>8, <2>2, <2>3
  <2>5. session'
    BY <1>2, <1>7, <2>3, <2>4, Effects DEF Performs, Obeys, Ignores
  <2>6. \A j \in Nat : j < i => ~Queued(tr, j, "CloseSession")'
    BY <1>5, <2>1, <2>2, <2>3
  <2> QED
    BY <2>5, <2>6
<1>16. ASSUME NEW b, NEW down \in Commands, NEW up \in Commands,
              ButtonOf(b, down, up), ReleasedInv(b, down, up)
       PROVE  ReleasedInv(b, down, up)'
  <2>1. ASSUME NEW i \in Nat, Queued(tr0, i + 1, down)
        PROVE  \E j \in Nat : j > i /\ Queued(tr0, j, up)'
    <3>1. PICK j \in Nat : j > i + 1 /\ Queued(tr0, j, up)
      BY <1>16, <2>1 DEF ReleasedInv
    <3>2. j - 1 \in Nat /\ j - 1 > i /\ (j - 1) + 1 = j
      BY <3>1
    <3>3. Queued(tr0, j - 1, up)'
      BY <1>5, <3>1, <3>2
    <3> QED
      BY <3>2, <3>3
  <2>2. ASSUME NEW tr \in Transports, NEW i \in Nat, Queued(tr, i, down)'
        PROVE  \E j \in Nat : j > i /\ Queued(tr, j, up)'
    BY <1>5, <1>11, <2>1, <2>2
  <2>3. ASSUME b \in pressed', b \notin refused'
        PROVE  \E tr \in Transports, i \in Nat : Queued(tr, i, up)'
    <3>1. CASE e.cmd = down
      <4>1. 0 \in Nat /\ 0 + 1 = 1
        OBVIOUS
      <4> QED
        BY <1>8, <2>1, <3>1, <4>1
    <3>2. CASE e.cmd # down
      <4>1. b \in pressed /\ e.cmd # up /\ b \notin refused
        BY <1>2, <1>7, <1>16, <2>3, <3>2, ButtonEffects
      <4>2. PICK i \in Nat : Queued(tr0, i, up)
        BY <1>11, <1>16, <4>1 DEF ReleasedInv
      <4>3. i # 0 /\ i # 1
        BY <1>8, <4>1, <4>2 DEF Queued
      <4>4. i - 1 \in Nat /\ i - 1 # 0 /\ (i - 1) + 1 = i
        BY <4>3
      <4>5. Queued(tr0, i - 1, up)'
        BY <1>5, <4>2, <4>4
      <4> QED
        BY <4>4, <4>5
    <3> QED
      BY <3>1, <3>2
  <2> QED
    BY <2>2, <2>3 DEF ReleasedInv
<1>17. ReleaseInv'
  <2>1. RunsClosing' <=> RunsClosing
    BY <1>1 DEF RunsClosing
  <2> QED
    BY <1>1, <1>16, <2>1, Names DEF SInv, ReleaseInv, ButtonOf
<1>18. MovieInv'
  <2> SUFFICES ASSUME ~unsure
               PROVE  /\ movie_recording <=> "Movie" \in pressed'
                      /\ \A tr \in Transports, i \in Nat,
                         c \in {"MovieDown", "MovieUp"} :
                           Queued(tr, i, c)' => IsRunning(tr, i)'
    BY <1>1 DEF MovieInv
  <2>1. e.cmd \notin {"MovieDown", "MovieUp"}
    BY <1>8, <1>10 DEF SInv, MovieInv
  <2>2. "Movie" \in pressed' <=> "Movie" \in pressed
    BY <1>2, <1>7, <2>1, ButtonEffects DEF ButtonOf
  <2>3. ASSUME NEW tr \in Transports, NEW i \in Nat,
               NEW c \in {"MovieDown", "MovieUp"},
               Queued(tr, i, c)'
        PROVE  IsRunning(tr, i)'
    <3>1. tr = tr0 /\ Queued(tr0, i + 1, c)
      BY <1>5, <1>11, <2>3, Names
    <3> QED
      BY <1>9, <3>1 DEF SInv, MovieInv
  <2> QED
    BY <2>2, <2>3 DEF SInv, MovieInv
<1>19. SettingsInv' /\ RecoveryInv'
  <2>1. ASSUME Runs("SetExposureParams") \/ Runs("Connect")
        PROVE  Len(queue[transport_]) # 1
    <3>1. transport_ \in Transports /\ Running
      BY <2>1, InScript DEF Runs, Closes, IInv, TypeOK, ScriptInv, Running
    <3> QED
      <4>1. tr0 = transport_
        BY <1>12, <3>1
      <4>2. n > 1
        BY <1>4, <3>1, <4>1
      <4>3. n # 1
        BY <4>2
      <4> QED
        BY <1>3, <4>1, <4>3
  <2>2. /\ ~(Runs("SetExposureParams") /\ ok /\ todo # Settings)
        /\ ~(Runs("Connect") /\ attempt = 2 /\ healthy)
    BY <2>1 DEF SInv, SettingsInv, RecoveryInv
  <2> QED
    BY <1>1, <2>2 DEF SettingsInv, RecoveryInv, Runs
<1> QED
  BY <1>13, <1>14, <1>15, <1>17, <1>18, <1>19 DEF SInv
-----------------------------------------------------------------------------
(* So does a time-out: the command stays in the queue, and the next one,   *)
(* if there is one, goes behind it.                                        *)
LEMMA TimeoutKeeps ==
  ASSUME SInv, IInv, IInv', SysTypeOK', Exclusive, SysTimeout
  PROVE  SInv'
<1> USE DEF cameraVars
<1> DEFINE e1 == [cmd |-> Head(todo'), set |-> set']
<1>1. /\ "failed" \in Replies /\ "failed" \notin Good
      /\ GoesOn("failed") \/ Ends("failed")
  <2>1. "failed" \in Replies /\ "failed" \notin Good
    BY DEF Replies, Good
  <2> QED
    BY <2>1, ReplyShape DEF SysTimeout
<1>2. /\ transport_ \in Transports /\ Running
      /\ UNCHANGED <<session, pressed, applied, refused, set>>
      /\ healthy' = FALSE /\ unsure' = Unsure(Head(todo), "failed")
  BY <1>1, Heads DEF SysTimeout
<1>3. SysTypeOK
  BY DEF SInv
<1>4. PICK n \in Nat : n = Len(queue[transport_])
  BY <1>2, <1>3 DEF SysTypeOK
<1>5. \A c \in Commands : Queued(transport_, n, c) => c = Head(todo)
  BY <1>2, <1>4 DEF SInv, QueueInv, Queued
<1>6. /\ todo' = <<>> => queue' = queue
      /\ todo' # <<>> =>
           /\ queue' = [queue EXCEPT ![transport_] =
                          Append(queue[transport_], e1)]
           /\ e1 \in Entries
  <2>1. todo' = <<>> => queue' = queue
    BY <1>2, <1>3 DEF SysTimeout, Sends, SysTypeOK
  <2>2. set' \in Nat
    BY <1>2, <1>3 DEF SysTypeOK
  <2> QED
    BY <1>1, <2>1, <2>2, Heads DEF SysTimeout, Sends, Entry, Entries
<1>7. /\ queue' \in [Transports -> Seq(Entries)]
      /\ \A tr \in Transports, i \in Nat, c \in Commands :
           Queued(tr, i, c)' <=>
             \/ Queued(tr, i, c)
             \/ todo' # <<>> /\ tr = transport_ /\ i = n + 1 /\ c = Head(todo')
      /\ todo' # <<>> => /\ Len(queue'[transport_]) = n + 1
                         /\ queue'[transport_] # <<>>
                         /\ queue'[transport_][Len(queue'[transport_])] = e1
  <2>1. CASE todo' = <<>>
    BY <1>3, <1>6, <2>1 DEF SysTypeOK, Queued, Entries
  <2>2. CASE todo' # <<>>
    <3>1. e1.cmd = Head(todo')
      OBVIOUS
    <3> HIDE DEF e1
    <3>2. /\ queue' \in [Transports -> Seq(Entries)]
          /\ Len(queue'[transport_]) = Len(queue[transport_]) + 1
          /\ queue'[transport_] # <<>>
          /\ queue'[transport_][Len(queue'[transport_])] = e1
          /\ \A tr \in Transports, i \in Nat, c \in Commands :
              Queued(tr, i, c)' <=>
                \/ Queued(tr, i, c)
                \/ tr = transport_ /\ i = Len(queue[transport_]) + 1
                     /\ c = e1.cmd
      BY <1>2, <1>3, <1>6, <2>2, Appended
    <3> QED
      BY <1>4, <2>2, <3>1, <3>2
  <2> QED
    BY <2>1, <2>2
<1>8. todo' # <<>> => /\ transport_' = transport_ /\ Head(todo') \in Commands
                      /\ holder' = holder /\ call' = call
                      /\ connection_state_' = connection_state_
  BY <1>1, Heads DEF GoesOn, Ends, LetsGo, WaitsForWorker
<1>9. \A tr, i : IsRunning(tr, i) => tr = transport_ /\ i = n
  BY <1>4 DEF IsRunning
<1>10. todo' # <<>> => \A i : i = n + 1 => IsRunning(transport_, i)'
  BY <1>7, <1>8 DEF IsRunning, Running
<1>11. QueueInv'
  <2>1. ASSUME NEW tr \in Transports \ Retained, tr # transport_'
        PROVE  queue'[tr] = <<>>
    <3>1. CASE tr # transport_
      <4>1. queue[tr] = <<>> /\ queue'[tr] = queue[tr]
        BY <1>3, <1>6, <3>1 DEF SInv, QueueInv, SysTypeOK
      <4> QED
        BY <4>1
    <3>2. CASE tr = transport_
      <4>1. todo' = <<>>
        BY <1>8, <2>1, <3>2
      <4> QED
        BY <1>1, <2>1, <3>2, <4>1 DEF GoesOn, Ends, LetsGo, WaitsForWorker
    <3> QED
      BY <3>1, <3>2
  <2> QED
    BY <1>2, <1>7, <1>8, <2>1 DEF QueueInv, Running
<1>12. ASSUME connection_state_ = "SessionOpen",
              todo' # <<>> \/ connection_state_' = "SessionOpen"
       PROVE  session /\ \A i \in Nat : ~Queued(transport_, i, "CloseSession")
  <2>1. Head(todo) # "CloseSession" /\ "CloseSession" \in Commands
    BY <1>1, <1>12, Heads, Names
  <2> QED
    BY <1>5, <1>9, <1>12, <2>1 DEF SInv, OpenInv
<1>13. connection_state_' = "SessionOpen"
         => connection_state_ = "SessionOpen" /\ transport_' = transport_
  BY <1>1 DEF GoesOn, Ends, LetsGo, WaitsForWorker
<1>14. OpenInv'
  <2> SUFFICES ASSUME connection_state_' = "SessionOpen"
               PROVE  /\ session
                      /\ \A i \in Nat : Queued(transport_, i, "CloseSession")'
                           => IsRunning(transport_, i)'
    BY <1>2, <1>13 DEF OpenInv
  <2>1. session /\ \A i \in Nat : ~Queued(transport_, i, "CloseSession")
    BY <1>12, <1>13
  <2>2. \A i \in Nat : Queued(transport_, i, "CloseSession")'
          => todo' # <<>> /\ i = n + 1
    BY <1>2, <1>7, <1>13, <2>1, Names
  <2> QED
    BY <1>10, <1>13, <2>1, <2>2
<1>15. OrderInv'
  <2> SUFFICES ASSUME NEW tr \in Transports, NEW i \in Nat,
                      NEW c \in Controls \cup SettingNames, Queued(tr, i, c)'
               PROVE  /\ session
                      /\ \A j \in Nat :
                           j < i => ~Queued(tr, j, "CloseSession")'
    BY <1>2 DEF OrderInv
  <2>1. c \in Commands /\ "CloseSession" \in Commands
    BY Names
  <2>2. CASE Queued(tr, i, c)
    <3>1. session /\ \A j \in Nat : j < i => ~Queued(tr, j, "CloseSession")
      BY <2>2 DEF SInv, OrderInv
    <3>2. tr = transport_ => i < n + 1
      BY <1>4, <2>2 DEF Queued
    <3> QED
      BY <1>7, <2>1, <3>1, <3>2
  <2>3. CASE ~Queued(tr, i, c)
    <3>1. todo' # <<>> /\ tr = transport_ /\ i = n + 1 /\ c = Head(todo')
      BY <1>7, <2>1, <2>3
    <3>2. connection_state_ = "SessionOpen"
      BY <1>1, <3>1, Heads
    <3>3. session /\ \A j \in Nat : ~Queued(transport_, j, "CloseSession")
      BY <1>12, <3>1, <3>2
    <3> QED
      BY <1>7, <2>1, <3>1, <3>3
  <2> QED
    BY <2>2, <2>3
<1>16. ASSUME NEW b, NEW down \in Commands, NEW up \in Commands,
              ReleasedInv(b, down, up),
              todo' # <<>> => Head(todo') # down
       PROVE  ReleasedInv(b, down, up)'
  BY <1>2, <1>7, <1>16 DEF ReleasedInv
<1>17. ReleaseInv'
  <2>1. {"MovieDown", "MovieUp", "S1Down", "S1Up"}
          \subseteq Commands \cap Controls
    BY Names
  <2>2. CASE connection_state_ # "SessionOpen"
    <3>1. todo' # <<>> => Head(todo') \notin Controls
      BY <1>1, <2>2, Heads
    <3> QED
      BY <1>16, <2>1, <2>2, <3>1 DEF SInv, ReleaseInv
  <2>3. CASE connection_state_ = "SessionOpen" /\ RunsClosing
    <3>1. todo' # <<>> => Head(todo') \in {"MovieUp", "S1Up", "CloseSession"}
      BY <1>1, <2>3 DEF RunsClosing, GoesOn, Ends, Closes
    <3>2. ReleasedInv("Movie", "MovieDown", "MovieUp")'
      BY <1>16, <2>1, <2>3, <3>1 DEF SInv, ReleaseInv
    <3>3. ReleasedInv("S1", "S1Down", "S1Up")'
      <4>1. CASE todo # Closing
        BY <1>16, <2>1, <2>3, <3>1, <4>1 DEF SInv, ReleaseInv
      <4>2. CASE todo = Closing
        <5>1. todo' = <<"S1Up", "CloseSession">>
          BY <1>1, <2>3, <4>2 DEF RunsClosing, GoesOn, Ends, Closes, Closing
        <5>2. todo' # <<>> /\ Head(todo') = "S1Up"
          BY <5>1
        <5>3. \A i \in Nat : i = n + 1 => Queued(transport_, i, "S1Up")'
          BY <1>2, <1>7, <1>8, <2>1, <5>2
        <5>4. \A tr \in Transports, i \in Nat :
                Queued(tr, i, "S1Down")' => tr = transport_ /\ i < n + 1
          <6>1. \A tr \in Transports, i \in Nat :
                  Queued(tr, i, "S1Down") => tr = transport_ /\ i < n + 1
            BY <1>2, <1>3, <1>4, <2>1, Alone DEF SInv, Queued
          <6> QED
            BY <1>7, <2>1, <5>2, <6>1
        <5>5. n + 1 \in Nat
          OBVIOUS
        <5> QED
          BY <1>2, <1>8, <2>1, <5>2, <5>3, <5>4, <5>5 DEF ReleasedInv
      <4> QED
        BY <4>1, <4>2
    <3> QED
      BY <3>2, <3>3 DEF ReleaseInv
  <2>4. CASE connection_state_ = "SessionOpen" /\ ~RunsClosing
    <3>1. connection_state_' = "SessionOpen" /\ ~RunsClosing'
      BY <1>1, <2>4, ImplAssumption
      DEF RunsClosing, GoesOn, Ends, LetsGo, WaitsForWorker
    <3> QED
      BY <3>1 DEF ReleaseInv
  <2> QED
    BY <2>2, <2>3, <2>4
<1>18. MovieInv'
  <2> SUFFICES ASSUME ~unsure'
               PROVE  /\ movie_recording' <=> "Movie" \in pressed
                      /\ \A tr \in Transports, i \in Nat,
                         c \in {"MovieDown", "MovieUp"} :
                           Queued(tr, i, c)' => IsRunning(tr, i)'
    BY <1>2 DEF MovieInv
  <2>1. Head(todo) \notin {"MovieDown", "MovieUp"} /\ ~unsure
    BY <1>2 DEF Unsure
  <2>2. movie_recording' = movie_recording
    BY <1>1, <2>1 DEF GoesOn, Ends, LetsGo, WaitsForWorker
  <2>3. ASSUME NEW tr \in Transports, NEW i \in Nat,
               NEW c \in {"MovieDown", "MovieUp"},
               Queued(tr, i, c)'
        PROVE  IsRunning(tr, i)'
    <3>1. c \in Commands
      BY Names
    <3>2. ~Queued(tr, i, c)
      <4>1. Queued(tr, i, c) => tr = transport_ /\ i = n
        BY <1>9, <2>1 DEF SInv, MovieInv
      <4> QED
        BY <1>5, <2>1, <3>1, <4>1
    <3>3. todo' # <<>> /\ tr = transport_ /\ i = n + 1
      BY <1>7, <2>3, <3>1, <3>2
    <3> QED
      BY <1>8, <1>10, <3>3
  <2> QED
    BY <2>1, <2>2, <2>3 DEF SInv, MovieInv
<1>19. SettingsInv' /\ RecoveryInv'
  <2>1. ~(Runs("SetExposureParams")' /\ ok')
    BY <1>1 DEF GoesOn, Ends, LetsGo, WaitsForWorker, Runs, Closes
  <2> QED
    BY <1>2, <2>1 DEF SettingsInv, RecoveryInv
<1> QED
  BY <1>11, <1>14, <1>15, <1>17, <1>18, <1>19 DEF SInv
-----------------------------------------------------------------------------
(* While the answer is awaited in an otherwise empty queue, nothing else   *)
(* is queued anywhere, and what follows is the next command, if there is   *)
(* one.                                                                    *)
LEMMA Answered ==
  ASSUME SInv, IInv, IInv', Exclusive, NEW r \in Replies,
         Running, Len(queue[transport_]) = 1,
         GoesOn(r) \/ Ends(r), set' = set, Sends(<<>>)
  PROVE  /\ Head(queue[transport_]) = [cmd |-> Head(todo), set |-> set]
         /\ Head(queue[transport_]) \in Entries
         /\ \A tr \in Transports, i \in Nat : \A c :
              Queued(tr, i, c) => tr = transport_ /\ i = 1 /\ c = Head(todo)
         /\ Queued(transport_, 1, Head(todo))
         /\ queue' \in [Transports -> Seq(Entries)]
         /\ \A tr \in Transports : tr # transport_ => queue'[tr] = <<>>
         /\ todo' = <<>> => queue'[transport_] = <<>>
         /\ todo' # <<>> =>
              /\ Len(queue'[transport_]) = 1 /\ queue'[transport_] # <<>>
              /\ queue'[transport_][1] = [cmd |-> Head(todo'), set |-> set']
         /\ \A tr \in Transports, i \in Nat, c \in Commands :
              Queued(tr, i, c)' <=>
                todo' # <<>> /\ tr = transport_ /\ i = 1 /\ c = Head(todo')
<1> DEFINE e == [cmd |-> Head(todo), set |-> set]
           e1 == [cmd |-> Head(todo'), set |-> set']
<1>1. /\ transport_ \in Transports /\ Head(todo) \in Commands /\ SysTypeOK
      /\ set \in Nat /\ set' \in Nat
  BY Heads DEF SInv, SysTypeOK
<1>2. e \in Entries /\ e.cmd = Head(todo)
  BY <1>1 DEF Entries
<1>3. queue[transport_] # <<>> /\ queue[transport_][1] = e
  BY DEF SInv, QueueInv
<1>4. Head(queue[transport_]) = queue[transport_][1]
  BY <1>1, <1>3, HeadTailProperties DEF SysTypeOK
<1> HIDE DEF e
<1>5. \A tr \in Transports : tr # transport_ => queue[tr] = <<>>
  BY <1>1, Alone DEF SInv
<1>6. \A tr \in Transports, i \in Nat : \A c :
        Queued(tr, i, c) => tr = transport_ /\ i = 1 /\ c = Head(todo)
  <2>1. Len(<<>>) = 0
    OBVIOUS
  <2> QED
    BY <1>2, <1>3, <1>5, <2>1 DEF Queued
<1>7. Queued(transport_, 1, Head(todo))
  BY <1>2, <1>3 DEF Queued
<1>8. CASE todo' = <<>>
  <2>1. queue' = [queue EXCEPT ![transport_] = <<>>]
    BY <1>8 DEF Sends
  <2>2. /\ queue' \in [Transports -> Seq(Entries)]
        /\ queue'[transport_] = <<>>
        /\ \A tr \in Transports, i \in Nat, c \in Commands :
             Queued(tr, i, c)' <=> tr # transport_ /\ Queued(tr, i, c)
    BY <1>1, <2>1, Emptied
  <2>3. \A tr \in Transports : tr # transport_ => queue'[tr] = <<>>
    BY <1>1, <1>5, <2>1 DEF SysTypeOK
  <2> QED
    BY <1>2, <1>3, <1>4, <1>6, <1>7, <1>8, <2>2, <2>3 DEF e
<1>9. CASE todo' # <<>>
  <2>1. queue' = [queue EXCEPT ![transport_] = Append(<<>>, e1)]
    BY <1>9 DEF Sends, Entry
  <2>2. e1 \in Entries /\ e1.cmd = Head(todo')
    BY <1>1, <1>9, Heads DEF Entries
  <2> HIDE DEF e1
  <2>3. /\ queue' \in [Transports -> Seq(Entries)]
        /\ Len(queue'[transport_]) = 1 /\ queue'[transport_] # <<>>
        /\ queue'[transport_][1] = e1
        /\ \A tr \in Transports, i \in Nat, c \in Commands :
             Queued(tr, i, c)' <=>
               \/ tr # transport_ /\ Queued(tr, i, c)
               \/ tr = transport_ /\ i = 1 /\ c = e1.cmd
    BY <1>1, <2>1, <2>2, Replaced
  <2>4. \A tr \in Transports : tr # transport_ => queue'[tr] = <<>>
    BY <1>1, <1>5, <2>1 DEF SysTypeOK
  <2>5. \A tr \in Transports, i \in Nat, c \in Commands :
             Queued(tr, i, c)' <=> tr = transport_ /\ i = 1 /\ c = Head(todo')
    BY <1>6, <2>2, <2>3
  <2> QED
    BY <1>2, <1>3, <1>4, <1>6, <1>7, <1>9, <2>3, <2>4, <2>5 DEF e, e1
<1> QED
  BY <1>8, <1>9

(* So does an answer of the camera, with the command that follows it.      *)
LEMMA AnswerKeeps ==
  ASSUME SInv, IInv, IInv', SysTypeOK', Exclusive, SysAnswer
  PROVE  SInv'
<1>1. PICK r \in Replies :
        /\ Performs(Head(queue[transport_]), r) /\ Reply(r)
        /\ healthy' = (healthy /\ HealthyAnswer(Head(todo), r))
        /\ Tells(Head(todo), r)
  BY DEF SysAnswer
<1>2. GoesOn(r) \/ Ends(r)
  BY <1>1, ReplyShape
<1>3. SysTypeOK /\ Running /\ Len(queue[transport_]) = 1 /\ set' = set
        /\ Sends(<<>>)
  BY DEF SInv, SysAnswer
<1> DEFINE cmd == Head(todo)
<1>4. PICK e \in Entries : /\ e = Head(queue[transport_])
                           /\ e.cmd = cmd /\ e.set = set
  <2>1. /\ Head(queue[transport_]) = [cmd |-> Head(todo), set |-> set]
        /\ Head(queue[transport_]) \in Entries
    BY <1>2, <1>3, Answered
  <2> QED
    BY <2>1
<1>5. Performs(e, r)
  BY <1>1, <1>4
<1>6. /\ \A tr \in Transports, i \in Nat : \A c :
           Queued(tr, i, c) => tr = transport_ /\ i = 1 /\ c = cmd
      /\ Queued(transport_, 1, cmd)
      /\ queue' \in [Transports -> Seq(Entries)]
      /\ \A tr \in Transports : tr # transport_ => queue'[tr] = <<>>
      /\ todo' = <<>> => queue'[transport_] = <<>>
      /\ todo' # <<>> =>
           /\ Len(queue'[transport_]) = 1 /\ queue'[transport_] # <<>>
           /\ queue'[transport_][1] = [cmd |-> Head(todo'), set |-> set']
      /\ \A tr \in Transports, i \in Nat, c \in Commands :
           Queued(tr, i, c)' <=>
             todo' # <<>> /\ tr = transport_ /\ i = 1 /\ c = Head(todo')
  BY <1>2, <1>3, Answered
<1>7. /\ transport_ \in Transports /\ cmd \in Commands
      /\ todo' # <<>> => Head(todo') \in Commands /\ transport_' = transport_
      /\ connection_state_ # "SessionOpen" =>
           /\ cmd \notin Controls \cup SettingNames
           /\ todo' # <<>> => Head(todo') \notin Controls \cup SettingNames
      /\ connection_state_ = "SessionOpen" =>
           \/ cmd \notin {"OpenSession", "CloseSession"}
           \/ connection_state_' # "SessionOpen" /\ todo' = <<>>
      /\ call[holder].op \in Closes
           => cmd \in {"MovieUp", "S1Up", "CloseSession"}
  BY <1>2, Heads
<1>8. todo' # <<>> => /\ GoesOn(r)
                      /\ holder' = holder /\ call' = call
                      /\ connection_state_' = connection_state_
  BY <1>2 DEF GoesOn, Ends, LetsGo, WaitsForWorker
<1>9. /\ session' # session => cmd \in {"OpenSession", "CloseSession"}
      /\ cmd = "OpenSession" /\ r \in Good => session'
      /\ cmd = "CloseSession" /\ r \in Good => ~session'
      /\ pressed' # pressed => cmd \in Controls
      /\ applied' # applied => cmd \in SettingNames
      /\ cmd \in SettingNames /\ r \in Good =>
           /\ applied'[cmd] = set
           /\ \A s \in SettingNames : s # cmd => applied'[s] = applied[s]
  BY <1>3, <1>4, <1>5, Effects
<1>10. todo' # <<>> => \A i : i = 1 => IsRunning(transport_, i)'
  BY <1>6, <1>7 DEF IsRunning, Running
<1> HIDE DEF cmd
<1>11. QueueInv'
  BY <1>6, <1>7 DEF QueueInv, Running
<1>12. connection_state_ = "SessionOpen"
         /\ (todo' # <<>> \/ connection_state_' = "SessionOpen")
         => session'
  <2> SUFFICES ASSUME connection_state_ = "SessionOpen",
                      todo' # <<>> \/ connection_state_' = "SessionOpen"
               PROVE  session'
    OBVIOUS
  <2>1. session
    BY DEF SInv, OpenInv
  <2>2. session' = session
    BY <1>7, <1>9
  <2> QED
    BY <2>1, <2>2
<1>13. OpenInv'
  <2> SUFFICES ASSUME connection_state_' = "SessionOpen"
               PROVE  /\ session'
                      /\ \A i \in Nat : Queued(transport_, i, "CloseSession")'
                           => IsRunning(transport_, i)'
    BY DEF OpenInv
  <2>1. session'
    <3>1. CASE connection_state_ = "SessionOpen"
      BY <1>12, <3>1
    <3>2. CASE connection_state_ # "SessionOpen"
      <4>1. todo = <<"OpenSession">> /\ r \in Good
        BY <1>2, <3>2 DEF GoesOn, Ends, LetsGo, WaitsForWorker
      <4>2. Head(<<"OpenSession">>) = "OpenSession"
        OBVIOUS
      <4> QED
        BY <1>9, <4>1, <4>2 DEF cmd
    <3> QED
      BY <3>1, <3>2
  <2>2. transport_' = transport_
    BY <1>2 DEF GoesOn, Ends, LetsGo, WaitsForWorker
  <2>3. ASSUME NEW i \in Nat, Queued(transport_, i, "CloseSession")'
        PROVE  IsRunning(transport_, i)'
    BY <1>6, <1>7, <1>10, <2>2, <2>3, Names
  <2> QED
    BY <2>1, <2>3
<1>14. OrderInv'
  <2> SUFFICES ASSUME NEW tr \in Transports, NEW i \in Nat,
                      NEW c \in Controls \cup SettingNames, Queued(tr, i, c)'
               PROVE  /\ session'
                      /\ \A j \in Nat :
                           j < i => ~Queued(tr, j, "CloseSession")'
    BY DEF OrderInv
  <2>1. c \in Commands /\ "CloseSession" \in Commands
    BY Names
  <2>2. todo' # <<>> /\ i = 1 /\ c = Head(todo')
    BY <1>6, <2>1
  <2>3. session'
    BY <1>7, <1>12, <2>2
  <2>4. \A j \in Nat : j < 1 => j # 1
    OBVIOUS
  <2> QED
    BY <1>6, <2>1, <2>2, <2>3, <2>4
<1>15. ASSUME NEW b, NEW down \in Commands, NEW up \in Commands,
              ButtonOf(b, down, up),
              ReleasedInv(b, down, up) \/ cmd = up,
              todo' # <<>> => Head(todo') # down
       PROVE  ReleasedInv(b, down, up)'
  <2>1. ASSUME b \in pressed' PROVE b \in refused'
    <3>1. /\ b \in pressed' => b \in pressed \/ e.cmd = down
          /\ e.cmd = up => b \notin pressed' \/ b \in refused'
          /\ e.cmd # up /\ b \in refused => b \in refused'
      BY <1>3, <1>5, <1>15, ButtonEffects
    <3>2. CASE cmd = up
      BY <1>4, <2>1, <3>1, <3>2
    <3>3. CASE cmd # up
      <4>1. ReleasedInv(b, down, up)
        BY <1>15, <3>3
      <4>2. \A tr \in Transports, i \in Nat : ~Queued(tr, i, up)
        BY <1>6, <3>3
      <4>3. cmd # down
        BY <1>6, <1>7, <4>1, <4>2 DEF ReleasedInv
      <4>4. b \in refused
        BY <1>4, <2>1, <3>1, <4>1, <4>2, <4>3 DEF ReleasedInv
      <4> QED
        BY <1>4, <3>1, <3>3, <4>4
    <3> QED
      BY <3>2, <3>3
  <2>2. \A tr \in Transports, i \in Nat : ~Queued(tr, i, down)'
    BY <1>6, <1>15
  <2> QED
    BY <2>1, <2>2 DEF ReleasedInv
<1>16. ReleaseInv'
  <2>1. /\ {"MovieDown", "MovieUp", "S1Down", "S1Up"}
             \subseteq Commands \cap Controls
        /\ ButtonOf("Movie", "MovieDown", "MovieUp")
        /\ ButtonOf("S1", "S1Down", "S1Up")
    BY Names DEF ButtonOf
  <2>2. CASE connection_state_ # "SessionOpen"
    <3>1. todo' # <<>> => Head(todo') \notin Controls
      BY <1>7, <2>2
    <3> QED
      BY <1>15, <2>1, <2>2, <3>1 DEF SInv, ReleaseInv
  <2>3. CASE connection_state_ = "SessionOpen" /\ RunsClosing
    <3>1. todo' # <<>> => Head(todo') \in {"MovieUp", "S1Up", "CloseSession"}
      BY <1>2, <2>3 DEF RunsClosing, GoesOn, Ends, Closes
    <3>2. ReleasedInv("Movie", "MovieDown", "MovieUp")'
      BY <1>15, <2>1, <2>3, <3>1 DEF SInv, ReleaseInv
    <3>3. ReleasedInv("S1", "S1Down", "S1Up")'
      <4>1. CASE todo # Closing
        BY <1>15, <2>1, <2>3, <3>1, <4>1 DEF SInv, ReleaseInv
      <4>2. CASE todo = Closing
        <5>1. todo' = <<"S1Up", "CloseSession">>
          BY <1>2, <2>3, <4>2 DEF RunsClosing, GoesOn, Ends, Closes, Closing
        <5>2. todo' # <<>> /\ Head(todo') = "S1Up"
          BY <5>1
        <5>3. Queued(transport_, 1, "S1Up")'
          BY <1>6, <1>7, <2>1, <5>2
        <5>4. \A tr \in Transports, i \in Nat : ~Queued(tr, i, "S1Down")'
          BY <1>6, <2>1, <5>2
        <5> QED
          BY <1>7, <5>2, <5>3, <5>4 DEF ReleasedInv
      <4> QED
        BY <4>1, <4>2
    <3> QED
      BY <3>2, <3>3 DEF ReleaseInv
  <2>4. CASE connection_state_ = "SessionOpen" /\ ~RunsClosing
    <3>1. connection_state_' = "SessionOpen" /\ ~RunsClosing'
      BY <1>2, <2>4, ImplAssumption
      DEF RunsClosing, GoesOn, Ends, LetsGo, WaitsForWorker
    <3> QED
      BY <3>1 DEF ReleaseInv
  <2> QED
    BY <2>2, <2>3, <2>4
<1>17. MovieInv'
  <2>1. ASSUME NEW tr \in Transports, NEW i \in Nat,
               NEW c \in {"MovieDown", "MovieUp"},
               Queued(tr, i, c)'
        PROVE  IsRunning(tr, i)'
    BY <1>6, <1>7, <1>10, <2>1, Names
  <2>2. ASSUME ~unsure' PROVE movie_recording' <=> "Movie" \in pressed'
    <3>1. CASE /\ Runs("UpdateStatus") /\ r = "ok"
               /\ \E v \in Dumped("Movie" \in pressed) :
                    movie_recording' = IsRecording(v) /\ unsure' = (v = 1)
      <4>1. todo = <<"GetAllExtDeviceInfo">>
        BY <3>1, InScript DEF Runs, Closes, IInv, ScriptInv
      <4>2. cmd \notin Controls
        <5>1. Head(<<"GetAllExtDeviceInfo">>) = "GetAllExtDeviceInfo"
          OBVIOUS
        <5> QED
          BY <4>1, <5>1 DEF cmd, Controls
      <4>3. movie_recording' <=> "Movie" \in pressed
        <5>1. PICK v \in Dumped("Movie" \in pressed) :
                movie_recording' = IsRecording(v) /\ unsure' = (v = 1)
          BY <3>1
        <5>2. v # 1
          BY <2>2, <5>1
        <5>3. v # 0 <=> "Movie" \in pressed
          BY <5>2 DEF Dumped
        <5>4. movie_recording' <=> v # 0
          BY <5>1 DEF IsRecording
        <5> QED
          BY <5>3, <5>4
      <4> QED
        BY <1>9, <4>2, <4>3
    <3>2. CASE /\ Runs("UpdateStatus") => movie_recording' = movie_recording
               /\ unsure' = Unsure(cmd, r)
      <4>1. CASE cmd \notin {"MovieDown", "MovieUp"}
        <5>1. ~unsure
          BY <2>2, <3>2, <4>1 DEF Unsure
        <5>2. movie_recording' = movie_recording
          BY <1>2, <3>2, <4>1, ImplAssumption
          DEF GoesOn, Ends, LetsGo, WaitsForWorker, Runs, cmd
        <5>3. "Movie" \in pressed' <=> "Movie" \in pressed
          BY <1>3, <1>4, <1>5, <4>1, ButtonEffects DEF ButtonOf
        <5> QED
          BY <5>1, <5>2, <5>3 DEF SInv, MovieInv
      <4>2. CASE cmd \in {"MovieDown", "MovieUp"}
        <5>1. Runs("ControlDevice") /\ r # "failed"
                /\ ~(unsure /\ r \notin Good)
          BY <2>2, <3>2, <4>2 DEF Unsure
        <5>2. movie_recording' =
                IF r \in Good THEN cmd = "MovieDown" ELSE movie_recording
          BY <1>2, <4>2, <5>1
          DEF GoesOn, Ends, LetsGo, WaitsForWorker, Runs, Closes, cmd
        <5>3. /\ cmd = "MovieDown" /\ r \in Good => "Movie" \in pressed'
              /\ cmd = "MovieUp" /\ r \in Good => "Movie" \notin pressed'
              /\ r \in {"reject", "other"}
                   => ("Movie" \in pressed' <=> "Movie" \in pressed)
          <6>1. ButtonOf("Movie", "MovieDown", "MovieUp")
            BY DEF ButtonOf
          <6> QED
            BY <1>3, <1>4, <1>5, <6>1, ButtonEffects
        <5>4. CASE r \in Good
          BY <4>2, <5>2, <5>3, <5>4
        <5>5. CASE r \notin Good
          <6>1. r \in {"reject", "other"}
            BY <5>1, <5>5 DEF Replies
          <6> QED
            BY <5>1, <5>2, <5>3, <5>5, <6>1 DEF SInv, MovieInv
        <5> QED
          BY <5>4, <5>5
      <4> QED
        BY <4>1, <4>2
    <3> QED
      BY <1>1, <3>1, <3>2 DEF Tells, cmd
  <2> QED
    BY <2>1, <2>2 DEF MovieInv
<1>18. SettingsInv'
  <2> SUFFICES ASSUME Runs("SetExposureParams")', ok', todo' # Settings
               PROVE  /\ Len(queue'[transport_']) = 1
                      /\ \A k \in 1..Len(Settings) :
                           k <= Len(Settings) - Len(todo')
                             => applied'[Settings[k]] = set
    BY <1>3 DEF SettingsInv
  <2>1. /\ todo' # <<>> /\ GoesOn(r) /\ Runs("SetExposureParams")
        /\ todo \in SettingsRest /\ Len(todo) > 1 /\ todo' = Tail(todo)
        /\ ok /\ r \in Good
    BY <1>2 DEF GoesOn, Ends, LetsGo, WaitsForWorker, Runs, Closes
  <2>2. /\ Len(todo') = Len(todo) - 1 /\ Len(todo) \in 1..4
        /\ (Len(todo) = 4 <=> todo = Settings)
        /\ cmd \in SettingNames /\ cmd = Settings[5 - Len(todo)]
        /\ \A k \in 1..4 : k # 5 - Len(todo) => Settings[k] # cmd
        /\ Len(Settings) = 4 /\ \A k \in 1..4 : Settings[k] \in SettingNames
    BY <2>1, SettingsTail, SettingsHeads DEF cmd
  <2>3. ASSUME NEW k \in 1..4, k <= 4 - Len(todo')
        PROVE  applied'[Settings[k]] = set
    <3>1. CASE k = 5 - Len(todo)
      BY <1>9, <2>1, <2>2, <3>1
    <3>2. CASE k # 5 - Len(todo)
      <4>1. k <= 4 - Len(todo) /\ todo # Settings
        <5>1. PICK l \in 1..4 : l = Len(todo)
          BY <2>2
        <5>2. k <= 4 - (l - 1) /\ k # 5 - l
          BY <2>2, <2>3, <3>2, <5>1
        <5>3. k <= 4 - l /\ l # 4
          BY <5>2
        <5> QED
          BY <2>2, <5>1, <5>3
      <4>2. applied[Settings[k]] = set
        BY <2>1, <2>2, <4>1 DEF SInv, SettingsInv
      <4> QED
        BY <1>9, <2>1, <2>2, <3>2, <4>2
    <3> QED
      BY <3>1, <3>2
  <2> QED
    BY <1>6, <1>7, <2>1, <2>2, <2>3
<1>19. RecoveryInv'
  <2> SUFFICES ASSUME Runs("Connect")', attempt' = 2, healthy'
               PROVE  ~session' /\ Len(queue'[transport_']) = 1
    BY DEF RecoveryInv
  <2>1. /\ todo' # <<>> /\ GoesOn(r) /\ Runs("Connect") /\ healthy
        /\ HealthyAnswer(cmd, r)
    BY <1>1, <1>2
    DEF GoesOn, Ends, LetsGo, WaitsForWorker, Runs, Closes, cmd
  <2>2. ~session'
    <3>1. CASE todo = Between
      <4>1. cmd = "CloseSession"
        BY <3>1, BetweenHead DEF cmd
      <4>2. r \in Good
        BY <2>1, <4>1 DEF HealthyAnswer
      <4> QED
        BY <1>9, <4>1, <4>2
    <3>2. CASE todo # Between
      <4>1. /\ todo \in HandshakeRest /\ attempt = 2
            /\ Len(todo) > 1 \/ cmd = "GetExtDeviceInfo"
        BY <2>1, <3>2 DEF GoesOn, Runs, Closes, cmd
      <4>2. cmd \notin {"OpenSession", "CloseSession"}
        BY <4>1, HandshakeHeads DEF cmd
      <4>3. ~session
        BY <2>1, <4>1 DEF SInv, RecoveryInv
      <4> QED
        BY <1>9, <4>2, <4>3
    <3> QED
      BY <3>1, <3>2
  <2> QED
    BY <1>6, <1>7, <2>1, <2>2
<1> QED
  BY <1>11, <1>13, <1>14, <1>16, <1>17, <1>18, <1>19 DEF SInv
-----------------------------------------------------------------------------
(* Every step keeps the invariant, if the caller is exclusive.             *)
LEMMA StepSInv ==
  ASSUME Exclusive
  PROVE  IInv /\ IInv' /\ SInv /\ [SysNext]_sysVars => SInv'
<1>1. IInv /\ IInv' /\ SInv /\ [SysNext]_sysVars => SysTypeOK'
  BY StepTypes DEF SInv
<1> QED
  BY <1>1, Kinds, QuietKeeps, StartKeeps, AtOnceKeeps, AnswerKeeps,
     TimeoutKeeps, ThrowKeeps, JoinKeeps, LateKeeps
  DEF SInv

(* The invariant holds throughout, with the one of the object.             *)
THEOREM SysInvariance ==
  ASSUME Exclusive PROVE SysSpec => [](IInv /\ SInv)
<1>1. SysInit => IInv /\ SInv
  BY InitIInv, SysInitSInv DEF SysInit
<1>2. IInv /\ SInv /\ [SysNext]_sysVars => (IInv /\ SInv)'
  BY StepIInv, StepSInv, ObjectSteps
<1> QED
  BY <1>1, <1>2, PTL DEF SysSpec

(* An object that believes in its session is right: the camera has one     *)
(* open, however many commands of earlier calls were carried out late.     *)
THEOREM SessionBelieved == ASSUME Exclusive PROVE SysSpec => []SessionIsOpen
<1>1. SInv => SessionIsOpen
  BY DEF SInv, OpenInv, SessionIsOpen, EnsureConnected
<1> QED
  BY <1>1, SysInvariance, PTL

(* After the end of the session, once the queues are empty, the recording  *)
(* has stopped and S1 is up, unless the camera refused to.                 *)
THEOREM NothingLeftBehind ==
  ASSUME Exclusive PROVE SysSpec => []ReleasedWhenClosed
<1>1. ASSUME IInv, SInv PROVE ReleasedWhenClosed
  <2> SUFFICES ASSUME ~EnsureConnected, ~Running,
                      \A tr \in Transports : queue[tr] = <<>>
               PROVE  {"S1", "Movie"} \cap pressed \subseteq refused
    BY DEF ReleasedWhenClosed
  <2>1. connection_state_ # "SessionOpen"
    BY <1>1 DEF EnsureConnected, IInv, StateInv, StateConsistent
  <2>2. \A tr \in Transports, i \in Nat : \A c : ~Queued(tr, i, c)
    BY DEF Queued
  <2> QED
    BY <1>1, <2>1, <2>2 DEF SInv, ReleaseInv, ReleasedInv
<1> QED
  BY <1>1, SysInvariance, PTL

(* The object knows whether the camera is recording, until a movie command *)
(* is left without an answer, a session ends, or a status has the value 1, *)
(* which the object takes for a recording and which may be the button at   *)
(* rest.                                                                   *)
THEOREM RecordingBelieved ==
  ASSUME Exclusive PROVE SysSpec => []RecordingIsKnown
<1>1. SInv => RecordingIsKnown
  BY DEF SInv, MovieInv, RecordingIsKnown
<1> QED
  BY <1>1, SysInvariance, PTL

(* What the running Escape() did when its answer arrives.                  *)
LEMMA AnswerEffects ==
  ASSUME SInv, IInv, IInv', Exclusive, SysAnswer
  PROVE  \E r \in Replies :
           /\ GoesOn(r) \/ Ends(r)
           /\ healthy' = (healthy /\ HealthyAnswer(Head(todo), r))
           /\ Queued(transport_, 1, Head(todo)) /\ transport_ \in Transports
           /\ pressed' # pressed => Head(todo) \in Controls
           /\ applied' # applied => Head(todo) \in SettingNames
           /\ Head(todo) \in SettingNames /\ r \in Good =>
                /\ applied'[Head(todo)] = set
                /\ \A s \in SettingNames : s # Head(todo)
                     => applied'[s] = applied[s]
<1>1. PICK r \in Replies :
        /\ Performs(Head(queue[transport_]), r) /\ Reply(r)
        /\ healthy' = (healthy /\ HealthyAnswer(Head(todo), r))
  BY DEF SysAnswer
<1>2. GoesOn(r) \/ Ends(r)
  BY <1>1, ReplyShape
<1>3. SysTypeOK /\ Running /\ Len(queue[transport_]) = 1 /\ set' = set
        /\ Sends(<<>>)
  BY DEF SInv, SysAnswer
<1>4. /\ Head(queue[transport_]) = [cmd |-> Head(todo), set |-> set]
      /\ Head(queue[transport_]) \in Entries
      /\ Queued(transport_, 1, Head(todo))
  BY <1>2, <1>3, Answered
<1>5. PICK e \in Entries : /\ e = Head(queue[transport_])
                           /\ e.cmd = Head(todo) /\ e.set = set
  BY <1>4
<1>6. /\ pressed' # pressed => e.cmd \in Controls
      /\ applied' # applied => e.cmd \in SettingNames
      /\ e.cmd \in SettingNames /\ r \in Good =>
           /\ applied'[e.cmd] = e.set
           /\ \A s \in SettingNames : s # e.cmd => applied'[s] = applied[s]
  BY <1>1, <1>3, <1>5, Effects
<1>7. transport_ \in Transports
  BY <1>2, Heads
<1> QED
  BY <1>1, <1>2, <1>4, <1>5, <1>6, <1>7

(* A button or a setting only changes in an open session: the end of a     *)
(* session is behind whatever was queued in it.                            *)
THEOREM InSession == ASSUME Exclusive PROVE SysSpec => StaysInSession
<1> USE DEF cameraVars
<1>1. ASSUME IInv, IInv', SInv, [SysNext]_sysVars,
             pressed' # pressed \/ applied' # applied
      PROVE  session
  <2>1. ASSUME SysAnswer PROVE session
    <3>1. Queued(transport_, 1, Head(todo)) /\ transport_ \in Transports
            /\ Head(todo) \in Controls \cup SettingNames
      BY <1>1, <2>1, AnswerEffects
    <3> QED
      BY <1>1, <3>1 DEF SInv, OrderInv
  <2>2. ASSUME NEW tr \in Transports, LateExecution(tr) PROVE session
    <3>1. SysTypeOK /\ queue[tr] # <<>>
            /\ queue' = [queue EXCEPT ![tr] = Tail(queue[tr])]
      BY <1>1, <2>2, LateHasCommand DEF LateExecution, SInv
    <3>2. Queued(tr, 1, Head(queue[tr]).cmd) /\ Head(queue[tr]) \in Entries
      BY <3>1, CarriedOut
    <3>3. PICK r \in Replies : Performs(Head(queue[tr]), r)
      BY <2>2 DEF LateExecution
    <3>4. Head(queue[tr]).cmd \in Controls \cup SettingNames
      BY <1>1, <3>1, <3>2, <3>3, Effects
    <3> QED
      BY <1>1, <3>2, <3>4 DEF SInv, OrderInv
  <2>3. \/ Quiet
        \/ \E t \in Threads : SysStart(t) \/ SysAtOnce(t)
        \/ SysTimeout \/ SysThrows \/ SysJoined
        => pressed' = pressed /\ applied' = applied
    BY DEF Quiet, SysStart, SysAtOnce, SysTimeout, SysThrows, SysJoined
  <2> QED
    BY <1>1, <2>1, <2>2, <2>3, Kinds DEF SInv
<1>2. IInv /\ IInv' /\ SInv /\ [SysNext]_sysVars
        => [pressed' # pressed \/ applied' # applied => session]_sysVars
  BY <1>1
<1> QED
  BY <1>2, SysInvariance, PTL DEF SysSpec, StaysInSession

(* A Connect() to a camera that answers throughout returns true, even if   *)
(* the camera still has the session of an earlier connection.              *)
THEOREM Recovery == ASSUME Exclusive PROVE SysSpec => ConnectRecovers
<1>1. ASSUME IInv, IInv', SInv, [SysNext]_sysVars,
             Runs("Connect"), todo # <<>>, todo' = <<>>, healthy'
      PROVE  ret'[holder] = "true"
  <2>1. SysAnswer
    <3>1. ~SysTimeout /\ ~SysThrows
      BY <1>1 DEF SysTimeout, SysThrows
    <3>2. \A t \in Threads : ~SysStart(t) /\ ~SysAtOnce(t)
      BY <1>1
      DEF SysStart, SysAtOnce, Begin, IInv, LockInv, Runs, Enters,
          ConnectAtOnce, ConnectBegin, SetSameTransport, CloseBegin,
          CloseAtOnce, CommandBegin, NotConnected, Get, EndsSession
    <3>3. ~Quiet /\ \A tr \in Transports : ~LateExecution(tr)
      BY <1>1 DEF Quiet, LateExecution, vars, scriptVars
    <3>4. ~SysJoined
      BY <1>1 DEF SysJoined, Joined, IInv, LockInv
    <3> QED
      BY <1>1, <3>1, <3>2, <3>3, <3>4, Kinds DEF SInv
  <2>2. PICK r \in Replies :
          /\ GoesOn(r) \/ Ends(r)
          /\ healthy' = (healthy /\ HealthyAnswer(Head(todo), r))
    BY <1>1, <2>1, AnswerEffects
  <2>3. Ends(r) /\ healthy /\ HealthyAnswer(Head(todo), r)
    BY <1>1, <2>2 DEF GoesOn
  <2>4. ASSUME todo \in HandshakeRest,
               IF Head(todo) = "GetExtDeviceInfo"
               THEN r # "ok" ELSE r \notin Good,
               r = "reject" => attempt = 2
        PROVE  FALSE
    <3>1. CASE Head(todo) = "OpenSession" /\ session
      <4>1. r = "reject" /\ attempt = 2
        BY <2>3, <2>4, <3>1 DEF HealthyAnswer
      <4> QED
        BY <1>1, <2>3, <3>1, <4>1 DEF SInv, RecoveryInv
    <3>2. CASE ~(Head(todo) = "OpenSession" /\ session)
      BY <2>3, <2>4, <3>2 DEF HealthyAnswer, Good
    <3> QED
      BY <3>1, <3>2
  <2> QED
    BY <1>1, <2>3, <2>4 DEF Ends, Runs, Closes
<1>2. IInv /\ IInv' /\ SInv /\ [SysNext]_sysVars
        => [Runs("Connect") /\ todo # <<>> /\ todo' = <<>> /\ healthy'
              => ret'[holder] = "true"]_sysVars
  BY <1>1
<1> QED
  BY <1>2, SysInvariance, PTL DEF SysSpec, ConnectRecovers

(* When SetExposureParams() returns true, all four settings have been      *)
(* applied.                                                                *)
THEOREM Applied == ASSUME Exclusive PROVE SysSpec => TrueMeansApplied
<1>1. ASSUME IInv, IInv', SInv, [SysNext]_sysVars, NEW t \in Threads,
             Runs("SetExposureParams"), holder = t, call'[t] = Idle,
             ret'[t] = "true",
             NEW s \in SettingNames
      PROVE  applied'[s] = set
  <2>1. call[t] # Idle /\ holder # Nobody
    BY <1>1 DEF Runs, Idle, Request
  <2>2. \/ \E r \in Replies : SysAnswer /\ Ends(r)
                /\ (Head(todo) \in SettingNames /\ r \in Good =>
                      /\ applied'[Head(todo)] = set
                      /\ \A u \in SettingNames : u # Head(todo)
                           => applied'[u] = applied[u])
        \/ Ends("failed") /\ SysTimeout
    <3>1. CASE SysAnswer
      <4>1. PICK r \in Replies :
              /\ GoesOn(r) \/ Ends(r)
              /\ Head(todo) \in SettingNames /\ r \in Good =>
                   /\ applied'[Head(todo)] = set
                   /\ \A u \in SettingNames : u # Head(todo)
                        => applied'[u] = applied[u]
        BY <1>1, <3>1, AnswerEffects
      <4>2. ~GoesOn(r)
        BY <1>1, <2>1 DEF GoesOn
      <4> QED
        BY <3>1, <4>1, <4>2
    <3>2. CASE SysTimeout
      <4>1. GoesOn("failed") \/ Ends("failed")
        BY <1>1, <3>2, ReplyShape DEF SysTimeout, Replies
      <4> QED
        BY <1>1, <2>1, <3>2, <4>1 DEF GoesOn
    <3>3. ~SysThrows
      BY <1>1 DEF SysThrows, ConnectThrows, Runs
    <3>4. ASSUME NEW u \in Threads PROVE ~SysStart(u) /\ ~SysAtOnce(u)
      BY <2>1
      DEF SysStart, SysAtOnce, Begin, Enters, ConnectAtOnce, ConnectBegin,
          SetSameTransport, CloseBegin, CloseAtOnce, CommandBegin,
          NotConnected, Get, EndsSession
    <3>5. ~Quiet /\ \A tr \in Transports : ~LateExecution(tr)
      BY <1>1, <2>1 DEF Quiet, LateExecution, vars
    <3>6. ~SysJoined
      BY <1>1, InScript DEF SysJoined, Joined, Runs, Closes
    <3> QED
      BY <1>1, <3>1, <3>2, <3>3, <3>4, <3>5, <3>6, Kinds DEF SInv
  <2>3. ASSUME NEW r, Ends(r)
        PROVE  todo = <<"ExposureCompensation">> /\ ok /\ r \in Good
    BY <1>1, <2>1, <2>3 DEF Ends, LetsGo, WaitsForWorker, Runs, Closes, Bool
  <2>4. PICK r \in Replies :
          /\ todo = <<"ExposureCompensation">> /\ ok /\ r \in Good
          /\ Head(todo) \in SettingNames =>
               /\ applied'[Head(todo)] = set
               /\ \A u \in SettingNames : u # Head(todo)
                    => applied'[u] = applied[u]
    BY <2>2, <2>3 DEF Replies, Good
  <2>5. Len(todo) = 1 /\ Head(todo) = "ExposureCompensation"
    BY <2>4
  <2>6. /\ Settings[1] = "ShutterSpeed" /\ Settings[2] = "FNumber"
        /\ Settings[3] = "Iso"
        /\ Len(Settings) = 4 /\ todo # Settings
    BY <2>5 DEF Settings
  <2>7. \A k \in 1..4 : k <= 3 => applied[Settings[k]] = set
    BY <1>1, <2>4, <2>5, <2>6 DEF SInv, SettingsInv
  <2>8. /\ applied["ShutterSpeed"] = set /\ applied["FNumber"] = set
        /\ applied["Iso"] = set
    BY <2>6, <2>7
  <2> QED
    BY <2>4, <2>5, <2>8, Names
<1>2. IInv /\ IInv' /\ SInv /\ [SysNext]_sysVars
        => [\A t \in Threads :
              /\ Runs("SetExposureParams") /\ holder = t
              /\ call'[t] = Idle /\ ret'[t] = "true"
              => \A s \in SettingNames : applied'[s] = set]_sysVars
  BY <1>1
<1> QED
  BY <1>2, SysInvariance, PTL DEF SysSpec, TrueMeansApplied
=============================================================================
