-------------------------- MODULE SonySystemSteps ---------------------------
(****************************************************************************)
(* What the steps of SonySystem do, as its proofs need them: the forms that *)
(* a step of the object takes, what becomes of the commands in the queues,  *)
(* what a command does to the camera, and the types. The proof that the     *)
(* system as a whole keeps its promises is in SonySystemProofs.             *)
(****************************************************************************)
EXTENDS SonySystem, SonyPTP3_ImplProofs, SequenceTheorems

(* An entry of a queue: a command, with the settings of its call.          *)
Entries == [cmd : Commands, set : Nat]

(* Command c is the i-th in the queue of tr.                               *)
Queued(tr, i, c) == i \in 1..Len(queue[tr]) /\ queue[tr][i].cmd = c

(* The running Escape() put the i-th entry into the queue of tr.           *)
IsRunning(tr, i) == Running /\ tr = transport_ /\ i = Len(queue[tr])
-----------------------------------------------------------------------------
(* What a step of the object does to the variables these proofs are        *)
(* about. A call takes the lock and gives its first command to the         *)
(* transport:                                                              *)
Starts(t) ==
  /\ holder = Nobody /\ todo = <<>>
  /\ holder' = t /\ call' = call /\ ret' = ret /\ attempt' = 1 /\ ~joining'
  /\ UNCHANGED <<transport_, movie_recording>>
  /\ \/ /\ call[t].op = "Connect" /\ todo' = Handshake
        /\ connection_state_ # "SessionOpen"
        /\ connection_state_' # "SessionOpen"
     \/ /\ connection_state_ = "SessionOpen"
        /\ connection_state_' = "SessionOpen"
        /\ \/ call[t].op \in Closes /\ todo' = Closing
           \/ call[t].op = "SetExposureParams" /\ todo' = Settings
           \/ call[t].op = "UpdateStatus" /\ todo' = <<"GetAllExtDeviceInfo">>
           \/ call[t].op = "ControlDevice" /\ \E c \in Controls : todo' = <<c>>

(* or has nothing to send. A call that has nothing more to send returns    *)
(* and lets the lock go, with a new transport only if the old one was not  *)
(* the object's alone, or keeps the lock for the old one's destructor.     *)
LetsGo(t) ==
  /\ holder' = Nobody
  /\ call' = [call EXCEPT ![t] = Idle]
  /\ \E v \in Results : ret' = [ret EXCEPT ![t] = v]
  /\ transport_' # transport_ => transport_ \notin Transports \ Retained

WaitsForWorker(t) ==
  /\ holder' = t /\ call[t].op \in Closes
  /\ UNCHANGED <<transport_, call, ret>>

AtOnce(t) ==
  /\ holder = Nobody /\ todo = <<>> /\ todo' = <<>>
  /\ LetsGo(t) \/ WaitsForWorker(t)
  /\ UNCHANGED movie_recording
  /\ \/ transport_' = transport_ /\ connection_state_' = connection_state_
     \/ connection_state_ # "SessionOpen" /\ connection_state_' # "SessionOpen"

(* The answer r to the running command is followed by another command of   *)
(* the same call,                                                          *)
GoesOn(r) ==
  /\ holder \in Threads /\ holder' = holder /\ call' = call /\ ret' = ret
  /\ todo # <<>> /\ todo' # <<>>
  /\ UNCHANGED <<transport_, movie_recording, connection_state_>>
  /\ \/ /\ call[holder].op = "Connect"
        /\ \/ /\ todo \in HandshakeRest /\ Len(todo) > 1 /\ todo' = Tail(todo)
              /\ attempt' = attempt
              /\ IF Head(todo) = "GetExtDeviceInfo"
                   THEN r = "ok"
                   ELSE r \in Good
           \/ /\ todo \in HandshakeRest /\ Head(todo) = "GetExtDeviceInfo"
              /\ todo' = todo
              /\ attempt' = attempt /\ r # "ok"
           \/ /\ todo \in HandshakeRest /\ todo' = Between
              /\ attempt = 1 /\ attempt' = 1 /\ r = "reject"
           \/ todo = Between /\ todo' = Handshake /\ attempt' = 2
     \/ /\ call[holder].op \in Closes
        /\ \/ todo = Closing /\ todo' = <<"S1Up", "CloseSession">>
           \/ todo = <<"S1Up", "CloseSession">> /\ todo' = <<"CloseSession">>
     \/ /\ call[holder].op = "SetExposureParams"
        /\ todo \in SettingsRest /\ Len(todo) > 1 /\ todo' = Tail(todo)
        /\ ok' = (ok /\ r \in Good)

(* or is the last one.                                                     *)
Ends(r) ==
  /\ holder \in Threads
  /\ todo # <<>> /\ todo' = <<>>
  /\ LetsGo(holder) \/ WaitsForWorker(holder)
  /\ \/ /\ call[holder].op = "Connect" /\ todo = <<"OpenSession">>
        /\ r \in Good
        /\ connection_state_' = "SessionOpen" /\ ret'[holder] = "true"
        /\ UNCHANGED <<transport_, movie_recording>>
     \/ /\ call[holder].op = "Connect" /\ todo \in HandshakeRest
        /\ IF Head(todo) = "GetExtDeviceInfo" THEN r # "ok" ELSE r \notin Good
        /\ r = "reject" => attempt = 2
        /\ connection_state_ # "SessionOpen"
        /\ connection_state_' # "SessionOpen"
        /\ UNCHANGED <<transport_, movie_recording>>
     \/ /\ call[holder].op \in Closes /\ todo = <<"CloseSession">>
        /\ connection_state_' # "SessionOpen"
        /\ UNCHANGED movie_recording
     \/ /\ connection_state_ = "SessionOpen"
        /\ UNCHANGED <<transport_, connection_state_>>
        /\ \/ /\ call[holder].op = "UpdateStatus"
              /\ todo = <<"GetAllExtDeviceInfo">>
              /\ r \notin Good => movie_recording' = movie_recording
           \/ /\ call[holder].op = "ControlDevice"
              /\ \E c \in Controls : todo = <<c>>
              /\ movie_recording' =
                   IF r \in Good /\ Head(todo) \in {"MovieDown", "MovieUp"}
                   THEN Head(todo) = "MovieDown"
                   ELSE movie_recording
           \/ /\ call[holder].op = "SetExposureParams"
              /\ todo = <<"ExposureCompensation">>
              /\ UNCHANGED movie_recording
              /\ ret'[holder] = Bool(ok /\ r \in Good)

(* The end of a session is one of these ways to have nothing more to send. *)
LEMMA SessionEnds ==
  ASSUME IInv, NEW t \in Threads, EndOfSession(t), call[t].op \in Closes
  PROVE  /\ LetsGo(t) \/ WaitsForWorker(t)
         /\ todo' = <<>> /\ connection_state_' # "SessionOpen"
<1>1. CASE DropsLast(t)
  <2>1. JoinBegins(t)
    BY <1>1 DEF EndOfSession
  <2> QED
    BY <2>1 DEF JoinBegins, WaitsForWorker, Closed
<1>2. CASE ~DropsLast(t)
  <2>1. Finish(t)
    BY <1>2 DEF EndOfSession
  <2>2. \E v \in Results : Return(t, v)
    BY <2>1, Finished
  <2>3. transport_' # transport_ => transport_ \notin Transports \ Retained
    BY <1>2, <2>1 DEF DropsLast, Finish, Disconnected
  <2>4. connection_state_' # "SessionOpen"
    BY <2>1, Finished
  <2> QED
    BY <2>2, <2>3, <2>4 DEF Return, LetsGo
<1> QED
  BY <1>1, <1>2

(* Every way to begin a call, of any method, has one of the first two      *)
(* forms.                                                                  *)
LEMMA BeginShape ==
  ASSUME IInv, NEW t \in Threads, Begin(t)
  PROVE  Starts(t) \/ AtOnce(t)
<1> USE DEF objectVars, scriptVars
<1>1. CASE ConnectAtOnce(t)
  BY <1>1
  DEF ConnectAtOnce, AtOnce, LetsGo, IInv, LockInv, StateInv, StateConsistent, Enters,
      Return, Results
<1>2. CASE ConnectBegin(t)
  BY <1>2 DEF ConnectBegin, Starts, Start, IInv, LockInv, HoldInv, Enters
<1>3. CASE SetSameTransport(t)
  BY <1>3
  DEF SetSameTransport, AtOnce, LetsGo, IInv, LockInv, StateInv, StateConsistent,
      Enters, Return, Results, Bool
<1>4. CASE CloseBegin(t)
  BY <1>4
  DEF CloseBegin, Starts, Start, IInv, LockInv, HoldInv, Enters, EndsSession,
      EnsureConnected, Closes
<1>5. CASE CloseAtOnce(t)
  <2>1. /\ holder = Nobody /\ todo = <<>> /\ call[t].op \in Closes
        /\ connection_state_ # "SessionOpen"
        /\ EndOfSession(t) /\ UNCHANGED movie_recording
    BY <1>5
    DEF CloseAtOnce, EndsSession, Enters, EnsureConnected, Closes, IInv,
        LockInv, StateInv, StateConsistent
  <2> QED
    BY <2>1, SessionEnds DEF AtOnce
<1>6. CASE CommandBegin(t)
  BY <1>6, RequestArg
  DEF CommandBegin, Starts, Start, IInv, TypeOK, LockInv, HoldInv, Enters,
      EnsureConnected, NeedsSession, Script
<1>7. CASE NotConnected(t)
  BY <1>7 DEF NotConnected, AtOnce, LetsGo, IInv, LockInv, Enters, Return, Results
<1>8. CASE Get(t)
  BY <1>8
  DEF Get, AtOnce, LetsGo, IInv, TypeOK, LockInv, Enters, Return, Results, Getters,
      Bool, Fields
<1> QED
  BY <1>1, <1>2, <1>3, <1>4, <1>5, <1>6, <1>7, <1>8 DEF Begin

(* Every way to go on after an answer, of any method, has one of the last  *)
(* two.                                                                    *)
LEMMA ReplyShape ==
  ASSUME IInv, NEW r \in Replies, Reply(r)
  PROVE  GoesOn(r) \/ Ends(r)
<1> USE DEF objectVars, scriptVars, Runs
<1>1. todo # <<>> /\ holder \in Threads /\ holder # Nobody /\ ~joining
  <2>1. /\ holder # Nobody
        /\ call[holder].op \notin Closes \/ Len(todo) > 1 \/ Len(todo) = 1
    BY DEF Closes, Reply, HandshakeGoesOn, TryAgain, RejectedOnce, AttemptFails,
           SecondAttempt, ConnectFails, ConnectSucceeds, ClosingGoesOn,
           ClosingEnds, StatusUpdated, StatusNotUpdated, ControlReply,
           SettingsGoOn, SettingsEnd
  <2>2. todo = <<>> => Len(todo) = 0
    OBVIOUS
  <2>3. ~joining /\ todo # <<>>
    <3>1. call[holder].op \notin Closes \/ todo # <<>>
      <4>1. ASSUME todo = <<>>
            PROVE  call[holder].op \notin Closes
        <5>1. Len(todo) = 0
          BY <2>2, <4>1
        <5>2. ~(Len(todo) > 1 \/ Len(todo) = 1)
          BY <5>1
        <5> QED
          BY <2>1, <5>2
      <4> QED
        BY <4>1
    <3> QED
      BY <2>1, <3>1, InScript
  <2> QED
    BY <2>1, <2>3 DEF IInv, TypeOK
<1>2. call[holder].op = "Connect" => todo \in HandshakeRest \/ todo = Between
  BY <1>1 DEF IInv, ScriptInv
<1>3. CASE HandshakeGoesOn(r)
  <2>1. todo \in HandshakeRest
    BY <1>3, <1>2, BetweenHead DEF HandshakeGoesOn
  <2> QED
    BY <1>1, <1>3, <2>1, HandshakeTail DEF HandshakeGoesOn, GoesOn, GoOn
<1>4. CASE TryAgain(r)
  <2>1. todo \in HandshakeRest
    BY <1>4, <1>2, BetweenHead DEF TryAgain
  <2> QED
    BY <1>1, <1>4, <2>1 DEF TryAgain, GoesOn, GoOn
<1>5. CASE RejectedOnce(r)
  <2>1. todo \in HandshakeRest
    BY <1>5, <1>2, BetweenHead DEF RejectedOnce, AttemptFails
  <2> QED
    BY <1>1, <1>5, <2>1
    DEF RejectedOnce, GoesOn, GoOn, AttemptFails, Retries, Between
<1>6. CASE SecondAttempt(r)
  <2>1. todo = Between
    BY <1>6, <1>2, BetweenHead DEF SecondAttempt
  <2> QED
    BY <1>1, <1>6, <2>1 DEF SecondAttempt, GoesOn, Handshake
<1>7. CASE ConnectFails(r)
  <2>1. todo \in HandshakeRest
    BY <1>7, <1>2, BetweenHead DEF ConnectFails, AttemptFails
  <2>2. connection_state_ # "SessionOpen" /\ transport_ # NoTransport
    BY <1>1, <1>7 DEF IInv, ScriptInv, ConnectFails, AttemptFails
  <2>3. "false" \in Results /\ attempt \in 1..2
    BY DEF Results, IInv, TypeOK
  <2>4. /\ call[holder].op = "Connect"
        /\ IF Head(todo) = "GetExtDeviceInfo" THEN r # "ok" ELSE r \notin Good
        /\ r = "reject" => attempt = 2
        /\ connection_state_' # "SessionOpen"
        /\ UNCHANGED <<transport_, movie_recording>>
    BY <1>7, <2>2, <2>3 DEF ConnectFails, AttemptFails, Retries, Closed
  <2> QED
    BY <1>1, <1>7, <2>1, <2>2, <2>3, <2>4 DEF ConnectFails, Ends, LetsGo, Return
<1>8. CASE ConnectSucceeds(r)
  <2>1. "true" \in Results /\ ret'[holder] = "true"
    BY <1>1, <1>8 DEF Results, IInv, TypeOK, ConnectSucceeds, Return
  <2> QED
    BY <1>1, <1>8, <2>1 DEF ConnectSucceeds, Ends, LetsGo, Return
<1>9. CASE ClosingGoesOn(r)
  <2>1. todo \in ClosingRest /\ call[holder].op \in Closes
    BY <1>1, <1>9 DEF ClosingGoesOn, IInv, ScriptInv, Closes
  <2>2. \/ todo = Closing /\ Tail(todo) = <<"S1Up", "CloseSession">>
        \/ todo = <<"S1Up", "CloseSession">> /\ Tail(todo) = <<"CloseSession">>
    <3>1. Len(todo) > 1
      BY <1>9 DEF ClosingGoesOn
    <3>2. CASE todo = Closing
      BY <3>2 DEF Closing
    <3>3. CASE todo = <<"S1Up", "CloseSession">>
      BY <3>3
    <3>4. CASE todo = <<"CloseSession">>
      BY <3>1, <3>4
    <3> QED
      BY <2>1, <3>2, <3>3, <3>4 DEF ClosingRest
  <2>3. /\ holder' = holder /\ call' = call /\ ret' = ret
        /\ UNCHANGED <<transport_, movie_recording, connection_state_>>
        /\ todo' = Tail(todo) /\ todo' # <<>>
    BY <1>9, <2>2 DEF ClosingGoesOn, GoOn
  <2> QED
    BY <1>1, <2>1, <2>2, <2>3 DEF GoesOn
<1>10. CASE ClosingEnds(r)
  <2>1. todo = <<"CloseSession">> /\ call[holder].op \in Closes
    BY <1>1, <1>10
    DEF ClosingEnds, IInv, ScriptInv, Closes, ClosingRest, Closing
  <2>2. EndOfSession(holder) /\ UNCHANGED movie_recording
    BY <1>10 DEF ClosingEnds
  <2> QED
    BY <1>1, <2>1, <2>2, SessionEnds DEF Ends
<1>11. CASE StatusUpdated(r)
  <2>1. /\ todo = <<"GetAllExtDeviceInfo">>
        /\ connection_state_ = "SessionOpen"
        /\ "true" \in Results
    BY <1>1, <1>11 DEF StatusUpdated, IInv, ScriptInv, Results
  <2> QED
    BY <1>1, <1>11, <2>1 DEF StatusUpdated, Ends, LetsGo, Return
<1>12. CASE StatusNotUpdated(r)
  <2>1. /\ todo = <<"GetAllExtDeviceInfo">>
        /\ connection_state_ = "SessionOpen"
        /\ "false" \in Results
    BY <1>1, <1>12 DEF StatusNotUpdated, IInv, ScriptInv, Results
  <2> QED
    BY <1>1, <1>12, <2>1 DEF StatusNotUpdated, Ends, LetsGo, Return
<1>13. CASE ControlReply(r)
  <2>1. /\ \E c \in Controls : todo = <<c>>
        /\ connection_state_ = "SessionOpen"
        /\ Bool(r \in Good) \in Results
    BY <1>1, <1>13, RequestArg
    DEF ControlReply, IInv, TypeOK, ScriptInv, Results, Bool
  <2> QED
    BY <1>1, <1>13, <2>1 DEF ControlReply, Ends, LetsGo, Return
<1>14. CASE SettingsGoOn(r)
  <2>1. todo \in SettingsRest
    BY <1>1, <1>14 DEF SettingsGoOn, IInv, ScriptInv
  <2> QED
    BY <1>1, <1>14, <2>1, SettingsTail
    DEF SettingsGoOn, GoesOn, GoOn, Accumulate
<1>15. CASE SettingsEnd(r)
  <2>1. todo \in SettingsRest /\ connection_state_ = "SessionOpen"
    BY <1>1, <1>15 DEF SettingsEnd, IInv, ScriptInv
  <2>2. todo = <<"ExposureCompensation">>
    BY <1>15, <2>1 DEF SettingsEnd, SettingsRest, Settings
  <2>3. /\ Bool(ok /\ r \in Good) \in Results
        /\ ret'[holder] = Bool(ok /\ r \in Good)
    BY <1>1, <1>15
    DEF SettingsEnd, IInv, TypeOK, Results, Bool, Return, Accumulate
  <2> QED
    BY <1>1, <1>15, <2>1, <2>2, <2>3
    DEF SettingsEnd, Ends, LetsGo, Return, Accumulate
<1> QED
  BY <1>3, <1>4, <1>5, <1>6, <1>7, <1>8, <1>9, <1>10, <1>11, <1>12, <1>13,
     <1>14, <1>15
  DEF Reply
-----------------------------------------------------------------------------
(* Steps after which the same call holds the lock as before.               *)
Quiet ==
  /\ UNCHANGED <<transport_, connection_state_, movie_recording, holder, todo,
                 attempt, ok, queue, gone, cameraVars, set, healthy, unsure>>
  /\ holder # Nobody => call'[holder] = call[holder]

(* To call a method, to give up waiting for the lock and to destroy the    *)
(* object are such steps.                                                  *)
LEMMA QuietSteps ==
  ASSUME IInv, SysTypeOK,
         \/ \E t \in Threads :
              \/ \E q \in Requests : SysCall(t, q)
              \/ /\ Destroy(t)
                 /\ UNCHANGED <<queue, gone, cameraVars, set, healthy, unsure>>
              \/ SysGivesUp(t)
         \/ UNCHANGED sysVars
  PROVE  Quiet
<1> USE DEF objectVars, scriptVars
<1>1. holder # Nobody => holder \in Threads /\ call[holder] # Idle
  BY DEF IInv, TypeOK, LockInv, Idle, Request, Closes, NeedsSession
<1>2. ASSUME NEW t \in Threads, NEW q \in Requests, SysCall(t, q) PROVE Quiet
  BY <1>1, <1>2 DEF SysCall, Call, Quiet
<1>3. ASSUME NEW t \in Threads, Destroy(t),
             UNCHANGED <<queue, gone, cameraVars, set, healthy, unsure>>
      PROVE  Quiet
  BY <1>1, <1>3 DEF Destroy, Quiet
<1>4. ASSUME NEW t \in Threads, SysGivesUp(t) PROVE Quiet
  BY <1>1, <1>4 DEF SysGivesUp, LockTimeout, MayGiveUp, Quiet
<1>5. ASSUME UNCHANGED sysVars PROVE Quiet
  BY <1>5 DEF sysVars, vars, Quiet, cameraVars
<1> QED
  BY <1>2, <1>3, <1>4, <1>5

(* A step of the system is one of eight kinds.                             *)
LEMMA Kinds ==
  ASSUME IInv, SysTypeOK, [SysNext]_sysVars
  PROVE  \/ Quiet
         \/ \E t \in Threads : SysStart(t) \/ SysAtOnce(t)
         \/ SysAnswer \/ SysTimeout \/ SysThrows \/ SysJoined
         \/ \E tr \in Transports : LateExecution(tr)
<1>1. CASE \/ \E t \in Threads :
              \/ \E q \in Requests : SysCall(t, q)
              \/ /\ Destroy(t)
                 /\ UNCHANGED <<queue, gone, cameraVars, set, healthy, unsure>>
              \/ SysGivesUp(t)
           \/ UNCHANGED sysVars
  BY <1>1, QuietSteps
<1>2. CASE Destroyed
             /\ UNCHANGED <<queue, gone, cameraVars, set, healthy, unsure>>
  <2>1. UNCHANGED sysVars
    BY <1>2 DEF Destroyed, sysVars, cameraVars
  <2> QED
    BY <1>1, <2>1
<1> QED
  BY <1>1, <1>2 DEF SysNext
-----------------------------------------------------------------------------
(* What the ways to change the queues do to the places of the commands. A  *)
(* command that is appended comes last, and the others stay where they     *)
(* are.                                                                    *)
LEMMA Appended ==
  ASSUME SysTypeOK, NEW e \in Entries, NEW tr0 \in Transports,
         queue' = [queue EXCEPT ![tr0] = Append(queue[tr0], e)]
  PROVE  /\ queue' \in [Transports -> Seq(Entries)]
         /\ Len(queue'[tr0]) = Len(queue[tr0]) + 1
         /\ Len(queue[tr0]) \in Nat
         /\ queue'[tr0] # <<>> /\ queue'[tr0][Len(queue'[tr0])] = e
         /\ \A tr \in Transports, i \in Nat, c \in Commands :
              Queued(tr, i, c)' <=>
                \/ Queued(tr, i, c)
                \/ tr = tr0 /\ i = Len(queue[tr0]) + 1 /\ c = e.cmd
<1>1. queue \in [Transports -> Seq(Entries)]
  BY DEF SysTypeOK, Entries
<1> HIDE DEF Entries
<1>2. /\ Append(queue[tr0], e) \in Seq(Entries)
      /\ Append(queue[tr0], e) # <<>>
      /\ Len(Append(queue[tr0], e)) = Len(queue[tr0]) + 1
      /\ Append(queue[tr0], e)[Len(queue[tr0]) + 1] = e
      /\ \A i \in 1..Len(queue[tr0]) : Append(queue[tr0], e)[i] = queue[tr0][i]
      /\ Len(queue[tr0]) \in Nat
  BY <1>1, AppendProperties
<1>3. /\ queue' \in [Transports -> Seq(Entries)]
      /\ queue'[tr0] = Append(queue[tr0], e)
      /\ \A tr \in Transports : tr # tr0 => queue'[tr] = queue[tr]
  BY <1>1, <1>2
<1>4. ASSUME NEW tr \in Transports, NEW i \in Nat, NEW c \in Commands
      PROVE  Queued(tr, i, c)' <=>
                \/ Queued(tr, i, c)
                \/ tr = tr0 /\ i = Len(queue[tr0]) + 1 /\ c = e.cmd
  <2>1. CASE tr # tr0
    BY <1>3, <2>1 DEF Queued
  <2>2. CASE tr = tr0
    BY <1>2, <1>3, <2>2 DEF Queued
  <2> QED
    BY <2>1, <2>2
<1> QED
  BY <1>2, <1>3, <1>4

(* A queue that is emptied loses its commands, and the other queues keep   *)
(* theirs.                                                                 *)
LEMMA Emptied ==
  ASSUME SysTypeOK, NEW tr0 \in Transports,
         queue' = [queue EXCEPT ![tr0] = <<>>]
  PROVE  /\ queue' \in [Transports -> Seq(Entries)]
         /\ queue'[tr0] = <<>>
         /\ \A tr \in Transports, i \in Nat, c \in Commands :
              Queued(tr, i, c)' <=> tr # tr0 /\ Queued(tr, i, c)
<1>1. queue \in [Transports -> Seq(Entries)]
  BY DEF SysTypeOK, Entries
<1> HIDE DEF Entries
<1>2. /\ queue' \in [Transports -> Seq(Entries)]
      /\ queue'[tr0] = <<>>
      /\ \A tr \in Transports : tr # tr0 => queue'[tr] = queue[tr]
  BY <1>1
<1>3. Len(<<>>) = 0
  OBVIOUS
<1> QED
  BY <1>2, <1>3 DEF Queued

(* A queue that was emptied and then appended to holds that one command.   *)
LEMMA Replaced ==
  ASSUME SysTypeOK, NEW e \in Entries, NEW tr0 \in Transports,
         queue' = [queue EXCEPT ![tr0] = Append(<<>>, e)]
  PROVE  /\ queue' \in [Transports -> Seq(Entries)]
         /\ Len(queue'[tr0]) = 1 /\ queue'[tr0] # <<>> /\ queue'[tr0][1] = e
         /\ \A tr \in Transports, i \in Nat, c \in Commands :
              Queued(tr, i, c)' <=>
                \/ tr # tr0 /\ Queued(tr, i, c)
                \/ tr = tr0 /\ i = 1 /\ c = e.cmd
<1>1. queue \in [Transports -> Seq(Entries)]
  BY DEF SysTypeOK, Entries
<1> HIDE DEF Entries
<1>2. Append(<<>>, e) = <<e>> /\ <<e>> \in Seq(Entries)
  OBVIOUS
<1>3. /\ queue' \in [Transports -> Seq(Entries)]
      /\ queue'[tr0] = <<e>>
      /\ \A tr \in Transports : tr # tr0 => queue'[tr] = queue[tr]
  BY <1>1, <1>2
<1> QED
  BY <1>3 DEF Queued

(* When the last command is withdrawn, the others stay where they are.     *)
LEMMA Shortened ==
  ASSUME SysTypeOK, NEW tr0 \in Transports, queue[tr0] # <<>>,
         queue' = [queue EXCEPT ![tr0] =
                     SubSeq(queue[tr0], 1, Len(queue[tr0]) - 1)]
  PROVE  /\ queue' \in [Transports -> Seq(Entries)]
         /\ \A tr \in Transports, i \in Nat, c \in Commands :
              Queued(tr, i, c)' <=>
                Queued(tr, i, c) /\ (tr = tr0 => i # Len(queue[tr0]))
<1>1. queue \in [Transports -> Seq(Entries)]
  BY DEF SysTypeOK, Entries
<1> HIDE DEF Entries
<1>2. Len(queue[tr0]) \in Nat /\ Len(queue[tr0]) > 0
  BY <1>1, EmptySeq
<1> DEFINE front == SubSeq(queue[tr0], 1, Len(queue[tr0]) - 1)
<1>3. /\ front \in Seq(Entries)
      /\ Len(front) = Len(queue[tr0]) - 1
      /\ \A i \in 1..(Len(queue[tr0]) - 1) : front[i] = queue[tr0][i]
  <2>1. \A i \in 1..(Len(queue[tr0]) - 1) : queue[tr0][i] \in Entries
    BY <1>1, <1>2, ElementOfSeq
  <2> QED
    BY <1>2, <2>1, SubSeqProperties
<1>4. /\ queue' \in [Transports -> Seq(Entries)]
      /\ queue'[tr0] = front
      /\ \A tr \in Transports : tr # tr0 => queue'[tr] = queue[tr]
  BY <1>1, <1>3
<1> HIDE DEF front
<1>5. ASSUME NEW tr \in Transports, NEW i \in Nat, NEW c \in Commands
      PROVE  Queued(tr, i, c)' <=>
                Queued(tr, i, c) /\ (tr = tr0 => i # Len(queue[tr0]))
  <2>1. CASE tr # tr0
    BY <1>4, <2>1 DEF Queued
  <2>2. CASE tr = tr0
    BY <1>2, <1>3, <1>4, <2>2 DEF Queued
  <2> QED
    BY <2>1, <2>2
<1> QED
  BY <1>4, <1>5

(* When the first command is carried out, the others move up by one.       *)
LEMMA CarriedOut ==
  ASSUME SysTypeOK, NEW tr0 \in Transports, queue[tr0] # <<>>,
         queue' = [queue EXCEPT ![tr0] = Tail(queue[tr0])]
  PROVE  /\ queue' \in [Transports -> Seq(Entries)]
         /\ Head(queue[tr0]) = queue[tr0][1] /\ Head(queue[tr0]) \in Entries
         /\ Len(queue'[tr0]) = Len(queue[tr0]) - 1
         /\ Len(queue[tr0]) \in Nat \ {0}
         /\ \A i \in 1..(Len(queue[tr0]) - 1) :
              queue'[tr0][i] = queue[tr0][i + 1]
         /\ \A tr \in Transports, i \in Nat, c \in Commands :
              Queued(tr, i, c)' <=>
                \/ tr # tr0 /\ Queued(tr, i, c)
                \/ tr = tr0 /\ i # 0 /\ Queued(tr0, i + 1, c)
         /\ Queued(tr0, 1, Head(queue[tr0]).cmd)
<1>1. queue \in [Transports -> Seq(Entries)]
  BY DEF SysTypeOK, Entries
<1> HIDE DEF Entries
<1>2. /\ Tail(queue[tr0]) \in Seq(Entries)
      /\ Head(queue[tr0]) = queue[tr0][1] /\ Head(queue[tr0]) \in Entries
      /\ Len(Tail(queue[tr0])) = Len(queue[tr0]) - 1
      /\ \A i \in 1..(Len(queue[tr0]) - 1) :
           Tail(queue[tr0])[i] = queue[tr0][i + 1]
      /\ Len(queue[tr0]) \in Nat /\ Len(queue[tr0]) > 0
  BY <1>1, EmptySeq, HeadTailProperties
<1>3. /\ queue' \in [Transports -> Seq(Entries)]
      /\ queue'[tr0] = Tail(queue[tr0])
      /\ \A tr \in Transports : tr # tr0 => queue'[tr] = queue[tr]
  BY <1>1, <1>2
<1>4. ASSUME NEW tr \in Transports, NEW i \in Nat, NEW c \in Commands
      PROVE  Queued(tr, i, c)' <=>
                \/ tr # tr0 /\ Queued(tr, i, c)
                \/ tr = tr0 /\ i # 0 /\ Queued(tr0, i + 1, c)
  <2>1. CASE tr # tr0
    BY <1>3, <2>1 DEF Queued
  <2>2. CASE tr = tr0
    BY <1>2, <1>3, <2>2 DEF Queued
  <2> QED
    BY <2>1, <2>2
<1>5. Queued(tr0, 1, Head(queue[tr0]).cmd)
  BY <1>2 DEF Queued
<1>6. /\ Len(queue'[tr0]) = Len(queue[tr0]) - 1
      /\ Len(queue[tr0]) \in Nat \ {0}
      /\ \A i \in 1..(Len(queue[tr0]) - 1) : queue'[tr0][i] = queue[tr0][i + 1]
  BY <1>2, <1>3
<1> QED
  BY <1>2, <1>3, <1>4, <1>5, <1>6
-----------------------------------------------------------------------------
(* Names that the proofs tell apart.                                       *)
LEMMA Names ==
  /\ Presses \subseteq Controls /\ Controls \subseteq Commands
  /\ SettingNames \subseteq Commands
  /\ SettingNames = {"ShutterSpeed", "FNumber", "Iso", "ExposureCompensation"}
  /\ {"MovieDown", "MovieUp", "S1Down", "S1Up"} \subseteq Controls
  /\ Controls \cap SettingNames = {}
  /\ "CloseSession" \in Commands \ (Controls \cup SettingNames)
  /\ "OpenSession" \in Commands \ (Controls \cup SettingNames)
  /\ "SDIOConnect1" \in Commands \ (Controls \cup SettingNames)
  /\ Head(Handshake) = "SDIOConnect1" /\ Head(Closing) = "MovieUp"
  /\ Head(Settings) = "ShutterSpeed"
<1>1. SettingNames = {"ShutterSpeed", "FNumber", "Iso", "ExposureCompensation"}
  BY DEF SettingNames, Settings
<1> QED
  BY <1>1 DEF Presses, Controls, Commands, Handshake, Closing, Settings

(* Button b is pressed by the command down and released by up.             *)
ButtonOf(b, down, up) ==
  \/ b = "Movie" /\ down = "MovieDown" /\ up = "MovieUp"
  \/ b = "S1" /\ down = "S1Down" /\ up = "S1Up"

(* What a command may change in the camera: the session, a button or a     *)
(* setting, each only by a command of its own kind, and what it does is    *)
(* certain when the answer is a good one.                                  *)
LEMMA Effects ==
  ASSUME SysTypeOK, NEW e \in Entries, NEW r \in Replies, Performs(e, r)
  PROVE  /\ session' \in BOOLEAN
         /\ pressed' \subseteq {"S1", "S2", "Movie"}
         /\ refused' \subseteq {"S1", "S2", "Movie"}
         /\ applied' \in [SettingNames -> Nat]
         /\ session' # session => e.cmd \in {"OpenSession", "CloseSession"}
         /\ e.cmd = "OpenSession" /\ r \in Good => session'
         /\ e.cmd = "CloseSession" /\ r \in Good => ~session'
         /\ pressed' # pressed => e.cmd \in Controls
         /\ applied' # applied => e.cmd \in SettingNames
         /\ e.cmd \in SettingNames /\ r \in Good =>
              /\ applied'[e.cmd] = e.set
              /\ \A s \in SettingNames : s # e.cmd => applied'[s] = applied[s]
<1> USE DEF SysTypeOK, Performs
<1>1. e.cmd \in Commands /\ e.set \in Nat
  BY DEF Entries
<1>2. \A c \in Controls : Button[c] \in {"S1", "S2", "Movie"}
  BY DEF Controls, Button
<1>3. CASE r \in Good \cup {"failed"} /\ Obeys(e)
  <2>1. /\ session' \in BOOLEAN
        /\ session' # session => e.cmd \in {"OpenSession", "CloseSession"}
        /\ e.cmd = "OpenSession" => session'
        /\ e.cmd = "CloseSession" => ~session'
    BY <1>3 DEF Obeys
  <2>2. /\ pressed' \subseteq {"S1", "S2", "Movie"}
        /\ refused' \subseteq {"S1", "S2", "Movie"}
        /\ pressed' # pressed => e.cmd \in Controls
    BY <1>2, <1>3 DEF Obeys
  <2>3. /\ applied' \in [SettingNames -> Nat]
        /\ applied' # applied => e.cmd \in SettingNames
        /\ e.cmd \in SettingNames =>
             /\ applied'[e.cmd] = e.set
             /\ \A s \in SettingNames : s # e.cmd => applied'[s] = applied[s]
    BY <1>1, <1>3 DEF Obeys
  <2> QED
    BY <2>1, <2>2, <2>3
<1>4. CASE r \notin Good /\ Ignores(e)
  BY <1>2, <1>4 DEF Ignores
<1> QED
  BY <1>3, <1>4

(* A button goes down and up only by its own two commands. A release that  *)
(* is not obeyed leaves the button among the refused.                      *)
LEMMA ButtonEffects ==
  ASSUME SysTypeOK, NEW e \in Entries, NEW r \in Replies, Performs(e, r),
         NEW b, NEW down, NEW up, ButtonOf(b, down, up)
  PROVE  /\ b \in pressed' => b \in pressed \/ e.cmd = down
         /\ b \in pressed => b \in pressed' \/ e.cmd = up
         /\ e.cmd = up => b \notin pressed' \/ b \in refused'
         /\ e.cmd # up /\ b \in refused => b \in refused'
         /\ e.cmd = down /\ r \in Good => b \in pressed'
         /\ e.cmd = up /\ r \in Good => b \notin pressed'
         /\ r \in {"reject", "other"} => (b \in pressed' <=> b \in pressed)
<1> USE DEF Performs, ButtonOf
<1>1. /\ down \in Controls /\ up \in Controls /\ down \in Presses
      /\ up \notin Presses
      /\ Button[down] = b /\ Button[up] = b
      /\ \A c \in Controls : Button[c] = b => c = down \/ c = up
  BY DEF Controls, Presses, Button
<1>2. CASE r \in Good \cup {"failed"} /\ Obeys(e)
  <2>1. r \notin {"reject", "other"}
    BY <1>2 DEF Good
  <2>2. CASE e.cmd \in Controls \ Presses
    <3>1. pressed' = pressed \ {Button[e.cmd]}
            /\ refused' = refused \ {Button[e.cmd]}
      BY <1>2, <2>2 DEF Obeys
    <3> QED
      BY <1>1, <2>1, <2>2, <3>1
  <2>3. CASE e.cmd \in Controls /\ e.cmd \in Presses
    <3>1. pressed' = pressed \cup {Button[e.cmd]} /\ refused' = refused
      BY <1>2, <2>3 DEF Obeys
    <3> QED
      BY <1>1, <2>1, <2>3, <3>1
  <2>4. CASE e.cmd \notin Controls
    <3>1. pressed' = pressed /\ refused' = refused
      BY <1>2, <2>4 DEF Obeys
    <3> QED
      BY <1>1, <2>1, <2>4, <3>1
  <2> QED
    BY <2>2, <2>3, <2>4
<1>3. CASE r \notin Good /\ Ignores(e)
  <2>1. pressed' = pressed
    BY <1>3 DEF Ignores
  <2>2. e.cmd = up => b \in refused'
    BY <1>1, <1>3 DEF Ignores
  <2>3. b \in refused => b \in refused'
    BY <1>3 DEF Ignores
  <2> QED
    BY <1>3, <2>1, <2>2, <2>3
<1> QED
  BY <1>2, <1>3
-----------------------------------------------------------------------------
(* First commands of what is left of a handshake,                          *)
LEMMA HandshakeHeads ==
  ASSUME NEW s \in HandshakeRest \cup {Between}
  PROVE  /\ Head(s) \in {"SDIOConnect1", "SDIOConnect2", "GetExtDeviceInfo",
                         "SDIOConnect3", "OpenSession", "CloseSession"}
         /\ s \in HandshakeRest /\ Len(s) > 1 =>
              Head(s) \notin {"OpenSession", "CloseSession"}
<1> USE DEF HandshakeRest, Handshake, Between
<1>1. CASE s = <<"SDIOConnect1", "SDIOConnect2", "GetExtDeviceInfo",
                 "SDIOConnect3", "OpenSession">>
  BY <1>1
<1>2. CASE s = <<"SDIOConnect2", "GetExtDeviceInfo", "SDIOConnect3",
                 "OpenSession">>
  BY <1>2
<1>3. CASE s = <<"GetExtDeviceInfo", "SDIOConnect3", "OpenSession">>
  BY <1>3
<1>4. CASE s = <<"SDIOConnect3", "OpenSession">>
  BY <1>4
<1>5. CASE s = <<"OpenSession">>
  <2>1. Len(s) = 1 /\ Head(s) = "OpenSession"
    BY <1>5
  <2> QED
    BY <2>1
<1>6. CASE s = <<"CloseSession">>
  <2>1. Len(s) = 1 /\ Head(s) = "CloseSession"
    BY <1>6
  <2> QED
    BY <2>1
<1> QED
  BY <1>1, <1>2, <1>3, <1>4, <1>5, <1>6

(* and of what is left of the four settings.                               *)
LEMMA SettingsHeads ==
  ASSUME NEW s \in SettingsRest
  PROVE  /\ Head(s) \in SettingNames
         /\ Len(s) \in 1..4 /\ (Len(s) = 4 <=> s = Settings)
         /\ Head(s) = Settings[5 - Len(s)]
         /\ \A k \in 1..4 : k # 5 - Len(s) => Settings[k] # Head(s)
         /\ Len(Settings) = 4 /\ \A k \in 1..4 : Settings[k] \in SettingNames
<1>1. /\ SettingNames
           = {"ShutterSpeed", "FNumber", "Iso", "ExposureCompensation"}
      /\ Settings[1] = "ShutterSpeed" /\ Settings[2] = "FNumber"
      /\ Settings[3] = "Iso" /\ Settings[4] = "ExposureCompensation"
      /\ Len(Settings) = 4
  BY Names DEF Settings
<1>2. CASE s = Settings
  <2>1. Len(s) = 4 /\ Head(s) = "ShutterSpeed"
    BY <1>2 DEF Settings
  <2>2. \A k \in 1..4 : k # 1 => Settings[k] # "ShutterSpeed"
    BY <1>1
  <2>3. 5 - Len(s) = 1 /\ Len(s) \in 1..4
    BY <2>1
  <2>4. (Len(s) = 4 <=> s = Settings) /\ Head(s) = Settings[5 - Len(s)]
    BY <1>1, <1>2, <2>1, <2>3
  <2>5. \A k \in 1..4 : Settings[k] \in SettingNames
    BY <1>1
  <2> QED
    BY <1>1, <2>1, <2>2, <2>3, <2>4, <2>5
<1>3. CASE s = <<"FNumber", "Iso", "ExposureCompensation">>
  <2>1. Len(s) = 3 /\ Head(s) = "FNumber"
    BY <1>3
  <2> QED
    BY <1>1, <2>1
<1>4. CASE s = <<"Iso", "ExposureCompensation">>
  <2>1. Len(s) = 2 /\ Head(s) = "Iso"
    BY <1>4
  <2> QED
    BY <1>1, <2>1
<1>5. CASE s = <<"ExposureCompensation">>
  <2>1. Len(s) = 1 /\ Head(s) = "ExposureCompensation"
    BY <1>5
  <2> QED
    BY <1>1, <2>1
<1> QED
  BY <1>2, <1>3, <1>4, <1>5 DEF SettingsRest

(* The command that is running and the one that comes next.                *)
LEMMA Heads ==
  ASSUME IInv, IInv', NEW r \in Replies, GoesOn(r) \/ Ends(r)
  PROVE  /\ transport_ \in Transports /\ Head(todo) \in Commands
         /\ todo' # <<>>
              => Head(todo') \in Commands /\ transport_' = transport_
         /\ connection_state_ # "SessionOpen" =>
              /\ Head(todo) \notin Controls \cup SettingNames
              /\ todo' # <<>> => Head(todo') \notin Controls \cup SettingNames
         /\ connection_state_ = "SessionOpen" =>
              \/ Head(todo) \notin {"OpenSession", "CloseSession"}
              \/ connection_state_' # "SessionOpen" /\ todo' = <<>>
         /\ call[holder].op \in Closes
              => Head(todo) \in {"MovieUp", "S1Up", "CloseSession"}
<1>1. /\ holder \in Threads /\ holder # Nobody /\ todo # <<>>
      /\ todo \in Seq(Commands) /\ todo' \in Seq(Commands)
      /\ ~joining /\ (todo' # <<>> => holder' # Nobody /\ ~joining')
  BY ImplAssumption DEF GoesOn, Ends, IInv, TypeOK, LockInv
<1>2. transport_ \in Transports
  BY <1>1 DEF IInv, TypeOK, ScriptInv
<1>3. Head(todo) \in Commands /\ (todo' # <<>> => Head(todo') \in Commands)
  BY <1>1, HeadTailProperties
<1>4. todo' # <<>> => transport_' = transport_ /\ GoesOn(r)
  BY DEF GoesOn, Ends
<1>5. CASE connection_state_ # "SessionOpen"
  <2>1. call[holder].op = "Connect" /\ todo \in HandshakeRest \cup {Between}
    BY <1>1, <1>5 DEF IInv, ScriptInv
  <2>2. todo' # <<>> => todo' \in HandshakeRest \cup {Between}
    BY <1>4, <2>1, HandshakeTail DEF GoesOn, Closes, HandshakeRest
  <2>3. /\ Head(todo) \notin Controls \cup SettingNames
        /\ todo' # <<>> => Head(todo') \notin Controls \cup SettingNames
    BY <2>1, <2>2, HandshakeHeads, Names DEF Controls
  <2> QED
    BY <1>2, <1>3, <1>4, <1>5, <2>1, <2>3 DEF Closes
<1>6. CASE connection_state_ = "SessionOpen"
  <2>1. /\ call[holder].op # "Connect"
        /\ call[holder].op \in Closes => todo \in ClosingRest
        /\ call[holder].op = "SetExposureParams" => todo \in SettingsRest
    BY <1>1, <1>6 DEF IInv, ScriptInv
  <2>2. CASE call[holder].op \in Closes
    <3>1. /\ Head(Closing) = "MovieUp"
          /\ Head(<<"S1Up", "CloseSession">>) = "S1Up"
          /\ Head(<<"CloseSession">>) = "CloseSession"
      BY DEF Closing
    <3>2. Head(todo) \in {"MovieUp", "S1Up", "CloseSession"}
      BY <2>1, <2>2, <3>1 DEF ClosingRest
    <3>3. \/ todo = Closing \/ todo = <<"S1Up", "CloseSession">>
          \/ connection_state_' # "SessionOpen" /\ todo' = <<>>
      BY <2>2 DEF GoesOn, Ends, Closes
    <3> QED
      BY <1>2, <1>3, <1>4, <1>6, <3>1, <3>2, <3>3
  <2>3. CASE call[holder].op \notin Closes
    <3>1. Head(todo) \notin {"OpenSession", "CloseSession"}
      <4>1. CASE call[holder].op = "SetExposureParams"
        BY <2>1, <4>1, SettingsHeads, Names
      <4>2. CASE call[holder].op = "UpdateStatus"
        <5>1. todo = <<"GetAllExtDeviceInfo">>
          BY <1>1, <4>2 DEF IInv, ScriptInv
        <5> QED
          BY <5>1
      <4>3. CASE call[holder].op = "ControlDevice"
        <5>1. PICK c \in Controls : todo = <<c>>
          BY <4>3 DEF GoesOn, Ends, Closes
        <5>2. Head(todo) = c
          BY <5>1
        <5> QED
          BY <5>2, Names
      <4> QED
        BY <2>1, <2>3, <4>1, <4>2, <4>3 DEF GoesOn, Ends
    <3> QED
      BY <1>2, <1>3, <1>4, <1>6, <2>3, <3>1
  <2> QED
    BY <2>2, <2>3
<1> QED
  BY <1>5, <1>6

(* Whether the recording is in doubt is a truth value.                     *)
LEMMA UnsureType ==
  ASSUME NEW cmd, NEW r, SysTypeOK PROVE Unsure(cmd, r) \in BOOLEAN
<1>1. unsure \in BOOLEAN
  BY DEF SysTypeOK
<1> QED
  BY <1>1 DEF Unsure

(* A command that nobody waits for is not the one that is running.         *)
LEMMA LateHasCommand ==
  ASSUME SysTypeOK, NEW tr \in Transports, LateExecution(tr)
  PROVE  /\ queue[tr] # <<>> /\ Len(queue[tr]) > 0
         /\ Running /\ tr = transport_ => Len(queue[tr]) > 1
<1>1. PICK n \in Nat : n = Len(queue[tr])
  BY DEF SysTypeOK
<1>2. Backlog(tr) > 0
  BY DEF LateExecution
<1>3. CASE Running /\ tr = transport_
  <2>1. n - 1 > 0
    BY <1>1, <1>2, <1>3 DEF Backlog, Running
  <2>2. n > 1
    BY <2>1
  <2>3. Len(<<>>) = 0
    OBVIOUS
  <2> QED
    BY <1>1, <2>2, <2>3
<1>4. CASE ~(Running /\ tr = transport_)
  <2>1. n - 0 > 0
    BY <1>1, <1>2, <1>4 DEF Backlog, Running
  <2>2. n > 0
    BY <2>1
  <2>3. Len(<<>>) = 0
    OBVIOUS
  <2> QED
    BY <1>1, <1>4, <2>2, <2>3
<1> QED
  BY <1>3, <1>4

(* Every step keeps the types, whatever the caller keeps.                  *)
LEMMA StepTypes ==
  ASSUME IInv, IInv', SysTypeOK, [SysNext]_sysVars
  PROVE  SysTypeOK'
<1> USE DEF cameraVars
<1>1. TypeOK' /\ queue \in [Transports -> Seq(Entries)]
  BY DEF IInv, SysTypeOK, Entries
<1>2. CASE Quiet
  BY <1>1, <1>2 DEF Quiet, SysTypeOK
<1>3. ASSUME NEW t \in Threads, SysStart(t) PROVE SysTypeOK'
  <2>1. transport_ \in Transports /\ Head(todo') \in Commands
    <3>1. Starts(t)
      BY <1>3, BeginShape DEF SysStart, AtOnce
    <3>2. transport_' \in Transports
      BY <3>1, ImplAssumption DEF IInv, TypeOK, ScriptInv, Starts
    <3>3. todo' \in Seq(Commands) /\ todo' # <<>>
      BY <1>3 DEF IInv, TypeOK, SysStart
    <3> QED
      BY <3>1, <3>2, <3>3, HeadTailProperties DEF Starts
  <2>2. set' \in Nat
    BY <1>3 DEF SysTypeOK, SysStart
  <2>3. Entry \in Entries
    BY <2>1, <2>2 DEF Entry, Entries
  <2>4. queue' = [queue EXCEPT ![transport_] =
                    Append(queue[transport_], Entry)]
    BY <1>3 DEF SysStart, Sends
  <2>5. queue' \in [Transports -> Seq(Entries)]
    BY <2>1, <2>3, <2>4, Appended
  <2>6. healthy' \in BOOLEAN
    BY <1>3 DEF SysStart
  <2> QED
    BY <1>1, <1>3, <2>2, <2>5, <2>6 DEF SysStart, SysTypeOK, Entries
<1>4. ASSUME NEW t \in Threads, SysAtOnce(t) PROVE SysTypeOK'
  BY <1>1, <1>4 DEF SysAtOnce, SysTypeOK
<1>5. ASSUME SysAnswer PROVE SysTypeOK'
  <2>1. PICK r \in Replies :
          /\ Performs(Head(queue[transport_]), r) /\ Reply(r)
          /\ healthy' = (healthy /\ HealthyAnswer(Head(todo), r))
          /\ Tells(Head(todo), r)
    BY <1>5 DEF SysAnswer
  <2>2. /\ transport_ \in Transports
        /\ todo' # <<>> => Head(todo') \in Commands
    BY <2>1, ReplyShape, Heads
  <2>3. Head(queue[transport_]) \in Entries
    <3>1. queue[transport_] # <<>>
      BY <1>5, EmptySeq DEF SysAnswer
    <3> QED
      BY <1>1, <2>2, <3>1, HeadTailProperties
  <2>4. /\ session' \in BOOLEAN
        /\ pressed' \subseteq {"S1", "S2", "Movie"}
        /\ refused' \subseteq {"S1", "S2", "Movie"}
        /\ applied' \in [SettingNames -> Nat]
    BY <2>1, <2>3, Effects
  <2>5. queue' \in [Transports -> Seq(Entries)] /\ set' \in Nat
    <3>1. set' \in Nat
      BY <1>5 DEF SysAnswer, SysTypeOK
    <3>2. CASE todo' = <<>>
      <4>1. queue' = [queue EXCEPT ![transport_] = <<>>]
        BY <1>5, <3>2 DEF SysAnswer, Sends
      <4> QED
        BY <2>2, <3>1, <4>1, Emptied
    <3>3. CASE todo' # <<>>
      <4>1. Entry \in Entries
        BY <2>2, <3>1, <3>3 DEF Entry, Entries
      <4>2. queue' = [queue EXCEPT ![transport_] = Append(<<>>, Entry)]
        BY <1>5, <3>3 DEF SysAnswer, Sends
      <4> QED
        BY <2>2, <3>1, <4>1, <4>2, Replaced
    <3> QED
      BY <3>2, <3>3
  <2>6. unsure' \in BOOLEAN
    <3>1. CASE unsure' = Unsure(Head(todo), r)
      BY <3>1, UnsureType
    <3>2. CASE \E v : unsure' = (v = 1)
      BY <3>2
    <3> QED
      BY <2>1, <3>1, <3>2 DEF Tells
  <2>7. healthy' \in BOOLEAN
    BY <2>1
  <2>8. gone' \subseteq Transports
    BY <1>5 DEF SysAnswer, SysTypeOK
  <2> QED
    BY <1>1, <2>4, <2>5, <2>6, <2>7, <2>8 DEF SysTypeOK, Entries
<1>6. ASSUME SysTimeout PROVE SysTypeOK'
  <2>1. GoesOn("failed") \/ Ends("failed")
    BY <1>6, ReplyShape DEF SysTimeout, Replies
  <2>2. /\ transport_ \in Transports
        /\ todo' # <<>> => Head(todo') \in Commands
    BY <2>1, Heads DEF Replies
  <2>3. queue' \in [Transports -> Seq(Entries)] /\ set' \in Nat
    <3>1. set' \in Nat
      BY <1>6 DEF SysTimeout, SysTypeOK
    <3>2. CASE todo' = <<>>
      BY <1>1, <1>6, <3>1, <3>2 DEF SysTimeout, Sends
    <3>3. CASE todo' # <<>>
      <4>1. Entry \in Entries
        BY <2>2, <3>1, <3>3 DEF Entry, Entries
      <4>2. queue' = [queue EXCEPT ![transport_] =
                        Append(queue[transport_], Entry)]
        BY <1>6, <3>3 DEF SysTimeout, Sends
      <4> QED
        BY <2>2, <3>1, <4>1, <4>2, Appended
    <3> QED
      BY <3>2, <3>3
  <2>4. unsure' \in BOOLEAN /\ healthy' \in BOOLEAN
    BY <1>6, UnsureType DEF SysTimeout
  <2>5. gone' \subseteq Transports
    BY <1>6 DEF SysTimeout, SysTypeOK
  <2> QED
    BY <1>1, <1>6, <2>3, <2>4, <2>5 DEF SysTimeout, SysTypeOK, Entries
<1>7. ASSUME SysThrows PROVE SysTypeOK'
  <2>1. transport_ \in Transports
    BY <1>7, InScript
    DEF SysThrows, ConnectThrows, Runs, Closes, IInv, TypeOK, ScriptInv
  <2>2. SubSeq(queue[transport_], 1, Len(queue[transport_]) - 1)
          \in Seq(Entries)
    <3>1. Len(queue[transport_]) \in Nat
      BY <1>1, <2>1
    <3>2. \A i \in 1..(Len(queue[transport_]) - 1) :
            queue[transport_][i] \in Entries
      BY <1>1, <2>1, <3>1, ElementOfSeq
    <3> QED
      BY <3>1, <3>2, SubSeqProperties
  <2>3. queue' \in [Transports -> Seq(Entries)]
    BY <1>1, <1>7, <2>2 DEF SysThrows
  <2>4. healthy' \in BOOLEAN
    BY <1>7 DEF SysThrows
  <2> QED
    BY <1>1, <1>7, <2>3, <2>4 DEF SysThrows, SysTypeOK, Entries
<1>8. ASSUME NEW tr \in Transports, LateExecution(tr) PROVE SysTypeOK'
  <2>1. queue[tr] # <<>> /\ queue' = [queue EXCEPT ![tr] = Tail(queue[tr])]
    BY <1>8, LateHasCommand DEF LateExecution
  <2>2. queue' \in [Transports -> Seq(Entries)] /\ Head(queue[tr]) \in Entries
    BY <2>1, CarriedOut
  <2>3. PICK r \in Replies : Performs(Head(queue[tr]), r)
    BY <1>8 DEF LateExecution
  <2>4. /\ session' \in BOOLEAN
        /\ pressed' \subseteq {"S1", "S2", "Movie"}
        /\ refused' \subseteq {"S1", "S2", "Movie"}
        /\ applied' \in [SettingNames -> Nat]
    BY <2>2, <2>3, Effects
  <2> QED
    BY <1>1, <1>8, <2>2, <2>4 DEF LateExecution, SysTypeOK, Entries
<1>9. ASSUME SysJoined PROVE SysTypeOK'
  <2>1. transport_ \in Transports
    BY <1>9 DEF SysJoined, Joined, IInv, LockInv
  <2> QED
    BY <1>1, <1>9, <2>1 DEF SysJoined, SysTypeOK
<1> QED
  BY <1>2, <1>3, <1>4, <1>5, <1>6, <1>7, <1>8, <1>9, Kinds
-----------------------------------------------------------------------------
(* The object's part of a step of the system is a step of the object.      *)
LEMMA ObjectSteps == [SysNext]_sysVars => [Next]_vars
<1>1. ASSUME NEW tr \in Transports, LateExecution(tr) PROVE UNCHANGED vars
  BY <1>1 DEF LateExecution
<1>2. UNCHANGED sysVars => UNCHANGED vars
  BY DEF sysVars
<1>3. SysAnswer => \E r \in Replies : Reply(r)
  BY DEF SysAnswer
<1>4. SysTimeout => \E r \in Replies : Reply(r)
  BY DEF SysTimeout, Replies
<1> QED
  BY <1>1, <1>2, <1>3, <1>4
  DEF SysNext, Next, SysCall, SysStart, SysAtOnce, SysGivesUp, SysThrows,
      SysJoined

(* The types hold of a new system, and so does the invariant of its        *)
(* object.                                                                 *)
LEMMA SysInitTypes == SysInit => IInv /\ SysTypeOK
<1> SUFFICES ASSUME SysInit PROVE IInv /\ SysTypeOK
  OBVIOUS
<1> USE DEF SysInit
<1>1. IInv
  BY InitIInv
<1>2. queue \in [Transports -> Seq(Entries)]
  OBVIOUS
<1>3. healthy \in BOOLEAN /\ unsure \in BOOLEAN /\ session \in BOOLEAN
  OBVIOUS
<1> QED
  BY <1>1, <1>2, <1>3 DEF IInv, SysTypeOK, Entries

(* The system implements the object: behind a real transport and a         *)
(* camera, Escape() answers nothing that SonyPTP3_Impl does not allow      *)
(* for, so that what is proved of the object alone holds of it here.       *)
THEOREM ObjectImplemented == SysSpec => Spec
<1>1. SysInit => Init
  BY DEF SysInit
<1> QED
  BY <1>1, ObjectSteps, PTL DEF SysSpec, Spec

(* Every variable of the system keeps its type: in particular a queue      *)
(* only ever holds commands of the protocol.                               *)
THEOREM SysTypeCorrect == SysSpec => []SysTypeOK
<1>1. SysInit => IInv /\ SysTypeOK
  BY SysInitTypes
<1>2. IInv /\ SysTypeOK /\ [SysNext]_sysVars => (IInv /\ SysTypeOK)'
  BY StepIInv, StepTypes, ObjectSteps
<1> QED
  BY <1>1, <1>2, PTL DEF SysSpec
=============================================================================
