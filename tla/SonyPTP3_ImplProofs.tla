------------------------- MODULE SonyPTP3_ImplProofs -------------------------
(***************************************************************************)
(* Proofs about SonyPTP3_Impl, for any number of threads, transports and   *)
(* exposure parameters.                                                    *)
(***************************************************************************)
EXTENDS SonyPTP3_Impl, TLAPS

\* What may be left to do of a handshake, of the end of a session and of the
\* four settings.
HandshakeRest == {Handshake,
                  <<"SDIOConnect2", "GetExtDeviceInfo", "SDIOConnect3", "OpenSession">>,
                  <<"GetExtDeviceInfo", "SDIOConnect3", "OpenSession">>,
                  <<"SDIOConnect3", "OpenSession">>,
                  <<"OpenSession">>}
ClosingRest   == {Closing, <<"S1Up", "CloseSession">>, <<"CloseSession">>}
SettingsRest  == {Settings,
                  <<"FNumber", "Iso", "ExposureCompensation">>,
                  <<"Iso", "ExposureCompensation">>,
                  <<"ExposureCompensation">>}
Between       == <<"CloseSession">>

Closes == {"Disconnect", "SetPtpTransport"}

(* The lock is held exactly while a script runs or a worker is joined,     *)
(* which happens only at the end of a session.                             *)
LockInv ==
  /\ holder = Nobody <=> todo = <<>> /\ ~joining
  /\ holder # Nobody =>
       call[holder].op \in {"Connect"} \cup Closes \cup NeedsSession
  /\ joining => /\ todo = <<>> /\ call[holder].op \in Closes
                /\ transport_ \in Transports \ Retained
                /\ connection_state_ = "TransportReady"

(* Each function runs its own script; Connect() runs outside a session and *)
(* every other one inside, always with a transport.                        *)
ScriptInv ==
  holder # Nobody /\ ~joining =>
    /\ transport_ # NoTransport
    /\ connection_state_ =
         IF call[holder].op = "Connect" THEN "TransportReady" ELSE "SessionOpen"
    /\ call[holder].op = "Connect" => todo \in HandshakeRest \cup {Between}
    /\ call[holder].op \in Closes => todo \in ClosingRest
    /\ call[holder].op = "SetExposureParams" => todo \in SettingsRest
    /\ call[holder].op = "UpdateStatus" => todo = <<"GetAllExtDeviceInfo">>
    /\ call[holder].op = "ControlDevice" => todo = <<call[holder].arg>>

(* The time spent is paid for by the Escape() calls made so far: a first   *)
(* attempt of at most seven, the CloseSession, and a second attempt.       *)
HoldInv ==
  /\ holder = Nobody => spent = 0
  /\ holder = Nobody \/ call[holder].op # "Connect" => attempt = 1 /\ iTry = 0
  /\ holder # Nobody /\ call[holder].op # "Connect" =>
       spent <= (5 - Len(todo)) * EscapeWait
  /\ holder # Nobody /\ todo = Between /\ call[holder].op = "Connect" =>
       attempt = 1 /\ iTry = 0 /\ spent <= 8 * EscapeWait
  /\ holder # Nobody /\ todo # Between /\ call[holder].op = "Connect" =>
       IF attempt = 1 THEN spent <= (6 - Len(todo) + iTry) * EscapeWait
       ELSE spent <= (14 - Len(todo) + iTry) * EscapeWait + RetryTimeout

StateInv == StateConsistent /\ StatusIsOfSession

IInv == TypeOK /\ LockInv /\ ScriptInv /\ HoldInv /\ StateInv

-----------------------------------------------------------------------------
(* The invariant holds of a new object.                                   *)
LEMMA InitIInv == Init => IInv
<1> SUFFICES ASSUME Init PROVE IInv
  OBVIOUS
<1> USE DEF Init
<1>1. TypeOK
  <2>1. todo \in Seq(Commands)
    OBVIOUS
  <2>2. has_status_ \in BOOLEAN /\ movie_recording \in BOOLEAN /\ ok \in BOOLEAN
          /\ alive \in BOOLEAN /\ joining \in BOOLEAN
    OBVIOUS
  <2> QED
    BY <2>1, <2>2 DEF TypeOK, States, Ages, Results
<1>2. LockInv /\ ScriptInv
  BY DEF LockInv, ScriptInv
<1>3. HoldInv
  BY DEF HoldInv
<1>4. StateInv
  BY DEF StateInv, StateConsistent, StatusIsOfSession
<1> QED
  BY <1>1, <1>2, <1>3, <1>4 DEF IInv

(* Every script consists of commands.                                      *)
LEMMA ScriptsAreCommands ==
  HandshakeRest \cup ClosingRest \cup SettingsRest
    \cup {Between, <<"GetAllExtDeviceInfo">>} \subseteq Seq(Commands)
BY
DEF HandshakeRest, ClosingRest, SettingsRest, Between, Handshake, Closing,
    Settings, Commands, Controls

(* The argument of a request is what its function expects.                 *)
LEMMA RequestArg ==
  ASSUME NEW q \in Requests \cup {Idle}
  PROVE  /\ q.op = "ControlDevice" => q.arg \in Controls
         /\ q.op = "SetPtpTransport" => q.arg \in Transports \cup {NoTransport}
         /\ q = Idle =>
              q.op \notin Getters \cup Closes \cup NeedsSession \cup {"Connect"}
BY DEF Requests, Request, Idle, Getters, Closes, NeedsSession

(* When a call returns, nothing is left of its script.                     *)
LEMMA Returned ==
  ASSUME IInv, NEW t \in Threads, NEW v \in Results,
         Return(t, v)
  PROVE  /\ LockInv' /\ ScriptInv' /\ HoldInv'
         /\ call' \in [Threads -> Requests \cup {Idle}]
         /\ ret' \in [Threads -> Results]
         /\ holder' \in Threads \cup {Nobody}
         /\ todo' \in Seq(Commands)
         /\ attempt' \in 1..2 /\ iTry' \in 0..2 /\ ok' \in BOOLEAN
         /\ spent' \in Nat /\ joining' \in BOOLEAN
<1> USE DEF Return
<1>1. LockInv' /\ ScriptInv'
  BY DEF LockInv, ScriptInv
<1>2. HoldInv'
  BY DEF HoldInv
<1>3. ok' \in BOOLEAN /\ joining' \in BOOLEAN
  OBVIOUS
<1>4. todo' \in Seq(Commands)
  OBVIOUS
<1> QED
  BY <1>1, <1>2, <1>3, <1>4 DEF IInv, TypeOK

(* The first wait of a script of one to four commands is paid for.         *)
LEMMA FirstWait ==
  ASSUME NEW l \in 1..4
  PROVE  EscapeWait <= (5 - l) * EscapeWait
BY DEF EscapeWait

(* The first step of a script.                                             *)
LEMMA Started ==
  ASSUME IInv, NEW t \in Threads, NEW script \in Seq(Commands), holder = Nobody,
         Start(t, script)
  PROVE  /\ /\ script # <<>>
            /\ call[t].op \in {"Connect"} \cup Closes \cup NeedsSession
            => LockInv'
         /\ script = Handshake /\ call[t].op = "Connect" => HoldInv'
         /\ Len(script) \in 1..4 /\ call[t].op # "Connect" => HoldInv'
         /\ UNCHANGED <<call, ret, attempt, iTry, ok, joining>> /\ ~joining'
         /\ holder' \in Threads \cup {Nobody} /\ holder' = t
         /\ todo' \in Seq(Commands) /\ todo' = script
         /\ spent' \in Nat
<1> USE DEF Start
<1>1. t # Nobody /\ ~joining' /\ ~joining
  BY ImplAssumption DEF IInv, LockInv
<1>2. ASSUME script # <<>>,
             call[t].op \in {"Connect"} \cup Closes \cup NeedsSession
      PROVE  LockInv'
  BY <1>1, <1>2 DEF LockInv
<1>3. script = Handshake /\ call[t].op = "Connect" => HoldInv'
  BY <1>1 DEF IInv, HoldInv, Handshake, EscapeWait
<1>4. ASSUME Len(script) \in 1..4, call[t].op # "Connect" PROVE HoldInv'
  <2>1. attempt' = 1 /\ iTry' = 0
    BY DEF IInv, HoldInv
  <2>2. spent' <= (5 - Len(todo')) * EscapeWait
    <3>1. spent' = EscapeWait /\ Len(todo') \in 1..4
      BY <1>4
    <3>2. EscapeWait <= (5 - Len(todo')) * EscapeWait
      BY <3>1, FirstWait
    <3> QED
      BY <3>1, <3>2
  <2>3. holder' = t /\ call' = call
    OBVIOUS
  <2> QED
    BY <1>1, <1>4, <2>1, <2>2, <2>3 DEF HoldInv
<1> QED
  BY <1>1, <1>2, <1>3, <1>4 DEF EscapeWait

(* When a join begins, the call keeps the lock with nothing left to send.  *)
LEMMA JoinStarted ==
  ASSUME IInv, NEW t \in Threads, DropsLast(t), JoinBegins(t),
         holder \in {Nobody, t}, call[t].op \in Closes
  PROVE  /\ LockInv' /\ ScriptInv' /\ HoldInv' /\ StateInv'
         /\ UNCHANGED <<transport_, call, ret>> /\ connection_state_' = "TransportReady"
         /\ has_status_' \in BOOLEAN /\ holder' \in Threads
         /\ todo' \in Seq(Commands)
         /\ UNCHANGED <<attempt, iTry, ok, spent>> /\ joining' \in BOOLEAN
<1> USE DEF JoinBegins
<1>1. t # Nobody /\ transport_ # NoTransport
        /\ transport_ \in Transports \ Retained
  BY ImplAssumption DEF DropsLast
<1>2. connection_state_' = "TransportReady"
  BY <1>1 DEF Closed
<1>3. LockInv' /\ ScriptInv'
  BY <1>1, <1>2 DEF LockInv, ScriptInv
<1>4. HoldInv'
  <2>1. call[t].op # "Connect" /\ attempt' = 1 /\ iTry' = 0
    BY DEF IInv, HoldInv, Closes
  <2>2. spent <= 5 * EscapeWait
    <3>1. CASE holder = Nobody
      BY <3>1 DEF IInv, HoldInv, EscapeWait
    <3>2. CASE holder = t
      <4>1. PICK n \in Nat : n = Len(todo)
        BY DEF IInv, TypeOK
      <4>2. spent <= (5 - n) * 2000 /\ spent \in Nat
        BY <1>1, <2>1, <3>2, <4>1 DEF IInv, TypeOK, HoldInv, EscapeWait
      <4>3. spent <= 10000
        BY <4>2
      <4> QED
        BY <4>3 DEF EscapeWait
    <3> QED
      BY <3>1, <3>2
  <2>3. Len(todo') = 0
    OBVIOUS
  <2> QED
    BY <1>1, <2>1, <2>2, <2>3 DEF HoldInv, EscapeWait
<1>5. StateInv'
  BY <1>1, <1>2 DEF StateInv, StateConsistent, StatusIsOfSession
<1>6. has_status_' \in BOOLEAN /\ joining' \in BOOLEAN
  OBVIOUS
<1>7. /\ holder' \in Threads /\ todo' \in Seq(Commands)
      /\ UNCHANGED <<transport_, call, ret, attempt, iTry, ok, spent>>
  OBVIOUS
<1> QED
  BY <1>2, <1>3, <1>4, <1>5, <1>6, <1>7

(* When a session ends without a join, or after it, the call returns.      *)
LEMMA Finished ==
  ASSUME IInv, NEW t \in Threads, Finish(t)
  PROVE  /\ \E v \in Results : Return(t, v)
         /\ LockInv' /\ ScriptInv' /\ HoldInv' /\ StateInv'
         /\ transport_' \in Transports \cup {NoTransport}
         /\ connection_state_' \in States /\ connection_state_' # "SessionOpen"
         /\ has_status_' \in BOOLEAN
<1>1. \E v \in Results : Return(t, v)
  BY DEF Finish, Bool, Results, Replace, Disconnected
<1>2. LockInv' /\ ScriptInv' /\ HoldInv'
  BY <1>1, Returned
<1>3. transport_' \in Transports \cup {NoTransport}
        /\ connection_state_' = Closed(transport_') /\ has_status_' = FALSE
  <2>1. call[t] \in Requests \cup {Idle}
    BY DEF IInv, TypeOK
  <2>2. CASE Replaces(t)
    BY <2>1, <2>2, RequestArg DEF Finish, Replaces, Replace
  <2>3. CASE ~Replaces(t)
    BY <2>3 DEF IInv, TypeOK, Finish, Disconnected
  <2> QED
    BY <2>2, <2>3
<1>4. StateInv'
  BY <1>1, <1>3 DEF StateInv, StateConsistent, StatusIsOfSession, Closed, Return
<1> QED
  BY <1>1, <1>2, <1>3, <1>4 DEF Closed, States

(* A call that is not in a join has something left to send.                *)
LEMMA InScript ==
  ASSUME IInv, holder # Nobody, call[holder].op \notin Closes \/ todo # <<>>
  PROVE  ~joining /\ todo # <<>>
BY DEF IInv, LockInv

(* What is left of a script after one of its commands but the last.        *)
LEMMA HandshakeTail ==
  ASSUME NEW s \in HandshakeRest
  PROVE  /\ s # <<>> /\ s # Between /\ Len(s) \in 1..5
         /\ s = Handshake => Len(s) = 5
         /\ Len(s) > 1 => /\ Tail(s) \in HandshakeRest
                          /\ Len(Tail(s)) = Len(s) - 1
<1> USE DEF HandshakeRest, Handshake, Between
<1>1. CASE s = Handshake
  <2>1. /\ Tail(s) = <<"SDIOConnect2", "GetExtDeviceInfo", "SDIOConnect3", "OpenSession">>
        /\ Len(s) = 5 /\ Len(Tail(s)) = 4
    BY <1>1
  <2> QED
    BY <1>1, <2>1
<1>2. CASE s = <<"SDIOConnect2", "GetExtDeviceInfo", "SDIOConnect3", "OpenSession">>
  <2>1. /\ Tail(s) = <<"GetExtDeviceInfo", "SDIOConnect3", "OpenSession">>
        /\ Len(s) = 4 /\ Len(Tail(s)) = 3
    BY <1>2
  <2> QED
    BY <1>2, <2>1
<1>3. CASE s = <<"GetExtDeviceInfo", "SDIOConnect3", "OpenSession">>
  <2>1. /\ Tail(s) = <<"SDIOConnect3", "OpenSession">>
        /\ Len(s) = 3 /\ Len(Tail(s)) = 2
    BY <1>3
  <2> QED
    BY <1>3, <2>1
<1>4. CASE s = <<"SDIOConnect3", "OpenSession">>
  <2>1. /\ Tail(s) = <<"OpenSession">>
        /\ Len(s) = 2 /\ Len(Tail(s)) = 1
    BY <1>4
  <2> QED
    BY <1>4, <2>1
<1>5. CASE s = <<"OpenSession">>
  BY <1>5
<1> QED
  BY <1>1, <1>2, <1>3, <1>4, <1>5

(* The CloseSession between the attempts is no part of a handshake.        *)
LEMMA BetweenHead ==
  /\ Head(Between) = "CloseSession" /\ Between \notin HandshakeRest
  /\ \A s \in HandshakeRest : Head(s) # "CloseSession"
BY DEF Between, HandshakeRest, Handshake

(* What is left of the end of a session after all but its last command,    *)
LEMMA ClosingTail ==
  ASSUME NEW s \in ClosingRest
  PROVE  /\ s # <<>> /\ Len(s) \in 1..4
         /\ Len(s) > 1 => Tail(s) \in ClosingRest /\ Len(Tail(s)) = Len(s) - 1
<1> USE DEF ClosingRest, Closing
<1>1. CASE s = <<"MovieUp", "S1Up", "CloseSession">>
  <2>1. /\ Tail(s) = <<"S1Up", "CloseSession">>
        /\ Len(s) = 3 /\ Len(Tail(s)) = 2
    BY <1>1
  <2> QED
    BY <1>1, <2>1
<1>2. CASE s = <<"S1Up", "CloseSession">>
  <2>1. /\ Tail(s) = <<"CloseSession">>
        /\ Len(s) = 2 /\ Len(Tail(s)) = 1
    BY <1>2
  <2> QED
    BY <1>2, <2>1
<1>3. CASE s = <<"CloseSession">>
  BY <1>3
<1> QED
  BY <1>1, <1>2, <1>3

(* and of what is left of the four settings.                               *)
LEMMA SettingsTail ==
  ASSUME NEW s \in SettingsRest
  PROVE  /\ s # <<>> /\ Len(s) \in 1..4
         /\ Len(s) > 1 => Tail(s) \in SettingsRest /\ Len(Tail(s)) = Len(s) - 1
<1> USE DEF SettingsRest, Settings
<1>1. CASE s = <<"ShutterSpeed", "FNumber", "Iso", "ExposureCompensation">>
  <2>1. /\ Tail(s) = <<"FNumber", "Iso", "ExposureCompensation">>
        /\ Len(s) = 4 /\ Len(Tail(s)) = 3
    BY <1>1
  <2> QED
    BY <1>1, <2>1
<1>2. CASE s = <<"FNumber", "Iso", "ExposureCompensation">>
  <2>1. /\ Tail(s) = <<"Iso", "ExposureCompensation">>
        /\ Len(s) = 3 /\ Len(Tail(s)) = 2
    BY <1>2
  <2> QED
    BY <1>2, <2>1
<1>3. CASE s = <<"Iso", "ExposureCompensation">>
  <2>1. /\ Tail(s) = <<"ExposureCompensation">>
        /\ Len(s) = 2 /\ Len(Tail(s)) = 1
    BY <1>3
  <2> QED
    BY <1>3, <2>1
<1>4. CASE s = <<"ExposureCompensation">>
  BY <1>4
<1> QED
  BY <1>1, <1>2, <1>3, <1>4

(* Every step preserves the invariant.                                     *)
LEMMA StepIInv == IInv /\ [Next]_vars => IInv'
<1> SUFFICES ASSUME IInv, [Next]_vars PROVE IInv'
  OBVIOUS
<1> USE DEF objectVars, scriptVars
<1>1. ASSUME NEW t \in Threads, NEW q \in Requests, Call(t, q)
      PROVE  IInv'
  <2>1. holder # Nobody => call'[holder] = call[holder]
    BY <1>1 DEF IInv, LockInv, Closes, NeedsSession, Idle, Request, Call
  <2>2. LockInv' /\ ScriptInv' /\ HoldInv'
    BY <1>1, <2>1 DEF IInv, LockInv, ScriptInv, HoldInv, Call
  <2>3. TypeOK'
    BY <1>1 DEF IInv, TypeOK, Results, Call
  <2>4. StateInv'
    BY <1>1 DEF IInv, StateInv, StateConsistent, StatusIsOfSession, Call
  <2> QED
    BY <2>2, <2>3, <2>4 DEF IInv
<1>2. ASSUME NEW t \in Threads, Destroy(t)
      PROVE  IInv'
  <2>1. holder # Nobody => call'[holder] = call[holder]
    BY <1>2 DEF IInv, LockInv, Closes, NeedsSession, Idle, Request, Destroy
  <2>2. LockInv' /\ ScriptInv' /\ HoldInv'
    BY <1>2, <2>1 DEF IInv, LockInv, ScriptInv, HoldInv, Destroy
  <2>3. TypeOK'
    BY <1>2 DEF IInv, TypeOK, Results, Requests, Destroy
  <2>4. StateInv'
    BY <1>2 DEF IInv, StateInv, StateConsistent, StatusIsOfSession, Destroy
  <2> QED
    BY <2>2, <2>3, <2>4 DEF IInv
<1>3. ASSUME NEW t \in Threads, LockTimeout(t)
      PROVE  IInv'
  <2>1. holder # Nobody => call'[holder] = call[holder]
    BY <1>3 DEF LockTimeout, MayGiveUp
  <2>2. LockInv' /\ ScriptInv' /\ HoldInv'
    BY <1>3, <2>1 DEF IInv, LockInv, ScriptInv, HoldInv, LockTimeout
  <2>3. TypeOK'
    BY <1>3 DEF IInv, TypeOK, Results, LockTimeout, Ages
  <2>4. StateInv'
    BY <1>3 DEF IInv, StateInv, StateConsistent, StatusIsOfSession, LockTimeout
  <2> QED
    BY <2>2, <2>3, <2>4 DEF IInv
<1>4. ASSUME NEW t \in Threads, ConnectAtOnce(t)
      PROVE  IInv'
  <2>1. holder = Nobody /\ \E v \in Results : Return(t, v)
    BY <1>4 DEF Enters, Results, ConnectAtOnce
  <2>2. LockInv' /\ ScriptInv' /\ HoldInv'
    BY <2>1, Returned
  <2>3. TypeOK'
    BY <1>4, <2>1, Returned, RequestArg DEF IInv, TypeOK, States, ConnectAtOnce
  <2>4. StateInv'
    BY <1>4, <2>1, RequestArg
    DEF IInv, StateInv, StateConsistent, StatusIsOfSession, Return,
        ConnectAtOnce
  <2> QED
    BY <2>2, <2>3, <2>4 DEF IInv
<1>5. ASSUME NEW t \in Threads, SetSameTransport(t)
      PROVE  IInv'
  <2>1. holder = Nobody /\ \E v \in Results : Return(t, v)
    BY <1>5 DEF Enters, Bool, Results, SetSameTransport
  <2>2. LockInv' /\ ScriptInv' /\ HoldInv'
    BY <2>1, Returned
  <2>3. TypeOK'
    BY <1>5, <2>1, Returned, RequestArg
    DEF IInv, TypeOK, States, SetSameTransport
  <2>4. StateInv'
    BY <1>5, <2>1, RequestArg
    DEF IInv, StateInv, StateConsistent, StatusIsOfSession, Return,
        SetSameTransport
  <2> QED
    BY <2>2, <2>3, <2>4 DEF IInv
<1>6. ASSUME NEW t \in Threads, CloseAtOnce(t)
      PROVE  IInv'
  <2>1. holder = Nobody /\ call[t].op \in Closes
    BY <1>6 DEF CloseAtOnce, EndsSession, Enters, Closes
  <2>2. CASE DropsLast(t)
    <3>1. JoinBegins(t) /\ UNCHANGED <<cache_, movie_recording, alive>>
      BY <1>6, <2>2 DEF CloseAtOnce, EndOfSession
    <3>2. TypeOK'
      BY <2>1, <2>2, <3>1, JoinStarted DEF IInv, TypeOK, States
    <3> QED
      BY <2>1, <2>2, <3>1, <3>2, JoinStarted DEF IInv
  <2>3. CASE ~DropsLast(t)
    <3>1. Finish(t) /\ UNCHANGED <<cache_, movie_recording, alive>>
      BY <1>6, <2>3 DEF CloseAtOnce, EndOfSession
    <3>2. TypeOK'
      BY <3>1, Finished, Returned DEF IInv, TypeOK
    <3> QED
      BY <3>1, <3>2, Finished DEF IInv
  <2> QED
    BY <2>2, <2>3
<1>7. ASSUME NEW t \in Threads, NotConnected(t)
      PROVE  IInv'
  <2>1. holder = Nobody /\ \E v \in Results : Return(t, v)
    BY <1>7 DEF Enters, Results, NotConnected
  <2>2. LockInv' /\ ScriptInv' /\ HoldInv'
    BY <2>1, Returned
  <2>3. TypeOK'
    BY <1>7, <2>1, Returned, RequestArg DEF IInv, TypeOK, NotConnected
  <2>4. StateInv'
    BY <1>7, <2>1, RequestArg
    DEF IInv, StateInv, StateConsistent, StatusIsOfSession, Return,
        NotConnected
  <2> QED
    BY <2>2, <2>3, <2>4 DEF IInv
<1>8. ASSUME NEW t \in Threads, Get(t)
      PROVE  IInv'
  <2>1. holder = Nobody /\ \E v \in Results : Return(t, v)
    BY <1>8 DEF IInv, TypeOK, Enters, Bool, Fields, Results, Get, Getters
  <2>2. LockInv' /\ ScriptInv' /\ HoldInv'
    BY <2>1, Returned
  <2>3. TypeOK'
    BY <1>8, <2>1, Returned, RequestArg DEF IInv, TypeOK, Get
  <2>4. StateInv'
    BY <1>8, <2>1, RequestArg
    DEF IInv, StateInv, StateConsistent, StatusIsOfSession, Return, Get
  <2> QED
    BY <2>2, <2>3, <2>4 DEF IInv
<1>9. ASSUME NEW t \in Threads, ConnectBegin(t)
      PROVE  IInv'
  <2>1. /\ holder = Nobody /\ Start(t, Handshake)
        /\ Handshake \in Seq(Commands) \ {<<>>}
    BY <1>9, ScriptsAreCommands, RequestArg
    DEF Enters, Handshake, HandshakeRest, ConnectBegin
  <2>2. LockInv'
    BY <1>9, <2>1, Started DEF Enters, Closes, NeedsSession, ConnectBegin
  <2>3. HoldInv'
    BY <1>9, <2>1, Started DEF Enters, ConnectBegin
  <2>4. ScriptInv'
    BY <1>9, <2>1, Started
    DEF ScriptInv, Enters, Closes, HandshakeRest, ConnectBegin
  <2>5. TypeOK'
    BY <1>9, <2>1, Started DEF IInv, TypeOK, States, ConnectBegin
  <2>6. StateInv'
    BY <1>9, <2>1, Started
    DEF IInv, StateInv, StateConsistent, StatusIsOfSession, ConnectBegin
  <2> QED
    BY <2>2, <2>3, <2>4, <2>5, <2>6 DEF IInv
<1>10. ASSUME NEW t \in Threads, CloseBegin(t)
      PROVE  IInv'
  <2>1. /\ holder = Nobody /\ Start(t, Closing)
        /\ Closing \in Seq(Commands) \ {<<>>}
    BY <1>10, ScriptsAreCommands, RequestArg
    DEF Enters, Closing, ClosingRest, CloseBegin, EndsSession
  <2>2. LockInv'
    BY <1>10, <2>1, Started DEF Enters, Closes, CloseBegin, EndsSession
  <2>21. Len(Closing) \in 1..4
    BY DEF Closing
  <2>3. HoldInv'
    BY <1>10, <2>1, Started, <2>21 DEF Enters, CloseBegin, EndsSession
  <2>4. ScriptInv'
    BY <1>10, <2>1, Started
    DEF ScriptInv, Enters, EnsureConnected, ClosingRest, CloseBegin,
        EndsSession
  <2>5. TypeOK'
    BY <1>10, <2>1, Started DEF IInv, TypeOK, CloseBegin
  <2>6. StateInv'
    BY <1>10, <2>1, Started
    DEF IInv, StateInv, StateConsistent, StatusIsOfSession, EnsureConnected,
        CloseBegin
  <2> QED
    BY <2>2, <2>3, <2>4, <2>5, <2>6 DEF IInv
<1>11. ASSUME NEW t \in Threads, CommandBegin(t)
      PROVE  IInv'
  <2>1. /\ holder = Nobody /\ Start(t, Script(call[t]))
        /\ Script(call[t]) \in Seq(Commands) \ {<<>>}
    BY <1>11, ScriptsAreCommands, RequestArg
    DEF IInv, TypeOK, Enters, Commands, Script, Settings, CommandBegin,
        NeedsSession
  <2>2. LockInv'
    BY <1>11, <2>1, Started DEF Enters, CommandBegin
  <2>21. Len(Script(call[t])) \in 1..4
    BY <1>11 DEF CommandBegin, Enters, NeedsSession, Script, Settings
  <2>3. HoldInv'
    BY <1>11, <2>1, Started, <2>21 DEF Enters, CommandBegin, NeedsSession
  <2>4. ScriptInv'
    BY <1>11, <2>1, Started
    DEF ScriptInv, Enters, EnsureConnected, Closes, Script, SettingsRest,
        CommandBegin, NeedsSession
  <2>5. TypeOK'
    BY <1>11, <2>1, Started DEF IInv, TypeOK, CommandBegin
  <2>6. StateInv'
    BY <1>11, <2>1, Started
    DEF IInv, StateInv, StateConsistent, StatusIsOfSession, EnsureConnected,
        CommandBegin
  <2> QED
    BY <2>2, <2>3, <2>4, <2>5, <2>6 DEF IInv
<1>12. ASSUME NEW r \in Replies, HandshakeGoesOn(r)
      PROVE  IInv'
  <2> USE DEF Runs, GoOn
  <2>1. todo \in HandshakeRest /\ holder \in Threads
    BY <1>12, BetweenHead, InScript DEF IInv, Closes, TypeOK, ScriptInv, HandshakeGoesOn
  <2>2. todo' \in HandshakeRest /\ todo' # <<>> /\ todo' # Between
    BY <1>12, <2>1, HandshakeTail DEF HandshakeGoesOn
  <2>3. LockInv'
    BY <1>12, <2>1, <2>2, HandshakeTail DEF IInv, LockInv, HandshakeGoesOn
  <2>4. ScriptInv'
    BY <1>12, <2>1, <2>2 DEF IInv, ScriptInv, Closes, HandshakeGoesOn
  <2>5. HoldInv'
    <3>1. /\ Len(todo) \in 1..5 /\ Len(todo') \in Int
          /\ spent \in Int /\ iTry \in Int /\ iTry' \in Int
          /\ todo # Between /\ call'[holder'].op = "Connect" /\ holder' # Nobody
          /\ spent' = spent + 2000 /\ attempt' = attempt
          /\ Len(todo') - iTry' = Len(todo) - iTry - 1
      BY <1>12, <2>1, HandshakeTail
      DEF IInv, TypeOK, EscapeWait, HandshakeGoesOn
    <3>2. IF attempt = 1 THEN spent <= (6 - Len(todo) + iTry) * 2000
          ELSE spent <= (14 - Len(todo) + iTry) * 2000 + 120
      BY <1>12, <3>1
      DEF IInv, HoldInv, EscapeWait, RetryTimeout, HandshakeGoesOn
    <3>3. 6 - Len(todo') + iTry' = (6 - Len(todo) + iTry) + 1
          /\ 14 - Len(todo') + iTry' = (14 - Len(todo) + iTry) + 1
      BY <3>1
    <3>4. IF attempt' = 1 THEN spent' <= (6 - Len(todo') + iTry') * 2000
          ELSE spent' <= (14 - Len(todo') + iTry') * 2000 + 120
      <4>1. PICK k \in 1..5 : k = Len(todo)
        BY <3>1
      <4>2. PICK a \in Int, b \in Int : a = 6 - k + iTry /\ b = 14 - k + iTry
        BY <3>1
      <4>3. 6 - Len(todo') + iTry' = a + 1 /\ 14 - Len(todo') + iTry' = b + 1
        BY <3>3, <4>1, <4>2
      <4>4. IF attempt = 1 THEN spent' <= (a + 1) * 2000
            ELSE spent' <= (b + 1) * 2000 + 120
        <5>1. IF attempt = 1 THEN spent <= a * 2000 ELSE spent <= b * 2000 + 120
          BY <3>2, <4>1, <4>2
        <5>2. /\ spent <= a * 2000 => spent' <= (a + 1) * 2000
              /\ spent <= b * 2000 + 120 => spent' <= (b + 1) * 2000 + 120
          BY <3>1
        <5> QED
          BY <5>1, <5>2
      <4>5. attempt' = attempt
        BY <3>1
      <4> QED
        BY <4>3, <4>4, <4>5
    <3>5. holder' # Nobody /\ call'[holder'].op = "Connect" /\ todo' # Between
      BY <1>12, <2>1, <2>2 DEF HandshakeGoesOn, IInv, TypeOK
    <3> QED
      BY <3>4, <3>5 DEF HoldInv, EscapeWait, RetryTimeout
  <2>6. todo' \in Seq(Commands)
    BY <2>2, ScriptsAreCommands DEF HandshakeRest
  <2>7. TypeOK'
    BY <1>12, <2>6 DEF IInv, TypeOK, EscapeWait, HandshakeGoesOn
  <2>8. StateInv'
    BY <1>12
    DEF IInv, StateInv, StateConsistent, StatusIsOfSession, HandshakeGoesOn
  <2> QED
    BY <2>3, <2>4, <2>5, <2>7, <2>8 DEF IInv
<1>13. ASSUME NEW r \in Replies, TryAgain(r)
      PROVE  IInv'
  <2> USE DEF Runs, GoOn
  <2>1. todo \in HandshakeRest /\ holder \in Threads
    BY <1>13, BetweenHead, InScript DEF IInv, Closes, TypeOK, ScriptInv, TryAgain
  <2>2. todo' \in HandshakeRest /\ todo' # <<>> /\ todo' # Between
    BY <1>13, <2>1, HandshakeTail DEF TryAgain, CountTry, MayTryAgain
  <2>3. LockInv'
    BY <1>13, <2>1, <2>2, HandshakeTail DEF IInv, LockInv, TryAgain
  <2>4. ScriptInv'
    BY <1>13, <2>1, <2>2 DEF IInv, ScriptInv, TryAgain
  <2>5. HoldInv'
    <3>1. /\ Len(todo) \in 1..5 /\ Len(todo') \in Int
          /\ spent \in Int /\ iTry \in Int /\ iTry' \in Int
          /\ todo # Between /\ call'[holder'].op = "Connect" /\ holder' # Nobody
          /\ spent' = spent + 2000 /\ attempt' = attempt
          /\ Len(todo') - iTry' = Len(todo) - iTry - 1
      BY <1>13, <2>1, HandshakeTail
      DEF IInv, TypeOK, EscapeWait, TryAgain, CountTry
    <3>2. IF attempt = 1 THEN spent <= (6 - Len(todo) + iTry) * 2000
          ELSE spent <= (14 - Len(todo) + iTry) * 2000 + 120
      BY <1>13, <3>1 DEF IInv, HoldInv, EscapeWait, RetryTimeout, TryAgain
    <3>3. 6 - Len(todo') + iTry' = (6 - Len(todo) + iTry) + 1
          /\ 14 - Len(todo') + iTry' = (14 - Len(todo) + iTry) + 1
      BY <3>1
    <3>4. IF attempt' = 1 THEN spent' <= (6 - Len(todo') + iTry') * 2000
          ELSE spent' <= (14 - Len(todo') + iTry') * 2000 + 120
      <4>1. PICK k \in 1..5 : k = Len(todo)
        BY <3>1
      <4>2. PICK a \in Int, b \in Int : a = 6 - k + iTry /\ b = 14 - k + iTry
        BY <3>1
      <4>3. 6 - Len(todo') + iTry' = a + 1 /\ 14 - Len(todo') + iTry' = b + 1
        BY <3>3, <4>1, <4>2
      <4>4. IF attempt = 1 THEN spent' <= (a + 1) * 2000
            ELSE spent' <= (b + 1) * 2000 + 120
        <5>1. IF attempt = 1 THEN spent <= a * 2000 ELSE spent <= b * 2000 + 120
          BY <3>2, <4>1, <4>2
        <5>2. /\ spent <= a * 2000 => spent' <= (a + 1) * 2000
              /\ spent <= b * 2000 + 120 => spent' <= (b + 1) * 2000 + 120
          BY <3>1
        <5> QED
          BY <5>1, <5>2
      <4>5. attempt' = attempt
        BY <3>1
      <4> QED
        BY <4>3, <4>4, <4>5
    <3>5. holder' # Nobody /\ call'[holder'].op = "Connect" /\ todo' # Between
      BY <1>13, <2>1, <2>2 DEF TryAgain, IInv, TypeOK
    <3> QED
      BY <3>4, <3>5 DEF HoldInv, EscapeWait, RetryTimeout
  <2>6. todo' \in Seq(Commands)
    BY <2>2, ScriptsAreCommands DEF HandshakeRest
  <2>7. TypeOK'
    BY <1>13, <2>6 DEF IInv, TypeOK, EscapeWait, TryAgain, CountTry, MayTryAgain
  <2>8. StateInv'
    BY <1>13 DEF IInv, StateInv, StateConsistent, StatusIsOfSession, TryAgain
  <2> QED
    BY <2>3, <2>4, <2>5, <2>7, <2>8 DEF IInv
<1>14. ASSUME NEW r \in Replies, RejectedOnce(r)
      PROVE  IInv'
  <2> USE DEF Runs, GoOn
  <2>1. todo \in HandshakeRest /\ holder \in Threads
    BY <1>14, BetweenHead, InScript
    DEF IInv, Closes, TypeOK, ScriptInv, AttemptFails, RejectedOnce, AttemptFails
  <2>2. todo' = Between /\ todo' # <<>>
    BY <1>14 DEF Between, RejectedOnce
  <2>3. LockInv'
    BY <1>14, <2>1, <2>2, HandshakeTail DEF IInv, LockInv, RejectedOnce, AttemptFails
  <2>4. ScriptInv'
    BY <1>14, <2>1, <2>2 DEF IInv, ScriptInv, Closes, RejectedOnce, AttemptFails
  <2>5. HoldInv'
    <3>1. Handshake # Between /\ Len(Handshake) = 5 /\ Len(todo) \in Nat
      BY DEF Handshake, Between, IInv, TypeOK
    <3> QED
      BY <1>14, <2>1, <2>2, <3>1, HandshakeTail
      DEF IInv, TypeOK, HoldInv, EscapeWait, RejectedOnce, AttemptFails,
          Retries
  <2>6. todo' \in Seq(Commands)
    BY <2>2, ScriptsAreCommands DEF HandshakeRest
  <2>7. TypeOK'
    BY <1>14, <2>6 DEF IInv, TypeOK, EscapeWait, RejectedOnce
  <2>8. StateInv'
    BY <1>14, InScript
    DEF IInv, Closes, ScriptInv, StateInv, StateConsistent, StatusIsOfSession,
        RejectedOnce, AttemptFails
  <2> QED
    BY <2>3, <2>4, <2>5, <2>7, <2>8 DEF IInv
<1>15. ASSUME NEW r \in Replies, SecondAttempt(r)
      PROVE  IInv'
  <2> USE DEF Runs, GoOn
  <2>1. todo = Between /\ todo \notin HandshakeRest /\ holder \in Threads
    BY <1>15, BetweenHead, InScript DEF IInv, Closes, TypeOK, ScriptInv, SecondAttempt
  <2>2. todo' = Handshake /\ todo' # <<>>
    BY <1>15 DEF Between, Handshake, SecondAttempt
  <2>3. LockInv'
    BY <1>15, <2>1, <2>2, HandshakeTail DEF IInv, LockInv, Closes, SecondAttempt
  <2>4. ScriptInv'
    BY <1>15, <2>1, <2>2
    DEF IInv, ScriptInv, Closes, HandshakeRest, SecondAttempt
  <2>5. HoldInv'
    <3>1. Handshake # Between /\ Len(Handshake) = 5 /\ Len(todo) \in Nat
      BY DEF Handshake, Between, IInv, TypeOK
    <3> QED
      BY <1>15, <2>1, <2>2, <3>1, HandshakeTail
      DEF IInv, TypeOK, HoldInv, EscapeWait, RetryTimeout, SecondAttempt
  <2>6. todo' \in Seq(Commands)
    BY <2>2, ScriptsAreCommands DEF HandshakeRest
  <2>7. TypeOK'
    BY <1>15, <2>6 DEF IInv, TypeOK, EscapeWait, RetryTimeout, SecondAttempt
  <2>8. StateInv'
    BY <1>15, InScript
    DEF IInv, Closes, ScriptInv, StateInv, StateConsistent, StatusIsOfSession,
        SecondAttempt
  <2> QED
    BY <2>3, <2>4, <2>5, <2>7, <2>8 DEF IInv
<1>16. ASSUME NEW r \in Replies, ClosingGoesOn(r)
      PROVE  IInv'
  <2> USE DEF Runs, GoOn
  <2>1. todo \in ClosingRest /\ holder \in Threads
    BY <1>16, InScript DEF IInv, TypeOK, ScriptInv, Closes, ClosingGoesOn
  <2>2. /\ todo' \in ClosingRest /\ todo' # <<>>
        /\ Len(todo') = Len(todo) - 1 /\ Len(todo) \in 1..4
    BY <1>16, <2>1, ClosingTail DEF ClosingGoesOn
  <2>3. LockInv'
    BY <1>16, <2>1, <2>2, ClosingTail DEF IInv, LockInv, ClosingGoesOn
  <2>4. ScriptInv'
    BY <1>16, <2>1, <2>2 DEF IInv, ScriptInv, Closes, ClosingGoesOn
  <2>5. HoldInv'
    <3>1. /\ Len(todo) \in Int /\ Len(todo') = Len(todo) - 1 /\ spent \in Int
          /\ call'[holder'].op # "Connect" /\ holder' # Nobody
          /\ spent' = spent + 2000
      BY <1>16, <2>1, <2>2 DEF IInv, TypeOK, EscapeWait, ClosingGoesOn
    <3>2. spent <= (5 - Len(todo)) * 2000 /\ attempt' = 1 /\ iTry' = 0
      BY <1>16, <3>1 DEF IInv, HoldInv, EscapeWait, ClosingGoesOn
    <3>3. spent' <= (5 - Len(todo')) * 2000
      BY <3>1, <3>2
    <3> QED
      BY <3>1, <3>2, <3>3 DEF HoldInv, EscapeWait
  <2>6. todo' \in Seq(Commands)
    BY <2>2, ScriptsAreCommands DEF HandshakeRest
  <2>7. TypeOK'
    BY <1>16, <2>6 DEF IInv, TypeOK, EscapeWait, ClosingGoesOn
  <2>8. StateInv'
    BY <1>16
    DEF IInv, StateInv, StateConsistent, StatusIsOfSession, ClosingGoesOn
  <2> QED
    BY <2>3, <2>4, <2>5, <2>7, <2>8 DEF IInv
<1>17. ASSUME NEW r \in Replies, SettingsGoOn(r)
      PROVE  IInv'
  <2> USE DEF Runs, GoOn
  <2>1. todo \in SettingsRest /\ holder \in Threads
    BY <1>17, InScript DEF IInv, Closes, TypeOK, ScriptInv, SettingsGoOn
  <2>2. /\ todo' \in SettingsRest /\ todo' # <<>>
        /\ Len(todo') = Len(todo) - 1 /\ Len(todo) \in 1..4
    BY <1>17, <2>1, SettingsTail DEF SettingsGoOn, Accumulate
  <2>3. LockInv'
    BY <1>17, <2>1, <2>2, SettingsTail DEF IInv, LockInv, SettingsGoOn,
           Accumulate
  <2>4. ScriptInv'
    BY <1>17, <2>1, <2>2 DEF IInv, ScriptInv, Closes, SettingsGoOn
  <2>5. HoldInv'
    <3>1. /\ Len(todo) \in Int /\ Len(todo') = Len(todo) - 1 /\ spent \in Int
          /\ call'[holder'].op # "Connect" /\ holder' # Nobody
          /\ spent' = spent + 2000
      BY <1>17, <2>1, <2>2 DEF IInv, TypeOK, EscapeWait, SettingsGoOn
    <3>2. spent <= (5 - Len(todo)) * 2000 /\ attempt' = 1 /\ iTry' = 0
      BY <1>17, <3>1 DEF IInv, HoldInv, EscapeWait, SettingsGoOn
    <3>3. spent' <= (5 - Len(todo')) * 2000
      BY <3>1, <3>2
    <3> QED
      BY <3>1, <3>2, <3>3 DEF HoldInv, EscapeWait
  <2>6. todo' \in Seq(Commands)
    BY <2>2, ScriptsAreCommands DEF HandshakeRest
  <2>7. TypeOK'
    BY <1>17, <2>6 DEF IInv, TypeOK, EscapeWait, SettingsGoOn, Accumulate
  <2>8. StateInv'
    BY <1>17
    DEF IInv, StateInv, StateConsistent, StatusIsOfSession, SettingsGoOn
  <2> QED
    BY <2>3, <2>4, <2>5, <2>7, <2>8 DEF IInv
<1>18. ASSUME NEW r \in Replies, ConnectFails(r)
      PROVE  IInv'
  <2> USE DEF Runs
  <2>1. holder \in Threads /\ \E v \in Results : Return(holder, v)
    BY <1>18 DEF IInv, TypeOK, Results, ConnectFails, AttemptFails
  <2>2. LockInv' /\ ScriptInv' /\ HoldInv'
    BY <2>1, Returned
  <2>3. TypeOK'
    BY <1>18, <2>1, Returned, RequestArg
    DEF IInv, TypeOK, States, Closed, ConnectFails
  <2>4. StateInv'
    BY <1>18, <2>1, RequestArg, InScript
    DEF IInv, Closes, ScriptInv, StateInv, StateConsistent, StatusIsOfSession, Closed,
        ConnectFails, AttemptFails
  <2> QED
    BY <2>2, <2>3, <2>4 DEF IInv
<1>19. ASSUME NEW r \in Replies, ConnectSucceeds(r)
      PROVE  IInv'
  <2> USE DEF Runs
  <2>1. holder \in Threads /\ \E v \in Results : Return(holder, v)
    BY <1>19 DEF IInv, TypeOK, Results, ConnectSucceeds
  <2>2. LockInv' /\ ScriptInv' /\ HoldInv'
    BY <2>1, Returned
  <2>3. TypeOK'
    BY <1>19, <2>1, Returned, RequestArg
    DEF IInv, TypeOK, States, Ages, ConnectSucceeds
  <2>4. StateInv'
    BY <1>19, <2>1, RequestArg
    DEF IInv, StateInv, StateConsistent, StatusIsOfSession, ConnectSucceeds
  <2> QED
    BY <2>2, <2>3, <2>4 DEF IInv
<1>20. ASSUME ConnectThrows
      PROVE  IInv'
  <2> USE DEF Runs
  <2>1. holder \in Threads /\ \E v \in Results : Return(holder, v)
    BY <1>20 DEF IInv, TypeOK, Results, ConnectThrows
  <2>2. LockInv' /\ ScriptInv' /\ HoldInv'
    BY <2>1, Returned
  <2>3. TypeOK'
    BY <1>20, <2>1, Returned, RequestArg DEF IInv, TypeOK, ConnectThrows
  <2>4. StateInv'
    BY <1>20, <2>1, RequestArg
    DEF IInv, StateInv, StateConsistent, StatusIsOfSession, Return,
        ConnectThrows
  <2> QED
    BY <2>2, <2>3, <2>4 DEF IInv
<1>21. ASSUME NEW r \in Replies, ClosingEnds(r)
      PROVE  IInv'
  <2> USE DEF Runs
  <2>1. holder \in Threads /\ call[holder].op \in Closes
    BY <1>21 DEF IInv, TypeOK, ClosingEnds, Closes
  <2>2. CASE DropsLast(holder)
    <3>1. JoinBegins(holder) /\ UNCHANGED <<cache_, movie_recording, alive>>
      BY <1>21, <2>2 DEF ClosingEnds, EndOfSession
    <3>2. TypeOK'
      BY <2>1, <2>2, <3>1, JoinStarted DEF IInv, TypeOK, States
    <3> QED
      BY <2>1, <2>2, <3>1, <3>2, JoinStarted DEF IInv
  <2>3. CASE ~DropsLast(holder)
    <3>1. Finish(holder) /\ UNCHANGED <<cache_, movie_recording, alive>>
      BY <1>21, <2>3 DEF ClosingEnds, EndOfSession
    <3>2. TypeOK'
      BY <2>1, <3>1, Finished, Returned DEF IInv, TypeOK
    <3> QED
      BY <2>1, <3>1, <3>2, Finished DEF IInv
  <2> QED
    BY <2>2, <2>3
<1>22. ASSUME NEW r \in Replies, StatusUpdated(r)
      PROVE  IInv'
  <2> USE DEF Runs
  <2>1. holder \in Threads /\ \E v \in Results : Return(holder, v)
    BY <1>22 DEF IInv, TypeOK, Results, StatusUpdated
  <2>2. LockInv' /\ ScriptInv' /\ HoldInv'
    BY <2>1, Returned
  <2>3. TypeOK'
    <3>1. movie_recording' \in BOOLEAN
      BY <1>22 DEF IInv, TypeOK, StatusUpdated, IsRecording
    <3>2. cache_' \in [Fields -> Ages] /\ has_status_' \in BOOLEAN
      BY <1>22 DEF IInv, TypeOK, Ages, StatusUpdated
    <3> QED
      BY <1>22, <2>1, <3>1, <3>2, Returned DEF IInv, TypeOK, StatusUpdated
  <2>4. StateInv'
    BY <1>22, <2>1, RequestArg, InScript
    DEF IInv, Closes, ScriptInv, StateInv, StateConsistent, StatusIsOfSession,
        StatusUpdated
  <2> QED
    BY <2>2, <2>3, <2>4 DEF IInv
<1>23. ASSUME NEW r \in Replies, StatusNotUpdated(r)
      PROVE  IInv'
  <2> USE DEF Runs
  <2>1. holder \in Threads /\ \E v \in Results : Return(holder, v)
    BY <1>23 DEF IInv, TypeOK, Results, StatusNotUpdated
  <2>2. LockInv' /\ ScriptInv' /\ HoldInv'
    BY <2>1, Returned
  <2>3. TypeOK'
    BY <1>23, <2>1, Returned, RequestArg DEF IInv, TypeOK, StatusNotUpdated
  <2>4. StateInv'
    BY <1>23, <2>1, RequestArg
    DEF IInv, StateInv, StateConsistent, StatusIsOfSession, Return,
        StatusNotUpdated
  <2> QED
    BY <2>2, <2>3, <2>4 DEF IInv
<1>24. ASSUME NEW r \in Replies, ControlReply(r)
      PROVE  IInv'
  <2> USE DEF Runs
  <2>1. holder \in Threads /\ \E v \in Results : Return(holder, v)
    BY <1>24 DEF IInv, TypeOK, Bool, Results, ControlReply
  <2>2. LockInv' /\ ScriptInv' /\ HoldInv'
    BY <2>1, Returned
  <2>3. TypeOK'
    BY <1>24, <2>1, Returned, RequestArg DEF IInv, TypeOK, ControlReply
  <2>4. StateInv'
    BY <1>24, <2>1, RequestArg
    DEF IInv, StateInv, StateConsistent, StatusIsOfSession, Return,
        ControlReply
  <2> QED
    BY <2>2, <2>3, <2>4 DEF IInv
<1>25. ASSUME NEW r \in Replies, SettingsEnd(r)
      PROVE  IInv'
  <2> USE DEF Runs
  <2>1. holder \in Threads /\ \E v \in Results : Return(holder, v)
    BY <1>25 DEF IInv, TypeOK, Bool, Results, SettingsEnd
  <2>2. LockInv' /\ ScriptInv' /\ HoldInv'
    BY <2>1, Returned
  <2>3. TypeOK'
    BY <1>25, <2>1, Returned, RequestArg DEF IInv, TypeOK, SettingsEnd
  <2>4. StateInv'
    BY <1>25, <2>1, RequestArg
    DEF IInv, StateInv, StateConsistent, StatusIsOfSession, SettingsEnd
  <2> QED
    BY <2>2, <2>3, <2>4 DEF IInv
<1>26. ASSUME Joined
      PROVE  IInv'
  <2>1. holder \in Threads /\ Finish(holder)
          /\ UNCHANGED <<cache_, movie_recording, alive>>
    BY <1>26 DEF Joined, IInv, TypeOK, LockInv
  <2>2. TypeOK'
    BY <2>1, Finished, Returned DEF IInv, TypeOK
  <2> QED
    BY <2>1, <2>2, Finished DEF IInv
<1>27. ASSUME UNCHANGED vars
      PROVE  IInv'
  BY <1>27
  DEF IInv, TypeOK, LockInv, ScriptInv, HoldInv, StateInv, StateConsistent,
      StatusIsOfSession, vars
<1> QED
  BY <1>1, <1>2, <1>3, <1>4, <1>5, <1>6, <1>7, <1>8, <1>9, <1>10, <1>11, <1>12,
     <1>13, <1>14, <1>15, <1>16, <1>17, <1>18, <1>19, <1>20, <1>21, <1>22,
     <1>23, <1>24, <1>25, <1>26, <1>27
  DEF Next, Begin, Reply, Destroyed

-----------------------------------------------------------------------------
(* The inductive invariant: who holds the lock, what is left of its script *)
(* and what it has cost so far.                                            *)
THEOREM Invariance == Spec => []IInv
BY InitIInv, StepIInv, PTL DEF Spec

(* Every variable of the object keeps its type.                            *)
THEOREM TypeCorrect == Spec => []TypeOK
<1>1. IInv => TypeOK
  BY DEF IInv
<1> QED
  BY <1>1, Invariance, PTL

(* connection_state_ and transport_ agree whenever another function could  *)
(* look at them, and no Escape() goes to a transport that is not there.    *)
THEOREM Consistent == Spec => []StateConsistent
<1>1. IInv => StateConsistent
  BY DEF IInv, StateInv
<1> QED
  BY <1>1, Invariance, PTL

(* has_status_ never outlives the session in which the cache was filled.   *)
THEOREM StatusFresh == Spec => []StatusIsOfSession
<1>1. IInv => StatusIsOfSession
  BY DEF IInv, StateInv
<1> QED
  BY <1>1, Invariance, PTL

(* No sequence of replies keeps the Escape() calls of one locked region    *)
(* going for longer than fifteen time limits and a pause.                  *)
THEOREM Bounded == Spec => []HoldBounded
<1>1. ASSUME IInv PROVE HoldBounded
  <2> USE DEF EscapeWait, RetryTimeout
  <2>1. CASE holder = Nobody
    BY <1>1, <2>1 DEF IInv, HoldInv, HoldBounded
  <2>2. CASE holder # Nobody /\ call[holder].op # "Connect"
    BY <1>1, <2>2 DEF IInv, TypeOK, HoldInv, HoldBounded
  <2>3. CASE holder # Nobody /\ call[holder].op = "Connect" /\ todo = Between
    BY <1>1, <2>3 DEF IInv, TypeOK, HoldInv, HoldBounded
  <2>4. CASE holder # Nobody /\ call[holder].op = "Connect" /\ todo # Between
    <3>1. todo \in HandshakeRest /\ spent \in Int /\ iTry \in 0..2
      BY <1>1, <2>4, InScript DEF IInv, Closes, TypeOK, ScriptInv
    <3>2. 6 - Len(todo) + iTry <= 7 /\ 14 - Len(todo) + iTry <= 15
      BY <3>1, HandshakeTail
    <3>3. \/ spent <= (6 - Len(todo) + iTry) * 2000
          \/ spent <= (14 - Len(todo) + iTry) * 2000 + 120
      BY <1>1, <2>4 DEF IInv, HoldInv
    <3>4. Len(todo) \in Int
      BY <3>1, HandshakeTail
    <3> QED
      BY <3>1, <3>2, <3>3, <3>4 DEF HoldBounded
  <2> QED
    BY <2>1, <2>2, <2>3, <2>4
<1> QED
  BY <1>1, Invariance, PTL
=============================================================================
