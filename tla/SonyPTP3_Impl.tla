---------------------------- MODULE SonyPTP3_Impl ----------------------------
(***************************************************************************)
(* One SonyPTP3_Impl object, called by several threads.  Every public      *)
(* function runs under api_mutex_, a timed mutex: a call that cannot get   *)
(* it in time returns false and does nothing.  Under the lock a function   *)
(* is a sequence of Escape() calls on the transport with local code in     *)
(* between, so a step here runs from the lock, or from the reply to an     *)
(* Escape(), to the next Escape() or to the return.  The transport and the *)
(* camera are the environment: they choose every reply.                    *)
(***************************************************************************)
EXTENDS Integers, Sequences

CONSTANTS
  Threads,      \* threads that call the object
  Transports,   \* IPTPTransport objects the caller may set
  NoTransport,  \* nullptr
  Retained,     \* transports that the caller keeps a reference to
  Nobody,       \* holder of a free lock
  ParamFields   \* members of ExposureParams, as far as told apart

ASSUME ImplAssumption ==
  /\ NoTransport \notin Transports
  /\ Retained \subseteq Transports
  /\ Nobody \notin Threads

Fields == ParamFields \cup {"exposure_mode"}

VARIABLES
  transport_,         \* the current transport
  connection_state_,  \* what the object believes of the PTP session
  has_status_,        \* UpdateStatus() has filled the cache
  cache_,             \* age of each cached value: see Ages
  movie_recording,    \* cache_.movie_recording
  call,               \* call[t]: the request t is in, or Idle
  ret,                \* ret[t]: what t's last call returned; "true" for void
  holder,             \* thread that holds api_mutex_
  todo,               \* Escape() calls still to make; the first one is running
  attempt,            \* 1 or 2: run of connect_once_with_detail
  iTry,               \* its loop variable
  ok,                 \* SetExposureParams: no command has failed so far
  spent,              \* the latest, in ms from the lock, that todo's head returns
  joining,            \* the holder is in ~WiaTransport(), see JoinBegins
  alive               \* the destructor has not been called

objectVars == <<transport_, connection_state_, has_status_, cache_, movie_recording>>
scriptVars == <<holder, todo, attempt, iTry, ok, spent, joining>>
vars == <<objectVars, call, ret, scriptVars, alive>>

States == {"Disconnected", "TransportReady", "SessionOpen"}

\* "old": received in an earlier session; "current": received in this one.
Ages    == {"default", "old", "current"}
Results == Ages \cup {"none", "true", "false", "threw"}

\* kEscapeWaitTimeout, the wait for the lock outside Connect() and
\* _CONN_RETRY_TIMEOUT_MS.
EscapeWait   == 2000
LockWait     == 5000
RetryTimeout == 120

(* Results of Escape(): RC_OK with and without a payload, a response code  *)
(* of is_immediate_reject, any other code, and a failed HRESULT.           *)
Good    == {"ok", "empty"}
Replies == Good \cup {"reject", "other", "failed"}

Handshake == <<"SDIOConnect1", "SDIOConnect2", "GetExtDeviceInfo",
               "SDIOConnect3", "OpenSession">>

\* Ends of a session: in the wrong order, with nothing released, and as it is.
ClosesFirst == <<"CloseSession", "MovieUp", "S1Up">>
ClosesOnly  == <<"CloseSession">>
Closing     == <<"MovieUp", "S1Up", "CloseSession">>

Settings == <<"ShutterSpeed", "FNumber", "Iso", "ExposureCompensation">>
Controls == {"S1Down", "S1Up", "S2Down", "S2Up", "MovieDown", "MovieUp"}
Getters  == {"GetExposureParams", "GetExposureMode", "IsMovieRecording", "IsConnected"}

Request(op, arg) == [op |-> op, arg |-> arg]
Idle     == Request("idle", "none")
Requests ==
  {Request(op, "none") : op \in Getters \cup
     {"Connect", "Disconnect", "UpdateStatus", "SetExposureParams"}}
  \cup {Request("ControlDevice", c) : c \in Controls}
  \cup {Request("SetPtpTransport", tr) : tr \in Transports \cup {NoTransport}}

Commands == {"SDIOConnect1", "SDIOConnect2", "GetExtDeviceInfo", "SDIOConnect3",
             "OpenSession", "CloseSession", "GetAllExtDeviceInfo",
             "ShutterSpeed", "FNumber", "Iso", "ExposureCompensation"} \cup Controls

TypeOK ==
  /\ transport_ \in Transports \cup {NoTransport}
  /\ connection_state_ \in States
  /\ has_status_ \in BOOLEAN
  /\ cache_ \in [Fields -> Ages]
  /\ movie_recording \in BOOLEAN
  /\ call \in [Threads -> Requests \cup {Idle}]
  /\ ret \in [Threads -> Results]
  /\ holder \in Threads \cup {Nobody}
  /\ todo \in Seq(Commands)
  /\ attempt \in 1..2
  /\ iTry \in 0..2
  /\ ok \in BOOLEAN
  /\ spent \in Nat
  /\ joining \in BOOLEAN
  /\ alive \in BOOLEAN

Init ==
  /\ transport_ = NoTransport
  /\ connection_state_ = "Disconnected"
  /\ has_status_ = FALSE
  /\ cache_ = [f \in Fields |-> "default"]
  /\ movie_recording = FALSE
  /\ call = [t \in Threads |-> Idle]
  /\ ret = [t \in Threads |-> "none"]
  /\ holder = Nobody
  /\ todo = <<>>
  /\ attempt = 1
  /\ iTry = 0
  /\ ok = TRUE
  /\ spent = 0
  /\ joining = FALSE
  /\ alive = TRUE

EnsureConnected == connection_state_ = "SessionOpen" /\ transport_ # NoTransport

\* connection_state_ without a session, and one that forgets about nullptr.
AlwaysReady(tr) == "TransportReady"
Closed(tr) == IF tr = NoTransport THEN "Disconnected" ELSE "TransportReady"

Bool(b) == IF b THEN "true" ELSE "false"

(***************************************************************************)
(* Calls and the lock.                                                     *)
(***************************************************************************)

Call(t, q) ==
  /\ alive
  /\ call[t] = Idle
  /\ call' = [call EXCEPT ![t] = q]
  /\ ret' = [ret EXCEPT ![t] = "none"]
  /\ UNCHANGED <<objectVars, scriptVars, alive>>

(* ~SonyPTP3_Impl calls Disconnect(); no other call is in progress.        *)
Destroy(t) ==
  /\ alive
  /\ \A u \in Threads : call[u] = Idle
  /\ alive' = FALSE
  /\ call' = [call EXCEPT ![t] = Request("Disconnect", "none")]
  /\ ret' = [ret EXCEPT ![t] = "none"]
  /\ UNCHANGED <<objectVars, scriptVars>>

(* A wait without a timeout, as for a plain mutex.                         *)
WaitsForever(t) == FALSE
MayGiveUp(t)    == holder \notin {Nobody, t}

(* The mutex is still held by another thread when the time is up: false,   *)
(* or 0, which is also what an empty cache holds.                          *)
LockTimeout(t) ==
  /\ call[t] # Idle
  /\ MayGiveUp(t)
  /\ call' = [call EXCEPT ![t] = Idle]
  /\ ret' = [ret EXCEPT ![t] =
                IF call[t].op = "GetExposureMode" THEN "default" ELSE "false"]
  /\ UNCHANGED <<objectVars, scriptVars, alive>>

\* t has the lock and is about to run the body of op.
Enters(t, op) == holder = Nobody /\ call[t].op = op

\* t returns v and releases the lock.
Return(t, v) ==
  /\ call' = [call EXCEPT ![t] = Idle]
  /\ ret' = [ret EXCEPT ![t] = v]
  /\ holder' = Nobody
  /\ todo' = <<>>
  /\ attempt' = 1 /\ iTry' = 0 /\ ok' = TRUE /\ spent' = 0 /\ joining' = FALSE

\* t keeps the lock and makes the first Escape() of script.
Start(t, script) ==
  /\ holder' = t
  /\ todo' = script
  /\ spent' = EscapeWait
  /\ UNCHANGED <<call, ret, attempt, iTry, ok, joining>>

(***************************************************************************)
(* From the lock to the first Escape().                                    *)
(***************************************************************************)

ConnectAtOnce(t) ==
  /\ Enters(t, "Connect")
  /\ \/ /\ transport_ = NoTransport
        /\ connection_state_' = "Disconnected"
        /\ Return(t, "false")
     \/ /\ EnsureConnected
        /\ Return(t, "true")
        /\ UNCHANGED connection_state_
  /\ UNCHANGED <<transport_, has_status_, cache_, movie_recording, alive>>

ConnectBegin(t) ==
  /\ Enters(t, "Connect")
  /\ transport_ # NoTransport /\ connection_state_ # "SessionOpen"
  /\ connection_state_' = "TransportReady"
  /\ Start(t, Handshake)
  /\ UNCHANGED <<transport_, has_status_, cache_, movie_recording, alive>>

SetSameTransport(t) ==
  /\ Enters(t, "SetPtpTransport")
  /\ call[t].arg = transport_
  /\ IF transport_ = NoTransport
       THEN connection_state_' = "Disconnected" /\ has_status_' = FALSE
       ELSE /\ connection_state_' =
                 IF connection_state_ = "SessionOpen" THEN "SessionOpen"
                                                      ELSE "TransportReady"
            /\ UNCHANGED has_status_
  /\ Return(t, Bool(transport_ # NoTransport))
  /\ UNCHANGED <<transport_, cache_, movie_recording, alive>>

\* With a different transport, the session on the old one is closed first.
Replaces(t) == call[t].op = "SetPtpTransport" /\ call[t].arg # transport_

EndsSession(t) ==
  \/ Enters(t, "Disconnect")
  \/ Enters(t, "SetPtpTransport") /\ Replaces(t)

CloseBegin(t) ==
  /\ EndsSession(t)
  /\ EnsureConnected
  /\ Start(t, Closing)
  /\ UNCHANGED <<objectVars, alive>>

(* The end of SetPtpTransport() and of Disconnect(), and of Disconnect()   *)
(* without its last assignment or without its first.                       *)
Replace(t) ==
  /\ transport_' = call[t].arg
  /\ connection_state_' = Closed(call[t].arg)
  /\ has_status_' = FALSE
  /\ Return(t, Bool(call[t].arg # NoTransport))

Forgetful(t) ==
  /\ connection_state_' = Closed(transport_)
  /\ Return(t, "true")
  /\ UNCHANGED <<transport_, has_status_>>

StaysOpen(t) ==
  /\ has_status_' = FALSE
  /\ Return(t, "true")
  /\ UNCHANGED <<transport_, connection_state_>>

Disconnected(t) ==
  /\ connection_state_' = Closed(transport_)
  /\ has_status_' = FALSE
  /\ Return(t, "true")
  /\ UNCHANGED transport_

Finish(t) == IF Replaces(t) THEN Replace(t) ELSE Disconnected(t)

(* The assignment to transport_ gives up a reference to the old transport, *)
(* and so does ~SonyPTP3_Impl() with its members.  If it is the last,      *)
(* ~WiaTransport() joins its worker there and then, with no time limit and *)
(* with api_mutex_ held.  What the fields hold meanwhile nobody can see:   *)
(* here the session is over, and transport_ is assigned after the join.    *)
DropsLast(t) == transport_ \in Transports \ Retained /\ (Replaces(t) \/ ~alive)

JoinBegins(t) ==
  /\ connection_state_' = Closed(transport_)
  /\ has_status_' = FALSE
  /\ holder' = t /\ todo' = <<>> /\ joining' = TRUE
  /\ UNCHANGED <<transport_, call, ret, attempt, iTry, ok, spent>>

EndOfSession(t) == IF DropsLast(t) THEN JoinBegins(t) ELSE Finish(t)

\* The worker has ended: the destructor returns, and then the call.
Joined ==
  /\ joining
  /\ Finish(holder)
  /\ UNCHANGED <<cache_, movie_recording, alive>>

CloseAtOnce(t) ==
  /\ EndsSession(t)
  /\ ~EnsureConnected
  /\ EndOfSession(t)
  /\ UNCHANGED <<cache_, movie_recording, alive>>

\* Functions that begin with EnsureConnected(), and what they send.
Script(q) ==
  CASE q.op = "UpdateStatus"      -> <<"GetAllExtDeviceInfo">>
    [] q.op = "SetExposureParams" -> Settings
    [] q.op = "ControlDevice"     -> <<q.arg>>
NeedsSession == {"UpdateStatus", "SetExposureParams", "ControlDevice"}

CommandBegin(t) ==
  /\ \E op \in NeedsSession : Enters(t, op)
  /\ EnsureConnected
  /\ Start(t, Script(call[t]))
  /\ UNCHANGED <<objectVars, alive>>

NotConnected(t) ==
  /\ \E op \in NeedsSession : Enters(t, op)
  /\ ~EnsureConnected
  /\ Return(t, "false")
  /\ UNCHANGED <<objectVars, alive>>

(* The getters.  GetExposureMode() returns its value, GetExposureParams()  *)
(* whether it has one.                                                     *)
Get(t) ==
  /\ \E op \in Getters : Enters(t, op)
  /\ Return(t, CASE call[t].op = "GetExposureParams" -> Bool(has_status_)
                 [] call[t].op = "GetExposureMode"   -> cache_["exposure_mode"]
                 [] call[t].op = "IsMovieRecording"  -> Bool(movie_recording)
                 [] call[t].op = "IsConnected"       -> Bool(EnsureConnected))
  /\ UNCHANGED <<objectVars, alive>>

Begin(t) ==
  \/ ConnectAtOnce(t) \/ ConnectBegin(t) \/ SetSameTransport(t)
  \/ CloseBegin(t) \/ CloseAtOnce(t)
  \/ CommandBegin(t) \/ NotConnected(t) \/ Get(t)

(***************************************************************************)
(* From the reply r to the running Escape() to the next one or the return. *)
(***************************************************************************)

Runs(op) == holder # Nobody /\ call[holder].op = op

\* The script goes on with rest; one more Escape() is paid for.
GoOn(rest) ==
  /\ todo' = rest
  /\ spent' = spent + EscapeWait
  /\ UNCHANGED <<call, ret, holder, joining>>

\* A step of the handshake succeeded.
HandshakeGoesOn(r) ==
  /\ Runs("Connect") /\ Head(todo) # "CloseSession" /\ Len(todo) > 1
  /\ IF Head(todo) = "GetExtDeviceInfo" THEN r = "ok" ELSE r \in Good
  /\ GoOn(Tail(todo))
  /\ UNCHANGED <<objectVars, attempt, iTry, ok, alive>>

(* SDIOGetExtDeviceInfo is tried three times; four times; and by a loop    *)
(* that forgets to count.                                                  *)
FourTries    == iTry < 3
MayTryAgain  == iTry < 2
TriesForever == iTry' = iTry
CountTry     == iTry' = iTry + 1

TryAgain(r) ==
  /\ Runs("Connect") /\ Head(todo) = "GetExtDeviceInfo"
  /\ r # "ok" /\ MayTryAgain
  /\ CountTry
  /\ GoOn(todo)
  /\ UNCHANGED <<objectVars, attempt, ok, alive>>

\* connect_once_with_detail returns false with out_last_res = r.
AttemptFails(r) ==
  /\ Runs("Connect") /\ Head(todo) # "CloseSession"
  /\ IF Head(todo) = "GetExtDeviceInfo" THEN r # "ok" /\ ~MayTryAgain
                                        ELSE r \notin Good

(* Only the first attempt is retried; a reject of the second as well, and  *)
(* none.                                                                   *)
AlwaysRetries(r) == r = "reject"
NeverRetries(r)  == FALSE
Retries(r)       == r = "reject" /\ attempt = 1

RejectedOnce(r) ==
  /\ AttemptFails(r) /\ Retries(r)
  /\ GoOn(<<"CloseSession">>)
  /\ iTry' = 0
  /\ UNCHANGED <<objectVars, attempt, ok, alive>>

\* send_disconnect_message() and the pause before the second attempt.
SecondAttempt(r) ==
  /\ Runs("Connect") /\ Head(todo) = "CloseSession"
  /\ attempt' = 2
  /\ todo' = Handshake
  /\ spent' = spent + EscapeWait + RetryTimeout
  /\ UNCHANGED <<objectVars, call, ret, holder, iTry, ok, joining, alive>>

ConnectFails(r) ==
  /\ AttemptFails(r) /\ ~Retries(r)
  /\ connection_state_' = Closed(transport_)
  /\ Return(holder, "false")
  /\ UNCHANGED <<transport_, has_status_, cache_, movie_recording, alive>>

(* The transport could not create its worker thread: the exception leaves  *)
(* Connect().  Later calls of the same transport do not try again.         *)
ConnectThrows ==
  /\ Runs("Connect") /\ todo = Handshake /\ attempt = 1
  /\ Return(holder, "threw")
  /\ UNCHANGED <<objectVars, alive>>

(* A new session begins: what the cache holds is of an earlier one.        *)
ConnectSucceeds(r) ==
  /\ Runs("Connect") /\ todo = <<"OpenSession">> /\ r \in Good
  /\ connection_state_' = "SessionOpen"
  /\ has_status_' = FALSE
  /\ cache_' = [f \in Fields |-> IF cache_[f] = "current" THEN "old" ELSE cache_[f]]
  /\ Return(holder, "true")
  /\ UNCHANGED <<transport_, movie_recording, alive>>

\* Closing ignores every reply.
ClosingGoesOn(r) ==
  /\ Runs("Disconnect") \/ Runs("SetPtpTransport")
  /\ Len(todo) > 1
  /\ GoOn(Tail(todo))
  /\ UNCHANGED <<objectVars, attempt, iTry, ok, alive>>

ClosingEnds(r) ==
  /\ Runs("Disconnect") \/ Runs("SetPtpTransport")
  /\ Len(todo) = 1
  /\ EndOfSession(holder)
  /\ UNCHANGED <<cache_, movie_recording, alive>>

(* A payload in which the fields in got were found, and movie, the value   *)
(* of the movie button.  Without fields it counts only if the cache was    *)
(* filled before.  The flag is != 0 of a value which the program itself    *)
(* writes as 1 (up) and 2 (down).                                          *)
MovieValues    == 0..2
IsRecording(v) == v # 0

AcceptsAll(got) == TRUE
Accepts(got)    == got # {} \/ has_status_

StatusUpdated(r) ==
  /\ Runs("UpdateStatus") /\ r \in Good
  /\ \E got \in SUBSET Fields, movie \in {{}} \cup {{v} : v \in MovieValues} :
       /\ r = "empty" => got = {} /\ movie = {}
       /\ Accepts(got)
       /\ cache_' = [f \in Fields |-> IF f \in got THEN "current" ELSE cache_[f]]
       /\ movie_recording' \in IF movie = {} THEN {movie_recording}
                                             ELSE {IsRecording(v) : v \in movie}
       /\ has_status_' = (has_status_ \/ got # {})
  /\ Return(holder, "true")
  /\ UNCHANGED <<transport_, connection_state_, alive>>

\* A failed command, a parser that throws, or no field and no status so far.
StatusNotUpdated(r) ==
  /\ Runs("UpdateStatus")
  /\ r = "empty" => ~Accepts({})
  /\ Return(holder, "false")
  /\ UNCHANGED <<objectVars, alive>>

\* FocusStart() ... MovieRecEnd(): the movie functions note their success.
ControlReply(r) ==
  /\ Runs("ControlDevice")
  /\ movie_recording' =
       IF r \in Good /\ Head(todo) \in {"MovieDown", "MovieUp"}
         THEN Head(todo) = "MovieDown" ELSE movie_recording
  /\ Return(holder, Bool(r \in Good))
  /\ UNCHANGED <<transport_, connection_state_, has_status_, cache_, alive>>

(* ok &= ..., and ok = ...                                                 *)
LastOnly(r)   == r \in Good
Accumulate(r) == ok /\ r \in Good

\* All four properties are set, whatever became of the ones before.
SettingsGoOn(r) ==
  /\ Runs("SetExposureParams") /\ Len(todo) > 1
  /\ ok' = Accumulate(r)
  /\ GoOn(Tail(todo))
  /\ UNCHANGED <<objectVars, attempt, iTry, alive>>

SettingsEnd(r) ==
  /\ Runs("SetExposureParams") /\ Len(todo) = 1
  /\ Return(holder, Bool(Accumulate(r)))
  /\ UNCHANGED <<objectVars, alive>>

Reply(r) ==
  \/ HandshakeGoesOn(r) \/ TryAgain(r) \/ RejectedOnce(r) \/ SecondAttempt(r)
  \/ ConnectFails(r) \/ ConnectSucceeds(r)
  \/ ClosingGoesOn(r) \/ ClosingEnds(r)
  \/ StatusUpdated(r) \/ StatusNotUpdated(r)
  \/ ControlReply(r) \/ SettingsGoOn(r) \/ SettingsEnd(r)

\* The destructor has returned and nothing is left to do.
Destroyed == ~alive /\ (\A t \in Threads : call[t] = Idle) /\ UNCHANGED vars

Next ==
  \/ \E t \in Threads :
       \/ \E q \in Requests : Call(t, q)
       \/ Destroy(t) \/ LockTimeout(t) \/ Begin(t)
  \/ \E r \in Replies : Reply(r)
  \/ ConnectThrows
  \/ Joined
  \/ Destroyed

Spec == Init /\ [][Next]_vars

(***************************************************************************)
(* Fairness: a running Escape() returns (EscapeReturns of WiaTransport),   *)
(* and a call that waits for the lock gets it or gives up.  That a join    *)
(* ends is not assumed: it takes a camera that answers (DtorReturns).      *)
(***************************************************************************)
LockStep(t) == LockTimeout(t) \/ Begin(t)

FairSpec ==
  /\ Spec
  /\ WF_vars(\E r \in Replies : Reply(r))
  /\ \A t \in Threads : WF_vars(LockStep(t))

(***************************************************************************)
(* Properties.                                                             *)
(***************************************************************************)

(* What the object believes is consistent: without a transport it is       *)
(* Disconnected, with one it is not, and every Escape() has a transport to *)
(* go to.  transport_ can be replaced only by the holder of the lock.      *)
StateConsistent ==
  /\ connection_state_ = "Disconnected" <=> transport_ = NoTransport
  /\ todo # <<>> => transport_ # NoTransport

(* has_status_ speaks for this session: GetExposureParams() returns data   *)
(* only in a session, and only if UpdateStatus() received some in it.      *)
StatusIsOfSession ==
  has_status_ => /\ connection_state_ = "SessionOpen"
                 /\ \E f \in Fields : cache_[f] = "current"

(* However the camera answers, no call waits under the lock for longer     *)
(* than two handshakes of seven Escape() calls, a CloseSession and the     *)
(* pause.  The join of a last reference comes on top and has no limit.     *)
HoldBounded == spent <= 15 * EscapeWait + RetryTimeout

(* However the camera answers and whoever has the lock, a call returns or  *)
(* comes to wait, in SetPtpTransport() or in the object's destructor, for  *)
(* the worker of a transport it destroys, which may be for ever.  Other    *)
(* calls give up on the lock even then, and where every join ends every    *)
(* call returns.                                                           *)
CallsReturn ==
  /\ \A t \in Threads : call[t] # Idle ~> call[t] = Idle \/ (joining /\ holder = t)
  /\ WF_vars(Joined) => \A t \in Threads : call[t] # Idle ~> call[t] = Idle

(* SonyPTP3_Impl.h on has_status_: it "prevents returning uninitialized    *)
(* default values if getters are called immediately after Connect() but    *)
(* before UpdateStatus()".                                                 *)
GettersAreGated ==
  [][\A t \in Threads :
       /\ Enters(t, "GetExposureMode") /\ call'[t] = Idle
       /\ connection_state_ = "SessionOpen" /\ ~has_status_
       => ret'[t] # "default"]_vars

(* SonyPTP3_Impl.h on ConnectionState: "SessionOpen -> TransportReady:     *)
(* Disconnect() closes the active session but retains transport".  Counted *)
(* are only the timeouts that the present holder can cause on its own:     *)
(* SetExposureParams() may keep the lock for four waits, or 8 s.           *)
DisconnectCloses ==
  [][\A t \in Threads :
       /\ call[t].op = "Disconnect" /\ call'[t] = Idle
       /\ MayGiveUp(t) => spent > LockWait
       => connection_state_' # "SessionOpen"]_vars
=============================================================================
