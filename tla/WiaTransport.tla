----------------------------- MODULE WiaTransport -----------------------------
(***************************************************************************)
(* One WiaTransport object: the threads inside Escape(), the task queue,   *)
(* the owner STA thread that runs WorkerMain(), and the destructor.        *)
(*                                                                         *)
(* Each action is one critical section of m_mtx, or one step between two   *)
(* of them that another thread can observe.  A task is named by its        *)
(* position in the order of push_back; promise[n] is its std::promise.     *)
(***************************************************************************)
EXTENDS Integers, Sequences, FiniteSets

CONSTANTS
  Callers,        \* threads that share the transport
  DeviceReplies,  \* replies of IWiaItemExtras::Escape, as far as told apart
  MaxTasks        \* bound: tasks created in the life of the object

LocalFates == {"comFailed", "localFailure"}
Refusals   == {"invalidArg", "threw"}

ASSUME TransportAssumption ==
  /\ MaxTasks \in Nat
  /\ DeviceReplies \cap
       (LocalFates \cup Refusals \cup {"unset", "none", "timeout"}) = {}

VARIABLES
  m_bStarted,  \* EnsureWorkerStarted() has run
  m_bStop,     \* the destructor has asked the worker to stop
  m_qTasks,    \* tasks pushed and not popped yet
  promise,     \* promise[n]: "unset", or the result set for task n
  caller,      \* caller[c]: where thread c is inside Escape()
  task,        \* task[c]: the task of c's current or last call, 0 before one
  result,      \* result[c]: how c's last call ended, "none" during a call
  worker,      \* where the owner thread is inside WorkerMain()
  com,         \* hrCom: "none" before CoInitializeEx, then "ok" or "failed"
  wtask,       \* spTask: the task popped last
  out,         \* the camera's reply to wtask, before set_value
  owner,       \* progress of the destructor
  device       \* history: every [task, reply] the camera carried out

callerVars == <<caller, task, result>>
workerVars == <<worker, com, wtask, out, device>>
vars == <<m_bStarted, m_bStop, m_qTasks, promise, callerVars, workerVars, owner>>

CallerSteps == {"idle", "entered", "started", "queued", "waiting"}
WorkerSteps == {"none", "spawned", "loop", "asleep", "task", "answer", "exited"}
OwnerSteps  == {"alive", "stopping", "joining", "gone"}
Fates       == DeviceReplies \cup LocalFates

TypeOK ==
  /\ m_bStarted \in BOOLEAN
  /\ m_bStop \in BOOLEAN
  /\ m_qTasks \in Seq(Nat)
  /\ promise \in Seq(Fates \cup {"unset"})
  /\ caller \in [Callers -> CallerSteps]
  /\ task \in [Callers -> Nat]
  /\ result \in [Callers -> Fates \cup Refusals \cup {"none", "timeout"}]
  /\ worker \in WorkerSteps
  /\ com \in {"none", "ok", "failed"}
  /\ wtask \in Nat
  /\ out \in DeviceReplies \cup {"none"}
  /\ owner \in OwnerSteps
  /\ device \in Seq([task : Nat, reply : DeviceReplies])

Init ==
  /\ m_bStarted = FALSE
  /\ m_bStop = FALSE
  /\ m_qTasks = <<>>
  /\ promise = <<>>
  /\ caller = [c \in Callers |-> "idle"]
  /\ task = [c \in Callers |-> 0]
  /\ result = [c \in Callers |-> "none"]
  /\ worker = "none"
  /\ com = "none"
  /\ wtask = 0
  /\ out = "none"
  /\ owner = "alive"
  /\ device = <<>>

(***************************************************************************)
(* Escape(), as run by thread c.                                           *)
(***************************************************************************)

Move(c, from, to) ==
  /\ caller[c] = from
  /\ caller' = [caller EXCEPT ![c] = to]

(* m_qTasks.push_back, and the same with push_front.                       *)
PushFront(n) == m_qTasks' = <<n>> \o m_qTasks
PushTask(n)  == m_qTasks' = Append(m_qTasks, n)

(* notify_all: only the owner thread ever waits on m_cv; and its omission. *)
NoNotify == worker' = worker
Notify == worker' = IF worker = "asleep" THEN "loop" ELSE worker

(* Calls that have a task or will create one; keeps MaxTasks from cutting  *)
(* a call short.                                                           *)
TasksClaimed ==
  Len(promise) + Cardinality({c \in Callers : caller[c] \in {"entered", "started"}})

Escape(c) ==
  /\ owner = "alive"
  /\ TasksClaimed < MaxTasks
  /\ Move(c, "idle", "entered")
  /\ task' = [task EXCEPT ![c] = 0]
  /\ result' = [result EXCEPT ![c] = "none"]
  /\ UNCHANGED <<m_bStarted, m_bStop, m_qTasks, promise, workerVars, owner>>

(* More than PTP_MAX_PARAMS parameters: refused before any thread starts.  *)
EscapeTooManyParams(c) ==
  /\ owner = "alive"
  /\ caller[c] = "idle"
  /\ task' = [task EXCEPT ![c] = 0]
  /\ result' = [result EXCEPT ![c] = "invalidArg"]
  /\ UNCHANGED <<m_bStarted, m_bStop, m_qTasks, promise, caller, workerVars, owner>>

EnsureWorkerStarted(c) ==
  /\ IF m_bStarted THEN UNCHANGED worker
                   ELSE worker' = "spawned"
  /\ m_bStarted' = TRUE
  /\ Move(c, "entered", "started")
  /\ UNCHANGED <<m_bStop, m_qTasks, promise, task, result,
                 com, wtask, out, device, owner>>

(* The std::thread constructor throws; m_bStarted has been set before it.  *)
SpawnThrows(c) ==
  /\ ~m_bStarted
  /\ m_bStarted' = TRUE
  /\ Move(c, "entered", "idle")
  /\ result' = [result EXCEPT ![c] = "threw"]
  /\ UNCHANGED <<m_bStop, m_qTasks, promise, task, workerVars, owner>>

Enqueue(c) ==
  /\ Move(c, "started", "queued")
  /\ promise' = Append(promise, "unset")
  /\ task' = [task EXCEPT ![c] = Len(promise')]
  /\ PushTask(Len(promise'))
  /\ UNCHANGED <<m_bStarted, m_bStop, result, workerVars, owner>>

NotifyWorker(c) ==
  /\ Move(c, "queued", "waiting")
  /\ Notify
  /\ UNCHANGED <<m_bStarted, m_bStop, m_qTasks, promise, task, result,
                 com, wtask, out, device, owner>>

(* future.get() in place of the wait: whatever is there is the result.     *)
ReadsTooEarly(c) ==
  /\ Move(c, "waiting", "idle")
  /\ result' = [result EXCEPT ![c] = promise[task[c]]]
  /\ UNCHANGED <<m_bStarted, m_bStop, m_qTasks, promise, task, workerVars, owner>>

WaitReady(c) ==
  /\ Move(c, "waiting", "idle")
  /\ promise[task[c]] # "unset"
  /\ result' = [result EXCEPT ![c] = promise[task[c]]]
  /\ UNCHANGED <<m_bStarted, m_bStop, m_qTasks, promise, task, workerVars, owner>>

(* wait_for says timeout only if the future is not ready at its last look; *)
(* a get() without a timeout never gives up; and a test of the clock alone *)
(* discards an answer that is already there.                               *)
NeverGivesUp(c) == FALSE
ClockSaysTimeout(c) == TRUE
MayGiveUp(c) == promise[task[c]] = "unset"

(* kEscapeWaitTimeout has passed; the task stays where it is.              *)
WaitTimeout(c) ==
  /\ Move(c, "waiting", "idle")
  /\ MayGiveUp(c)
  /\ result' = [result EXCEPT ![c] = "timeout"]
  /\ UNCHANGED <<m_bStarted, m_bStop, m_qTasks, promise, task, workerVars, owner>>

CallerStep(c) ==
  \/ EnsureWorkerStarted(c) \/ SpawnThrows(c)
  \/ Enqueue(c) \/ NotifyWorker(c)
  \/ WaitReady(c) \/ WaitTimeout(c)

(***************************************************************************)
(* WorkerMain(), as run by the owner thread.                               *)
(***************************************************************************)

WorkerInit ==
  /\ worker = "spawned"
  /\ worker' = "loop"
  /\ com' \in {"ok", "failed"}
  /\ UNCHANGED <<m_bStarted, m_bStop, m_qTasks, promise, callerVars,
                 wtask, out, device, owner>>

(* m_cv.wait with its predicate, the break, or the pop: one lock region.   *)
WorkerSleep ==
  /\ worker = "loop"
  /\ m_qTasks = <<>> /\ ~m_bStop
  /\ worker' = "asleep"
  /\ UNCHANGED <<m_bStarted, m_bStop, m_qTasks, promise, callerVars,
                 com, wtask, out, device, owner>>

SpuriousWakeup ==
  /\ worker = "asleep"
  /\ worker' = "loop"
  /\ UNCHANGED <<m_bStarted, m_bStop, m_qTasks, promise, callerVars,
                 com, wtask, out, device, owner>>

(* The loop ends when told to stop and drained, not as soon as told.       *)
ExitAtOnce == m_bStop
ExitLoop   == m_bStop /\ m_qTasks = <<>>

WorkerExit ==
  /\ worker = "loop"
  /\ ExitLoop
  /\ worker' = "exited"
  /\ UNCHANGED <<m_bStarted, m_bStop, m_qTasks, promise, callerVars,
                 com, wtask, out, device, owner>>

WorkerPop ==
  /\ worker = "loop"
  /\ m_qTasks # <<>>
  /\ worker' = "task"
  /\ wtask' = Head(m_qTasks)
  /\ m_qTasks' = Tail(m_qTasks)
  /\ UNCHANGED <<m_bStarted, m_bStop, promise, callerVars, com, out, device, owner>>

(* spTask->promise.set_value, and the promise of the newest task instead.  *)
SetNewest(r)  == promise' = [promise EXCEPT ![Len(promise)] = r]
SetPromise(r) == promise' = [promise EXCEPT ![wtask] = r]

WorkerComFailed ==
  /\ worker = "task" /\ com = "failed"
  /\ SetPromise("comFailed")
  /\ worker' = "loop"
  /\ UNCHANGED <<m_bStarted, m_bStop, m_qTasks, callerVars,
                 com, wtask, out, device, owner>>

(* A worker that reports the failure and still tries again later.          *)
ReportAndRetry ==
  /\ worker = "task" /\ com = "ok"
  /\ SetPromise("localFailure")
  /\ PushTask(wtask)
  /\ worker' = "loop"
  /\ UNCHANGED <<m_bStarted, m_bStop, callerVars, com, wtask, out, device, owner>>

(* No memory for the buffers, or the WIA item cannot be opened.            *)
WorkerLocalFailure ==
  /\ worker = "task" /\ com = "ok"
  /\ SetPromise("localFailure")
  /\ worker' = "loop"
  /\ UNCHANGED <<m_bStarted, m_bStop, m_qTasks, callerVars,
                 com, wtask, out, device, owner>>

WorkerCallDevice ==
  /\ worker = "task" /\ com = "ok"
  /\ \E r \in DeviceReplies :
       /\ out' = r
       /\ device' = Append(device, [task |-> wtask, reply |-> r])
  /\ worker' = "answer"
  /\ UNCHANGED <<m_bStarted, m_bStop, m_qTasks, promise, callerVars,
                 com, wtask, owner>>

WorkerAnswer ==
  /\ worker = "answer"
  /\ SetPromise(out)
  /\ worker' = "loop"
  /\ UNCHANGED <<m_bStarted, m_bStop, m_qTasks, callerVars,
                 com, wtask, out, device, owner>>

WorkerStep ==
  \/ WorkerInit \/ WorkerSleep \/ SpuriousWakeup \/ WorkerExit \/ WorkerPop
  \/ WorkerComFailed \/ WorkerLocalFailure \/ WorkerCallDevice \/ WorkerAnswer

(***************************************************************************)
(* ~WiaTransport().  The object is held by shared_ptr, so no thread is     *)
(* inside Escape() when the last reference goes.                           *)
(***************************************************************************)

DtorStop ==
  /\ owner = "alive"
  /\ \A c \in Callers : caller[c] = "idle"
  /\ m_bStop' = TRUE
  /\ owner' = "stopping"
  /\ UNCHANGED <<m_bStarted, m_qTasks, promise, callerVars, workerVars>>

DtorNotify ==
  /\ owner = "stopping"
  /\ Notify
  /\ owner' = "joining"
  /\ UNCHANGED <<m_bStarted, m_bStop, m_qTasks, promise, callerVars,
                 com, wtask, out, device>>

(* join() if the thread was ever created.                                  *)
DtorJoin ==
  /\ owner = "joining"
  /\ worker \in {"none", "exited"}
  /\ owner' = "gone"
  /\ UNCHANGED <<m_bStarted, m_bStop, m_qTasks, promise, callerVars, workerVars>>

DtorStep == DtorStop \/ DtorNotify \/ DtorJoin

(* The object is gone and nothing is left to do.                           *)
Gone == owner = "gone" /\ UNCHANGED vars

Next ==
  \/ \E c \in Callers : Escape(c) \/ EscapeTooManyParams(c) \/ CallerStep(c)
  \/ WorkerStep
  \/ DtorStep
  \/ Gone

Spec == Init /\ [][Next]_vars

(***************************************************************************)
(* Fairness.  The operating system runs every thread, and wait_for returns *)
(* when its time is up; nobody else has to do anything for a caller.       *)
(* WorkerFairness says that the camera keeps answering: an assumption that *)
(* only the properties that need it make.  It needs no spurious wakeup.    *)
(***************************************************************************)
CallerFairness == \A c \in Callers : WF_vars(CallerStep(c))
DtorFairness   == WF_vars(DtorNotify \/ DtorJoin)

WorkerFairness ==
  WF_vars(\/ WorkerInit \/ WorkerSleep \/ WorkerExit \/ WorkerPop
          \/ WorkerComFailed \/ WorkerLocalFailure \/ WorkerCallDevice \/ WorkerAnswer)

FairSpec == Spec /\ CallerFairness /\ DtorFairness

(***************************************************************************)
(* Safety.                                                                 *)
(***************************************************************************)

(* The camera carries out commands in the order in which Escape() accepted *)
(* them, and none of them twice: one worker, push_back and pop_front.      *)
CommandsInOrder ==
  \A i, j \in 1..Len(device) : i < j => device[i].task < device[j].task

(* An answered call is a barrier: once some task has its result, the       *)
(* camera receives no task accepted before it or with it, however many of  *)
(* them timed out earlier.  This is what lets a caller conclude from the   *)
(* answer to OpenSession that no abandoned CloseSession is still to come.  *)
AnswerIsBarrier ==
  [][\A n \in 1..Len(promise) :
       /\ promise[n] # "unset"
       /\ device' # device
       => n < device'[Len(device')].task]_vars

(* What a caller is told is what happened to its own command: a reply of   *)
(* the camera was given to that command; a local failure means the camera  *)
(* never saw it.  Only "timeout" leaves the question open.                 *)
OutcomeIsTrue ==
  \A c \in Callers :
    /\ result[c] \in DeviceReplies =>
         \E i \in 1..Len(device) : device[i] = [task |-> task[c], reply |-> result[c]]
    /\ result[c] \in LocalFates \cup Refusals =>
         \A i \in 1..Len(device) : device[i].task # task[c]

(* The destructor drains: when it has joined a worker, every task ever     *)
(* accepted has its result - no promise is broken - and none is queued.    *)
DrainedWhenGone ==
  owner = "gone" /\ worker = "exited" =>
    /\ m_qTasks = <<>>
    /\ \A n \in 1..Len(promise) : promise[n] # "unset"

(***************************************************************************)
(* Liveness.                                                               *)
(***************************************************************************)

(* Every Escape() returns, even if the camera never answers again or the   *)
(* worker could not be created: nothing a caller needs is held meanwhile.  *)
EscapeReturns == \A c \in Callers : caller[c] # "idle" ~> caller[c] = "idle"

(* No wakeup is lost: if the camera keeps answering, every accepted task   *)
(* gets its result, whether or not its caller still waits for it.          *)
TasksAnswered ==
  WorkerFairness =>
    \A n \in 1..MaxTasks :
      Len(promise) >= n /\ worker # "none" ~> Len(promise) >= n /\ promise[n] # "unset"

(* The destructor returns if the camera keeps answering.                   *)
DtorReturns == WorkerFairness => (owner # "alive" ~> owner = "gone")

(***************************************************************************)
(* The transport implements EscapeChannel: a command is accepted at its    *)
(* push_back and settled by its set_value.                                 *)
(***************************************************************************)
Taken   == Len(promise) - Len(m_qTasks)
Settled == IF worker \in {"task", "answer"} THEN Taken - 1 ELSE Taken
FateOf  == [n \in 1..(IF worker = "answer" THEN Taken ELSE Settled) |->
              IF n > Settled THEN out ELSE promise[n]]

Channel == INSTANCE EscapeChannel WITH
  open     <- owner = "alive",
  accepted <- Len(promise),
  fate     <- FateOf,
  settled  <- Settled,
  call     <- [c \in Callers |-> IF caller[c] \in {"queued", "waiting"}
                                 THEN task[c] ELSE 0],
  result   <- result

(* Every step of WiaTransport is a step the channel allows, or none.       *)
ImplementsChannel == Channel!Spec
=============================================================================
