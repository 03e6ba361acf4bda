-------------------------- MODULE WiaTransportProofs --------------------------
(***************************************************************************)
(* Proofs about WiaTransport, for any set of callers, any set of camera    *)
(* replies and any number of tasks: its invariants, and that it implements *)
(* EscapeChannel.                                                          *)
(***************************************************************************)
EXTENDS WiaTransport, SequenceTheorems, TLAPS

(***************************************************************************)
(* The inductive invariant.  The queue always holds the newest tasks, in   *)
(* order, without a gap; the worker holds the one before them; and the     *)
(* promises that are set are exactly those of all tasks before that.       *)
(***************************************************************************)
QueueInv ==
  /\ Len(m_qTasks) <= Len(promise)
  /\ \A i \in 1..Len(m_qTasks) : m_qTasks[i] = Taken + i
  /\ worker \in {"task", "answer"} => Taken >= 1 /\ wtask = Taken
  /\ \A n \in 1..Len(promise) : promise[n] # "unset" <=> n <= Settled

(* Before there is a worker thread, nothing has been popped.               *)
StartInv == ~m_bStarted => worker = "none"

(* From the destructor on, no thread is inside Escape(), and the worker    *)
(* leaves its loop only with an empty queue.                               *)
OwnerInv ==
  /\ m_bStop <=> owner # "alive"
  /\ owner # "alive" => \A c \in Callers : caller[c] = "idle"
  /\ worker = "exited" => m_bStop /\ m_qTasks = <<>>

Decided == IF worker = "answer" THEN Taken ELSE Settled

(* What the camera has carried out: each task at most once and in order,   *)
(* none beyond the one in the worker's hands, and every promise tells the  *)
(* truth about it.                                                         *)
DeviceInv ==
  /\ \A i \in 1..Len(device) : device[i].task \in 1..Decided
  /\ CommandsInOrder
  /\ worker = "answer" => /\ Len(device) >= 1
                          /\ device[Len(device)] = [task |-> wtask, reply |-> out]
  /\ \A n \in 1..Len(promise) : promise[n] \in DeviceReplies =>
       \E i \in 1..Len(device) : device[i] = [task |-> n, reply |-> promise[n]]
  /\ \A n \in 1..Len(promise) : promise[n] \in LocalFates =>
       \A i \in 1..Len(device) : device[i].task # n
  /\ worker = "task" => \A i \in 1..Len(device) : device[i].task # wtask

(* A call in progress has no result yet; a call that ended with a fate has *)
(* the one its own promise holds; a refused call never had a task.         *)
CallInv ==
  \A c \in Callers :
    /\ caller[c] \in {"queued", "waiting"} => task[c] \in 1..Len(promise)
    /\ caller[c] \in {"entered", "started"} => task[c] = 0
    /\ caller[c] # "idle" => result[c] = "none"
    /\ result[c] \in Fates =>
         task[c] \in 1..Len(promise) /\ promise[task[c]] = result[c]
    /\ result[c] \in Refusals => task[c] = 0

IInv == TypeOK /\ StartInv /\ QueueInv /\ OwnerInv /\ DeviceInv /\ CallInv

-----------------------------------------------------------------------------
(* The initial state satisfies the inductive invariant.                    *)
LEMMA InitIInv == Init => IInv
<1> SUFFICES ASSUME Init PROVE IInv
  OBVIOUS
<1> USE DEF Init
<1>1. m_qTasks \in Seq(Nat) /\ promise \in Seq(Fates \cup {"unset"})
         /\ device \in Seq([task : Nat, reply : DeviceReplies])
  OBVIOUS
<1>2. Len(m_qTasks) = 0 /\ Len(promise) = 0 /\ Len(device) = 0
  OBVIOUS
<1>3. m_bStarted \in BOOLEAN /\ m_bStop \in BOOLEAN
  OBVIOUS
<1>4. TypeOK
  BY <1>1, <1>3 DEF TypeOK, CallerSteps, WorkerSteps, OwnerSteps
<1>5. StartInv /\ OwnerInv
  BY DEF StartInv, OwnerInv
<1>6. QueueInv
  BY <1>2 DEF QueueInv
<1>7. DeviceInv
  BY <1>2 DEF DeviceInv, CommandsInOrder
<1>8. CallInv
  BY TransportAssumption DEF CallInv, Fates, LocalFates, Refusals
<1> QED
  BY <1>4, <1>5, <1>6, <1>7, <1>8 DEF IInv

(* Steps that touch neither the tasks nor the worker's hold on one keep    *)
(* what is known of the queue and of the camera.                           *)
LEMMA QueueFrame ==
  ASSUME IInv, UNCHANGED <<m_qTasks, promise, wtask, out, device>>,
         worker' = worker \/ {worker, worker'} \cap {"task", "answer"} = {}
  PROVE  QueueInv' /\ DeviceInv'
<1>1. /\ Taken' = Taken /\ Settled' = Settled /\ Decided' = Decided
      /\ \A w \in {"task", "answer"} : worker' = w <=> worker = w
  BY DEF Taken, Settled, Decided
<1>2. QueueInv'
  BY <1>1 DEF IInv, QueueInv
<1>3. DeviceInv'
  BY <1>1 DEF IInv, DeviceInv, CommandsInOrder
<1> QED
  BY <1>2, <1>3

(* A promise that is set stays as it is, so calls that do not move keep    *)
(* what is known of them.                                                  *)
LEMMA CallFrame ==
  ASSUME IInv, UNCHANGED <<caller, task, result>>,
         Len(promise') = Len(promise),
         \A n \in 1..Len(promise) : promise[n] # "unset" => promise'[n] = promise[n]
  PROVE  CallInv'
<1>1. "unset" \notin Fates
  BY TransportAssumption DEF Fates, LocalFates
<1> QED
  BY <1>1 DEF IInv, CallInv

(* The worker can set only a promise that is not set yet.                  *)
LEMMA HeldIsUnset ==
  ASSUME IInv, worker \in {"task", "answer"}
  PROVE  /\ wtask = Taken /\ wtask \in 1..Len(promise) /\ promise[wtask] = "unset"
         /\ Settled = wtask - 1
  BY DEF IInv, TypeOK, QueueInv, Taken, Settled

(* A task that fails without reaching the camera is settled all the same.  *)
LEMMA LocalFateKeeps ==
  ASSUME IInv, NEW f \in LocalFates, worker = "task", worker' = "loop",
         SetPromise(f), UNCHANGED <<m_qTasks, callerVars, wtask, device>>
  PROVE  QueueInv' /\ DeviceInv' /\ CallInv' /\ promise' \in Seq(Fates \cup {"unset"})
<1>1. f # "unset" /\ f \notin DeviceReplies /\ f \in Fates
  BY TransportAssumption DEF Fates, LocalFates
<1>2. /\ wtask = Taken /\ wtask \in 1..Len(promise) /\ promise[wtask] = "unset"
      /\ Settled = wtask - 1
  BY HeldIsUnset
<1>3. /\ promise' \in Seq(Fates \cup {"unset"})
      /\ Len(promise') = Len(promise)
      /\ promise'[wtask] = f
      /\ \A n \in 1..Len(promise) : n # wtask => promise'[n] = promise[n]
  BY <1>1, <1>2 DEF IInv, TypeOK, SetPromise
<1>4. Taken' = Taken /\ Settled' = wtask /\ Decided' = wtask /\ Decided = wtask - 1
  BY <1>2, <1>3 DEF Taken, Settled, Decided
<1>5. QueueInv'
  BY <1>1, <1>2, <1>3, <1>4 DEF IInv, TypeOK, QueueInv
<1>6. DeviceInv'
  <2>1. \A i \in 1..Len(device) : device[i].task \in 1..wtask /\ device[i].task # wtask
    BY <1>2, <1>4 DEF IInv, TypeOK, DeviceInv
  <2>2. CommandsInOrder'
    BY DEF IInv, DeviceInv, CommandsInOrder
  <2>3. \A n \in 1..Len(promise) : promise'[n] \in DeviceReplies =>
          \E i \in 1..Len(device) : device[i] = [task |-> n, reply |-> promise'[n]]
    BY <1>1, <1>3 DEF IInv, DeviceInv
  <2>4. \A n \in 1..Len(promise) : promise'[n] \in LocalFates =>
          \A i \in 1..Len(device) : device[i].task # n
    BY <2>1, <1>3 DEF IInv, DeviceInv
  <2> QED
    BY <2>1, <2>2, <2>3, <2>4, <1>3, <1>4 DEF DeviceInv
<1>7. CallInv'
  BY <1>2, <1>3, CallFrame DEF callerVars
<1> QED
  BY <1>3, <1>5, <1>6, <1>7

(* Every step keeps the inductive invariant.                               *)
LEMMA StepIInv == IInv /\ [Next]_vars => IInv'
<1> SUFFICES ASSUME IInv, [Next]_vars PROVE IInv'
  OBVIOUS
<1> USE DEF callerVars, workerVars
<1>1. ASSUME NEW c \in Callers, Escape(c)
      PROVE  IInv'
  <2>1. TypeOK'
    BY <1>1, TransportAssumption
    DEF IInv, TypeOK, CallerSteps, Escape, Move
  <2>2. StartInv' /\ OwnerInv'
    BY <1>1 DEF IInv, StartInv, OwnerInv, Escape
  <2>3. QueueInv' /\ DeviceInv'
    BY <1>1, QueueFrame DEF IInv, StartInv, Escape, Move
  <2>4. CallInv'
    BY <1>1, TransportAssumption
    DEF IInv, TypeOK, CallInv, Fates, LocalFates, Escape, Move
  <2> QED
    BY <2>1, <2>2, <2>3, <2>4 DEF IInv
<1>2. ASSUME NEW c \in Callers, EscapeTooManyParams(c)
      PROVE  IInv'
  <2>1. TypeOK'
    BY <1>2, TransportAssumption
    DEF IInv, TypeOK, Refusals, EscapeTooManyParams
  <2>2. StartInv' /\ OwnerInv'
    BY <1>2 DEF IInv, TypeOK, StartInv, OwnerInv, EscapeTooManyParams
  <2>3. QueueInv' /\ DeviceInv'
    BY <1>2, QueueFrame DEF IInv, StartInv, EscapeTooManyParams
  <2>4. CallInv'
    BY <1>2, TransportAssumption
    DEF IInv, TypeOK, CallInv, Fates, LocalFates, Refusals, EscapeTooManyParams
  <2> QED
    BY <2>1, <2>2, <2>3, <2>4 DEF IInv
<1>3. ASSUME NEW c \in Callers, EnsureWorkerStarted(c) \/ SpawnThrows(c)
      PROVE  IInv'
  <2>1. TypeOK'
    BY <1>3, TransportAssumption
    DEF IInv, TypeOK, Refusals, CallerSteps, WorkerSteps, EnsureWorkerStarted,
        SpawnThrows, Move
  <2>2. StartInv' /\ OwnerInv'
    BY <1>3 DEF IInv, StartInv, OwnerInv, EnsureWorkerStarted, SpawnThrows, Move
  <2>3. QueueInv' /\ DeviceInv'
    BY <1>3, QueueFrame DEF IInv, StartInv, EnsureWorkerStarted, SpawnThrows,
           Move
  <2>4. CallInv'
    BY <1>3, TransportAssumption
    DEF IInv, TypeOK, CallInv, Fates, LocalFates, Refusals,
        EnsureWorkerStarted, SpawnThrows, Move
  <2> QED
    BY <2>1, <2>2, <2>3, <2>4 DEF IInv
<1>4. ASSUME NEW c \in Callers, NotifyWorker(c)
      PROVE  IInv'
  <2>1. TypeOK'
    BY <1>4, TransportAssumption
    DEF IInv, TypeOK, CallerSteps, WorkerSteps, NotifyWorker, Move, Notify
  <2>2. StartInv' /\ OwnerInv'
    BY <1>4 DEF IInv, StartInv, OwnerInv, NotifyWorker, Move, Notify
  <2>3. QueueInv' /\ DeviceInv'
    BY <1>4, QueueFrame DEF IInv, StartInv, NotifyWorker, Move, Notify
  <2>4. CallInv'
    BY <1>4, TransportAssumption
    DEF IInv, CallInv, NotifyWorker, Move
  <2> QED
    BY <2>1, <2>2, <2>3, <2>4 DEF IInv
<1>5. ASSUME NEW c \in Callers, WaitReady(c)
      PROVE  IInv'
  <2>1. TypeOK'
    BY <1>5, TransportAssumption
    DEF IInv, TypeOK, CallInv, CallerSteps, WaitReady, Move
  <2>2. StartInv' /\ OwnerInv'
    BY <1>5 DEF IInv, StartInv, OwnerInv, WaitReady, Move
  <2>3. QueueInv' /\ DeviceInv'
    BY <1>5, QueueFrame DEF IInv, StartInv, WaitReady, Move
  <2>4. CallInv'
    BY <1>5, TransportAssumption
    DEF IInv, TypeOK, CallInv, Fates, LocalFates, Refusals, WaitReady, Move
  <2> QED
    BY <2>1, <2>2, <2>3, <2>4 DEF IInv
<1>6. ASSUME NEW c \in Callers, WaitTimeout(c)
      PROVE  IInv'
  <2>1. TypeOK'
    BY <1>6, TransportAssumption
    DEF IInv, TypeOK, CallerSteps, WaitTimeout, Move
  <2>2. StartInv' /\ OwnerInv'
    BY <1>6 DEF IInv, StartInv, OwnerInv, WaitTimeout, Move
  <2>3. QueueInv' /\ DeviceInv'
    BY <1>6, QueueFrame DEF IInv, StartInv, WaitTimeout, Move
  <2>4. CallInv'
    BY <1>6, TransportAssumption
    DEF IInv, TypeOK, CallInv, Fates, LocalFates, Refusals, WaitTimeout, Move
  <2> QED
    BY <2>1, <2>2, <2>3, <2>4 DEF IInv
<1>7. ASSUME WorkerInit \/ WorkerSleep \/ SpuriousWakeup \/ WorkerExit
      PROVE  IInv'
  <2>1. TypeOK'
    BY <1>7, TransportAssumption
    DEF IInv, TypeOK, WorkerSteps, WorkerInit, WorkerSleep, SpuriousWakeup,
        WorkerExit
  <2>2. StartInv' /\ OwnerInv'
    BY <1>7
    DEF IInv, StartInv, OwnerInv, WorkerInit, WorkerSleep, SpuriousWakeup,
        WorkerExit, ExitLoop
  <2>3. QueueInv' /\ DeviceInv'
    BY <1>7, QueueFrame DEF WorkerInit, WorkerSleep, SpuriousWakeup, WorkerExit
  <2>4. CallInv'
    BY <1>7, CallFrame DEF WorkerInit, WorkerSleep, SpuriousWakeup,
        WorkerExit, ExitLoop
  <2> QED
    BY <2>1, <2>2, <2>3, <2>4 DEF IInv
<1>8. ASSUME DtorStop \/ DtorNotify \/ DtorJoin
      PROVE  IInv'
  <2>1. TypeOK'
    BY <1>8, TransportAssumption
    DEF IInv, TypeOK, WorkerSteps, OwnerSteps, DtorStop, DtorNotify, DtorJoin,
        Notify
  <2>2. StartInv' /\ OwnerInv'
    BY <1>8 DEF IInv, StartInv, OwnerInv, DtorStop, DtorNotify, DtorJoin, Notify
  <2>3. QueueInv' /\ DeviceInv'
    BY <1>8, QueueFrame DEF DtorStop, DtorNotify, DtorJoin
  <2>4. CallInv'
    BY <1>8, CallFrame DEF DtorStop, DtorNotify, DtorJoin, Notify
  <2> QED
    BY <2>1, <2>2, <2>3, <2>4 DEF IInv
<1>9. ASSUME UNCHANGED vars
      PROVE  IInv'
  <2>1. TypeOK'
    BY <1>9, TransportAssumption
    DEF IInv, TypeOK, vars
  <2>2. StartInv' /\ OwnerInv'
    BY <1>9 DEF IInv, TypeOK, StartInv, OwnerInv, vars
  <2>3. QueueInv' /\ DeviceInv'
    BY <1>9, QueueFrame DEF IInv, StartInv, vars
  <2>4. CallInv'
    BY <1>9, CallFrame DEF vars
  <2> QED
    BY <2>1, <2>2, <2>3, <2>4 DEF IInv
<1>10. ASSUME NEW c \in Callers, Enqueue(c)
      PROVE  IInv'
  <2>1. TypeOK'
    BY <1>10, TransportAssumption
    DEF IInv, TypeOK, CallerSteps, Enqueue, Move, PushTask
  <2>2. StartInv' /\ OwnerInv'
    BY <1>10 DEF IInv, StartInv, OwnerInv, Enqueue, Move
  <2>3. QueueInv'
    <3>1. /\ Len(promise') = Len(promise) + 1
          /\ promise'[Len(promise')] = "unset"
          /\ \A n \in 1..Len(promise) : promise'[n] = promise[n]
      BY <1>10 DEF IInv, TypeOK, Enqueue
    <3>2. /\ Len(m_qTasks') = Len(m_qTasks) + 1
          /\ m_qTasks'[Len(m_qTasks')] = Len(promise')
          /\ \A i \in 1..Len(m_qTasks) : m_qTasks'[i] = m_qTasks[i]
      BY <1>10, <3>1 DEF IInv, TypeOK, Enqueue, PushTask
    <3>3. Taken' = Taken /\ Settled' = Settled /\ Taken + Len(m_qTasks') = Len(promise')
      BY <1>10, <3>1, <3>2 DEF IInv, TypeOK, Taken, Settled, Enqueue
    <3>4. Settled <= Len(promise) /\ Settled \in Int /\ Taken \in Nat
      BY DEF IInv, TypeOK, QueueInv, Taken, Settled
    <3>5. Len(m_qTasks') <= Len(promise')
      BY <3>1, <3>2 DEF IInv, TypeOK, QueueInv
    <3>6. \A i \in 1..Len(m_qTasks') : m_qTasks'[i] = Taken' + i
      <4> TAKE i \in 1..Len(m_qTasks')
      <4>1. CASE i = Len(m_qTasks')
        BY <4>1, <3>2, <3>3
      <4>2. CASE i \in 1..Len(m_qTasks)
        BY <4>2, <3>2, <3>3 DEF IInv, QueueInv
      <4>3. PICK k \in Nat : k = Len(m_qTasks)
        BY DEF IInv, TypeOK
      <4>4. Len(m_qTasks') = k + 1
        BY <3>2, <4>3
      <4>5. i = k + 1 \/ i \in 1..k
        BY <4>4
      <4> QED
        BY <4>1, <4>2, <4>3, <4>4, <4>5
    <3>7. worker' = worker /\ wtask' = wtask
      BY <1>10 DEF Enqueue
    <3>8. \A n \in 1..Len(promise') : promise'[n] # "unset" <=> n <= Settled'
      <4> TAKE n \in 1..Len(promise')
      <4>1. CASE n = Len(promise')
        BY <4>1, <3>1, <3>3, <3>4 DEF IInv, TypeOK
      <4>2. CASE n \in 1..Len(promise)
        BY <4>2, <3>1, <3>3 DEF IInv, QueueInv
      <4> QED
        BY <4>1, <4>2, <3>1 DEF IInv, TypeOK
    <3> QED
      BY <3>3, <3>5, <3>6, <3>7, <3>8 DEF IInv, QueueInv
  <2>4. DeviceInv'
    <3>1. /\ Len(promise') = Len(promise) + 1
          /\ promise'[Len(promise')] = "unset"
          /\ \A n \in 1..Len(promise) : promise'[n] = promise[n]
      BY <1>10 DEF IInv, TypeOK, Enqueue
    <3>2. Decided' = Decided
      BY <1>10, <3>1 DEF Decided, Taken, Settled, Enqueue, PushTask
    <3>3. "unset" \notin DeviceReplies \cup LocalFates
      BY TransportAssumption DEF LocalFates
    <3>4. \A n \in 1..Len(promise') : promise'[n] \in DeviceReplies \cup LocalFates =>
            n \in 1..Len(promise) /\ promise'[n] = promise[n]
      <4>1. Len(promise) \in Nat
        BY DEF IInv, TypeOK
      <4> QED
        BY <4>1, <3>1, <3>3
    <3>5. UNCHANGED <<worker, wtask, out, device>>
      BY <1>10 DEF Enqueue
    <3> QED
      BY <3>2, <3>4, <3>5 DEF IInv, DeviceInv, CommandsInOrder
  <2>5. CallInv'
    BY <1>10, TransportAssumption
    DEF IInv, TypeOK, CallInv, Refusals, Enqueue, Move
  <2> QED
    BY <2>1, <2>2, <2>3, <2>4, <2>5 DEF IInv
<1>11. ASSUME WorkerPop
      PROVE  IInv'
  <2>1. TypeOK'
    BY <1>11, TransportAssumption DEF IInv, TypeOK, WorkerSteps, WorkerPop
  <2>2. StartInv' /\ OwnerInv'
    BY <1>11 DEF IInv, TypeOK, StartInv, OwnerInv, WorkerPop
  <2>3. QueueInv'
    BY <1>11 DEF IInv, QueueInv, Taken, Settled, WorkerPop
  <2>4. DeviceInv'
    <3>1. Decided' = Decided /\ wtask' = Decided + 1 /\ Decided \in Nat
      BY <1>11 DEF IInv, QueueInv, Decided, Taken, Settled, WorkerPop
    <3>2. \A i \in 1..Len(device) : device[i].task # wtask'
      BY <3>1 DEF IInv, TypeOK, DeviceInv
    <3>3. UNCHANGED <<promise, device>> /\ worker' = "task"
      BY <1>11 DEF WorkerPop
    <3> QED
      BY <3>1, <3>2, <3>3 DEF IInv, DeviceInv, CommandsInOrder
  <2>5. CallInv'
    BY <1>11, CallFrame DEF WorkerPop
  <2> QED
    BY <2>1, <2>2, <2>3, <2>4, <2>5 DEF IInv
<1>12. ASSUME WorkerComFailed
      PROVE  IInv'
  <2>1. /\ QueueInv' /\ DeviceInv' /\ CallInv'
        /\ promise' \in Seq(Fates \cup {"unset"})
    BY <1>12, LocalFateKeeps DEF LocalFates, WorkerComFailed
  <2>2. TypeOK'
    BY <1>12, <2>1 DEF IInv, TypeOK, WorkerSteps, WorkerComFailed
  <2>3. StartInv' /\ OwnerInv'
    BY <1>12 DEF IInv, StartInv, OwnerInv, WorkerComFailed
  <2> QED
    BY <2>1, <2>2, <2>3 DEF IInv
<1>13. ASSUME WorkerLocalFailure
      PROVE  IInv'
  <2>1. /\ QueueInv' /\ DeviceInv' /\ CallInv'
        /\ promise' \in Seq(Fates \cup {"unset"})
    BY <1>13, LocalFateKeeps DEF LocalFates, WorkerLocalFailure
  <2>2. TypeOK'
    BY <1>13, <2>1 DEF IInv, TypeOK, WorkerSteps, WorkerLocalFailure
  <2>3. StartInv' /\ OwnerInv'
    BY <1>13 DEF IInv, StartInv, OwnerInv, WorkerLocalFailure
  <2> QED
    BY <2>1, <2>2, <2>3 DEF IInv
<1>14. ASSUME WorkerCallDevice
      PROVE  IInv'
  <2>1. TypeOK'
    BY <1>14, TransportAssumption
    DEF IInv, TypeOK, WorkerSteps, WorkerCallDevice
  <2>2. StartInv' /\ OwnerInv'
    BY <1>14 DEF IInv, TypeOK, StartInv, OwnerInv, WorkerCallDevice
  <2>3. QueueInv'
    BY <1>14 DEF IInv, QueueInv, Taken, Settled, WorkerCallDevice
  <2>4. DeviceInv'
    <3>1. Decided' = wtask /\ Decided = wtask - 1 /\ wtask \in 1..Len(promise)
      BY <1>14 DEF IInv, QueueInv, Decided, Taken, Settled, WorkerCallDevice
    <3>2. /\ Len(device') = Len(device) + 1
          /\ device'[Len(device')] = [task |-> wtask, reply |-> out']
          /\ \A i \in 1..Len(device) : device'[i] = device[i]
          /\ Len(device) \in Nat
      BY <1>14 DEF IInv, TypeOK, WorkerCallDevice
    <3>3. promise[wtask] = "unset" /\ promise' = promise
      BY <1>14, <3>1 DEF IInv, QueueInv, Taken, Settled, WorkerCallDevice
    <3>4. "unset" \notin DeviceReplies \cup LocalFates
      BY TransportAssumption DEF LocalFates
    <3>5. \A i \in 1..Len(device') : device'[i].task \in 1..Decided'
      <4> TAKE i \in 1..Len(device')
      <4>1. CASE i = Len(device')
        BY <4>1, <3>1, <3>2 DEF IInv, TypeOK
      <4>2. CASE i \in 1..Len(device)
        <5>1. device'[i].task \in 1..(wtask - 1) /\ wtask \in Nat
          BY <4>2, <3>1, <3>2 DEF IInv, TypeOK, DeviceInv
        <5> QED
          BY <5>1, <3>1
      <4> QED
        BY <4>1, <4>2, <3>2
    <3>6. CommandsInOrder'
      <4> SUFFICES ASSUME NEW i \in 1..Len(device'), NEW j \in 1..Len(device'), i < j
                   PROVE  device'[i].task < device'[j].task
        BY DEF CommandsInOrder
      <4>1. CASE j = Len(device')
        <5>1. device'[j].task = wtask
          BY <4>1, <3>2
        <5>2. i \in 1..Len(device) /\ device'[i] = device[i]
          BY <4>1, <3>2
        <5>3. device[i].task \in 1..(wtask - 1)
          BY <5>2, <3>1 DEF IInv, DeviceInv
        <5>4. wtask \in Nat
          BY DEF IInv, TypeOK
        <5> QED
          BY <5>1, <5>2, <5>3, <5>4
      <4>2. CASE j \in 1..Len(device)
        <5>1. i \in 1..Len(device) /\ device'[i] = device[i] /\ device'[j] = device[j]
          BY <4>2, <3>2
        <5> QED
          BY <4>2, <5>1 DEF IInv, DeviceInv, CommandsInOrder
      <4> QED
        BY <4>1, <4>2, <3>2
    <3>7. \A n \in 1..Len(promise') : promise'[n] \in DeviceReplies =>
            \E i \in 1..Len(device') : device'[i] = [task |-> n, reply |-> promise'[n]]
      <4> SUFFICES ASSUME NEW n \in 1..Len(promise), promise[n] \in DeviceReplies
                   PROVE  \E i \in 1..Len(device') :
                             device'[i] = [task |-> n, reply |-> promise[n]]
        BY <3>3
      <4>1. PICK i \in 1..Len(device) : device[i] = [task |-> n, reply |-> promise[n]]
        BY DEF IInv, DeviceInv
      <4> QED
        BY <4>1, <3>2
    <3>8. \A n \in 1..Len(promise') : promise'[n] \in LocalFates =>
            \A i \in 1..Len(device') : device'[i].task # n
      <4> SUFFICES ASSUME NEW n \in 1..Len(promise), promise[n] \in LocalFates,
                          NEW i \in 1..Len(device')
                   PROVE  device'[i].task # n
        BY <3>3
      <4>1. CASE i = Len(device')
        BY <4>1, <3>2, <3>3, <3>4
      <4>2. CASE i \in 1..Len(device)
        BY <4>2, <3>2 DEF IInv, DeviceInv
      <4> QED
        BY <4>1, <4>2, <3>2
    <3> QED
      BY <1>14, <3>2, <3>5, <3>6, <3>7, <3>8 DEF IInv, TypeOK, DeviceInv,
             WorkerCallDevice
  <2>5. CallInv'
    BY <1>14, CallFrame DEF WorkerCallDevice
  <2> QED
    BY <2>1, <2>2, <2>3, <2>4, <2>5 DEF IInv
<1>15. ASSUME WorkerAnswer
      PROVE  IInv'
  <2>1. TypeOK'
    BY <1>15, TransportAssumption
    DEF IInv, TypeOK, DeviceInv, QueueInv, Taken, Fates, WorkerSteps,
        WorkerAnswer, SetPromise
  <2>2. StartInv' /\ OwnerInv'
    BY <1>15 DEF IInv, StartInv, OwnerInv, WorkerAnswer
  <2>3. QueueInv'
    <3>1. out \in DeviceReplies /\ out # "unset" /\ wtask \in 1..Len(promise)
      BY <1>15, TransportAssumption
      DEF IInv, TypeOK, QueueInv, DeviceInv, Taken, WorkerAnswer
    <3>2. Taken' = Taken /\ Settled' = wtask /\ Settled = wtask - 1
      BY <1>15, <3>1
      DEF IInv, QueueInv, Taken, Settled, WorkerAnswer, SetPromise
    <3> QED
      BY <1>15, <3>1, <3>2 DEF IInv, TypeOK, QueueInv, WorkerAnswer, SetPromise
  <2>4. DeviceInv'
    <3>1. out \in DeviceReplies \ LocalFates /\ wtask \in 1..Len(promise)
      BY <1>15, TransportAssumption
      DEF IInv, TypeOK, QueueInv, DeviceInv, Taken, WorkerAnswer
    <3>2. Decided' = Decided
      BY <1>15, <3>1 DEF Decided, Taken, Settled, WorkerAnswer, SetPromise
    <3> QED
      BY <1>15, <3>1, <3>2
      DEF IInv, DeviceInv, CommandsInOrder, WorkerAnswer, SetPromise
  <2>5. CallInv'
    BY <1>15, HeldIsUnset, CallFrame DEF IInv, TypeOK, WorkerAnswer, SetPromise
  <2> QED
    BY <2>1, <2>2, <2>3, <2>4, <2>5 DEF IInv
<1> QED
  BY <1>1, <1>2, <1>3, <1>4, <1>5, <1>6, <1>7, <1>8, <1>9, <1>10, <1>11, <1>12,
     <1>13, <1>14, <1>15
  DEF Next, CallerStep, WorkerStep, DtorStep, Gone
-----------------------------------------------------------------------------
(* The inductive invariant: the queue, the promises and the camera agree.  *)
THEOREM Invariance == Spec => []IInv
<1> QED
  BY InitIInv, StepIInv, PTL DEF Spec

(* Every variable keeps its type.                                          *)
THEOREM TypeCorrect == Spec => []TypeOK
<1>1. IInv => TypeOK
  BY DEF IInv
<1> QED
  BY <1>1, Invariance, PTL

(* The camera carries out the tasks in the order of their push_back, and   *)
(* each at most once, however many callers there are and give up.          *)
THEOREM InOrder == Spec => []CommandsInOrder
<1>1. IInv => CommandsInOrder
  BY DEF IInv, DeviceInv
<1> QED
  BY <1>1, Invariance, PTL

(* What a caller is told of its command is what became of that command.    *)
THEOREM TrueOutcome == Spec => []OutcomeIsTrue
<1>1. IInv => OutcomeIsTrue
  <2> SUFFICES ASSUME IInv, NEW c \in Callers
               PROVE  /\ result[c] \in DeviceReplies =>
                           \E i \in 1..Len(device) :
                              device[i] = [task |-> task[c], reply |-> result[c]]
                      /\ result[c] \in LocalFates \cup Refusals =>
                           \A i \in 1..Len(device) : device[i].task # task[c]
    BY DEF OutcomeIsTrue
  <2>1. CASE result[c] \in DeviceReplies
    <3>1. result[c] \notin LocalFates \cup Refusals
      BY <2>1, TransportAssumption
    <3>2. task[c] \in 1..Len(promise) /\ promise[task[c]] = result[c]
      BY <2>1 DEF IInv, CallInv, Fates
    <3> QED
      BY <2>1, <3>1, <3>2 DEF IInv, DeviceInv
  <2>2. CASE result[c] \in LocalFates
    <3>1. result[c] \notin DeviceReplies
      BY <2>2, TransportAssumption
    <3>2. task[c] \in 1..Len(promise) /\ promise[task[c]] = result[c]
      BY <2>2 DEF IInv, CallInv, Fates
    <3> QED
      BY <2>2, <3>1, <3>2 DEF IInv, DeviceInv
  <2>3. CASE result[c] \in Refusals
    <3>1. result[c] \notin DeviceReplies
      BY <2>3, TransportAssumption
    <3>2. task[c] = 0
      BY <2>3 DEF IInv, CallInv
    <3>3. \A i \in 1..Len(device) : device[i].task # 0
      BY DEF IInv, TypeOK, DeviceInv
    <3> QED
      BY <3>1, <3>2, <3>3
  <2> QED
    BY <2>1, <2>2, <2>3
<1> QED
  BY <1>1, Invariance, PTL

(* When the destructor has joined the worker, every accepted task has its  *)
(* result.                                                                 *)
THEOREM Drained == Spec => []DrainedWhenGone
<1>1. IInv => DrainedWhenGone
  BY DEF IInv, QueueInv, OwnerInv, DrainedWhenGone, Taken, Settled
<1> QED
  BY <1>1, Invariance, PTL

(* Once some task has its result, the camera receives no task accepted     *)
(* before it or with it.                                                   *)
THEOREM Barrier == Spec => AnswerIsBarrier
<1>1. ASSUME IInv, [Next]_vars, device' # device, NEW n \in 1..Len(promise),
             promise[n] # "unset"
      PROVE  n < device'[Len(device')].task
  <2>1. WorkerCallDevice
    BY <1>1
    DEF Next, CallerStep, WorkerStep, DtorStep, Gone, Escape,
        EscapeTooManyParams, EnsureWorkerStarted, SpawnThrows, Enqueue,
        NotifyWorker, WaitReady, WaitTimeout, WorkerInit, WorkerSleep,
        SpuriousWakeup, WorkerExit, WorkerPop, WorkerComFailed,
        WorkerLocalFailure, WorkerAnswer, DtorStop, DtorNotify, DtorJoin,
        workerVars, vars
  <2>2. device'[Len(device')].task = wtask
    BY <1>1, <2>1 DEF IInv, TypeOK, WorkerCallDevice
  <2>3. n <= wtask - 1
    BY <1>1, <2>1, HeldIsUnset DEF IInv, QueueInv, WorkerCallDevice
  <2>4. wtask \in Nat
    BY <1>1 DEF IInv, TypeOK
  <2> QED
    BY <2>2, <2>3, <2>4
<1>2. IInv /\ [Next]_vars =>
        [\A n \in 1..Len(promise) :
           /\ promise[n] # "unset"
           /\ device' # device
           => n < device'[Len(device')].task]_vars
  BY <1>1
<1> QED
  BY <1>2, Invariance, PTL DEF Spec, AnswerIsBarrier

-----------------------------------------------------------------------------
(* The refinement: each step of WiaTransport is a step that the channel    *)
(* allows, or none.                                                        *)

(* The command of c's unfinished call, as the channel sees it.             *)
CallOf == [c \in Callers |-> IF caller[c] \in {"queued", "waiting"}
                             THEN task[c] ELSE 0]

-----------------------------------------------------------------------------
(* The fates are those of the commands decided so far, in order.           *)
FatesInOrder ==
  /\ Settled \in Nat /\ Decided \in Nat /\ Decided <= Len(promise)
  /\ FateOf \in Seq(Fates) /\ Len(FateOf) = Decided
  /\ \A n \in 1..Decided : FateOf[n] = IF n > Settled THEN out ELSE promise[n]

(* The invariant says so.                                                  *)
LEMMA FateShape == IInv => FatesInOrder
<1> SUFFICES ASSUME IInv PROVE FatesInOrder
  OBVIOUS
<1>1. /\ Settled \in Nat /\ Decided \in Nat /\ Decided <= Len(promise)
      /\ Taken \in Nat /\ Settled <= Decided
  BY DEF IInv, TypeOK, QueueInv, Taken, Settled, Decided
<1>2. FateOf = [n \in 1..Decided |-> IF n > Settled THEN out ELSE promise[n]]
  BY DEF FateOf, Decided
<1>3. ASSUME NEW n \in 1..Decided
      PROVE  (IF n > Settled THEN out ELSE promise[n]) \in Fates
  <2>1. CASE n > Settled
    <3>1. worker = "answer"
      BY <1>1, <2>1 DEF Decided
    <3> DEFINE Record == [task : Nat, reply : DeviceReplies]
    <3>2. device[Len(device)].reply = out /\ Len(device) >= 1
      BY <3>1 DEF IInv, DeviceInv
    <3>3. device[Len(device)] \in Record
      <4>1. device \in Seq(Record)
        BY DEF IInv, TypeOK
      <4> HIDE DEF Record
      <4> QED
        BY <3>2, <4>1, ElementOfSeq
    <3> QED
      BY <2>1, <3>2, <3>3 DEF Fates
  <2>2. CASE n <= Settled
    BY <1>1, <2>2 DEF IInv, TypeOK, QueueInv
  <2> QED
    BY <1>1, <2>1, <2>2
<1>4. FateOf \in Seq(Fates) /\ Len(FateOf) = Decided
  BY <1>1, <1>2, <1>3
<1> QED
  BY <1>1, <1>2, <1>4 DEF FatesInOrder

(* They still are after a step that keeps the invariant.                   *)
LEMMA FateShapeNext == IInv' => FatesInOrder'
BY FateShape, PTL

(* A step that decides no command leaves the fates as they are.            *)
LEMMA FateFrame ==
  ASSUME IInv, IInv', Decided' = Decided, Settled' = Settled,
         worker = "answer" => out' = out,
         \A n \in 1..Settled : promise'[n] = promise[n]
  PROVE  FateOf' = FateOf
<1>1. \A n \in 1..Decided : FateOf'[n] = FateOf[n]
  BY FateShape, FateShapeNext DEF FatesInOrder, Decided
<1> QED
  BY <1>1, FateShape, FateShapeNext, SeqEqual DEF FatesInOrder

(* Steps that accept, decide and settle nothing are steps of the channel   *)
(* for its caller only.                                                    *)
LEMMA ChannelFrame ==
  ASSUME IInv, IInv', UNCHANGED <<m_qTasks, promise, out>>,
         worker' = worker \/ {worker, worker'} \cap {"task", "answer"} = {}
  PROVE  /\ UNCHANGED <<Len(promise), FateOf, Settled>>
<1>1. Taken' = Taken /\ Settled' = Settled /\ Decided' = Decided
  BY DEF Taken, Settled, Decided
<1> QED
  BY <1>1, FateFrame

-----------------------------------------------------------------------------
(* The initial state is one of the channel.                                *)
LEMMA InitChannel == Init => Channel!Init
<1> SUFFICES ASSUME Init PROVE Channel!Init
  OBVIOUS
<1>1. Len(promise) = 0 /\ Len(m_qTasks) = 0
  BY DEF Init
<1>2. Settled = 0 /\ Decided = 0
  BY <1>1 DEF Init, Settled, Decided, Taken
<1>3. FateOf = <<>>
  BY <1>2, FateShape, InitIInv DEF FatesInOrder
<1> QED
  BY <1>1, <1>2, <1>3 DEF Init, Channel!Init, Channel!Idle

(* A step that the channel sees only at its caller, or not at all.         *)
LEMMA CallOfFrame ==
  ASSUME NEW c \in Callers, IInv,
         \A b \in Callers \ {c} : caller'[b] = caller[b] /\ task'[b] = task[b],
         caller[c] \in {"queued", "waiting"}
           <=> caller'[c] \in {"queued", "waiting"},
         caller[c] \in {"queued", "waiting"} => task'[c] = task[c]
  PROVE  CallOf' = CallOf
BY DEF CallOf

(* Every step is a step of the channel, or none that it sees.              *)
LEMMA StepChannel ==
  IInv /\ IInv' /\ [Next]_vars => [Channel!Next]_(Channel!chanVars)
<1> SUFFICES ASSUME IInv, IInv', [Next]_vars
             PROVE  Channel!Next \/ UNCHANGED Channel!chanVars
  OBVIOUS
<1> USE DEF callerVars, workerVars
<1>0. /\ UNCHANGED Channel!chanVars <=>
           /\ (owner' = "alive") = (owner = "alive")
           /\ UNCHANGED <<Len(promise), FateOf, Settled, CallOf, result>>
      /\ Channel!chanVars = <<owner = "alive", Len(promise), FateOf, Settled,
                             CallOf, result>>
  BY DEF Channel!chanVars, CallOf
<1>1. ASSUME NEW c \in Callers,
             Escape(c) \/ EscapeTooManyParams(c) \/ SpawnThrows(c)
      PROVE  Channel!Refuse(c)
  <2>1. UNCHANGED <<Len(promise), FateOf, Settled>>
    BY <1>1, ChannelFrame DEF Escape, EscapeTooManyParams, SpawnThrows
  <2>2. UNCHANGED CallOf
    BY <1>1, CallOfFrame
    DEF Escape, EscapeTooManyParams, SpawnThrows, Move, IInv, TypeOK
  <2>3. owner = "alive" /\ owner' = owner
    BY <1>1 DEF Escape, EscapeTooManyParams, SpawnThrows, Move, IInv, OwnerInv
  <2>4. CallOf[c] = 0
    BY <1>1 DEF Escape, EscapeTooManyParams, SpawnThrows, Move, CallOf
  <2>5. \E r \in Refusals \cup {"none"} : result' = [result EXCEPT ![c] = r]
    BY <1>1 DEF Escape, EscapeTooManyParams, SpawnThrows, Refusals
  <2> QED
    BY <2>1, <2>2, <2>3, <2>4, <2>5
    DEF Channel!Refuse, Channel!Idle, Channel!Refusals, Refusals, CallOf
<1>2. ASSUME NEW c \in Callers, EnsureWorkerStarted(c) \/ NotifyWorker(c)
      PROVE  UNCHANGED Channel!chanVars
  <2>1. UNCHANGED <<Len(promise), FateOf, Settled>>
    BY <1>2, ChannelFrame
    DEF EnsureWorkerStarted, NotifyWorker, Notify, IInv, StartInv
  <2>2. UNCHANGED CallOf
    BY <1>2, CallOfFrame
    DEF EnsureWorkerStarted, NotifyWorker, Move, IInv, TypeOK
  <2> QED
    BY <1>0, <1>2, <2>1, <2>2 DEF EnsureWorkerStarted, NotifyWorker
<1>3. ASSUME NEW c \in Callers, Enqueue(c)
      PROVE  Channel!Accept(c)
  <2>1. /\ Len(promise') = Len(promise) + 1 /\ Len(m_qTasks') = Len(m_qTasks) + 1
        /\ \A n \in 1..Len(promise) : promise'[n] = promise[n]
    BY <1>3 DEF Enqueue, PushTask, IInv, TypeOK
  <2>2. Settled' = Settled /\ Decided' = Decided
    BY <1>3, <2>1 DEF Enqueue, Settled, Decided, Taken, IInv, TypeOK
  <2>3. FateOf' = FateOf
    <3>1. Settled <= Len(promise) /\ out' = out
      BY <1>3, FateShape DEF Enqueue, FatesInOrder, Decided, Settled
    <3> QED
      BY <2>1, <2>2, <3>1, FateFrame, FateShape DEF FatesInOrder
  <2>4. CallOf' = [CallOf EXCEPT ![c] = Len(promise) + 1]
    BY <1>3, <2>1 DEF Enqueue, Move, CallOf, IInv, TypeOK
  <2>5. CallOf[c] = 0
    BY <1>3 DEF Enqueue, Move, CallOf
  <2>6. owner = "alive"
    BY <1>3 DEF Enqueue, Move, IInv, OwnerInv
  <2> QED
    BY <1>3, <2>1, <2>2, <2>3, <2>4, <2>5, <2>6
    DEF Enqueue, Channel!Accept, Channel!Idle, CallOf
<1>4. ASSUME NEW c \in Callers, WaitReady(c)
      PROVE  Channel!Return(c)
  <2>1. UNCHANGED <<Len(promise), FateOf, Settled>>
    BY <1>4, ChannelFrame DEF WaitReady
  <2>2. CallOf[c] = task[c] /\ CallOf' = [CallOf EXCEPT ![c] = 0]
    BY <1>4 DEF WaitReady, Move, CallOf, IInv, TypeOK
  <2>3. task[c] \in 1..Len(promise) /\ task[c] <= Settled
    BY <1>4 DEF WaitReady, Move, IInv, CallInv, QueueInv
  <2>4. FateOf[task[c]] = promise[task[c]]
    BY <2>3, FateShape DEF FatesInOrder, Decided, Settled
  <2>5. result' = [result EXCEPT ![c] = FateOf[CallOf[c]]] /\ owner' = owner
    BY <1>4, <2>2, <2>4 DEF WaitReady
  <2>6. CallOf[c] # 0 /\ CallOf[c] <= Settled
    BY <2>2, <2>3
  <2> QED
    BY <2>1, <2>2, <2>5, <2>6 DEF Channel!Return, Channel!Idle, CallOf
<1>5. ASSUME NEW c \in Callers, WaitTimeout(c)
      PROVE  Channel!GiveUp(c)
  <2>1. UNCHANGED <<Len(promise), FateOf, Settled>>
    BY <1>5, ChannelFrame DEF WaitTimeout
  <2>2. CallOf[c] = task[c] /\ CallOf' = [CallOf EXCEPT ![c] = 0]
    BY <1>5 DEF WaitTimeout, Move, CallOf, IInv, TypeOK
  <2>3. task[c] \in 1..Len(promise) /\ Settled < task[c]
    BY <1>5, FateShape
    DEF WaitTimeout, MayGiveUp, Move, FatesInOrder, IInv, CallInv, QueueInv
  <2> QED
    BY <1>5, <2>1, <2>2, <2>3
    DEF WaitTimeout, Channel!GiveUp, Channel!Idle, CallOf
<1>6. ASSUME WorkerInit \/ WorkerSleep \/ SpuriousWakeup \/ WorkerExit
             \/ DtorNotify \/ DtorJoin
      PROVE  UNCHANGED Channel!chanVars
  <2>1. UNCHANGED <<Len(promise), FateOf, Settled>>
    BY <1>6, ChannelFrame
    DEF WorkerInit, WorkerSleep, SpuriousWakeup, WorkerExit, DtorNotify,
        Notify, DtorJoin
  <2>2. UNCHANGED CallOf
    BY <1>6
    DEF WorkerInit, WorkerSleep, SpuriousWakeup, WorkerExit, DtorNotify,
        DtorJoin, CallOf
  <2> QED
    BY <1>0, <1>6, <2>1, <2>2
    DEF WorkerInit, WorkerSleep, SpuriousWakeup, WorkerExit, DtorNotify,
        DtorJoin
<1>7. ASSUME WorkerPop
      PROVE  UNCHANGED Channel!chanVars
  <2>1. Len(m_qTasks') = Len(m_qTasks) - 1
    BY <1>7 DEF WorkerPop, IInv, TypeOK
  <2>2. Settled' = Settled /\ Decided' = Decided
    BY <1>7, <2>1 DEF WorkerPop, Settled, Decided, Taken, IInv, TypeOK
  <2>3. FateOf' = FateOf
    BY <1>7, <2>2, FateFrame DEF WorkerPop
  <2> QED
    BY <1>0, <1>7, <2>2, <2>3 DEF WorkerPop, CallOf
<1>8. ASSUME WorkerComFailed \/ WorkerLocalFailure
      PROVE  Channel!Fail
  <2>1. PICK r \in LocalFates : SetPromise(r)
    BY <1>8 DEF WorkerComFailed, WorkerLocalFailure, LocalFates
  <2>2. /\ worker = "task" /\ worker' = "loop"
        /\ UNCHANGED <<m_qTasks, owner, caller, task, result>>
    BY <1>8 DEF WorkerComFailed, WorkerLocalFailure
  <2>3. /\ wtask = Taken /\ wtask \in 1..Len(promise) /\ Settled = wtask - 1
    BY <2>2, HeldIsUnset
  <2>4. /\ Len(promise') = Len(promise) /\ promise'[wtask] = r
        /\ \A n \in 1..Len(promise) : n # wtask => promise'[n] = promise[n]
    BY <2>1, <2>3 DEF SetPromise, IInv, TypeOK
  <2>5. Settled' = wtask /\ Decided' = wtask /\ Decided = wtask - 1
    BY <2>2, <2>3, <2>4 DEF Settled, Decided, Taken
  <2>6. FateOf' = Append(FateOf, r)
    <3>1. r \in Fates /\ Append(FateOf, r) \in Seq(Fates)
      BY FateShape, AppendProperties DEF FatesInOrder, Fates
    <3>2. Len(Append(FateOf, r)) = Len(FateOf')
      BY <2>5, <3>1, FateShape, FateShapeNext, AppendProperties
      DEF FatesInOrder
    <3>3. \A n \in 1..Len(FateOf') : FateOf'[n] = Append(FateOf, r)[n]
      BY <2>3, <2>4, <2>5, <3>1, FateShape, FateShapeNext, AppendProperties
      DEF FatesInOrder
    <3> QED
      BY <3>1, <3>2, <3>3, FateShapeNext, SeqEqual DEF FatesInOrder
  <2>7. Len(FateOf) = Settled /\ Settled < Len(promise) /\ Settled' = Settled + 1
    BY <2>3, <2>5, FateShape DEF FatesInOrder
  <2> QED
    BY <2>2, <2>4, <2>6, <2>7
    DEF Channel!Fail, Channel!LocalFates, LocalFates, CallOf
<1>9. ASSUME WorkerCallDevice
      PROVE  Channel!Perform
  <2>1. out' \in DeviceReplies
    BY <1>9 DEF WorkerCallDevice
  <2>2. /\ worker = "task" /\ worker' = "answer"
        /\ UNCHANGED <<m_qTasks, promise, owner, caller, task, result>>
    BY <1>9 DEF WorkerCallDevice
  <2>3. /\ wtask = Taken /\ wtask \in 1..Len(promise) /\ Settled = wtask - 1
    BY <2>2, HeldIsUnset
  <2>4. Settled' = Settled /\ Decided' = wtask /\ Decided = wtask - 1
    BY <2>2, <2>3 DEF Settled, Decided, Taken
  <2>5. FateOf' = Append(FateOf, out')
    <3>1. out' \in Fates /\ Append(FateOf, out') \in Seq(Fates)
      BY <2>1, FateShape, AppendProperties DEF FatesInOrder, Fates
    <3>2. Len(Append(FateOf, out')) = Len(FateOf')
      BY <2>4, <3>1, FateShape, FateShapeNext, AppendProperties
      DEF FatesInOrder
    <3>3. \A n \in 1..Len(FateOf') : FateOf'[n] = Append(FateOf, out')[n]
      BY <2>2, <2>3, <2>4, <3>1, FateShape, FateShapeNext, AppendProperties
      DEF FatesInOrder
    <3> QED
      BY <3>1, <3>2, <3>3, FateShapeNext, SeqEqual DEF FatesInOrder
  <2>6. Len(FateOf) = Settled /\ Settled < Len(promise)
    BY <2>3, <2>4, FateShape DEF FatesInOrder
  <2> QED
    BY <2>1, <2>2, <2>4, <2>5, <2>6 DEF Channel!Perform, CallOf
<1>10. ASSUME WorkerAnswer
       PROVE  Channel!Settle
  <2>1. /\ worker = "answer" /\ worker' = "loop" /\ SetPromise(out)
        /\ UNCHANGED <<m_qTasks, owner, caller, task, result, out>>
    BY <1>10 DEF WorkerAnswer
  <2>2. /\ wtask = Taken /\ wtask \in 1..Len(promise) /\ Settled = wtask - 1
    BY <2>1, HeldIsUnset
  <2>3. /\ Len(promise') = Len(promise) /\ promise'[wtask] = out
        /\ \A n \in 1..Len(promise) : n # wtask => promise'[n] = promise[n]
    BY <2>1, <2>2 DEF SetPromise, IInv, TypeOK
  <2>4. Settled' = wtask /\ Decided' = wtask /\ Decided = wtask
    BY <2>1, <2>2, <2>3 DEF Settled, Decided, Taken
  <2>5. FateOf' = FateOf
    <3>1. \A n \in 1..Len(FateOf) : FateOf'[n] = FateOf[n]
      BY <2>2, <2>3, <2>4, FateShape, FateShapeNext DEF FatesInOrder
    <3> QED
      BY <2>4, <3>1, FateShape, FateShapeNext, SeqEqual DEF FatesInOrder
  <2>6. Settled < Len(FateOf) /\ Settled' = Settled + 1
    BY <2>2, <2>4, FateShape DEF FatesInOrder
  <2> QED
    BY <2>1, <2>3, <2>5, <2>6 DEF Channel!Settle, CallOf
<1>11. ASSUME DtorStop
       PROVE  Channel!Close
  <2>1. UNCHANGED <<Len(promise), FateOf, Settled>>
    BY <1>11, ChannelFrame DEF DtorStop
  <2>2. \A c \in Callers : CallOf[c] = 0
    BY <1>11 DEF DtorStop, CallOf
  <2> QED
    BY <1>11, <2>1, <2>2 DEF DtorStop, Channel!Close, Channel!Idle, CallOf
<1>12. ASSUME UNCHANGED vars
       PROVE  UNCHANGED Channel!chanVars
  BY <1>0, <1>12 DEF vars, FateOf, Settled, Taken, CallOf
<1> QED
  BY <1>1, <1>2, <1>3, <1>4, <1>5, <1>6, <1>7, <1>8, <1>9, <1>10, <1>11, <1>12
  DEF Next, CallerStep, WorkerStep, DtorStep, Gone, Channel!Next

-----------------------------------------------------------------------------
(* WiaTransport implements EscapeChannel.                                  *)
THEOREM Implementation == Spec => ImplementsChannel
<1> QED
  BY InitChannel, StepChannel, Invariance, PTL
  DEF Spec, ImplementsChannel, Channel!Spec
=============================================================================
