# SimpleCamCtrl in TLA+

SimpleCamCtrl controls Sony cameras over PTP vendor commands sent through Windows
WIA. This directory holds a TLA+ development of its core: what the threads, the
command queue, the timeouts and the camera can do to each other, model-checked
with TLC on small instances. Its safety properties are proved with TLAPS for every
instance.

## 1. The system

### Components

| Component | State | Operations | Modules |
|---|---|---|---|
| `WiaTransport` (`src/Windows/WiaTransport.*`) | `m_bStarted`, `m_bStop`, `m_qTasks`, one promise per task, the owner STA thread | `Escape()`, `WorkerMain()`, destructor | `WiaTransport`, `EscapeChannel` |
| `SonyPTP3_Impl` (`src/SonyPTP3/SonyPTP3_Impl.*`) | `transport_`, `connection_state_`, `has_status_`, `cache_`, `api_mutex_` | `Connect`, `Disconnect`, `SetPtpTransport`, `UpdateStatus`, getters, focus/shutter/movie, `SetExposureParams`, destructor | `SonyPTP3_Impl` |
| Both together with the camera | queue per transport, the camera's session, buttons and settings | all of the above, late execution of abandoned commands | `SonySystem` |
| `SonyPTP3DevEnum` (`src/SonyPTP3DevEnum/*`) | `m_vecDeviceInfo`; COM initialisation of the calling thread; WIA interface references | `Refresh`, `ListDevices`, `OpenByIndex` | `SonyPTP3DevEnum` |
| `ParseDeviceProperties` (`src/SonyPTP3/SonyPTP3_aux.*`) | cursor, entries read, recorded properties | payload to property map | `DeviceProperties` |
| Exposure codec (`SonyPTP3_Impl.cpp:27-125`) | the locals of the shutter search | shutter, aperture and compensation to and from raw values | `ExposureCodec` |
| Demo programs (`demo/scaffold_polling_demo.cpp`, `demo/demo_driver.cpp`) | `g_bRunning`, the parameters read last, interface pointers | `main()`, `GetFirstWiaDeviceId`, `OnSignal` | `PollingDemo` (partly) |
| Build scripts | - | - | not modelled |

### How they interact

`OpenByIndex()` creates a `WiaTransport` and a `SonyPTP3_Impl`, gives the first to
the second (`SetPtpTransport`), connects, and returns the object. From then on
application threads call the object; every public function takes `api_mutex_`, a
timed mutex (500 ms in `Connect()`, 5000 ms elsewhere), and while it holds it makes
zero or more `Escape()` calls. `Escape()` pushes a task on the transport's queue,
wakes the owner thread and waits up to 2000 ms for the task's promise. The owner
thread pops one task at a time, opens the WIA item, sends the command and sets the
promise. A transport is shared by `shared_ptr`; its destructor tells the owner
thread to stop once the queue is empty and joins it. The demo programs do what
`OpenByIndex()` does by hand; the polling demo then calls `UpdateStatus()`,
`GetExposureParams()` and `SetExposureParams()` in a loop until Ctrl+C.

### What is hard about it

* A timeout of `Escape()` abandons the *call*, not the *command*: it stays queued and
  may reach the camera seconds later, during another call, another session, or after
  the transport was replaced.
* Two timeouts meet: one `Escape()` may take 2 s, the other callers wait 5 s (or 0.5 s)
  for a lock that `Connect()` may keep for 30 s.
* The worker thread may never start, COM may fail on it, the camera may hang; the
  destructor must still drain and join.
* The object's beliefs (`connection_state_`, `has_status_`, `movie_recording`) are
  changed only by replies, so they go stale whenever a reply is lost.
* A setting that is read, converted to a physical value and written back passes a search
  over fractions; a client that polls and writes back repeats that without end, while
  somebody turns the camera's dials.
* A program that is killed leaves its session open at the camera.

The hazards, each with its line and the properties aimed at it, are listed in
`PROJECT.json`.

### What makes each component correct

* **WiaTransport**: commands reach the camera in the order of acceptance, none twice;
  a result belongs to the caller's own command; an answer is a barrier for everything
  accepted earlier; no wakeup is lost; `Escape()` always returns; the destructor drains.
* **SonyPTP3_Impl**: state, transport and status agree at every step; status never
  outlives its session; the time that replies keep the lock is bounded; every call returns, but for the one that
  destroys a transport and waits for its worker.
* **The system**: `SessionOpen` is true of the camera; nothing happens outside a
  session; closing releases what was pressed; `true` means applied; the recording flag
  is right once a movie command was answered; `Connect()` recovers a session left open.
* **Exposure codec and demos**: the search returns a nearest fraction; reading and writing
  back is neutral and comes to rest; Ctrl+C ends `main()`, and each way out of it has released
  what it acquired.
* **SonyPTP3DevEnum**: interface references are released on every path, COM on all
  but an exception's; `OpenByIndex()` opens the device that was listed under that index;
  what it hands out is connected.
* **ParseDeviceProperties**: a whole dump is read exactly, a cut one up to the cut, and
  the cursor stays within the payload; whatever the bytes are, the loop ends with them.

## 2. Modules

* **`EscapeChannel`** - the abstract specification of a transport: numbered commands,
  performed one at a time in order, each settled once; a call ends with its own
  command's fate, with a timeout while that fate is open, or is refused.
* **`WiaTransport`** - one action per critical section of `m_mtx`, or per step between
  two of them that another thread can see. A task is its position in the order of
  `push_back`; `promise[n]` is its promise. `m_cv` is modelled by the worker's state
  `asleep`: `Notify` wakes it only if it sleeps at that moment, so lost wakeups are
  possible in the model; spurious wakeups are an action. `com`, `LocalFates` and
  `SpawnThrows` are the failures of `CoInitializeEx`, of allocation and WIA calls, and
  of the `std::thread` constructor. `device` is a history variable.
  `ImplementsChannel` is the refinement: accepted at `push_back`, settled at
  `set_value`.
* **`SonyPTP3_Impl`** - every public function. A function under the lock is a script,
  `todo`, of `Escape()` calls; its head is the one in progress, and `Reply(r)` runs
  from its return to the next one or to the function's return. `attempt` and `iTry`
  are the retry state of `Connect()`. Replies are told apart as the code does: RC_OK
  with or without payload, an `is_immediate_reject` code, another code, a failed
  HRESULT. `spent` adds up the time limits of the `Escape()` calls made so far. Where the last
  reference to a transport goes (`DropsLast`: `SetPtpTransport()` of another one, or the end of
  the object, if the caller has none in `Retained`), the holder of the lock is `joining` until
  `Joined`, which nothing makes happen. Cached values are abstracted to their age; the
  movie button's value is kept, because its conversion (`!= 0`, `IsRecording`) takes the
  1 that the program writes for "up" as a recording. `FocusStart()` ... `MovieRecEnd()` are the requests
  `ControlDevice` with their button.
* **`SonySystem`** - composes `SonyPTP3_Impl` (its `Begin`, `Reply`, `LockTimeout`,
  `ConnectThrows` are conjoined with what they do to the queues) with a FIFO queue per
  transport, which is what `WiaTransport` is shown to implement, and a camera that
  may refuse or fail anything but keeps a session open until it obeys a
  `CloseSession`. The join of a transport whose last reference goes ends only when its
  queue is empty (`Joins`), as that of `~WiaTransport()` does. The session may be open at the start: a program that
  was killed left it. `healthy` and `unsure` are history variables: whether the camera
  has answered the current `Connect()` as one in good order would, and whether
  it is open what the last movie command or status did. What a status has for the movie
  button is external (`Dumped`): 0 or 1 for off or on, or the button's 1 and 2; a 1 can be
  either and sets `unsure`.
* **`SonyPTP3DevEnum`** - the enumerator as one thread uses it. A step is one call into
  COM or WIA together with the code up to the next one, so that each call can fail
  and devices can come or go between any two. `com` counts the initialisations of
  the thread as COM does (`S_FALSE` included), `host` those that the caller made, in an
  apartment of its choice; `held` is what the operation has been handed out and not released
  yet: `pWiaMgr`, `pEnum`, `pProp`, `pWiaItem` and `bstrId`, each from the call that sets it,
  which may set it and fail all the same (`Fails`), to the release list of the branch taken.
  `handle[h]` is the camera of an object that the caller keeps, `session[d]` the object
  a camera's session belongs to. `Connect()` and the destructor are reduced to what
  they do to sessions; their steps are those of `SonyPTP3_Impl`. `SetPtpTransport()` in
  `WrapTransport` cannot fail here: the object is new and the transport is not null. The second
  pass of `Refresh()`, which numbers the list and drops what is not Sony's, is a loop over
  `nIdx`.
  `Careful` restricts the caller to entries of a fresh list for cameras it has no object for.
* **`DeviceProperties`** - the parser, one iteration of its loop per step, over real
  bytes. The camera's encoding is the other half of the module and is external. The
  `break`s inside the `switch` leave only the `switch`: `ScalarValues` and
  `CountedValues` return where they leave the cursor. What arrives (`Arrives`) is a dump,
  whole or cut short at any byte, or any other payload. A payload has 32 KB at most
  (`WiaTransport.cpp:222`), so that a count of more than 16 bits never fits: `Number` takes
  all of those for 65536.
* **`ExposureCodec`** - the conversions of `SonyPTP3_Impl.cpp:27-125` over exact rationals
  `[num, den]`, compared by cross-multiplication. The search of
  `EncodeShutterSpeedRawFromSeconds()` is a loop of steps with its locals as variables;
  `MaxField` is 65535 and `MaxDenominator` 10000 in the code. Doubles and rationals differ
  only where two fractions are exactly as near.
* **`PollingDemo`** - extends it by `main()` of the polling demo, the part of `UpdateStatus()`
  and `SetExposureParams()` that handles values, a camera that describes any subset of its
  fields and obeys or not, and a user who turns dials and presses Ctrl+C at any time.
  `program = "driver"` is the one-shot demo. The start-up is one step per call; `held` is what
  the search for the device has been handed out, `ReleasedOnFailure` has the release list of
  each branch. `session` is what became of the session: `open` until `Disconnect()` tells the
  camera to close it, which the camera does (`closed`) or not (`kept`). An exception from
  `Connect()` ends the program at once (`terminated`); after any other end of `main()` the
  destructors wait for the transport's worker (`joining`). `stale` is a history variable: fields that were
  dialled since `UpdateStatus()` received them, or never received.
* **`MC*`** - instances for TLC with their symmetry sets.
* **The proofs** - `WiaTransportProofs`; `DevicePropertiesProofs`; `SonyPTP3_ImplProofs` and, on top of it, `SonySystemSteps` (what a step of the system
  does to each queue and to the camera) and `SonySystemProofs`; `SonyPTP3DevEnumProofs`;
  `ExposureCodecProofs` and, on top of it, `PollingDemoProofs`.

## 3. Runs

| Run | Instance | Shows |
|---|---|---|
| `transport` | 2 callers, 4 tasks, 2 replies | `TypeOK`, `CommandsInOrder`, `OutcomeIsTrue`, `DrainedWhenGone`, `AnswerIsBarrier`, `ImplementsChannel`; `EscapeReturns` with a dead camera; `TasksAnswered`, `DtorReturns` if the camera answers |
| `impl` | 2 threads, 2 transports, one kept by the caller, 2 cached fields | `TypeOK`, `StateConsistent`, `StatusIsOfSession`, `HoldBounded`, `CallsReturn` |
| `impl_getters` | 1 thread | *violated*: `GettersAreGated` |
| `impl_disconnect` | 2 threads | *violated*: `DisconnectCloses` |
| `system` | 2 threads, 2 transports of the object's own, backlog 4 each, recording on and off, `UpdateStatus()` | `SysTypeOK`, `SessionIsOpen`, `ReleasedWhenClosed`, `RecordingIsKnown`, `StaysInSession`, `ConnectRecovers` |
| `system_settings` | 1 thread, 1 transport that the caller keeps, 2 `SetExposureParams` calls, focus requests, backlog 5 | `TrueMeansApplied`, `SessionIsOpen`, `ReleasedWhenClosed` |
| `system_shared` | 2 shared transports | *violated*: `SessionIsOpen` |
| `devenum` | 3 devices, 2 of them Sony's, 2 handles, careful caller | `TypeOK`, `HostKeepsCom`, `ReturnsClean`, `SnapshotFitsIndexes`, `HandleHasSession` |
| `devenum_reopen` | 2 devices, 2 handles, any caller | *violated*: `HandleHasSession` |
| `parser` | every dump of up to 3 of 9 properties, cut at every byte; an entry of every type and of an unknown one, with up to 12 bytes out of {0, 1} or up to 6 out of {0, 2, 255} after it, under a count of 200 | `TypeOK`, `EntriesAdvance`, `WholeDumpIsRead`, `CutDumpIsRead` |
| `polling` | fields up to 7, denominators up to 3, every raw shutter, 3 described fields, one dial turned, a limit of 1 or none | `TypeOK`, `NearestFound`, `WriteBackIsNeutral`, `SettingsComeToRest`, `EndsMain`, `ReturnsClean` |
| `codec_short` | fields up to 65535, denominators up to 10000, a camera at 1/32000 s | *violated*: `KeepsMagnitude` |

Bounds and why they are enough:

* `MaxTasks` = 4 with 2 callers: two tasks can be abandoned and two more queued
  behind them; both callers can be at every step of `Escape()` against each other and
  every step of the worker. For the safety properties both bounds are lifted by the
  proofs. Callers are not symmetric there, because the run checks liveness too.
* 2 threads in `SonyPTP3_Impl`: the lock serialises the bodies, so a third thread can
  only wait like the second. 2 transports: replacing one by another, by itself and by
  none. Lifted by the proofs.
* `MaxBacklog`: commands given up on and not carried out yet, per transport. Closing a
  session abandons at most three commands, so 4 covers a whole abandoned end of
  session behind an abandoned command; 5 covers the four settings of a call and a
  `CloseSession`.
* `MaxSets` = 2: a value of this call against a value of an earlier one. The proofs lift all
  bounds of the system's safety properties.
* `polling`: 7 and 3 keep what matters of 65535 and 10000: there are times with no candidate
  (1/7), times that no allowed fraction equals (5/7), ties, numerators that do not fit at
  all denominators, and all-ones. One dial turned is enough for a write-back to
  undo it; a second would be undone by the same steps. `codec_short` has the real values.
* `devenum`: two cameras and a device that the filter drops before, between or after
  them, which is what indexes depend on; two objects, so that one can disturb the other.
  `MaxCom` = 3: two initialisations of the caller's and one on top.
* `parser`: an entry's meaning depends on the lengths of those before it only, and three
  entries put each kind before and after each other. Of the other payloads, 12 bytes
  of 0 and 1 reach the end of an entry of every type but those of 64 bits, and 255 as a
  length exceeds what is left. The proofs lift the bound, the choice of properties and
  that of the bytes.

Deadlock checking is off only for `parser`, which is done with its payload. A destroyed
object stutters explicitly (`Gone`, `Destroyed`), and everything else can always move.

Fairness: `WiaTransport!FairSpec` assumes that the operating system runs the calling
threads (with `wait_for` returning at its limit) and the destructor's;
`WorkerFairness`, that the owner thread runs and the camera answers, is an antecedent
of only the properties that need it. `SonyPTP3_Impl!FairSpec` assumes that a running
`Escape()` returns, which is `EscapeReturns`, and that each waiting call gets the lock
or gives up, which the timed mutex guarantees. It does not assume that `~WiaTransport()`
returns, whose `join()` has no limit: `CallsReturn` says that a call returns or comes to wait in
that join, and that all return if every join ends (`WF_vars(Joined)`, an antecedent, which by
`DtorReturns` takes a camera that keeps answering). `PollingDemo!FairSpec` assumes that `main()`
goes on: its calls return, by `CallsReturn` of a caller that replaces no transport, and COM's and
WIA's are taken to. The destructors after `main()` are not assumed to return, and `EndsMain`
claims only that they are reached: with a camera that hangs the program does not end.
`SettingsComeToRest` needs no fairness.

### Disagreements found

* `GetExposureMode()` and `IsMovieRecording()` do not look at `has_status_`, whose
  comment (`SonyPTP3_Impl.h:138-142`) says it keeps getters from returning defaults.
* `_CONN_TIMEOUT_MS` ("Total timeout for connection attempt") bounds only the wait for
  the lock. `HoldBounded` gives the real bound: 15 waits and a pause, 30.12 s.
* A shutter speed faster than 1/20000 s is encoded as one second (`codec_short`): every
  numerator rounds to 0 and is skipped, and the search returns what it started with.
  Between 1/20000 s and 1/10000 s it returns 1/10000 s. The polling demo, connected to a
  camera at 1/32000 s, sets it to one second.
* Opening a camera again while an object for it exists (`devenum_reopen`): the second
  handshake closes the first object's session, and the first object, which still
  takes itself for `SessionOpen`, later closes that of the second. Assigning the result
  of `OpenByIndex()` to the variable that holds the old object has this effect. The
  camera's part, "already has a session", is what the comment at
  `SonyPTP3_Impl.cpp:174-178` says of it.
* `Disconnect()` gives up after 5 s without a word, while `SetExposureParams()` may keep the
  lock for 8 s: the session stays open.
* A transport that the caller still references when it is replaced can carry out its
  timed-out `CloseSession` in the middle of the next session (`SonyPTP3_Impl.cpp:307-320`).
  With the last reference dropped the destructor's join prevents it (`system`), at the
  price of a wait without limit under the API lock.

Met while modelling, without a document that says otherwise: `S_FALSE` from
`CoInitializeEx` is never balanced; an exception from `Connect()` leaves COM initialised;
a failing `Next()` shortens the list silently; a property dump that is cut inside a value can
record 0 for it, and one that is cut inside an array can record properties that do not
exist; ranges and enumerations of strings are skipped with a length of 0; exposure
compensation, 16 bits and signed, is zero-extended, so that -0.3 EV is reported as 65236
(and comes back to the camera as the same 16 bits); raw 0xFFFFFFFF is written back as 0; a
fraction that is not in lowest terms is written back in lowest terms; the polling demo
writes zeros for every field that it never received, and undoes a dial that is turned
between its reading and its writing; the recording flag takes any value but 0 for a recording,
although the same property is written as 1 for "up", and the end of a session does not
reset it. They are hazards in `PROJECT.json`.

## 4. Proofs

Every theorem is about the specification that the runs check, for any value of the
constants that the assumptions allow. Each proof has the same form: an inductive
invariant, one lemma or step per action that keeps it, and the theorems that follow. The
invariants were checked by TLC on the instances of the runs first.

| Module | Theorems |
|---|---|
| `WiaTransportProofs` | `Invariance`, `TypeCorrect`, `InOrder`, `TrueOutcome`, `Drained`, `Barrier`, `Implementation` |
| `SonyPTP3_ImplProofs` | `Invariance`, `TypeCorrect`, `Consistent`, `StatusFresh`, `Bounded` |
| `SonySystemSteps` | `ObjectImplemented`, `SysTypeCorrect` |
| `SonySystemProofs` | `SysInvariance`, `SessionBelieved`, `NothingLeftBehind`, `RecordingBelieved`, `InSession`, `Recovery`, `Applied` |
| `SonyPTP3DevEnumProofs` | `Invariance`, `TypeCorrect`, `ComIsTheHosts`, `SnapshotInOrder`, `CarefulHasSession`, `WaysOut` |
| `DevicePropertiesProofs` | `Invariance`, `TypeCorrect`, `Advance`, `EntriesFit`, `WholeRead`, `CutRead` |
| `PollingDemoProofs` | `Invariance`, `TypeCorrect`, `Nearest`, `GivenBack`, `WrittenBack` |

`WiaTransportProofs` (any callers, replies, number of tasks). The properties are not
inductive: `CommandsInOrder` speaks of the camera's history only, so the invariant
`IInv` ties the history to the queue: the queue holds the newest tasks without a gap
(`QueueInv`), the worker holds the one just before, exactly the promises before that
are set, and the history mentions nothing beyond the task in hand (`DeviceInv`);
`CallInv` ties each caller's result to its own promise, `StartInv` and `OwnerInv` say
when the worker cannot exist or leave. `QueueFrame`, `CallFrame`, `HeldIsUnset` and
`LocalFateKeeps` are the lemmas the actions share. `Barrier` is an action property from
the same invariant. Assumption: `TransportAssumption` (camera replies are not names of
local outcomes).

The refinement, in the same module. `Implementation == Spec => ImplementsChannel`: the initial
states map to the channel's, and every step of the queue, the worker and the destructor
to a step of the channel or to none (`StepChannel`, one case per action). The channel's
list of fates is a function of the promises and of the outcome in the worker's hand;
`FateShape` derives from `IInv` that it is a sequence with one entry per command decided.

`SonyPTP3_ImplProofs` (any threads, transports, fields). `IInv` adds to the type: the
lock is held exactly while a script runs (`LockInv`); which scripts may be left for
which function, and the connection state meanwhile (`ScriptInv`), without which
neither `StateConsistent` nor "every `Escape()` has a transport" survives a reply;
and the price of the script so far (`HoldInv`), which bounds `spent` by the length of what
is left, the tries and the attempt. Assumption: `ImplAssumption` (the null transport and
the null holder are distinct from the real ones).

`SonySystemSteps`, `SonySystemProofs` (also any backlog and any number of calls).
`ObjectImplemented == SysSpec => Spec`: the object on top of real queues and a camera
implements `SonyPTP3_Impl`, so the theorems above hold of it in the system. The system's
own promises are about commands queued many steps, and sometimes several calls, before.
`SInv` therefore says what the commands *still queued* will do: a session that is
believed in is open and no `CloseSession` is queued behind it (`OpenInv`); no button or
setting is behind a `CloseSession` (`OrderInv`); once a session is over every press that
is queued has its release behind it (`ReleaseInv`); an undoubted recording flag has
nothing left over in the queue (`MovieInv`); while every setting was answered the queue
is empty but for the one in progress (`SettingsInv`); and so between the two attempts of
`Connect()` to a camera in good order (`RecoveryInv`). `BeginShape` and `ReplyShape` reduce the
steps of the object to the four forms that matter (`Starts`, `AtOnce`, `GoesOn`,
`Ends`); `Appended`, `Emptied`, `Replaced`, `Shortened` and `Effects` say what becomes of
queue and camera. All theorems but the first two carry the hypothesis
`Exclusive`: the caller keeps no transport that it gave away, or there is only one. It is
what both passing runs satisfy, and `system_shared` is the counterexample without it.
Assumption: `SystemAssumption` (sets and bounds of the right kind).

`SonyPTP3DevEnumProofs` (any devices, handles, bound on COM). `HostKeepsCom` counts
initialisations at the end of an operation whose failures may come anywhere, so
`ComInv` says at each stage who initialised COM and how often, `StageInv` exactly what is
held (so that each branch's release list must name all of it) and which operation runs, `RawInv` how the list looks when the second pass is
half through it: in order, without duplicates, numbered up to `nIdx`. `SnapshotInv` is the result;
`HandleInv` makes `HandleHasSession` inductive for a caller that is `Careful`, which is the
hypothesis of `CarefulHasSession`, and `devenum_reopen` the counterexample without it.
Assumption: `EnumAssumption` (finitely many devices, the null values distinct).

`ExposureCodecProofs` (any field width, any largest denominator, any time). The search stops
early and skips denominators whose numerator is 0 or does not fit, and still returns
a nearest fraction of *all*. `SearchInv` says of `best` that it is the first nearest candidate
so far (`Picked`) and that every allowed fraction with a denominator up to the current one is
no nearer (`Covered`). `NearestNumerator` shows that rounding gives the nearest numerator,
`BeyondField` and `BelowOne` that a skipped denominator has nothing to offer. The
comparison is by cross-multiplication, so the lemmas on products (`Multiples`, `NearerTransitive`)
come first. From "first" follows `EncodesUnique`, that encoding is a function.
Assumption: `CodecAssumption` (denominators fit into their field).

`PollingDemoProofs` (also any initial setting, dial and subset of described fields). `IInv`
is `SearchInv` with what the cache knows of the camera (`CacheInv`): each field that nobody
dialled since it was received is the camera's setting or what the same value encodes
to. `WriteBackIsNeutral` follows for apertures and compensation because decoding and encoding
is the identity on 16 bits (`RoundTrip`), for shutter speeds because a raw value in lowest
terms with an allowed denominator is found again exactly (`ShutterRoundTrip`), and any other
one is, from the first write-back on, what encoding the same time gives once more.
`EncodeInv` and `MainInv` say where `main()` is; `HeldAt` what the search holds before each of its
calls, so that `GivenBack` rests on the release list of each branch. Assumption:
`DemoAssumption` (the settings at the start and on the dials are raw values).

`DevicePropertiesProofs` (any number of properties up to 65535, with any codes, values and
forms; any payload). Three layers:

* What the parser does with *any* bytes. `ValuesEnd`, `ListEndIs` and `FormEndIs` say that each
  part of an entry ends within the payload or is not passed, and `EntryEnds` that an entry
  takes seven bytes at least. `CursorInv` is their invariant; `TypeCorrect`,
  `Advance` and `EntriesFit` follow: there are at most as many iterations as the payload
  has room for, whatever count it begins with.
* What it does with the bytes of *one property*, wherever they are and however many of
  them arrived. `Matches(off, s)` says that the payload agrees with `s` from `off` on, as
  far as it goes. `EntryWhole`: a plain property that arrived whole is read with its meaning and
  passed exactly. `EntryCut`: a scalar one that was cut is read with 0, if at all, and leaves
  less than seven bytes; this is where the `break` that leaves only the `switch` matters.
* Where the properties of a dump are. A dump is the concatenation of any number of
  encodings, and lists of values are concatenations too. `FlattenSeq` of the community
  modules is a recursive function: `FlattenJoins` shows that it is the last of the partial
  concatenations, by an induction whose hypothesis is a *set* of numbers (`Induction`, from the
  library's theorem on minimal elements), which needs no operator as a parameter.
  `FlattenFacts`, `ElementsLength`, `Layout` and `Arrival` give the lengths and the places.

`IInv` adds `ReadingInv` to `CursorInv`: as long as what arrived is a dump or its beginning
(`Arriving`), and the dump is whole and plain or of scalars, the parser is in step with the dump (`InStep`: the cursor is where property `i + 1` starts, and exactly the
first `i` are recorded), or past a property that was cut (`PastCut`: less than an entry is left), or
not even the count arrived (`TooShort`). `WholeDumpIsRead` and `CutDumpIsRead` only speak of the end,
and are not inductive without this.
Assumption: `CameraAssumption` (what a camera describes is well-formed: values as wide as their
type, counts that fit into theirs; payloads are bytes).

Only model-checked is all liveness, which is out of the prover's reach: `EscapeReturns`,
`TasksAnswered`, `DtorReturns`, `CallsReturn`, `SettingsComeToRest`, `EndsMain`.

## 5. Not modelled

Not modelled: the byte layout of requests and of replies other than the property dump, logging, the
UTF-8 conversions; of the demo programs the statistics, the list of devices that
`demo_driver` prints, and the rejection of an argument that is not a number. What
`ExposureParams` holds by default is taken to be zeros: its declaration is in a
submodule that is not part of the repository. Commands that `PollingDemo` gave up on are
not carried out late there: that is the subject of `SonySystem`. Buttons that a killed
program left pressed are not in its initial state either.
