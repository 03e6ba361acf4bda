----------------------------- MODULE PollingDemo -----------------------------
(***************************************************************************)
(* The polling demo: a program that reads the exposure settings of the     *)
(* camera and writes them back, without a pause, until Ctrl+C or a limit   *)
(* of iterations; and the one-shot demo, which only reads them.  It shows  *)
(* UpdateStatus(), GetExposureParams() and SetExposureParams() with their  *)
(* values, where SonyPTP3_Impl has only their age.                         *)
(*                                                                         *)
(* Meanwhile somebody turns the camera's dials, the camera leaves any      *)
(* field out of a dump, and any command may fail.  A command that its      *)
(* caller gave up on is not carried out late here: see SonySystem.         *)
(***************************************************************************)
EXTENDS ExposureCodec, Sequences

CONSTANTS
  Described,  \* exposure fields that the camera may describe in a dump
  Initial,    \* settings that the camera may start with
  Dials,      \* raw values that a field may be dialled to, for some fields
  Limits,     \* values of the argument max-iterations; 0 for no limit
  MaxTurns    \* bound: dials turned during a run

VARIABLES
  program,          \* "polling" or "driver"
  nMaxIterations,   \* its argument
  g_bRunning,       \* no Ctrl+C so far
  nLoopCount,       \* iterations so far, if there is a limit
  pc,               \* where main() is
  step,             \* next setting to send
  com,              \* COM is initialised
  held,             \* what GetFirstWiaDeviceId() has to give back
  session,          \* the session with the camera
  cache_,           \* cache_.exposure_params of the object
  has_status_,      \* it has been filled
  stLastParams,     \* what GetExposureParams() returned last
  bHaveLastParams,  \* it returned something
  camera,           \* the camera's settings, as raw values
  stale,            \* history: fields never received, or dialled since
  turns             \* history: number of dials turned

commandLine == <<program, nMaxIterations>>
startupVars == <<com, held, session>>
paramVars   == <<cache_, has_status_, stLastParams, bHaveLastParams>>
worldVars   == <<camera, stale, turns>>
vars == <<commandLine, g_bRunning, nLoopCount, pc, step, startupVars,
          paramVars, worldVars, searchVars>>

Settings == <<"shutter_speed", "f_number", "iso", "exposure_comp">>
Fields   == {Settings[i] : i \in 1..Len(Settings)}

Defaults == [shutter_speed |-> Zero, f_number |-> Zero, iso |-> 0, exposure_comp |-> 0]
Params   == [shutter_speed : Ratios, f_number : Ratios, iso : Nat, exposure_comp : Int]
RawSettings == [shutter_speed : RawShutters, f_number : 0..MaxUInt16, iso : Nat,
                exposure_comp : 0..MaxUInt16]

RawValues(f) == CASE f = "shutter_speed" -> RawShutters
                  [] f = "iso"           -> Nat
                  [] OTHER               -> 0..MaxUInt16

ASSUME DemoAssumption ==
  /\ Described \subseteq Fields
  /\ Initial \subseteq RawSettings
  /\ DOMAIN Dials \subseteq Fields
  /\ \A f \in DOMAIN Dials : Dials[f] \subseteq RawValues(f)
  /\ Limits \subseteq Nat /\ MaxTurns \in Nat

(***************************************************************************)
(* What the search for the device acquires, call by call: interfaces, the  *)
(* values of ReadMultiple() and a copy of the id.                          *)
(***************************************************************************)

Yields(c) == CASE c = "CoCreateInstance" -> {"pWiaDevMgr"}
               [] c = "EnumDeviceInfo"   -> {"pEnum"}
               [] c = "Next"             -> {"pProp"}
               [] c = "ReadMultiple"     -> {"propVal"}
               [] c = "SysAllocString"   -> {"bstrDevId"}
               [] c = "CreateDevice"     -> {"pWiaItemRoot"}

Resources ==
  {"pWiaDevMgr", "pEnum", "pProp", "propVal", "bstrDevId", "pWiaItemRoot"}
FindCalls == {"CoCreateInstance", "EnumDeviceInfo", "Next", "ReadMultiple",
              "SysAllocString", "CreateDevice"}

TypeOK ==
  /\ program \in {"polling", "driver"}
  /\ nMaxIterations \in Limits \cup {0} /\ nLoopCount \in 0..nMaxIterations
  /\ g_bRunning \in BOOLEAN
  /\ pc \in FindCalls \cup {"CoInitializeEx", "found", "Connect", "loop", "update",
                           "get", "encode", "set", "Disconnect", "CoUninitialize",
                           "joining", "returned", "terminated"}
  /\ step \in 1..Len(Settings)
  /\ com \in BOOLEAN /\ held \subseteq Resources
  /\ session \in {"none", "open", "closed", "kept"}
  /\ cache_ \in Params /\ stLastParams \in Params
  /\ has_status_ \in BOOLEAN /\ bHaveLastParams \in BOOLEAN
  /\ camera \in RawSettings
  /\ stale \subseteq Fields /\ turns \in 0..MaxTurns
  /\ SearchTypeOK

Init ==
  /\ program \in {"polling", "driver"}
  /\ nMaxIterations \in IF program = "polling" THEN Limits ELSE {0}
  /\ g_bRunning = TRUE
  /\ nLoopCount = 0
  /\ pc = "CoInitializeEx" /\ step = 1
  /\ com = FALSE /\ held = {} /\ session = "none"
  /\ cache_ = Defaults /\ has_status_ = FALSE
  /\ stLastParams = Defaults /\ bHaveLastParams = FALSE
  /\ camera \in Initial
  /\ stale = Fields
  /\ turns = 0
  /\ SearchInit

(***************************************************************************)
(* What the conversions make of a raw value that arrives, and of a value   *)
(* that is sent.  The parser extends every scalar with zeros, the sign of  *)
(* exposure_comp included; of its 32 bits the camera takes the low 16.     *)
(***************************************************************************)

Received(f, raw) ==
  CASE f = "shutter_speed" -> DecodeShutterSpeedReciprocal(raw)
    [] f = "f_number"      -> DecodeFNumber(raw)
    [] OTHER               -> raw

Sent(f, value) ==
  CASE f = "shutter_speed" -> best
    [] f = "f_number"      -> EncodeFNumberRaw(value)
    [] f = "iso"           -> value
    [] f = "exposure_comp" -> value % (MaxUInt16 + 1)

(***************************************************************************)
(* main() up to its loop.  The one-shot demo also tries to open the        *)
(* device; that it lists all devices before is left out.                   *)
(***************************************************************************)

InitializeCom ==
  /\ pc = "CoInitializeEx"
  /\ \/ com' = TRUE /\ pc' = "CoCreateInstance"
     \/ com' = FALSE /\ pc' = "returned"
  /\ UNCHANGED <<commandLine, g_bRunning, nLoopCount, step, held, session, paramVars,
                 worldVars, searchVars>>

(* GetFirstWiaDeviceId(): what each of its branches releases when its call *)
(* failed, which may have set its pointer nevertheless; and branches that  *)
(* release only that pointer.                                              *)
ReleasesOwn(c) == Yields(c)
ReleasedOnFailure(c) ==
  CASE c = "CoCreateInstance" -> {"pWiaDevMgr"}
    [] c = "EnumDeviceInfo"   -> {"pEnum", "pWiaDevMgr"}
    [] c = "Next"             -> {"pProp", "pEnum", "pWiaDevMgr"}
    [] c = "ReadMultiple"     -> {"propVal", "pProp", "pEnum", "pWiaDevMgr"}
    [] c = "SysAllocString"   -> {"pProp", "pEnum", "pWiaDevMgr"}
    [] c = "CreateDevice"     -> {"pWiaItemRoot", "pProp", "pEnum", "pWiaDevMgr"}

\* What it is done with after a call, whether the call failed or not.
Spent(c) == CASE c = "SysAllocString" -> {"propVal"}
              [] c = "CreateDevice"   -> {"bstrDevId"}
              [] OTHER                -> {}

After(c) ==
  CASE c = "CoCreateInstance" -> "EnumDeviceInfo"
    [] c = "EnumDeviceInfo"   -> "Next"
    [] c = "Next"             -> "ReadMultiple"
    [] c = "ReadMultiple"     -> "SysAllocString"
    [] c = "SysAllocString"   -> IF program = "driver" THEN "CreateDevice" ELSE "found"
    [] c = "CreateDevice"     -> "found"

FindGoesOn ==
  /\ pc \in FindCalls
  /\ pc' = After(pc)
  /\ held' = (held \cup Yields(pc)) \ Spent(pc)
  /\ UNCHANGED <<commandLine, g_bRunning, nLoopCount, step, com, session, paramVars,
                 worldVars, searchVars>>

\* main() uninitialises COM and returns: it has no object yet.
FindFails ==
  /\ pc \in FindCalls
  /\ \E got \in SUBSET Yields(pc) :
       /\ pc = "SysAllocString" => got = {}
       /\ held' = (held \cup got) \ (ReleasedOnFailure(pc) \cup Spent(pc))
  /\ com' = FALSE
  /\ pc' = "returned"
  /\ UNCHANGED <<commandLine, g_bRunning, nLoopCount, step, session, paramVars,
                 worldVars, searchVars>>

FindReturns ==
  /\ pc = "found" /\ pc' = "Connect"
  /\ held' = held \ ({"pProp", "pEnum", "pWiaDevMgr"} \cup
                     IF program = "polling" THEN {"bstrDevId"} ELSE {"pWiaItemRoot"})
  /\ UNCHANGED <<commandLine, g_bRunning, nLoopCount, step, com, session, paramVars,
                 worldVars, searchVars>>

(* The transport is set, which a new object accepts, and the session       *)
(* opened.  A Connect() that fails may leave one with the camera and does  *)
(* not close it; what starting the worker throws is not caught.            *)
Connect ==
  /\ pc = "Connect"
  /\ \/ /\ pc' = IF program = "polling" THEN "loop" ELSE "update"
        /\ session' = "open"
     \/ pc' = "CoUninitialize" /\ session' \in {"none", "kept"}
     \/ pc' = "terminated" /\ UNCHANGED session
  /\ UNCHANGED <<commandLine, g_bRunning, nLoopCount, step, com, held, paramVars,
                 worldVars, searchVars>>

(***************************************************************************)
(* The loop.                                                               *)
(***************************************************************************)

(* The break, and one iteration too late; the condition of the loop with   *)
(* it, and a loop that does not look at g_bRunning.                        *)
LimitPassed   == nMaxIterations > 0 /\ nLoopCount > nMaxIterations
LimitReached  == nMaxIterations > 0 /\ nLoopCount >= nMaxIterations
NoSignal      == ~LimitReached
LoopContinues == g_bRunning /\ ~LimitReached

Loop ==
  /\ pc = "loop"
  /\ pc' = IF LoopContinues THEN "update" ELSE "Disconnect"
  /\ UNCHANGED <<commandLine, g_bRunning, nLoopCount, step, startupVars, paramVars,
                 worldVars, searchVars>>

(* UpdateStatus() with a dump that has the fields in got.  Without one of  *)
(* them the dump counts only if the object has status, and changes nothing *)
(* then; exposure_mode, which may arrive without them, sets has_status_.   *)
UpdateStatus(got, mode) ==
  /\ pc = "update" /\ pc' = "get"
  /\ cache_' = [f \in Fields |->
                 IF f \in got THEN Received(f, camera[f]) ELSE cache_[f]]
  /\ has_status_' = (has_status_ \/ got # {} \/ mode)
  /\ stale' = stale \ got
  /\ UNCHANGED <<commandLine, g_bRunning, nLoopCount, step, startupVars, stLastParams,
                 bHaveLastParams, camera, turns, searchVars>>

UpdateStatusFails ==
  /\ pc = "update" /\ pc' = "get"
  /\ UNCHANGED <<commandLine, g_bRunning, nLoopCount, step, startupVars, paramVars,
                 worldVars, searchVars>>

GetExposureParams ==
  /\ pc = "get"
  /\ pc' = IF program = "polling" THEN "encode" ELSE "Disconnect"
  /\ stLastParams' = IF has_status_ THEN cache_ ELSE stLastParams
  /\ bHaveLastParams' = (bHaveLastParams \/ has_status_)
  /\ UNCHANGED <<commandLine, g_bRunning, nLoopCount, step, startupVars, cache_,
                 has_status_, worldVars, searchVars>>

\* A parameter set that was never filled, otherwise.
stSetParams == IF bHaveLastParams THEN stLastParams ELSE Defaults

(* SetExposureParams(): the shutter speed is encoded, then the settings    *)
(* are sent one by one.  The camera obeys or not.                          *)
Encode ==
  /\ pc = "encode"
  /\ \/ denominator = 0 /\ EncodeBegin(stSetParams.shutter_speed) /\ UNCHANGED pc
     \/ Search /\ UNCHANGED pc
     \/ Encoded /\ pc' = "set" /\ UNCHANGED searchVars
  /\ UNCHANGED <<commandLine, g_bRunning, nLoopCount, step, startupVars, paramVars,
                 worldVars>>

SetDevicePropValue(obeyed) ==
  LET f == Settings[step]
  IN  /\ pc = "set"
      /\ camera' = IF obeyed THEN [camera EXCEPT ![f] = Sent(f, stSetParams[f])]
                             ELSE camera
      /\ IF step = Len(Settings)
           THEN /\ pc' = "loop" /\ step' = 1
                /\ nLoopCount' = IF nMaxIterations > 0 THEN nLoopCount + 1 ELSE 0
           ELSE step' = step + 1 /\ UNCHANGED <<pc, nLoopCount>>
      /\ EncodeEnd
      /\ UNCHANGED <<commandLine, g_bRunning, startupVars, paramVars, stale, turns>>

(***************************************************************************)
(* The end of main().                                                      *)
(***************************************************************************)

\* The camera is told to close the session; it may not obey.
Disconnect ==
  /\ pc = "Disconnect" /\ pc' = "CoUninitialize"
  /\ session' \in {"closed", "kept"}
  /\ UNCHANGED <<commandLine, g_bRunning, nLoopCount, step, com, held, paramVars,
                 worldVars, searchVars>>

Uninitialize ==
  /\ pc = "CoUninitialize" /\ pc' = "joining"
  /\ com' = FALSE
  /\ UNCHANGED <<commandLine, g_bRunning, nLoopCount, step, held, session, paramVars,
                 worldVars, searchVars>>

(* The return destroys the object and with it the transport, which waits   *)
(* for its worker without a limit: with a camera that hangs, for ever.     *)
Joined ==
  /\ pc = "joining" /\ pc' = "returned"
  /\ UNCHANGED <<commandLine, g_bRunning, nLoopCount, step, startupVars, paramVars,
                 worldVars, searchVars>>

(***************************************************************************)
(* The user.                                                               *)
(***************************************************************************)

\* Ctrl+C.  The one-shot demo has no handler for it.
OnSignal ==
  /\ program = "polling" /\ g_bRunning /\ pc \notin {"returned", "terminated"}
  /\ g_bRunning' = FALSE
  /\ UNCHANGED <<commandLine, nLoopCount, pc, step, startupVars, paramVars, worldVars,
                 searchVars>>

Turn(f, raw) ==
  /\ turns < MaxTurns /\ turns' = turns + 1
  /\ camera[f] # raw
  /\ camera' = [camera EXCEPT ![f] = raw]
  /\ stale' = stale \cup {f}
  /\ UNCHANGED <<commandLine, g_bRunning, nLoopCount, pc, step, startupVars, paramVars,
                 searchVars>>

\* The process is gone.
Returned == pc \in {"returned", "terminated"} /\ UNCHANGED vars

Main ==
  \/ InitializeCom
  \/ FindGoesOn \/ FindFails \/ FindReturns
  \/ Connect
  \/ Loop
  \/ \E got \in SUBSET Described, mode \in BOOLEAN : UpdateStatus(got, mode)
  \/ UpdateStatusFails
  \/ GetExposureParams
  \/ Encode
  \/ \E obeyed \in BOOLEAN : SetDevicePropValue(obeyed)
  \/ Disconnect \/ Uninitialize

Next ==
  \/ Main \/ Joined \/ OnSignal
  \/ \E f \in DOMAIN Dials : \E raw \in Dials[f] : Turn(f, raw)
  \/ Returned

Spec == Init /\ [][Next]_vars

(* main() goes on: every call that it makes returns.  That the destructors *)
(* after it return is not assumed: no fairness of Joined.                  *)
FairSpec == Spec /\ WF_vars(Main)

(***************************************************************************)
(* Properties.                                                             *)
(***************************************************************************)

\* A shutter speed that the search can return as it is.
Representable(raw) ==
  /\ raw # AllOnes
  /\ \E n \in 1..MaxField, d \in 1..MaxDenominator : n * raw.den = raw.num * d

Writable(f, raw) == f = "shutter_speed" => raw = NoTime \/ Representable(raw)

SameSetting(f, p, q) ==
  \/ p = q
  \/ f = "shutter_speed" /\ p.den # 0 /\ q.den # 0 /\ p.num * q.den = q.num * p.den

(* Reading the settings and writing them back is neutral: SetExposureParams*)
(* changes a setting of the camera only if it was dialled after the last   *)
(* UpdateStatus() that received it, or was never received - for every      *)
(* value that the conversions can write.                                   *)
WriteBackIsNeutral ==
  [][turns' = turns =>
       \A f \in Fields : \/ SameSetting(f, camera[f], camera'[f])
                         \/ f \in stale
                         \/ ~Writable(f, camera[f])]_vars

(* Polling does not hunt: when nobody turns a dial any more, the settings  *)
(* come to rest, whatever arrives and whatever fails.                      *)
SettingsComeToRest == <>[][camera' = camera]_vars

(* Ctrl+C at any point, or the limit, ends main(), and so does the one-shot*)
(* demo end, with a session that it opened told to close.  After it there  *)
(* are at most the destructors, whose return it does not claim.            *)
EndsMain ==
  (~g_bRunning \/ nMaxIterations > 0 \/ program = "driver")
    ~> pc \in {"joining", "returned", "terminated"} /\ session # "open"

(* COM, the interfaces, the values and the string are given back on every  *)
(* way out of main() but that of the exception, and the session is told to *)
(* close.                                                                  *)
ReturnsClean ==
  pc \in {"joining", "returned"} => ~com /\ held = {} /\ session # "open"
===============================================================================
