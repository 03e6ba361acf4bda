-------------------------- MODULE PollingDemoProofs --------------------------
(***************************************************************************)
(* The polling demo: that what it reads and writes back leaves the camera  *)
(* as it was, for every setting, every loss and every failure.             *)
(***************************************************************************)
EXTENDS PollingDemo, ExposureCodecProofs, SequenceTheorems

(* The field f of the camera is the one that the object has in its cache,  *)
(* or the one that its shutter speed was encoded to.                       *)
Agrees(f, v, raw) ==
  \/ v = Received(f, raw)
  \/ f = "shutter_speed" /\ Encodes(v, raw)

(* Of every field that nobody dialled since, the cache knows the camera's  *)
(* setting, and what is sent comes from the cache.                         *)
CacheInv ==
  /\ \A f \in Fields \ stale : has_status_ /\ Agrees(f, cache_[f], camera[f])
  /\ bHaveLastParams => has_status_
  /\ pc \in {"encode", "set"} /\ has_status_ =>
       bHaveLastParams /\ stLastParams = cache_

(* The search that runs, and the one whose result is sent, is for the      *)
(* shutter speed that is to be set.                                        *)
EncodeInv ==
  LET v == stSetParams.shutter_speed
  IN  /\ denominator > 0 => pc = "encode" \/ (pc = "set" /\ step = 1)
      /\ denominator > 0 =>
           secs = IF v.num = 0 THEN Zero ELSE Ratio(v.den, v.num)
      /\ pc = "set" /\ step = 1 => denominator = MaxDenominator + 1

(* What GetFirstWiaDeviceId() has acquired where it is.                    *)
HeldAt(c) ==
  CASE c = "EnumDeviceInfo" -> {"pWiaDevMgr"}
    [] c = "Next"           -> {"pWiaDevMgr", "pEnum"}
    [] c = "ReadMultiple"   -> {"pWiaDevMgr", "pEnum", "pProp"}
    [] c = "SysAllocString" -> {"pWiaDevMgr", "pEnum", "pProp", "propVal"}
    [] c = "CreateDevice"   -> {"pWiaDevMgr", "pEnum", "pProp", "bstrDevId"}
    [] c = "found"          -> {"pWiaDevMgr", "pEnum", "pProp"} \cup
                               IF program = "polling" THEN {"bstrDevId"}
                                                      ELSE {"pWiaItemRoot"}
    [] OTHER                -> {}

(* The search holds what it has acquired so far, a session is open as long *)
(* as main() is to close it, and the loop is entered only below the limit. *)
MainInv ==
  /\ pc # "set" => step = 1
  /\ pc \in FindCalls \cup {"CoInitializeEx", "found", "Connect"} => nLoopCount = 0
  /\ pc = "CreateDevice" => program = "driver"
  /\ pc \in {"update", "get", "encode", "set"} => ~LimitReached
  /\ held = HeldAt(pc)
  /\ session = "open" <=>
       pc \in {"loop", "update", "get", "encode", "set", "Disconnect"}
  /\ pc \in {"joining", "returned"} => ~com

IInv == TypeOK /\ SearchInv /\ CacheInv /\ EncodeInv /\ MainInv

-----------------------------------------------------------------------------
(* The settings, written out.                                              *)
LEMMA FieldsAre ==
  /\ Len(Settings) = 4 /\ Settings[1] = "shutter_speed" /\ Settings[2] = "f_number"
  /\ Settings[3] = "iso" /\ Settings[4] = "exposure_comp"
  /\ Fields = {"shutter_speed", "f_number", "iso", "exposure_comp"}
<1>1. /\ Len(Settings) = 4 /\ Settings[1] = "shutter_speed"
      /\ Settings[2] = "f_number" /\ Settings[3] = "iso"
      /\ Settings[4] = "exposure_comp"
  BY DEF Settings
<1>2. 1..4 = {1, 2, 3, 4}
  OBVIOUS
<1> QED
  BY <1>1, <1>2 DEF Fields

(* Sixteen bits.                                                           *)
LEMMA UInt16 ==
  /\ MaxUInt16 \in Nat
  /\ \A e \in Int : e % (MaxUInt16 + 1) \in 0..MaxUInt16
  /\ \A k \in 0..MaxUInt16 : k % (MaxUInt16 + 1) = k
<1>1. MaxUInt16 \in Nat
  BY DEF MaxUInt16
<1>2. PICK m \in Nat : m = MaxUInt16
  BY <1>1
<1>3. ASSUME NEW e \in Int
      PROVE  e % (m + 1) \in 0..m
  OBVIOUS
<1>4. ASSUME NEW k \in 0..m
      PROVE  k % (m + 1) = k
  OBVIOUS
<1> QED
  BY <1>1, <1>2, <1>3, <1>4

(* What arrives is a physical value.                                       *)
LEMMA ReceivedType ==
  /\ \A raw \in RawShutters : Received("shutter_speed", raw) \in Ratios
  /\ \A raw \in 0..MaxUInt16 : Received("f_number", raw) \in Ratios
  /\ \A raw \in Nat : Received("iso", raw) \in Nat
  /\ \A raw \in 0..MaxUInt16 : Received("exposure_comp", raw) \in Int
<1>1. ASSUME NEW raw \in RawShutters
      PROVE  DecodeShutterSpeedReciprocal(raw) \in Ratios
  BY <1>1, CodecAssumption
  DEF DecodeShutterSpeedReciprocal, DecodeShutterSpeedSeconds, RawShutters,
      Ratios, Ratio, Zero
<1> QED
  BY <1>1, UInt16 DEF Received, DecodeFNumber, Ratio, Ratios

(* What is sent is a raw value.                                            *)
LEMMA SentType ==
  ASSUME NEW value \in Params, best \in RawShutters
  PROVE  /\ Sent("shutter_speed", value.shutter_speed) \in RawShutters
         /\ Sent("f_number", value.f_number) \in 0..MaxUInt16
         /\ Sent("iso", value.iso) \in Nat
         /\ Sent("exposure_comp", value.exposure_comp) \in 0..MaxUInt16
<1>1. llround(value.f_number, 100) \in Nat
  <2>1. PICK n \in Nat, d \in Nat \ {0} : n = value.f_number.num /\ d = value.f_number.den
    BY DEF Params, Ratios
  <2>2. (2 * n * 100 + d) \div (2 * d) \in Nat
    <3>1. 2 * n * 100 + d \in Nat /\ 2 * d \in Nat \ {0}
      BY <2>1
    <3> QED
      BY <3>1, Division
  <2> QED
    BY <2>1, <2>2 DEF llround
<1>2. EncodeFNumberRaw(value.f_number) \in 0..MaxUInt16
  <2>1. PICK k \in Nat : k = llround(value.f_number, 100)
    BY <1>1
  <2>2. EncodeFNumberRaw(value.f_number) = IF k > MaxUInt16 THEN MaxUInt16 ELSE k
    BY <2>1 DEF EncodeFNumberRaw
  <2> QED
    BY <2>1, <2>2, UInt16
<1>3. Sent("exposure_comp", value.exposure_comp) \in 0..MaxUInt16
  <2>1. value.exposure_comp \in Int
    BY DEF Params
  <2> QED
    BY <2>1, UInt16 DEF Sent
<1>4. value.iso \in Nat
  BY DEF Params
<1> QED
  BY <1>2, <1>3, <1>4 DEF Sent

(* What is set is a set of parameters, received or the defaults.           *)
LEMMA SetType == TypeOK => stSetParams \in Params
BY DEF TypeOK, stSetParams, Defaults, Params, Zero, Ratio, Ratios

(* Raw values that come as physical values and are sent back as they came. *)
LEMMA RoundTrip ==
  /\ \A raw \in 0..MaxUInt16 : Sent("f_number", Received("f_number", raw)) = raw
  /\ \A raw : Sent("iso", Received("iso", raw)) = raw
  /\ \A raw \in 0..MaxUInt16 : Sent("exposure_comp", Received("exposure_comp", raw)) = raw
<1>1. ASSUME NEW raw \in 0..MaxUInt16
      PROVE  EncodeFNumberRaw(DecodeFNumber(raw)) = raw
  <2>1. PICK m \in Nat, k \in Nat : m = MaxUInt16 /\ k = raw /\ k <= m
    BY <1>1, UInt16
  <2>2. (2 * k * 100 + 100) \div 200 = k
    BY <2>1
  <2>3. llround(DecodeFNumber(raw), 100) = k
    BY <2>1, <2>2 DEF llround, Ratio, DecodeFNumber
  <2>4. EncodeFNumberRaw(DecodeFNumber(raw)) = IF k > m THEN m ELSE k
    BY <2>1, <2>3 DEF EncodeFNumberRaw
  <2> QED
    BY <2>1, <2>4
<1> QED
  BY <1>1, UInt16 DEF Sent, Received

(* The same of a shutter speed that is a fraction the search can return:   *)
(* it comes back as that fraction, perhaps in other terms.                 *)
LEMMA ShutterRoundTrip ==
  ASSUME SearchInv, denominator = MaxDenominator + 1, NEW raw \in RawShutters,
         NEW v \in Ratios, v = Received("shutter_speed", raw),
         secs = IF v.num = 0 THEN Zero ELSE Ratio(v.den, v.num),
         raw = NoTime \/ Representable(raw)
  PROVE  SameSetting("shutter_speed", raw, best)
<1>1. v = DecodeShutterSpeedReciprocal(raw)
  BY DEF Received
<1>2. CASE raw = NoTime
  <2>1. v = Zero
    BY <1>1, <1>2
    DEF DecodeShutterSpeedReciprocal, DecodeShutterSpeedSeconds, NoTime, Ratio
  <2>2. secs = Zero
    BY <2>1 DEF Zero, Ratio
  <2> QED
    BY <1>2, <2>2, CodecAssumption DEF SearchInv, SameSetting
<1>3. CASE raw # NoTime
  <2>1. PICK n \in 1..MaxField, d \in 1..MaxDenominator :
          raw # AllOnes /\ n * raw.den = raw.num * d
    BY <1>3 DEF Representable
  <2>2. raw.num \in Nat /\ raw.den \in Nat /\ n \in Nat \ {0} /\ d \in Nat \ {0}
    BY <2>1, CodecAssumption DEF RawShutters
  <2>3. raw.num # 0 /\ raw.den # 0
    <3>1. raw.num = 0 <=> raw.den = 0
      BY <2>1, <2>2
    <3>2. raw = [num |-> raw.num, den |-> raw.den]
      BY DEF RawShutters
    <3> QED
      BY <1>3, <3>1, <3>2 DEF NoTime, Ratio
  <2>4. v = Ratio(raw.den, raw.num)
    BY <1>1, <2>1, <2>3
    DEF DecodeShutterSpeedReciprocal, DecodeShutterSpeedSeconds, Zero, Ratio
  <2>5. secs.num = raw.num /\ secs.den = raw.den /\ secs # Zero
    BY <2>3, <2>4 DEF Ratio, Zero
  <2>6. best.num * raw.den = raw.num * best.den
    BY <2>1, <2>5, ExactIsFound
  <2>7. best.den # 0
    BY <2>5, CodecAssumption DEF SearchInv
  <2> QED
    BY <2>2, <2>3, <2>6, <2>7 DEF SameSetting, SearchInv, SearchTypeOK, RawShutters
<1> QED
  BY <1>2, <1>3

(* What SetExposureParams() sends for a field that the cache knows is what *)
(* the cache knows, and what the camera has, if that can be written.       *)
LEMMA SentBack ==
  ASSUME IInv, pc = "set", NEW f \in Fields \ stale, f = Settings[step]
  PROVE  LET sent == Sent(f, stSetParams[f])
         IN  /\ Agrees(f, cache_[f], sent)
             /\ Writable(f, camera[f]) => SameSetting(f, camera[f], sent)
<1>1. stSetParams = cache_ /\ Agrees(f, cache_[f], camera[f])
  BY DEF IInv, CacheInv, stSetParams
<1>2. cache_ \in Params /\ camera \in RawSettings
  BY DEF IInv, TypeOK
<1>3. CASE f = "shutter_speed"
  <2>1. step = 1
    <3>1. step \in 1..4
      BY FieldsAre DEF IInv, TypeOK
    <3>2. step \in {1, 2, 3, 4}
      BY <3>1
    <3> QED
      BY <1>3, <3>2, FieldsAre
  <2>2. PICK v \in Ratios, raw \in RawShutters :
          v = cache_.shutter_speed /\ raw = camera.shutter_speed
    BY <1>2 DEF Params, RawSettings
  <2>3. /\ denominator = MaxDenominator + 1
        /\ secs = IF v.num = 0 THEN Zero ELSE Ratio(v.den, v.num)
    BY <1>1, <2>1, <2>2, CodecAssumption DEF IInv, EncodeInv
  <2>4. Encodes(v, best) /\ Sent(f, stSetParams[f]) = best
    BY <1>3, <2>3, ResultEncodes DEF IInv, Sent
  <2>5. Writable(f, raw) => SameSetting(f, raw, best)
    <3>1. CASE v = Received(f, raw)
      BY <1>3, <2>3, <3>1, ShutterRoundTrip DEF IInv, Writable
    <3>2. CASE Encodes(v, raw)
      <4>1. raw = best
        BY <2>4, <3>2, EncodesUnique
      <4> QED
        BY <4>1 DEF SameSetting
    <3> QED
      BY <1>1, <1>3, <2>2, <3>1, <3>2 DEF Agrees
  <2> QED
    BY <1>3, <2>2, <2>4, <2>5 DEF Agrees
<1>4. CASE f # "shutter_speed"
  <2>1. cache_[f] = Received(f, camera[f])
    BY <1>1, <1>4 DEF Agrees
  <2>2. Sent(f, stSetParams[f]) = camera[f]
    <3>1. CASE f = "f_number"
      BY <1>1, <1>2, <2>1, <3>1, RoundTrip DEF RawSettings
    <3>2. CASE f = "iso"
      BY <1>1, <1>2, <2>1, <3>2, RoundTrip DEF RawSettings
    <3>3. CASE f = "exposure_comp"
      BY <1>1, <1>2, <2>1, <3>3, RoundTrip DEF RawSettings
    <3> QED
      BY <1>4, <3>1, <3>2, <3>3, FieldsAre
  <2> QED
    BY <2>1, <2>2 DEF Agrees, SameSetting
<1> QED
  BY <1>3, <1>4

-----------------------------------------------------------------------------
(* The invariant holds where main() begins.                                *)
LEMMA InitIInv == Init => IInv
<1> SUFFICES ASSUME Init
             PROVE  IInv
  OBVIOUS
<1>1. SearchInv
  BY NoSearch DEF Init, SearchInit
<1>2. program \in {"polling", "driver"} /\ nMaxIterations \in Limits \cup {0}
  BY DEF Init
<1>4. Defaults \in Params
  BY DEF Defaults, Params, Zero, Ratio, Ratios
<1>5. TypeOK
  <2>1. /\ nLoopCount \in 0..nMaxIterations /\ turns \in 0..MaxTurns
        /\ step \in 1..Len(Settings)
    BY <1>2, DemoAssumption, FieldsAre DEF Init
  <2>2. camera \in RawSettings
    BY DemoAssumption DEF Init
  <2>3. g_bRunning \in BOOLEAN /\ com \in BOOLEAN
    BY DEF Init
  <2>4. has_status_ \in BOOLEAN /\ bHaveLastParams \in BOOLEAN
    BY DEF Init
  <2> QED
    BY <1>1, <1>2, <1>4, <2>1, <2>2, <2>3, <2>4 DEF Init, TypeOK, SearchInv
<1>6. CacheInv
  BY DEF Init, CacheInv
<1>7. EncodeInv
  BY DEF Init, SearchInit, EncodeInv
<1>8. MainInv
  BY DEF Init, MainInv, HeldAt, FindCalls
<1> QED
  BY <1>1, <1>5, <1>6, <1>7, <1>8 DEF IInv

(* No step but that of the encoder, and its end, touches the search.       *)
LEMMA SearchKept ==
  ASSUME IInv, [Next]_vars
  PROVE  SearchInv'
<1>1. CASE Encode
  <2>1. CASE EncodeBegin(stSetParams.shutter_speed)
    <3>1. stSetParams.shutter_speed \in Ratios
      BY SetType DEF IInv, Params
    <3> QED
      BY <2>1, <3>1, BeginKeeps
  <2>2. CASE Search
    BY <2>2, SearchKeeps DEF IInv
  <2>3. CASE UNCHANGED searchVars
    BY <2>3, RestKeeps DEF IInv
  <2> QED
    BY <1>1, <2>1, <2>2, <2>3 DEF Encode
<1>2. ASSUME NEW obeyed \in BOOLEAN, SetDevicePropValue(obeyed)
      PROVE  SearchInv'
  BY <1>2, EndKeeps DEF SetDevicePropValue
<1>3. CASE UNCHANGED searchVars
  BY <1>3, RestKeeps DEF IInv
<1> QED
  BY <1>1, <1>2, <1>3
  DEF Next, Main, InitializeCom, FindGoesOn, FindFails, FindReturns, Connect, Loop,
      UpdateStatus, UpdateStatusFails, GetExposureParams, Disconnect, Uninitialize,
      Joined, OnSignal, Turn, Returned, vars

(* Every step keeps the types,                                             *)
LEMMA TypeKept ==
  ASSUME IInv, [Next]_vars
  PROVE  TypeOK'
<1> USE DEF IInv
<1>1. SearchTypeOK'
  BY SearchKept DEF SearchInv
<1>2. program' = program /\ nMaxIterations' = nMaxIterations
  BY DEF Next, Main, InitializeCom, FindGoesOn, FindFails, FindReturns, Connect, Loop,
         UpdateStatus, UpdateStatusFails, GetExposureParams, Encode,
         SetDevicePropValue, Disconnect, Uninitialize, Joined, OnSignal, Turn,
         Returned, vars, commandLine
<1>3. CASE InitializeCom \/ Connect \/ Disconnect \/ Uninitialize \/ Joined
  <2>1. /\ com' \in BOOLEAN /\ session' \in {"none", "open", "closed", "kept"}
        /\ pc' \in {"CoCreateInstance", "returned", "loop", "update", "CoUninitialize",
                    "terminated", "joining"}
    BY <1>3
    DEF InitializeCom, Connect, Disconnect, Uninitialize, Joined, TypeOK, startupVars
  <2>2. /\ held' = held /\ nLoopCount' = nLoopCount /\ g_bRunning' = g_bRunning
        /\ step' = step /\ UNCHANGED paramVars /\ UNCHANGED worldVars
    BY <1>3
    DEF InitializeCom, Connect, Disconnect, Uninitialize, Joined, startupVars
  <2> QED
    BY <1>1, <1>2, <2>1, <2>2 DEF TypeOK, FindCalls, paramVars, worldVars
<1>4. CASE FindGoesOn \/ FindFails \/ FindReturns
  <2>1. held' \subseteq Resources
    <3>1. pc \in FindCalls => Yields(pc) \subseteq Resources
      BY DEF FindCalls, Yields, Resources
    <3> QED
      BY <1>4, <3>1 DEF TypeOK, FindGoesOn, FindFails, FindReturns
  <2>2. pc' \in FindCalls \cup {"found", "returned", "Connect"} /\ com' \in BOOLEAN
    BY <1>4 DEF TypeOK, FindGoesOn, FindFails, FindReturns, After, FindCalls
  <2>3. /\ nLoopCount' = nLoopCount /\ g_bRunning' = g_bRunning /\ session' = session
        /\ step' = step /\ UNCHANGED paramVars /\ UNCHANGED worldVars
    BY <1>4 DEF FindGoesOn, FindFails, FindReturns
  <2> QED
    BY <1>1, <1>2, <2>1, <2>2, <2>3 DEF TypeOK, paramVars, worldVars
<1>5. CASE Loop \/ UpdateStatusFails \/ Encode \/ UNCHANGED vars
  BY <1>1, <1>2, <1>5
  DEF TypeOK, Loop, UpdateStatusFails, Encode, vars, commandLine, startupVars,
      paramVars, worldVars
<1>6. ASSUME NEW got \in SUBSET Described, NEW mode \in BOOLEAN,
             UpdateStatus(got, mode)
      PROVE  TypeOK'
  <2>1. cache_' \in Params
    <3>1. /\ cache_ \in Params /\ camera \in RawSettings
          /\ cache_' = [f \in Fields |-> IF f \in got THEN Received(f, camera[f])
                                                      ELSE cache_[f]]
      BY <1>6 DEF TypeOK, UpdateStatus
    <3> QED
      BY <3>1, FieldsAre, ReceivedType DEF Params, RawSettings
  <2>2. has_status_' \in BOOLEAN
    BY <1>6 DEF TypeOK, UpdateStatus
  <2> QED
    BY <1>1, <1>2, <1>6, <2>1, <2>2
    DEF TypeOK, UpdateStatus, commandLine, startupVars
<1>7. CASE GetExposureParams
  <2>1. bHaveLastParams' \in BOOLEAN
    BY <1>7 DEF TypeOK, GetExposureParams
  <2> QED
    BY <1>1, <1>2, <1>7, <2>1
    DEF TypeOK, GetExposureParams, commandLine, startupVars, worldVars
<1>8. ASSUME NEW obeyed \in BOOLEAN, SetDevicePropValue(obeyed)
      PROVE  TypeOK'
  <2>1. step \in {1, 2, 3, 4}
    BY FieldsAre DEF TypeOK
  <2>2. step' \in 1..Len(Settings)
    <3>1. step' = IF step = 4 THEN 1 ELSE step + 1
      BY <1>8, FieldsAre DEF SetDevicePropValue
    <3> QED
      BY <2>1, <3>1, FieldsAre
  <2>3. nLoopCount' \in 0..nMaxIterations
    <3>1. nMaxIterations \in Nat /\ nLoopCount \in 0..nMaxIterations /\ ~LimitReached
      BY <1>8, DemoAssumption DEF TypeOK, MainInv, SetDevicePropValue
    <3> QED
      BY <1>8, <3>1 DEF SetDevicePropValue, LimitReached
  <2>4. camera' \in RawSettings
    <3>1. camera \in RawSettings /\ stSetParams \in Params /\ best \in RawShutters
      BY SetType DEF TypeOK, SearchTypeOK
    <3>2. CASE camera' = camera
      BY <3>1, <3>2
    <3>3. ASSUME NEW f \in Fields,
                 camera' = [camera EXCEPT ![f] = Sent(f, stSetParams[f])]
          PROVE  camera' \in RawSettings
      BY <3>1, <3>3, FieldsAre, SentType DEF RawSettings
    <3>4. Settings[step] \in Fields
      BY <2>1, FieldsAre
    <3> QED
      BY <1>8, <3>2, <3>3, <3>4 DEF SetDevicePropValue
  <2>5. pc' \in {"set", "loop"}
    BY <1>8 DEF SetDevicePropValue
  <2> QED
    BY <1>1, <1>2, <1>8, <2>2, <2>3, <2>4, <2>5
    DEF TypeOK, SetDevicePropValue, commandLine, startupVars, paramVars
<1>9. CASE OnSignal
  BY <1>1, <1>2, <1>9
  DEF TypeOK, OnSignal, commandLine, startupVars, paramVars, worldVars
<1>10. ASSUME NEW f \in DOMAIN Dials, NEW raw \in Dials[f], Turn(f, raw)
       PROVE  TypeOK'
  <2>1. f \in Fields /\ raw \in RawValues(f)
    BY DemoAssumption
  <2>2. camera' \in RawSettings
    BY <1>10, <2>1, FieldsAre DEF TypeOK, Turn, RawSettings, RawValues
  <2>3. turns' \in 0..MaxTurns
    BY <1>10, DemoAssumption DEF TypeOK, Turn
  <2> QED
    BY <1>1, <1>2, <1>10, <2>1, <2>2, <2>3
    DEF TypeOK, Turn, commandLine, startupVars, paramVars
<1> QED
  BY <1>3, <1>4, <1>5, <1>6, <1>7, <1>8, <1>9, <1>10
  DEF Next, Main, Returned

(* what the cache knows of the camera,                                     *)
LEMMA CacheKept ==
  ASSUME IInv, [Next]_vars
  PROVE  CacheInv'
<1> USE DEF IInv
<1>1. CASE pc' \notin {"encode", "set"} /\ UNCHANGED <<paramVars, worldVars>>
  BY <1>1 DEF CacheInv, paramVars, worldVars, Agrees
<1>2. ASSUME NEW got \in SUBSET Described, NEW mode \in BOOLEAN,
             UpdateStatus(got, mode)
      PROVE  CacheInv'
  <2>1. bHaveLastParams' => has_status_'
    BY <1>2 DEF CacheInv, UpdateStatus
  <2>2. pc' = "get"
    BY <1>2 DEF UpdateStatus
  <2>3. ASSUME NEW f \in Fields, f \notin stale'
        PROVE  has_status_' /\ Agrees(f, cache_'[f], camera'[f])
    <3>1. camera' = camera
      BY <1>2 DEF UpdateStatus
    <3>2. CASE f \in got
      <4>1. has_status_'
        BY <1>2, <3>2 DEF UpdateStatus
      <4>2. cache_'[f] = Received(f, camera[f])
        BY <1>2, <3>2 DEF UpdateStatus
      <4> QED
        BY <3>1, <4>1, <4>2 DEF Agrees
    <3>3. CASE f \notin got
      <4>1. f \notin stale
        BY <1>2, <2>3, <3>3 DEF UpdateStatus
      <4>2. has_status_ /\ Agrees(f, cache_[f], camera[f])
        BY <4>1 DEF CacheInv
      <4>3. has_status_' /\ cache_'[f] = cache_[f]
        BY <1>2, <3>3, <4>2 DEF UpdateStatus
      <4> QED
        BY <3>1, <4>2, <4>3
    <3> QED
      BY <3>2, <3>3
  <2> QED
    BY <2>1, <2>2, <2>3 DEF CacheInv, Agrees
<1>3. CASE GetExposureParams
  <2>1. \A f \in Fields \ stale : has_status_ /\ Agrees(f, cache_[f], camera[f])
    BY DEF CacheInv
  <2>2. /\ cache_' = cache_ /\ camera' = camera /\ stale' = stale
        /\ has_status_' = has_status_
    BY <1>3 DEF GetExposureParams, worldVars
  <2>3. bHaveLastParams' => has_status_'
    BY <1>3 DEF CacheInv, GetExposureParams
  <2>4. has_status_' => bHaveLastParams' /\ stLastParams' = cache_'
    <3>1. ASSUME has_status_
          PROVE  bHaveLastParams'
      BY <1>3, <3>1 DEF GetExposureParams
    <3>2. ASSUME has_status_
          PROVE  stLastParams' = cache_
      BY <1>3, <3>2 DEF GetExposureParams
    <3> QED
      BY <2>2, <3>1, <3>2
  <2> QED
    BY <2>1, <2>2, <2>3, <2>4 DEF CacheInv, Agrees
<1>4. CASE Encode
  <2>1. pc \in {"encode", "set"} /\ UNCHANGED <<paramVars, worldVars>>
    BY <1>4 DEF Encode
  <2> QED
    BY <2>1 DEF CacheInv, paramVars, worldVars, Agrees
<1>5. ASSUME NEW obeyed \in BOOLEAN, SetDevicePropValue(obeyed)
      PROVE  CacheInv'
  <2>1. /\ pc = "set" /\ UNCHANGED paramVars /\ stale' = stale
    BY <1>5 DEF SetDevicePropValue
  <2>2. ASSUME NEW f \in Fields \ stale
        PROVE  has_status_ /\ Agrees(f, cache_[f], camera'[f])
    <3>1. has_status_ /\ Agrees(f, cache_[f], camera[f])
      BY <2>2 DEF CacheInv
    <3>2. CASE camera'[f] = camera[f]
      BY <3>1, <3>2
    <3>3. CASE f = Settings[step] /\ camera'[f] = Sent(f, stSetParams[f])
      BY <2>1, <2>2, <3>1, <3>3, SentBack
    <3>4. camera \in RawSettings
      BY DEF TypeOK
    <3> QED
      BY <1>5, <3>2, <3>3, <3>4, FieldsAre DEF SetDevicePropValue, RawSettings
  <2> QED
    BY <2>1, <2>2 DEF CacheInv, paramVars, Agrees
<1>6. CASE OnSignal \/ UNCHANGED vars
  BY <1>6 DEF OnSignal, vars, CacheInv, paramVars, worldVars, Agrees
<1>7. ASSUME NEW f \in DOMAIN Dials, NEW raw \in Dials[f], Turn(f, raw)
      PROVE  CacheInv'
  <2>1. UNCHANGED paramVars /\ pc' = pc /\ stale' = stale \cup {f}
    BY <1>7 DEF Turn
  <2>2. ASSUME NEW g \in Fields \ stale, g # f
        PROVE  has_status_ /\ Agrees(g, cache_[g], camera'[g])
    <3>1. camera \in RawSettings
      BY DEF TypeOK
    <3>2. camera'[g] = camera[g]
      BY <1>7, <2>2, <3>1, FieldsAre DEF Turn, RawSettings
    <3> QED
      BY <2>2, <3>2 DEF CacheInv
  <2> QED
    BY <2>1, <2>2 DEF CacheInv, paramVars, Agrees
<1>8. CASE \/ InitializeCom \/ FindGoesOn \/ FindFails \/ FindReturns \/ Connect
           \/ Loop \/ UpdateStatusFails \/ Disconnect \/ Uninitialize \/ Joined
  <2>1. pc' \notin {"encode", "set"} /\ UNCHANGED <<paramVars, worldVars>>
    BY <1>8
    DEF InitializeCom, FindGoesOn, After, FindCalls, FindFails, FindReturns, Connect,
        Loop, UpdateStatusFails, Disconnect, Uninitialize, Joined
  <2> QED
    BY <1>1, <2>1
<1> QED
  BY <1>2, <1>3, <1>4, <1>5, <1>6, <1>7, <1>8 DEF Next, Main, Returned

(* what the search is for,                                                 *)
LEMMA EncodeKept ==
  ASSUME IInv, [Next]_vars
  PROVE  EncodeInv'
<1> USE DEF IInv
<1>1. ASSUME UNCHANGED searchVars, UNCHANGED <<stLastParams, bHaveLastParams>>,
             \/ denominator = 0 /\ pc' # "set"
             \/ pc' = pc /\ step' = step
      PROVE  EncodeInv'
  BY <1>1 DEF EncodeInv, searchVars, stSetParams
<1>2. ASSUME pc \notin {"encode", "set"}
      PROVE  denominator = 0
  BY <1>2 DEF EncodeInv, SearchInv, SearchTypeOK
<1>3. CASE \/ InitializeCom \/ FindGoesOn \/ FindFails \/ FindReturns \/ Connect
           \/ Loop \/ UpdateStatusFails \/ Disconnect \/ Uninitialize \/ Joined
  <2>1. /\ pc \notin {"encode", "set"} /\ pc' # "set"
        /\ UNCHANGED <<paramVars, searchVars>>
    BY <1>3
    DEF InitializeCom, FindGoesOn, After, FindCalls, FindFails, FindReturns, Connect,
        Loop, UpdateStatusFails, Disconnect, Uninitialize, Joined
  <2> QED
    BY <1>1, <1>2, <2>1 DEF paramVars
<1>4. ASSUME NEW got \in SUBSET Described, NEW mode \in BOOLEAN,
             UpdateStatus(got, mode)
      PROVE  EncodeInv'
  BY <1>1, <1>2, <1>4 DEF UpdateStatus
<1>5. CASE GetExposureParams
  <2>1. denominator' = 0 /\ pc' # "set"
    BY <1>2, <1>5 DEF GetExposureParams, searchVars
  <2> QED
    BY <2>1 DEF EncodeInv
<1>6. CASE Encode
  <2>1. stSetParams' = stSetParams /\ step' = step /\ pc = "encode"
    BY <1>6 DEF Encode, paramVars, stSetParams
  <2>2. CASE denominator = 0 /\ EncodeBegin(stSetParams.shutter_speed) /\ UNCHANGED pc
    <3>1. secs' = IF stSetParams.shutter_speed.num = 0 THEN Zero
                  ELSE Ratio(stSetParams.shutter_speed.den,
                             stSetParams.shutter_speed.num)
      BY <2>2 DEF EncodeBegin
    <3>2. pc' = "encode"
      BY <2>1, <2>2
    <3> QED
      BY <2>1, <3>1, <3>2 DEF EncodeInv
  <2>3. CASE Search /\ UNCHANGED pc
    <3>1. denominator > 0
      BY <2>3, CodecAssumption DEF Search
    <3> QED
      BY <2>1, <2>3, <3>1 DEF Search, EncodeInv
  <2>4. CASE Encoded /\ pc' = "set" /\ UNCHANGED searchVars
    <3>1. denominator = MaxDenominator + 1 /\ denominator > 0
      BY <2>4, CodecAssumption DEF Encoded, TypeOK, SearchTypeOK
    <3>2. step = 1
      BY <2>1 DEF MainInv
    <3> QED
      BY <2>1, <2>4, <3>1, <3>2 DEF EncodeInv, searchVars
  <2> QED
    BY <1>6, <2>2, <2>3, <2>4 DEF Encode
<1>7. ASSUME NEW obeyed \in BOOLEAN, SetDevicePropValue(obeyed)
      PROVE  EncodeInv'
  <2>1. denominator' = 0
    BY <1>7 DEF SetDevicePropValue, EncodeEnd
  <2>2. ~(pc' = "set" /\ step' = 1)
    <3>1. step \in Nat \ {0}
      BY FieldsAre DEF TypeOK
    <3> QED
      BY <1>7, <3>1 DEF SetDevicePropValue
  <2> QED
    BY <2>1, <2>2 DEF EncodeInv
<1>8. CASE OnSignal \/ UNCHANGED vars
  BY <1>1, <1>8 DEF OnSignal, vars, paramVars
<1>9. ASSUME NEW f \in DOMAIN Dials, NEW raw \in Dials[f], Turn(f, raw)
       PROVE  EncodeInv'
  BY <1>1, <1>9 DEF Turn, paramVars
<1> QED
  BY <1>3, <1>4, <1>5, <1>6, <1>7, <1>8, <1>9 DEF Next, Main, Returned

(* and the rest.                                                           *)
LEMMA MainKept ==
  ASSUME IInv, [Next]_vars
  PROVE  MainInv'
<1> USE DEF IInv
<1>1. program' = program /\ nMaxIterations' = nMaxIterations
  BY DEF Next, Main, InitializeCom, FindGoesOn, FindFails, FindReturns, Connect, Loop,
         UpdateStatus, UpdateStatusFails, GetExposureParams, Encode,
         SetDevicePropValue, Disconnect, Uninitialize, Joined, OnSignal, Turn,
         Returned, vars, commandLine
<1>2. CASE FindGoesOn
  <2>1. held' = HeldAt(pc)'
    BY <1>1, <1>2
    DEF FindGoesOn, FindCalls, MainInv, HeldAt, After, Yields, Spent, TypeOK
  <2>2. /\ pc' \in FindCalls \cup {"found"} /\ pc \notin {"loop", "set", "Disconnect"}
        /\ pc' = "CreateDevice" => program = "driver"
    BY <1>2 DEF FindGoesOn, FindCalls, After
  <2>3. nLoopCount' = 0 /\ step' = 1 /\ session' # "open"
    BY <1>2 DEF FindGoesOn, FindCalls, MainInv
  <2> QED
    BY <1>1, <2>1, <2>2, <2>3 DEF MainInv, FindCalls
<1>3. CASE FindFails
  <2>1. held' = {}
    BY <1>3
    DEF FindFails, FindCalls, MainInv, HeldAt, Yields, Spent, ReleasedOnFailure
  <2> QED
    BY <1>3, <2>1 DEF FindFails, FindCalls, MainInv, HeldAt
<1>4. CASE FindReturns
  <2>1. held' = {}
    BY <1>4 DEF FindReturns, MainInv, HeldAt, TypeOK
  <2> QED
    BY <1>4, <2>1 DEF FindReturns, MainInv, HeldAt, FindCalls
<1>5. CASE InitializeCom
  BY <1>5 DEF InitializeCom, MainInv, HeldAt, FindCalls
<1>6. CASE Connect
  <2>1. ~LimitReached'
    BY <1>1, <1>6, DemoAssumption DEF Connect, MainInv, LimitReached, TypeOK
  <2> QED
    BY <1>6, <2>1 DEF Connect, MainInv, HeldAt, FindCalls
<1>7. CASE Loop
  <2>1. LoopContinues => ~LimitReached'
    BY <1>1, <1>7 DEF Loop, LoopContinues, LimitReached
  <2> QED
    BY <1>1, <1>7, <2>1 DEF Loop, MainInv, startupVars, HeldAt, FindCalls
<1>8. ASSUME NEW got \in SUBSET Described, NEW mode \in BOOLEAN,
             UpdateStatus(got, mode)
      PROVE  MainInv'
  BY <1>1, <1>8 
  DEF UpdateStatus, MainInv, LimitReached, startupVars, HeldAt, FindCalls
<1>9. CASE UpdateStatusFails \/ GetExposureParams
  BY <1>1, <1>9
  DEF UpdateStatusFails, GetExposureParams, MainInv, LimitReached, startupVars,
      HeldAt, FindCalls
<1>10. CASE Encode
  <2>1. /\ pc = "encode" /\ pc' \in {"encode", "set"} /\ step' = step
        /\ UNCHANGED startupVars /\ nLoopCount' = nLoopCount
    BY <1>10 DEF Encode
  <2> QED
    BY <1>1, <2>1 DEF MainInv, LimitReached, startupVars, HeldAt, FindCalls
<1>11. ASSUME NEW obeyed \in BOOLEAN, SetDevicePropValue(obeyed)
      PROVE  MainInv'
  <2>1. pc = "set" /\ UNCHANGED startupVars /\ step \in {1, 2, 3, 4}
    BY <1>11, FieldsAre DEF SetDevicePropValue, TypeOK
  <2>2. CASE step = 4
    <3>1. pc' = "loop" /\ step' = 1
      BY <1>11, <2>2, FieldsAre DEF SetDevicePropValue
    <3> QED
      BY <2>1, <3>1 DEF MainInv, startupVars, HeldAt, FindCalls
  <2>3. CASE step # 4
    <3>1. pc' = "set" /\ step' = step + 1 /\ nLoopCount' = nLoopCount
      BY <1>11, <2>1, <2>3, FieldsAre DEF SetDevicePropValue
    <3> QED
      BY <1>1, <2>1, <3>1
      DEF MainInv, LimitReached, startupVars, HeldAt, FindCalls
  <2> QED
    BY <2>2, <2>3
<1>12. CASE Disconnect \/ Uninitialize \/ Joined
  BY <1>12
  DEF Disconnect, Uninitialize, Joined, MainInv, startupVars, HeldAt, FindCalls
<1>13. CASE OnSignal \/ UNCHANGED vars
  BY <1>1, <1>13
  DEF OnSignal, vars, MainInv, LimitReached, startupVars, HeldAt, commandLine
<1>14. ASSUME NEW f \in DOMAIN Dials, NEW raw \in Dials[f], Turn(f, raw)
       PROVE  MainInv'
  BY <1>1, <1>14 DEF Turn, MainInv, LimitReached, startupVars, HeldAt, commandLine
<1> QED
  BY <1>2, <1>3, <1>4, <1>5, <1>6, <1>7, <1>8, <1>9, <1>10, <1>11, <1>12, <1>13,
     <1>14
  DEF Next, Main, Returned

(* The inductive invariant of the demo: what the cache knows of the        *)
(* camera, and what the search is for.                                     *)
THEOREM Invariance == Spec => []IInv
<1>1. Init => IInv
  BY InitIInv
<1>2. IInv /\ [Next]_vars => IInv'
  BY SearchKept, TypeKept, CacheKept, EncodeKept, MainKept DEF IInv
<1> QED
  BY <1>1, <1>2, PTL DEF Spec

-----------------------------------------------------------------------------
(* Types: the iterations stay within their limit, and every setting that   *)
(* arrives or is sent within its width.                                    *)
THEOREM TypeCorrect == Spec => []TypeOK
<1>1. IInv => TypeOK
  BY DEF IInv
<1> QED
  BY <1>1, Invariance, PTL

(* EncodeShutterSpeedRawFromSeconds() returns a nearest fraction, for      *)
(* every time that has one.                                                *)
THEOREM Nearest == Spec => []NearestFound
<1>1. IInv => NearestFound
  BY NearestIsFound DEF IInv
<1> QED
  BY <1>1, Invariance, PTL

(* On every way out of main() but that of the exception all that the search *)
(* acquired is released, by the list of the branch it leaves by, COM is    *)
(* uninitialised, and a session that was opened is told to close.          *)
THEOREM GivenBack == Spec => []ReturnsClean
<1>1. IInv => ReturnsClean
  BY DEF IInv, MainInv, ReturnsClean, HeldAt
<1> QED
  BY <1>1, Invariance, PTL

(* Reading the settings and writing them back changes no setting that was  *)
(* received and not dialled since, whatever arrives and whatever fails, for *)
(* every setting that the conversions can write.                           *)
THEOREM WrittenBack == Spec => WriteBackIsNeutral
<1>1. ASSUME IInv, [Next]_vars, turns' = turns, NEW f \in Fields \ stale,
             Writable(f, camera[f])
      PROVE  SameSetting(f, camera[f], camera'[f])
  <2>1. CASE camera' = camera
    BY <2>1 DEF SameSetting
  <2>2. ASSUME NEW obeyed \in BOOLEAN, SetDevicePropValue(obeyed)
        PROVE  SameSetting(f, camera[f], camera'[f])
    <3>1. camera \in RawSettings
      BY <1>1 DEF IInv, TypeOK
    <3>2. CASE camera'[f] = camera[f]
      BY <3>2 DEF SameSetting
    <3>3. CASE f = Settings[step] /\ camera'[f] = Sent(f, stSetParams[f])
      <4>1. pc = "set"
        BY <2>2 DEF SetDevicePropValue
      <4> QED
        BY <1>1, <3>3, <4>1, SentBack
    <3> QED
      BY <2>2, <3>1, <3>2, <3>3, FieldsAre DEF SetDevicePropValue, RawSettings
  <2>3. ASSUME NEW g, NEW raw, Turn(g, raw)
        PROVE  FALSE
    <3>1. turns \in Nat
      BY <1>1, DemoAssumption DEF IInv, TypeOK
    <3> QED
      BY <1>1, <2>3, <3>1 DEF Turn
  <2> QED
    BY <1>1, <2>1, <2>2, <2>3
    DEF Next, Main, InitializeCom, FindGoesOn, FindFails, FindReturns, Connect,
        Loop, UpdateStatus, UpdateStatusFails, GetExposureParams, Encode, Disconnect,
        Uninitialize, Joined, OnSignal, Returned, vars, worldVars
<1>2. IInv /\ [Next]_vars =>
        [turns' = turns =>
           \A f \in Fields : \/ SameSetting(f, camera[f], camera'[f])
                             \/ f \in stale
                             \/ ~Writable(f, camera[f])]_vars
  BY <1>1
<1> QED
  BY <1>2, Invariance, PTL DEF Spec, WriteBackIsNeutral
=============================================================================
