------------------------ MODULE SonyPTP3DevEnumProofs ------------------------
(***************************************************************************)
(* Proofs about SonyPTP3DevEnum, for any set of devices and of handles and *)
(* any bound on the initialisations of COM.                                *)
(***************************************************************************)
EXTENDS SonyPTP3DevEnum, FiniteSetTheorems, TLAPS

(* An operation on a thread without COM has initialised it itself, once,   *)
(* and uninitialises it on its way out.                                    *)
ComInv ==
  /\ host <= com
  /\ pc = "CoInitializeEx" => com = before /\ com < MaxCom
  /\ bCOMInitHere =>
       /\ pc \notin {"idle", "CoInitializeEx", "SecondPass"}
       /\ com = 1 /\ host = 0
  /\ pc # "idle" /\ before = 0 =>
       IF pc \in {"CoInitializeEx", "SecondPass"} THEN com = 0 ELSE bCOMInitHere

(* What each stage of an operation holds, and which operation it is of.    *)
StageInv ==
  /\ pc \in {"EnumDeviceInfo", "Utf8ToBstr"} => held = {"pWiaMgr"}
  /\ pc = "Next" => held = {"pWiaMgr", "pEnum"}
  /\ pc = "ReadMultiple" => held = {"pWiaMgr", "pEnum", "pProp"}
  /\ pc = "CreateDevice" => held = {"pWiaMgr", "bstrId"}
  /\ pc = "WrapTransport" => held = {"pWiaMgr", "pWiaItem"}
  /\ pc \in {"idle", "CoInitializeEx", "CoCreateInstance", "SecondPass",
             "Connect", "UpdateStatus"} => held = {}
  /\ pc = "ReadMultiple" => stRaw \in Devices
  /\ pc \in {"EnumDeviceInfo", "Next", "ReadMultiple", "SecondPass"}
       => op = "Refresh"
  /\ pc \in {"Utf8ToBstr", "CreateDevice", "WrapTransport", "Connect",
             "UpdateStatus"} => op = "OpenByIndex"
  /\ pc # "idle" /\ op = "OpenByIndex" => sWiaId \in Devices

(* The snapshot is in order even while the second pass fills it: what is   *)
(* left of the first pass are other devices than those already in it.      *)
SnapshotInv ==
  /\ \A k \in DOMAIN m_vecDeviceInfo :
       /\ m_vecDeviceInfo[k].nDeviceIndex = k - 1
       /\ m_vecDeviceInfo[k].wiaId \in Sony
  /\ \A j, k \in DOMAIN m_vecDeviceInfo :
       m_vecDeviceInfo[j].wiaId = m_vecDeviceInfo[k].wiaId => j = k
  /\ op = "Refresh" /\ pc \notin {"idle", "SecondPass"} => m_vecDeviceInfo = <<>>
  /\ op = "Refresh" /\ ret = "false" /\ pc = "idle" => m_vecDeviceInfo = <<>>
  /\ nIdx = IF pc = "SecondPass" THEN Len(m_vecDeviceInfo) ELSE 0

RawInv ==
  /\ pc \notin {"Next", "ReadMultiple", "SecondPass"} => vecRaw = <<>>
  /\ \A j, k \in DOMAIN vecRaw : vecRaw[j] = vecRaw[k] => j = k
  /\ pc \in {"Next", "ReadMultiple"} =>
       \A k \in DOMAIN vecRaw : vecRaw[k] \in seen
  /\ pc = "ReadMultiple" =>
       stRaw \in seen /\ \A k \in DOMAIN vecRaw : vecRaw[k] # stRaw
  /\ pc = "SecondPass" =>
       \A j \in DOMAIN m_vecDeviceInfo, k \in DOMAIN vecRaw :
         m_vecDeviceInfo[j].wiaId # vecRaw[k]

(* A careful caller has no two objects for a camera, and none for the one  *)
(* that is being opened.                                                   *)
HandleInv ==
  /\ HandleHasSession
  /\ \A g, h \in Handles : g # h /\ handle[g] # NoDevice => handle[g] # handle[h]
  /\ pc \notin {"idle", "UpdateStatus"} /\ op = "OpenByIndex" =>
       \A h \in Handles : handle[h] # sWiaId

IInv ==
  /\ TypeOK /\ ComInv /\ StageInv /\ SnapshotInv /\ RawInv
  /\ Careful => HandleInv

-----------------------------------------------------------------------------
(* The initial states satisfy the invariant.                               *)
LEMMA InitIInv == Init => IInv
<1> SUFFICES ASSUME Init PROVE IInv
  OBVIOUS
<1> USE EnumAssumption DEF Init
<1>1. TypeOK
  <2>1. /\ m_vecDeviceInfo \in Seq(Entries) /\ listed \in Seq(Entries)
        /\ vecRaw \in Seq(Devices)
    OBVIOUS
  <2>4. bCOMInitHere \in BOOLEAN
    OBVIOUS
  <2>2. /\ handle \in [Handles -> Devices \cup {NoDevice}]
        /\ session \in [Devices -> Handles \cup {Nobody}]
    OBVIOUS
  <2>3. com \in 0..MaxCom /\ host \in 0..MaxCom /\ before \in 0..MaxCom
    OBVIOUS
  <2> QED
    BY <2>1, <2>2, <2>3, <2>4 DEF TypeOK
<1>2. ComInv /\ StageInv
  BY DEF ComInv, StageInv
<1>3. SnapshotInv /\ RawInv
  BY DEF SnapshotInv, RawInv
<1>4. HandleInv
  BY DEF HandleInv, HandleHasSession
<1> QED
  BY <1>1, <1>2, <1>3, <1>4 DEF IInv

(* Only what was initialised is uninitialised.                             *)
LEMMA Uninitialised ==
  ASSUME IInv, UninitialisesCom
  PROVE  /\ com' \in 0..MaxCom /\ host' \in 0..MaxCom /\ before' \in 0..MaxCom
         /\ apartment' \in {"none", "STA", "MTA"}
         /\ apartment' = "none" <=> com' = 0
BY EnumAssumption DEF IInv, TypeOK, ComInv, UninitialisesCom, CoUninitialize

(* What an operation leaves behind has its type.                           *)
LEMMA Left ==
  ASSUME IInv, NEW v \in {"true", "false", "null", "handle", "exception"},
         Returns(v)
  PROVE  /\ pc' = "idle" /\ op' \in {"Refresh", "OpenByIndex"}
         /\ sWiaId' \in Devices \cup {NoDevice}
         /\ stRaw' \in Devices \cup {NoDevice} /\ bCOMInitHere' \in BOOLEAN
         /\ vecRaw' \in Seq(Devices) /\ nIdx' \in Nat /\ seen' \subseteq Devices
         /\ ret' \in {"none", "true", "false", "null", "handle", "exception"}
<1> USE DEF Returns
<1>1. bCOMInitHere' \in BOOLEAN
  OBVIOUS
<1>2. vecRaw' \in Seq(Devices)
  OBVIOUS
<1> QED
  BY <1>1, <1>2 DEF IInv, TypeOK

(* A call that fails leaves nothing behind if its list has its own pointer *)
(* and everything held before.                                             *)
LEMMA Failed ==
  ASSUME NEW ref, NEW refs, Fails(ref, refs), ref \in refs, held \subseteq refs
  PROVE  held' = {}
BY DEF Fails

(* The index of an entry is a place in the snapshot.                       *)
LEMMA EntryAt ==
  ASSUME IInv, NEW i \in -1..Cardinality(Devices), InRange(i)
  PROVE  /\ i \in Int /\ i + 1 \in DOMAIN m_vecDeviceInfo
         /\ m_vecDeviceInfo[i + 1].wiaId \in Devices
<1>1. i \in Int
  BY EnumAssumption, FS_CardinalityType
<1>2. i + 1 \in DOMAIN m_vecDeviceInfo
  BY <1>1 DEF InRange, IInv, TypeOK
<1>3. m_vecDeviceInfo[i + 1] \in Entries
  BY <1>2 DEF IInv, TypeOK
<1> QED
  BY <1>1, <1>2, <1>3 DEF Entries

(* Every step keeps the invariant.                                         *)
LEMMA StepIInv == IInv /\ [Next]_vars => IInv'
<1> SUFFICES ASSUME IInv, [Next]_vars PROVE IInv'
  OBVIOUS
<1> USE EnumAssumption DEF operation, thread, world
<1>1. ASSUME CoInitializeEx PROVE IInv'
  <2>1. TypeOK'
    <3>1. CASE Returns(Failure) /\ UNCHANGED <<held, thread>>
      BY <1>1, <3>1, Left DEF CoInitializeEx, Failure, IInv, TypeOK
    <3>2. CASE InitialisesCom /\ GoesOnTo("CoCreateInstance")
                 /\ UNCHANGED <<held, vecRaw, seen>>
      <4>1. /\ com' \in 0..MaxCom /\ host' \in 0..MaxCom /\ before' \in 0..MaxCom
            /\ apartment' \in {"none", "STA", "MTA"}
            /\ apartment' = "none" <=> com' = 0
        BY <1>1, <3>2 DEF CoInitializeEx, InitialisesCom, IInv, TypeOK, ComInv
      <4>2. bCOMInitHere' \in BOOLEAN
        BY <3>2 DEF InitialisesCom
      <4> QED
        BY <1>1, <3>2, <4>1, <4>2 DEF CoInitializeEx, GoesOnTo, IInv, TypeOK
    <3> QED
      BY <1>1, <3>1, <3>2 DEF CoInitializeEx
  <2>2. ComInv' /\ StageInv'
    <3>1. CASE Returns(Failure)
      BY <1>1, <3>1
      DEF CoInitializeEx, Returns, GoesOnTo, IInv, ComInv, StageInv
    <3>2. CASE InitialisesCom /\ GoesOnTo("CoCreateInstance")
      <4>1. bCOMInitHere' <=> apartment = "none"
        BY <3>2 DEF InitialisesCom
      <4>2. ComInv'
        BY <1>1, <3>2, <4>1
        DEF CoInitializeEx, InitialisesCom, GoesOnTo, IInv, TypeOK, ComInv
      <4>3. StageInv'
        BY <1>1, <3>2 DEF CoInitializeEx, GoesOnTo, IInv, StageInv
      <4> QED
        BY <4>2, <4>3
    <3> QED
      BY <1>1, <3>1, <3>2 DEF CoInitializeEx
  <2>3. SnapshotInv' /\ RawInv'
    BY <1>1 DEF CoInitializeEx, GoesOnTo, Returns, IInv, SnapshotInv, RawInv
  <2>4. (Careful => HandleInv)'
    BY <1>1
    DEF CoInitializeEx, GoesOnTo, Returns, IInv, HandleInv, HandleHasSession
  <2> QED
    BY <2>1, <2>2, <2>3, <2>4 DEF IInv
<1>2. ASSUME CoCreateInstance PROVE IInv'
  <2>1. TypeOK'
    BY <1>2, Left, Uninitialised
    DEF CoCreateInstance, Failure, Gets, Fails, GoesOnTo, IInv, TypeOK
  <2>2. ComInv' /\ StageInv'
    <3>1. ComInv'
      BY <1>2
      DEF CoCreateInstance, GoesOnTo, Returns, CoUninitialize,
          UninitialisesCom, IInv, ComInv
    <3>2. StageInv'
      BY <1>2
      DEF CoCreateInstance, Gets, Fails, GoesOnTo, Returns, IInv, TypeOK, StageInv
    <3> QED
      BY <3>1, <3>2
  <2>3. SnapshotInv' /\ RawInv'
    BY <1>2 DEF CoCreateInstance, GoesOnTo, Returns, IInv, SnapshotInv, RawInv
  <2>4. (Careful => HandleInv)'
    BY <1>2
    DEF CoCreateInstance, GoesOnTo, Returns, IInv, HandleInv, HandleHasSession
  <2> QED
    BY <2>1, <2>2, <2>3, <2>4 DEF IInv
<1>3. ASSUME Refresh PROVE IInv'
  <2>1. TypeOK'
    BY <1>3 DEF Refresh, Starts, IInv, TypeOK
  <2>2. ComInv' /\ StageInv'
    BY <1>3 DEF Refresh, Starts, IInv, ComInv, StageInv
  <2>3. SnapshotInv' /\ RawInv'
    BY <1>3 DEF Refresh, Starts, IInv, SnapshotInv, RawInv
  <2>4. (Careful => HandleInv)'
    BY <1>3 DEF Refresh, Starts, IInv, HandleInv, HandleHasSession
  <2> QED
    BY <2>1, <2>2, <2>3, <2>4 DEF IInv
<1>4. ASSUME EnumDeviceInfo PROVE IInv'
  <2>1. TypeOK'
    BY <1>4, Left, Uninitialised
    DEF EnumDeviceInfo, Failure, Gets, Fails, GoesOnTo, IInv, TypeOK
  <2>2. ComInv'
    BY <1>4
    DEF EnumDeviceInfo, GoesOnTo, Returns, CoUninitialize, UninitialisesCom,
        IInv, ComInv
  <2>5. StageInv'
    BY <1>4, Failed DEF EnumDeviceInfo, Gets, GoesOnTo, Returns, IInv, StageInv
  <2>3. SnapshotInv' /\ RawInv'
    BY <1>4 DEF EnumDeviceInfo, GoesOnTo, Returns, IInv, SnapshotInv, RawInv
  <2>4. (Careful => HandleInv)'
    BY <1>4
    DEF EnumDeviceInfo, GoesOnTo, Returns, IInv, HandleInv, HandleHasSession
  <2> QED
    BY <2>1, <2>2, <2>3, <2>4, <2>5 DEF IInv
<1>5. ASSUME NextEnds PROVE IInv'
  <2>1. TypeOK'
    <3>1. bCOMInitHere' \in BOOLEAN
      BY <1>5 DEF NextEnds
    <3> QED
      BY <1>5, <3>1, Uninitialised DEF NextEnds, Fails, GoesOnTo, IInv, TypeOK
  <2>2. ComInv'
    BY <1>5
    DEF NextEnds, GoesOnTo, CoUninitialize, UninitialisesCom, IInv, ComInv
  <2>5. StageInv'
    BY <1>5, Failed DEF NextEnds, GoesOnTo, IInv, StageInv
  <2>3. SnapshotInv' /\ RawInv'
    BY <1>5 DEF NextEnds, GoesOnTo, IInv, StageInv, SnapshotInv, RawInv
  <2>4. (Careful => HandleInv)'
    BY <1>5 DEF NextEnds, GoesOnTo, IInv, HandleInv, HandleHasSession
  <2> QED
    BY <2>1, <2>2, <2>3, <2>4, <2>5 DEF IInv
<1>6. ASSUME SecondPass PROVE IInv'
  <2>1. TypeOK'
    <3>1. vecRaw' \in Seq(Devices) /\ nIdx' \in Nat
      BY <1>6 DEF SecondPass, NumbersKept, IInv, TypeOK
    <3>2. Head(vecRaw) \in Devices
      BY <1>6 DEF SecondPass, IInv, TypeOK
    <3>3. [nDeviceIndex |-> nIdx, wiaId |-> Head(vecRaw)] \in Entries
      BY <3>2 DEF Entries, IInv, TypeOK
    <3>4. m_vecDeviceInfo' \in Seq(Entries)
      BY <1>6, <3>3 DEF SecondPass, IInv, TypeOK
    <3> QED
      BY <1>6, <3>1, <3>4 DEF SecondPass, IInv, TypeOK
  <2>2. ComInv' /\ StageInv'
    BY <1>6 DEF SecondPass, IInv, ComInv, StageInv
  <2>3. SnapshotInv' /\ RawInv'
    <3> DEFINE d == Head(vecRaw)
    <3>1. /\ vecRaw # <<>> /\ d = vecRaw[1] /\ d \in Devices
          /\ Len(vecRaw') = Len(vecRaw) - 1
          /\ \A k \in 1..Len(vecRaw') : vecRaw'[k] = vecRaw[k + 1]
          /\ DOMAIN vecRaw' = 1..Len(vecRaw') /\ DOMAIN vecRaw = 1..Len(vecRaw)
          /\ Len(vecRaw) \in Nat
      BY <1>6 DEF SecondPass, IInv, TypeOK
    <3>2. \A k \in DOMAIN vecRaw' : vecRaw'[k] # d
      BY <3>1 DEF IInv, RawInv
    <3>3. \A j, k \in DOMAIN vecRaw' : vecRaw'[j] = vecRaw'[k] => j = k
      <4>1. \A j, k \in DOMAIN vecRaw : vecRaw[j] = vecRaw[k] => j = k
        BY DEF IInv, RawInv
      <4> QED
        BY <3>1, <4>1
    <3>4. \A j \in DOMAIN m_vecDeviceInfo : m_vecDeviceInfo[j].wiaId # d
      BY <1>6, <3>1 DEF SecondPass, IInv, RawInv
    <3>5. \A j \in DOMAIN m_vecDeviceInfo, k \in DOMAIN vecRaw' :
             m_vecDeviceInfo[j].wiaId # vecRaw'[k]
      BY <1>6, <3>1 DEF SecondPass, IInv, RawInv
    <3>6. CASE ContainsSonyToken(d)
      <4>1. /\ m_vecDeviceInfo' = Append(m_vecDeviceInfo,
                                         [nDeviceIndex |-> nIdx, wiaId |-> d])
            /\ nIdx' = nIdx + 1 /\ nIdx = Len(m_vecDeviceInfo) /\ d \in Sony
        BY <1>6, <3>6
        DEF SecondPass, NumbersKept, ContainsSonyToken, IInv, SnapshotInv
      <4>2. /\ Len(m_vecDeviceInfo') = Len(m_vecDeviceInfo) + 1
            /\ \A k \in 1..Len(m_vecDeviceInfo) : m_vecDeviceInfo'[k] = m_vecDeviceInfo[k]
            /\ m_vecDeviceInfo'[Len(m_vecDeviceInfo) + 1].nDeviceIndex
                 = Len(m_vecDeviceInfo)
            /\ m_vecDeviceInfo'[Len(m_vecDeviceInfo) + 1].wiaId = d
        BY <4>1 DEF IInv, TypeOK
      <4>3. m_vecDeviceInfo' \in Seq(Entries) /\ m_vecDeviceInfo \in Seq(Entries)
        BY <2>1 DEF IInv, TypeOK
      <4>4. SnapshotInv'
        BY <1>6, <3>4, <4>1, <4>2, <4>3 DEF SecondPass, IInv, SnapshotInv
      <4> QED
        BY <1>6, <3>2, <3>3, <3>5, <4>2, <4>3, <4>4 DEF SecondPass, IInv, RawInv
    <3>7. CASE ~ContainsSonyToken(d)
      BY <1>6, <3>3, <3>5, <3>7
      DEF SecondPass, NumbersKept, IInv, SnapshotInv, RawInv
    <3> QED
      BY <3>6, <3>7
  <2>4. (Careful => HandleInv)'
    BY <1>6 DEF SecondPass, IInv, HandleInv, HandleHasSession
  <2> QED
    BY <2>1, <2>2, <2>3, <2>4 DEF IInv
<1>7. ASSUME SecondPassEnds PROVE IInv'
  <2>1. TypeOK'
    BY <1>7, Left DEF SecondPassEnds, IInv, TypeOK
  <2>2. ComInv' /\ StageInv'
    BY <1>7 DEF SecondPassEnds, Returns, IInv, ComInv, StageInv
  <2>3. SnapshotInv' /\ RawInv'
    BY <1>7 DEF SecondPassEnds, Returns, IInv, SnapshotInv, RawInv
  <2>4. (Careful => HandleInv)'
    BY <1>7 DEF SecondPassEnds, Returns, IInv, HandleInv, HandleHasSession
  <2> QED
    BY <2>1, <2>2, <2>3, <2>4 DEF IInv
<1>8. ASSUME ListDevices PROVE IInv'
  <2>1. TypeOK'
    BY <1>8 DEF ListDevices, IInv, TypeOK
  <2>2. ComInv' /\ StageInv'
    BY <1>8 DEF ListDevices, IInv, ComInv, StageInv
  <2>3. SnapshotInv' /\ RawInv'
    BY <1>8 DEF ListDevices, IInv, SnapshotInv, RawInv
  <2>4. (Careful => HandleInv)'
    BY <1>8 DEF ListDevices, IInv, HandleInv, HandleHasSession
  <2> QED
    BY <2>1, <2>2, <2>3, <2>4 DEF IInv
<1>9. ASSUME NEW d \in Devices, NextDevice(d) PROVE IInv'
  <2>1. TypeOK'
    BY <1>9 DEF NextDevice, Gets, IInv, TypeOK
  <2>2. ComInv' /\ StageInv'
    BY <1>9 DEF NextDevice, Gets, IInv, ComInv, StageInv
  <2>3. SnapshotInv' /\ RawInv'
    BY <1>9 DEF NextDevice, IInv, SnapshotInv, RawInv
  <2>4. (Careful => HandleInv)'
    BY <1>9 DEF NextDevice, IInv, HandleInv, HandleHasSession
  <2> QED
    BY <2>1, <2>2, <2>3, <2>4 DEF IInv
<1>10. ASSUME NEW d \in Devices, Plug(d) PROVE IInv'
  <2>1. TypeOK'
    BY <1>10 DEF Plug, IInv, TypeOK
  <2>2. ComInv' /\ StageInv'
    BY <1>10 DEF Plug, IInv, ComInv, StageInv
  <2>3. SnapshotInv' /\ RawInv'
    BY <1>10 DEF Plug, IInv, SnapshotInv, RawInv
  <2>4. (Careful => HandleInv)'
    BY <1>10 DEF Plug, IInv, HandleInv, HandleHasSession
  <2> QED
    BY <2>1, <2>2, <2>3, <2>4 DEF IInv
<1>11. ASSUME NEW d \in Devices, Unplug(d) PROVE IInv'
  <2>1. TypeOK'
    BY <1>11 DEF Unplug, IInv, TypeOK
  <2>2. ComInv' /\ StageInv'
    BY <1>11 DEF Unplug, IInv, ComInv, StageInv
  <2>3. SnapshotInv' /\ RawInv'
    BY <1>11 DEF Unplug, IInv, SnapshotInv, RawInv
  <2>4. (Careful => HandleInv)'
    BY <1>11 DEF Unplug, IInv, HandleInv, HandleHasSession
  <2> QED
    BY <2>1, <2>2, <2>3, <2>4 DEF IInv
<1>12. ASSUME NEW i \in -1..Cardinality(Devices), OpenByIndex(i) PROVE IInv'
  <2>1. TypeOK'
    <3>1. CASE InRange(i)
      <4>1. sWiaId' \in Devices
        BY <1>12, <3>1, EntryAt DEF OpenByIndex
      <4> QED
        BY <1>12, <3>1, <4>1 DEF OpenByIndex, Starts, IInv, TypeOK
    <3>2. CASE ~InRange(i)
      BY <1>12, <3>2 DEF OpenByIndex, IInv, TypeOK
    <3> QED
      BY <3>1, <3>2
  <2>2. ComInv' /\ StageInv'
    <3>1. CASE InRange(i)
      <4>1. sWiaId' \in Devices
        BY <1>12, <3>1, EntryAt DEF OpenByIndex
      <4> QED
        BY <1>12, <3>1, <4>1 DEF OpenByIndex, Starts, IInv, ComInv, StageInv
    <3>2. CASE ~InRange(i)
      BY <1>12, <3>2 DEF OpenByIndex, IInv, ComInv, StageInv
    <3> QED
      BY <3>1, <3>2
  <2>3. SnapshotInv' /\ RawInv'
    BY <1>12 DEF OpenByIndex, Starts, IInv, SnapshotInv, RawInv
  <2>4. (Careful => HandleInv)'
    <3>1. CASE Careful /\ InRange(i)
      <4>1. PICK k \in DOMAIN m_vecDeviceInfo :
              /\ m_vecDeviceInfo[k].nDeviceIndex = i
              /\ \A h \in Handles : handle[h] # m_vecDeviceInfo[k].wiaId
        BY <1>12, <3>1 DEF OpenByIndex, MayOpen
      <4>2. k = i + 1
        BY <3>1, <4>1, EntryAt DEF IInv, TypeOK, SnapshotInv
      <4> QED
        BY <1>12, <3>1, <4>1, <4>2
        DEF OpenByIndex, IInv, HandleInv, HandleHasSession
    <3>2. CASE ~InRange(i)
      BY <1>12, <3>2 DEF OpenByIndex, IInv, HandleInv, HandleHasSession
    <3> QED
      BY <3>1, <3>2
  <2> QED
    BY <2>1, <2>2, <2>3, <2>4 DEF IInv
<1>13. ASSUME CreateDevice PROVE IInv'
  <2>1. TypeOK'
    BY <1>13, Left, Uninitialised
    DEF CreateDevice, Fails, GoesOnTo, IInv, TypeOK
  <2>2. ComInv'
    BY <1>13
    DEF CreateDevice, GoesOnTo, Returns, CoUninitialize, UninitialisesCom,
        IInv, ComInv
  <2>5. StageInv'
    BY <1>13, Failed DEF CreateDevice, GoesOnTo, Returns, IInv, StageInv
  <2>3. SnapshotInv' /\ RawInv'
    BY <1>13 DEF CreateDevice, GoesOnTo, Returns, IInv, SnapshotInv, RawInv
  <2>4. (Careful => HandleInv)'
    BY <1>13
    DEF CreateDevice, GoesOnTo, Returns, IInv, HandleInv, HandleHasSession
  <2> QED
    BY <2>1, <2>2, <2>3, <2>4, <2>5 DEF IInv
<1>14. ASSUME ConnectFails PROVE IInv'
  <2>1. TypeOK'
    <3>1. session' \in [Devices -> Handles \cup {Nobody}]
      BY <1>14 DEF ConnectFails, IInv, TypeOK
    <3> QED
      BY <1>14, <3>1, Left, Uninitialised DEF ConnectFails, IInv, TypeOK
  <2>2. ComInv' /\ StageInv'
    BY <1>14
    DEF ConnectFails, Returns, CoUninitialize, UninitialisesCom, IInv, ComInv,
        StageInv
  <2>3. SnapshotInv' /\ RawInv'
    BY <1>14 DEF ConnectFails, Returns, IInv, SnapshotInv, RawInv
  <2>4. (Careful => HandleInv)'
    BY <1>14
    DEF ConnectFails, Returns, IInv, TypeOK, StageInv, HandleInv,
        HandleHasSession
  <2> QED
    BY <2>1, <2>2, <2>3, <2>4 DEF IInv
<1>15. ASSUME ConnectThrows PROVE IInv'
  <2>1. TypeOK'
    BY <1>15, Left DEF ConnectThrows, IInv, TypeOK
  <2>2. ComInv' /\ StageInv'
    BY <1>15 DEF ConnectThrows, Returns, IInv, ComInv, StageInv
  <2>3. SnapshotInv' /\ RawInv'
    BY <1>15 DEF ConnectThrows, Returns, IInv, SnapshotInv, RawInv
  <2>4. (Careful => HandleInv)'
    BY <1>15 DEF ConnectThrows, Returns, IInv, HandleInv, HandleHasSession
  <2> QED
    BY <2>1, <2>2, <2>3, <2>4 DEF IInv
<1>16. ASSUME UpdateStatus PROVE IInv'
  <2>1. TypeOK'
    BY <1>16, Left, Uninitialised DEF UpdateStatus, IInv, TypeOK
  <2>2. ComInv' /\ StageInv'
    BY <1>16
    DEF UpdateStatus, Returns, CoUninitialize, UninitialisesCom, IInv, ComInv,
        StageInv
  <2>3. SnapshotInv' /\ RawInv'
    BY <1>16 DEF UpdateStatus, Returns, IInv, SnapshotInv, RawInv
  <2>4. (Careful => HandleInv)'
    BY <1>16 DEF UpdateStatus, Returns, IInv, HandleInv, HandleHasSession
  <2> QED
    BY <2>1, <2>2, <2>3, <2>4 DEF IInv
<1>17. ASSUME NEW h \in Handles, ConnectSucceeds(h) PROVE IInv'
  <2>1. TypeOK'
    BY <1>17 DEF ConnectSucceeds, GoesOnTo, IInv, TypeOK
  <2>2. ComInv' /\ StageInv'
    BY <1>17 DEF ConnectSucceeds, GoesOnTo, IInv, ComInv, StageInv
  <2>3. SnapshotInv' /\ RawInv'
    BY <1>17 DEF ConnectSucceeds, GoesOnTo, IInv, SnapshotInv, RawInv
  <2>4. (Careful => HandleInv)'
    BY <1>17
    DEF ConnectSucceeds, GoesOnTo, IInv, TypeOK, StageInv, HandleInv,
        HandleHasSession
  <2> QED
    BY <2>1, <2>2, <2>3, <2>4 DEF IInv
<1>18. ASSUME NEW h \in Handles, Drop(h) PROVE IInv'
  <2>1. TypeOK'
    BY <1>18 DEF Drop, IInv, TypeOK
  <2>2. ComInv' /\ StageInv'
    BY <1>18 DEF Drop, IInv, ComInv, StageInv
  <2>3. SnapshotInv' /\ RawInv'
    BY <1>18 DEF Drop, IInv, SnapshotInv, RawInv
  <2>4. (Careful => HandleInv)'
    BY <1>18 DEF Drop, IInv, TypeOK, HandleInv, HandleHasSession
  <2> QED
    BY <2>1, <2>2, <2>3, <2>4 DEF IInv
<1>19. ASSUME NEW kind \in {"STA", "MTA"}, HostInitialises(kind) PROVE IInv'
  <2>1. TypeOK'
    <3>1. /\ com' \in 0..MaxCom /\ host' \in 0..MaxCom /\ before' \in 0..MaxCom
          /\ apartment' \in {"none", "STA", "MTA"}
          /\ apartment' = "none" <=> com' = 0
      BY <1>19 DEF HostInitialises, IInv, TypeOK, ComInv
    <3> QED
      BY <1>19, <3>1 DEF HostInitialises, IInv, TypeOK
  <2>2. ComInv' /\ StageInv'
    BY <1>19 DEF HostInitialises, IInv, TypeOK, ComInv, StageInv
  <2>3. SnapshotInv' /\ RawInv'
    BY <1>19 DEF HostInitialises, IInv, SnapshotInv, RawInv
  <2>4. (Careful => HandleInv)'
    BY <1>19 DEF HostInitialises, IInv, HandleInv, HandleHasSession
  <2> QED
    BY <2>1, <2>2, <2>3, <2>4 DEF IInv
<1>20. ASSUME HostUninitialises PROVE IInv'
  <2>1. TypeOK'
    <3>1. /\ com' \in 0..MaxCom /\ host' \in 0..MaxCom /\ before' \in 0..MaxCom
          /\ apartment' \in {"none", "STA", "MTA"}
          /\ apartment' = "none" <=> com' = 0
      BY <1>20 DEF HostUninitialises, CoUninitialize, IInv, TypeOK, ComInv
    <3> QED
      BY <1>20, <3>1 DEF HostUninitialises, IInv, TypeOK
  <2>2. ComInv' /\ StageInv'
    BY <1>20
    DEF HostUninitialises, CoUninitialize, IInv, TypeOK, ComInv, StageInv
  <2>3. SnapshotInv' /\ RawInv'
    BY <1>20 DEF HostUninitialises, IInv, SnapshotInv, RawInv
  <2>4. (Careful => HandleInv)'
    BY <1>20 DEF HostUninitialises, IInv, HandleInv, HandleHasSession
  <2> QED
    BY <2>1, <2>2, <2>3, <2>4 DEF IInv
<1>21. ASSUME ReadMultiple PROVE IInv'
  <2>1. stRaw \in Devices
    BY <1>21 DEF ReadMultiple, IInv, StageInv
  <2>2. PICK id \in {<<>>, <<stRaw>>} : vecRaw' = vecRaw \o id
    BY <1>21 DEF ReadMultiple, ReadWiaDeviceStrings
  <2>3. vecRaw' = vecRaw \/ vecRaw' = Append(vecRaw, stRaw)
    <3>1. CASE id = <<>>
      BY <2>2, <3>1 DEF IInv, TypeOK
    <3>2. CASE id = <<stRaw>>
      BY <2>1, <2>2, <3>2 DEF IInv, TypeOK
    <3> QED
      BY <3>1, <3>2
  <2>4. TypeOK'
    <3>1. vecRaw' \in Seq(Devices)
      <4>1. vecRaw \in Seq(Devices)
        BY DEF IInv, TypeOK
      <4>2. Append(vecRaw, stRaw) \in Seq(Devices)
        BY <2>1, <4>1
      <4> QED
        BY <2>3, <4>1, <4>2
    <3> QED
      BY <1>21, <3>1 DEF ReadMultiple, Release, IInv, TypeOK
  <2>5. ComInv' /\ StageInv'
    BY <1>21 DEF ReadMultiple, Release, IInv, ComInv, StageInv
  <2>6. SnapshotInv'
    BY <1>21 DEF ReadMultiple, IInv, SnapshotInv
  <2>7. RawInv'
    BY <1>21, <2>1, <2>3 DEF ReadMultiple, IInv, TypeOK, RawInv
  <2>8. (Careful => HandleInv)'
    BY <1>21 DEF ReadMultiple, IInv, HandleInv, HandleHasSession
  <2> QED
    BY <2>4, <2>5, <2>6, <2>7, <2>8 DEF IInv
<1>22. ASSUME Utf8ToBstr PROVE IInv'
  <2>1. TypeOK'
    BY <1>22, Left, Uninitialised
    DEF Utf8ToBstr, ConversionFails, Gets, Release, GoesOnTo, IInv, TypeOK
  <2>2. ComInv' /\ StageInv'
    BY <1>22
    DEF Utf8ToBstr, ConversionFails, Gets, Release, GoesOnTo, Returns, CoUninitialize,
        UninitialisesCom, IInv, ComInv, StageInv
  <2>3. SnapshotInv' /\ RawInv'
    BY <1>22 DEF Utf8ToBstr, GoesOnTo, Returns, IInv, SnapshotInv, RawInv
  <2>4. (Careful => HandleInv)'
    BY <1>22
    DEF Utf8ToBstr, GoesOnTo, Returns, IInv, HandleInv, HandleHasSession
  <2> QED
    BY <2>1, <2>2, <2>3, <2>4 DEF IInv
<1>23. ASSUME WrapTransport PROVE IInv'
  <2>1. TypeOK'
    BY <1>23 DEF WrapTransport, Release, GoesOnTo, IInv, TypeOK
  <2>2. ComInv' /\ StageInv'
    BY <1>23
    DEF WrapTransport, GoesOnTo, Release, IInv, ComInv, StageInv
  <2>3. SnapshotInv' /\ RawInv'
    BY <1>23 DEF WrapTransport, GoesOnTo, Returns, IInv, SnapshotInv, RawInv
  <2>4. (Careful => HandleInv)'
    BY <1>23
    DEF WrapTransport, GoesOnTo, Returns, IInv, HandleInv, HandleHasSession
  <2> QED
    BY <2>1, <2>2, <2>3, <2>4 DEF IInv
<1>24. CASE UNCHANGED vars
  BY <1>24
  DEF vars, IInv, TypeOK, ComInv, StageInv, SnapshotInv, RawInv, HandleInv,
      HandleHasSession
<1> QED
  BY <1>1, <1>2, <1>3, <1>4, <1>5, <1>6, <1>7, <1>8, <1>9, <1>10, <1>11, <1>12,
     <1>13, <1>14, <1>15, <1>16, <1>17, <1>18, <1>19, <1>20, <1>21, <1>22, <1>23, <1>24 DEF Next
-----------------------------------------------------------------------------
(* The inductive invariant of the enumerator.                              *)
THEOREM Invariance == Spec => []IInv
<1> QED
  BY InitIInv, StepIInv, PTL DEF Spec

(* Every variable keeps its type: in particular COM is never uninitialised *)
(* more often than it was initialised.                                     *)
THEOREM TypeCorrect == Spec => []TypeOK
<1>1. IInv => TypeOK
  BY DEF IInv
<1> QED
  BY <1>1, Invariance, PTL

(* However the thread's apartment was set up and whichever call into WIA   *)
(* fails, the caller keeps its own initialisations of COM.                 *)
THEOREM ComIsTheHosts == Spec => []HostKeepsCom
<1>1. IInv => HostKeepsCom
  BY DEF IInv, TypeOK, ComInv, HostKeepsCom
<1> QED
  BY <1>1, Invariance, PTL

(* Between two calls, each entry of the snapshot is a Sony camera of its   *)
(* own and carries the index that OpenByIndex() takes for it.              *)
THEOREM SnapshotInOrder == Spec => []SnapshotFitsIndexes
<1>1. IInv => SnapshotFitsIndexes
  BY DEF IInv, SnapshotInv, SnapshotFitsIndexes
<1> QED
  BY <1>1, Invariance, PTL

(* A caller that looks at a fresh list and opens no camera twice has, for  *)
(* every object it keeps, a session of the camera that is still there.     *)
(* (Without this care it has not: run devenum_reopen.)                     *)
THEOREM CarefulHasSession ==
  ASSUME Careful
  PROVE  Spec => []HandleHasSession
<1>1. IInv => HandleHasSession
  BY DEF IInv, HandleInv
<1> QED
  BY <1>1, Invariance, PTL

(* An operation that began without COM still has to uninitialise it.       *)
LEMMA GivenBack ==
  ASSUME IInv, UninitialisesCom, before = 0,
         pc \notin {"idle", "CoInitializeEx", "SecondPass"}
  PROVE  com' = 0
BY DEF IInv, ComInv, UninitialisesCom, CoUninitialize

(* Every way out of Refresh() and OpenByIndex() releases what was acquired *)
(* before it, with its own list, and what the call that failed may have    *)
(* handed out; and on a thread without COM it uninitialises it - unless    *)
(* Connect() threw.                                                        *)
THEOREM WaysOut == Spec => ReturnsClean
<1>1. ASSUME IInv, [Next]_vars, pc # "idle", pc' = "idle"
      PROVE  held' = {} /\ (before = 0 /\ ret' # "exception" => com' = 0)
  <2> USE DEF IInv, StageInv, ComInv, Returns, GoesOnTo, thread
  <2>1. CASE CoInitializeEx
    BY <1>1, <2>1 DEF CoInitializeEx, TypeOK
  <2>2. CASE CoCreateInstance
    BY <1>1, <2>2, GivenBack DEF CoCreateInstance, Fails, TypeOK
  <2>3. CASE EnumDeviceInfo
    BY <1>1, <2>3, GivenBack DEF EnumDeviceInfo, Fails
  <2>4. CASE SecondPassEnds
    BY <1>1, <2>4 DEF SecondPassEnds
  <2>5. CASE Utf8ToBstr
    BY <1>1, <2>5, GivenBack DEF Utf8ToBstr, ConversionFails, Release
  <2>6. CASE CreateDevice
    BY <1>1, <2>6, GivenBack DEF CreateDevice, Fails
  <2>7. CASE ConnectFails \/ UpdateStatus
    BY <1>1, <2>7, GivenBack DEF ConnectFails, UpdateStatus
  <2>8. CASE ConnectThrows
    BY <1>1, <2>8 DEF ConnectThrows
  <2> QED
    BY <1>1, <2>1, <2>2, <2>3, <2>4, <2>5, <2>6, <2>7, <2>8
    DEF Next, Refresh, Starts, NextEnds, SecondPass, ListDevices, NextDevice,
        ReadMultiple, WrapTransport, Plug, Unplug, OpenByIndex, ConnectSucceeds,
        Drop, HostInitialises, HostUninitialises, operation, vars
<1>2. IInv /\ [Next]_vars =>
        [pc # "idle" /\ pc' = "idle" =>
           /\ held' = {}
           /\ before = 0 /\ ret' # "exception" => com' = 0]_vars
  BY <1>1
<1> QED
  BY <1>2, Invariance, PTL DEF Spec, ReturnsClean
=============================================================================
