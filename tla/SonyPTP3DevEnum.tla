--------------------------- MODULE SonyPTP3DevEnum ---------------------------
(***************************************************************************)
(* SonyPTP3DevEnum, used by one thread, with what it borrows from that     *)
(* thread: the initialisation of COM and references to WIA interfaces.     *)
(* Devices come and go between any two of its calls into WIA, and each of  *)
(* these may fail.                                                         *)
(*                                                                         *)
(* The objects that OpenByIndex() returns are kept and released by the     *)
(* caller.  Of such an object only the camera it was connected to is       *)
(* modelled, and of a camera whose session it has: see SonyPTP3_Impl and   *)
(* SonySystem for the rest.                                                *)
(***************************************************************************)
EXTENDS Integers, Sequences, FiniteSets

CONSTANTS
  Devices,    \* the WIA devices
  Sony,       \* those with a Sony token in their description or their name
  NoDevice,   \* not a device
  Handles,    \* places where the caller keeps what OpenByIndex() returned
  Nobody,     \* not a handle
  Careful,    \* the caller looks at a fresh list and opens no camera twice
  MaxCom      \* bound: initialisations of COM on the thread

ASSUME EnumAssumption ==
  /\ IsFiniteSet(Devices)
  /\ Sony \subseteq Devices /\ NoDevice \notin Devices
  /\ Nobody \notin Handles
  /\ Careful \in BOOLEAN
  /\ MaxCom \in Nat

VARIABLES
  m_vecDeviceInfo,  \* the snapshot
  pc,               \* the call into WIA or the camera that is next
  op,               \* the operation in progress
  sWiaId,           \* the device that OpenByIndex() opens
  bCOMInitHere,     \* this operation is to uninitialise COM
  held,             \* interface pointers and strings that are not released
  stRaw,            \* the device that the first pass has at hand
  vecRaw,           \* devices of the first pass that the second has not seen
  nIdx,             \* index of the next entry
  seen,             \* devices that IEnumWIA_DEV_INFO has returned
  ret,              \* what the last operation returned
  com,              \* initialisations of COM on the thread
  apartment,        \* its apartment
  host,             \* how many of the initialisations are the caller's own
  before,           \* com when the operation began
  attached,         \* devices that are plugged in
  listed,           \* the caller's last copy of the snapshot
  handle,           \* handle[h]: camera of the object the caller keeps at h
  lost,             \* handles whose camera has been unplugged since
  session           \* session[d]: for which handle camera d has a session

operation == <<pc, op, sWiaId, bCOMInitHere, held, stRaw, vecRaw, nIdx, seen, ret>>
thread    == <<com, apartment, host, before>>
world     == <<attached, handle, lost, session>>
vars      == <<m_vecDeviceInfo, operation, thread, world, listed>>

Entries == [nDeviceIndex : Nat, wiaId : Devices]

TypeOK ==
  /\ m_vecDeviceInfo \in Seq(Entries) /\ listed \in Seq(Entries)
  /\ pc \in {"idle", "CoInitializeEx", "CoCreateInstance", "EnumDeviceInfo",
             "Next", "ReadMultiple", "SecondPass", "Utf8ToBstr",
             "CreateDevice", "WrapTransport", "Connect", "UpdateStatus"}
  /\ op \in {"Refresh", "OpenByIndex"}
  /\ sWiaId \in Devices \cup {NoDevice}
  /\ bCOMInitHere \in BOOLEAN
  /\ held \subseteq {"pWiaMgr", "pEnum", "pProp", "bstrId", "pWiaItem"}
  /\ stRaw \in Devices \cup {NoDevice}
  /\ vecRaw \in Seq(Devices) /\ nIdx \in Nat /\ seen \subseteq Devices
  /\ ret \in {"none", "true", "false", "null", "handle", "exception"}
  /\ com \in 0..MaxCom /\ host \in 0..MaxCom /\ before \in 0..MaxCom
  /\ apartment \in {"none", "STA", "MTA"}
  /\ apartment = "none" <=> com = 0
  /\ attached \subseteq Devices
  /\ handle \in [Handles -> Devices \cup {NoDevice}]
  /\ lost \subseteq Handles
  /\ session \in [Devices -> Handles \cup {Nobody}]

Init ==
  /\ m_vecDeviceInfo = <<>> /\ listed = <<>>
  /\ pc = "idle" /\ op = "Refresh" /\ ret = "none"
  /\ sWiaId = NoDevice /\ bCOMInitHere = FALSE
  /\ held = {} /\ stRaw = NoDevice /\ vecRaw = <<>> /\ nIdx = 0 /\ seen = {}
  /\ com = 0 /\ apartment = "none" /\ host = 0 /\ before = 0
  /\ attached \in SUBSET Devices
  /\ handle = [h \in Handles |-> NoDevice] /\ lost = {}
  /\ session = [d \in Devices |-> Nobody]

(***************************************************************************)
(* Steps that both operations are made of.                                 *)
(***************************************************************************)

GoesOnTo(stage) == pc' = stage /\ UNCHANGED <<op, sWiaId, stRaw, nIdx, ret>>

\* The operation ends: what it has not released by now stays behind.
Returns(value) ==
  /\ pc' = "idle" /\ ret' = value
  /\ sWiaId' = NoDevice /\ stRaw' = NoDevice
  /\ vecRaw' = <<>> /\ nIdx' = 0 /\ seen' = {}
  /\ bCOMInitHere' = FALSE
  /\ UNCHANGED op

Failure == IF op = "Refresh" THEN "false" ELSE "null"

\* A call that hands out ref succeeds, or fails and may have set the pointer
\* all the same; then refs are released.
Gets(ref) == held' = held \cup {ref}
Fails(ref, refs) == \E got \in SUBSET {ref} : held' = (held \cup got) \ refs
Release(refs) == held' = held \ refs

CoUninitialize ==
  /\ com' = com - 1
  /\ apartment' = IF com = 1 THEN "none" ELSE apartment

\* Mistake: every way out uninitialises.
AlwaysUninitialises == CoUninitialize /\ UNCHANGED <<host, before>>

\* if (bCOMInitHere) { CoUninitialize(); }
UninitialisesCom ==
  /\ IF bCOMInitHere THEN CoUninitialize ELSE UNCHANGED <<com, apartment>>
  /\ UNCHANGED <<host, before>>

Starts(name) ==
  /\ pc = "idle" /\ com < MaxCom
  /\ pc' = "CoInitializeEx" /\ op' = name /\ ret' = "none"
  /\ before' = com
  /\ UNCHANGED <<bCOMInitHere, held, stRaw, vecRaw, nIdx, seen>>
  /\ UNCHANGED <<com, apartment, host>>

\* Mistake: RPC_E_CHANGED_MODE taken for an initialisation of its own.
InitialisesComAnyway ==
  /\ bCOMInitHere' = (apartment # "STA")
  /\ com' = IF apartment = "MTA" THEN com ELSE com + 1
  /\ apartment' = IF apartment = "MTA" THEN "MTA" ELSE "STA"
  /\ UNCHANGED <<host, before>>

\* S_OK, S_FALSE (counted as well, but taken for the caller's alone), or
\* RPC_E_CHANGED_MODE.
InitialisesCom ==
  /\ bCOMInitHere' = (apartment = "none")
  /\ com' = IF apartment = "MTA" THEN com ELSE com + 1
  /\ apartment' = IF apartment = "MTA" THEN "MTA" ELSE "STA"
  /\ UNCHANGED <<host, before>>

CoInitializeEx ==
  /\ pc = "CoInitializeEx"
  /\ \/ InitialisesCom /\ GoesOnTo("CoCreateInstance")
        /\ UNCHANGED <<held, vecRaw, seen>>
     \/ Returns(Failure) /\ UNCHANGED <<held, thread>>
  /\ UNCHANGED <<m_vecDeviceInfo, listed, world>>

CoCreateInstance ==
  /\ pc = "CoCreateInstance"
  /\ \/ /\ Gets("pWiaMgr")
        /\ GoesOnTo(IF op = "Refresh" THEN "EnumDeviceInfo" ELSE "Utf8ToBstr")
        /\ UNCHANGED <<bCOMInitHere, vecRaw, seen, thread>>
     \/ Fails("pWiaMgr", {"pWiaMgr"}) /\ UninitialisesCom /\ Returns(Failure)
  /\ UNCHANGED <<m_vecDeviceInfo, listed, world>>

(***************************************************************************)
(* Refresh()                                                               *)
(***************************************************************************)

Refresh ==
  /\ Starts("Refresh")
  /\ m_vecDeviceInfo' = <<>>
  /\ UNCHANGED <<sWiaId, listed, world>>

\* Without an enumerator there are no devices, which is no failure.
EnumDeviceInfo ==
  /\ pc = "EnumDeviceInfo"
  /\ \/ Gets("pEnum") /\ GoesOnTo("Next")
        /\ UNCHANGED <<bCOMInitHere, vecRaw, seen, thread>>
     \/ Fails("pEnum", {"pEnum", "pWiaMgr"}) /\ UninitialisesCom /\ Returns("true")
  /\ UNCHANGED <<m_vecDeviceInfo, listed, world>>

NextDevice(d) ==
  /\ pc = "Next" /\ d \in attached \ seen
  /\ Gets("pProp")
  /\ pc' = "ReadMultiple" /\ stRaw' = d /\ seen' = seen \cup {d}
  /\ UNCHANGED <<op, sWiaId, bCOMInitHere, vecRaw, nIdx, ret>>
  /\ UNCHANGED <<thread, m_vecDeviceInfo, listed, world>>

\* The id of a device, if its properties can be read.
ReadWiaDeviceStrings(d) == {<<>>, <<d>>}

\* A device without an id is dropped.
ReadMultiple ==
  /\ pc = "ReadMultiple"
  /\ Release({"pProp"})
  /\ \E id \in ReadWiaDeviceStrings(stRaw) : vecRaw' = vecRaw \o id
  /\ pc' = "Next" /\ stRaw' = NoDevice
  /\ UNCHANGED <<op, sWiaId, bCOMInitHere, nIdx, seen, ret>>
  /\ UNCHANGED <<thread, m_vecDeviceInfo, listed, world>>

\* In the description or in the name.
ContainsSonyToken(d) == d \in Sony

\* Next() has no more devices, or fails: both end the first pass.
NextEnds ==
  /\ pc = "Next"
  /\ Fails("pProp", {"pProp", "pEnum", "pWiaMgr"}) /\ UninitialisesCom
  /\ bCOMInitHere' = FALSE /\ seen' = {}
  /\ GoesOnTo("SecondPass")
  /\ UNCHANGED <<vecRaw, m_vecDeviceInfo, listed, world>>

\* Mistake: nIdx++ for devices that are skipped as well.
NumbersAllDevices(kept) == nIdx' = nIdx + 1
NumbersKept(kept) == nIdx' = IF kept THEN nIdx + 1 ELSE nIdx

\* One device of the first pass: only a Sony device becomes an entry.
SecondPass ==
  /\ pc = "SecondPass" /\ vecRaw # <<>>
  /\ vecRaw' = Tail(vecRaw)
  /\ LET d == Head(vecRaw)
     IN  /\ m_vecDeviceInfo' =
              IF ContainsSonyToken(d)
                THEN Append(m_vecDeviceInfo, [nDeviceIndex |-> nIdx, wiaId |-> d])
                ELSE m_vecDeviceInfo
         /\ NumbersKept(ContainsSonyToken(d))
  /\ UNCHANGED <<pc, op, sWiaId, bCOMInitHere, held, stRaw, seen, ret>>
  /\ UNCHANGED <<thread, listed, world>>

SecondPassEnds ==
  /\ pc = "SecondPass" /\ vecRaw = <<>>
  /\ Returns("true")
  /\ UNCHANGED <<held, m_vecDeviceInfo, thread, listed, world>>

ListDevices ==
  /\ pc = "idle"
  /\ listed' = m_vecDeviceInfo
  /\ UNCHANGED <<m_vecDeviceInfo, operation, thread, world>>

(***************************************************************************)
(* OpenByIndex()                                                           *)
(***************************************************************************)

InRange(i) == i >= 0 /\ i < Len(m_vecDeviceInfo)

\* What the caller passes: the index of a listed entry, or just a number.
MayOpen(i) ==
  Careful /\ InRange(i) =>
    /\ listed = m_vecDeviceInfo
    /\ \E k \in DOMAIN listed :
         /\ listed[k].nDeviceIndex = i
         /\ \A h \in Handles : handle[h] # listed[k].wiaId

OpenByIndex(i) ==
  /\ MayOpen(i) /\ \E h \in Handles : handle[h] = NoDevice
  /\ IF InRange(i)
       THEN /\ Starts("OpenByIndex")
            /\ sWiaId' = m_vecDeviceInfo[i + 1].wiaId
       ELSE /\ pc = "idle" /\ ret' = "null" /\ op' = "OpenByIndex"
            /\ UNCHANGED <<pc, sWiaId, bCOMInitHere, held, stRaw, vecRaw, nIdx>>
            /\ UNCHANGED <<seen, thread>>
  /\ UNCHANGED <<m_vecDeviceInfo, listed, world>>

\* Mistake: the way out without SafeRelease(pWiaMgr).
KeepsManager    == UNCHANGED held
ConversionFails == Release({"pWiaMgr"})

Utf8ToBstr ==
  /\ pc = "Utf8ToBstr"
  /\ \/ Gets("bstrId") /\ GoesOnTo("CreateDevice")
        /\ UNCHANGED <<bCOMInitHere, vecRaw, seen, thread>>
     \/ ConversionFails /\ UninitialisesCom /\ Returns("null")
  /\ UNCHANGED <<m_vecDeviceInfo, listed, world>>

\* The early probe for the device.  The string is freed in any case.
CreateDevice ==
  /\ pc = "CreateDevice"
  /\ \/ /\ sWiaId \in attached /\ GoesOnTo("WrapTransport")
        /\ held' = (held \cup {"pWiaItem"}) \ {"bstrId"}
        /\ UNCHANGED <<bCOMInitHere, vecRaw, seen, thread>>
     \/ /\ Fails("pWiaItem", {"bstrId", "pWiaItem", "pWiaMgr"})
        /\ UninitialisesCom /\ Returns("null")
  /\ UNCHANGED <<m_vecDeviceInfo, listed, world>>

\* The WiaTransport only gets the id.  Nobody else has the new object, which
\* therefore takes the transport.
WrapTransport ==
  /\ pc = "WrapTransport"
  /\ Release({"pWiaItem", "pWiaMgr"})
  /\ GoesOnTo("Connect")
  /\ UNCHANGED <<bCOMInitHere, vecRaw, seen, thread>>
  /\ UNCHANGED <<m_vecDeviceInfo, listed, world>>

\* Mistake: the result of Connect() is not looked at.
ConnectUnchecked(h) ==
  /\ pc = "Connect" /\ handle[h] = NoDevice
  /\ handle' = [handle EXCEPT ![h] = sWiaId]
  /\ session' \in {session, [session EXCEPT ![sWiaId] = h]}
  /\ lost' = lost \ {h}
  /\ GoesOnTo("UpdateStatus")
  /\ UNCHANGED <<bCOMInitHere, held, vecRaw, seen, thread, attached>>
  /\ UNCHANGED <<m_vecDeviceInfo, listed>>

ConnectSucceeds(h) ==
  /\ pc = "Connect" /\ handle[h] = NoDevice /\ sWiaId \in attached
  /\ handle' = [handle EXCEPT ![h] = sWiaId]
  /\ session' = [session EXCEPT ![sWiaId] = h]
  /\ lost' = lost \ {h}
  /\ GoesOnTo("UpdateStatus")
  /\ UNCHANGED <<bCOMInitHere, held, vecRaw, seen, thread, attached>>
  /\ UNCHANGED <<m_vecDeviceInfo, listed>>

\* The object and its transport go.  Connect() may have sent a CloseSession.
ConnectFails ==
  /\ pc = "Connect"
  /\ session' \in {session, [session EXCEPT ![sWiaId] = Nobody]}
  /\ UninitialisesCom /\ Returns("null")
  /\ UNCHANGED <<held, attached, handle, lost, m_vecDeviceInfo, listed>>

\* The transport cannot start its thread: std::system_error passes through
\* OpenByIndex(), past the CoUninitialize().
ConnectThrows ==
  /\ pc = "Connect"
  /\ Returns("exception")
  /\ UNCHANGED <<held, thread, world, m_vecDeviceInfo, listed>>

\* With bAutoUpdateStatus or without: the result is ignored.
UpdateStatus ==
  /\ pc = "UpdateStatus"
  /\ UninitialisesCom /\ Returns("handle")
  /\ UNCHANGED <<held, m_vecDeviceInfo, listed, world>>

(***************************************************************************)
(* The caller and the devices.                                             *)
(***************************************************************************)

HostInitialises(kind) ==
  /\ pc = "idle" /\ com < MaxCom /\ apartment \in {"none", kind}
  /\ com' = com + 1 /\ host' = host + 1 /\ apartment' = kind
  /\ UNCHANGED <<m_vecDeviceInfo, operation, before, world, listed>>

HostUninitialises ==
  /\ pc = "idle" /\ host > 0
  /\ CoUninitialize /\ host' = host - 1
  /\ UNCHANGED <<m_vecDeviceInfo, operation, before, world, listed>>

\* The last reference goes: ~SonyPTP3_Impl() disconnects, and the camera
\* obeys the CloseSession or does not.
Drop(h) ==
  /\ pc = "idle" /\ handle[h] # NoDevice
  /\ session' \in {session, [session EXCEPT ![handle[h]] = Nobody]}
  /\ handle' = [handle EXCEPT ![h] = NoDevice]
  /\ UNCHANGED <<m_vecDeviceInfo, operation, thread, attached, lost, listed>>

Plug(d) ==
  /\ d \notin attached
  /\ attached' = attached \cup {d}
  /\ UNCHANGED <<m_vecDeviceInfo, operation, thread, handle, lost, session, listed>>

Unplug(d) ==
  /\ d \in attached
  /\ attached' = attached \ {d}
  /\ session' = [session EXCEPT ![d] = Nobody]
  /\ lost' = lost \cup {h \in Handles : handle[h] = d}
  /\ UNCHANGED <<m_vecDeviceInfo, operation, thread, handle, listed>>

Next ==
  \/ CoInitializeEx \/ CoCreateInstance
  \/ Refresh \/ EnumDeviceInfo \/ ReadMultiple \/ NextEnds
  \/ SecondPass \/ SecondPassEnds \/ ListDevices
  \/ \E d \in Devices : NextDevice(d) \/ Plug(d) \/ Unplug(d)
  \/ \E i \in -1..Cardinality(Devices) : OpenByIndex(i)
  \/ Utf8ToBstr \/ CreateDevice \/ WrapTransport
  \/ ConnectFails \/ ConnectThrows \/ UpdateStatus
  \/ \E h \in Handles : ConnectSucceeds(h) \/ Drop(h)
  \/ \E kind \in {"STA", "MTA"} : HostInitialises(kind)
  \/ HostUninitialises

Spec == Init /\ [][Next]_vars

(***************************************************************************)
(* Properties                                                              *)
(***************************************************************************)

\* The initialisations of COM that the caller made are the caller's: however
\* its apartment was set up, and whichever call into WIA fails, the enumerator
\* uninitialises only what it initialised itself (bCOMInitHere).
HostKeepsCom ==
  com >= host + (IF pc # "idle" /\ bCOMInitHere THEN 1 ELSE 0)

\* Every way out of Refresh() and OpenByIndex() has given back the interfaces
\* and the string acquired so far, also those that a failed call handed out,
\* and on a thread that had not initialised COM has uninitialised it again -
\* except that an exception from Connect() leaves COM initialised.
ReturnsClean ==
  [][pc # "idle" /\ pc' = "idle" =>
       /\ held' = {}
       /\ before = 0 /\ ret' # "exception" => com' = 0]_vars

\* The snapshot between two calls: an entry's nDeviceIndex is the index that
\* OpenByIndex() takes for it, although devices were left out before it, each
\* entry is a Sony camera of its own, and a Refresh() that failed leaves no
\* entries of an earlier one.
SnapshotFitsIndexes ==
  pc = "idle" =>
    /\ \A k \in DOMAIN m_vecDeviceInfo :
         /\ m_vecDeviceInfo[k].nDeviceIndex = k - 1
         /\ m_vecDeviceInfo[k].wiaId \in Sony
    /\ \A j, k \in DOMAIN m_vecDeviceInfo :
         m_vecDeviceInfo[j].wiaId = m_vecDeviceInfo[k].wiaId => j = k
    /\ op = "Refresh" /\ ret = "false" => m_vecDeviceInfo = <<>>

\* An object that the caller got from OpenByIndex() and still has is what the
\* header calls it, connected: its camera has a session for it, as long as the
\* camera stays plugged in.
HandleHasSession ==
  \A h \in Handles :
    handle[h] # NoDevice /\ h \notin lost => session[handle[h]] = h
=============================================================================
