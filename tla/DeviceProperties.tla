--------------------------- MODULE DeviceProperties ---------------------------
(***************************************************************************)
(* ParseDeviceProperties(): the parser of the property dump that           *)
(* UpdateStatus() gets from the camera, one iteration of its loop per      *)
(* step, and the camera's side of the format.  The dump may arrive cut     *)
(* short at any byte, or the payload may be no dump at all.                *)
(*                                                                         *)
(* Codes, types and values stay in their little-endian bytes; values are   *)
(* zero-extended to the 8 bytes of a uint64_t.                             *)
(***************************************************************************)
EXTENDS Integers, Sequences, SequencesExt

CONSTANTS
  Described,      \* the properties that a camera may describe
  MaxProperties,  \* bound: properties in a dump
  Payloads        \* other payloads that may arrive

VARIABLES
  dataset,  \* the properties the camera described
  payload,  \* the bytes of the dump that arrived
  offset,   \* the parser's cursor: bytes read so far
  i,        \* entries read so far
  out,      \* what the parser has recorded: code to value
  pc        \* "loop" or "done"

vars == <<dataset, payload, offset, i, out, pc>>

Byte == 0..255
Zeros(n) == [k \in 1..n |-> 0]
Extended(bytes) == bytes \o Zeros(8 - Len(bytes))
Zero == Zeros(8)

\* A count in n bytes, and the count that is read from some.  A payload has
\* 32 KB at most: a count of more than two bytes exceeds it anyway.
Count(k, n) == IF n = 1 THEN <<k>> ELSE <<k % 256, k \div 256>> \o Zeros(n - 2)
Number(bytes) ==
  IF \E k \in 3..Len(bytes) : bytes[k] # 0 THEN 65536
  ELSE bytes[1] + (IF Len(bytes) > 1 THEN 256 * bytes[2] ELSE 0)

\* Data types: a scalar of 1, 2, 4 or 8 bytes, signed or not, an array of
\* them, or a string of 16-bit characters.
IsScalar(t) == t[2] = 0 /\ t[1] \in 1..8
IsArray(t)  == t[2] = 64 /\ t[1] \in 1..8
IsString(t) == t[2] = 255 /\ t[1] = 255
KnownType(t) == IsScalar(t) \/ IsArray(t) \/ IsString(t)
Width(t) == IF t[1] <= 2 THEN 1 ELSE IF t[1] <= 4 THEN 2 ELSE IF t[1] <= 6 THEN 4 ELSE 8
Unit(t) == IF IsString(t) THEN 2 ELSE Width(t)

(***************************************************************************)
(* The camera: what it describes and how it is encoded.                    *)
(***************************************************************************)

Elements(values) == FlattenSeq(values)

\* A list of values of n bytes each, and a property with such values.  A
\* string has one byte for its length, everything else two at least.
IsList(s, n) ==
  s \in Seq(Seq(Byte)) /\ Len(s) < 65536 /\ \A k \in DOMAIN s : Len(s[k]) = n
IsValue(t, v) ==
  IF IsScalar(t) THEN v \in Seq(Byte) /\ Len(v) = Width(t)
  ELSE IsList(v, Unit(t)) /\ (IsString(t) => Len(v) < 256)
WellFormed(p) ==
  /\ p.code \in Byte \X Byte /\ p.type \in Byte \X Byte /\ KnownType(p.type)
  /\ IsValue(p.type, p.default) /\ IsValue(p.type, p.current)
  /\ p.form \in {"none", "range", "enum"}
  /\ IsList(p.first, Unit(p.type)) /\ IsList(p.second, Unit(p.type))
  /\ p.form = "range" => Len(p.first) = 3

ASSUME CameraAssumption ==
  /\ \A p \in Described : WellFormed(p)
  /\ MaxProperties \in Nat /\ MaxProperties < 65536
  /\ Payloads \subseteq Seq(Byte)

\* default or current value v of a property of type t
EncodedValue(t, v) ==
  IF IsScalar(t) THEN v
  ELSE Count(Len(v), IF IsArray(t) THEN 4 ELSE 1) \o Elements(v)

EncodedForm(p) ==
  CASE p.form = "none"  -> <<0>>
    [] p.form = "range" -> <<1>> \o Elements(p.first)
    [] p.form = "enum"  -> <<2>> \o Count(Len(p.first), 2) \o Elements(p.first)
                                 \o Count(Len(p.second), 2) \o Elements(p.second)

Encoded(p) ==
  p.code \o p.type \o <<1, 1>> \o EncodedValue(p.type, p.default)
         \o EncodedValue(p.type, p.current) \o EncodedForm(p)

Dump(ds) ==
  Count(Len(ds), 8) \o FlattenSeq([k \in DOMAIN ds |-> Encoded(ds[k])])

Datasets ==
  {ds \in UNION {[1..n -> Described] : n \in 0..MaxProperties} :
     \A j, k \in DOMAIN ds : ds[j].code = ds[k].code => j = k}

(***************************************************************************)
(* The parser.                                                             *)
(***************************************************************************)

can_read(off, n) == off + n <= Len(payload)
Bytes(off, n) == SubSeq(payload, off + 1, off + n)

\* Where the cursor is and what currentValue is after the two values of an
\* entry.  A failed advance() leaves the switch there, but not the loop.
At(off, value) == [off |-> off, currentValue |-> value]

\* Mistake: what is left of a value that was cut is taken for it.
ScalarLeftover(off, w) ==
  IF ~can_read(off, w) THEN At(off, Zero)
  ELSE IF ~can_read(off + w, w)
    THEN At(off + w, Extended(SubSeq(payload, off + w + 1, Len(payload))))
  ELSE At(off + 2 * w, Extended(Bytes(off + w, w)))

ScalarValues(off, w) ==
  IF ~can_read(off, w) THEN At(off, Zero)
  ELSE IF ~can_read(off + w, w) THEN At(off + w, Zero)
  ELSE At(off + 2 * w, Extended(Bytes(off + w, w)))

\* A count of c bytes with that many units after it, twice.  The value that
\* is recorded is the second count, and nothing for strings.
CountedValues(off, c, unit) ==
  LET n == Number(Bytes(off, c))
      mid == off + c + n * unit
      m == Number(Bytes(mid, c))
      value == IF c = 4 THEN Extended(Bytes(mid, c)) ELSE Zero
  IN  IF ~can_read(off, c) THEN At(off, Zero)
      ELSE IF ~can_read(off + c, n * unit) THEN At(off + c, Zero)
      ELSE IF ~can_read(mid, c) THEN At(mid, Zero)
      ELSE IF ~can_read(mid + c, m * unit) THEN At(mid + c, value)
      ELSE At(mid + c + m * unit, value)

\* Mistake: the characters of a string are bytes.
ValuesOfBytes(t, off) ==
  IF IsScalar(t) THEN ScalarValues(off, Width(t))
  ELSE IF IsArray(t) THEN CountedValues(off, 4, Width(t))
  ELSE CountedValues(off, 1, 1)

Values(t, off) ==
  IF IsScalar(t) THEN ScalarValues(off, Width(t))
  ELSE IF IsArray(t) THEN CountedValues(off, 4, Width(t))
  ELSE CountedValues(off, 1, 2)

\* sizeofType, which is 0 for arrays and strings.
sizeofType(t) == IF IsScalar(t) THEN Width(t) ELSE 0

\* Mistake: only the count of a list is checked.
ListEndUnchecked(off, size) ==
  IF can_read(off, 2) THEN off + 2 + Number(Bytes(off, 2)) * size ELSE 0

\* Where a list of num values ends, 0 if it cannot be read.
ListEnd(off, size) ==
  IF can_read(off, 2) /\ can_read(off + 2, Number(Bytes(off, 2)) * size)
    THEN off + 2 + Number(Bytes(off, 2)) * size ELSE 0

\* Mistake: the form's own byte is not passed when there is no form.
FormEndKept(off, size) ==
  IF ~can_read(off, 1) THEN 0
  ELSE CASE Bytes(off, 1) = <<0>> -> off
         [] Bytes(off, 1) = <<1>> ->
              IF can_read(off + 1, 3 * size) THEN off + 1 + 3 * size ELSE 0
         [] OTHER ->
              LET set == ListEnd(off + 1, size)
              IN  IF set = 0 THEN 0 ELSE ListEnd(set, size)

\* Where the form ends, 0 if it cannot be read.
FormEnd(off, size) ==
  IF ~can_read(off, 1) THEN 0
  ELSE CASE Bytes(off, 1) = <<0>> -> off + 1
         [] Bytes(off, 1) = <<1>> ->
              IF can_read(off + 1, 3 * size) THEN off + 1 + 3 * size ELSE 0
         [] OTHER ->
              LET set == ListEnd(off + 1, size)
              IN  IF set = 0 THEN 0 ELSE ListEnd(set, size)

\* The entry at the cursor can be read, up to the end of its form.
EntryType == Bytes(offset + 2, 2)
EntryValues == Values(EntryType, offset + 6)
EntryEnd == FormEnd(EntryValues.off, sizeofType(EntryType))
Readable ==
  /\ Number(Bytes(0, 8)) > i /\ offset < Len(payload)
  /\ can_read(offset, 6)
  /\ KnownType(EntryType)
  /\ EntryEnd > 0

\* What the camera describes arrives, all of it or the beginning, or
\* something else does.
Arrives ==
  \/ /\ dataset \in Datasets
     /\ \E n \in 0..Len(Dump(dataset)) : payload = SubSeq(Dump(dataset), 1, n)
  \/ dataset = <<>> /\ payload \in Payloads

Init ==
  /\ Arrives
  /\ offset = 8 /\ i = 0
  /\ out = <<>>
  /\ pc = IF Len(payload) < 8 THEN "done" ELSE "loop"

ReadEntry ==
  /\ pc = "loop" /\ Readable
  /\ LET code == Bytes(offset, 2) IN
       out' = [c \in DOMAIN out \cup {code} |->
                 IF c = code THEN EntryValues.currentValue ELSE out[c]]
  /\ offset' = EntryEnd /\ i' = i + 1
  /\ UNCHANGED <<dataset, payload, pc>>

StopReading ==
  /\ pc = "loop" /\ ~Readable
  /\ pc' = "done"
  /\ UNCHANGED <<dataset, payload, offset, i, out>>

Next == ReadEntry \/ StopReading

Spec == Init /\ [][Next]_vars

(***************************************************************************)
(* Properties                                                              *)
(***************************************************************************)

\* The cursor of the parser never leaves the payload.
TypeOK ==
  /\ dataset \in Datasets
  /\ payload \in Seq(Byte)
  /\ pc = "loop" => offset \in 8..Len(payload)
  /\ i \in Nat
  /\ pc \in {"loop", "done"}
  /\ \A c \in DOMAIN out : c \in Byte \X Byte /\ out[c] \in [1..8 -> Byte]

\* Whatever the bytes say, each entry takes seven of them at least: the loop
\* ends with the payload, however many entries that announces.
EntriesAdvance == [][i' # i => offset' >= offset + 7]_vars

\* What is to be recorded of property p: its current value, the number of
\* elements of an array, 0 for a string.
Meaning(p) ==
  IF IsScalar(p.type) THEN Extended(p.current)
  ELSE IF IsArray(p.type) THEN Extended(Count(Len(p.current), 4))
  ELSE Zero

Plain(p) == IsScalar(p.type) \/ p.form = "none"

\* A dump that arrives whole is read entry by entry to its end, whatever types
\* and forms it mixes - if no array or string has a range or an enumeration,
\* whose elements the parser takes to have no bytes.
WholeDumpIsRead ==
  pc = "done" /\ payload = Dump(dataset) /\ (\A k \in DOMAIN dataset : Plain(dataset[k])) =>
    /\ offset = Len(payload)
    /\ DOMAIN out = {dataset[k].code : k \in DOMAIN dataset}
    /\ \A k \in DOMAIN dataset : out[dataset[k].code] = Meaning(dataset[k])

\* entries that arrived whole
Arrived(k) == Len(Dump(SubSeq(dataset, 1, k))) <= Len(payload)

\* A dump of scalar properties that is cut short: every property that arrived
\* whole is recorded with its value, and of the others only the one that was
\* cut can be recorded, and then with 0.
CutDumpIsRead ==
  /\ pc = "done" /\ IsPrefix(payload, Dump(dataset))
  /\ \A k \in DOMAIN dataset : IsScalar(dataset[k].type)
  =>
    /\ \A k \in DOMAIN dataset :
         Arrived(k) =>
           /\ dataset[k].code \in DOMAIN out
           /\ out[dataset[k].code] = Meaning(dataset[k])
    /\ \A c \in DOMAIN out : \E k \in DOMAIN dataset :
         /\ dataset[k].code = c
         /\ ~Arrived(k) => (k = 1 \/ Arrived(k - 1)) /\ out[c] = Zero
=============================================================================
