------------------------ MODULE DevicePropertiesProofs ------------------------
(***************************************************************************)
(* Proofs about the property parser: what it does with any payload, and    *)
(* what it reads of a dump with any number of properties of any kind, cut  *)
(* at any byte.                                                            *)
(***************************************************************************)
EXTENDS DeviceProperties, SequenceTheorems, WellFoundedInduction, TLAPS

-----------------------------------------------------------------------------
(* Induction, and the concatenation of any number of sequences of bytes.   *)

(* Induction on the natural numbers, with a set for the hypothesis.        *)
LEMMA Induction ==
  ASSUME NEW S, 0 \in S, \A n \in Nat : n \in S => n + 1 \in S
  PROVE  Nat \subseteq S
<1> DEFINE R == {p \in Nat \X Nat : p[1] < p[2]}
<1> SUFFICES ASSUME Nat \ S # {} PROVE FALSE
  OBVIOUS
<1>1. PICK m \in Nat \ S : \A k \in Nat \ S : ~(<<k, m>> \in R)
  <2>1. IsWellFoundedOn(R, Nat)
    BY NatLessThanWellFounded DEF OpToRel
  <2> HIDE DEF R
  <2> QED
    BY <2>1, WFMin
<1>2. m # 0
  OBVIOUS
<1>3. m - 1 \in Nat /\ <<m - 1, m>> \in R
  BY <1>2
<1> QED
  BY <1>1, <1>3

(* How the concatenation of the sequences in s grows. *)
Joined(B, s, f) ==
  /\ f \in [0..Len(s) -> Seq(B)] /\ f[0] = <<>>
  /\ \A n \in 1..Len(s) : f[n] = f[n - 1] \o s[n]

(* There is such a function of any sequence of sequences.                  *)
LEMMA JoinedExists ==
  ASSUME NEW B, NEW s \in Seq(Seq(B))
  PROVE  \E f : Joined(B, s, f)
<1> DEFINE G(f, m) == /\ f \in [0..m -> Seq(B)] /\ f[0] = <<>>
                      /\ \A n \in 1..m : n <= Len(s) => f[n] = f[n - 1] \o s[n]
<1> DEFINE S == {m \in Nat : \E f : G(f, m)}
<1>1. 0 \in S
  <2>1. G([k \in 0..0 |-> <<>>], 0)
    OBVIOUS
  <2> QED
    BY <2>1
<1>2. ASSUME NEW m \in Nat, m \in S PROVE m + 1 \in S
  <2>1. PICK f : G(f, m)
    BY <1>2
  <2> DEFINE g == [k \in 0..(m + 1) |-> IF k <= m THEN f[k] ELSE
                     IF k <= Len(s) THEN f[m] \o s[k] ELSE <<>>]
  <2>2. g \in [0..(m + 1) -> Seq(B)]
    <3>1. ASSUME NEW k \in 0..(m + 1) PROVE g[k] \in Seq(B)
      <4>1. CASE k <= m
        BY <2>1, <4>1
      <4>2. CASE k > m
        <5>1. k = m + 1 /\ f[m] \in Seq(B)
          BY <2>1, <4>2
        <5>2. k <= Len(s) => s[k] \in Seq(B)
          BY <5>1
        <5> QED
          BY <4>2, <5>1, <5>2
      <4> QED
        BY <4>1, <4>2
    <3> QED
      BY <3>1
  <2>3. ASSUME NEW n \in 1..(m + 1), n <= Len(s) PROVE g[n] = g[n - 1] \o s[n]
    <3>1. CASE n <= m
      <4>1. g[n] = f[n] /\ g[n - 1] = f[n - 1] /\ n \in 1..m
        BY <3>1
      <4> HIDE DEF g
      <4> QED
        BY <2>1, <2>3, <4>1
    <3>2. CASE n = m + 1
      <4>1. g[n - 1] = f[m] /\ g[n] = f[m] \o s[n]
        BY <2>3, <3>2
      <4> QED
        BY <4>1
    <3>3. n <= m \/ n = m + 1
      OBVIOUS
    <3> HIDE DEF g
    <3> QED
      BY <3>1, <3>2, <3>3
  <2>4. g[0] = <<>>
    BY <2>1
  <2>5. G(g, m + 1)
    <3> HIDE DEF g
    <3> QED
      BY <2>2, <2>3, <2>4
  <2> QED
    BY <2>5
<1>3. Len(s) \in S
  <2> HIDE DEF S
  <2> QED
    BY <1>1, <1>2, Induction
<1>4. PICK f : G(f, Len(s))
  BY <1>3
<1>5. Joined(B, s, f)
  <2>1. \A n \in 1..Len(s) : n <= Len(s)
    OBVIOUS
  <2> QED
    BY <1>4, <2>1 DEF Joined
<1> QED
  BY <1>5

(* FlattenSeq() is its last value.                                         *)
LEMMA FlattenJoins ==
  ASSUME NEW B, NEW s \in Seq(Seq(B))
  PROVE  \E f : Joined(B, s, f) /\ FlattenSeq(s) = f[Len(s)]
<1>1. PICK f : Joined(B, s, f)
  BY JoinedExists
<1>2. CASE Len(s) = 0
  <2>1. s = <<>>
    BY <1>2
  <2> QED
    BY <1>1, <1>2, <2>1 DEF Joined, FlattenSeq
<1>3. CASE Len(s) # 0
  <2> DEFINE F(g) == g = [m \in 1..Len(s) |-> IF m = 1 THEN s[m] ELSE g[m - 1] \o s[m]]
  <2> DEFINE h == CHOOSE g : F(g)
  <2>1. FlattenSeq(s) = h[Len(s)]
    BY <1>3 DEF FlattenSeq
  <2>2. F([k \in 1..Len(s) |-> f[k]])
    <3>1. ASSUME NEW k \in 1..Len(s)
          PROVE  f[k] = IF k = 1 THEN s[k] ELSE f[k - 1] \o s[k]
      <4>1. f[k] = f[k - 1] \o s[k] /\ f[0] = <<>>
        BY <1>1 DEF Joined
      <4>2. <<>> \o s[k] = s[k]
        BY ConcatEmptySeq
      <4>3. k = 1 => f[k - 1] = f[0]
        OBVIOUS
      <4> QED
        BY <4>1, <4>2, <4>3
    <3>2. \A k \in 1..Len(s) : k # 1 => k - 1 \in 1..Len(s)
      OBVIOUS
    <3> QED
      BY <3>1, <3>2
  <2>3. F(h)
    <3> HIDE DEF F
    <3> QED
      BY <2>2
  <2> DEFINE S == {n \in Nat : n + 1 \in 1..Len(s) => h[n + 1] = f[n + 1]}
  <2>4. 0 \in S
    <3> SUFFICES ASSUME 1 \in 1..Len(s) PROVE h[1] = f[1]
      OBVIOUS
    <3>1. h[1] = s[1]
      <4> HIDE DEF h
      <4> QED
        BY <2>3
    <3>2. f[1] = f[0] \o s[1] /\ f[0] = <<>>
      <4>1. 1 - 1 = 0
        OBVIOUS
      <4> QED
        BY <1>1, <4>1 DEF Joined
    <3>3. <<>> \o s[1] = s[1]
      BY ConcatEmptySeq
    <3> QED
      BY <3>1, <3>2, <3>3
  <2>5. ASSUME NEW n \in Nat, n \in S PROVE n + 1 \in S
    <3> SUFFICES ASSUME n + 2 \in 1..Len(s) PROVE h[n + 2] = f[n + 2]
      OBVIOUS
    <3>1. h[n + 1] = f[n + 1] /\ n + 1 \in 1..Len(s)
      BY <2>5
    <3>2. h[n + 2] = h[n + 1] \o s[n + 2]
      <4>1. n + 2 # 1 /\ (n + 2) - 1 = n + 1
        OBVIOUS
      <4> HIDE DEF h
      <4> QED
        BY <2>3, <4>1
    <3>3. f[n + 2] = f[n + 1] \o s[n + 2]
      <4>1. (n + 2) - 1 = n + 1
        OBVIOUS
      <4> QED
        BY <1>1, <4>1 DEF Joined
    <3> QED
      BY <3>1, <3>2, <3>3
  <2>6. Len(s) - 1 \in S
    <3>1. Len(s) - 1 \in Nat
      BY <1>3
    <3> HIDE DEF S
    <3> QED
      BY <2>4, <2>5, <3>1, Induction
  <2>7. h[Len(s)] = f[Len(s)]
    <3> HIDE DEF h
    <3> QED
      BY <1>3, <2>6
  <2> QED
    BY <1>1, <2>1, <2>7
<1> QED
  BY <1>2, <1>3

(* Two such functions agree where the sequences do.                        *)
LEMMA JoinedAgree ==
  ASSUME NEW B, NEW s, NEW t, NEW f, NEW g, NEW k \in Nat,
         Joined(B, s, f), Joined(B, t, g), Len(s) \in Nat, Len(t) \in Nat,
         k <= Len(s), k <= Len(t), \A n \in 1..k : s[n] = t[n]
  PROVE  f[k] = g[k]
<1> DEFINE S == {n \in Nat : n <= k => f[n] = g[n]}
<1>1. 0 \in S
  BY DEF Joined
<1>2. ASSUME NEW n \in Nat, n \in S PROVE n + 1 \in S
  <2> SUFFICES ASSUME n + 1 <= k PROVE f[n + 1] = g[n + 1]
    OBVIOUS
  <2>1. /\ n + 1 \in 1..k /\ n + 1 \in 1..Len(s) /\ n + 1 \in 1..Len(t)
        /\ (n + 1) - 1 = n /\ n <= k
    OBVIOUS
  <2>2. f[n + 1] = f[n] \o s[n + 1]
    BY <2>1 DEF Joined
  <2>3. g[n + 1] = g[n] \o t[n + 1]
    BY <2>1 DEF Joined
  <2> QED
    BY <1>2, <2>1, <2>2, <2>3
<1> HIDE DEF S
<1>3. k \in S
  BY <1>1, <1>2, Induction
<1> QED
  BY <1>3 DEF S

(* What the concatenation of the first sequences is, and of all.           *)
LEMMA FlattenFacts ==
  ASSUME NEW B, NEW s \in Seq(Seq(B))
  PROVE  /\ FlattenSeq(s) \in Seq(B)
         /\ FlattenSeq(SubSeq(s, 1, Len(s))) = FlattenSeq(s)
         /\ FlattenSeq(SubSeq(s, 1, 0)) = <<>>
         /\ \A n \in 1..Len(s) :
              FlattenSeq(SubSeq(s, 1, n)) = FlattenSeq(SubSeq(s, 1, n - 1)) \o s[n]
<1>1. PICK f : Joined(B, s, f) /\ FlattenSeq(s) = f[Len(s)]
  BY FlattenJoins
<1>2. ASSUME NEW n \in 0..Len(s) PROVE FlattenSeq(SubSeq(s, 1, n)) = f[n]
  <2> DEFINE t == SubSeq(s, 1, n)
  <2>1. t \in Seq(Seq(B)) /\ Len(t) = n /\ \A k \in 1..n : s[k] = t[k]
    BY SubSeqProperties
  <2> HIDE DEF t
  <2>2. PICK g : Joined(B, t, g) /\ FlattenSeq(t) = g[Len(t)]
    BY <2>1, FlattenJoins
  <2>3. f[n] = g[n]
    <3>1. n \in Nat /\ n <= Len(s) /\ n <= Len(t) /\ Len(s) \in Nat /\ Len(t) \in Nat
      BY <2>1
    <3> QED
      <4>1. Joined(B, s, f) /\ Joined(B, t, g) /\ \A k \in 1..n : s[k] = t[k]
        BY <1>1, <2>1, <2>2
      <4> QED
        BY <3>1, <4>1, JoinedAgree
  <2> QED
    BY <2>1, <2>2, <2>3 DEF t
<1>3. f \in [0..Len(s) -> Seq(B)] /\ f[0] = <<>>
  BY <1>1 DEF Joined
<1>4. ASSUME NEW n \in 1..Len(s)
      PROVE  FlattenSeq(SubSeq(s, 1, n)) = FlattenSeq(SubSeq(s, 1, n - 1)) \o s[n]
  <2>1. f[n] = f[n - 1] \o s[n]
    BY <1>1 DEF Joined
  <2>2. n \in 0..Len(s) /\ n - 1 \in 0..Len(s)
    OBVIOUS
  <2> QED
    BY <1>2, <2>1, <2>2
<1> QED
  BY <1>1, <1>2, <1>3, <1>4

(* A list of n values of w bytes has n * w bytes.                          *)
LEMMA ElementsLength ==
  ASSUME NEW w \in Nat, NEW s, IsList(s, w)
  PROVE  Elements(s) \in Seq(Byte) /\ Len(Elements(s)) = Len(s) * w
<1>1. s \in Seq(Seq(Byte)) /\ \A k \in 1..Len(s) : Len(s[k]) = w
  BY DEF IsList
<1>2. PICK f : Joined(Byte, s, f) /\ FlattenSeq(s) = f[Len(s)]
  BY <1>1, FlattenJoins
<1> DEFINE S == {n \in Nat : n <= Len(s) => f[n] \in Seq(Byte) /\ Len(f[n]) = n * w}
<1>3. 0 \in S
  <2>1. f[0] = <<>>
    BY <1>2 DEF Joined
  <2>2. <<>> \in Seq(Byte) /\ Len(<<>>) = 0 /\ 0 * w = 0
    OBVIOUS
  <2> QED
    BY <2>1, <2>2
<1>4. ASSUME NEW n \in Nat, n \in S PROVE n + 1 \in S
  <2> SUFFICES ASSUME n + 1 <= Len(s)
               PROVE  f[n + 1] \in Seq(Byte) /\ Len(f[n + 1]) = (n + 1) * w
    OBVIOUS
  <2>1. n + 1 \in 1..Len(s) /\ (n + 1) - 1 = n /\ (n + 1) * w = n * w + w
    BY <1>1
  <2>2. f[n + 1] = f[n] \o s[n + 1]
    BY <1>2, <2>1 DEF Joined
  <2>3. s[n + 1] \in Seq(Byte) /\ Len(s[n + 1]) = w /\ n * w \in Nat
    BY <1>1, <2>1
  <2>4. f[n] \in Seq(Byte) /\ Len(f[n]) = n * w
    BY <1>4, <2>1
  <2>5. /\ f[n] \o s[n + 1] \in Seq(Byte)
        /\ Len(f[n] \o s[n + 1]) = Len(f[n]) + Len(s[n + 1])
    BY <2>3, <2>4, ConcatProperties
  <2> QED
    BY <2>1, <2>2, <2>3, <2>4, <2>5
<1>5. Len(s) \in S
  <2>1. Len(s) \in Nat
    BY <1>1
  <2> HIDE DEF S
  <2> QED
    BY <2>1, <1>3, <1>4, Induction
<1> QED
  BY <1>2, <1>5, <1>1 DEF Elements

-----------------------------------------------------------------------------
(* What the parser does with any bytes: the cursor stays within.           *)

(* The bytes that are read are there, and of the payload.                  *)
LEMMA BytesAre ==
  ASSUME payload \in Seq(Byte), NEW off \in Nat, NEW n \in Nat, can_read(off, n)
  PROVE  /\ Bytes(off, n) \in Seq(Byte) /\ Len(Bytes(off, n)) = n
         /\ \A j \in 1..n : Bytes(off, n)[j] = payload[off + j]
<1>1. \A j \in (off + 1)..(off + n) : payload[j] \in Byte
  BY DEF can_read
<1>2. \A j \in 1..n : (off + 1) + j - 1 = off + j
  OBVIOUS
<1>3. (off + n) - (off + 1) + 1 = n
  OBVIOUS
<1> QED
  BY <1>1, <1>2, <1>3, SubSeqProperties DEF Bytes

(* The bytes of 0.                                                         *)
LEMMA ZerosType ==
  ASSUME NEW n \in Nat
  PROVE  Zeros(n) \in Seq(Byte) /\ Len(Zeros(n)) = n /\ \A j \in 1..n : Zeros(n)[j] = 0
BY DEF Zeros, Byte

(* A value is recorded in eight bytes.                                     *)
LEMMA ExtendedType ==
  ASSUME NEW b \in Seq(Byte), Len(b) <= 8
  PROVE  Extended(b) \in [1..8 -> Byte]
<1>1. 8 - Len(b) \in Nat
  OBVIOUS
<1>2. Zeros(8 - Len(b)) \in Seq(Byte) /\ Len(Zeros(8 - Len(b))) = 8 - Len(b)
  BY <1>1, ZerosType
<1>3. Extended(b) \in Seq(Byte) /\ Len(Extended(b)) = 8
  BY <1>2, ConcatProperties DEF Extended
<1> QED
  BY <1>3

(* So is the value of a string.                                            *)
LEMMA ZeroType == Zero \in [1..8 -> Byte]
BY DEF Zero, Zeros, Byte

(* Any bytes are a number.                                                 *)
LEMMA NumberType ==
  ASSUME NEW b \in Seq(Byte), Len(b) >= 1
  PROVE  Number(b) \in Nat
<1>1. \A j \in 1..Len(b) : b[j] \in Nat
  <2>1. \A j \in 1..Len(b) : b[j] \in Byte
    BY ElementOfSeq
  <2>2. Byte \subseteq Nat
    BY DEF Byte
  <2> QED
    BY <2>1, <2>2
<1>2. Len(b) \in Nat /\ b[1] \in Nat
  BY <1>1
<1>3. CASE Len(b) > 1
  <2>1. b[2] \in Nat
    BY <1>1, <1>2, <1>3
  <2>2. b[1] + 256 * b[2] \in Nat
    BY <1>2, <2>1
  <2>3. Number(b) = 65536 \/ Number(b) = b[1] + 256 * b[2]
    BY <1>3 DEF Number
  <2> QED
    BY <2>2, <2>3
<1>4. CASE ~(Len(b) > 1)
  <2>1. Number(b) = 65536 \/ Number(b) = b[1] + 0
    BY <1>4 DEF Number
  <2> QED
    BY <1>2, <2>1
<1> QED
  BY <1>3, <1>4

(* A count that is encoded is read again.                                  *)
LEMMA ShortCountIs ==
  ASSUME NEW k \in Nat, k < 256
  PROVE  /\ Count(k, 1) \in Seq(Byte) /\ Len(Count(k, 1)) = 1
         /\ Number(Count(k, 1)) = k
<1>1. Count(k, 1) = <<k>> /\ k \in Byte
  BY DEF Count, Byte
<1>2. <<k>> \in Seq(Byte) /\ Len(<<k>>) = 1 /\ <<k>>[1] = k
  BY <1>1
<1> DEFINE b == <<k>>
<1> HIDE DEF b
<1>3. b \in Seq(Byte) /\ Len(b) = 1 /\ b[1] = k
  BY <1>2 DEF b
<1>4. Number(b) = k
  BY <1>3 DEF Number
<1> QED
  BY <1>1, <1>3, <1>4 DEF b

(* The same of a count in two bytes or more.                               *)
LEMMA CountIs ==
  ASSUME NEW n \in Nat, n >= 2, NEW k \in Nat, k < 65536
  PROVE  /\ Count(k, n) \in Seq(Byte) /\ Len(Count(k, n)) = n
         /\ Number(Count(k, n)) = k
<1> DEFINE low == <<k % 256, k \div 256>>
<1> DEFINE b == low \o Zeros(n - 2)
<1>1. /\ k % 256 \in 0..255 /\ k \div 256 \in 0..255
      /\ k = (k % 256) + 256 * (k \div 256)
  OBVIOUS
<1>2. /\ low \in Seq(Byte) /\ Len(low) = 2
      /\ low[1] = k % 256 /\ low[2] = k \div 256
  BY <1>1 DEF Byte
<1> HIDE DEF low
<1>3. Count(k, n) = b
  BY DEF Count, low
<1>4. n - 2 \in Nat
  OBVIOUS
<1>5. /\ Zeros(n - 2) \in Seq(Byte) /\ Len(Zeros(n - 2)) = n - 2
      /\ \A j \in 1..(n - 2) : Zeros(n - 2)[j] = 0
  BY <1>4, ZerosType
<1>6. /\ b \in Seq(Byte) /\ Len(b) = Len(low) + Len(Zeros(n - 2))
      /\ \A j \in 1..(Len(low) + Len(Zeros(n - 2))) :
           b[j] = IF j <= Len(low) THEN low[j] ELSE Zeros(n - 2)[j - Len(low)]
  <2> DEFINE z == Zeros(n - 2)
  <2>1. low \in Seq(Byte) /\ z \in Seq(Byte)
    BY <1>2, <1>5
  <2> HIDE DEF z
  <2>2. /\ low \o z \in Seq(Byte) /\ Len(low \o z) = Len(low) + Len(z)
        /\ \A j \in 1..(Len(low) + Len(z)) :
             (low \o z)[j] = IF j <= Len(low) THEN low[j] ELSE z[j - Len(low)]
    BY <2>1, ConcatProperties
  <2> QED
    BY <2>2 DEF z
<1> HIDE DEF b
<1>7. Len(b) = n
  BY <1>2, <1>5, <1>6
<1>8. b[1] = low[1] /\ b[2] = low[2]
  BY <1>2, <1>5, <1>6
<1>9. ASSUME NEW j \in 3..Len(b) PROVE b[j] = 0
  <2>1. j - 2 \in 1..(n - 2) /\ j \in 1..(2 + (n - 2)) /\ ~(j <= 2)
    BY <1>7
  <2> QED
    BY <1>2, <1>5, <1>6, <2>1
<1>10. Len(b) > 1
  BY <1>7
<1>11. Number(b) = b[1] + 256 * b[2]
  BY <1>9, <1>10 DEF Number
<1>12. Number(b) = k
  BY <1>1, <1>2, <1>8, <1>11
<1> QED
  BY <1>3, <1>6, <1>7, <1>12

(* A number that is read.                                                  *)
LEMMA ReadNumber ==
  ASSUME payload \in Seq(Byte), NEW off \in Nat, NEW n \in Nat, n >= 1, can_read(off, n)
  PROVE  Number(Bytes(off, n)) \in Nat
<1>1. Bytes(off, n) \in Seq(Byte) /\ Len(Bytes(off, n)) = n
  BY BytesAre
<1>2. Len(Bytes(off, n)) >= 1
  BY <1>1
<1> QED
  BY <1>1, <1>2, NumberType

(* A code or a type is a pair of bytes.                                    *)
LEMMA Pair ==
  ASSUME NEW B, NEW s \in Seq(B), Len(s) = 2
  PROVE  s = <<s[1], s[2]>> /\ s \in B \X B
<1>1. s[1] \in B /\ s[2] \in B
  OBVIOUS
<1>2. <<s[1], s[2]>> \in Seq(B) /\ Len(<<s[1], s[2]>>) = 2
  BY <1>1
<1>3. s = <<s[1], s[2]>>
  BY <1>2, SeqEqual
<1> QED
  BY <1>1, <1>3

(* Wherever the values of an entry are cut, the cursor stays within.       *)
LEMMA ValuesEnd ==
  ASSUME payload \in Seq(Byte), NEW off \in Nat, off <= Len(payload),
         NEW t, t[1] \in Byte, t[2] \in Byte, KnownType(t)
  PROVE  /\ Values(t, off).off \in off..Len(payload)
         /\ Values(t, off).currentValue \in [1..8 -> Byte]
<1> DEFINE w == Width(t)
<1>1. w \in {1, 2, 4, 8}
  BY DEF Width
<1> HIDE DEF w
<1>2. ASSUME NEW o \in Nat, NEW v, o \in off..Len(payload), v \in [1..8 -> Byte]
      PROVE  At(o, v).off \in off..Len(payload) /\ At(o, v).currentValue \in [1..8 -> Byte]
  BY <1>2 DEF At
<1>3. ASSUME NEW o \in Nat, NEW n \in Nat, n <= 8, can_read(o, n)
      PROVE  Extended(Bytes(o, n)) \in [1..8 -> Byte]
  BY <1>3, BytesAre, ExtendedType
<1>4. CASE IsScalar(t)
  <2>1. Values(t, off) = ScalarValues(off, w)
    BY <1>4 DEF Values, w
  <2>2. can_read(off + w, w) => Extended(Bytes(off + w, w)) \in [1..8 -> Byte]
    BY <1>1, <1>3
  <2> QED
    BY <1>1, <1>2, <2>1, <2>2, ZeroType DEF ScalarValues, can_read
<1>5. ASSUME NEW c \in {1, 4}, NEW u \in {1, 2, 4, 8}
      PROVE  /\ CountedValues(off, c, u).off \in off..Len(payload)
             /\ CountedValues(off, c, u).currentValue \in [1..8 -> Byte]
  <2> DEFINE n == Number(Bytes(off, c))
             mid == off + c + n * u
             m == Number(Bytes(mid, c))
             v == IF c = 4 THEN Extended(Bytes(mid, c)) ELSE Zero
  <2>1. can_read(off, c) => n \in Nat /\ n * u \in Nat /\ mid \in Nat
    <3> SUFFICES ASSUME can_read(off, c) PROVE n \in Nat
      OBVIOUS
    <3> QED
      BY ReadNumber
  <2>2. mid \in Nat /\ can_read(mid, c) => m \in Nat /\ m * u \in Nat
    <3> SUFFICES ASSUME mid \in Nat, can_read(mid, c) PROVE m \in Nat
      OBVIOUS
    <3> HIDE DEF mid
    <3> QED
      BY ReadNumber
  <2>3. mid \in Nat /\ can_read(mid, c) => v \in [1..8 -> Byte]
    BY <1>3, ZeroType
  <2>4. CountedValues(off, c, u) =
          IF ~can_read(off, c) THEN At(off, Zero)
          ELSE IF ~can_read(off + c, n * u) THEN At(off + c, Zero)
          ELSE IF ~can_read(mid, c) THEN At(mid, Zero)
          ELSE IF ~can_read(mid + c, m * u) THEN At(mid + c, v)
          ELSE At(mid + c + m * u, v)
    BY DEF CountedValues
  <2>5. can_read(off, c) /\ can_read(off + c, n * u) => mid \in off..Len(payload)
    BY <2>1 DEF can_read
  <2> HIDE DEF v, m
  <2>6. CASE ~can_read(off, c)
    BY <1>2, <2>4, <2>6, ZeroType
  <2>7. CASE can_read(off, c) /\ ~can_read(off + c, n * u)
    BY <1>2, <2>4, <2>7, ZeroType DEF can_read
  <2>8. CASE can_read(off, c) /\ can_read(off + c, n * u)
    <3> USE <2>1, <2>5, <2>8
    <3> HIDE DEF n, mid
    <3>1. CASE ~can_read(mid, c)
      BY <1>2, <2>4, <3>1, ZeroType
    <3>2. CASE can_read(mid, c) /\ ~can_read(mid + c, m * u)
      <4>1. mid + c \in off..Len(payload) /\ mid + c \in Nat
        BY <3>2 DEF can_read
      <4> QED
        BY <1>2, <2>3, <2>4, <3>2, <4>1
    <3>3. CASE can_read(mid, c) /\ can_read(mid + c, m * u)
      <4>1. m * u \in Nat
        BY <2>2, <3>3
      <4>2. mid + c + m * u \in off..Len(payload) /\ mid + c + m * u \in Nat
        BY <3>3, <4>1 DEF can_read
      <4> QED
        BY <1>2, <2>3, <2>4, <3>3, <4>2
    <3> QED
      BY <3>1, <3>2, <3>3
  <2> QED
    BY <2>6, <2>7, <2>8
<1>6. CASE ~IsScalar(t)
  BY <1>1, <1>5, <1>6 DEF Values, w
<1> QED
  BY <1>4, <1>6

(* A list that can be read ends within the payload.                        *)
LEMMA ListEndIs ==
  ASSUME payload \in Seq(Byte), NEW off \in Nat, NEW size \in Nat, ListEnd(off, size) # 0
  PROVE  ListEnd(off, size) \in (off + 2)..Len(payload)
<1>1. can_read(off, 2) /\ can_read(off + 2, Number(Bytes(off, 2)) * size)
  BY DEF ListEnd
<1>3. Number(Bytes(off, 2)) \in Nat
  BY <1>1, ReadNumber
<1>4. Number(Bytes(off, 2)) * size \in Nat
  BY <1>3
<1>5. ListEnd(off, size) = off + 2 + Number(Bytes(off, 2)) * size
  BY <1>1 DEF ListEnd
<1> QED
  BY <1>1, <1>4, <1>5 DEF can_read

(* So does a form, after its own byte at least.                            *)
LEMMA FormEndIs ==
  ASSUME payload \in Seq(Byte), NEW off \in Nat, NEW size \in Nat, FormEnd(off, size) # 0
  PROVE  FormEnd(off, size) \in (off + 1)..Len(payload)
<1>1. can_read(off, 1)
  BY DEF FormEnd
<1>2. CASE Bytes(off, 1) = <<0>>
  BY <1>1, <1>2 DEF FormEnd, can_read
<1>3. CASE Bytes(off, 1) = <<1>>
  <2>1. <<1>> # <<0>>
    OBVIOUS
  <2>2. FormEnd(off, size) = IF can_read(off + 1, 3 * size) THEN off + 1 + 3 * size ELSE 0
    BY <1>1, <1>3, <2>1 DEF FormEnd
  <2> QED
    BY <2>2 DEF can_read
<1>4. CASE Bytes(off, 1) # <<0>> /\ Bytes(off, 1) # <<1>>
  <2> DEFINE set == ListEnd(off + 1, size)
  <2>1. FormEnd(off, size) = IF set = 0 THEN 0 ELSE ListEnd(set, size)
    BY <1>1, <1>4 DEF FormEnd
  <2>2. set # 0 /\ ListEnd(set, size) # 0
    BY <2>1
  <2>3. set \in (off + 3)..Len(payload)
    BY <2>2, ListEndIs
  <2> HIDE DEF set
  <2>4. set \in Nat /\ ListEnd(set, size) \in (set + 2)..Len(payload)
    BY <2>2, <2>3, ListEndIs
  <2> QED
    BY <2>1, <2>2, <2>3, <2>4
<1> QED
  BY <1>2, <1>3, <1>4

(* An entry that can be read has seven bytes at least and ends within the  *)
(* payload, whatever its bytes are.                                        *)
LEMMA EntryEnds ==
  ASSUME payload \in Seq(Byte), offset \in Nat, Readable
  PROVE  /\ EntryEnd \in (offset + 7)..Len(payload)
         /\ EntryValues.off \in (offset + 6)..Len(payload)
         /\ Bytes(offset, 2) \in Byte \X Byte
         /\ EntryValues.currentValue \in [1..8 -> Byte]
<1>1. can_read(offset, 6) /\ KnownType(EntryType) /\ EntryEnd > 0
  BY DEF Readable
<1>2. can_read(offset, 2) /\ can_read(offset + 2, 2) /\ offset + 6 <= Len(payload)
  BY <1>1 DEF can_read
<1>3. /\ Bytes(offset, 2) \in Seq(Byte) /\ Len(Bytes(offset, 2)) = 2
      /\ EntryType \in Seq(Byte) /\ Len(EntryType) = 2
  <2>1. offset + 2 \in Nat /\ 2 \in Nat
    OBVIOUS
  <2> QED
    BY <1>2, <2>1, BytesAre DEF EntryType
<1>4. EntryType[1] \in Byte /\ EntryType[2] \in Byte
  <2>1. 1 \in 1..Len(EntryType) /\ 2 \in 1..Len(EntryType)
    BY <1>3
  <2> QED
    BY <1>3, <2>1, ElementOfSeq
<1>5. /\ EntryValues.off \in (offset + 6)..Len(payload)
      /\ EntryValues.currentValue \in [1..8 -> Byte]
  BY <1>1, <1>2, <1>4, ValuesEnd DEF EntryValues
<1>6. sizeofType(EntryType) \in Nat
  BY DEF sizeofType, Width
<1>7. EntryValues.off \in Nat
  BY <1>5
<1>8. EntryEnd \in (EntryValues.off + 1)..Len(payload)
  BY <1>1, <1>6, <1>7, FormEndIs DEF EntryEnd
<1> QED
  BY <1>3, <1>5, <1>8, Pair

(* What holds of the parser whatever arrives: the cursor stays within the  *)
(* payload, and every entry that was read has had seven bytes.             *)
CursorInv ==
  /\ payload \in Seq(Byte)
  /\ offset \in Nat /\ i \in Nat /\ pc \in {"loop", "done"}
  /\ pc = "loop" => offset \in 8..Len(payload)
  /\ \A c \in DOMAIN out : c \in Byte \X Byte /\ out[c] \in [1..8 -> Byte]
  /\ i > 0 => 8 + 7 * i <= offset /\ offset <= Len(payload)

(* Every step keeps it.                                                    *)
LEMMA StepCursor == CursorInv /\ [Next]_vars => CursorInv'
<1> SUFFICES ASSUME CursorInv, [Next]_vars PROVE CursorInv'
  OBVIOUS
<1> USE DEF CursorInv
<1>1. CASE ReadEntry
  <2>1. /\ EntryEnd \in (offset + 7)..Len(payload)
        /\ Bytes(offset, 2) \in Byte \X Byte
        /\ EntryValues.currentValue \in [1..8 -> Byte]
    BY <1>1, EntryEnds DEF ReadEntry
  <2>2. /\ offset' = EntryEnd /\ i' = i + 1 /\ pc' = pc /\ payload' = payload
        /\ pc = "loop"
    BY <1>1 DEF ReadEntry
  <2>3. \A c \in DOMAIN out' : c \in Byte \X Byte /\ out'[c] \in [1..8 -> Byte]
    BY <1>1, <2>1 DEF ReadEntry
  <2>4. Len(payload) \in Nat /\ offset \in 8..Len(payload)
    BY <2>2
  <2>5. 8 + 7 * (i + 1) <= EntryEnd
    <3>1. CASE i = 0
      BY <2>1, <2>4, <3>1
    <3>2. CASE i > 0
      BY <2>1, <2>4, <3>2
    <3> QED
      BY <3>1, <3>2
  <2>6. EntryEnd \in Nat /\ EntryEnd >= 8 /\ EntryEnd <= Len(payload)
    BY <2>1, <2>4
  <2> QED
    BY <2>2, <2>3, <2>5, <2>6
<1>2. CASE StopReading
  BY <1>2 DEF StopReading
<1>3. CASE UNCHANGED vars
  BY <1>3 DEF vars
<1> QED
  BY <1>1, <1>2, <1>3 DEF Next

(* An iteration that goes on takes seven bytes at least.                   *)
LEMMA StepAdvances ==
  CursorInv /\ [Next]_vars => [i' # i => offset' >= offset + 7]_vars
<1> SUFFICES ASSUME CursorInv, [Next]_vars, i' # i PROVE offset' >= offset + 7
  OBVIOUS
<1>1. ReadEntry
  BY DEF Next, StopReading, vars
<1>2. EntryEnd \in (offset + 7)..Len(payload) /\ offset \in Nat /\ Len(payload) \in Nat
  BY <1>1, EntryEnds DEF ReadEntry, CursorInv
<1> QED
  BY <1>1, <1>2 DEF ReadEntry

(* The parser changes neither the payload nor what the camera described.   *)
LEMMA StepDataset == [Next]_vars => dataset' = dataset /\ payload' = payload
BY DEF Next, ReadEntry, StopReading, vars

(* The type invariant follows.                                             *)
LEMMA CursorTypes == CursorInv /\ dataset \in Datasets => TypeOK
BY DEF CursorInv, TypeOK

-----------------------------------------------------------------------------
(* What it does with the bytes of a property, wherever they are.           *)

(* As far as the payload goes, s is what it holds after off.               *)
Matches(off, s) ==
  \A j \in 1..Len(s) : off + j <= Len(payload) => payload[off + j] = s[j]

(* What matches a concatenation matches its parts.                         *)
LEMMA MatchesParts ==
  ASSUME NEW off \in Nat, NEW s \in Seq(Byte), NEW t \in Seq(Byte),
         Matches(off, s \o t)
  PROVE  Matches(off, s) /\ Matches(off + Len(s), t)
<1>1. /\ Len(s \o t) = Len(s) + Len(t)
      /\ \A j \in 1..(Len(s) + Len(t)) :
           (s \o t)[j] = IF j <= Len(s) THEN s[j] ELSE t[j - Len(s)]
  BY ConcatProperties
<1>2. ASSUME NEW j \in 1..Len(s), off + j <= Len(payload)
      PROVE  payload[off + j] = s[j]
  <2>1. Len(s) \in Nat /\ Len(t) \in Nat
    OBVIOUS
  <2>2. j \in 1..(Len(s) + Len(t)) /\ j <= Len(s)
    BY <2>1
  <2> QED
    BY <1>1, <1>2, <2>2 DEF Matches
<1>3. ASSUME NEW j \in 1..Len(t), off + Len(s) + j <= Len(payload)
      PROVE  payload[off + Len(s) + j] = t[j]
  <2> DEFINE k == Len(s) + j
  <2>1. /\ k \in 1..(Len(s) + Len(t)) /\ ~(k <= Len(s)) /\ k - Len(s) = j
        /\ off + Len(s) + j = off + k
    OBVIOUS
  <2> HIDE DEF k
  <2>2. payload[off + k] = (s \o t)[k]
    BY <1>1, <1>3, <2>1 DEF Matches
  <2> QED
    BY <1>1, <2>1, <2>2
<1> QED
  BY <1>2, <1>3 DEF Matches

(* Bytes that match are read as they are.                                  *)
LEMMA MatchedBytes ==
  ASSUME payload \in Seq(Byte), NEW off \in Nat, NEW s \in Seq(Byte),
         Matches(off, s), can_read(off, Len(s))
  PROVE  Bytes(off, Len(s)) = s
<1> DEFINE b == Bytes(off, Len(s))
<1>1. Len(s) \in Nat
  OBVIOUS
<1>2. /\ b \in Seq(Byte) /\ Len(b) = Len(s)
      /\ \A j \in 1..Len(s) : b[j] = payload[off + j]
  BY <1>1, BytesAre
<1> HIDE DEF b
<1>3. \A j \in 1..Len(s) : off + j <= Len(payload)
  BY DEF can_read
<1>4. \A j \in 1..Len(b) : b[j] = s[j]
  BY <1>2, <1>3 DEF Matches
<1>5. b = s
  BY <1>2, <1>4, SeqEqual
<1> QED
  BY <1>5 DEF b

(* The number of values in a list, as arrays and forms have it.            *)
LEMMA ListCount ==
  ASSUME NEW w, NEW s, IsList(s, w), NEW n \in {2, 4}
  PROVE  /\ Len(s) \in Nat
         /\ Count(Len(s), n) \in Seq(Byte) /\ Len(Count(Len(s), n)) = n
         /\ Number(Count(Len(s), n)) = Len(s)
<1> DEFINE k == Len(s)
<1>1. k \in Nat /\ k < 65536
  BY DEF IsList
<1>2. n \in Nat /\ n >= 2
  OBVIOUS
<1> HIDE DEF k
<1>3. Count(k, n) \in Seq(Byte) /\ Len(Count(k, n)) = n /\ Number(Count(k, n)) = k
  BY <1>1, <1>2, CountIs
<1> QED
  BY <1>1, <1>3 DEF k

(* The bytes of a value that the camera describes.                         *)
LEMMA ValueLength ==
  ASSUME NEW t, t[1] \in Byte, t[2] \in Byte, KnownType(t), NEW v, IsValue(t, v)
  PROVE  /\ EncodedValue(t, v) \in Seq(Byte)
         /\ Len(EncodedValue(t, v)) =
              IF IsScalar(t) THEN Width(t)
              ELSE (IF IsArray(t) THEN 4 ELSE 1) + Len(v) * Unit(t)
<1>1. CASE IsScalar(t)
  BY <1>1 DEF IsValue, EncodedValue
<1>2. CASE ~IsScalar(t)
  <2> DEFINE n == IF IsArray(t) THEN 4 ELSE 1
  <2>1. IsList(v, Unit(t)) /\ (~IsArray(t) => Len(v) < 256)
    BY <1>2 DEF IsValue, KnownType
  <2>2. Unit(t) \in Nat
    BY DEF Unit, Width
  <2>3. Elements(v) \in Seq(Byte) /\ Len(Elements(v)) = Len(v) * Unit(t)
    BY <2>1, <2>2, ElementsLength
  <2>4. Len(v) \in Nat /\ Len(v) < 65536
    BY <2>1 DEF IsList
  <2>5. Count(Len(v), n) \in Seq(Byte) /\ Len(Count(Len(v), n)) = n
    <3>1. CASE IsArray(t)
      <4>1. n = 4 /\ n \in {2, 4}
        BY <3>1
      <4> HIDE DEF n
      <4> QED
        BY <2>1, <4>1, ListCount
    <3>2. CASE ~IsArray(t)
      BY <2>1, <2>4, <3>2, ShortCountIs
    <3> QED
      BY <3>1, <3>2
  <2>6. EncodedValue(t, v) = Count(Len(v), n) \o Elements(v)
    BY <1>2 DEF EncodedValue
  <2> HIDE DEF n
  <2>7. /\ EncodedValue(t, v) \in Seq(Byte)
        /\ Len(EncodedValue(t, v)) = Len(Count(Len(v), n)) + Len(Elements(v))
    BY <2>3, <2>5, <2>6, ConcatProperties
  <2>8. Len(EncodedValue(t, v)) = n + Len(v) * Unit(t)
    BY <2>3, <2>5, <2>7
  <2> QED
    BY <1>2, <2>7, <2>8 DEF n
<1> QED
  BY <1>1, <1>2

(* Two values of a property that arrive whole are passed, and what is      *)
(* recorded is the second.                                                 *)
ValueMeaning(t, v) ==
  IF IsScalar(t) THEN Extended(v)
  ELSE IF IsArray(t) THEN Extended(Count(Len(v), 4)) ELSE Zero

(* A list that arrives whole is read with its count and passed.            *)
LEMMA CountedPart ==
  ASSUME payload \in Seq(Byte), NEW t, t[1] \in Byte, t[2] \in Byte, KnownType(t),
         ~IsScalar(t), NEW v, IsValue(t, v), NEW off \in Nat,
         Matches(off, EncodedValue(t, v)),
         off + Len(EncodedValue(t, v)) <= Len(payload),
         NEW n, n = IF IsArray(t) THEN 4 ELSE 1
  PROVE  /\ can_read(off, n) /\ Bytes(off, n) = Count(Len(v), n)
         /\ Number(Bytes(off, n)) = Len(v)
         /\ can_read(off + n, Len(v) * Unit(t))
         /\ off + n + Len(v) * Unit(t) = off + Len(EncodedValue(t, v))
<1>1. IsList(v, Unit(t)) /\ (~IsArray(t) => Len(v) < 256)
  BY DEF IsValue, KnownType
<1>2. Unit(t) \in Nat /\ n \in {1, 4}
  BY DEF Unit, Width
<1>3. Elements(v) \in Seq(Byte) /\ Len(Elements(v)) = Len(v) * Unit(t)
  BY <1>1, <1>2, ElementsLength
<1>4. Len(v) \in Nat /\ Len(v) < 65536
  BY <1>1 DEF IsList
<1>5. /\ Count(Len(v), n) \in Seq(Byte) /\ Len(Count(Len(v), n)) = n
      /\ Number(Count(Len(v), n)) = Len(v)
  <2>1. CASE IsArray(t)
    <3>1. n \in {2, 4}
      BY <2>1
    <3> QED
      BY <1>1, <3>1, ListCount
  <2>2. CASE ~IsArray(t)
    BY <1>1, <1>4, <2>2, ShortCountIs
  <2> QED
    BY <2>1, <2>2
<1>6. EncodedValue(t, v) = Count(Len(v), n) \o Elements(v)
  BY DEF EncodedValue
<1>7. Len(EncodedValue(t, v)) = n + Len(v) * Unit(t)
  BY ValueLength
<1>8. Matches(off, Count(Len(v), n))
  BY <1>3, <1>5, <1>6, MatchesParts
<1>9. Len(v) * Unit(t) \in Nat
  BY <1>2, <1>4
<1>10. can_read(off, n) /\ can_read(off + n, Len(v) * Unit(t))
  BY <1>2, <1>7, <1>9 DEF can_read
<1>11. Bytes(off, n) = Count(Len(v), n)
  BY <1>5, <1>8, <1>10, MatchedBytes
<1> QED
  BY <1>2, <1>5, <1>7, <1>9, <1>10, <1>11

(* Both values that arrive whole are passed, and the second is recorded.   *)
LEMMA ValuesWhole ==
  ASSUME payload \in Seq(Byte), NEW t, t[1] \in Byte, t[2] \in Byte, KnownType(t),
         NEW u, IsValue(t, u), NEW v, IsValue(t, v), NEW off \in Nat, NEW mid \in Nat,
         mid = off + Len(EncodedValue(t, u)),
         Matches(off, EncodedValue(t, u)), Matches(mid, EncodedValue(t, v)),
         mid + Len(EncodedValue(t, v)) <= Len(payload)
  PROVE  Values(t, off) = At(mid + Len(EncodedValue(t, v)), ValueMeaning(t, v))
<1>0. /\ EncodedValue(t, u) \in Seq(Byte) /\ EncodedValue(t, v) \in Seq(Byte)
      /\ Len(EncodedValue(t, u)) \in Nat /\ Len(EncodedValue(t, v)) \in Nat
  BY ValueLength
<1>1. CASE IsScalar(t)
  <2> DEFINE w == Width(t)
  <2>1. w \in Nat
    BY DEF Width
  <2>2. /\ v \in Seq(Byte) /\ Len(v) = w /\ Matches(off + w, v)
        /\ mid = off + w /\ off + w + w <= Len(payload)
    BY <1>1 DEF IsValue, EncodedValue
  <2>3. Values(t, off) = ScalarValues(off, w)
    BY <1>1 DEF Values
  <2> HIDE DEF w
  <2>4. can_read(off, w) /\ can_read(off + w, w)
    BY <2>1, <2>2 DEF can_read
  <2>5. off + w \in Nat
    BY <2>1
  <2>6. Bytes(off + w, w) = v
    BY <2>2, <2>4, <2>5, MatchedBytes
  <2>7. ScalarValues(off, w) = At(off + 2 * w, Extended(v))
    BY <2>4, <2>6 DEF ScalarValues
  <2>8. off + 2 * w = mid + w
    BY <2>1, <2>2
  <2> QED
    BY <1>1, <2>2, <2>3, <2>7, <2>8 DEF ValueMeaning, EncodedValue
<1>2. CASE ~IsScalar(t)
  <2> DEFINE n == IF IsArray(t) THEN 4 ELSE 1
  <2>1. mid <= Len(payload)
    BY <1>0
  <2>2. /\ can_read(off, n) /\ Number(Bytes(off, n)) = Len(u)
        /\ can_read(off + n, Len(u) * Unit(t))
        /\ off + n + Len(u) * Unit(t) = mid
    BY <1>2, <2>1, CountedPart
  <2>3. /\ can_read(mid, n) /\ Bytes(mid, n) = Count(Len(v), n)
        /\ Number(Bytes(mid, n)) = Len(v)
        /\ can_read(mid + n, Len(v) * Unit(t))
        /\ mid + n + Len(v) * Unit(t) = mid + Len(EncodedValue(t, v))
    BY <1>2, CountedPart
  <2>4. Values(t, off) = CountedValues(off, n, Unit(t))
    BY <1>2 DEF Values, Unit, KnownType, IsString, IsArray, Byte
  <2>5. ValueMeaning(t, v) = IF n = 4 THEN Extended(Bytes(mid, n)) ELSE Zero
    BY <1>2, <2>3 DEF ValueMeaning
  <2> HIDE DEF n
  <2>6. CountedValues(off, n, Unit(t))
          = At(mid + n + Len(v) * Unit(t), IF n = 4 THEN Extended(Bytes(mid, n)) ELSE Zero)
    BY <2>2, <2>3 DEF CountedValues
  <2> QED
    BY <2>3, <2>4, <2>5, <2>6
<1> QED
  BY <1>1, <1>2

(* The bytes of a list of a form.                                          *)
LEMMA ListLength ==
  ASSUME NEW w \in Nat, NEW s, IsList(s, w)
  PROVE  /\ Count(Len(s), 2) \o Elements(s) \in Seq(Byte)
         /\ Len(Count(Len(s), 2) \o Elements(s)) = 2 + Len(s) * w
<1> DEFINE count == Count(Len(s), 2)
<1>1. Elements(s) \in Seq(Byte) /\ Len(Elements(s)) = Len(s) * w
  BY ElementsLength
<1>2. count \in Seq(Byte) /\ Len(count) = 2
  <2>1. 2 \in {2, 4}
    OBVIOUS
  <2> QED
    BY <2>1, ListCount
<1> HIDE DEF count
<1>3. /\ count \o Elements(s) \in Seq(Byte)
      /\ Len(count \o Elements(s)) = Len(count) + Len(Elements(s))
  BY <1>1, <1>2, ConcatProperties
<1> QED
  BY <1>1, <1>2, <1>3 DEF count

(* A list of a form is passed, or cannot be read.                          *)
LEMMA ListPassed ==
  ASSUME payload \in Seq(Byte), NEW off \in Nat, NEW w \in Nat, NEW s, IsList(s, w),
         Matches(off, Count(Len(s), 2) \o Elements(s))
  PROVE  ListEnd(off, w) = IF can_read(off, 2 + Len(s) * w)
                           THEN off + 2 + Len(s) * w ELSE 0
<1> DEFINE count == Count(Len(s), 2)
<1>1. Len(s) \in Nat
  BY ListCount
<1>2. Elements(s) \in Seq(Byte) /\ Len(Elements(s)) = Len(s) * w
  BY ElementsLength
<1>3. count \in Seq(Byte) /\ Len(count) = 2 /\ Number(count) = Len(s)
  <2>1. 2 \in {2, 4}
    OBVIOUS
  <2> QED
    BY <2>1, ListCount
<1> HIDE DEF count
<1>5. Matches(off, count)
  BY <1>2, <1>3, MatchesParts DEF count
<1>6. can_read(off, 2) => Bytes(off, 2) = count
  BY <1>3, <1>5, MatchedBytes
<1>7. Len(s) * w \in Nat
  BY <1>1
<1>8. can_read(off, 2 + Len(s) * w) <=> can_read(off, 2) /\ can_read(off + 2, Len(s) * w)
  BY <1>7 DEF can_read
<1>9. ListEnd(off, w) = IF can_read(off, 2) /\ can_read(off + 2, Len(s) * w)
                        THEN off + 2 + Len(s) * w ELSE 0
  BY <1>3, <1>6 DEF ListEnd
<1> QED
  BY <1>8, <1>9

(* The form of a property that is encoded plainly is passed if it arrives  *)
(* whole, and cannot be read otherwise.                                    *)
LEMMA FormPassed ==
  ASSUME payload \in Seq(Byte), NEW p, WellFormed(p), Plain(p), NEW off \in Nat,
         Matches(off, EncodedForm(p))
  PROVE  /\ EncodedForm(p) \in Seq(Byte)
         /\ FormEnd(off, sizeofType(p.type)) =
              IF can_read(off, Len(EncodedForm(p)))
              THEN off + Len(EncodedForm(p)) ELSE 0
<1> DEFINE w == sizeofType(p.type)
<1>1. CASE p.form = "none"
  <2>1. EncodedForm(p) = <<0>> /\ <<0>> \in Seq(Byte) /\ Len(<<0>>) = 1
    BY <1>1 DEF EncodedForm, Byte
  <2>2. can_read(off, 1) => Bytes(off, 1) = <<0>>
    BY <2>1, MatchedBytes
  <2>3. FormEnd(off, w) = IF can_read(off, 1) THEN off + 1 ELSE 0
    BY <2>2 DEF FormEnd
  <2> QED
    BY <2>1, <2>3
<1>2. CASE p.form # "none"
  <2>1. IsScalar(p.type) /\ w = Width(p.type) /\ w = Unit(p.type)
    BY <1>2 DEF Plain, sizeofType, Unit, IsScalar, IsString
  <2>2. w \in Nat /\ w >= 1
    BY <2>1 DEF Width
  <2> HIDE DEF w
  <2>3. IsList(p.first, w) /\ IsList(p.second, w)
    BY <2>1 DEF WellFormed
  <2>4. /\ Elements(p.first) \in Seq(Byte) /\ Len(Elements(p.first)) = Len(p.first) * w
        /\ Len(p.first) \in Nat /\ Len(p.second) \in Nat
    BY <2>2, <2>3, ElementsLength, ListCount
  <2>5. CASE p.form = "range"
    <3>1. EncodedForm(p) = <<1>> \o Elements(p.first) /\ <<1>> \in Seq(Byte) /\ Len(<<1>>) = 1
      BY <2>5 DEF EncodedForm, Byte
    <3>2. Len(Elements(p.first)) = 3 * w
      BY <2>4, <2>5 DEF WellFormed
    <3>3. EncodedForm(p) \in Seq(Byte) /\ Len(EncodedForm(p)) = 1 + 3 * w
      BY <2>4, <3>1, <3>2, ConcatProperties
    <3>4. Matches(off, <<1>>)
      BY <2>4, <3>1, MatchesParts
    <3>5. can_read(off, 1) => Bytes(off, 1) = <<1>>
      BY <3>1, <3>4, MatchedBytes
    <3>6. <<1>> # <<0>>
      OBVIOUS
    <3>7. FormEnd(off, w) = IF can_read(off, 1) /\ can_read(off + 1, 3 * w)
                            THEN off + 1 + 3 * w ELSE 0
      BY <3>5, <3>6 DEF FormEnd
    <3>8. /\ can_read(off, 1 + 3 * w) <=> can_read(off, 1) /\ can_read(off + 1, 3 * w)
          /\ off + (1 + 3 * w) = off + 1 + 3 * w
      BY <2>2 DEF can_read
    <3>9. FormEnd(off, w) = IF can_read(off, 1 + 3 * w) THEN off + (1 + 3 * w) ELSE 0
      BY <3>7, <3>8
    <3> QED
      BY <3>3, <3>9 DEF w
  <2>6. CASE p.form = "enum"
    <3> DEFINE one == Count(Len(p.first), 2) \o Elements(p.first)
               two == Count(Len(p.second), 2) \o Elements(p.second)
               set == ListEnd(off + 1, w)
               a == Len(p.first) * w
               b == Len(p.second) * w
    <3>1. one \in Seq(Byte) /\ two \in Seq(Byte) /\ Len(one) = 2 + a /\ Len(two) = 2 + b
      BY <2>2, <2>3, ListLength
    <3>2. EncodedForm(p) = (<<2>> \o one) \o two /\ <<2>> \in Seq(Byte) /\ Len(<<2>>) = 1
      <4>1. EncodedForm(p) = ((<<2>> \o Count(Len(p.first), 2)) \o Elements(p.first))
                               \o Count(Len(p.second), 2) \o Elements(p.second)
        BY <2>6 DEF EncodedForm
      <4>2. /\ Elements(p.second) \in Seq(Byte) /\ <<2>> \in Seq(Byte)
            /\ Count(Len(p.first), 2) \in Seq(Byte) /\ Count(Len(p.second), 2) \in Seq(Byte)
        <5>1. Elements(p.second) \in Seq(Byte)
          BY <2>2, <2>3, ElementsLength
        <5>2. 2 \in {2, 4}
          OBVIOUS
        <5> QED
          BY <2>3, <5>1, <5>2, ListCount DEF Byte
      <4>3. (<<2>> \o Count(Len(p.first), 2)) \o Elements(p.first) = <<2>> \o one
        BY <2>4, <4>2, ConcatAssociative
      <4>4. (<<2>> \o one) \o Count(Len(p.second), 2) \o Elements(p.second)
              = (<<2>> \o one) \o two
        <5> DEFINE head == <<2>> \o one
        <5>1. head \in Seq(Byte)
          <6> HIDE DEF one
          <6> QED
            BY <3>1, <4>2, ConcatProperties
        <5> HIDE DEF head
        <5>2. (head \o Count(Len(p.second), 2)) \o Elements(p.second) = head \o two
          <6> DEFINE c == Count(Len(p.second), 2)
                     e == Elements(p.second)
          <6>1. c \in Seq(Byte) /\ e \in Seq(Byte)
            BY <4>2
          <6> HIDE DEF c, e
          <6>2. (head \o c) \o e = head \o (c \o e)
            BY <5>1, <6>1, ConcatAssociative
          <6> QED
            BY <6>2 DEF c, e
        <5> QED
          BY <5>2 DEF head
      <4> QED
        BY <4>1, <4>2, <4>3, <4>4
    <3>3. a \in Nat /\ b \in Nat
      BY <2>2, <2>4
    <3> HIDE DEF one, two, a, b
    <3>4. /\ <<2>> \o one \in Seq(Byte) /\ Len(<<2>> \o one) = 1 + (2 + a)
          /\ EncodedForm(p) \in Seq(Byte) /\ Len(EncodedForm(p)) = 1 + (2 + a) + (2 + b)
      <4> DEFINE mark == <<2>>
                 head == mark \o one
      <4>1. mark \in Seq(Byte) /\ Len(mark) = 1
        BY <3>2
      <4> HIDE DEF mark
      <4>2. head \in Seq(Byte) /\ Len(head) = Len(mark) + Len(one)
        BY <3>1, <4>1, ConcatProperties
      <4> HIDE DEF head
      <4>3. head \o two \in Seq(Byte) /\ Len(head \o two) = Len(head) + Len(two)
        BY <3>1, <4>2, ConcatProperties
      <4>4. EncodedForm(p) = head \o two
        BY <3>2 DEF head, mark
      <4>5. Len(head) = 1 + (2 + a) /\ Len(head \o two) = 1 + (2 + a) + (2 + b)
        BY <3>1, <3>3, <4>1, <4>2, <4>3
      <4>6. head = <<2>> \o one
        BY DEF head, mark
      <4> QED
        BY <4>2, <4>3, <4>4, <4>5, <4>6
    <3>5. Matches(off, <<2>> \o one) /\ Matches(off + (1 + (2 + a)), two)
      BY <3>1, <3>2, <3>4, MatchesParts
    <3>6. Matches(off, <<2>>) /\ Matches(off + 1, one)
      BY <3>1, <3>2, <3>5, MatchesParts
    <3>7. can_read(off, 1) => Bytes(off, 1) = <<2>>
      BY <3>2, <3>6, MatchedBytes
    <3>8. <<2>> # <<0>> /\ <<2>> # <<1>>
      OBVIOUS
    <3>9. FormEnd(off, w) = IF ~can_read(off, 1) \/ set = 0 THEN 0 ELSE ListEnd(set, w)
      BY <3>7, <3>8 DEF FormEnd
    <3>10. set = IF can_read(off + 1, 2 + a) THEN off + 1 + 2 + a ELSE 0
      <4>1. off + 1 \in Nat
        OBVIOUS
      <4>2. Matches(off + 1, Count(Len(p.first), 2) \o Elements(p.first))
        BY <3>6 DEF one
      <4>3. set = IF can_read(off + 1, 2 + Len(p.first) * w)
                  THEN off + 1 + 2 + Len(p.first) * w ELSE 0
        BY <2>2, <2>3, <4>1, <4>2, ListPassed
      <4> QED
        BY <4>3 DEF a
    <3>11. set # 0 => ListEnd(set, w) = IF can_read(set, 2 + b) THEN set + 2 + b ELSE 0
      <4> SUFFICES ASSUME set # 0
                   PROVE  ListEnd(set, w) = IF can_read(set, 2 + b) THEN set + 2 + b ELSE 0
        OBVIOUS
      <4>1. set = off + (1 + (2 + a)) /\ set \in Nat
        BY <3>3, <3>10
      <4> HIDE DEF set
      <4> QED
        BY <2>2, <2>3, <3>5, <4>1, ListPassed DEF two, b
    <3> HIDE DEF set
    <3>12. CASE can_read(off, 1 + (2 + a) + (2 + b))
      <4>1. can_read(off, 1) /\ can_read(off + 1, 2 + a)
        BY <3>3, <3>12 DEF can_read
      <4>2. set = off + 1 + 2 + a /\ set # 0
        BY <3>3, <3>10, <4>1
      <4>3. can_read(set, 2 + b) /\ set + 2 + b = off + (1 + (2 + a) + (2 + b))
        BY <3>3, <3>12, <4>2 DEF can_read
      <4> QED
        BY <3>4, <3>9, <3>11, <3>12, <4>1, <4>2, <4>3 DEF w
    <3>13. CASE ~can_read(off, 1 + (2 + a) + (2 + b))
      <4>1. set = off + 1 + 2 + a => ~can_read(set, 2 + b)
        BY <3>3, <3>13 DEF can_read
      <4> QED
        BY <3>4, <3>9, <3>10, <3>11, <3>13, <4>1 DEF w
    <3> QED
      BY <3>12, <3>13
  <2> QED
    BY <1>2, <2>5, <2>6 DEF WellFormed
<1> QED
  BY <1>1, <1>2

(* A concatenation of bytes.                                               *)
LEMMA Joins ==
  ASSUME NEW s \in Seq(Byte), NEW t \in Seq(Byte)
  PROVE  s \o t \in Seq(Byte) /\ Len(s \o t) = Len(s) + Len(t)
BY ConcatProperties

(* What a well-formed property consists of.                                *)
LEMMA TypeBytes ==
  ASSUME NEW p, WellFormed(p)
  PROVE  /\ p.code \in Seq(Byte) /\ Len(p.code) = 2
         /\ p.type \in Seq(Byte) /\ Len(p.type) = 2
         /\ p.type[1] \in Byte /\ p.type[2] \in Byte
         /\ KnownType(p.type) /\ IsValue(p.type, p.default) /\ IsValue(p.type, p.current)
<1>1. p.code \in Byte \X Byte /\ p.type \in Byte \X Byte
  BY DEF WellFormed
<1>2. ASSUME NEW x \in Byte \X Byte
      PROVE  x \in Seq(Byte) /\ Len(x) = 2 /\ x[1] \in Byte /\ x[2] \in Byte
  <2>1. x = <<x[1], x[2]>> /\ x[1] \in Byte /\ x[2] \in Byte
    OBVIOUS
  <2>2. <<x[1], x[2]>> \in Seq(Byte) /\ Len(<<x[1], x[2]>>) = 2
    BY <2>1
  <2> QED
    BY <2>1, <2>2
<1> QED
  BY <1>1, <1>2 DEF WellFormed

(* The bytes of the form.                                                  *)
LEMMA FormLength ==
  ASSUME NEW p, WellFormed(p)
  PROVE  EncodedForm(p) \in Seq(Byte) /\ Len(EncodedForm(p)) >= 1
<1> DEFINE w == Unit(p.type)
           one == Count(Len(p.first), 2) \o Elements(p.first)
<1>1. w \in Nat
  BY DEF Unit, Width
<1> HIDE DEF w
<1>2. IsList(p.first, w) /\ IsList(p.second, w)
  BY DEF WellFormed, w
<1>3. Elements(p.first) \in Seq(Byte) /\ Elements(p.second) \in Seq(Byte)
  BY <1>1, <1>2, ElementsLength
<1>4. Count(Len(p.first), 2) \in Seq(Byte) /\ Count(Len(p.second), 2) \in Seq(Byte)
  <2>1. 2 \in {2, 4}
    OBVIOUS
  <2> QED
    BY <1>2, <2>1, ListCount
<1>5. ASSUME NEW s \in Seq(Byte), Len(s) >= 1, NEW t \in Seq(Byte)
      PROVE  s \o t \in Seq(Byte) /\ Len(s \o t) >= 1
  BY <1>5, Joins
<1>6. /\ <<0>> \in Seq(Byte) /\ <<1>> \in Seq(Byte) /\ <<2>> \in Seq(Byte)
      /\ Len(<<0>>) >= 1 /\ Len(<<1>>) >= 1 /\ Len(<<2>>) >= 1
  BY DEF Byte
<1>7. CASE p.form = "none"
  BY <1>6, <1>7 DEF EncodedForm
<1>8. CASE p.form = "range"
  BY <1>3, <1>5, <1>6, <1>8 DEF EncodedForm
<1>9. CASE p.form = "enum"
  <2>1. <<2>> \o Count(Len(p.first), 2) \in Seq(Byte)
        /\ Len(<<2>> \o Count(Len(p.first), 2)) >= 1
    BY <1>4, <1>5, <1>6
  <2> DEFINE h == <<2>> \o Count(Len(p.first), 2)
  <2>2. EncodedForm(p) = ((h \o Elements(p.first)) \o Count(Len(p.second), 2))
                           \o Elements(p.second)
    BY <1>9 DEF EncodedForm
  <2> HIDE DEF h
  <2> DEFINE g == h \o Elements(p.first)
  <2>3. g \in Seq(Byte) /\ Len(g) >= 1
    BY <1>3, <1>5, <2>1 DEF h
  <2> HIDE DEF g
  <2>4. g \o Count(Len(p.second), 2) \in Seq(Byte) /\ Len(g \o Count(Len(p.second), 2)) >= 1
    BY <1>4, <1>5, <2>3
  <2>5. /\ (g \o Count(Len(p.second), 2)) \o Elements(p.second) \in Seq(Byte)
        /\ Len((g \o Count(Len(p.second), 2)) \o Elements(p.second)) >= 1
    BY <1>3, <1>5, <2>4
  <2> QED
    BY <2>2, <2>5 DEF g
<1> QED
  BY <1>7, <1>8, <1>9 DEF WellFormed

(* The parts of an entry and where they are: code, type, access, two       *)
(* values and the form.                                                    *)
LEMMA EncodedParts ==
  ASSUME NEW p, WellFormed(p),
         NEW m, m = Len(EncodedValue(p.type, p.default)),
         NEW n, n = Len(EncodedValue(p.type, p.current))
  PROVE  /\ m \in Nat /\ n \in Nat
         /\ Encoded(p) \in Seq(Byte)
         /\ Len(Encoded(p)) = 6 + m + n + Len(EncodedForm(p))
         /\ Len(Encoded(p)) >= 7
         /\ \A off \in Nat : Matches(off, Encoded(p)) =>
                /\ Matches(off, p.code) /\ Matches(off + 2, p.type)
                /\ Matches(off + 6, EncodedValue(p.type, p.default))
                /\ Matches(off + 6 + m, EncodedValue(p.type, p.current))
                /\ Matches(off + 6 + m + n, EncodedForm(p))
<1> DEFINE a == p.code
           b == p.type
           c == <<1, 1>>
           d == EncodedValue(p.type, p.default)
           e == EncodedValue(p.type, p.current)
           f == EncodedForm(p)
           s == Encoded(p)
<1>1. d \in Seq(Byte) /\ e \in Seq(Byte)
  BY TypeBytes, ValueLength
<1>2. f \in Seq(Byte) /\ Len(f) >= 1
  BY FormLength
<1>3. c \in Seq(Byte) /\ Len(c) = 2
  BY DEF Byte
<1>4. a \in Seq(Byte) /\ Len(a) = 2 /\ b \in Seq(Byte) /\ Len(b) = 2
  BY TypeBytes
<1>5. Len(d) = m /\ Len(e) = n
  OBVIOUS
<1> HIDE DEF a, b, c, d, e, f, s
<1> DEFINE ab == a \o b
           abc == ab \o c
           abcd == abc \o d
           abcde == abcd \o e
<1>6. ab \in Seq(Byte) /\ Len(ab) = 4
  <2>1. ab \in Seq(Byte) /\ Len(ab) = Len(a) + Len(b)
    BY <1>4, Joins
  <2> QED
    BY <1>4, <2>1
<1>7. abc \in Seq(Byte) /\ Len(abc) = 6
  <2> HIDE DEF ab
  <2>1. abc \in Seq(Byte) /\ Len(abc) = Len(ab) + Len(c)
    BY <1>3, <1>6, Joins
  <2> QED
    BY <1>3, <1>6, <2>1
<1>8. abcd \in Seq(Byte) /\ Len(abcd) = 6 + Len(d)
  <2> HIDE DEF abc
  <2>1. abcd \in Seq(Byte) /\ Len(abcd) = Len(abc) + Len(d)
    BY <1>1, <1>7, Joins
  <2> QED
    BY <1>1, <1>7, <2>1
<1>9. abcde \in Seq(Byte) /\ Len(abcde) = 6 + Len(d) + Len(e)
  <2> HIDE DEF abcd
  <2>1. abcde \in Seq(Byte) /\ Len(abcde) = Len(abcd) + Len(e)
    BY <1>1, <1>8, Joins
  <2> QED
    BY <1>1, <1>8, <2>1
<1>10. s = abcde \o f
  BY DEF Encoded, a, b, c, d, e, f, s
<1>11. s \in Seq(Byte) /\ Len(s) = 6 + Len(d) + Len(e) + Len(f)
  <2> HIDE DEF abcde
  <2>1. abcde \o f \in Seq(Byte) /\ Len(abcde \o f) = Len(abcde) + Len(f)
    BY <1>2, <1>9, Joins
  <2> QED
    BY <1>2, <1>9, <1>10, <2>1
<1>12. ASSUME NEW off \in Nat, Matches(off, s)
      PROVE  /\ Matches(off, a) /\ Matches(off + 2, b) /\ Matches(off + 6, d)
             /\ Matches(off + 6 + Len(d), e)
             /\ Matches(off + 6 + Len(d) + Len(e), f)
  <2>1. Matches(off, abcde) /\ Matches(off + Len(abcde), f)
    <3> HIDE DEF abcde
    <3> QED
      BY <1>2, <1>9, <1>10, <1>12, MatchesParts
  <2>2. Matches(off, abcd) /\ Matches(off + Len(abcd), e)
    <3> HIDE DEF abcd
    <3> QED
      BY <1>1, <1>8, <2>1, MatchesParts
  <2>3. Matches(off, abc) /\ Matches(off + Len(abc), d)
    <3> HIDE DEF abc
    <3> QED
      BY <1>1, <1>7, <2>2, MatchesParts
  <2>4. Matches(off, ab)
    <3> HIDE DEF ab
    <3> QED
      BY <1>3, <1>6, <2>3, MatchesParts
  <2>5. Matches(off, a) /\ Matches(off + 2, b)
    BY <1>4, <2>4, MatchesParts
  <2> HIDE DEF abc, abcd, abcde
  <2>6. /\ off + Len(abc) = off + 6 /\ off + Len(abcd) = off + 6 + Len(d)
        /\ off + Len(abcde) = off + 6 + Len(d) + Len(e)
    BY <1>7, <1>8, <1>9
  <2> QED
    BY <2>1, <2>2, <2>3, <2>5, <2>6
<1>13. m \in Nat /\ n \in Nat /\ Len(f) \in Nat
  BY <1>1, <1>2, <1>5
<1>14. Len(s) >= 7
  BY <1>2, <1>5, <1>13, <1>11
<1> QED
  BY <1>5, <1>13, <1>14, <1>11, <1>12 DEF a, b, d, e, f, s

(* Code and type of the entry at the cursor.                               *)
LEMMA EntryHead ==
  ASSUME payload \in Seq(Byte), offset \in Nat, NEW p, WellFormed(p),
         Matches(offset, Encoded(p)), can_read(offset, 6)
  PROVE  Bytes(offset, 2) = p.code /\ EntryType = p.type
<1>1. Matches(offset, p.code) /\ Matches(offset + 2, p.type)
  BY EncodedParts
<1>2. p.code \in Seq(Byte) /\ Len(p.code) = 2 /\ p.type \in Seq(Byte) /\ Len(p.type) = 2
  BY TypeBytes
<1>3. can_read(offset, 2) /\ can_read(offset + 2, 2) /\ offset + 2 \in Nat
  BY DEF can_read
<1>4. Bytes(offset, Len(p.code)) = p.code
  BY <1>1, <1>2, <1>3, MatchedBytes
<1>5. Bytes(offset + 2, Len(p.type)) = p.type
  BY <1>1, <1>2, <1>3, MatchedBytes
<1> QED
  BY <1>2, <1>4, <1>5 DEF EntryType

(* A property that has arrived whole is read as it was meant.              *)
LEMMA EntryWhole ==
  ASSUME payload \in Seq(Byte), offset \in Nat, Number(Bytes(0, 8)) > i,
         NEW p, WellFormed(p), Plain(p), Matches(offset, Encoded(p)),
         offset + Len(Encoded(p)) <= Len(payload)
  PROVE  /\ Readable /\ Bytes(offset, 2) = p.code
         /\ EntryEnd = offset + Len(Encoded(p))
         /\ EntryValues.currentValue = Meaning(p)
<1> DEFINE m == Len(EncodedValue(p.type, p.default))
           n == Len(EncodedValue(p.type, p.current))
           mid == offset + 6 + m
           end == mid + n
<1>1. /\ m \in Nat /\ n \in Nat /\ Encoded(p) \in Seq(Byte)
      /\ Len(Encoded(p)) = 6 + m + n + Len(EncodedForm(p)) /\ Len(Encoded(p)) >= 7
  BY EncodedParts
<1>2. /\ Matches(offset + 6, EncodedValue(p.type, p.default))
      /\ Matches(mid, EncodedValue(p.type, p.current))
      /\ Matches(end, EncodedForm(p))
  BY EncodedParts
<1>3. Len(EncodedForm(p)) \in Nat
  BY FormLength
<1>4. can_read(offset, 6) /\ offset < Len(payload)
  BY <1>1 DEF can_read
<1>5. Bytes(offset, 2) = p.code /\ EntryType = p.type
  BY <1>4, EntryHead
<1>6. EntryValues = At(end, ValueMeaning(p.type, p.current))
  <2>1. /\ offset + 6 \in Nat /\ mid \in Nat /\ mid = (offset + 6) + m
        /\ mid + n <= Len(payload)
    BY <1>1, <1>3
  <2> HIDE DEF mid
  <2>2. Values(p.type, offset + 6)
          = At(mid + Len(EncodedValue(p.type, p.current)), ValueMeaning(p.type, p.current))
    BY <1>2, <2>1, TypeBytes, ValuesWhole
  <2> QED
    BY <1>5, <2>2 DEF EntryValues
<1>7. EntryEnd = offset + Len(Encoded(p))
  <2>1. end \in Nat /\ end + Len(EncodedForm(p)) = offset + Len(Encoded(p))
    BY <1>1, <1>3
  <2> HIDE DEF end
  <2>2. FormEnd(end, sizeofType(p.type))
          = IF can_read(end, Len(EncodedForm(p))) THEN end + Len(EncodedForm(p)) ELSE 0
    BY <1>2, <2>1, FormPassed
  <2>3. can_read(end, Len(EncodedForm(p)))
    BY <2>1 DEF can_read
  <2>4. EntryValues.off = end
    BY <1>6 DEF At
  <2> QED
    BY <1>5, <2>1, <2>2, <2>3, <2>4 DEF EntryEnd
<1>8. EntryEnd > 0
  BY <1>1, <1>7
<1>9. Readable
  BY <1>4, <1>5, <1>8, TypeBytes DEF Readable
<1>10. EntryValues.currentValue = Meaning(p)
  BY <1>6 DEF At, ValueMeaning, Meaning
<1> QED
  BY <1>5, <1>7, <1>9, <1>10

(* A scalar property that was cut is read with 0, if it is read at all,    *)
(* and leaves less than an entry after it.                                 *)
LEMMA EntryCut ==
  ASSUME payload \in Seq(Byte), offset \in Nat, Readable,
         NEW p, WellFormed(p), IsScalar(p.type), Matches(offset, Encoded(p)),
         ~(offset + Len(Encoded(p)) <= Len(payload))
  PROVE  /\ Bytes(offset, 2) = p.code /\ EntryValues.currentValue = Zero
         /\ Len(payload) < EntryEnd + 7
<1> DEFINE w == Width(p.type)
           off == offset + 6
<1>1. can_read(offset, 6)
  BY DEF Readable
<1>2. Bytes(offset, 2) = p.code /\ EntryType = p.type
  BY <1>1, EntryHead
<1>3. w \in 1..8
  BY DEF Width
<1> HIDE DEF w
<1>4. EntryValues = ScalarValues(off, w)
  BY <1>2 DEF EntryValues, Values, w
<1>5. EntryEnd \in (EntryValues.off + 1)..Len(payload) \/ EntryValues.off \notin Nat
  <2> SUFFICES ASSUME EntryValues.off \in Nat
               PROVE  EntryEnd \in (EntryValues.off + 1)..Len(payload)
    OBVIOUS
  <2>1. sizeofType(EntryType) \in Nat
    BY DEF sizeofType, Width
  <2>2. EntryEnd # 0
    BY DEF Readable
  <2> QED
    BY <2>1, <2>2, FormEndIs DEF EntryEnd
<1>6. CASE ~can_read(off, w)
  <2>1. EntryValues.off = off /\ EntryValues.currentValue = Zero
    BY <1>4, <1>6 DEF ScalarValues, At
  <2>2. EntryEnd \in (off + 1)..Len(payload)
    BY <1>5, <2>1
  <2> QED
    BY <1>2, <1>3, <1>6, <2>1, <2>2 DEF can_read
<1>7. CASE can_read(off, w) /\ ~can_read(off + w, w)
  <2>1. EntryValues.off = off + w /\ EntryValues.currentValue = Zero
    BY <1>4, <1>7 DEF ScalarValues, At
  <2>2. EntryEnd \in (off + w + 1)..Len(payload)
    BY <1>3, <1>5, <2>1
  <2> QED
    BY <1>2, <1>3, <1>7, <2>1, <2>2 DEF can_read
<1>8. CASE can_read(off, w) /\ can_read(off + w, w)
  <2> DEFINE end == off + 2 * w
  <2>1. EntryValues.off = end
    BY <1>4, <1>8 DEF ScalarValues, At
  <2>2. /\ Len(EncodedValue(p.type, p.default)) = w
        /\ Len(EncodedValue(p.type, p.current)) = w
    BY TypeBytes, ValueLength DEF w
  <2>3. /\ Len(Encoded(p)) = 6 + w + w + Len(EncodedForm(p))
        /\ Matches(offset + 6 + w + w, EncodedForm(p))
    BY <2>2, EncodedParts
  <2>4. end = offset + 6 + w + w /\ end \in Nat /\ Len(EncodedForm(p)) \in Nat
    BY <1>3, FormLength
  <2>5. end + Len(EncodedForm(p)) = offset + Len(Encoded(p))
    BY <1>3, <2>3, <2>4
  <2> HIDE DEF end
  <2>6. ~can_read(end, Len(EncodedForm(p)))
    BY <2>5 DEF can_read
  <2>7. FormEnd(end, sizeofType(p.type)) = 0
    BY <2>3, <2>4, <2>6, FormPassed DEF Plain
  <2>8. EntryEnd = 0
    BY <1>2, <2>1, <2>7 DEF EntryEnd
  <2> QED
    BY <2>8 DEF Readable
<1> QED
  BY <1>6, <1>7, <1>8

-----------------------------------------------------------------------------
(* Where the properties are in a dump.                                     *)

(* Where the first k entries of the dump end.                              *)
Start(k) == Len(Dump(SubSeq(dataset, 1, k)))

(* The camera describes its properties in Datasets.                         *)
DatasetOK == dataset \in Datasets

(* What that says of their number, of each property, and of their codes.   *)
LEMMA DatasetType ==
  ASSUME DatasetOK
  PROVE  /\ dataset \in Seq(Described) /\ Len(dataset) \in Nat /\ Len(dataset) < 65536
         /\ DOMAIN dataset = 1..Len(dataset)
<1>1. PICK n \in 0..MaxProperties : dataset \in [1..n -> Described]
  BY DEF Datasets, DatasetOK
<1>2. n \in Nat /\ n < 65536
  BY CameraAssumption
<1>3. dataset \in Seq(Described) /\ Len(dataset) = n /\ DOMAIN dataset = 1..n
  BY <1>1, <1>2
<1> QED
  BY <1>2, <1>3

(* Each of them is well-formed.                                            *)
LEMMA DatasetFormed ==
  ASSUME DatasetOK, NEW k \in 1..Len(dataset)
  PROVE  WellFormed(dataset[k])
<1>1. dataset[k] \in Described
  BY DatasetType
<1> QED
  BY <1>1, CameraAssumption

(* No two of them have the same code.                                      *)
LEMMA DistinctCodes ==
  ASSUME DatasetOK, NEW j \in 1..Len(dataset), NEW k \in 1..Len(dataset),
         dataset[j].code = dataset[k].code
  PROVE  j = k
<1>1. DOMAIN dataset = 1..Len(dataset)
  BY DatasetType
<1>2. \A a, b \in DOMAIN dataset : dataset[a].code = dataset[b].code => a = b
  BY DEF Datasets, DatasetOK
<1> QED
  BY <1>1, <1>2

(* The bytes of an entry.                                                  *)
LEMMA EncodedBytes ==
  ASSUME NEW p, WellFormed(p)
  PROVE  Encoded(p) \in Seq(Byte) /\ Len(Encoded(p)) \in Nat /\ Len(Encoded(p)) >= 7
<1>1. Encoded(p) \in Seq(Byte) /\ Len(Encoded(p)) >= 7
  BY EncodedParts
<1> QED
  BY <1>1

(* The entries of a dump, and the bytes of the first k of them.            *)
EntriesOf(ds) == [k \in DOMAIN ds |-> Encoded(ds[k])]
Entries(k) == FlattenSeq(SubSeq(EntriesOf(dataset), 1, k))

(* The dump of the first properties is a prefix of the dump of all, and    *)
(* each property is where the one before it ends.                          *)
LEMMA EntriesFacts ==
  ASSUME DatasetOK, NEW n, n = Len(dataset)
  PROVE  /\ n \in Nat /\ Entries(0) = <<>>
         /\ \A k \in 0..n : Entries(k) \in Seq(Byte) /\ Start(k) = 8 + Len(Entries(k))
         /\ \A k \in 1..n : Entries(k) = Entries(k - 1) \o Encoded(dataset[k])
         /\ Dump(dataset) = Count(n, 8) \o Entries(n)
         /\ Count(n, 8) \in Seq(Byte) /\ Len(Count(n, 8)) = 8 /\ Number(Count(n, 8)) = n
<1> DEFINE s == EntriesOf(dataset)
<1>1. /\ n \in Nat /\ n < 65536 /\ DOMAIN dataset = 1..n
      /\ \A k \in 1..n : Encoded(dataset[k]) \in Seq(Byte)
  BY DatasetType, DatasetFormed, EncodedBytes
<1>2. s \in Seq(Seq(Byte)) /\ Len(s) = n /\ \A k \in 1..n : s[k] = Encoded(dataset[k])
  <2>1. s \in [1..n -> Seq(Byte)]
    BY <1>1 DEF EntriesOf
  <2> QED
    BY <1>1, <2>1 DEF EntriesOf
<1>3. ASSUME NEW k \in Nat, k < 65536
      PROVE  Count(k, 8) \in Seq(Byte) /\ Len(Count(k, 8)) = 8 /\ Number(Count(k, 8)) = k
  <2> DEFINE w == 8
  <2>1. w \in Nat /\ w >= 2
    OBVIOUS
  <2> HIDE DEF w
  <2>2. Count(k, w) \in Seq(Byte) /\ Len(Count(k, w)) = w /\ Number(Count(k, w)) = k
    BY <1>3, <2>1, CountIs
  <2> QED
    BY <2>2 DEF w
<1>4. ASSUME NEW k \in 0..n
      PROVE  /\ SubSeq(s, 1, k) \in Seq(Seq(Byte))
             /\ EntriesOf(SubSeq(dataset, 1, k)) = SubSeq(s, 1, k)
             /\ Len(SubSeq(dataset, 1, k)) = k
  <2>1. SubSeq(dataset, 1, k) = [j \in 1..k |-> dataset[j]]
    <3>1. dataset \in Seq(Described)
      BY DatasetType
    <3> QED
      BY <1>1, <3>1
  <2>2. SubSeq(s, 1, k) = [j \in 1..k |-> s[j]]
    <3> HIDE DEF s
    <3> QED
      BY <1>1, <1>2
  <2>3. \A j \in 1..k : j \in 1..n
    BY <1>1
  <2>4. SubSeq(s, 1, k) = [j \in 1..k |-> Encoded(dataset[j])]
    <3> HIDE DEF s
    <3> QED
      BY <1>2, <2>2, <2>3
  <2>5. EntriesOf(SubSeq(dataset, 1, k)) = [j \in 1..k |-> Encoded(dataset[j])]
    BY <2>1 DEF EntriesOf
  <2>6. SubSeq(s, 1, k) \in [1..k -> Seq(Byte)]
    <3>1. \A j \in 1..k : Encoded(dataset[j]) \in Seq(Byte)
      BY <1>1, <2>3
    <3>2. [j \in 1..k |-> Encoded(dataset[j])] \in [1..k -> Seq(Byte)]
      BY <3>1
    <3> HIDE DEF s
    <3> QED
      BY <2>4, <3>2
  <2>7. Len(SubSeq(dataset, 1, k)) = k
    BY <1>1, <2>1
  <2> QED
    BY <1>1, <2>4, <2>5, <2>6, <2>7
<1> HIDE DEF s
<1>5. ASSUME NEW k \in 0..n
      PROVE  Entries(k) \in Seq(Byte) /\ Start(k) = 8 + Len(Entries(k))
  <2>1. Entries(k) \in Seq(Byte)
    BY <1>4, FlattenFacts DEF Entries, s
  <2>2. Dump(SubSeq(dataset, 1, k)) = Count(k, 8) \o Entries(k)
    BY <1>4 DEF Dump, Entries, EntriesOf, s
  <2>3. k \in Nat /\ k < 65536
    BY <1>1
  <2>4. Count(k, 8) \in Seq(Byte) /\ Len(Count(k, 8)) = 8
    BY <1>3, <2>3
  <2>5. Len(Count(k, 8) \o Entries(k)) = 8 + Len(Entries(k))
    BY <2>1, <2>4, Joins
  <2> QED
    BY <2>1, <2>2, <2>5 DEF Start
<1>6. Dump(dataset) = Count(n, 8) \o Entries(n)
  <2>1. FlattenSeq(s) = Entries(n)
    BY <1>2, FlattenFacts DEF Entries, s
  <2> QED
    BY <2>1 DEF Dump, EntriesOf, s
<1>7. Entries(0) = <<>>
  BY <1>2, FlattenFacts DEF Entries, s
<1>8. \A k \in 1..n : Entries(k) = Entries(k - 1) \o Encoded(dataset[k])
  <2>1. \A k \in 1..n : Entries(k) = Entries(k - 1) \o s[k]
    BY <1>2, FlattenFacts DEF Entries, s
  <2> QED
    BY <1>2, <2>1
<1> QED
  BY <1>1, <1>3, <1>5, <1>6, <1>7, <1>8

(* Where the entries of a dump are.                                        *)
LEMMA Layout ==
  ASSUME DatasetOK, NEW n, n = Len(dataset)
  PROVE  /\ n \in Nat /\ Start(0) = 8 /\ Start(n) = Len(Dump(dataset))
         /\ \A k \in 0..n : Start(k) \in Nat
         /\ \A k \in 1..n : /\ k - 1 \in 0..n /\ Len(Encoded(dataset[k])) \in Nat
                            /\ Start(k) = Start(k - 1) + Len(Encoded(dataset[k]))
         /\ \A j, k \in 0..n : j <= k => Start(j) <= Start(k)
<1>1. /\ n \in Nat /\ Entries(0) = <<>>
      /\ \A k \in 0..n : Entries(k) \in Seq(Byte) /\ Start(k) = 8 + Len(Entries(k))
      /\ \A k \in 1..n : Entries(k) = Entries(k - 1) \o Encoded(dataset[k])
  BY EntriesFacts
<1>2. Start(0) = 8
  <2>1. 0 \in 0..n /\ Len(<<>>) = 0
    BY <1>1
  <2> QED
    BY <1>1, <2>1
<1>3. Start(n) = Len(Dump(dataset))
  <2>1. dataset \in Seq(Described)
    BY DatasetType
  <2>2. SubSeq(dataset, 1, n) = dataset
    BY <2>1, SubSeqFull
  <2> QED
    BY <2>2 DEF Start
<1>4. \A k \in 0..n : Start(k) \in Nat
  BY <1>1
<1>5. ASSUME NEW k \in 1..n
      PROVE  /\ k - 1 \in 0..n /\ Len(Encoded(dataset[k])) \in Nat
             /\ Start(k) = Start(k - 1) + Len(Encoded(dataset[k]))
  <2> DEFINE e == Encoded(dataset[k])
             b == Entries(k - 1)
  <2>1. k - 1 \in 0..n /\ k \in 0..n
    BY <1>1
  <2>2. e \in Seq(Byte)
    BY DatasetFormed, EncodedBytes
  <2>3. b \in Seq(Byte) /\ Start(k - 1) = 8 + Len(b)
    BY <1>1, <2>1
  <2>4. Entries(k) = b \o e /\ Start(k) = 8 + Len(Entries(k))
    BY <1>1, <2>1
  <2> HIDE DEF e, b
  <2>5. Len(b \o e) = Len(b) + Len(e)
    BY <2>2, <2>3, Joins
  <2> QED
    <3>1. Start(k) = Start(k - 1) + Len(e) /\ Len(e) \in Nat
      <4>1. Len(b) \in Nat /\ Len(e) \in Nat
        BY <2>2, <2>3
      <4>2. Start(k) = 8 + Len(b \o e)
        BY <2>4
      <4> QED
        BY <2>3, <2>5, <4>1, <4>2
    <3> QED
      BY <2>1, <3>1 DEF e
<1>6. ASSUME NEW j \in 0..n, NEW k \in 0..n, j <= k
      PROVE  Start(j) <= Start(k)
  <2> DEFINE S == {d \in Nat : j + d <= n => Start(j) <= Start(j + d)}
  <2>1. 0 \in S
    BY <1>1, <1>4
  <2>2. ASSUME NEW d \in Nat, d \in S PROVE d + 1 \in S
    <3> SUFFICES ASSUME j + (d + 1) <= n PROVE Start(j) <= Start(j + (d + 1))
      OBVIOUS
    <3> DEFINE m == j + (d + 1)
    <3>1. m \in 1..n /\ m - 1 = j + d /\ j + d <= n /\ j + d \in 0..n
      BY <1>1
    <3>2. Start(j) <= Start(j + d)
      BY <2>2, <3>1
    <3> HIDE DEF m
    <3>3. Start(m) = Start(m - 1) + Len(Encoded(dataset[m])) /\ Len(Encoded(dataset[m])) \in Nat
      BY <1>5, <3>1
    <3>4. Start(j) \in Nat /\ Start(j + d) \in Nat
      BY <1>4, <3>1
    <3> QED
      BY <3>1, <3>2, <3>3, <3>4 DEF m
  <2>3. k - j \in Nat /\ j + (k - j) = k
    BY <1>1, <1>6
  <2> HIDE DEF S
  <2>4. k - j \in S
    BY <2>1, <2>2, <2>3, Induction
  <2> QED
    BY <1>1, <2>3, <2>4 DEF S
<1> QED
  BY <1>1, <1>2, <1>3, <1>4, <1>5, <1>6

(* What the payload holds where an entry is, however much of it arrived.   *)
LEMMA Arrival ==
  ASSUME DatasetOK, payload \in Seq(Byte), Matches(0, Dump(dataset)),
         NEW n, n = Len(dataset)
  PROVE  /\ Len(payload) >= 8 => Number(Bytes(0, 8)) = n
         /\ \A k \in 1..n : Matches(Start(k - 1), Encoded(dataset[k]))
<1>1. /\ n \in Nat
      /\ \A k \in 0..n : Entries(k) \in Seq(Byte) /\ Start(k) = 8 + Len(Entries(k))
      /\ \A k \in 1..n : Entries(k) = Entries(k - 1) \o Encoded(dataset[k])
      /\ Dump(dataset) = Count(n, 8) \o Entries(n)
      /\ Count(n, 8) \in Seq(Byte) /\ Len(Count(n, 8)) = 8 /\ Number(Count(n, 8)) = n
  BY EntriesFacts
<1>2. Matches(0, Count(n, 8)) /\ Matches(8, Entries(n))
  <2> DEFINE c == Count(n, 8)
             e == Entries(n)
  <2>1. n \in 0..n
    BY <1>1
  <2>2. c \in Seq(Byte) /\ Len(c) = 8 /\ e \in Seq(Byte) /\ Matches(0, c \o e)
    BY <1>1, <2>1
  <2> HIDE DEF c, e
  <2>3. Matches(0, c) /\ Matches(0 + Len(c), e)
    BY <2>2, MatchesParts
  <2>4. 0 + Len(c) = 8
    BY <2>2
  <2>5. Matches(0, c) /\ Matches(8, e)
    BY <2>3, <2>4
  <2> QED
    BY <2>5 DEF c, e
<1>3. Len(payload) >= 8 => Number(Bytes(0, 8)) = n
  <2> SUFFICES ASSUME Len(payload) >= 8 PROVE Bytes(0, 8) = Count(n, 8)
    BY <1>1
  <2>1. can_read(0, 8)
    BY DEF can_read
  <2> QED
    BY <1>1, <1>2, <2>1, MatchedBytes
<1>4. ASSUME NEW k \in 1..n, Matches(8, Entries(k))
      PROVE  Matches(8, Entries(k - 1)) /\ Matches(Start(k - 1), Encoded(dataset[k]))
  <2> DEFINE e == Encoded(dataset[k])
             b == Entries(k - 1)
  <2>1. k - 1 \in 0..n
    BY <1>1
  <2>2. e \in Seq(Byte)
    BY DatasetFormed, EncodedBytes
  <2>3. b \in Seq(Byte) /\ Start(k - 1) = 8 + Len(b) /\ Entries(k) = b \o e
    BY <1>1, <2>1
  <2> HIDE DEF e, b
  <2>4. Matches(8, b) /\ Matches(8 + Len(b), e)
    BY <1>4, <2>2, <2>3, MatchesParts
  <2> QED
    BY <2>3, <2>4 DEF e, b
<1> DEFINE S == {d \in Nat : d <= n => Matches(8, Entries(n - d))}
<1>5. 0 \in S
  BY <1>1, <1>2
<1>6. ASSUME NEW d \in Nat, d \in S PROVE d + 1 \in S
  <2> SUFFICES ASSUME d + 1 <= n PROVE Matches(8, Entries(n - (d + 1)))
    OBVIOUS
  <2>1. n - d \in 1..n /\ n - (d + 1) = (n - d) - 1 /\ d <= n
    BY <1>1
  <2> QED
    BY <1>4, <1>6, <2>1
<1>7. ASSUME NEW k \in 1..n PROVE Matches(8, Entries(k))
  <2>1. n - k \in Nat /\ n - k <= n /\ n - (n - k) = k
    BY <1>1
  <2> HIDE DEF S
  <2>2. n - k \in S
    BY <1>5, <1>6, <2>1, Induction
  <2> QED
    BY <2>1, <2>2 DEF S
<1> QED
  BY <1>3, <1>4, <1>7

-----------------------------------------------------------------------------
(* The inductive invariant.                                                *)

(* What arrived is the dump of the properties, or the beginning of it.     *)
Arriving ==
  /\ DatasetOK /\ Matches(0, Dump(dataset)) /\ Len(payload) <= Len(Dump(dataset))

(* The dumps of which the parser can be expected to read something.        *)
WholeAndPlain == payload = Dump(dataset) /\ \A k \in DOMAIN dataset : Plain(dataset[k])
AllScalar == \A k \in DOMAIN dataset : IsScalar(dataset[k].type)

(* The codes of the first k properties, and their values recorded.         *)
Codes(k) == {dataset[j].code : j \in 1..k}
Recorded(k) == \A j \in 1..k : out[dataset[j].code] = Meaning(dataset[j])

(* The parser has read the first i properties and is where the next one is. *)
InStep ==
  /\ i <= Len(dataset) /\ offset = Start(i) /\ offset <= Len(payload)
  /\ DOMAIN out = Codes(i) /\ Recorded(i)
  /\ pc = "done" => i = Len(dataset) \/ ~Arrived(i + 1)

(* The last property it has read was cut: no more can be read.             *)
PastCut ==
  /\ i \in 1..Len(dataset) /\ ~Arrived(i) /\ Start(i - 1) <= Len(payload)
  /\ Len(payload) < offset + 7
  /\ DOMAIN out = Codes(i) /\ Recorded(i - 1) /\ out[dataset[i].code] = Zero

(* Not even the count of the properties arrived.                           *)
TooShort == Len(payload) < 8 /\ pc = "done" /\ DOMAIN out = {}

ReadingInv ==
  Arriving /\ (WholeAndPlain \/ AllScalar) => InStep \/ PastCut \/ TooShort

IInv == CursorInv /\ DatasetOK /\ ReadingInv

(* A dump consists of bytes.                                               *)
LEMMA DumpBytes ==
  ASSUME DatasetOK
  PROVE  Dump(dataset) \in Seq(Byte)
<1> DEFINE d == Dump(dataset)
           c == Count(Len(dataset), 8)
           e == Entries(Len(dataset))
<1>1. /\ Len(dataset) \in 0..Len(dataset) /\ c \in Seq(Byte) /\ d = c \o e
      /\ e \in Seq(Byte)
  BY EntriesFacts
<1> HIDE DEF c, e, d
<1>2. d \in Seq(Byte)
  BY <1>1, Joins
<1> QED
  BY <1>2 DEF d

(* What a prefix of the dump is, the whole included.                       *)
LEMMA PrefixArrives ==
  ASSUME DatasetOK, payload \in Seq(Byte),
         IsPrefix(payload, Dump(dataset)) \/ payload = Dump(dataset)
  PROVE  Arriving
<1> DEFINE d == Dump(dataset)
<1>1. d \in Seq(Byte)
  BY DumpBytes
<1> HIDE DEF d
<1>2. CASE payload = d
  BY <1>1, <1>2 DEF Arriving, Matches, d
<1>3. CASE IsPrefix(payload, d)
  <2>1. /\ Len(payload) <= Len(d)
        /\ SubSeq(payload, 1, Len(payload)) = SubSeq(d, 1, Len(payload))
    BY <1>3 DEF IsPrefix
  <2>2. ASSUME NEW j \in 1..Len(payload) PROVE payload[j] = d[j]
    <3>1. Len(payload) \in Nat /\ Len(d) \in Nat
      BY <1>1
    <3>2. SubSeq(payload, 1, Len(payload)) = payload
      BY SubSeqFull
    <3>3. SubSeq(d, 1, Len(payload))[j] = d[j]
      BY <1>1, <2>1, <3>1, SubSeqProperties
    <3> QED
      BY <2>1, <3>2, <3>3
  <2>3. Matches(0, d)
    BY <1>1, <2>2 DEF Matches
  <2> QED
    BY <2>1, <2>3 DEF Arriving, d
<1> QED
  BY <1>2, <1>3 DEF d

(* The parser begins in step, if there is a count at all.                  *)
LEMMA InitIInv == Init => IInv
<1> SUFFICES ASSUME Init PROVE IInv
  OBVIOUS
<1>1. DatasetOK /\ payload \in Seq(Byte)
  <2>1. CASE dataset = <<>> /\ payload \in Payloads
    <3>1. <<>> \in [1..0 -> Described] /\ 0 \in 0..MaxProperties
      BY CameraAssumption
    <3>2. <<>> \in Datasets
      BY <3>1 DEF Datasets
    <3> QED
      BY <2>1, <3>2, CameraAssumption DEF DatasetOK
  <2>2. CASE /\ dataset \in Datasets
             /\ \E n \in 0..Len(Dump(dataset)) : payload = SubSeq(Dump(dataset), 1, n)
    <3> DEFINE d == Dump(dataset)
    <3>1. DatasetOK
      BY <2>2 DEF DatasetOK
    <3>2. d \in Seq(Byte)
      BY <3>1, DumpBytes
    <3>3. PICK n \in 0..Len(d) : payload = SubSeq(d, 1, n)
      BY <2>2
    <3> HIDE DEF d
    <3> QED
      BY <3>1, <3>2, <3>3, SubSeqProperties
  <2> QED
    BY <2>1, <2>2 DEF Init, Arrives
<1>2. CursorInv
  BY <1>1 DEF Init, CursorInv
<1>3. InStep \/ TooShort
  <2>1. CASE Len(payload) < 8
    BY <2>1 DEF Init, TooShort
  <2>2. CASE ~(Len(payload) < 8)
    <3>1. i = 0 /\ offset = 8 /\ pc = "loop" /\ DOMAIN out = {}
      BY <2>2 DEF Init
    <3>2. Start(0) = 8 /\ Len(dataset) \in Nat
      BY <1>1, Layout
    <3>3. Codes(0) = {} /\ Recorded(0)
      BY DEF Codes, Recorded
    <3> QED
      BY <1>1, <2>2, <3>1, <3>2, <3>3 DEF InStep
  <2> QED
    BY <2>1, <2>2
<1> QED
  BY <1>1, <1>2, <1>3 DEF IInv, ReadingInv

(* Of such a dump every property is plain.                                 *)
LEMMA ExpectedPlain ==
  ASSUME WholeAndPlain \/ AllScalar, DatasetOK, NEW k \in 1..Len(dataset)
  PROVE  Plain(dataset[k])
<1>1. k \in DOMAIN dataset
  BY DatasetType
<1> QED
  BY <1>1 DEF WholeAndPlain, AllScalar, Plain

(* The next property, where it is.                                         *)
LEMMA NextEntry ==
  ASSUME CursorInv, Arriving, InStep, NEW k, k = i + 1, k <= Len(dataset)
  PROVE  /\ k \in 1..Len(dataset) /\ WellFormed(dataset[k])
         /\ Matches(offset, Encoded(dataset[k]))
         /\ Start(k) = offset + Len(Encoded(dataset[k]))
         /\ k - 1 = i
<1>1. Len(dataset) \in Nat /\ i \in Nat
  BY DatasetType DEF Arriving, CursorInv
<1>2. k \in 1..Len(dataset) /\ k - 1 = i
  BY <1>1
<1>3. offset = Start(k - 1)
  BY <1>2 DEF InStep
<1>4. WellFormed(dataset[k])
  BY <1>2, DatasetFormed DEF Arriving
<1>5. Matches(Start(k - 1), Encoded(dataset[k]))
  BY <1>2, Arrival DEF Arriving, CursorInv
<1>6. Start(k) = Start(k - 1) + Len(Encoded(dataset[k]))
  BY <1>2, Layout DEF Arriving
<1> QED
  BY <1>2, <1>3, <1>4, <1>5, <1>6

(* If it is whole it can be read.                                          *)
LEMMA NextReadable ==
  ASSUME CursorInv, Arriving, WholeAndPlain \/ AllScalar, InStep, Len(payload) >= 8,
         NEW k, k = i + 1, k <= Len(dataset), Arrived(k)
  PROVE  /\ Readable /\ EntryEnd = Start(k)
         /\ EntryValues.currentValue = Meaning(dataset[k])
<1> DEFINE p == dataset[k]
<1>1. /\ k \in 1..Len(dataset) /\ WellFormed(p) /\ Matches(offset, Encoded(p))
      /\ Start(k) = offset + Len(Encoded(p))
  BY NextEntry
<1>2. Plain(p)
  BY <1>1, ExpectedPlain DEF Arriving
<1>3. Number(Bytes(0, 8)) > i
  <2>1. Number(Bytes(0, 8)) = Len(dataset)
    BY Arrival DEF Arriving, CursorInv
  <2> QED
    BY <1>1, <2>1 DEF CursorInv
<1>4. offset + Len(Encoded(p)) <= Len(payload)
  BY <1>1 DEF Arrived, Start
<1> HIDE DEF p
<1>5. /\ Readable /\ EntryEnd = offset + Len(Encoded(p))
      /\ EntryValues.currentValue = Meaning(p)
  BY <1>1, <1>2, <1>3, <1>4, EntryWhole DEF CursorInv
<1> QED
  BY <1>1, <1>5 DEF p

(* A property that is read leaves the parser in step, or was cut.          *)
LEMMA ReadStep ==
  ASSUME CursorInv, Arriving, WholeAndPlain \/ AllScalar, InStep, ReadEntry
  PROVE  InStep' \/ PastCut'
<1> DEFINE n == Len(dataset)
           k == i + 1
           p == dataset[k]
<1>1. /\ dataset' = dataset /\ payload' = payload /\ pc = "loop" /\ pc' = "loop"
      /\ offset' = EntryEnd /\ i' = k /\ Readable
  BY DEF ReadEntry
<1>2. /\ payload \in Seq(Byte) /\ offset \in Nat /\ i \in Nat /\ Len(payload) >= 8
      /\ offset \in 8..Len(payload) /\ n \in Nat
  BY <1>1, DatasetType DEF CursorInv, Arriving
<1>3. k <= n
  <2>1. Number(Bytes(0, 8)) = n
    BY <1>2, Arrival DEF Arriving
  <2> QED
    BY <1>1, <1>2, <2>1 DEF Readable
<1>4. /\ k \in 1..n /\ WellFormed(p) /\ Matches(offset, Encoded(p))
      /\ Start(k) = offset + Len(Encoded(p)) /\ k - 1 = i
  BY <1>3, NextEntry
<1>5. Bytes(offset, 2) = p.code
  <2>1. can_read(offset, 6)
    BY <1>1 DEF Readable
  <2> HIDE DEF p
  <2> QED
    BY <1>2, <1>4, <2>1, EntryHead
<1>6. ASSUME NEW j \in 1..i PROVE dataset[j].code # p.code
  <2>1. j \in 1..n /\ j # k
    BY <1>2, <1>4
  <2> QED
    BY <1>4, <2>1, DistinctCodes DEF Arriving
<1>7. /\ DOMAIN out' = Codes(k)
      /\ \A j \in 1..i : out'[dataset[j].code] = Meaning(dataset[j])
      /\ out'[p.code] = EntryValues.currentValue
  <2> DEFINE code == p.code
  <2>1. DOMAIN out = Codes(i) /\ \A j \in 1..i : out[dataset[j].code] = Meaning(dataset[j])
    BY DEF InStep, Recorded
  <2>2. out' = [c \in DOMAIN out \cup {code} |->
                  IF c = code THEN EntryValues.currentValue ELSE out[c]]
    BY <1>5 DEF ReadEntry
  <2>3. Codes(k) = Codes(i) \cup {code}
    <3>1. 1..k = (1..i) \cup {k}
      BY <1>2
    <3> QED
      BY <3>1 DEF Codes
  <2>4. \A j \in 1..i : dataset[j].code \in Codes(i) /\ dataset[j].code # code
    BY <1>6 DEF Codes
  <2> HIDE DEF code
  <2>5. DOMAIN out' = Codes(k) /\ out'[code] = EntryValues.currentValue
    BY <2>1, <2>2, <2>3
  <2>6. \A j \in 1..i : out'[dataset[j].code] = Meaning(dataset[j])
    BY <2>1, <2>2, <2>4
  <2> QED
    BY <2>5, <2>6 DEF code
<1>8. Codes(i)' = Codes(k) /\ Start(i)' = Start(k) /\ Len(dataset)' = n
  BY <1>1 DEF Codes, Start
<1>9. CASE Arrived(k)
  <2>1. EntryEnd = Start(k) /\ EntryValues.currentValue = Meaning(p)
    BY <1>2, <1>3, <1>9, NextReadable
  <2>2. Start(k) <= Len(payload)
    BY <1>9 DEF Arrived, Start
  <2>3. Recorded(i)'
    <3>1. \A j \in 1..k : out'[dataset[j].code] = Meaning(dataset[j])
      <4>1. \A j \in 1..k : j \in 1..i \/ j = k
        BY <1>2
      <4> QED
        BY <1>7, <2>1, <4>1
    <3> HIDE DEF k
    <3> QED
      BY <1>1, <3>1 DEF Recorded
  <2>4. InStep'
    <3> HIDE DEF k, n
    <3> QED
      BY <1>1, <1>3, <1>7, <1>8, <2>1, <2>2, <2>3 DEF InStep
  <2> QED
    BY <2>4
<1>10. CASE ~Arrived(k)
  <2>1. Start(k) <= Len(payload) <=> Arrived(k)
    BY DEF Arrived, Start
  <2>2. IsScalar(p.type)
    <3>1. ~WholeAndPlain
      <4> SUFFICES ASSUME WholeAndPlain PROVE FALSE
        OBVIOUS
      <4>1. Len(payload) = Start(n) /\ Start(k) <= Start(n)
        <5>1. k \in 0..n /\ n \in 0..n /\ k <= n
          BY <1>2, <1>4
        <5> QED
          BY <5>1, Layout DEF WholeAndPlain, Arriving
      <4> QED
        BY <1>10, <2>1, <4>1
    <3>2. k \in DOMAIN dataset
      BY <1>4, DatasetType DEF Arriving
    <3> QED
      BY <3>1, <3>2 DEF AllScalar
  <2>3. ~(offset + Len(Encoded(p)) <= Len(payload))
    BY <1>4, <1>10, <2>1
  <2>4. EntryValues.currentValue = Zero /\ Len(payload) < EntryEnd + 7
    <3> HIDE DEF p
    <3> QED
      BY <1>1, <1>2, <1>4, <2>2, <2>3, EntryCut
  <2>5. Start(i) <= Len(payload)
    BY DEF InStep
  <2>6. /\ Start(i - 1)' = Start(i) /\ Arrived(i)' = Arrived(k)
        /\ dataset[i]' = p
    BY <1>1, <1>4 DEF Start, Arrived
  <2>7. Recorded(i - 1)'
    <3>1. i' - 1 = i
      BY <1>1, <1>4
    <3> QED
      BY <1>1, <1>7, <3>1 DEF Recorded
  <2>8. PastCut'
    <3> HIDE DEF k, n, p
    <3> QED
      BY <1>1, <1>4, <1>7, <1>8, <1>10, <2>4, <2>5, <2>6, <2>7 DEF PastCut
  <2> QED
    BY <2>8
<1> QED
  BY <1>9, <1>10

(* A parser in step stops only at the end of what arrived.                 *)
LEMMA StopStep ==
  ASSUME CursorInv, Arriving, WholeAndPlain \/ AllScalar, InStep, StopReading
  PROVE  InStep'
<1>1. UNCHANGED <<dataset, payload, offset, i, out>> /\ ~Readable /\ pc = "loop"
  BY DEF StopReading
<1>2. Len(payload) >= 8
  BY <1>1 DEF CursorInv
<1>3. Len(dataset) \in Nat /\ i \in Nat /\ i <= Len(dataset)
  <2>1. DatasetOK
    BY DEF Arriving
  <2>2. Len(dataset) \in Nat
    BY <2>1, DatasetType
  <2> QED
    BY <2>2 DEF CursorInv, InStep
<1>4. i = Len(dataset) \/ ~Arrived(i + 1)
  <2> SUFFICES ASSUME i # Len(dataset), Arrived(i + 1) PROVE FALSE
    OBVIOUS
  <2>1. i + 1 <= Len(dataset)
    BY <1>3
  <2> QED
    BY <1>1, <1>2, <2>1, NextReadable
<1> QED
  BY <1>1, <1>4 DEF InStep, Start, Codes, Recorded, Arrived

(* After a property that was cut, nothing is read.                         *)
LEMMA PastCutStep ==
  ASSUME CursorInv, PastCut, Next
  PROVE  PastCut'
<1>1. ~Readable
  <2> SUFFICES ASSUME Readable PROVE FALSE
    OBVIOUS
  <2>1. EntryEnd \in (offset + 7)..Len(payload)
    BY EntryEnds DEF CursorInv
  <2> QED
    BY <2>1 DEF PastCut, CursorInv
<1>2. UNCHANGED <<dataset, payload, offset, i, out>>
  BY <1>1 DEF Next, ReadEntry, StopReading
<1> QED
  BY <1>2 DEF PastCut, Start, Codes, Recorded, Arrived

(* Every step keeps the invariant.                                         *)
LEMMA StepIInv == IInv /\ [Next]_vars => IInv'
<1> SUFFICES ASSUME IInv, [Next]_vars PROVE IInv'
  OBVIOUS
<1>1. dataset' = dataset /\ payload' = payload
  BY StepDataset
<1>2. CursorInv'
  BY StepCursor DEF IInv
<1>3. DatasetOK'
  BY <1>1 DEF IInv, DatasetOK, Datasets
<1>4. ReadingInv'
  <2> SUFFICES ASSUME Arriving', (WholeAndPlain \/ AllScalar)'
               PROVE  (InStep \/ PastCut \/ TooShort)'
    BY DEF ReadingInv
  <2>1. Arriving /\ (WholeAndPlain \/ AllScalar)
    <3>1. DatasetOK
      BY DEF IInv
    <3> QED
      BY <1>1, <3>1 DEF WholeAndPlain, AllScalar, Arriving, Matches
  <2>2. CursorInv /\ Arriving /\ (InStep \/ PastCut \/ TooShort)
    BY <2>1 DEF IInv, ReadingInv
  <2>3. CASE InStep /\ ReadEntry
    BY <2>1, <2>2, <2>3, ReadStep
  <2>4. CASE InStep /\ StopReading
    BY <2>1, <2>2, <2>4, StopStep
  <2>5. CASE PastCut /\ Next
    BY <2>2, <2>5, PastCutStep
  <2>6. CASE TooShort /\ Next
    BY <2>6 DEF TooShort, Next, ReadEntry, StopReading
  <2>7. CASE UNCHANGED vars
    BY <2>2, <2>7
       DEF vars, InStep, PastCut, TooShort, Start, Codes, Recorded, Arrived
  <2> QED
    BY <2>2, <2>3, <2>4, <2>5, <2>6, <2>7 DEF Next
<1> QED
  BY <1>2, <1>3, <1>4 DEF IInv

(* What is before something that arrived has arrived.                      *)
LEMMA ArrivedMonotone ==
  ASSUME DatasetOK, NEW j \in 0..Len(dataset), NEW k \in 0..Len(dataset), j <= k,
         Start(k) <= Len(payload), payload \in Seq(Byte)
  PROVE  Start(j) <= Len(payload)
<1>1. Start(j) <= Start(k) /\ Start(j) \in Nat /\ Start(k) \in Nat
  BY Layout
<1> QED
  BY <1>1

(* A whole dump was read to its end.                                       *)
LEMMA WholeIsRead == IInv => WholeDumpIsRead
<1> SUFFICES ASSUME IInv, pc = "done", WholeAndPlain
             PROVE  /\ offset = Len(payload)
                    /\ DOMAIN out = {dataset[k].code : k \in DOMAIN dataset}
                    /\ \A k \in DOMAIN dataset : out[dataset[k].code] = Meaning(dataset[k])
  BY DEF WholeDumpIsRead, WholeAndPlain
<1> DEFINE n == Len(dataset)
<1>1. /\ n \in Nat /\ DOMAIN dataset = 1..n /\ DatasetOK /\ payload \in Seq(Byte)
      /\ i \in Nat
  BY DatasetType DEF IInv, CursorInv
<1>2. Len(payload) = Start(n) /\ Start(0) = 8 /\ Start(n) \in Nat
  BY <1>1, Layout DEF WholeAndPlain
<1>3. \A k \in 0..n : Start(k) <= Len(payload)
  <2>1. n \in 0..n /\ Start(n) <= Len(payload)
    BY <1>1, <1>2
  <2> QED
    BY <1>1, <2>1, ArrivedMonotone
<1>4. ~TooShort
  <2>1. 0 \in 0..n
    BY <1>1
  <2> QED
    BY <1>2, <1>3, <2>1 DEF TooShort
<1>5. \A k \in 1..n : Arrived(k)
  BY <1>1, <1>3 DEF Arrived, Start
<1>6. ~PastCut
  BY <1>5 DEF PastCut
<1>7. InStep
  <2>1. Arriving
    BY <1>1, PrefixArrives DEF WholeAndPlain
  <2> QED
    BY <1>4, <1>6, <2>1 DEF IInv, ReadingInv
<1>8. i = n
  <2> SUFFICES ASSUME i # n PROVE FALSE
    OBVIOUS
  <2>1. i + 1 \in 1..n
    <3>1. i <= n
      BY <1>7 DEF InStep
    <3> HIDE DEF n
    <3> QED
      BY <1>1, <3>1
  <2> QED
    BY <1>5, <1>7, <2>1 DEF InStep
<1> QED
  BY <1>1, <1>2, <1>7, <1>8 DEF InStep, Codes, Recorded

(* Of a dump that was cut, everything before the cut was read.             *)
LEMMA CutIsRead == IInv => CutDumpIsRead
<1> SUFFICES ASSUME IInv, pc = "done", AllScalar, IsPrefix(payload, Dump(dataset))
             PROVE  /\ \A k \in DOMAIN dataset :
                         Arrived(k) =>
                           /\ dataset[k].code \in DOMAIN out
                           /\ out[dataset[k].code] = Meaning(dataset[k])
                    /\ \A c \in DOMAIN out : \E k \in DOMAIN dataset :
                         /\ dataset[k].code = c
                         /\ ~Arrived(k) => (k = 1 \/ Arrived(k - 1)) /\ out[c] = Zero
  BY DEF CutDumpIsRead, AllScalar
<1> DEFINE n == Len(dataset)
<1>1. /\ n \in Nat /\ DOMAIN dataset = 1..n /\ DatasetOK /\ payload \in Seq(Byte)
      /\ i \in Nat
  BY DatasetType DEF IInv, CursorInv
<1>2. \A k \in 0..n : Start(k) <= Len(payload) <=> Arrived(k)
  BY DEF Start, Arrived
<1>3. ASSUME NEW k \in 1..n, Arrived(k), NEW j \in 0..n, j <= k
      PROVE  Arrived(j)
  <2>1. k \in 0..n
    BY <1>1
  <2> QED
    BY <1>1, <1>2, <1>3, <2>1, ArrivedMonotone
<1>4. CASE TooShort
  <2>1. ASSUME NEW k \in 1..n PROVE ~Arrived(k)
    <3>1. k \in 0..n /\ 0 \in 0..n /\ 0 <= k
      BY <1>1
    <3>2. Start(0) <= Start(k) /\ Start(0) = 8 /\ Start(k) \in Nat
      BY <1>1, <3>1, Layout
    <3> QED
      BY <1>1, <1>2, <1>4, <3>1, <3>2 DEF TooShort
  <2> QED
    BY <1>1, <1>4, <2>1 DEF TooShort
<1>5. CASE InStep
  <2>3. i <= n
    BY <1>5 DEF InStep
  <2>1. ASSUME NEW k \in 1..n, Arrived(k) PROVE k \in 1..i
    <3> SUFFICES ASSUME i < k PROVE FALSE
      BY <1>1
    <3>1. i + 1 \in 0..n /\ i + 1 <= k /\ i # n
      <4>1. n \in Nat /\ i \in Nat /\ k \in 1..n
        BY <1>1
      <4> HIDE DEF n
      <4> QED
        BY <2>3, <4>1
    <3>2. Arrived(i + 1)
      BY <1>3, <2>1, <3>1
    <3> QED
      BY <1>5, <3>1, <3>2 DEF InStep
  <2>2. ASSUME NEW k \in 1..i PROVE k \in 1..n /\ Arrived(k)
    <3>1. k \in 0..n /\ i \in 0..n /\ k <= i /\ k \in 1..n
      <4>1. n \in Nat /\ i \in Nat
        BY <1>1
      <4> HIDE DEF n
      <4> QED
        BY <2>3, <4>1
    <3>2. Start(i) <= Len(payload)
      BY <1>5 DEF InStep
    <3> QED
      BY <1>1, <1>2, <3>1, <3>2, ArrivedMonotone
  <2> QED
    BY <1>1, <1>5, <2>1, <2>2 DEF InStep, Codes, Recorded
<1>6. CASE PastCut
  <2>1. i \in 1..n /\ ~Arrived(i) /\ i - 1 \in 0..n
    BY <1>1, <1>6 DEF PastCut
  <2>2. ASSUME NEW k \in 1..n, Arrived(k) PROVE k \in 1..(i - 1) /\ k \in 1..i
    <3> SUFFICES ASSUME i <= k PROVE FALSE
      BY <1>1
    <3>1. i \in 0..n
      BY <2>1
    <3> QED
      BY <1>3, <2>1, <2>2, <3>1
  <2>3. i = 1 \/ Arrived(i - 1)
    BY <1>2, <1>6, <2>1 DEF PastCut
  <2>4. ASSUME NEW k \in 1..i
        PROVE  /\ k \in 1..n
               /\ ~Arrived(k) => (k = 1 \/ Arrived(k - 1)) /\ out[dataset[k].code] = Zero
    <3>1. k \in 1..n
      BY <2>1
    <3>2. CASE k = i
      BY <1>6, <2>3, <3>1, <3>2 DEF PastCut
    <3>3. CASE k # i
      <4>1. k \in 0..n /\ k <= i - 1 /\ i - 1 \in 0..n
        BY <1>1, <2>1, <3>3
      <4>2. Start(i - 1) <= Len(payload)
        BY <1>6 DEF PastCut
      <4>3. Start(k) <= Len(payload)
        BY <1>1, <4>1, <4>2, ArrivedMonotone
      <4> QED
        BY <1>2, <3>1, <4>1, <4>3
    <3> QED
      BY <3>2, <3>3
  <2>5. DOMAIN out = Codes(i) /\ Recorded(i - 1)
    BY <1>6 DEF PastCut
  <2>6. \A k \in 1..n : Arrived(k) =>
          dataset[k].code \in DOMAIN out /\ out[dataset[k].code] = Meaning(dataset[k])
    BY <2>2, <2>5 DEF Codes, Recorded
  <2>7. \A c \in DOMAIN out : \E k \in 1..n :
          /\ dataset[k].code = c
          /\ ~Arrived(k) => (k = 1 \/ Arrived(k - 1)) /\ out[c] = Zero
    BY <2>4, <2>5 DEF Codes
  <2> QED
    BY <1>1, <2>6, <2>7
<1>7. InStep \/ PastCut \/ TooShort
  <2>1. Arriving
    BY <1>1, PrefixArrives
  <2> QED
    BY <2>1 DEF IInv, ReadingInv
<1> QED
  BY <1>4, <1>5, <1>6, <1>7

(* The inductive invariant.                                                *)
THEOREM Invariance == Spec => []IInv
  BY InitIInv, StepIInv, PTL DEF Spec

(* Whatever arrives, the parser leaves neither the payload nor its types.  *)
THEOREM TypeCorrect == Spec => []TypeOK
<1>1. IInv => TypeOK
  BY CursorTypes DEF IInv, DatasetOK
<1> QED
  BY <1>1, Invariance, PTL

(* Whatever arrives, its loop moves on by seven bytes at least.            *)
THEOREM Advance == Spec => EntriesAdvance
<1>1. IInv => CursorInv
  BY DEF IInv
<1> QED
  BY <1>1, Invariance, StepAdvances, PTL DEF Spec, EntriesAdvance

(* So it ends: there is no more than one iteration per seven bytes,        *)
(* however many entries the payload announces.                             *)
THEOREM EntriesFit == Spec => [](i > 0 => 8 + 7 * i <= Len(payload))
<1>1. IInv => (i > 0 => 8 + 7 * i <= Len(payload))
  BY DEF IInv, CursorInv
<1> QED
  BY <1>1, Invariance, PTL

(* ParseDeviceProperties() reads every whole dump exactly: any number of   *)
(* properties of any type, with ranges and enumerations of scalars.        *)
THEOREM WholeRead == Spec => []WholeDumpIsRead
  BY WholeIsRead, Invariance, PTL

(* Of a dump of scalars it reads everything before the cut, and of the     *)
(* property that was cut at most a 0.                                      *)
THEOREM CutRead == Spec => []CutDumpIsRead
  BY CutIsRead, Invariance, PTL
=============================================================================
