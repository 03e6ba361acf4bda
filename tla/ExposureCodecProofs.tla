------------------------ MODULE ExposureCodecProofs -------------------------
(****************************************************************************)
(* The search for a raw shutter speed: what it returns, for every field     *)
(* width, every largest denominator and every time.                         *)
(****************************************************************************)
EXTENDS ExposureCodec, TLAPS

(* How far the time s is from p, times both denominators.                  *)
Off(s, p) == Abs(s.num * p.den - p.num * s.den)

(* p is nearer to s than q: Closer(p, q) for any time.                     *)
Nearer(s, p, q) == Off(s, p) * q.den < Off(s, q) * p.den

(* The candidates of a time, with the value that the search starts from.   *)
Rounded(s, d) == Ratio(llround(s, d), d)
IsItem(s, k)  == k = 0 \/ llround(s, k) \in 1..MaxField
Item(s, k)    == IF k = 0 THEN One ELSE Rounded(s, k)

(* Of the first candidates, b is the nearest, and of those the first.      *)
Picked(s, b, last) ==
  \E k \in 0..last :
    /\ IsItem(s, k) /\ b = Item(s, k)
    /\ \A j \in 0..last :
         IsItem(s, j) => /\ j < k => Nearer(s, b, Item(s, j))
                         /\ j > k => ~Nearer(s, Item(s, j), b)

(* What EncodeShutterSpeedRaw() returns for a reciprocal speed.            *)
Encodes(speed, raw) ==
  IF speed.num = 0
  THEN raw = NoTime
  ELSE Picked(Ratio(speed.den, speed.num), raw, MaxDenominator)

(* Denominator d has no candidate for s: even 1/d is more than twice s.    *)
TooLong(s, d) == 2 * s.num * d < s.den

(* The time is not longer than every candidate.                            *)
FitsOnce(s) == 2 * s.num < (2 * MaxField + 1) * s.den

(* No fraction with denominator d is nearer to s than b, unless s is too   *)
(* long for it anyway.                                                     *)
Covered(s, b, d) ==
  TooLong(s, d) \/ \A n \in 1..MaxField : ~Nearer(s, Ratio(n, d), b)

(* So far the search has the first nearest candidate, and no fraction with *)
(* the denominators it has seen is nearer, candidate or not.               *)
SearchInv ==
  /\ SearchTypeOK
  /\ denominator > 0 /\ secs = Zero =>
       best = NoTime /\ denominator = MaxDenominator + 1
  /\ denominator > 0 /\ secs # Zero =>
       /\ best.num > 0 /\ best.den > 0
       /\ Picked(secs, best, denominator - 1)
       /\ FitsOnce(secs) =>
            \/ Off(secs, best) = 0
            \/ \A d \in 1..(denominator - 1) : Covered(secs, best, d)

-----------------------------------------------------------------------------
(* Division with a remainder.                                              *)
LEMMA Division ==
  ASSUME NEW x \in Nat, NEW y \in Nat \ {0}
  PROVE  /\ x \div y \in Nat
         /\ y * (x \div y) <= x /\ x < y * (x \div y) + y
OBVIOUS

(* Fractions compare like numbers, whatever their denominators.            *)
LEMMA CrossMultiplied ==
  ASSUME NEW a \in Nat, NEW b \in Nat, NEW c \in Nat,
         NEW x \in Nat \ {0}, NEW y \in Nat \ {0}, NEW z \in Nat \ {0}
  PROVE  /\ a * y < b * x /\ b * z <= c * y => a * z < c * x
         /\ a * y <= b * x /\ b * z < c * y => a * z < c * x
         /\ a * y <= b * x /\ b * z <= c * y => a * z <= c * x
OBVIOUS

(* Multiples of m are at least m apart.                                    *)
LEMMA Multiples ==
  ASSUME NEW a \in Nat, NEW b \in Nat, NEW m \in Nat, a < b
  PROVE  a * m + m <= b * m
<1>1. (a + 1) * m <= b * m
  OBVIOUS
<1> QED
  BY <1>1

(* The factors of a product may change places.                             *)
LEMMA Reordered ==
  ASSUME NEW x \in Nat, NEW y \in Nat, NEW z \in Nat
  PROVE  (x * y) * z = (x * z) * y
OBVIOUS

(* A difference of products, multiplied out.                               *)
LEMMA Expanded ==
  ASSUME NEW u \in Nat, NEW v \in Nat, NEW x \in Nat, NEW y \in Nat, NEW b \in Nat
  PROVE  (u * v - x * y) * b = (u * v) * b - (x * b) * y
<1>1. PICK p \in Nat, q \in Nat : p = u * v /\ q = x * y
  OBVIOUS
<1>2. (p - q) * b = p * b - q * b
  BY <1>1
<1>3. q * b = (x * b) * y
  BY <1>1
<1> QED
  BY <1>1, <1>2, <1>3

(* The distance to a fraction is a natural number.                         *)
LEMMA OffType ==
  ASSUME NEW s \in Ratios, NEW n \in Nat, NEW d \in Nat
  PROVE  Off(s, Ratio(n, d)) \in Nat
<1>1. s.num * d - n * s.den \in Int
  BY DEF Ratios
<1> QED
  BY <1>1 DEF Off, Ratio, Abs

(* llround() returns a nearest integer, the larger one at a tie.           *)
LEMMA Rounding ==
  ASSUME NEW s \in Ratios, NEW d \in Nat \ {0}
  PROVE  /\ llround(s, d) \in Nat
         /\ 2 * (s.den * llround(s, d)) <= 2 * (s.num * d) + s.den
         /\ 2 * (s.num * d) + s.den < 2 * (s.den * llround(s, d)) + 2 * s.den
<1> DEFINE x == 2 * s.num * d + s.den
           y == 2 * s.den
<1>1. x \in Nat /\ y \in Nat \ {0}
  BY DEF Ratios
<1>2. x \div y \in Nat /\ y * (x \div y) <= x /\ x < y * (x \div y) + y
  <2> HIDE DEF x, y
  <2> QED
    BY <1>1, Division
<1>3. PICK r \in Nat : r = llround(s, d)
  BY <1>2 DEF llround
<1>4. y * r <= x /\ x < y * r + y
  BY <1>2, <1>3 DEF llround
<1>5. y * r = 2 * (s.den * r) /\ x = 2 * (s.num * d) + s.den
  BY <1>3 DEF Ratios
<1> QED
  BY <1>3, <1>4, <1>5

(* One numerator per denominator is enough.                                *)
LEMMA NearestNumerator ==
  ASSUME NEW s \in Ratios, NEW d \in Nat \ {0}, NEW n \in Nat
  PROVE  Off(s, Rounded(s, d)) <= Off(s, Ratio(n, d))
<1>1. PICK r \in Nat : r = llround(s, d)
  BY Rounding
<1>2. PICK P \in Nat, R \in Nat, Q \in Nat, M \in Nat \ {0} :
        P = s.num * d /\ R = r * s.den /\ Q = n * s.den /\ M = s.den
  BY DEF Ratios
<1>3. 2 * R <= 2 * P + M /\ 2 * P < 2 * R + M
  <2>1. s.den * r = R
    BY <1>1, <1>2 DEF Ratios
  <2> QED
    BY <1>1, <1>2, <2>1, Rounding
<1>4. n = r \/ Q <= R - M \/ Q >= R + M
  <2>1. CASE n < r
    BY <1>1, <1>2, <2>1, Multiples
  <2>2. CASE n > r
    BY <1>1, <1>2, <2>2, Multiples
  <2> QED
    BY <1>1, <2>1, <2>2
<1>5. Off(s, Rounded(s, d)) = Abs(P - R) /\ Off(s, Ratio(n, d)) = Abs(P - Q)
  BY <1>1, <1>2 DEF Off, Rounded, Ratio
<1>6. n = r => R = Q
  BY <1>2
<1>7. Abs(P - R) <= Abs(P - Q)
  BY <1>2, <1>3, <1>4, <1>6 DEF Abs
<1> QED
  BY <1>5, <1>7

(* Where the nearest numerator does not fit, a smaller denominator has a   *)
(* fraction that is at least as near as all of this denominator's.         *)
LEMMA BeyondField ==
  ASSUME NEW s \in Ratios, NEW f \in Nat \ {0}, NEW d \in Nat, d >= 2,
         2 * (s.num * d) >= (2 * f + 1) * s.den,
         NEW n \in 1..f
  PROVE  \E a \in 1..f :
           Off(s, Ratio(a, d - 1)) * d <= Off(s, Ratio(n, d)) * (d - 1)
<1>1. PICK N \in Nat, M \in Nat \ {0} : N = s.num /\ M = s.den
  BY DEF Ratios
<1>2. PICK q \in Nat : d * q <= f /\ f < d * q + d
  <2>1. /\ f \div d \in Nat
        /\ d * (f \div d) <= f /\ f < d * (f \div d) + d
    BY Division
  <2> QED
    BY <2>1
<1>3. PICK b \in Nat \ {0} : b = d - 1
  OBVIOUS
<1>4. PICK a \in 1..f : a = f - q
  <2>1. 2 * q <= d * q
    BY <1>2
  <2> QED
    BY <1>2, <2>1
<1>5. f \in Nat /\ N \in Nat /\ M \in Nat /\ b \in Nat /\ a \in Nat
  BY <1>1, <1>3, <1>4
<1>6. a * d >= f * b
  <2>1. a * d = f * d - d * q /\ f * b = f * d - f
    BY <1>2, <1>3, <1>4
  <2> QED
    BY <1>2, <2>1
<1>7. a * d <= f * b + b
  <2>1. a * d = f * d - d * q /\ f * b = f * d - f
    BY <1>2, <1>3, <1>4
  <2> QED
    BY <1>2, <1>3, <2>1
<1>8. Off(s, Ratio(n, d)) * b >= (N * d - f * M) * b
  <2>1. Off(s, Ratio(n, d)) = N * d - n * M /\ n * M <= f * M
    <3>1. n * M <= f * M
      BY <1>1
    <3>2. (2 * f + 1) * M = 2 * (f * M) + M
      BY <1>1
    <3> QED
      BY <1>1, <3>1, <3>2 DEF Off, Ratio, Abs
  <2>2. N * d - f * M \in Int /\ N * d - n * M \in Int
    BY <1>1
  <2>3. N * d - f * M <= N * d - n * M
    BY <1>1, <2>1
  <2> QED
    BY <1>3, <2>1, <2>2, <2>3
<1>9. (N * b - a * M) * d <= (N * d - f * M) * b
  <2>1. (N * b - a * M) * d = (N * d) * b - (a * d) * M
    BY <1>1, <1>3, <1>4
  <2>2. (N * d - f * M) * b = (N * d) * b - (f * b) * M
    BY <1>5, Expanded
  <2>3. (f * b) * M <= (a * d) * M
    BY <1>1, <1>3, <1>4, <1>6
  <2> QED
    BY <1>1, <1>3, <1>4, <2>1, <2>2, <2>3
<1>10. (a * M - N * b) * d <= (N * d - f * M) * b
  <2>1. (a * M - N * b) * d = (a * d) * M - (N * d) * b
    BY <1>1, <1>3, <1>4
  <2>2. (N * d - f * M) * b = (N * d) * b - (f * b) * M
    BY <1>5, Expanded
  <2>3. (a * d) * M <= (f * b + b) * M
    BY <1>1, <1>3, <1>4, <1>7
  <2>4. (2 * f + 1) * M * b <= 2 * (N * d) * b
    BY <1>1, <1>3
  <2>5. (f * b + b) * M = (f * b) * M + b * M
    BY <1>1, <1>3
  <2>6. (2 * f + 1) * M * b = 2 * ((f * b) * M) + b * M
    <3>1. (2 * f + 1) * M = 2 * (f * M) + M
      BY <1>1
    <3>2. (2 * (f * M) + M) * b = 2 * ((f * M) * b) + M * b
      BY <1>1, <1>3
    <3>3. (f * M) * b = (f * b) * M
      BY <1>5, Reordered
    <3> QED
      BY <1>1, <1>3, <3>1, <3>2, <3>3
  <2>7. 2 * (N * d) * b = 2 * ((N * d) * b)
    BY <1>1, <1>3
  <2> QED
    BY <1>1, <1>3, <1>4, <2>1, <2>2, <2>3, <2>4, <2>5, <2>6, <2>7
<1>11. Off(s, Ratio(a, b)) * d <= (N * d - f * M) * b
  BY <1>1, <1>3, <1>4, <1>9, <1>10 DEF Off, Ratio, Abs
<1>12. Off(s, Ratio(a, b)) * d <= Off(s, Ratio(n, d)) * b
  <2>1. Off(s, Ratio(a, b)) \in Nat /\ Off(s, Ratio(n, d)) \in Nat
    <3>1. a \in Nat /\ n \in Nat /\ b \in Nat
      BY <1>3, <1>4
    <3> QED
      BY <3>1, OffType
  <2>2. (N * d - f * M) * b \in Int
    BY <1>1, <1>3
  <2> QED
    BY <1>3, <1>8, <1>11, <2>1, <2>2
<1> QED
  BY <1>3, <1>4, <1>12

(* A time that is too long for d is nearer to the candidate of a larger    *)
(* denominator that it is not too long for than to any fraction of d.      *)
LEMMA BelowOne ==
  ASSUME NEW s \in Ratios, NEW d \in Nat \ {0}, NEW e \in Nat \ {0}, d <= e,
         TooLong(s, d), ~TooLong(s, e), NEW n \in Nat \ {0}
  PROVE  /\ llround(s, e) \in 1..e
         /\ Off(s, Rounded(s, e)) * d <= Off(s, Ratio(n, d)) * e
<1>1. PICK N \in Nat, M \in Nat \ {0} : N = s.num /\ M = s.den
  BY DEF Ratios
<1>2. PICK m \in Nat : m = llround(s, e)
  BY Rounding
<1>3. /\ 2 * (M * m) <= 2 * (N * e) + M
      /\ 2 * (N * e) + M < 2 * (M * m) + 2 * M
  BY <1>1, <1>2, Rounding
<1>4. 2 * (N * d) < M /\ 2 * (N * e) >= M
  BY <1>1 DEF TooLong
<1>5. m >= 1
  BY <1>1, <1>2, <1>3, <1>4
<1>6. m <= e
  <2>1. N <= N * d
    BY <1>1
  <2>2. 2 * (N * e) <= M * e
    <3>1. 2 * N <= M
      BY <1>1, <1>4, <2>1
    <3>2. 2 * (N * e) = (2 * N) * e
      BY <1>1
    <3> QED
      BY <1>1, <3>1, <3>2
  <2>3. CASE m > e
    <3>1. M * e + M <= M * m
      <4>1. e * M + M <= m * M
        BY <1>1, <1>2, <2>3, Multiples
      <4> QED
        BY <1>1, <1>2, <4>1
    <3>2. M * e >= 0
      BY <1>1
    <3> QED
      BY <1>1, <1>2, <1>3, <2>2, <3>1, <3>2
  <2> QED
    BY <1>2, <2>3
<1>7. 2 * Off(s, Rounded(s, e)) <= M
  <2>1. Off(s, Rounded(s, e)) = Abs(N * e - M * m)
    BY <1>1, <1>2 DEF Off, Rounded, Ratio
  <2> QED
    BY <1>1, <1>2, <1>3, <2>1 DEF Abs
<1>8. 2 * Off(s, Ratio(n, d)) >= M
  <2>1. Off(s, Ratio(n, d)) = Abs(N * d - n * M)
    BY <1>1 DEF Off, Ratio
  <2>2. n * M >= M
    BY <1>1
  <2> QED
    BY <1>1, <1>4, <2>1, <2>2 DEF Abs
<1>9. PICK A \in Nat, B \in Nat :
        A = Off(s, Rounded(s, e)) /\ B = Off(s, Ratio(n, d))
  BY <1>2, OffType DEF Rounded
<1>10. A * d <= B * e
  <2>1. A <= B
    BY <1>1, <1>7, <1>8, <1>9
  <2>2. A * d <= B * d /\ B * d <= B * e
    BY <1>9, <2>1
  <2> QED
    BY <1>9, <2>2
<1> QED
  BY <1>2, <1>5, <1>6, <1>9, <1>10

-----------------------------------------------------------------------------
(* Fractions that fit into the fields are ratios, and so are candidates.   *)
LEMMA Items ==
  ASSUME NEW s \in Ratios, NEW k \in Nat
  PROVE  /\ Item(s, k) \in Ratios
         /\ IsItem(s, k) => Item(s, k).num > 0
<1>1. k # 0 => llround(s, k) \in Nat
  BY Rounding
<1> QED
  BY <1>1 DEF Item, IsItem, Rounded, One, Ratio, Ratios

(* To be nearer, and not to be farther, are transitive.                    *)
LEMMA NearerTransitive ==
  ASSUME NEW s \in Ratios, NEW p \in Ratios, NEW q \in Ratios, NEW r \in Ratios
  PROVE  /\ Nearer(s, p, q) /\ ~Nearer(s, r, q) => Nearer(s, p, r)
         /\ ~Nearer(s, q, p) /\ Nearer(s, q, r) => Nearer(s, p, r)
         /\ ~Nearer(s, q, p) /\ ~Nearer(s, r, q) => ~Nearer(s, r, p)
         /\ Nearer(s, p, q) => ~Nearer(s, q, p)
<1>1. PICK a \in Nat, b \in Nat, c \in Nat :
        a = Off(s, p) /\ b = Off(s, q) /\ c = Off(s, r)
  <2>1. ASSUME NEW f \in Ratios PROVE Off(s, f) \in Nat
    <3>1. f = Ratio(f.num, f.den) /\ f.num \in Nat /\ f.den \in Nat
      BY DEF Ratios, Ratio
    <3> QED
      BY <3>1, OffType
  <2> QED
    BY <2>1
<1>2. PICK x \in Nat \ {0}, y \in Nat \ {0}, z \in Nat \ {0} :
        x = p.den /\ y = q.den /\ z = r.den
  BY DEF Ratios
<1>3. /\ Nearer(s, p, q) <=> a * y < b * x
      /\ Nearer(s, q, p) <=> b * x < a * y
      /\ Nearer(s, p, r) <=> a * z < c * x
      /\ Nearer(s, r, p) <=> c * x < a * z
      /\ Nearer(s, q, r) <=> b * z < c * y
      /\ Nearer(s, r, q) <=> c * y < b * z
  BY <1>1, <1>2 DEF Nearer
<1>4. /\ a * y < b * x /\ b * z <= c * y => a * z < c * x
      /\ a * y <= b * x /\ b * z < c * y => a * z < c * x
      /\ a * y <= b * x /\ b * z <= c * y => a * z <= c * x
  BY CrossMultiplied
<1>5. /\ a * y \in Nat /\ b * x \in Nat /\ b * z \in Nat
      /\ c * y \in Nat /\ a * z \in Nat /\ c * x \in Nat
  BY <1>2
<1> QED
  BY <1>3, <1>4, <1>5

(* Nothing is nearer than what is exact.                                   *)
LEMMA ExactIsNearest ==
  ASSUME NEW s \in Ratios, NEW p \in Ratios, NEW b \in Ratios, Off(s, b) = 0
  PROVE  ~Nearer(s, p, b)
<1>1. Off(s, p) \in Nat
  <2>1. p = Ratio(p.num, p.den) /\ p.num \in Nat /\ p.den \in Nat
    BY DEF Ratios, Ratio
  <2> QED
    BY <2>1, OffType
<1>2. /\ Off(s, p) * b.den \in Nat
      /\ Off(s, b) * p.den = 0
  BY <1>1 DEF Ratios
<1> QED
  BY <1>2 DEF Nearer

(* The next candidate is taken if it is nearer than the ones before it.    *)
LEMMA PickNext ==
  ASSUME NEW s \in Ratios, NEW d \in Nat \ {0}, NEW b, Picked(s, b, d - 1), NEW c,
         c = IF IsItem(s, d) /\ Nearer(s, Rounded(s, d), b) THEN Rounded(s, d) ELSE b
  PROVE  Picked(s, c, d)
<1>1. PICK k \in 0..(d - 1) :
        /\ IsItem(s, k) /\ b = Item(s, k)
        /\ \A j \in 0..(d - 1) :
             IsItem(s, j) => /\ j < k => Nearer(s, b, Item(s, j))
                             /\ j > k => ~Nearer(s, Item(s, j), b)
  BY DEF Picked
<1>2. b \in Ratios /\ Item(s, d) \in Ratios /\ Item(s, d) = Rounded(s, d)
  BY <1>1, Items DEF Item
<1>3. CASE IsItem(s, d) /\ Nearer(s, Rounded(s, d), b)
  <2>1. ASSUME NEW j \in 0..(d - 1), IsItem(s, j)
        PROVE  Nearer(s, c, Item(s, j))
    <3>1. Item(s, j) \in Ratios
      BY Items
    <3>2. CASE j < k
      BY <1>1, <1>2, <1>3, <2>1, <3>1, <3>2, NearerTransitive
    <3>3. CASE j = k
      BY <1>1, <1>3, <3>3
    <3>4. CASE j > k
      BY <1>1, <1>2, <1>3, <2>1, <3>1, <3>4, NearerTransitive
    <3> QED
      BY <3>2, <3>3, <3>4
  <2> QED
    BY <1>2, <1>3, <2>1 DEF Picked
<1>4. CASE ~(IsItem(s, d) /\ Nearer(s, Rounded(s, d), b))
  <2>1. \A j \in 0..d : j \in 0..(d - 1) \/ j = d
    OBVIOUS
  <2>2. k \in 0..d
    OBVIOUS
  <2> QED
    BY <1>1, <1>2, <1>4, <2>1, <2>2 DEF Picked
<1> QED
  BY <1>3, <1>4

(* After an exact candidate the search may stop.                           *)
LEMMA PickedExact ==
  ASSUME NEW s \in Ratios, NEW d \in Nat, NEW last \in Nat, d <= last,
         NEW b, Picked(s, b, d), Off(s, b) = 0
  PROVE  Picked(s, b, last)
<1>1. PICK k \in 0..d :
        /\ IsItem(s, k) /\ b = Item(s, k)
        /\ \A j \in 0..d : IsItem(s, j) => (j < k => Nearer(s, b, Item(s, j)))
  BY DEF Picked
<1>2. \A j \in 0..last : ~Nearer(s, Item(s, j), b)
  BY <1>1, Items, ExactIsNearest
<1>3. \A j \in 0..last : j < k => j \in 0..d
  OBVIOUS
<1> QED
  BY <1>1, <1>2, <1>3 DEF Picked

(* There is one first nearest candidate.                                   *)
LEMMA PickedUnique ==
  ASSUME NEW s \in Ratios, NEW last \in Nat, NEW b, NEW c,
         Picked(s, b, last), Picked(s, c, last)
  PROVE  b = c
<1>1. PICK k \in 0..last :
        /\ IsItem(s, k) /\ b = Item(s, k)
        /\ \A j \in 0..last :
             IsItem(s, j) => /\ j < k => Nearer(s, b, Item(s, j))
                             /\ j > k => ~Nearer(s, Item(s, j), b)
  BY DEF Picked
<1>2. PICK l \in 0..last :
        /\ IsItem(s, l) /\ c = Item(s, l)
        /\ \A j \in 0..last :
             IsItem(s, j) => /\ j < l => Nearer(s, c, Item(s, j))
                             /\ j > l => ~Nearer(s, Item(s, j), c)
  BY DEF Picked
<1>3. CASE k < l
  BY <1>1, <1>2, <1>3
<1>4. CASE l < k
  BY <1>1, <1>2, <1>4
<1>5. CASE k = l
  BY <1>1, <1>2, <1>5
<1> QED
  BY <1>3, <1>4, <1>5

-----------------------------------------------------------------------------
(* After it has looked at one more candidate, it knows it of one more      *)
(* denominator: either the candidate fits and is as near as any, or the    *)
(* denominator before has something that is.                               *)
LEMMA CoverNext ==
  ASSUME NEW s \in Ratios, NEW d \in Nat \ {0}, NEW b \in Ratios, NEW c \in Ratios,
         FitsOnce(s), d > 1 => Covered(s, b, d - 1),
         c = IF IsItem(s, d) /\ Nearer(s, Rounded(s, d), b) THEN Rounded(s, d) ELSE b
  PROVE  Covered(s, c, d)
<1>1. SUFFICES ASSUME ~TooLong(s, d), NEW n \in 1..MaxField
               PROVE  ~Nearer(s, Ratio(n, d), c)
  BY DEF Covered
<1>2. n \in Nat /\ Ratio(n, d) \in Ratios /\ Rounded(s, d) \in Ratios
  BY Rounding, CodecAssumption DEF Ratio, Ratios, Rounded
<1>3. CASE IsItem(s, d)
  <2>1. ~Nearer(s, Ratio(n, d), Rounded(s, d))
    <3>1. PICK p \in Nat, q \in Nat :
            p = Off(s, Rounded(s, d)) /\ q = Off(s, Ratio(n, d))
      BY <1>2, OffType, Rounding DEF Rounded
    <3>2. p <= q
      BY <1>2, <3>1, NearestNumerator
    <3>3. p * d <= q * d
      BY <3>1, <3>2
    <3> QED
      BY <3>1, <3>3 DEF Nearer, Rounded, Ratio
  <2>2. ~Nearer(s, Rounded(s, d), c)
    <3>1. CASE Nearer(s, Rounded(s, d), b)
      <4>1. c = Rounded(s, d)
        BY <1>3, <3>1
      <4> QED
        BY <1>2, <4>1, NearerTransitive
    <3>2. CASE ~Nearer(s, Rounded(s, d), b)
      BY <3>2
    <3> QED
      BY <3>1, <3>2
  <2> QED
    BY <1>2, <2>1, <2>2, NearerTransitive
<1>4. CASE ~IsItem(s, d)
  <2>1. PICK N \in Nat, M \in Nat \ {0}, r \in Nat, f \in Nat \ {0} :
          N = s.num /\ M = s.den /\ r = llround(s, d) /\ f = MaxField
    BY Rounding, CodecAssumption DEF Ratios
  <2>2. /\ 2 * (M * r) <= 2 * (N * d) + M
        /\ 2 * (N * d) + M < 2 * (M * r) + 2 * M
    BY <2>1, Rounding
  <2>3. 2 * (N * d) >= M
    BY <1>1, <2>1 DEF TooLong
  <2>4. r > f
    <3>1. r # 0
      BY <2>1, <2>2, <2>3
    <3> QED
      BY <1>4, <2>1, <3>1 DEF IsItem
  <2>5. 2 * (N * d) >= (2 * f + 1) * M
    <3>1. f * M + M <= r * M /\ r * M = M * r
      BY <2>1, <2>4, Multiples
    <3>2. (2 * f + 1) * M = 2 * (f * M) + M
      BY <2>1
    <3>3. f * M \in Nat /\ M * r \in Nat /\ N * d \in Nat
      BY <2>1
    <3> QED
      BY <2>1, <2>2, <3>1, <3>2, <3>3
  <2>6. d >= 2
    <3>1. CASE d = 1
      <4>1. 2 * (N * d) = 2 * N
        BY <2>1, <3>1
      <4> QED
        BY <2>1, <2>5, <4>1 DEF FitsOnce
    <3> QED
      BY <3>1
  <2>7. ~TooLong(s, d - 1)
    <3>1. N * d = N * (d - 1) + N /\ N <= N * (d - 1)
      BY <2>1, <2>6
    <3>2. (2 * f + 1) * M >= 3 * M
      BY <2>1
    <3>3. 2 * (N * (d - 1)) >= M
      BY <2>1, <2>5, <3>1, <3>2
    <3> QED
      BY <2>1, <2>6, <3>3 DEF TooLong
  <2>8. PICK a \in 1..f :
          Off(s, Ratio(a, d - 1)) * d <= Off(s, Ratio(n, d)) * (d - 1)
    BY <2>1, <2>5, <2>6, BeyondField
  <2>9. Ratio(a, d - 1) \in Ratios
    BY <2>1, <2>6 DEF Ratio, Ratios
  <2>10. ~Nearer(s, Ratio(a, d - 1), b)
    BY <2>1, <2>6, <2>7 DEF Covered
  <2>11. ~Nearer(s, Ratio(n, d), Ratio(a, d - 1))
    <3>1. /\ Off(s, Ratio(a, d - 1)) * d \in Nat
          /\ Off(s, Ratio(n, d)) * (d - 1) \in Nat
      <4>1. a \in Nat /\ d - 1 \in Nat
        BY <2>1
      <4>2. Off(s, Ratio(a, d - 1)) \in Nat /\ Off(s, Ratio(n, d)) \in Nat
        BY <1>2, <4>1, OffType
      <4> QED
        BY <4>1, <4>2
    <3> QED
      BY <2>8, <3>1 DEF Nearer, Ratio
  <2> QED
    BY <1>2, <1>4, <2>9, <2>10, <2>11, NearerTransitive
<1> QED
  BY <1>3, <1>4

(* What is known of a denominator stays known when something nearer is     *)
(* found.                                                                  *)
LEMMA StaysCovered ==
  ASSUME NEW s \in Ratios, NEW d \in Nat \ {0}, NEW b \in Ratios, NEW c \in Ratios,
         Covered(s, b, d), c = b \/ Nearer(s, c, b)
  PROVE  Covered(s, c, d)
<1>1. \A n \in 1..MaxField : Ratio(n, d) \in Ratios
  BY CodecAssumption DEF Ratio, Ratios
<1> QED
  BY <1>1, NearerTransitive DEF Covered

(* When every denominator is covered, the result is a nearest fraction of  *)
(* all, if the time is not too long for all of them.                       *)
LEMMA AllCovered ==
  ASSUME NEW s \in Ratios, NEW b \in Ratios, ~TooLong(s, MaxDenominator),
         \A d \in 1..MaxDenominator : Covered(s, b, d),
         NEW n \in 1..MaxField, NEW d \in 1..MaxDenominator
  PROVE  ~Nearer(s, Ratio(n, d), b)
<1>1. CASE ~TooLong(s, d)
  BY <1>1 DEF Covered
<1>2. CASE TooLong(s, d)
  <2>1. PICK e \in Nat \ {0} : e = MaxDenominator /\ e <= MaxField
    BY CodecAssumption
  <2>2. d \in Nat \ {0} /\ d <= e /\ n \in Nat \ {0}
    BY <2>1, CodecAssumption
  <2>3. PICK m \in Nat : m = llround(s, e)
    BY Rounding
  <2>4. /\ m \in 1..e
        /\ Off(s, Ratio(m, e)) * d <= Off(s, Ratio(n, d)) * e
    BY <1>2, <2>1, <2>2, <2>3, BelowOne DEF Rounded
  <2>5. ~Nearer(s, Ratio(m, e), b)
    <3>1. m \in 1..MaxField /\ e \in 1..MaxDenominator
      BY <2>1, <2>4, CodecAssumption
    <3>2. Covered(s, b, e) /\ ~TooLong(s, e)
      BY <2>1, <3>1
    <3> QED
      BY <3>1, <3>2 DEF Covered
  <2>6. ~Nearer(s, Ratio(n, d), Ratio(m, e))
    <3>1. Off(s, Ratio(m, e)) * d \in Nat /\ Off(s, Ratio(n, d)) * e \in Nat
      <4>1. Off(s, Ratio(m, e)) \in Nat /\ Off(s, Ratio(n, d)) \in Nat
        BY <2>1, <2>2, <2>3, OffType
      <4> QED
        BY <2>1, <2>2, <4>1
    <3> QED
      BY <2>4, <3>1 DEF Nearer, Ratio
  <2>7. Ratio(n, d) \in Ratios /\ Ratio(m, e) \in Ratios
    BY <2>1, <2>2, <2>3 DEF Ratio, Ratios
  <2> QED
    BY <2>5, <2>6, <2>7, NearerTransitive
<1> QED
  BY <1>1, <1>2

-----------------------------------------------------------------------------
(* Closer(p, q) is nearness to the time that is searched for.              *)
LEMMA CloserIsNearer ==
  \A p, q : Closer(p, q) <=> Nearer(secs, p, q)
BY DEF Closer, Nearer, Off

(* Before a search the invariant holds,                                    *)
LEMMA NoSearch ==
  ASSUME secs = Zero /\ denominator = 0 /\ best = One
  PROVE  SearchInv
BY CodecAssumption
DEF SearchInv, SearchTypeOK, Zero, One, Ratio, Ratios, RawShutters

(* and so it does where one begins,                                        *)
LEMMA BeginKeeps ==
  ASSUME NEW speed \in Ratios, EncodeBegin(speed)
  PROVE  /\ SearchInv' /\ denominator' > 0
         /\ secs' = IF speed.num = 0 THEN Zero ELSE Ratio(speed.den, speed.num)
<1>1. CASE speed.num = 0
  BY <1>1, CodecAssumption
  DEF EncodeBegin, SearchInv, SearchTypeOK, Zero, NoTime, Ratio, Ratios,
      RawShutters
<1>2. CASE speed.num # 0
  <2>1. /\ secs' = Ratio(speed.den, speed.num) /\ secs' \in Ratios
        /\ secs' # Zero /\ denominator' = 1 /\ best' = One
    BY <1>2 DEF EncodeBegin, Zero, Ratio, Ratios
  <2>2. \A s : Picked(s, One, 0)
    BY DEF Picked, IsItem, Item
  <2> QED
    BY <1>2, <2>1, <2>2, CodecAssumption
    DEF SearchInv, SearchTypeOK, One, Ratio, RawShutters
<1> QED
  BY <1>1, <1>2

(* where it goes on with the next denominator,                             *)
LEMMA SearchKeeps ==
  ASSUME SearchInv, Search
  PROVE  SearchInv' /\ denominator' > 0 /\ secs' = secs
<1>1. PICK s \in Ratios, d \in 1..MaxDenominator, b \in Ratios :
        /\ s = secs /\ d = denominator /\ b = best
        /\ b \in RawShutters /\ b.num > 0 /\ s # Zero
  <2>1. /\ secs \in Ratios /\ denominator \in 1..MaxDenominator
        /\ best \in RawShutters
    BY DEF Search, SearchInv, SearchTypeOK
  <2>2. secs # Zero /\ best.num > 0 /\ best.den > 0
    BY <2>1, CodecAssumption DEF SearchInv
  <2>3. best \in Ratios
    BY <2>1, <2>2, CodecAssumption DEF RawShutters, Ratios
  <2> QED
    BY <2>1, <2>2, <2>3
<1>2. PICK c : c = IF IsItem(s, d) /\ Nearer(s, Rounded(s, d), b)
                   THEN Rounded(s, d) ELSE b
  OBVIOUS
<1>3. d \in Nat \ {0} /\ d <= MaxField /\ MaxField \in Nat
  BY CodecAssumption
<1>4. /\ Rounded(s, d) = Candidate
      /\ Improves <=> IsItem(s, d) /\ Nearer(s, Rounded(s, d), b)
  BY <1>1, <1>3, CloserIsNearer
  DEF Rounded, Candidate, Improves, IsItem, Ratio
<1>5. best' = c /\ secs' = s
  BY <1>1, <1>2, <1>4 DEF Search
<1>6. c \in Ratios /\ c \in RawShutters /\ c.num > 0 /\ c.den > 0
  <2>1. CASE IsItem(s, d) /\ Nearer(s, Rounded(s, d), b)
    BY <1>2, <1>3, <2>1 DEF IsItem, Rounded, Ratio, Ratios, RawShutters
  <2>2. CASE ~(IsItem(s, d) /\ Nearer(s, Rounded(s, d), b))
    BY <1>1, <1>2, <2>2 DEF Ratios
  <2> QED
    BY <2>1, <2>2
<1>7. Picked(s, c, d)
  <2>1. Picked(s, b, d - 1)
    BY <1>1, <1>3 DEF SearchInv
  <2> QED
    BY <1>2, <1>3, <2>1, PickNext
<1>8. c = b \/ Nearer(s, c, b)
  BY <1>2
<1>9. FitsOnce(s) => Off(s, c) = 0 \/ \A e \in 1..d : Covered(s, c, e)
  <2>1. SUFFICES ASSUME FitsOnce(s), Off(s, c) # 0, NEW e \in 1..d
                 PROVE  Covered(s, c, e)
    OBVIOUS
  <2>2. Off(s, b) # 0
    <3>1. CASE Off(s, b) = 0
      BY <1>1, <1>6, <1>8, <2>1, <3>1, ExactIsNearest
    <3> QED
      BY <3>1
  <2>3. \A k \in 1..(d - 1) : Covered(s, b, k)
    BY <1>1, <1>3, <2>1, <2>2 DEF SearchInv
  <2>4. CASE e = d
    BY <1>1, <1>2, <1>3, <1>6, <2>1, <2>3, <2>4, CoverNext
  <2>5. CASE e < d
    <3>1. e \in 1..(d - 1) /\ e \in Nat \ {0}
      BY <1>3, <2>5
    <3> QED
      BY <1>1, <1>6, <1>8, <2>3, <3>1, StaysCovered
  <2> QED
    BY <1>3, <2>4, <2>5
<1>10. CASE Found
  <2>1. denominator' = MaxDenominator + 1
    BY <1>10 DEF Search
  <2>2. Off(s, c) = 0
    <3>1. c = Candidate /\ Exact(Candidate)
      BY <1>2, <1>4, <1>10 DEF Found
    <3> QED
      BY <1>1, <1>6, <3>1 DEF Exact, Off, Abs, Ratios
  <2>3. Picked(s, c, MaxDenominator)
    BY <1>3, <1>7, <2>2, PickedExact, CodecAssumption
  <2> QED
    BY <1>1, <1>3, <1>5, <1>6, <2>1, <2>2, <2>3, CodecAssumption
    DEF SearchInv, SearchTypeOK
<1>11. CASE ~Found
  <2>1. denominator' = d + 1
    BY <1>1, <1>11 DEF Search
  <2> QED
    BY <1>1, <1>3, <1>5, <1>6, <1>7, <1>9, <2>1, CodecAssumption
    DEF SearchInv, SearchTypeOK
<1> QED
  BY <1>10, <1>11

(* where it returns, and where nothing is searched for.                    *)
LEMMA EndKeeps == EncodeEnd => SearchInv' /\ denominator' = 0
<1>1. ASSUME EncodeEnd PROVE SearchInv'
  BY <1>1, CodecAssumption
  DEF EncodeEnd, SearchInv, SearchTypeOK, Zero, One, Ratio, Ratios,
      RawShutters
<1> QED
  BY <1>1 DEF EncodeEnd

(* A step that is none of the search's leaves it as it is.                 *)
LEMMA RestKeeps == SearchInv /\ UNCHANGED searchVars => SearchInv'
BY DEF searchVars, SearchInv, SearchTypeOK, Covered

-----------------------------------------------------------------------------
(* The search returns a nearest one of all fractions that fit.             *)
LEMMA NearestIsFound == SearchInv => NearestFound
<1> SUFFICES ASSUME SearchInv, Encoded, secs # Zero, Reachable(secs),
                    NEW n \in 1..MaxField, NEW d \in 1..MaxDenominator
             PROVE  ~Nearer(secs, Ratio(n, d), best)
  BY CloserIsNearer DEF NearestFound
<1>1. PICK s \in Ratios, b \in Ratios : s = secs /\ b = best
  <2>1. secs \in Ratios /\ best \in RawShutters /\ best.den > 0
    BY CodecAssumption DEF SearchInv, SearchTypeOK, Encoded
  <2> QED
    BY <2>1, CodecAssumption DEF RawShutters, Ratios
<1>2. denominator = MaxDenominator + 1
  BY CodecAssumption DEF SearchInv, SearchTypeOK, Encoded
<1>3. FitsOnce(s) /\ ~TooLong(s, MaxDenominator)
  <2>1. MaxDenominator \in Nat /\ s.num \in Nat /\ s.den \in Nat
    BY CodecAssumption DEF Ratios
  <2>2. 2 * MaxDenominator * s.num = 2 * s.num * MaxDenominator
    BY <2>1
  <2>3. 2 * s.num * MaxDenominator \in Nat
    BY <2>1
  <2> QED
    BY <1>1, <2>1, <2>2, <2>3 DEF Reachable, FitsOnce, TooLong
<1>4. Off(s, b) = 0 \/ \A e \in 1..MaxDenominator : Covered(s, b, e)
  BY <1>1, <1>2, <1>3, CodecAssumption DEF SearchInv
<1>5. Ratio(n, d) \in Ratios
  BY CodecAssumption DEF Ratio, Ratios
<1> QED
  BY <1>1, <1>3, <1>4, <1>5, ExactIsNearest, AllCovered

(* A time that is a fraction that fits is returned as it is.               *)
LEMMA ExactIsFound ==
  ASSUME SearchInv, denominator = MaxDenominator + 1, secs # Zero,
         NEW n \in 1..MaxField, NEW d \in 1..MaxDenominator,
         n * secs.den = secs.num * d
  PROVE  best.num * secs.den = secs.num * best.den
<1>1. PICK N \in Nat, M \in Nat \ {0}, x \in Nat, y \in Nat \ {0} :
        N = secs.num /\ M = secs.den /\ x = best.num /\ y = best.den
  BY CodecAssumption DEF SearchInv, SearchTypeOK, Ratios, RawShutters
<1>2. n \in Nat \ {0} /\ d \in Nat \ {0} /\ n * M = N * d
  BY <1>1, CodecAssumption
<1>3. Reachable(secs)
  <2>1. 2 * MaxDenominator * N >= M
    <3>1. PICK D \in Nat : D = MaxDenominator /\ d <= D
      BY CodecAssumption
    <3>2. M <= n * M /\ N * d <= N * D
      BY <1>1, <1>2, <3>1
    <3>3. N * D \in Nat /\ 2 * D * N = 2 * (N * D)
      BY <1>1, <3>1
    <3> QED
      BY <1>1, <1>2, <3>1, <3>2, <3>3
  <2>2. 2 * N < (2 * MaxField + 1) * M
    <3>1. PICK F \in Nat : F = MaxField /\ n <= F
      BY CodecAssumption
    <3>2. N <= N * d /\ n * M <= F * M
      BY <1>1, <1>2, <3>1
    <3>3. (2 * F + 1) * M = 2 * (F * M) + M /\ F * M \in Nat
      BY <1>1, <3>1
    <3> QED
      BY <1>1, <1>2, <3>1, <3>2, <3>3
  <2> QED
    BY <1>1, <2>1, <2>2 DEF Reachable
<1>4. ~Nearer(secs, Ratio(n, d), best)
  <2>1. Encoded
    BY CodecAssumption DEF Encoded
  <2> QED
    BY <1>3, <2>1, NearestIsFound, CloserIsNearer DEF NearestFound
<1>5. Off(secs, Ratio(n, d)) = 0
  BY <1>1, <1>2 DEF Off, Ratio, Abs
<1>6. Off(secs, best) * d <= 0
  <2>1. Off(secs, Ratio(n, d)) * y = 0
    BY <1>1, <1>5
  <2>2. Off(secs, best) \in Nat
    BY <1>1 DEF Off, Abs
  <2>3. Off(secs, best) * d \in Nat
    BY <1>2, <2>2
  <2> QED
    BY <1>1, <1>4, <2>1, <2>3 DEF Nearer, Ratio
<1>7. Off(secs, best) = 0
  <2>1. Off(secs, best) \in Nat
    BY <1>1 DEF Off, Abs
  <2> QED
    BY <1>2, <1>6, <2>1
<1> QED
  BY <1>1, <1>7 DEF Off, Abs

(* What the search returns depends on the speed alone.                     *)
LEMMA ResultEncodes ==
  ASSUME SearchInv, denominator = MaxDenominator + 1, NEW speed \in Ratios,
         secs = IF speed.num = 0 THEN Zero ELSE Ratio(speed.den, speed.num)
  PROVE  Encodes(speed, best)
<1>1. CASE speed.num = 0
  BY <1>1, CodecAssumption DEF SearchInv, Encodes
<1>2. CASE speed.num # 0
  <2>1. secs = Ratio(speed.den, speed.num) /\ secs # Zero
    BY <1>2 DEF Ratio, Zero, Ratios
  <2> QED
    BY <1>2, <2>1, CodecAssumption DEF SearchInv, Encodes
<1> QED
  BY <1>1, <1>2

(* A speed is encoded in one way only.                                     *)
LEMMA EncodesUnique ==
  ASSUME NEW speed \in Ratios, NEW b, NEW c, Encodes(speed, b), Encodes(speed, c)
  PROVE  b = c
<1>1. CASE speed.num = 0
  BY <1>1 DEF Encodes
<1>2. CASE speed.num # 0
  <2>1. Ratio(speed.den, speed.num) \in Ratios
    BY <1>2 DEF Ratio, Ratios
  <2> QED
    BY <1>2, <2>1, PickedUnique, CodecAssumption DEF Encodes
<1> QED
  BY <1>1, <1>2
=============================================================================
