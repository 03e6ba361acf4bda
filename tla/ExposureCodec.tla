----------------------------- MODULE ExposureCodec -----------------------------
(***************************************************************************)
(* The conversions between raw property values and physical exposure       *)
(* values, and the search that turns a shutter time into a raw value, one  *)
(* iteration of its loop per step.                                         *)
(*                                                                         *)
(* A raw shutter speed is a fraction of seconds in two fields.  Times,     *)
(* speeds and f-numbers are exact rationals here and doubles in the code:  *)
(* two times that the search can return differ by 10^-8 at least, where    *)
(* doubles are 10^-11 apart, so only an exact tie may fall the other way.  *)
(***************************************************************************)
EXTENDS Integers

CONSTANTS
  MaxField,        \* largest value of a field of the raw shutter: 65535
  MaxDenominator   \* where the search ends: 10000

ASSUME CodecAssumption ==
  /\ MaxField \in Nat \ {0}
  /\ MaxDenominator \in 1..MaxField

VARIABLES
  secs,         \* shutter_seconds
  denominator,  \* the loop variable; 0 outside the function
  best          \* best_numerator / best_denominator

searchVars == <<secs, denominator, best>>

Ratio(n, d) == [num |-> n, den |-> d]
Ratios      == [num : Nat, den : Nat \ {0}]
RawShutters == [num : 0..MaxField, den : 0..MaxField]

Zero     == Ratio(0, 1)                 \* 0.0
NoTime   == Ratio(0, 0)                 \* raw 0
AllOnes  == Ratio(MaxField, MaxField)   \* raw 0xFFFFFFFF
One      == Ratio(1, 1)

MaxUInt16 == 65535

Abs(n) == IF n < 0 THEN -n ELSE n

\* What a cast would make of r * k for r \in Ratios, and llround(r * k).
Truncated(r, k) == (r.num * k) \div r.den
llround(r, k)   == (2 * r.num * k + r.den) \div (2 * r.den)

\* |secs - p| < |secs - q|
Closer(p, q) ==
  Abs(secs.num * p.den - p.num * secs.den) * q.den
    < Abs(secs.num * q.den - q.num * secs.den) * p.den

Exact(p) == secs.num * p.den = p.num * secs.den

(***************************************************************************)
(* Decoding, and encoding an f-number.                                     *)
(***************************************************************************)

DecodeShutterSpeedSeconds(raw) ==
  IF raw = AllOnes \/ raw.num = 0 \/ raw.den = 0 THEN Zero ELSE raw

\* One that forgets to invert, and the one of the code.
NotInverted(raw) == DecodeShutterSpeedSeconds(raw)
DecodeShutterSpeedReciprocal(raw) ==
  LET s == DecodeShutterSpeedSeconds(raw)
  IN  IF s = Zero THEN Zero ELSE Ratio(s.den, s.num)

DecodeFNumber(raw) == Ratio(raw, 100)

EncodeFNumberRaw(f) ==
  LET raw == llround(f, 100) IN IF raw > MaxUInt16 THEN MaxUInt16 ELSE raw

(***************************************************************************)
(* EncodeShutterSpeedRaw(): the search.                                    *)
(***************************************************************************)

SearchInit == secs = Zero /\ denominator = 0 /\ best = One

\* The call, with a reciprocal speed.  Without a speed there is no search.
EncodeBegin(speed) ==
  IF speed.num = 0
    THEN best' = NoTime /\ denominator' = MaxDenominator + 1 /\ secs' = Zero
    ELSE best' = One /\ denominator' = 1 /\ secs' = Ratio(speed.den, speed.num)

\* A candidate that does not fit into its field is skipped, not clipped.
Candidate == Ratio(llround(secs, denominator), denominator)
Improves  == Candidate.num \in 1..MaxField /\ Closer(Candidate, best)

\* Leaving the loop at the first improvement, and at an exact one.
AnyImprovement == Improves
Found          == Improves /\ Exact(Candidate)

Search ==
  /\ denominator \in 1..MaxDenominator
  /\ best' = IF Improves THEN Candidate ELSE best
  /\ denominator' = IF Found THEN MaxDenominator + 1 ELSE denominator + 1
  /\ UNCHANGED secs

Encoded == denominator > MaxDenominator

\* The locals are gone.
EncodeEnd == secs' = Zero /\ denominator' = 0 /\ best' = One

(***************************************************************************)
(* Properties.                                                             *)
(***************************************************************************)

SearchTypeOK ==
  /\ secs \in Ratios
  /\ denominator \in 0..MaxDenominator + 1
  /\ best \in RawShutters

\* The times for which there is a candidate at all.
Reachable(s) ==
  /\ 2 * MaxDenominator * s.num >= s.den
  /\ 2 * s.num < (2 * MaxField + 1) * s.den

(* EncodeShutterSpeedRawFromSeconds() returns a nearest one of all         *)
(* fractions that its two fields and its largest denominator allow,        *)
(* although it looks at one numerator per denominator, skips those that do *)
(* not fit and stops early - for every time that has a candidate.          *)
NearestFound ==
  Encoded /\ secs # Zero /\ Reachable(secs) =>
    \A n \in 1..MaxField, d \in 1..MaxDenominator : ~Closer(Ratio(n, d), best)

(* SonyPTP3_Impl.h: exposure parameters are "physical values", the shutter *)
(* "in reciprocal form (1/sec)".  A time that a camera can have is encoded *)
(* as a time of its magnitude: within a factor of two.                     *)
KeepsMagnitude ==
  Encoded /\ secs # Zero /\ secs \in RawShutters =>
    /\ best.num * secs.den <= 2 * secs.num * best.den
    /\ secs.num * best.den <= 2 * best.num * secs.den
================================================================================
