-------------------------- MODULE MCSonyPTP3DevEnum --------------------------
(* Instances of SonyPTP3DevEnum for TLC.                                   *)
EXTENDS SonyPTP3DevEnum, TLC

\* Devices differ only in whether they are Sony's, handles not at all.
EnumSymmetry ==
  Permutations(Sony) \cup Permutations(Devices \ Sony) \cup Permutations(Handles)
=============================================================================
