---------------------------- MODULE MCSonyPTP3_Impl ----------------------------
(* Instances of SonyPTP3_Impl for TLC.                                     *)
EXTENDS SonyPTP3_Impl, TLC

\* Threads are interchangeable, and so are the transports.
ImplSymmetry == Permutations(Threads) \cup Permutations(Transports)
=============================================================================
