----------------------------- MODULE MCSonySystem -----------------------------
(* Instances of SonySystem for TLC.                                        *)
EXTENDS SonySystem, TLC

\* Threads are interchangeable, and so are transports the caller treats alike.
SystemSymmetry ==
  Permutations(Threads) \cup Permutations(Retained)
    \cup Permutations(Transports \ Retained)
=============================================================================
