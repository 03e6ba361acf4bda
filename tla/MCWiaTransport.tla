---------------------------- MODULE MCWiaTransport ----------------------------
(* Instances of WiaTransport for TLC.  Liveness is checked in the same run *)
(* as safety, so the callers are not declared symmetric.                   *)
EXTENDS WiaTransport
=============================================================================
