---------------------------- MODULE EscapeChannel ----------------------------
(***************************************************************************)
(* What an IPTPTransport promises to the callers of Escape().              *)
(*                                                                         *)
(* Commands are numbered in the order in which the transport accepts them. *)
(* They are carried out one at a time and in that order; each one's fate   *)
(* is decided once.  A call ends with the fate of its own command, or with *)
(* "timeout" while that fate is still unknown to it - the command then     *)
(* keeps its place in the order and may still be carried out - or it is    *)
(* refused before a command exists.                                        *)
(***************************************************************************)
EXTENDS Naturals, Sequences

CONSTANTS
  Callers,        \* threads that call Escape()
  DeviceReplies   \* replies of the camera, as far as they are told apart

Idle == 0         \* call[c]: no call in progress, or refused before acceptance

LocalFates == {"comFailed", "localFailure"}  \* fates without the camera
Refusals   == {"invalidArg", "threw"}        \* ends of a call without a command

VARIABLES
  open,       \* the transport object has not begun its destruction
  accepted,   \* number of commands accepted so far
  fate,       \* fate[n]: what became of command n, for the commands carried out
  settled,    \* number of commands whose fate has been published
  call,       \* call[c]: the number of c's unfinished command, or Idle
  result      \* result[c]: how c's last call ended

chanVars == <<open, accepted, fate, settled, call, result>>

Init ==
  /\ open = TRUE
  /\ accepted = 0
  /\ fate = <<>>
  /\ settled = 0
  /\ call = [c \in Callers |-> Idle]
  /\ result = [c \in Callers |-> "none"]

(* Command accepted + 1 takes its place in the order.                      *)
Accept(c) ==
  /\ open
  /\ call[c] = Idle
  /\ accepted' = accepted + 1
  /\ call' = [call EXCEPT ![c] = accepted + 1]
  /\ UNCHANGED <<open, fate, settled, result>>

(* The call ends before a command exists, or starts afresh.                *)
Refuse(c) ==
  /\ open
  /\ call[c] = Idle
  /\ \E r \in Refusals \cup {"none"} : result' = [result EXCEPT ![c] = r]
  /\ UNCHANGED <<open, accepted, fate, settled, call>>

(* The camera carries out the oldest command not carried out yet; nothing  *)
(* is published so far.                                                    *)
Perform ==
  /\ Len(fate) = settled
  /\ settled < accepted
  /\ \E r \in DeviceReplies : fate' = Append(fate, r)
  /\ UNCHANGED <<open, accepted, settled, call, result>>

Settle ==
  /\ settled < Len(fate)
  /\ settled' = settled + 1
  /\ UNCHANGED <<open, accepted, fate, call, result>>

(* The oldest command fails without reaching the camera.                   *)
Fail ==
  /\ Len(fate) = settled
  /\ settled < accepted
  /\ \E r \in LocalFates : fate' = Append(fate, r)
  /\ settled' = settled + 1
  /\ UNCHANGED <<open, accepted, call, result>>

Return(c) ==
  /\ call[c] # Idle
  /\ call[c] <= settled
  /\ result' = [result EXCEPT ![c] = fate[call[c]]]
  /\ call' = [call EXCEPT ![c] = Idle]
  /\ UNCHANGED <<open, accepted, fate, settled>>

GiveUp(c) ==
  /\ call[c] # Idle
  /\ settled < call[c]
  /\ result' = [result EXCEPT ![c] = "timeout"]
  /\ call' = [call EXCEPT ![c] = Idle]
  /\ UNCHANGED <<open, accepted, fate, settled>>

(* Destruction begins: only when no call is in progress.                   *)
Close ==
  /\ open
  /\ \A c \in Callers : call[c] = Idle
  /\ open' = FALSE
  /\ UNCHANGED <<accepted, fate, settled, call, result>>

Next ==
  \/ \E c \in Callers : Accept(c) \/ Refuse(c) \/ Return(c) \/ GiveUp(c)
  \/ Perform \/ Settle \/ Fail
  \/ Close

Spec == Init /\ [][Next]_chanVars
=============================================================================
