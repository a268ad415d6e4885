---------------------------- MODULE DurableQueue ----------------------------
(***************************************************************************)
(* What the job queue promises, without channels, buffers and workers: a   *)
(* job that is kept stays until it is acked, which takes a handler that    *)
(* succeeded, or discarded, which takes a job nobody can decode.  A job    *)
(* may be handled more than once while it is kept, and never afterwards.   *)
(***************************************************************************)
EXTENDS Naturals

CONSTANTS Jobs, Malformed

VARIABLES
  kept,       (* the jobs in the queue                                     *)
  acked,      (* those that are done                                       *)
  discarded,  (* those that were thrown away                               *)
  handled     (* how often a handler has succeeded                         *)

vars == <<kept, acked, discarded, handled>>

Init ==
  /\ kept = {}
  /\ acked = {} /\ discarded = {}
  /\ handled = [j \in Jobs |-> 0]

Store(j) ==
  /\ j \notin kept \cup acked \cup discarded
  /\ kept' = kept \cup {j}
  /\ UNCHANGED <<acked, discarded, handled>>

Handle(j) ==
  /\ j \in kept \ Malformed
  /\ handled' = [handled EXCEPT ![j] = @ + 1]
  /\ UNCHANGED <<kept, acked, discarded>>

Ack(j) ==
  /\ j \in kept
  /\ handled[j] > 0
  /\ kept' = kept \ {j}
  /\ acked' = acked \cup {j}
  /\ UNCHANGED <<discarded, handled>>

Discard(j) ==
  /\ j \in kept \cap Malformed
  /\ kept' = kept \ {j}
  /\ discarded' = discarded \cup {j}
  /\ UNCHANGED <<acked, handled>>

Next == \E j \in Jobs : Store(j) \/ Handle(j) \/ Ack(j) \/ Discard(j)

Spec == Init /\ [][Next]_vars
=============================================================================
