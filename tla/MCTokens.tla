------------------------------ MODULE MCTokens ------------------------------
(***************************************************************************)
(* Tokens with a bounded clock, few tokens and few replaced secrets.       *)
(***************************************************************************)
EXTENDS Tokens, FiniteSets

CONSTANTS
  MaxTime,      (* the clock stops here                                    *)
  MaxTokens,    (* how many different tokens are signed                    *)
  MaxRestarts   (* generations of each secret                              *)

ClockStopped == now = MaxTime /\ UNCHANGED vars

MCNext ==
  \/ /\ Next
     /\ now' <= MaxTime
     /\ Cardinality(tokens') <= MaxTokens
     /\ \A name \in Names : secret'[name] <= MaxRestarts
  \/ ClockStopped

MCSpec == Init /\ [][MCNext]_vars
=============================================================================
