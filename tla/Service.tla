------------------------------ MODULE Service ------------------------------
(***************************************************************************)
(* What main, Setup, Start and Shutdown promise, without goroutines,       *)
(* signals and a pool: subsystems are put on a stack, and taken off it,    *)
(* last on first off, after the guests have left.  Guests come in only     *)
(* while the house is open; those who have not left when their time is up  *)
(* may miss what has been taken off, and are thrown out at the end.        *)
(***************************************************************************)
EXTENDS Sequences, SequencesExt

CONSTANTS
  Guests,
  Names,   (* of the subsystems                                            *)
  Base     (* the one without which the house does not open                *)

VARIABLES
  phase,   (* setup, open, draining, closing, over                         *)
  built,   (* what was ever put on the stack                               *)
  stack,   (* what has not been taken off it                               *)
  late,    (* time was up before the guests had left                       *)
  guest,   (* outside, inside, left, turned away, thrown out               *)
  missed   (* what a guest needed and did not find any more                *)

vars == <<phase, built, stack, late, guest, missed>>

NobodyInside == \A g \in Guests : guest[g] # "inside"

Init ==
  /\ phase = "setup"
  /\ built = {} /\ stack = <<>>
  /\ late = FALSE
  /\ guest = [g \in Guests |-> "outside"]
  /\ missed = [g \in Guests |-> {}]

-----------------------------------------------------------------------------
SetUp(n) ==
  /\ phase = "setup"
  /\ n \notin built
  /\ built' = built \cup {n}
  /\ stack' = Append(stack, n)
  /\ UNCHANGED <<phase, late, guest, missed>>

(* What was set up is left as it is.                                       *)
GiveUp ==
  /\ phase = "setup"
  /\ phase' = "over"
  /\ UNCHANGED <<built, stack, late, guest, missed>>

Open ==
  /\ phase = "setup"
  /\ stack # <<>> /\ Head(stack) = Base
  /\ phase' = "open"
  /\ UNCHANGED <<built, stack, late, guest, missed>>

Drain ==
  /\ phase = "open"
  /\ phase' = "draining"
  /\ UNCHANGED <<built, stack, late, guest, missed>>

Close ==
  /\ phase = "draining"
  /\ phase' = "closing"
  /\ \/ NobodyInside /\ UNCHANGED late
     \/ late' = TRUE
  /\ UNCHANGED <<built, stack, guest, missed>>

TakeDown ==
  /\ phase = "closing"
  /\ stack # <<>>
  /\ stack' = Front(stack)
  /\ UNCHANGED <<phase, built, late, guest, missed>>

End ==
  /\ phase = "closing"
  /\ stack = <<>>
  /\ phase' = "over"
  /\ guest' = [g \in Guests |-> IF guest[g] = "inside" THEN "thrownOut" ELSE guest[g]]
  /\ UNCHANGED <<built, stack, late, missed>>

-----------------------------------------------------------------------------
Moves(g, from, to) ==
  /\ guest[g] = from
  /\ guest' = [guest EXCEPT ![g] = to]
  /\ UNCHANGED <<phase, built, stack, late, missed>>

Enter(g) == phase = "open" /\ Moves(g, "outside", "inside")

TurnAway(g) == phase \notin {"setup", "over"} /\ Moves(g, "outside", "turnedAway")

Leave(g) == phase # "over" /\ Moves(g, "inside", "left")

Miss(g) ==
  /\ phase = "closing" /\ late
  /\ guest[g] = "inside"
  /\ \E n \in built : /\ \A i \in DOMAIN stack : stack[i] # n
                      /\ missed' = [missed EXCEPT ![g] = @ \cup {n}]
  /\ UNCHANGED <<phase, built, stack, late, guest>>

Next ==
  \/ \E n \in Names : SetUp(n)
  \/ GiveUp \/ Open \/ Drain \/ Close \/ TakeDown \/ End
  \/ \E g \in Guests : Enter(g) \/ TurnAway(g) \/ Leave(g) \/ Miss(g)

Spec == Init /\ [][Next]_vars
=============================================================================
