----------------------------- MODULE Mailboxes -----------------------------
(***************************************************************************)
(* What the hub promises, without locks, goroutines and sockets: each      *)
(* browser that joins has a mailbox.  An announcement is owed, from the    *)
(* moment it starts, to those who are members then; each of them gets it   *)
(* once, behind what is there already, unless its mailbox is full, and     *)
(* nobody leaves while owed one.  What is in a mailbox is delivered in     *)
(* order, or thrown away when the browser has gone or left.                *)
(***************************************************************************)
EXTENDS Naturals, Sequences

CONSTANTS
  Browsers,
  Speakers,  (* each makes its announcements one after the other           *)
  Topics,    (* what they are about, in that order                         *)
  Greeting,  (* what a browser is told once when it has joined             *)
  Capacity   (* a mailbox has room for so many, and for one more while its *)
             (* browser is being handed another                            *)

VARIABLES
  members,    (* those who have joined and not left                        *)
  left,       (* those who have: they do not come back                     *)
  greeted,    (* those who have been greeted, or had no room for it        *)
  gone,       (* those whose browser is no longer there                    *)
  said,       (* how many announcements each speaker has started           *)
  owed,       (* those its latest has still to be offered to               *)
  queue,      (* what is in each mailbox                                   *)
  delivered   (* what each browser has got                                 *)

vars == <<members, left, greeted, gone, said, owed, queue, delivered>>

Init ==
  /\ members = {} /\ left = {} /\ greeted = {} /\ gone = {}
  /\ said = [s \in Speakers |-> 0]
  /\ owed = [s \in Speakers |-> {}]
  /\ queue = [b \in Browsers |-> <<>>]
  /\ delivered = [b \in Browsers |-> <<>>]

Accept(b, from, event) ==
  /\ Len(queue[b]) <= Capacity
  /\ queue' = [queue EXCEPT ![b] = Append(@, [from |-> from, event |-> event])]

Refuse(b) ==
  /\ Len(queue[b]) >= Capacity
  /\ UNCHANGED queue

Join(b) ==
  /\ b \notin members \cup left
  /\ members' = members \cup {b}
  /\ UNCHANGED <<left, greeted, gone, said, owed, queue, delivered>>

Greet(b) ==
  /\ b \in members \ greeted
  /\ greeted' = greeted \cup {b}
  /\ Accept(b, b, Greeting) \/ Refuse(b)
  /\ UNCHANGED <<members, left, gone, said, owed, delivered>>

Leave(b) ==
  /\ b \in members
  /\ \A s \in Speakers : b \notin owed[s]
  /\ members' = members \ {b}
  /\ left' = left \cup {b}
  /\ UNCHANGED <<greeted, gone, said, owed, queue, delivered>>

Start(s) ==
  /\ said[s] < Len(Topics)
  /\ owed[s] = {}
  /\ said' = [said EXCEPT ![s] = @ + 1]
  /\ owed' = [owed EXCEPT ![s] = members]
  /\ UNCHANGED <<members, left, greeted, gone, queue, delivered>>

Offer(s, b) ==
  /\ b \in owed[s] \cap members
  /\ owed' = [owed EXCEPT ![s] = @ \ {b}]
  /\ Accept(b, s, Topics[said[s]]) \/ Refuse(b)
  /\ UNCHANGED <<members, left, greeted, gone, said, delivered>>

Deliver(b) ==
  /\ b \notin gone
  /\ queue[b] # <<>>
  /\ delivered' = [delivered EXCEPT ![b] = Append(@, Head(queue[b]))]
  /\ queue' = [queue EXCEPT ![b] = Tail(@)]
  /\ UNCHANGED <<members, left, greeted, gone, said, owed>>

ThrowAway(b) ==
  /\ b \in gone \cup left
  /\ queue[b] # <<>>
  /\ queue' = [queue EXCEPT ![b] = Tail(@)]
  /\ UNCHANGED <<members, left, greeted, gone, said, owed, delivered>>

Go(b) ==
  /\ b \notin gone
  /\ gone' = gone \cup {b}
  /\ UNCHANGED <<members, left, greeted, said, owed, queue, delivered>>

Next ==
  \/ \E b \in Browsers : Join(b) \/ Greet(b) \/ Leave(b) \/ Deliver(b) \/ ThrowAway(b) \/ Go(b)
  \/ \E s \in Speakers : Start(s) \/ \E b \in Browsers : Offer(s, b)

Spec == Init /\ [][Next]_vars
=============================================================================
