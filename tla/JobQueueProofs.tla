--------------------------- MODULE JobQueueProofs ---------------------------
(***************************************************************************)
(* What TLAPS proves of JobQueue, for any jobs, workers and interruptions. *)
(***************************************************************************)
EXTENDS JobQueue, TLAPS, FiniteSetTheorems

-----------------------------------------------------------------------------
(* Sequences in which nothing occurs twice.                                *)
Once(s) == \A i, k \in DOMAIN s : s[i] = s[k] => i = k

LEMMA NothingInEmpty == Once(<<>>) /\ ToSet(<<>>) = {} /\ \A R : <<>> \in Seq(R)
BY DEF Once, ToSet

LEMMA Members ==
  ASSUME NEW R, NEW s \in Seq(R), NEW x
  PROVE  x \in ToSet(s) <=> \E i \in 1..Len(s) : s[i] = x
BY DEF ToSet

LEMMA Concatenate ==
  ASSUME NEW R, NEW s \in Seq(R), NEW t \in Seq(R)
  PROVE  /\ s \o t \in Seq(R)
         /\ ToSet(s \o t) = ToSet(s) \cup ToSet(t)
         /\ Once(s) /\ Once(t) /\ ToSet(s) \cap ToSet(t) = {} => Once(s \o t)
<1> DEFINE st == s \o t
<1>1. st \in Seq(R) /\ Len(st) = Len(s) + Len(t)
  OBVIOUS
<1>2. \A i \in 1..Len(s) : i \in 1..Len(st) /\ st[i] = s[i]
  OBVIOUS
<1>3. \A i \in 1..Len(t) : Len(s) + i \in 1..Len(st) /\ st[Len(s) + i] = t[i]
  OBVIOUS
<1>4. \A i \in 1..Len(st) : \/ i \in 1..Len(s) /\ st[i] = s[i]
                            \/ i - Len(s) \in 1..Len(t) /\ st[i] = t[i - Len(s)]
  OBVIOUS
<1> HIDE DEF st
<1>5. ToSet(st) = ToSet(s) \cup ToSet(t)
  <2>1. ASSUME NEW x \in ToSet(st) PROVE x \in ToSet(s) \cup ToSet(t)
    <3>1. PICK i \in 1..Len(st) : st[i] = x
      BY <1>1, <2>1, Members
    <3>2. CASE i \in 1..Len(s) /\ st[i] = s[i]
      BY <3>1, <3>2, Members
    <3>3. CASE i - Len(s) \in 1..Len(t) /\ st[i] = t[i - Len(s)]
      BY <3>1, <3>3, Members
    <3> QED BY <1>4, <3>1, <3>2, <3>3
  <2>2. ASSUME NEW x \in ToSet(s) PROVE x \in ToSet(st)
    <3>1. PICK i \in 1..Len(s) : s[i] = x
      BY <2>2, Members
    <3> QED BY <1>1, <1>2, <3>1, Members
  <2>3. ASSUME NEW x \in ToSet(t) PROVE x \in ToSet(st)
    <3>1. PICK i \in 1..Len(t) : t[i] = x
      BY <2>3, Members
    <3>2. Len(s) + i \in 1..Len(st) /\ st[Len(s) + i] = x
      BY <1>3, <3>1
    <3> QED BY <1>1, <3>2, Members
  <2> QED BY <2>1, <2>2, <2>3
<1>6. ASSUME Once(s), Once(t), ToSet(s) \cap ToSet(t) = {}
      PROVE  Once(st)
  <2>1. \A i \in 1..Len(s), k \in 1..Len(t) : s[i] # t[k]
    BY <1>6, Members
  <2>2. \A i, k \in 1..Len(s) : s[i] = s[k] => i = k
    BY <1>6 DEF Once
  <2>3. \A i, k \in 1..Len(t) : t[i] = t[k] => i = k
    BY <1>6 DEF Once
  <2>4. ASSUME NEW i \in 1..Len(st), NEW k \in 1..Len(st), st[i] = st[k]
        PROVE  i = k
    <3>1. CASE i \in 1..Len(s) /\ k \in 1..Len(s)
      BY <1>2, <2>2, <2>4, <3>1
    <3>2. CASE i \in 1..Len(s) /\ k \notin 1..Len(s)
      BY <1>2, <1>4, <2>1, <2>4, <3>2
    <3>3. CASE i \notin 1..Len(s) /\ k \in 1..Len(s)
      BY <1>2, <1>4, <2>1, <2>4, <3>3
    <3>4. CASE i \notin 1..Len(s) /\ k \notin 1..Len(s)
      <4>1. /\ i - Len(s) \in 1..Len(t) /\ st[i] = t[i - Len(s)]
            /\ k - Len(s) \in 1..Len(t) /\ st[k] = t[k - Len(s)]
        BY <1>4, <3>4
      <4>2. i - Len(s) = k - Len(s)
        BY <2>3, <2>4, <4>1
      <4> QED BY <4>2
    <3> QED BY <3>1, <3>2, <3>3, <3>4
  <2> QED BY <1>1, <2>4 DEF Once
<1> QED BY <1>1, <1>5, <1>6 DEF st

LEMMA OneElement ==
  ASSUME NEW R, NEW e \in R
  PROVE  <<e>> \in Seq(R) /\ ToSet(<<e>>) = {e} /\ Once(<<e>>)
BY DEF Once, ToSet

LEMMA AppendOne ==
  ASSUME NEW R, NEW s \in Seq(R), NEW e \in R
  PROVE  /\ Append(s, e) \in Seq(R)
         /\ ToSet(Append(s, e)) = ToSet(s) \cup {e}
         /\ Once(s) /\ e \notin ToSet(s) => Once(Append(s, e))
<1>1. PICK t : t = <<e>>
  OBVIOUS
<1>2. t \in Seq(R) /\ ToSet(t) = {e} /\ Once(t)
  BY <1>1, OneElement
<1>3. Append(s, e) = s \o t
  BY <1>1
<1>4. e \notin ToSet(s) => ToSet(s) \cap ToSet(t) = {}
  BY <1>2
<1>5. /\ s \o t \in Seq(R)
      /\ ToSet(s \o t) = ToSet(s) \cup ToSet(t)
      /\ Once(s) /\ Once(t) /\ ToSet(s) \cap ToSet(t) = {} => Once(s \o t)
  BY <1>2, Concatenate
<1> QED BY <1>2, <1>3, <1>4, <1>5

LEMMA HeadAndTail ==
  ASSUME NEW R, NEW s \in Seq(R), s # <<>>
  PROVE  /\ Head(s) \in R /\ Tail(s) \in Seq(R)
         /\ ToSet(s) = {Head(s)} \cup ToSet(Tail(s))
         /\ Once(s) => Once(Tail(s)) /\ Head(s) \notin ToSet(Tail(s))
<1>1. /\ Head(s) \in R /\ Tail(s) \in Seq(R) /\ Len(s) \in Nat \ {0}
      /\ Head(s) = s[1] /\ Len(Tail(s)) = Len(s) - 1
  OBVIOUS
<1>2. \A i \in 1..Len(Tail(s)) : i + 1 \in 2..Len(s) /\ Tail(s)[i] = s[i + 1]
  OBVIOUS
<1>3. \A i \in 1..Len(s) : \/ i = 1
                           \/ i - 1 \in 1..Len(Tail(s)) /\ Tail(s)[i - 1] = s[i]
  <2>1. ASSUME NEW i \in 1..Len(s), i # 1
        PROVE  i - 1 \in 1..Len(Tail(s)) /\ Tail(s)[i - 1] = s[i]
    <3>1. PICK k \in 1..Len(Tail(s)) : k = i - 1 /\ k + 1 = i
      BY <1>1, <2>1
    <3>2. Tail(s)[k] = s[k + 1]
      BY <1>2
    <3> QED BY <3>1, <3>2
  <2> QED BY <2>1
<1>4. ToSet(s) = {Head(s)} \cup ToSet(Tail(s))
  <2>1. ASSUME NEW x \in ToSet(s) PROVE x \in {Head(s)} \cup ToSet(Tail(s))
    <3>1. PICK i \in 1..Len(s) : s[i] = x
      BY <2>1, Members
    <3>2. i # 1 => x \in ToSet(Tail(s))
      BY <1>1, <1>3, <3>1, Members
    <3> QED BY <1>1, <3>1, <3>2
  <2>2. ASSUME NEW x \in ToSet(Tail(s)) PROVE x \in ToSet(s)
    <3>1. PICK i \in 1..Len(Tail(s)) : Tail(s)[i] = x
      BY <1>1, <2>2, Members
    <3>2. i + 1 \in 1..Len(s) /\ s[i + 1] = x
      BY <1>1, <1>2, <3>1
    <3> QED BY <3>2, Members
  <2>3. Head(s) \in ToSet(s)
    BY <1>1, Members
  <2> QED BY <2>1, <2>2, <2>3
<1>5. ASSUME Once(s)
      PROVE  Once(Tail(s)) /\ Head(s) \notin ToSet(Tail(s))
  <2>1. \A i, k \in 1..Len(s) : s[i] = s[k] => i = k
    BY <1>5 DEF Once
  <2>2. Head(s) \notin ToSet(Tail(s))
    <3>1. SUFFICES ASSUME NEW i \in 1..Len(Tail(s)), Tail(s)[i] = s[1] PROVE FALSE
      BY <1>1, Members
    <3> QED BY <1>1, <1>2, <2>1, <3>1
  <2>3. ASSUME NEW i \in 1..Len(Tail(s)), NEW k \in 1..Len(Tail(s)), Tail(s)[i] = Tail(s)[k]
        PROVE  i = k
    <3>1. i + 1 = k + 1
      BY <1>1, <1>2, <2>1, <2>3
    <3> QED BY <3>1
  <2> QED BY <1>1, <2>2, <2>3 DEF Once
<1> QED BY <1>1, <1>4, <1>5

LEMMA WithoutOne ==
  ASSUME NEW R, NEW s \in Seq(R), Once(s), NEW j \in ToSet(s)
  PROVE  /\ Without(s, j) \in Seq(R)
         /\ ToSet(Without(s, j)) = ToSet(s) \ {j}
         /\ Once(Without(s, j))
<1> DEFINE at == CHOOSE i \in DOMAIN s : s[i] = j
<1>1. at \in 1..Len(s) /\ s[at] = j
  BY DEF ToSet
<1>2. PICK k \in 1..Len(s) : k = at
  BY <1>1
<1> DEFINE p == SubSeq(s, 1, k - 1)
           q == SubSeq(s, k + 1, Len(s))
<1>3. Without(s, j) = p \o q
  BY <1>2 DEF Without, RemoveAt
<1>4. s[k] = j
  BY <1>1, <1>2
<1>5. /\ p \in Seq(R) /\ Len(p) = k - 1
      /\ \A i \in 1..(k - 1) : p[i] = s[i]
  OBVIOUS
<1>6. /\ q \in Seq(R) /\ Len(q) = Len(s) - k
      /\ \A i \in 1..(Len(s) - k) : q[i] = s[k + i]
  OBVIOUS
<1> HIDE DEF at, p, q
<1>7. \A i, h \in 1..Len(s) : s[i] = s[h] => i = h
  BY DEF Once
<1>8. \A i \in 1..Len(s) : \/ i = k
                           \/ i \in 1..Len(p) /\ p[i] = s[i]
                           \/ i - k \in 1..Len(q) /\ q[i - k] = s[i]
  <2>1. \A i \in 1..Len(s) : i < k => i \in 1..Len(p)
    BY <1>5
  <2>2. \A i \in 1..Len(s) : i > k => i - k \in 1..Len(q) /\ k + (i - k) = i
    BY <1>6
  <2> QED BY <1>5, <1>6, <2>1, <2>2
<1>9. \A i \in 1..Len(p) : i \in 1..Len(s) /\ i < k /\ p[i] = s[i]
  BY <1>5
<1>10. \A i \in 1..Len(q) : k + i \in 1..Len(s) /\ k + i > k /\ q[i] = s[k + i]
  BY <1>6
<1>11. ToSet(p) \cup ToSet(q) = ToSet(s) \ {j}
  <2>1. ASSUME NEW x \in ToSet(p) PROVE x \in ToSet(s) \ {j}
    BY <1>4, <1>5, <1>7, <1>9, <2>1, Members
  <2>2. ASSUME NEW x \in ToSet(q) PROVE x \in ToSet(s) \ {j}
    BY <1>4, <1>6, <1>7, <1>10, <2>2, Members
  <2>3. ASSUME NEW x \in ToSet(s) \ {j} PROVE x \in ToSet(p) \cup ToSet(q)
    <3>1. PICK i \in 1..Len(s) : s[i] = x
      BY <2>3, Members
    <3>2. i # k
      BY <1>4, <2>3, <3>1
    <3>3. CASE i \in 1..Len(p) /\ p[i] = s[i]
      BY <1>5, <3>1, <3>3, Members
    <3>4. CASE i - k \in 1..Len(q) /\ q[i - k] = s[i]
      BY <1>6, <3>1, <3>4, Members
    <3> QED BY <1>8, <3>1, <3>2, <3>3, <3>4
  <2> QED BY <2>1, <2>2, <2>3
<1>12. Once(p)
  BY <1>5, <1>7, <1>9 DEF Once
<1>13. Once(q)
  <2>1. ASSUME NEW i \in 1..Len(q), NEW h \in 1..Len(q), q[i] = q[h]
        PROVE  i = h
    <3>1. k + i = k + h
      BY <1>7, <1>10, <2>1
    <3> QED BY <3>1
  <2> QED BY <1>6, <2>1 DEF Once
<1>14. ToSet(p) \cap ToSet(q) = {}
  <2>1. \A i \in 1..Len(p), h \in 1..Len(q) : p[i] # q[h]
    <3>1. ASSUME NEW i \in 1..Len(p), NEW h \in 1..Len(q), p[i] = q[h]
          PROVE  FALSE
      <4>1. i = k + h
        BY <1>7, <1>9, <1>10, <3>1
      <4> QED BY <1>9, <1>10, <4>1
    <3> QED BY <3>1
  <2>2. ASSUME NEW x \in ToSet(p), x \in ToSet(q) PROVE FALSE
    <3>1. PICK i \in 1..Len(p) : p[i] = x
      BY <1>5, <2>2, Members
    <3>2. PICK h \in 1..Len(q) : q[h] = x
      BY <1>6, <2>2, Members
    <3> QED BY <2>1, <3>1, <3>2
  <2> QED BY <2>2
<1> QED BY <1>3, <1>5, <1>6, <1>11, <1>12, <1>13, <1>14, Concatenate

-----------------------------------------------------------------------------
(* The inductive invariant.                                                *)

(* Where the jobs are that were published and not lost on the way.         *)
AtHand == ToSet(wire) \cup ToSet(ready) \cup ToSet(unacked) \cup acked \cup discarded

(* No job is in two places, nor twice in one.                              *)
PlacesInv ==
  /\ Once(wire) /\ Once(ready) /\ Once(unacked) /\ Once(buffer)
  /\ ToSet(wire) \cap (ToSet(ready) \cup ToSet(unacked) \cup acked \cup discarded) = {}
  /\ ToSet(ready) \cap ToSet(unacked) = {}
  /\ (ToSet(ready) \cup ToSet(unacked)) \cap (acked \cup discarded) = {}

PublishedInv ==
  /\ \A j \in AtHand : published[j] = "ok"
  /\ \A j \in Jobs : published[j] = "ok" /\ interruptions = 0 => j \in AtHand

(* Where the channel is open, what is unsettled is in the buffer or with a *)
(* worker; where it is closed, what a worker has is ready again.           *)
HoldersInv ==
  /\ ToSet(buffer) \subseteq ToSet(unacked)
  /\ \A w \in Workers : job[w] # NoJob =>
       /\ job[w] \notin ToSet(buffer)
       /\ channel = "open" => job[w] \in ToSet(unacked)
       /\ channel = "closed" => job[w] \in ToSet(ready)
  /\ \A w, v \in Workers : job[w] # NoJob /\ job[w] = job[v] => w = v
  /\ channel = "open" =>
       \A j \in ToSet(unacked) : j \in ToSet(buffer) \/ \E w \in Workers : job[w] = j
  /\ channel = "closed" => wire = <<>> /\ unacked = <<>> /\ buffer = <<>> /\ interruptions > 0

(* Every success is paid for: by the ack that follows, or by the channel   *)
(* that closed before it.                                                  *)
Succeeded(j) == \E w \in Workers : job[w] = j /\ worker[w] = "succeeded"
InProcess(j) == \E w \in Workers : job[w] = j /\ worker[w] = "processing"

HandledInv(j) ==
  /\ handled[j] <= 1 + interruptions
  /\ channel = "open" /\ j \notin acked /\ ~Succeeded(j) => handled[j] <= interruptions
  /\ channel = "closed" => handled[j] <= interruptions
  /\ channel = "closed" /\ InProcess(j) => handled[j] < interruptions
  /\ Succeeded(j) => handled[j] > 0 /\ j \notin Malformed

IInv ==
  /\ PlacesInv
  /\ PublishedInv
  /\ HoldersInv
  /\ \A j \in Jobs : HandledInv(j)

Typed ==
  /\ wire \in Seq(Jobs) /\ ready \in Seq(Jobs) /\ unacked \in Seq(Jobs) /\ buffer \in Seq(Jobs)
  /\ Once(wire) /\ Once(ready) /\ Once(unacked) /\ Once(buffer)

LEMMA TypedParts == TypeOK /\ IInv => Typed
BY DEF TypeOK, IInv, PlacesInv, Typed

LEMMA NumbersTyped ==
  TypeOK => /\ interruptions \in Nat /\ interruptions <= MaxInterruptions
            /\ handled \in [Jobs -> Nat]
<1>1. MaxInterruptions \in Nat
  BY BoundsAssumption
<1>2. TypeOK => interruptions \in 0..MaxInterruptions /\ handled \in [Jobs -> Nat]
  BY DEF TypeOK
<1> QED BY <1>1, <1>2

LEMMA AtHandTyped ==
  ASSUME TypeOK
  PROVE  AtHand \subseteq Jobs
<1>1. \A s \in Seq(Jobs) : ToSet(s) \subseteq Jobs
  BY DEF ToSet
<1>2. /\ ToSet(wire) \subseteq Jobs /\ ToSet(ready) \subseteq Jobs
      /\ ToSet(unacked) \subseteq Jobs /\ acked \subseteq Jobs /\ discarded \subseteq Jobs
  BY <1>1 DEF TypeOK
<1> QED BY <1>2 DEF AtHand

LEMMA InvInit == Init => TypeOK /\ IInv
<1> SUFFICES ASSUME Init PROVE TypeOK /\ IInv
  OBVIOUS
<1>1. <<>> \in Seq(Jobs)
  BY NothingInEmpty
<1>2. 0 \in 0..MaxInterruptions /\ 0 \in 0..(DefaultAttempts + 2)
  BY BoundsAssumption
<1>3. TypeOK
  BY <1>1, <1>2 DEF Init, TypeOK, WorkerStates
<1>4. PlacesInv
  BY NothingInEmpty DEF Init, PlacesInv
<1>5. PublishedInv
  BY NothingInEmpty DEF Init, PublishedInv, AtHand
<1>6. HoldersInv
  BY NothingInEmpty DEF Init, HoldersInv
<1>7. ASSUME NEW j \in Jobs
      PROVE  HandledInv(j)
  <2>1. ~Succeeded(j)
    BY DEF Init, Succeeded
  <2>2. handled[j] = 0 /\ interruptions = 0 /\ channel = "open"
    BY DEF Init
  <2> QED BY <2>1, <2>2 DEF HandledInv
<1> QED BY <1>3, <1>4, <1>5, <1>6, <1>7 DEF IInv

-----------------------------------------------------------------------------
(* Publisher and broker.                                                   *)
LEMMA PublishSucceedsStep ==
  ASSUME TypeOK, IInv, NEW j \in Jobs, PublishSucceeds(j)
  PROVE  TypeOK' /\ IInv'
<1>1. j \notin AtHand
  BY DEF PublishSucceeds, IInv, PublishedInv
<1>2. /\ Append(wire, j) \in Seq(Jobs)
      /\ ToSet(Append(wire, j)) = ToSet(wire) \cup {j}
      /\ Once(Append(wire, j))
  <2>1. j \notin ToSet(wire)
    BY <1>1 DEF AtHand
  <2> QED BY <2>1, TypedParts, AppendOne DEF Typed
<1> USE DEF PublishSucceeds, broker, settled
<1>3. TypeOK'
  BY <1>2 DEF TypeOK
<1>4. PlacesInv'
  <2>1. j \notin ToSet(ready) \cup ToSet(unacked) \cup acked \cup discarded
    BY <1>1 DEF AtHand
  <2> QED BY <1>2, <2>1 DEF IInv, PlacesInv
<1>5. PublishedInv'
  <2>1. AtHand' = AtHand \cup {j}
    BY <1>2 DEF AtHand
  <2>2. published'[j] = "ok" /\ \A k \in Jobs \ {j} : published'[k] = published[k]
    BY DEF TypeOK
  <2> QED BY <2>1, <2>2, AtHandTyped DEF IInv, PublishedInv
<1>6. HoldersInv'
  BY DEF IInv, HoldersInv
<1>7. \A k \in Jobs : HandledInv(k)'
  BY DEF IInv, HandledInv, Succeeded, InProcess
<1> QED BY <1>3, <1>4, <1>5, <1>6, <1>7 DEF IInv

LEMMA PublishFailsStep ==
  ASSUME TypeOK, IInv, NEW j \in Jobs, PublishFails(j)
  PROVE  TypeOK' /\ IInv'
<1> USE DEF PublishFails, broker, settled
<1>1. TypeOK'
  BY DEF TypeOK
<1>2. PlacesInv'
  BY DEF IInv, PlacesInv
<1>3. PublishedInv'
  <2>1. AtHand' = AtHand
    BY DEF AtHand
  <2>2. published'[j] # "ok" /\ \A k \in Jobs \ {j} : published'[k] = published[k]
    BY DEF TypeOK
  <2>3. j \notin AtHand
    BY DEF IInv, PublishedInv
  <2> QED BY <2>1, <2>2, <2>3, AtHandTyped DEF IInv, PublishedInv
<1>4. HoldersInv'
  BY DEF IInv, HoldersInv
<1>5. \A k \in Jobs : HandledInv(k)'
  BY DEF IInv, HandledInv, Succeeded, InProcess
<1> QED BY <1>1, <1>2, <1>3, <1>4, <1>5 DEF IInv

LEMMA RouteStep ==
  ASSUME TypeOK, IInv, Route
  PROVE  TypeOK' /\ IInv'
<1>1. /\ Head(wire) \in Jobs /\ Tail(wire) \in Seq(Jobs)
      /\ ToSet(wire) = {Head(wire)} \cup ToSet(Tail(wire))
      /\ Once(Tail(wire)) /\ Head(wire) \notin ToSet(Tail(wire))
  <2>1. wire # <<>>
    BY DEF Route
  <2> QED BY <2>1, TypedParts, HeadAndTail DEF Typed
<1>2. /\ Append(ready, Head(wire)) \in Seq(Jobs)
      /\ ToSet(Append(ready, Head(wire))) = ToSet(ready) \cup {Head(wire)}
      /\ Head(wire) \notin ToSet(ready) => Once(Append(ready, Head(wire)))
  BY <1>1, TypedParts, AppendOne DEF Typed
<1> USE DEF Route, settled
<1>3. TypeOK'
  BY <1>1, <1>2 DEF TypeOK
<1>4. PlacesInv'
  BY <1>1, <1>2 DEF IInv, PlacesInv
<1>5. PublishedInv'
  BY <1>1, <1>2 DEF IInv, PublishedInv, AtHand
<1>6. HoldersInv'
  BY <1>2 DEF TypeOK, IInv, HoldersInv
<1>7. \A k \in Jobs : HandledInv(k)'
  BY DEF IInv, HandledInv, Succeeded, InProcess
<1> QED BY <1>3, <1>4, <1>5, <1>6, <1>7 DEF IInv

LEMMA ReadyAfterUnacked ==
  ASSUME TypeOK, IInv
  PROVE  /\ unacked \o ready \in Seq(Jobs)
         /\ ToSet(unacked \o ready) = ToSet(unacked) \cup ToSet(ready)
         /\ Once(unacked \o ready)
<1>1. ToSet(unacked) \cap ToSet(ready) = {}
  BY DEF IInv, PlacesInv
<1> QED BY <1>1, TypedParts, Concatenate DEF Typed

LEMMA DeliverStep ==
  ASSUME TypeOK, IInv, Deliver
  PROVE  TypeOK' /\ IInv'
<1>1. /\ unacked \o ready \in Seq(Jobs)
      /\ ToSet(unacked \o ready) = ToSet(unacked) \cup ToSet(ready)
      /\ Once(unacked \o ready)
  BY ReadyAfterUnacked
<1>2. /\ buffer \o ready \in Seq(Jobs)
      /\ ToSet(buffer \o ready) = ToSet(buffer) \cup ToSet(ready)
      /\ Once(buffer \o ready)
  <2>1. ToSet(buffer) \cap ToSet(ready) = {}
    BY DEF IInv, PlacesInv, HoldersInv
  <2> QED BY <2>1, TypedParts, Concatenate DEF Typed
<1> USE DEF Deliver, settled
<1>3. TypeOK'
  BY <1>1, <1>2, NothingInEmpty DEF TypeOK
<1>4. PlacesInv'
  BY <1>1, <1>2, NothingInEmpty DEF IInv, PlacesInv
<1>5. PublishedInv'
  BY <1>1, NothingInEmpty DEF IInv, PublishedInv, AtHand
<1>6. HoldersInv'
  BY <1>1, <1>2 DEF TypeOK, IInv, HoldersInv, PlacesInv
<1>7. \A k \in Jobs : HandledInv(k)'
  BY DEF IInv, HandledInv, Succeeded, InProcess
<1> QED BY <1>3, <1>4, <1>5, <1>6, <1>7 DEF IInv

LEMMA ChannelClosesStep ==
  ASSUME TypeOK, IInv, ChannelCloses
  PROVE  TypeOK' /\ IInv'
<1>1. /\ unacked \o ready \in Seq(Jobs)
      /\ ToSet(unacked \o ready) = ToSet(unacked) \cup ToSet(ready)
      /\ Once(unacked \o ready)
  BY ReadyAfterUnacked
<1>2. /\ interruptions \in Nat /\ interruptions' \in Nat
      /\ interruptions' = interruptions + 1 /\ interruptions' \in 0..MaxInterruptions
  <2>1. interruptions' = interruptions + 1 /\ interruptions < MaxInterruptions
    BY DEF ChannelCloses
  <2> QED BY <2>1, NumbersTyped, BoundsAssumption
<1>3. TypeOK'
  BY <1>1, <1>2, NothingInEmpty DEF TypeOK, ChannelCloses, settled
<1>4. PlacesInv'
  BY <1>1, NothingInEmpty DEF IInv, PlacesInv, ChannelCloses, settled
<1>5. PublishedInv'
  <2>1. interruptions' # 0
    BY <1>2
  <2> QED BY <1>1, <2>1, NothingInEmpty DEF IInv, PublishedInv, AtHand, ChannelCloses, settled
<1>6. HoldersInv'
  <2>1. interruptions' > 0
    BY <1>2
  <2> QED BY <1>1, <2>1, NothingInEmpty DEF IInv, HoldersInv, ChannelCloses, settled
<1>7. ASSUME NEW k \in Jobs
      PROVE  HandledInv(k)'
  <2>1. HandledInv(k) /\ handled[k] \in Nat
    BY NumbersTyped DEF IInv
  <2>2. ASSUME InProcess(k) PROVE k \notin acked /\ ~Succeeded(k)
    <3>1. PICK w \in Workers : job[w] = k /\ worker[w] = "processing"
      BY <2>2 DEF InProcess
    <3>2. k \in ToSet(unacked) /\ \A v \in Workers : job[v] = k => v = w
      BY <3>1, NoJobAssumption DEF IInv, HoldersInv, ChannelCloses
    <3> QED BY <3>1, <3>2 DEF IInv, PlacesInv, Succeeded
  <2>3. Succeeded(k)' = Succeeded(k) /\ InProcess(k)' = InProcess(k)
    BY DEF Succeeded, InProcess, ChannelCloses
  <2>4. channel = "open" /\ channel' = "closed" /\ handled' = handled /\ acked' = acked
    BY DEF ChannelCloses, settled
  <2> QED BY <1>2, <2>1, <2>2, <2>3, <2>4 DEF HandledInv
<1> QED BY <1>3, <1>4, <1>5, <1>6, <1>7 DEF IInv

LEMMA RestartStep ==
  ASSUME TypeOK, IInv, Restart
  PROVE  TypeOK' /\ IInv'
<1> USE DEF Restart, settled, broker
<1>1. TypeOK'
  BY DEF TypeOK, WorkerStates
<1>2. PlacesInv'
  BY DEF IInv, PlacesInv
<1>3. PublishedInv'
  BY DEF IInv, PublishedInv, AtHand
<1>4. HoldersInv'
  BY NothingInEmpty DEF IInv, HoldersInv
<1>5. \A k \in Jobs : HandledInv(k)'
  BY DEF IInv, HandledInv, Succeeded, InProcess
<1> QED BY <1>1, <1>2, <1>3, <1>4, <1>5 DEF IInv

-----------------------------------------------------------------------------
(* Workers.                                                                *)
LEMMA ReceiveStep ==
  ASSUME TypeOK, IInv, NEW w \in Workers, Receive(w)
  PROVE  TypeOK' /\ IInv'
<1>1. /\ Head(buffer) \in Jobs /\ Tail(buffer) \in Seq(Jobs)
      /\ ToSet(buffer) = {Head(buffer)} \cup ToSet(Tail(buffer))
      /\ Once(Tail(buffer)) /\ Head(buffer) \notin ToSet(Tail(buffer))
  <2>1. buffer # <<>>
    BY DEF Receive
  <2> QED BY <2>1, TypedParts, HeadAndTail DEF Typed
<1> USE DEF Receive, settled
<1>2. /\ job'[w] = Head(buffer) /\ worker'[w] = "processing"
      /\ \A v \in Workers \ {w} : job'[v] = job[v] /\ worker'[v] = worker[v]
      /\ job[w] = NoJob /\ worker[w] = "receiving"
  BY DEF TypeOK
<1>3. TypeOK'
  BY <1>1, NoJobAssumption DEF TypeOK, WorkerStates
<1>4. PlacesInv'
  BY <1>1 DEF IInv, PlacesInv
<1>5. PublishedInv'
  BY DEF IInv, PublishedInv, AtHand
<1>6. HoldersInv'
  <2>1. channel = "open"
    <3>1. buffer # <<>>
      OBVIOUS
    <3> QED BY <3>1 DEF IInv, HoldersInv, TypeOK
  <2>2. Head(buffer) \in ToSet(unacked) /\ Head(buffer) # NoJob
    BY <1>1, NoJobAssumption DEF IInv, HoldersInv
  <2>3. \A v \in Workers : job[v] # Head(buffer)
    BY <1>1, <2>2 DEF IInv, HoldersInv
  <2>4. ToSet(buffer') \subseteq ToSet(unacked') /\ channel' = "open"
    BY <1>1, <2>1 DEF IInv, HoldersInv
  <2>5. ASSUME NEW v \in Workers, job'[v] # NoJob
        PROVE  job'[v] \notin ToSet(buffer') /\ job'[v] \in ToSet(unacked')
    <3>1. CASE v = w
      BY <1>1, <1>2, <2>2, <3>1
    <3>2. CASE v # w
      BY <1>1, <1>2, <2>1, <2>5, <3>2 DEF IInv, HoldersInv
    <3> QED BY <3>1, <3>2
  <2>6. \A u, v \in Workers : job'[u] # NoJob /\ job'[u] = job'[v] => u = v
    BY <1>2, <2>3 DEF IInv, HoldersInv
  <2>7. ASSUME NEW j \in ToSet(unacked')
        PROVE  j \in ToSet(buffer') \/ \E v \in Workers : job'[v] = j
    <3>1. CASE j = Head(buffer)
      BY <1>2, <3>1
    <3>2. CASE j \in ToSet(Tail(buffer))
      BY <3>2
    <3>3. CASE j \notin ToSet(buffer)
      <4>1. PICK v \in Workers : job[v] = j
        BY <2>1, <2>7, <3>3 DEF IInv, HoldersInv
      <4>2. v # w
        BY <1>2, <2>7, <4>1, NoJobAssumption, AtHandTyped DEF AtHand
      <4> QED BY <1>2, <4>1, <4>2
    <3> QED BY <1>1, <3>1, <3>2, <3>3
  <2> QED BY <2>4, <2>5, <2>6, <2>7 DEF HoldersInv
<1>7. ASSUME NEW k \in Jobs
      PROVE  HandledInv(k)'
  <2>1. channel = "open"
    <3>1. buffer # <<>>
      OBVIOUS
    <3> QED BY <3>1 DEF IInv, HoldersInv, TypeOK
  <2>2. Succeeded(k)' <=> Succeeded(k)
    BY <1>2, NoJobAssumption DEF Succeeded
  <2> QED BY <2>1, <2>2 DEF IInv, HandledInv
<1> QED BY <1>3, <1>4, <1>5, <1>6, <1>7 DEF IInv

(* A worker that has no job still has none, or lets go of the one it had,  *)
(* and nothing else happens; but an unsettled job it may let go of only    *)
(* where the channel is closed.                                            *)
LEMMA LetGoStep ==
  ASSUME TypeOK, IInv, NEW w \in Workers, NEW state \in {"receiving", "over"},
         worker' = [worker EXCEPT ![w] = state], job' = [job EXCEPT ![w] = NoJob],
         channel = "closed" \/ job[w] = NoJob,
         UNCHANGED <<channel, published, broker, settled, handled, attempts, interruptions>>
  PROVE  TypeOK' /\ IInv'
<1> USE DEF broker, settled
<1>1. /\ job'[w] = NoJob /\ worker'[w] = state
      /\ \A v \in Workers \ {w} : job'[v] = job[v] /\ worker'[v] = worker[v]
  BY DEF TypeOK
<1>2. TypeOK'
  BY DEF TypeOK, WorkerStates
<1>3. PlacesInv'
  BY DEF IInv, PlacesInv
<1>4. PublishedInv'
  BY DEF IInv, PublishedInv, AtHand
<1>5. HoldersInv'
  <2>1. channel = "open" =>
          \A j \in ToSet(unacked) : j \in ToSet(buffer) \/ \E v \in Workers : job'[v] = j
    <3>1. \A v \in Workers : channel = "open" => job'[v] = job[v]
      BY <1>1
    <3> QED BY <3>1 DEF IInv, HoldersInv
  <2> QED BY <1>1, <2>1 DEF IInv, HoldersInv
<1>6. ASSUME NEW k \in Jobs
      PROVE  HandledInv(k)'
  <2>1. /\ Succeeded(k)' => Succeeded(k)
        /\ InProcess(k)' => InProcess(k)
        /\ channel = "open" => (Succeeded(k)' <=> Succeeded(k))
    BY <1>1, NoJobAssumption DEF Succeeded, InProcess
  <2> QED BY <2>1 DEF IInv, HandledInv
<1> QED BY <1>2, <1>3, <1>4, <1>5, <1>6 DEF IInv

LEMMA WorkerStopsStep ==
  ASSUME TypeOK, IInv, NEW w \in Workers, WorkerStops(w)
  PROVE  TypeOK' /\ IInv'
<1>1. job[w] = NoJob /\ job' = [job EXCEPT ![w] = NoJob]
  BY DEF WorkerStops, TypeOK
<1> QED BY <1>1, LetGoStep DEF WorkerStops

(* What Settle does with the delivery.                                     *)
LEMMA UnackedWithout ==
  ASSUME TypeOK, IInv, NEW w \in Workers, job[w] # NoJob, channel = "open"
  PROVE  /\ job[w] \in Jobs /\ job[w] \in ToSet(unacked)
         /\ Without(unacked, job[w]) \in Seq(Jobs)
         /\ ToSet(Without(unacked, job[w])) = ToSet(unacked) \ {job[w]}
         /\ Once(Without(unacked, job[w]))
<1>1. job[w] \in Jobs
  BY DEF TypeOK
<1>2. job[w] \in ToSet(unacked)
  BY DEF IInv, HoldersInv
<1> QED BY <1>1, <1>2, TypedParts, WithoutOne DEF Typed

LEMMA NobodyElse ==
  ASSUME IInv, NEW w \in Workers, job[w] # NoJob
  PROVE  /\ \A v \in Workers : job[v] = job[w] => v = w
         /\ Succeeded(job[w]) => worker[w] = "succeeded"
BY DEF IInv, HoldersInv, Succeeded

(* The delivery is settled for good, as done or as discarded.              *)
LEMMA SettledStep ==
  ASSUME TypeOK, IInv, NEW w \in Workers, job[w] # NoJob, channel = "open", Settle(w, <<>>),
         acked \subseteq acked', acked' \cup discarded' = acked \cup discarded \cup {job[w]},
         worker[w] = "succeeded" => job[w] \in acked'
  PROVE  TypeOK' /\ IInv'
<1> DEFINE j == job[w]
<1>1. /\ j \in Jobs /\ j \in ToSet(unacked)
      /\ Without(unacked, j) \in Seq(Jobs)
      /\ ToSet(Without(unacked, j)) = ToSet(unacked) \ {j}
      /\ Once(Without(unacked, j))
  BY UnackedWithout
<1>2. unacked' = Without(unacked, j) /\ ready' = ready
  <2>1. <<>> \o ready = ready
    BY TypedParts DEF Typed
  <2> QED BY <2>1 DEF Settle
<1>3. /\ job' = [job EXCEPT ![w] = NoJob] /\ worker' = [worker EXCEPT ![w] = "receiving"]
      /\ channel' = channel /\ published' = published /\ wire' = wire /\ buffer' = buffer
      /\ handled' = handled /\ attempts' = attempts /\ interruptions' = interruptions
  BY DEF Settle, NextDelivery
<1>4. /\ job'[w] = NoJob
      /\ \A v \in Workers \ {w} : job'[v] = job[v] /\ worker'[v] = worker[v]
  BY <1>3 DEF TypeOK
<1> HIDE DEF j
<1>5. TypeOK'
  <2>1. acked' \subseteq Jobs /\ discarded' \subseteq Jobs
    <3>1. acked \subseteq Jobs /\ discarded \subseteq Jobs
      BY DEF TypeOK
    <3> QED BY <1>1, <3>1 DEF j
  <2> QED BY <1>1, <1>2, <1>3, <2>1 DEF TypeOK, WorkerStates
<1>6. PlacesInv'
  <2>1. j \notin ToSet(ready) /\ j \notin ToSet(wire)
    BY <1>1 DEF IInv, PlacesInv
  <2> QED BY <1>1, <1>2, <1>3, <2>1 DEF IInv, PlacesInv, j
<1>7. PublishedInv'
  <2>1. AtHand' = AtHand
    BY <1>1, <1>2, <1>3 DEF AtHand, j
  <2> QED BY <1>3, <2>1 DEF IInv, PublishedInv
<1>8. HoldersInv'
  <2>1. j \notin ToSet(buffer) /\ \A v \in Workers : job[v] = j => v = w
    BY NobodyElse DEF IInv, HoldersInv, j
  <2> QED BY <1>1, <1>2, <1>3, <1>4, <2>1 DEF IInv, HoldersInv, j
<1>9. ASSUME NEW k \in Jobs
      PROVE  HandledInv(k)'
  <2>1. Succeeded(k)' <=> Succeeded(k) /\ k # j
    BY <1>4, NobodyElse, NoJobAssumption DEF Succeeded, j
  <2>2. Succeeded(j) => worker[w] = "succeeded"
    BY NobodyElse DEF j
  <2>3. channel' = "open" /\ k \notin acked' /\ ~Succeeded(k)' => handled'[k] <= interruptions'
    BY <1>3, <2>1, <2>2 DEF IInv, HandledInv, j
  <2> QED BY <1>3, <2>1, <2>3 DEF IInv, HandledInv
<1> QED BY <1>5, <1>6, <1>7, <1>8, <1>9 DEF IInv

LEMMA NextDeliveryHas ==
  ASSUME TypeOK, NEW w \in Workers, NEW requeued, Settle(w, requeued)
  PROVE  /\ job'[w] = NoJob /\ worker'[w] = "receiving"
         /\ \A v \in Workers \ {w} : job'[v] = job[v] /\ worker'[v] = worker[v]
BY DEF Settle, NextDelivery, TypeOK

(* The delivery goes back to the head of the queue.                        *)
LEMMA RequeuedStep ==
  ASSUME TypeOK, IInv, NEW w \in Workers, worker[w] = "failed", channel = "open",
         Settle(w, <<job[w]>>), UNCHANGED settled
  PROVE  TypeOK' /\ IInv'
<1>0. job[w] # NoJob
  BY DEF TypeOK
<1> DEFINE j == job[w]
<1>1. /\ j \in Jobs /\ j \in ToSet(unacked)
      /\ Without(unacked, j) \in Seq(Jobs)
      /\ ToSet(Without(unacked, j)) = ToSet(unacked) \ {j}
      /\ Once(Without(unacked, j))
  BY <1>0, UnackedWithout
<1>2. PICK one : one = <<j>>
  OBVIOUS
<1>3. one \in Seq(Jobs) /\ ToSet(one) = {j} /\ Once(one)
  BY <1>1, <1>2, OneElement
<1>4. /\ unacked' = Without(unacked, j) /\ ready' = one \o ready
      /\ acked' = acked /\ discarded' = discarded
  BY <1>2 DEF Settle, settled
<1>5. /\ one \o ready \in Seq(Jobs)
      /\ ToSet(one \o ready) = {j} \cup ToSet(ready)
      /\ Once(one \o ready)
  <2>1. ToSet(one) \cap ToSet(ready) = {}
    BY <1>1, <1>3 DEF IInv, PlacesInv
  <2> QED BY <1>3, <2>1, TypedParts, Concatenate DEF Typed
<1>6. /\ job' = [job EXCEPT ![w] = NoJob] /\ worker' = [worker EXCEPT ![w] = "receiving"]
      /\ channel' = channel /\ published' = published /\ wire' = wire /\ buffer' = buffer
      /\ handled' = handled /\ attempts' = attempts /\ interruptions' = interruptions
  BY DEF Settle, NextDelivery
<1>7. /\ job'[w] = NoJob
      /\ \A v \in Workers \ {w} : job'[v] = job[v] /\ worker'[v] = worker[v]
  BY NextDeliveryHas
<1> HIDE DEF j
<1>8. TypeOK'
  BY <1>1, <1>4, <1>5, <1>6 DEF TypeOK, WorkerStates
<1>9. PlacesInv'
  <2>1. j \notin ToSet(wire) /\ j \notin acked \cup discarded
    BY <1>1 DEF IInv, PlacesInv
  <2> QED BY <1>1, <1>4, <1>5, <1>6, <2>1 DEF IInv, PlacesInv
<1>10. PublishedInv'
  <2>1. AtHand' = AtHand
    BY <1>1, <1>4, <1>5, <1>6 DEF AtHand
  <2> QED BY <1>6, <2>1 DEF IInv, PublishedInv
<1>11. HoldersInv'
  <2>1. j \notin ToSet(buffer) /\ \A v \in Workers : job[v] = j => v = w
    BY <1>0, NobodyElse DEF IInv, HoldersInv, j
  <2>2. /\ ToSet(buffer) \subseteq ToSet(unacked')
        /\ \A v \in Workers : job'[v] # NoJob =>
             job'[v] \notin ToSet(buffer) /\ job'[v] \in ToSet(unacked')
    BY <1>1, <1>4, <1>7, <2>1 DEF IInv, HoldersInv, j
  <2>3. \A u, v \in Workers : job'[u] # NoJob /\ job'[u] = job'[v] => u = v
    BY <1>7 DEF IInv, HoldersInv
  <2>4. ASSUME NEW k \in ToSet(unacked')
        PROVE  k \in ToSet(buffer) \/ \E v \in Workers : job'[v] = k
    BY <1>1, <1>4, <1>7, <2>4 DEF IInv, HoldersInv, j
  <2> QED BY <1>6, <2>2, <2>3, <2>4 DEF HoldersInv
<1>12. ASSUME NEW k \in Jobs
       PROVE  HandledInv(k)'
  <2>1. ~Succeeded(j)
    BY <1>0, NobodyElse DEF j
  <2>2. Succeeded(k)' <=> Succeeded(k)
    BY <1>0, <1>7, <2>1, NoJobAssumption DEF Succeeded, j
  <2> QED BY <1>4, <1>6, <2>2 DEF IInv, HandledInv
<1> QED BY <1>8, <1>9, <1>10, <1>11, <1>12 DEF IInv

(* On a closed channel nothing is settled.                                 *)
LEMMA NotSettledStep ==
  ASSUME TypeOK, IInv, NEW w \in Workers, NEW requeued, channel # "open", Settle(w, requeued),
         UNCHANGED settled
  PROVE  TypeOK' /\ IInv'
<1>1. channel = "closed"
  BY DEF TypeOK
<1>2. /\ worker' = [worker EXCEPT ![w] = "receiving"] /\ job' = [job EXCEPT ![w] = NoJob]
      /\ UNCHANGED <<channel, published, broker, handled, attempts, interruptions>>
  BY DEF Settle, NextDelivery, broker
<1> QED BY <1>1, <1>2, LetGoStep

LEMMA DiscardStep ==
  ASSUME TypeOK, IInv, NEW w \in Workers, Discard(w)
  PROVE  TypeOK' /\ IInv'
<1>1. job[w] # NoJob
  BY DEF Discard, TypeOK
<1>2. CASE channel = "open"
  <2>1. /\ acked \subseteq acked'
        /\ acked' \cup discarded' = acked \cup discarded \cup {job[w]}
        /\ worker[w] # "succeeded"
    BY <1>2 DEF Discard
  <2> QED BY <1>1, <1>2, <2>1, SettledStep DEF Discard
<1>3. CASE channel # "open"
  BY <1>3, NotSettledStep DEF Discard, settled
<1> QED BY <1>2, <1>3

LEMMA AckStep ==
  ASSUME TypeOK, IInv, NEW w \in Workers, Ack(w)
  PROVE  TypeOK' /\ IInv'
<1>1. job[w] # NoJob
  BY DEF Ack, TypeOK
<1>2. CASE channel = "open"
  <2>1. /\ acked \subseteq acked' /\ job[w] \in acked'
        /\ acked' \cup discarded' = acked \cup discarded \cup {job[w]}
    BY <1>2 DEF Ack
  <2> QED BY <1>1, <1>2, <2>1, SettledStep DEF Ack
<1>3. CASE channel # "open"
  BY <1>3, NotSettledStep DEF Ack, settled
<1> QED BY <1>2, <1>3

LEMMA NackRequeueStep ==
  ASSUME TypeOK, IInv, NEW w \in Workers, NackRequeue(w)
  PROVE  TypeOK' /\ IInv'
<1>1. CASE channel = "open"
  BY <1>1, RequeuedStep DEF NackRequeue
<1>2. CASE channel # "open"
  BY <1>2, NotSettledStep DEF NackRequeue
<1> QED BY <1>1, <1>2

(* A handler returns.                                                      *)
LEMMA CallHas ==
  ASSUME TypeOK, IInv, NEW w \in Workers, NEW outcome \in {"succeeded", "failed"},
         Call(w, outcome)
  PROVE  /\ worker' \in [Workers -> WorkerStates]
         /\ attempts' \in [Jobs -> 0..(DefaultAttempts + 2)]
         /\ job[w] \in Jobs \ Malformed /\ worker[w] = "processing" /\ worker'[w] = outcome
         /\ \A v \in Workers \ {w} : worker'[v] = worker[v]
         /\ UNCHANGED <<channel, published, wire, ready, unacked, buffer, job, acked,
                        discarded, interruptions>>
<1>1. job[w] \in Jobs
  BY DEF Call, TypeOK
<1>2. \A n \in 0..(DefaultAttempts + 2) :
        (IF n > DefaultAttempts + 1 THEN n ELSE n + 1) \in 0..(DefaultAttempts + 2)
  BY BoundsAssumption
<1>3. attempts \in [Jobs -> 0..(DefaultAttempts + 2)]
  BY DEF TypeOK
<1>4. attempts' \in [Jobs -> 0..(DefaultAttempts + 2)]
  BY <1>1, <1>2, <1>3 DEF Call
<1> QED BY <1>1, <1>4 DEF Call, TypeOK, WorkerStates, broker, settled

LEMMA CallKeeps ==
  ASSUME TypeOK, IInv, NEW w \in Workers, NEW outcome \in {"succeeded", "failed"},
         Call(w, outcome)
  PROVE  PlacesInv' /\ PublishedInv' /\ HoldersInv'
<1>1. UNCHANGED <<channel, published, wire, ready, unacked, buffer, job, acked, discarded,
                 interruptions>>
  BY CallHas
<1>2. PlacesInv'
  BY <1>1 DEF IInv, PlacesInv
<1>3. PublishedInv'
  BY <1>1 DEF IInv, PublishedInv, AtHand
<1>4. HoldersInv'
  BY <1>1 DEF IInv, HoldersInv
<1> QED BY <1>2, <1>3, <1>4

LEMMA HandlerSucceedsStep ==
  ASSUME TypeOK, IInv, NEW w \in Workers, HandlerSucceeds(w)
  PROVE  TypeOK' /\ IInv'
<1>0. PICK j : j = job[w]
  OBVIOUS
<1>1. /\ worker' \in [Workers -> WorkerStates]
      /\ attempts' \in [Jobs -> 0..(DefaultAttempts + 2)]
      /\ j \in Jobs \ Malformed /\ worker[w] = "processing" /\ worker'[w] = "succeeded"
      /\ \A v \in Workers \ {w} : worker'[v] = worker[v]
      /\ UNCHANGED <<channel, published, wire, ready, unacked, buffer, job, acked,
                     discarded, interruptions>>
  BY <1>0, CallHas DEF HandlerSucceeds
<1>2. handled \in [Jobs -> Nat] /\ interruptions \in Nat
  BY NumbersTyped
<1>3. handled' = [handled EXCEPT ![j] = handled[j] + 1]
  BY <1>0 DEF HandlerSucceeds
<1>4. /\ handled' \in [Jobs -> Nat]
      /\ handled'[j] = handled[j] + 1
      /\ \A k \in Jobs \ {j} : handled'[k] = handled[k]
  BY <1>1, <1>2, <1>3
<1>5. TypeOK'
  BY <1>1, <1>4 DEF TypeOK
<1>6. PlacesInv' /\ PublishedInv' /\ HoldersInv'
  BY CallKeeps DEF HandlerSucceeds
<1>7. ~Succeeded(j) /\ InProcess(j) /\ j # NoJob
  BY <1>0, <1>1, NobodyElse, NoJobAssumption DEF InProcess
<1>8. j \notin acked
  BY <1>0, <1>7 DEF IInv, HoldersInv, PlacesInv, TypeOK
<1>9. ~InProcess(j)'
  BY <1>0, <1>1, <1>7, NobodyElse DEF InProcess
<1>10. HandledInv(j)'
  <2>1. handled[j] <= interruptions /\ (channel = "closed" => handled[j] < interruptions)
    <3>1. HandledInv(j)
      BY <1>1 DEF IInv
    <3>2. channel \in {"open", "closed"}
      BY DEF TypeOK
    <3>3. CASE channel = "open"
      BY <1>7, <1>8, <3>1, <3>3 DEF HandledInv
    <3>4. CASE channel = "closed"
      BY <1>7, <3>1, <3>4 DEF HandledInv
    <3> QED BY <3>2, <3>3, <3>4
  <2>2. handled[j] \in Nat
    BY <1>1, <1>2
  <2>3. /\ handled'[j] <= 1 + interruptions
        /\ channel = "closed" => handled'[j] <= interruptions
        /\ handled'[j] > 0
    BY <1>2, <1>4, <2>1, <2>2
  <2>4. Succeeded(j)'
    BY <1>0, <1>1 DEF Succeeded
  <2>5. interruptions' = interruptions /\ channel' = channel /\ j \notin Malformed
    BY <1>1
  <2> QED BY <1>9, <2>3, <2>4, <2>5 DEF HandledInv
<1>11. ASSUME NEW k \in Jobs, k # j
       PROVE  HandledInv(k)'
  <2>1. (Succeeded(k)' <=> Succeeded(k)) /\ (InProcess(k)' <=> InProcess(k))
    BY <1>0, <1>1, <1>11 DEF Succeeded, InProcess
  <2>2. handled'[k] = handled[k]
    BY <1>4, <1>11
  <2> QED BY <1>1, <2>1, <2>2 DEF IInv, HandledInv
<1> QED BY <1>5, <1>6, <1>10, <1>11 DEF IInv

LEMMA HandlerFailsStep ==
  ASSUME TypeOK, IInv, NEW w \in Workers, HandlerFails(w)
  PROVE  TypeOK' /\ IInv'
<1>1. /\ worker' \in [Workers -> WorkerStates]
      /\ attempts' \in [Jobs -> 0..(DefaultAttempts + 2)]
      /\ job[w] \in Jobs \ Malformed /\ worker[w] = "processing" /\ worker'[w] = "failed"
      /\ \A v \in Workers \ {w} : worker'[v] = worker[v]
      /\ UNCHANGED <<channel, published, wire, ready, unacked, buffer, job, acked,
                     discarded, interruptions>>
  BY CallHas DEF HandlerFails
<1>2. handled' = handled
  BY DEF HandlerFails
<1>3. TypeOK'
  BY <1>1, <1>2 DEF TypeOK
<1>4. PlacesInv' /\ PublishedInv' /\ HoldersInv'
  BY CallKeeps DEF HandlerFails
<1>5. ASSUME NEW k \in Jobs
      PROVE  HandledInv(k)'
  <2>1. (Succeeded(k)' <=> Succeeded(k)) /\ (InProcess(k)' => InProcess(k))
    BY <1>1 DEF Succeeded, InProcess
  <2> QED BY <1>1, <1>2, <2>1 DEF IInv, HandledInv
<1> QED BY <1>3, <1>4, <1>5 DEF IInv

LEMMA StutterStep ==
  ASSUME TypeOK, IInv, UNCHANGED vars
  PROVE  TypeOK' /\ IInv'
<1> USE DEF vars
<1>1. TypeOK'
  BY DEF TypeOK
<1>2. PlacesInv' /\ PublishedInv' /\ HoldersInv'
  BY DEF IInv, PlacesInv, PublishedInv, HoldersInv, AtHand
<1>3. \A k \in Jobs : HandledInv(k)'
  BY DEF IInv, HandledInv, Succeeded, InProcess
<1> QED BY <1>1, <1>2, <1>3 DEF IInv

LEMMA InvNext == TypeOK /\ IInv /\ [Next]_vars => TypeOK' /\ IInv'
<1> SUFFICES ASSUME TypeOK, IInv, [Next]_vars PROVE TypeOK' /\ IInv'
  OBVIOUS
<1>1. ASSUME NEW j \in Jobs, PublishSucceeds(j) \/ PublishFails(j)
      PROVE  TypeOK' /\ IInv'
  BY <1>1, PublishSucceedsStep, PublishFailsStep
<1>2. ASSUME NEW w \in Workers, Worker(w)
      PROVE  TypeOK' /\ IInv'
  BY <1>2, ReceiveStep, WorkerStopsStep, DiscardStep, HandlerSucceedsStep, HandlerFailsStep,
     AckStep, NackRequeueStep DEF Worker, processWithRetry
<1>3. CASE Route \/ Deliver \/ ChannelCloses \/ Restart
  BY <1>3, RouteStep, DeliverStep, ChannelClosesStep, RestartStep
<1>4. CASE Quiet \/ UNCHANGED vars
  BY <1>4, StutterStep DEF Quiet
<1> QED BY <1>1, <1>2, <1>3, <1>4 DEF Next

-----------------------------------------------------------------------------
(* What the invariant says holds in every reachable state.                 *)
THEOREM Invariance == Spec => [](TypeOK /\ IInv)
BY InvInit, InvNext, PTL DEF Spec

(* A worker has a job exactly while it processes one, and nothing but jobs *)
(* is in a queue (queue.go:84-147).                                        *)
THEOREM TypeCorrect == Spec => []TypeOK
BY Invariance, PTL

(* A success costs an ack or an interruption (queue.go:136-147).           *)
THEOREM OneEmail == Spec => []OneEmailPerInterruption
<1>1. IInv => OneEmailPerInterruption
  BY DEF IInv, HandledInv, OneEmailPerInterruption
<1> QED BY <1>1, Invariance, PTL

LEMMA OccursOnce ==
  ASSUME NEW R, NEW s \in Seq(R), Once(s), NEW j
  PROVE  Occurrences(s, j) = IF j \in ToSet(s) THEN 1 ELSE 0
<1> DEFINE I == {i \in DOMAIN s : s[i] = j}
<1>1. CASE j \in ToSet(s)
  <2>1. PICK i \in DOMAIN s : s[i] = j
    BY <1>1 DEF ToSet
  <2>2. I = {i}
    BY <2>1 DEF Once
  <2>3. Cardinality(I) = 1
    BY <2>2, FS_Singleton
  <2> QED BY <1>1, <2>3 DEF Occurrences
<1>2. CASE j \notin ToSet(s)
  <2>1. I = {}
    BY <1>2 DEF ToSet
  <2>2. Cardinality(I) = 0
    BY <2>1, FS_EmptySet
  <2> QED BY <1>2, <2>2 DEF Occurrences
<1> QED BY <1>1, <1>2

LEMMA ProcessingOnce ==
  ASSUME HoldersInv, NEW j \in Jobs
  PROVE  Cardinality(Processing(j)) = IF \E w \in Workers : job[w] = j THEN 1 ELSE 0
<1>1. CASE \E w \in Workers : job[w] = j
  <2>1. PICK w \in Workers : job[w] = j
    BY <1>1
  <2>2. Processing(j) = {w}
    BY <2>1, NoJobAssumption DEF HoldersInv, Processing
  <2> QED BY <1>1, <2>2, FS_Singleton
<1>2. CASE ~\E w \in Workers : job[w] = j
  <2>1. Processing(j) = {}
    BY <1>2 DEF Processing
  <2> QED BY <1>2, <2>1, FS_EmptySet
<1> QED BY <1>1, <1>2

(* A job that was stored is at one place until it is settled: in the queue,*)
(* in the buffer, or with one worker (queue.go:84-147).                    *)
THEOREM NothingLost == Spec => []NoJobIsLost
<1>1. TypeOK /\ IInv => NoJobIsLost
  <2> SUFFICES ASSUME TypeOK, IInv, NEW j \in Jobs
               PROVE  LET kept == Occurrences(ready, j) + Occurrences(unacked, j)
                          travelling == Occurrences(wire, j)
                          settledOnce == IF j \in acked \cup discarded THEN 1 ELSE 0
                      IN  /\ kept + travelling + settledOnce <= 1
                          /\ (published[j] = "ok" /\ interruptions = 0) =>
                               kept + travelling + settledOnce = 1
                          /\ channel = "open" =>
                               Occurrences(unacked, j) =
                                 Occurrences(buffer, j) + Cardinality(Processing(j))
    BY DEF NoJobIsLost
  <2>1. /\ Occurrences(ready, j) = IF j \in ToSet(ready) THEN 1 ELSE 0
        /\ Occurrences(unacked, j) = IF j \in ToSet(unacked) THEN 1 ELSE 0
        /\ Occurrences(wire, j) = IF j \in ToSet(wire) THEN 1 ELSE 0
        /\ Occurrences(buffer, j) = IF j \in ToSet(buffer) THEN 1 ELSE 0
    BY TypedParts, OccursOnce DEF Typed
  <2>2. Cardinality(Processing(j)) = IF \E w \in Workers : job[w] = j THEN 1 ELSE 0
    BY ProcessingOnce DEF IInv
  <2>3. /\ j \in ToSet(ready) => j \notin ToSet(unacked) /\ j \notin acked \cup discarded
        /\ j \in ToSet(unacked) => j \notin acked \cup discarded
        /\ j \in ToSet(wire) => /\ j \notin ToSet(ready) /\ j \notin ToSet(unacked)
                                /\ j \notin acked \cup discarded
    BY DEF IInv, PlacesInv
  <2>4. published[j] = "ok" /\ interruptions = 0 =>
          \/ j \in ToSet(ready) \/ j \in ToSet(unacked) \/ j \in ToSet(wire)
          \/ j \in acked \cup discarded
    BY DEF IInv, PublishedInv, AtHand
  <2>5. channel = "open" =>
          /\ j \in ToSet(unacked) <=> j \in ToSet(buffer) \/ \E w \in Workers : job[w] = j
          /\ ~(j \in ToSet(buffer) /\ \E w \in Workers : job[w] = j)
    BY NoJobAssumption DEF IInv, HoldersInv
  <2> QED BY <2>1, <2>2, <2>3, <2>4, <2>5
<1> QED BY <1>1, Invariance, PTL

-----------------------------------------------------------------------------
(* The refinement: each step is one of the abstract queue's, or none.      *)
Kept == ToSet(ready) \cup ToSet(unacked)

LEMMA HeldIsKept ==
  ASSUME TypeOK, IInv, NEW w \in Workers, worker[w] \in {"processing", "succeeded", "failed"}
  PROVE  job[w] \in Jobs /\ job[w] \in Kept
<1>1. channel \in {"open", "closed"} /\ job[w] \in Jobs
  BY DEF TypeOK
<1>2. /\ channel = "open" => job[w] \in ToSet(unacked)
      /\ channel = "closed" => job[w] \in ToSet(ready)
  BY <1>1, NoJobAssumption DEF IInv, HoldersInv
<1> QED BY <1>1, <1>2 DEF Kept

(* Settling for good takes the job out of what is kept.                    *)
LEMMA SettleRemoves ==
  ASSUME TypeOK, IInv, NEW w \in Workers, job[w] # NoJob, channel = "open", Settle(w, <<>>)
  PROVE  Kept' = Kept \ {job[w]}
<1>1. /\ job[w] \in ToSet(unacked)
      /\ ToSet(Without(unacked, job[w])) = ToSet(unacked) \ {job[w]}
  BY UnackedWithout
<1>2. unacked' = Without(unacked, job[w]) /\ ready' = ready
  <2>1. <<>> \o ready = ready
    BY TypedParts DEF Typed
  <2> QED BY <2>1 DEF Settle
<1>3. job[w] \notin ToSet(ready)
  BY <1>1 DEF IInv, PlacesInv
<1> QED BY <1>1, <1>2, <1>3 DEF Kept

LEMMA RequeueKeeps ==
  ASSUME TypeOK, IInv, NEW w \in Workers, worker[w] = "failed", channel = "open",
         Settle(w, <<job[w]>>)
  PROVE  Kept' = Kept
<1>1. job[w] # NoJob
  BY DEF TypeOK
<1>2. /\ job[w] \in Jobs /\ job[w] \in ToSet(unacked)
      /\ ToSet(Without(unacked, job[w])) = ToSet(unacked) \ {job[w]}
  BY <1>1, UnackedWithout
<1>3. PICK one : one = <<job[w]>>
  OBVIOUS
<1>4. one \in Seq(Jobs) /\ ToSet(one) = {job[w]}
  BY <1>2, <1>3, OneElement
<1>5. ToSet(one \o ready) = {job[w]} \cup ToSet(ready)
  BY <1>4, TypedParts, Concatenate DEF Typed
<1>6. unacked' = Without(unacked, job[w]) /\ ready' = one \o ready
  BY <1>3 DEF Settle
<1> QED BY <1>2, <1>5, <1>6 DEF Kept

LEMMA RouteStores ==
  ASSUME TypeOK, IInv, Route
  PROVE  Q!Store(Head(wire)) /\ Head(wire) \in Jobs
<1>1. Head(wire) \in Jobs /\ Head(wire) \in ToSet(wire)
  <2>1. wire # <<>>
    BY DEF Route
  <2> QED BY <2>1, TypedParts, HeadAndTail DEF Typed
<1>2. ToSet(Append(ready, Head(wire))) = ToSet(ready) \cup {Head(wire)}
  BY <1>1, TypedParts, AppendOne DEF Typed
<1>3. Head(wire) \notin ToSet(ready) \cup ToSet(unacked) \cup acked \cup discarded
  BY <1>1 DEF IInv, PlacesInv
<1> QED BY <1>1, <1>2, <1>3 DEF Route, settled, Q!Store

LEMMA RefinesInit == Init => Q!Init
BY NothingInEmpty DEF Init, Q!Init

LEMMA RefinesNext == TypeOK /\ IInv /\ [Next]_vars => [Q!Next]_(Q!vars)
<1> SUFFICES ASSUME TypeOK, IInv, [Next]_vars PROVE [Q!Next]_(Q!vars)
  OBVIOUS
<1>1. SUFFICES \/ \E j \in Jobs : Q!Store(j) \/ Q!Handle(j) \/ Q!Ack(j) \/ Q!Discard(j)
               \/ Kept' = Kept /\ UNCHANGED <<acked, discarded, handled>>
  BY DEF Q!Next, Q!vars, Kept
<1>2. CASE \E j \in Jobs : PublishSucceeds(j) \/ PublishFails(j)
  BY <1>2 DEF PublishSucceeds, PublishFails, Kept, settled, broker
<1>3. CASE Route
  BY <1>3, RouteStores
<1>4. CASE Deliver \/ ChannelCloses
  <2>1. ToSet(unacked \o ready) = ToSet(unacked) \cup ToSet(ready)
    BY ReadyAfterUnacked
  <2> QED BY <1>4, <2>1, NothingInEmpty DEF Deliver, ChannelCloses, Kept, settled
<1>5. CASE Restart \/ Quiet \/ UNCHANGED vars
  BY <1>5 DEF Restart, Quiet, vars, Kept, settled, broker
<1>6. ASSUME NEW w \in Workers, Receive(w) \/ WorkerStops(w) \/ HandlerFails(w)
      PROVE  Kept' = Kept /\ UNCHANGED <<acked, discarded, handled>>
  BY <1>6 DEF Receive, WorkerStops, HandlerFails, Call, Kept, settled, broker
<1>7. ASSUME NEW w \in Workers, HandlerSucceeds(w)
      PROVE  job[w] \in Jobs /\ Q!Handle(job[w])
  <2>1. job[w] \in Jobs /\ job[w] \in Kept /\ job[w] \notin Malformed
    BY <1>7, HeldIsKept DEF HandlerSucceeds, Call
  <2> QED BY <1>7, <2>1 DEF HandlerSucceeds, Call, Kept, settled, broker, Q!Handle
<1>8. ASSUME NEW w \in Workers, NEW requeued, Settle(w, requeued), channel # "open",
             UNCHANGED settled
      PROVE  Kept' = Kept /\ UNCHANGED <<acked, discarded, handled>>
  BY <1>8 DEF Settle, Kept, settled
<1>9. ASSUME NEW w \in Workers, Discard(w), channel = "open"
      PROVE  job[w] \in Jobs /\ Q!Discard(job[w])
  <2>1. job[w] \in Jobs /\ job[w] \in Kept /\ job[w] \in Malformed /\ job[w] # NoJob
    BY <1>9, HeldIsKept, NoJobAssumption DEF Discard
  <2>2. Kept' = Kept \ {job[w]}
    BY <1>9, <2>1, SettleRemoves DEF Discard
  <2> QED BY <1>9, <2>1, <2>2 DEF Discard, Settle, Kept, Q!Discard
<1>10. ASSUME NEW w \in Workers, Ack(w), channel = "open"
       PROVE  job[w] \in Jobs /\ Q!Ack(job[w])
  <2>1. job[w] \in Jobs /\ job[w] \in Kept /\ job[w] # NoJob
    BY <1>10, HeldIsKept, NoJobAssumption DEF Ack
  <2>2. handled[job[w]] > 0
    BY <1>10, <2>1 DEF Ack, IInv, HandledInv, Succeeded
  <2>3. Kept' = Kept \ {job[w]}
    BY <1>10, <2>1, SettleRemoves DEF Ack
  <2> QED BY <1>10, <2>1, <2>2, <2>3 DEF Ack, Settle, Kept, Q!Ack
<1>11. ASSUME NEW w \in Workers, NackRequeue(w), channel = "open"
       PROVE  Kept' = Kept /\ UNCHANGED <<acked, discarded, handled>>
  BY <1>11, RequeueKeeps DEF NackRequeue, Settle, settled
<1>12. ASSUME NEW w \in Workers, Discard(w) \/ Ack(w) \/ NackRequeue(w), channel # "open"
       PROVE  Kept' = Kept /\ UNCHANGED <<acked, discarded, handled>>
  BY <1>8, <1>12 DEF Discard, Ack, NackRequeue, settled
<1> QED BY <1>2, <1>3, <1>4, <1>5, <1>6, <1>7, <1>9, <1>10, <1>11, <1>12
        DEF Next, Worker, processWithRetry

(* Whatever closes the channel, and whenever, publisher, broker, library   *)
(* and workers are a durable queue that delivers at least once             *)
(* (queue.go:113-147).                                                     *)
THEOREM Refinement == Spec => ImplementsDurableQueue
BY RefinesInit, RefinesNext, Invariance, PTL DEF Spec, ImplementsDurableQueue, Q!Spec
=============================================================================
