-------------------------- MODULE HubFramesProofs --------------------------
(***************************************************************************)
(* What TLAPS proves of the frames that Hub sends: the order in which a    *)
(* browser sees them, and that no client is passed over.                   *)
(***************************************************************************)
EXTENDS HubProofs

-----------------------------------------------------------------------------
(* Sequences of frames.                                                    *)

(* What may come before what on its way to a browser.                      *)
Before(f, g) == f # g /\ (f.from = g.from => g.event = JobEnqueued)

Holds(s, f) == \E i \in DOMAIN s : s[i] = f
Ordered(s) == \A i, k \in DOMAIN s : i < k => Before(s[i], s[k])
Precede(s, t) == \A f, g : Holds(s, f) /\ Holds(t, g) => Before(f, g)

LEMMA NoFrames ==
  /\ <<>> \in Seq(Frame) /\ Ordered(<<>>)
  /\ \A f : ~Holds(<<>>, f)
  /\ \A s : Precede(<<>>, s) /\ Precede(s, <<>>)
BY DEF Ordered, Holds, Precede

LEMMA OneFrame ==
  ASSUME NEW f \in Frame
  PROVE  /\ <<f>> \in Seq(Frame) /\ Ordered(<<f>>)
         /\ \A g : Holds(<<f>>, g) <=> g = f
BY DEF Ordered, Holds

LEMMA Joined ==
  ASSUME NEW s \in Seq(Frame), NEW t \in Seq(Frame)
  PROVE  /\ s \o t \in Seq(Frame)
         /\ \A f : Holds(s \o t, f) <=> Holds(s, f) \/ Holds(t, f)
         /\ Ordered(s \o t) <=> Ordered(s) /\ Ordered(t) /\ Precede(s, t)
<1> DEFINE st == s \o t
<1>1. st \in Seq(Frame) /\ Len(st) = Len(s) + Len(t) /\ Len(s) \in Nat /\ Len(t) \in Nat
  OBVIOUS
<1>2. \A i \in 1..Len(s) : i \in 1..Len(st) /\ st[i] = s[i]
  OBVIOUS
<1>3. \A i \in 1..Len(t) : Len(s) + i \in 1..Len(st) /\ st[Len(s) + i] = t[i]
  OBVIOUS
<1>4. \A i \in 1..Len(st) : \/ i \in 1..Len(s) /\ st[i] = s[i]
                            \/ i - Len(s) \in 1..Len(t) /\ st[i] = t[i - Len(s)]
  OBVIOUS
<1>5. DOMAIN s = 1..Len(s) /\ DOMAIN t = 1..Len(t) /\ DOMAIN st = 1..Len(st)
  OBVIOUS
<1> HIDE DEF st
<1>6. ASSUME NEW f PROVE Holds(st, f) <=> Holds(s, f) \/ Holds(t, f)
  <2>1. ASSUME Holds(st, f) PROVE Holds(s, f) \/ Holds(t, f)
    <3>1. PICK i \in 1..Len(st) : st[i] = f
      BY <1>5, <2>1 DEF Holds
    <3> QED BY <1>4, <1>5, <3>1 DEF Holds
  <2>2. ASSUME Holds(s, f) PROVE Holds(st, f)
    BY <1>2, <1>5, <2>2 DEF Holds
  <2>3. ASSUME Holds(t, f) PROVE Holds(st, f)
    <3>1. PICK i \in 1..Len(t) : t[i] = f
      BY <1>5, <2>3 DEF Holds
    <3>2. Len(s) + i \in 1..Len(st) /\ st[Len(s) + i] = f
      BY <1>3, <3>1
    <3> QED BY <1>5, <3>2 DEF Holds
  <2> QED BY <2>1, <2>2, <2>3
<1>7. ASSUME Ordered(st) PROVE Ordered(s) /\ Ordered(t) /\ Precede(s, t)
  <2>1. \A i, k \in 1..Len(st) : i < k => Before(st[i], st[k])
    BY <1>5, <1>7 DEF Ordered
  <2>2. ASSUME NEW i \in 1..Len(s), NEW k \in 1..Len(s), i < k PROVE Before(s[i], s[k])
    <3>1. i \in 1..Len(st) /\ k \in 1..Len(st) /\ st[i] = s[i] /\ st[k] = s[k]
      BY <1>2
    <3>2. Before(st[i], st[k])
      BY <2>1, <2>2, <3>1
    <3> QED BY <3>1, <3>2
  <2>3. ASSUME NEW i \in 1..Len(t), NEW k \in 1..Len(t), i < k PROVE Before(t[i], t[k])
    <3>1. PICK a, b : a = Len(s) + i /\ b = Len(s) + k
      OBVIOUS
    <3>2. /\ a \in 1..Len(st) /\ b \in 1..Len(st) /\ a < b
          /\ st[a] = t[i] /\ st[b] = t[k]
      BY <1>1, <1>3, <2>3, <3>1
    <3>3. Before(st[a], st[b])
      BY <2>1, <3>2
    <3> QED BY <3>2, <3>3
  <2>4. ASSUME NEW i \in 1..Len(s), NEW k \in 1..Len(t) PROVE Before(s[i], t[k])
    <3>1. PICK b : b = Len(s) + k
      OBVIOUS
    <3>2. /\ i \in 1..Len(st) /\ b \in 1..Len(st) /\ i < b
          /\ st[i] = s[i] /\ st[b] = t[k]
      BY <1>1, <1>2, <1>3, <3>1
    <3>3. Before(st[i], st[b])
      BY <2>1, <3>2
    <3> QED BY <3>2, <3>3
  <2>5. Ordered(s)
    BY <1>5, <2>2 DEF Ordered
  <2>6. Ordered(t)
    BY <1>5, <2>3 DEF Ordered
  <2>7. Precede(s, t)
    BY <1>5, <2>4 DEF Precede, Holds
  <2> QED BY <2>5, <2>6, <2>7
<1>8. ASSUME Ordered(s), Ordered(t), Precede(s, t) PROVE Ordered(st)
  <2>1. \A i, k \in 1..Len(s) : i < k => Before(s[i], s[k])
    BY <1>5, <1>8 DEF Ordered
  <2>2. \A i, k \in 1..Len(t) : i < k => Before(t[i], t[k])
    BY <1>5, <1>8 DEF Ordered
  <2>3. \A i \in 1..Len(s), k \in 1..Len(t) : Before(s[i], t[k])
    BY <1>5, <1>8 DEF Precede, Holds
  <2>4. ASSUME NEW i \in 1..Len(st), NEW k \in 1..Len(st), i < k
        PROVE  Before(st[i], st[k])
    <3>1. CASE i \in 1..Len(s) /\ k \in 1..Len(s)
      <4>1. Before(s[i], s[k]) /\ st[i] = s[i] /\ st[k] = s[k]
        BY <1>2, <2>1, <2>4, <3>1
      <4> QED BY <4>1
    <3>2. CASE i \in 1..Len(s) /\ k \notin 1..Len(s)
      <4>1. st[i] = s[i] /\ k - Len(s) \in 1..Len(t) /\ st[k] = t[k - Len(s)]
        BY <1>2, <1>4, <3>2
      <4> QED BY <2>3, <3>2, <4>1
    <3>3. CASE i \notin 1..Len(s)
      <4>1. k \notin 1..Len(s)
        BY <1>1, <2>4, <3>3
      <4>2. PICK a, b : a = i - Len(s) /\ b = k - Len(s)
        OBVIOUS
      <4>3. a \in 1..Len(t) /\ b \in 1..Len(t) /\ st[i] = t[a] /\ st[k] = t[b]
        BY <1>4, <3>3, <4>1, <4>2
      <4>4. a < b
        BY <1>1, <2>4, <4>2
      <4>5. Before(t[a], t[b])
        BY <2>2, <4>3, <4>4
      <4> QED BY <4>3, <4>5
    <3> QED BY <3>1, <3>2, <3>3
  <2> QED BY <1>5, <2>4 DEF Ordered
<1> QED BY <1>1, <1>6, <1>7, <1>8 DEF st

-----------------------------------------------------------------------------
(* What a step does to the frames on their way to a browser.               *)

(* writePump runs once it is started, and has a frame in its hand only     *)
(* while it writes it.                                                     *)
HandInv ==
  \A c \in Clients : /\ wpump[c] # "none" <=> serve[c] = "pumps"
                     /\ wpump[c] # "writing" => inhand[c] = <<>>

LEMMA StreamParts ==
  ASSUME NEW r \in Seq(Frame), NEW h \in Seq(Frame), NEW s \in Seq(Frame)
  PROVE  /\ \A f : Holds(r \o h \o s, f) <=> Holds(r, f) \/ Holds(h, f) \/ Holds(s, f)
         /\ Ordered(r \o h \o s) <=>
              /\ Ordered(r) /\ Ordered(h) /\ Ordered(s)
              /\ Precede(r, h) /\ Precede(r, s) /\ Precede(h, s)
<1>1. /\ r \o h \in Seq(Frame)
      /\ \A f : Holds(r \o h, f) <=> Holds(r, f) \/ Holds(h, f)
      /\ Ordered(r \o h) <=> Ordered(r) /\ Ordered(h) /\ Precede(r, h)
  BY Joined
<1>2. PICK rh \in Seq(Frame) : rh = r \o h
  BY <1>1
<1>3. /\ \A f : Holds(rh \o s, f) <=> Holds(rh, f) \/ Holds(s, f)
      /\ Ordered(rh \o s) <=> Ordered(rh) /\ Ordered(s) /\ Precede(rh, s)
  BY Joined
<1>4. Precede(rh, s) <=> Precede(r, s) /\ Precede(h, s)
  BY <1>1, <1>2 DEF Precede
<1> QED BY <1>1, <1>2, <1>3, <1>4

LEMMA HeadFirst ==
  ASSUME NEW s \in Seq(Frame), s # <<>>
  PROVE  /\ Head(s) \in Frame /\ Tail(s) \in Seq(Frame)
         /\ \A f : Holds(s, f) <=> f = Head(s) \/ Holds(Tail(s), f)
         /\ Ordered(s) <=> Ordered(Tail(s)) /\ Precede(<<Head(s)>>, Tail(s))
<1>1. Head(s) \in Frame /\ Tail(s) \in Seq(Frame) /\ s = <<Head(s)>> \o Tail(s)
  BY HeadTailProperties
<1>2. PICK h \in Frame : h = Head(s)
  BY <1>1
<1>3. PICK t \in Seq(Frame) : t = Tail(s)
  BY <1>1
<1>4. <<h>> \in Seq(Frame) /\ Ordered(<<h>>) /\ \A g : Holds(<<h>>, g) <=> g = h
  BY OneFrame
<1>5. /\ \A f : Holds(<<h>> \o t, f) <=> Holds(<<h>>, f) \/ Holds(t, f)
      /\ Ordered(<<h>> \o t) <=> Ordered(<<h>>) /\ Ordered(t) /\ Precede(<<h>>, t)
  BY <1>4, Joined
<1> QED BY <1>1, <1>2, <1>3, <1>4, <1>5

(* The step neither adds a frame nor changes the order of those there are. *)
Fewer(c) ==
  /\ \A f : Holds(Stream(c)', f) => Holds(Stream(c), f)
  /\ Ordered(Stream(c)) => Ordered(Stream(c)')

Keeps(c) ==
  /\ Fewer(c)
  /\ \A f : Holds(Stream(c), f) => Holds(Stream(c)', f)

(* It puts one frame behind the others.                                    *)
Adds(c, f) ==
  /\ \A g : Holds(Stream(c)', g) <=> Holds(Stream(c), g) \/ g = f
  /\ Ordered(Stream(c)) /\ (\A g : Holds(Stream(c), g) => Before(g, f)) => Ordered(Stream(c)')

Parts(c) ==
  /\ send[c] \in Seq(Frame) /\ inhand[c] \in Seq(Frame) /\ received[c] \in Seq(Frame)

LEMMA StreamIs ==
  ASSUME NEW c \in Clients, Parts(c)
  PROVE  /\ \A f : Holds(Stream(c), f) <=>
               Holds(received[c], f) \/ Holds(inhand[c], f) \/ Holds(send[c], f)
         /\ Ordered(Stream(c)) <=>
              /\ Ordered(received[c]) /\ Ordered(inhand[c]) /\ Ordered(send[c])
              /\ Precede(received[c], inhand[c]) /\ Precede(received[c], send[c])
              /\ Precede(inhand[c], send[c])
BY StreamParts DEF Stream, Parts

LEMMA StreamSame ==
  ASSUME NEW c \in Clients,
         send'[c] = send[c], inhand'[c] = inhand[c], received'[c] = received[c]
  PROVE  Keeps(c)
<1>1. Stream(c)' = Stream(c)
  BY DEF Stream
<1> QED BY <1>1 DEF Keeps, Fewer

LEMMA StreamAdds ==
  ASSUME NEW c \in Clients, Parts(c), NEW f \in Frame,
         send'[c] = Append(send[c], f), inhand'[c] = inhand[c], received'[c] = received[c]
  PROVE  Adds(c, f)
<1>1. PICK s \in Seq(Frame) : s = send[c]
  BY DEF Parts
<1>2. <<f>> \in Seq(Frame) /\ Ordered(<<f>>) /\ \A g : Holds(<<f>>, g) <=> g = f
  BY OneFrame
<1>3. Append(s, f) = s \o <<f>>
  OBVIOUS
<1>4. /\ s \o <<f>> \in Seq(Frame)
      /\ \A g : Holds(s \o <<f>>, g) <=> Holds(s, g) \/ Holds(<<f>>, g)
      /\ Ordered(s \o <<f>>) <=> Ordered(s) /\ Ordered(<<f>>) /\ Precede(s, <<f>>)
  BY <1>2, Joined
<1>5. PICK t \in Seq(Frame) : t = send'[c]
  BY <1>1, <1>3, <1>4
<1>6. \A g : Holds(t, g) <=> Holds(s, g) \/ g = f
  BY <1>1, <1>2, <1>3, <1>4, <1>5
<1>7. Ordered(t) <=> Ordered(s) /\ Precede(s, <<f>>)
  BY <1>1, <1>2, <1>3, <1>4, <1>5
<1>8. Parts(c)'
  BY <1>5 DEF Parts
<1>9. /\ \A g : Holds(Stream(c)', g) <=>
            Holds(received[c], g) \/ Holds(inhand[c], g) \/ Holds(t, g)
      /\ Ordered(Stream(c)') <=>
           /\ Ordered(received[c]) /\ Ordered(inhand[c]) /\ Ordered(t)
           /\ Precede(received[c], inhand[c]) /\ Precede(received[c], t)
           /\ Precede(inhand[c], t)
  <2>1. Stream(c)' = received[c] \o inhand[c] \o t
    BY <1>5 DEF Stream
  <2> QED BY <2>1, StreamParts DEF Parts
<1>10. ASSUME Ordered(Stream(c)), \A g : Holds(Stream(c), g) => Before(g, f)
       PROVE  Ordered(Stream(c)')
  <2>1. Precede(s, <<f>>) /\ Precede(received[c], t) /\ Precede(inhand[c], t)
    BY <1>1, <1>2, <1>6, <1>10, StreamIs DEF Precede
  <2> QED BY <1>1, <1>7, <1>9, <1>10, <2>1, StreamIs
<1> QED BY <1>1, <1>6, <1>9, <1>10, StreamIs DEF Adds

LEMMA StreamReceives ==
  ASSUME NEW c \in Clients, Parts(c), inhand[c] = <<>>, send[c] # <<>>,
         send'[c] = Tail(send[c]), inhand'[c] = <<Head(send[c])>>,
         received'[c] = received[c]
  PROVE  Keeps(c)
<1>1. PICK s \in Seq(Frame) : s = send[c]
  BY DEF Parts
<1>2. /\ Head(s) \in Frame /\ Tail(s) \in Seq(Frame)
      /\ \A f : Holds(s, f) <=> f = Head(s) \/ Holds(Tail(s), f)
      /\ Ordered(s) <=> Ordered(Tail(s)) /\ Precede(<<Head(s)>>, Tail(s))
  BY <1>1, HeadFirst
<1>3. PICK h \in Frame : h = Head(s)
  BY <1>2
<1>4. PICK t \in Seq(Frame) : t = Tail(s)
  BY <1>2
<1>5. <<h>> \in Seq(Frame) /\ Ordered(<<h>>) /\ \A g : Holds(<<h>>, g) <=> g = h
  BY OneFrame
<1>6. /\ \A f : Holds(Stream(c)', f) <=>
            Holds(received[c], f) \/ Holds(<<h>>, f) \/ Holds(t, f)
      /\ Ordered(Stream(c)') <=>
           /\ Ordered(received[c]) /\ Ordered(<<h>>) /\ Ordered(t)
           /\ Precede(received[c], <<h>>) /\ Precede(received[c], t)
           /\ Precede(<<h>>, t)
  <2>1. Stream(c)' = received[c] \o <<h>> \o t
    BY <1>1, <1>3, <1>4 DEF Stream
  <2>2. PICK hand \in Seq(Frame) : hand = <<h>>
    BY <1>5
  <2>3. Stream(c)' = received[c] \o hand \o t
    BY <2>1, <2>2
  <2>4. /\ \A f : Holds(Stream(c)', f) <=>
              Holds(received[c], f) \/ Holds(hand, f) \/ Holds(t, f)
        /\ Ordered(Stream(c)') <=>
             /\ Ordered(received[c]) /\ Ordered(hand) /\ Ordered(t)
             /\ Precede(received[c], hand) /\ Precede(received[c], t)
             /\ Precede(hand, t)
    BY <2>3, StreamParts DEF Parts
  <2> QED BY <2>2, <2>4
<1>7. \A f : Holds(Stream(c)', f) <=> Holds(Stream(c), f)
  BY <1>1, <1>2, <1>3, <1>4, <1>5, <1>6, StreamIs, NoFrames
<1>8. ASSUME Ordered(Stream(c)) PROVE Ordered(Stream(c)')
  <2>1. Ordered(received[c]) /\ Ordered(s) /\ Precede(received[c], s)
    BY <1>1, <1>8, StreamIs
  <2>2. Precede(received[c], <<h>>) /\ Precede(received[c], t)
    BY <1>2, <1>3, <1>4, <1>5, <2>1 DEF Precede
  <2> QED BY <1>2, <1>3, <1>4, <1>5, <1>6, <2>1, <2>2
<1> QED BY <1>7, <1>8 DEF Keeps, Fewer

LEMMA StreamArrives ==
  ASSUME NEW c \in Clients, Parts(c), send'[c] = send[c], inhand'[c] = <<>>,
         received'[c] = received[c] \o inhand[c]
  PROVE  Keeps(c)
<1>1. PICK r \in Seq(Frame) : r = received[c] \o inhand[c]
  BY Joined DEF Parts
<1>2. /\ \A f : Holds(r, f) <=> Holds(received[c], f) \/ Holds(inhand[c], f)
      /\ Ordered(r) <=> Ordered(received[c]) /\ Ordered(inhand[c])
                        /\ Precede(received[c], inhand[c])
  BY <1>1, Joined DEF Parts
<1>3. /\ \A f : Holds(Stream(c)', f) <=> Holds(r, f) \/ Holds(<<>>, f) \/ Holds(send[c], f)
      /\ Ordered(Stream(c)') <=>
           /\ Ordered(r) /\ Ordered(<<>>) /\ Ordered(send[c])
           /\ Precede(r, <<>>) /\ Precede(r, send[c]) /\ Precede(<<>>, send[c])
  <2>1. PICK hand \in Seq(Frame) : hand = <<>>
    BY NoFrames
  <2>2. Stream(c)' = r \o hand \o send[c]
    BY <1>1, <2>1 DEF Stream
  <2>3. /\ \A f : Holds(Stream(c)', f) <=>
              Holds(r, f) \/ Holds(hand, f) \/ Holds(send[c], f)
        /\ Ordered(Stream(c)') <=>
             /\ Ordered(r) /\ Ordered(hand) /\ Ordered(send[c])
             /\ Precede(r, hand) /\ Precede(r, send[c]) /\ Precede(hand, send[c])
    BY <2>2, StreamParts DEF Parts
  <2> QED BY <2>1, <2>3
<1>4. \A f : Holds(Stream(c)', f) <=> Holds(Stream(c), f)
  BY <1>2, <1>3, StreamIs, NoFrames
<1>5. ASSUME Ordered(Stream(c)) PROVE Ordered(Stream(c)')
  <2>1. Precede(r, send[c])
    BY <1>2, <1>5, StreamIs DEF Precede
  <2> QED BY <1>2, <1>3, <1>5, <2>1, StreamIs, NoFrames
<1> QED BY <1>4, <1>5 DEF Keeps, Fewer

LEMMA StreamLoses ==
  ASSUME NEW c \in Clients, Parts(c), send'[c] = send[c], inhand'[c] = <<>>,
         received'[c] = received[c]
  PROVE  Fewer(c)
<1>1. /\ \A f : Holds(Stream(c)', f) <=>
            Holds(received[c], f) \/ Holds(<<>>, f) \/ Holds(send[c], f)
      /\ Ordered(Stream(c)') <=>
           /\ Ordered(received[c]) /\ Ordered(<<>>) /\ Ordered(send[c])
           /\ Precede(received[c], <<>>) /\ Precede(received[c], send[c])
           /\ Precede(<<>>, send[c])
  BY NoFrames, StreamParts DEF Stream, Parts
<1> QED BY <1>1, StreamIs, NoFrames DEF Fewer

LEMMA HandStep == TypeOK /\ HandInv /\ [Next]_vars => HandInv'
<1> SUFFICES ASSUME TypeOK, HandInv, [Next]_vars PROVE HandInv'
  OBVIOUS
<1> USE DEF TypeOK, HandInv, lockVars, clientVars, emitterVars
<1>1. ASSUME NEW c \in Clients, ServeHTTP(c) PROVE HandInv'
  <2>1. CASE HelloAndStartPumps(c)
    <3>1. /\ inhand' = inhand
          /\ wpump[c] = "none" /\ wpump' = [wpump EXCEPT ![c] = "receiving"]
          /\ serve' = [serve EXCEPT ![c] = "pumps"]
      BY <2>1 DEF HelloAndStartPumps
    <3> QED BY <3>1
  <2>2. CASE ~HelloAndStartPumps(c)
    BY <1>1, <2>2 DEF ServeHTTP, Upgrade, UpgradeFails, CallRegister, Register
  <2> QED BY <2>1, <2>2
<1>2. ASSUME NEW c \in Clients, readPump(c) PROVE HandInv'
  BY <1>2 DEF readPump, ReadFails, CallUnregister, Unregister, CloseSend, ReadPumpReturns
<1>3. ASSUME NEW c \in Clients, writePump(c) PROVE HandInv'
  <2>1. CASE Receive(c) BY <2>1 DEF Receive
  <2>2. CASE ChannelClosed(c) BY <2>2 DEF ChannelClosed
  <2>3. CASE WriteSucceeds(c) BY <2>3 DEF WriteSucceeds
  <2>4. CASE WriteFails(c) BY <2>4 DEF WriteFails
  <2>5. CASE WritePumpReturns(c) BY <2>5 DEF WritePumpReturns
  <2> QED BY <1>3, <2>1, <2>2, <2>3, <2>4, <2>5 DEF writePump
<1>4. ASSUME NEW c \in Clients, Browser(c) PROVE HandInv'
  BY <1>4 DEF Browser, PeerStalls, PeerResumes, PeerGoes, PeerChanges
<1>5. ASSUME NEW e \in Emitters, Emit(e) PROVE HandInv'
  BY <1>5 DEF Emit, EmitUserRegistered, EmitJobEnqueued, NoJob
<1>6. ASSUME NEW e \in Emitters, Broadcast(e) PROVE HandInv'
  <2>1. UNCHANGED <<serve, wpump, inhand>>
    BY <1>6 DEF Broadcast, RLock, SendOrDrop, RUnlock
  <2> QED BY <2>1
<1>7. CASE UNCHANGED vars BY <1>7 DEF vars
<1> QED BY <1>1, <1>2, <1>3, <1>4, <1>5, <1>6, <1>7 DEF Next, AllServed

(* Frames are added by the hello and by a broadcast, and lost with a       *)
(* browser that is gone or a connection that is closed.                    *)
Loses(c) == Fewer(c) /\ (peer[c] = "gone" \/ WriteFails(c))
Greets(c) == HelloAndStartPumps(c) /\ Adds(c, Hello(c))
Queues(e, c) == SendOrDrop(e, c) /\ HasRoom(c) /\ Adds(c, FrameOf(e))

LEMMA StreamStep ==
  ASSUME TypeOK, HandInv, [Next]_vars, NEW c \in Clients
  PROVE  Keeps(c) \/ Loses(c) \/ Greets(c) \/ \E e \in Emitters : Queues(e, c)
<1> DEFINE Same == send'[c] = send[c] /\ inhand'[c] = inhand[c] /\ received'[c] = received[c]
           Goal == Keeps(c) \/ Loses(c) \/ Greets(c) \/ \E e \in Emitters : Queues(e, c)
<1> USE DEF lockVars, clientVars, emitterVars
<1>0. /\ Parts(c)
      /\ send \in [Clients -> Seq(Frame)] /\ inhand \in [Clients -> Seq(Frame)]
      /\ received \in [Clients -> Seq(Frame)]
  BY DEF TypeOK, Parts
<1>1. Same => Goal
  BY StreamSame
<1>2. ASSUME NEW d \in Clients, ServeHTTP(d) PROVE Goal
  <2>1. CASE HelloAndStartPumps(d)
    <3>1. CASE d = c /\ HasRoom(c)
      <4>1. /\ send'[c] = Append(send[c], Hello(c))
            /\ inhand'[c] = inhand[c] /\ received'[c] = received[c]
        BY <1>0, <2>1, <3>1 DEF HelloAndStartPumps, WriteHello
      <4>2. Adds(c, Hello(c))
        BY <1>0, <4>1, FramesAreFrames, StreamAdds
      <4> QED BY <2>1, <3>1, <4>2 DEF Greets
    <3>2. CASE ~(d = c /\ HasRoom(c))
      <4>1. Same
        BY <1>0, <2>1, <3>2 DEF HelloAndStartPumps, WriteHello
      <4> QED BY <1>1, <4>1
    <3> QED BY <3>1, <3>2
  <2>2. CASE ~HelloAndStartPumps(d)
    <3>1. Same
      BY <1>2, <2>2 DEF ServeHTTP, Upgrade, UpgradeFails, CallRegister, Register
    <3> QED BY <1>1, <3>1
  <2> QED BY <2>1, <2>2
<1>3. ASSUME NEW d \in Clients, readPump(d) PROVE Goal
  <2>1. Same
    BY <1>3 DEF readPump, ReadFails, CallUnregister, Unregister, CloseSend, ReadPumpReturns
  <2> QED BY <1>1, <2>1
<1>4. ASSUME NEW d \in Clients, writePump(d) PROVE Goal
  <2>1. CASE d # c
    <3>1. Same
      BY <1>0, <1>4, <2>1 DEF writePump, Receive, ChannelClosed, WriteSucceeds, WriteFails,
         WritePumpReturns
    <3> QED BY <1>1, <3>1
  <2>2. CASE Receive(c)
    <3>1. inhand[c] = <<>>
      BY <2>2 DEF Receive, HandInv
    <3>2. /\ send[c] # <<>> /\ send'[c] = Tail(send[c])
          /\ inhand'[c] = <<Head(send[c])>> /\ received'[c] = received[c]
      BY <1>0, <2>2 DEF Receive
    <3> QED BY <1>0, <3>1, <3>2, StreamReceives
  <2>3. CASE WriteSucceeds(c) /\ peer[c] = "reading"
    <3>1. /\ send'[c] = send[c] /\ inhand'[c] = <<>>
          /\ received'[c] = received[c] \o inhand[c]
      BY <1>0, <2>3 DEF WriteSucceeds
    <3> QED BY <1>0, <3>1, StreamArrives
  <2>4. CASE WriteSucceeds(c) /\ peer[c] # "reading"
    <3>1. send'[c] = send[c] /\ inhand'[c] = <<>> /\ received'[c] = received[c]
      BY <1>0, <2>4 DEF WriteSucceeds
    <3>2. peer[c] = "gone"
      BY <2>4 DEF WriteSucceeds, TypeOK
    <3> QED BY <1>0, <3>1, <3>2, StreamLoses DEF Loses
  <2>5. CASE WriteFails(c)
    <3>1. send'[c] = send[c] /\ inhand'[c] = <<>> /\ received'[c] = received[c]
      BY <1>0, <2>5 DEF WriteFails
    <3> QED BY <1>0, <2>5, <3>1, StreamLoses DEF Loses
  <2>6. CASE ChannelClosed(c) \/ WritePumpReturns(c)
    <3>1. Same
      BY <2>6 DEF ChannelClosed, WritePumpReturns
    <3> QED BY <1>1, <3>1
  <2> QED BY <1>4, <2>1, <2>2, <2>3, <2>4, <2>5, <2>6 DEF writePump
<1>5. ASSUME NEW d \in Clients, Browser(d) PROVE Goal
  <2>1. Same
    BY <1>5 DEF Browser, PeerStalls, PeerResumes, PeerGoes, PeerChanges
  <2> QED BY <1>1, <2>1
<1>6. ASSUME NEW e \in Emitters, Emit(e) PROVE Goal
  <2>1. Same
    BY <1>6 DEF Emit, EmitUserRegistered, EmitJobEnqueued, NoJob
  <2> QED BY <1>1, <2>1
<1>7. ASSUME NEW e \in Emitters, Broadcast(e) PROVE Goal
  <2>1. ASSUME NEW d \in Clients, SendOrDrop(e, d) PROVE Goal
    <3>1. CASE d = c /\ HasRoom(c)
      <4>1. /\ send'[c] = Append(send[c], FrameOf(e))
            /\ inhand'[c] = inhand[c] /\ received'[c] = received[c]
        BY <1>0, <2>1, <3>1 DEF SendOrDrop
      <4>2. Adds(c, FrameOf(e))
        BY <1>0, <4>1, FramesAreFrames, StreamAdds
      <4> QED BY <2>1, <3>1, <4>2 DEF Queues
    <3>2. CASE ~(d = c /\ HasRoom(c))
      <4>1. Same
        BY <1>0, <2>1, <3>2 DEF SendOrDrop
      <4> QED BY <1>1, <4>1
    <3> QED BY <3>1, <3>2
  <2>2. CASE RLock(e) \/ RUnlock(e)
    <3>1. Same
      BY <2>2 DEF RLock, RUnlock
    <3> QED BY <1>1, <3>1
  <2> QED BY <1>7, <2>1, <2>2 DEF Broadcast
<1>8. CASE UNCHANGED vars
  <2>1. Same
    BY <1>8 DEF vars
  <2> QED BY <1>1, <2>1
<1> QED BY <1>2, <1>3, <1>4, <1>5, <1>6, <1>7, <1>8 DEF Next, AllServed

-----------------------------------------------------------------------------
(* The order of frames.                                                    *)

(* The broadcast of event x by e has dealt with c, or begun without it.    *)
Passed(e, x, c) ==
  \/ x = UserRegistered /\ (event[e] = JobEnqueued \/ emit[e] \in {"returned", "over"})
  \/ x = JobEnqueued /\ event[e] = JobEnqueued /\ emit[e] = "over"
  \/ x = event[e] /\ emit[e] = "iterating" /\ c \notin todo[e]

(* Where a frame comes from: it says what has happened since.              *)
Known(c, f) ==
  \/ f = Hello(c) /\ serve[c] = "pumps"
  \/ \E e \in Emitters : f.from = e /\ Passed(e, f.event, c)

OrderInv ==
  \A c \in Clients :
    /\ Ordered(Stream(c))
    /\ \A f : Holds(Stream(c), f) => Known(c, f)

LEMMA PassedStays ==
  ASSUME TypeOK, [Next]_vars, NEW e \in Emitters, NEW c \in Clients, NEW x, Passed(e, x, c)
  PROVE  Passed(e, x, c)'
<1> USE DEF lockVars, clientVars, emitterVars
<1> DEFINE Same == event'[e] = event[e] /\ emit'[e] = emit[e] /\ todo'[e] = todo[e]
<1>0. /\ event \in [Emitters -> {UserRegistered, JobEnqueued}]
      /\ emit \in [Emitters -> EmitStates] /\ todo \in [Emitters -> SUBSET Clients]
      /\ UserRegistered # JobEnqueued
  BY DEF TypeOK, UserRegistered, JobEnqueued
<1>1. Same => Passed(e, x, c)'
  BY DEF Passed
<1>2. ASSUME NEW d \in Clients, ServeHTTP(d) \/ readPump(d) \/ writePump(d) \/ Browser(d)
      PROVE  Passed(e, x, c)'
  <2>1. CASE ServeHTTP(d)
    BY <1>1, <2>1 DEF ServeHTTP, Upgrade, UpgradeFails, CallRegister, Register, HelloAndStartPumps
  <2>2. CASE readPump(d)
    BY <1>1, <2>2 DEF readPump, ReadFails, CallUnregister, Unregister, CloseSend, ReadPumpReturns
  <2>3. CASE writePump(d)
    BY <1>1, <2>3 DEF writePump, Receive, ChannelClosed, WriteSucceeds, WriteFails,
       WritePumpReturns
  <2>4. CASE Browser(d)
    BY <1>1, <2>4 DEF Browser, PeerStalls, PeerResumes, PeerGoes, PeerChanges
  <2> QED BY <1>2, <2>1, <2>2, <2>3, <2>4
<1>3. ASSUME NEW g \in Emitters, Emit(g) \/ Broadcast(g) PROVE Passed(e, x, c)'
  <2>1. CASE g # e
    <3>1. Same
      BY <1>0, <1>3, <2>1 DEF Emit, EmitUserRegistered, EmitJobEnqueued, NoJob, Broadcast,
         RLock, SendOrDrop, RUnlock
    <3> QED BY <1>1, <3>1
  <2>2. CASE EmitUserRegistered(e)
    BY <1>0, <2>2 DEF EmitUserRegistered, Passed
  <2>3. CASE EmitJobEnqueued(e)
    BY <1>0, <2>3 DEF EmitJobEnqueued, Passed
  <2>4. CASE NoJob(e)
    BY <1>0, <2>4 DEF NoJob, Passed
  <2>5. CASE RLock(e)
    BY <1>0, <2>5 DEF RLock, Passed
  <2>6. ASSUME NEW d \in Clients, SendOrDrop(e, d) PROVE Passed(e, x, c)'
    BY <1>0, <2>6 DEF SendOrDrop, Passed
  <2>7. CASE RUnlock(e)
    BY <1>0, <2>7 DEF RUnlock, Passed
  <2> QED BY <1>3, <2>1, <2>2, <2>3, <2>4, <2>5, <2>6, <2>7 DEF Emit, Broadcast
<1>4. CASE UNCHANGED vars BY <1>1, <1>4 DEF vars
<1> QED BY <1>2, <1>3, <1>4 DEF Next, AllServed

LEMMA PumpsStay ==
  ASSUME TypeOK, [Next]_vars, NEW c \in Clients, serve[c] = "pumps"
  PROVE  serve'[c] = "pumps"
<1> USE DEF lockVars, clientVars, emitterVars
<1>1. ASSUME NEW d \in Clients, ServeHTTP(d) PROVE serve'[c] = "pumps"
  <2>1. serve \in [Clients -> ServeStates]
    BY DEF TypeOK
  <2> QED BY <1>1, <2>1 DEF ServeHTTP, Upgrade, UpgradeFails, CallRegister, Register,
             HelloAndStartPumps
<1>2. ASSUME NEW d \in Clients, readPump(d) \/ writePump(d) \/ Browser(d)
      PROVE  serve'[c] = "pumps"
  BY <1>2 DEF readPump, ReadFails, CallUnregister, Unregister, CloseSend, ReadPumpReturns,
     writePump, Receive, ChannelClosed, WriteSucceeds, WriteFails, WritePumpReturns,
     Browser, PeerStalls, PeerResumes, PeerGoes, PeerChanges
<1>3. ASSUME NEW e \in Emitters, Emit(e) \/ Broadcast(e) PROVE serve'[c] = "pumps"
  BY <1>3 DEF Emit, EmitUserRegistered, EmitJobEnqueued, NoJob, Broadcast, RLock,
     SendOrDrop, RUnlock
<1>4. CASE UNCHANGED vars BY <1>4 DEF vars
<1> QED BY <1>1, <1>2, <1>3, <1>4 DEF Next, AllServed

LEMMA OrderInit == Init => OrderInv /\ HandInv
<1> SUFFICES ASSUME Init PROVE OrderInv /\ HandInv
  OBVIOUS
<1>1. HandInv
  BY DEF Init, HandInv
<1>2. ASSUME NEW c \in Clients
      PROVE  Ordered(Stream(c)) /\ \A f : ~Holds(Stream(c), f)
  <2>1. received[c] = <<>> /\ inhand[c] = <<>> /\ send[c] = <<>>
    BY DEF Init
  <2>2. Parts(c)
    BY <2>1, NoFrames DEF Parts
  <2> QED BY <2>1, <2>2, StreamIs, NoFrames
<1> QED BY <1>1, <1>2 DEF OrderInv

LEMMA OrderStep == TypeOK /\ HandInv /\ OrderInv /\ [Next]_vars => OrderInv'
<1> SUFFICES ASSUME TypeOK, HandInv, OrderInv, [Next]_vars, NEW c \in Clients
             PROVE  /\ Ordered(Stream(c)')
                    /\ \A f : Holds(Stream(c)', f) => Known(c, f)'
  BY DEF OrderInv
<1>1. Ordered(Stream(c)) /\ \A f : Holds(Stream(c), f) => Known(c, f)
  BY DEF OrderInv
<1>2. ASSUME NEW f, Known(c, f) PROVE Known(c, f)'
  BY <1>2, PassedStays, PumpsStay DEF Known, Hello
<1>3. CASE Keeps(c) \/ Loses(c)
  BY <1>1, <1>2, <1>3 DEF Keeps, Loses, Fewer
<1>4. CASE Greets(c)
  <2>1. serve[c] = "registered" /\ serve'[c] = "pumps"
    BY <1>4 DEF Greets, HelloAndStartPumps, TypeOK
  <2>2. ASSUME NEW f, Known(c, f) PROVE Before(f, Hello(c))
    <3>1. PICK e \in Emitters : f.from = e
      BY <2>1, <2>2 DEF Known
    <3>2. e # c
      BY NamesAssumption
    <3> QED BY <3>1, <3>2 DEF Before, Hello
  <2>3. Known(c, Hello(c))'
    BY <2>1 DEF Known, Hello
  <2> QED BY <1>1, <1>2, <1>4, <2>2, <2>3 DEF Greets, Adds
<1>5. ASSUME NEW e \in Emitters, Queues(e, c)
      PROVE  /\ Ordered(Stream(c)')
             /\ \A f : Holds(Stream(c)', f) => Known(c, f)'
  <2>1. /\ emit[e] = "iterating" /\ c \in todo[e]
        /\ emit'[e] = "iterating" /\ c \notin todo'[e] /\ event'[e] = event[e]
        /\ event[e] \in {UserRegistered, JobEnqueued}
    BY <1>5 DEF Queues, SendOrDrop, TypeOK
  <2>2. FrameOf(e).from = e /\ FrameOf(e).event = event[e]
    BY DEF FrameOf
  <2>3. ASSUME NEW f, Known(c, f) PROVE Before(f, FrameOf(e))
    <3>1. CASE f = Hello(c)
      BY <2>2, <3>1, NamesAssumption DEF Before, Hello
    <3>2. ASSUME NEW g \in Emitters, f.from = g, Passed(g, f.event, c)
          PROVE  Before(f, FrameOf(e))
      <4>1. CASE g # e
        BY <2>2, <3>2, <4>1 DEF Before
      <4>2. CASE g = e
        <5>1. f.event = UserRegistered /\ event[e] = JobEnqueued
          BY <2>1, <3>2, <4>2 DEF Passed
        <5> QED BY <2>2, <5>1 DEF Before, UserRegistered, JobEnqueued
      <4> QED BY <4>1, <4>2
    <3> QED BY <2>3, <3>1, <3>2 DEF Known
  <2>4. Known(c, FrameOf(e))'
    <3>1. FrameOf(e)' = FrameOf(e)
      BY <2>1 DEF FrameOf
    <3> QED BY <2>1, <2>2, <3>1 DEF Known, Passed
  <2>5. FrameOf(e)' = FrameOf(e)
    BY <2>1 DEF FrameOf
  <2>6. ASSUME NEW f, Holds(Stream(c)', f) PROVE Known(c, f)'
    <3>1. Holds(Stream(c), f) \/ f = FrameOf(e)
      BY <1>5, <2>6 DEF Queues, Adds
    <3> QED BY <1>1, <1>2, <2>4, <2>5, <3>1
  <2> QED BY <1>1, <1>5, <2>3, <2>6 DEF Queues, Adds
<1> QED BY <1>3, <1>4, <1>5, StreamStep

(* Frames in order, for any browsers, registrations and capacities, and    *)
(* whatever is dropped on the way (hub.go:48-53, bus.go:29-36).            *)
THEOREM InOrder == Spec => []FramesInOrder
<1>1. OrderInv => FramesInOrder
  BY DEF OrderInv, Ordered, Before, FramesInOrder
<1> QED BY TypeCorrect, OrderInit, HandStep, OrderStep, <1>1, PTL DEF Spec

-----------------------------------------------------------------------------
(* Nobody is passed over.                                                  *)

(* A connection is closed, and writePump ends, only after the client has   *)
(* left the map or its browser has gone.                                   *)
ConnInv ==
  \A c \in Clients :
    /\ serve[c] \in {"new", "upgraded"} => conn[c] = "open"
    /\ c \in clients /\ (conn[c] = "closed" \/ wpump[c] \in {"closeConn", "over"})
         => peer[c] = "gone"

LEMMA ConnInit == Init => ConnInv /\ NobodySkipped
BY DEF Init, ConnInv, NobodySkipped

LEMMA ConnStep == TypeOK /\ IInv /\ HandInv /\ ConnInv /\ [Next]_vars => ConnInv'
<1> SUFFICES ASSUME TypeOK, IInv, HandInv, ConnInv, [Next]_vars PROVE ConnInv'
  OBVIOUS
<1>0. /\ serve \in [Clients -> ServeStates] /\ wpump \in [Clients -> WriteStates]
      /\ rpump \in [Clients -> ReadStates]
      /\ conn \in [Clients -> {"open", "closed"}]
      /\ peer \in [Clients -> {"reading", "stalled", "gone"}]
      /\ clients \subseteq Clients
  BY DEF TypeOK
<1>1. \A c \in clients : rpump[c] \notin {"closeSend", "closeConn", "over"} /\ ~closed[c]
                         /\ serve[c] \in {"registered", "pumps"}
  BY <1>0 DEF IInv, MembersAreServed, PumpStates
<1>2. \A c \in Clients : /\ wpump[c] # "none" <=> serve[c] = "pumps"
                         /\ rpump[c] # "none" <=> serve[c] = "pumps"
  BY DEF HandInv, IInv, PumpStates
<1> USE DEF ConnInv, lockVars, clientVars, emitterVars
<1>3. ASSUME NEW c \in Clients, ServeHTTP(c) PROVE ConnInv'
  <2>1. CASE Upgrade(c) BY <1>0, <2>1 DEF Upgrade
  <2>2. CASE UpgradeFails(c) BY <1>0, <1>1, <2>2 DEF UpgradeFails
  <2>3. CASE CallRegister(c) BY <1>0, <2>3 DEF CallRegister
  <2>4. CASE Register(c) BY <1>0, <1>2, <2>4 DEF Register
  <2>5. CASE HelloAndStartPumps(c) BY <1>0, <2>5 DEF HelloAndStartPumps
  <2> QED BY <1>3, <2>1, <2>2, <2>3, <2>4, <2>5 DEF ServeHTTP
<1>4. ASSUME NEW c \in Clients, readPump(c) PROVE ConnInv'
  <2>1. CASE ReadFails(c) BY <2>1 DEF ReadFails
  <2>2. CASE CallUnregister(c) BY <2>2 DEF CallUnregister
  <2>3. CASE Unregister(c) BY <1>0, <2>3 DEF Unregister
  <2>4. CASE CloseSend(c) BY <2>4 DEF CloseSend
  <2>5. CASE ReadPumpReturns(c) BY <1>0, <1>1, <1>2, <2>5 DEF ReadPumpReturns
  <2> QED BY <1>4, <2>1, <2>2, <2>3, <2>4, <2>5 DEF readPump
<1>5. ASSUME NEW c \in Clients, writePump(c) PROVE ConnInv'
  <2>1. CASE Receive(c) BY <1>0, <2>1 DEF Receive
  <2>2. CASE ChannelClosed(c) BY <1>0, <1>1, <2>2 DEF ChannelClosed
  <2>3. CASE WriteSucceeds(c) BY <1>0, <2>3 DEF WriteSucceeds
  <2>4. CASE WriteFails(c) BY <1>0, <2>4 DEF WriteFails
  <2>5. CASE WritePumpReturns(c) BY <1>0, <1>2, <2>5 DEF WritePumpReturns
  <2> QED BY <1>5, <2>1, <2>2, <2>3, <2>4, <2>5 DEF writePump
<1>6. ASSUME NEW c \in Clients, Browser(c) PROVE ConnInv'
  BY <1>0, <1>6 DEF Browser, PeerStalls, PeerResumes, PeerGoes, PeerChanges
<1>7. ASSUME NEW e \in Emitters, Emit(e) \/ Broadcast(e) PROVE ConnInv'
  <2>1. UNCHANGED <<clients, serve, wpump, conn, peer>>
    BY <1>7 DEF Emit, EmitUserRegistered, EmitJobEnqueued, NoJob, Broadcast, RLock,
       SendOrDrop, RUnlock
  <2> QED BY <2>1
<1>8. CASE UNCHANGED vars BY <1>8 DEF vars
<1> QED BY <1>3, <1>4, <1>5, <1>6, <1>7, <1>8 DEF Next, AllServed

LEMMA GoneForGood ==
  ASSUME TypeOK, [Next]_vars, NEW c \in Clients, peer[c] = "gone"
  PROVE  peer'[c] = "gone"
<1> USE DEF lockVars, clientVars, emitterVars
<1>1. ASSUME NEW d \in Clients, ServeHTTP(d) \/ readPump(d) \/ writePump(d)
      PROVE  peer'[c] = "gone"
  BY <1>1 DEF ServeHTTP, Upgrade, UpgradeFails, CallRegister, Register, HelloAndStartPumps,
     readPump, ReadFails, CallUnregister, Unregister, CloseSend, ReadPumpReturns,
     writePump, Receive, ChannelClosed, WriteSucceeds, WriteFails, WritePumpReturns
<1>2. ASSUME NEW d \in Clients, Browser(d) PROVE peer'[c] = "gone"
  BY <1>2 DEF Browser, PeerStalls, PeerResumes, PeerGoes, PeerChanges, TypeOK
<1>3. ASSUME NEW e \in Emitters, Emit(e) \/ Broadcast(e) PROVE peer'[c] = "gone"
  BY <1>3 DEF Emit, EmitUserRegistered, EmitJobEnqueued, NoJob, Broadcast, RLock,
     SendOrDrop, RUnlock
<1>4. CASE UNCHANGED vars BY <1>4 DEF vars
<1> QED BY <1>1, <1>2, <1>3, <1>4 DEF Next, AllServed

(* The clients that a broadcast under way has passed are those it had      *)
(* passed before, or the one it has just sent to or dropped the frame for. *)
LEMMA PassedBefore ==
  ASSUME TypeOK, IInv, [Next]_vars, NEW e \in readers', NEW c \in clients' \ todo'[e]
  PROVE  /\ e \in readers /\ c \in clients /\ event'[e] = event[e]
         /\ missed[e] \subseteq missed'[e]
         /\ \/ c \notin todo[e]
            \/ SendOrDrop(e, c)
<1> DEFINE Goal == /\ e \in readers /\ c \in clients /\ event'[e] = event[e]
                   /\ missed[e] \subseteq missed'[e]
                   /\ c \notin todo[e] \/ SendOrDrop(e, c)
           Same == /\ readers' = readers /\ clients' \subseteq clients
                   /\ event'[e] = event[e] /\ missed'[e] = missed[e] /\ todo'[e] = todo[e]
<1> USE DEF lockVars, clientVars, emitterVars
<1>0. /\ event \in [Emitters -> {UserRegistered, JobEnqueued}]
      /\ todo \in [Emitters -> SUBSET Clients] /\ missed \in [Emitters -> SUBSET Clients]
      /\ readers \subseteq Emitters /\ clients \subseteq Clients
      /\ \A g \in Emitters : g \in readers <=> emit[g] = "iterating"
  BY DEF TypeOK, IInv, ReadersIterate
<1>1. Same => Goal
  OBVIOUS
<1>2. ASSUME NEW d \in Clients, ServeHTTP(d) PROVE Goal
  <2>1. CASE Register(d)
    <3>1. readers' = {}
      BY <2>1 DEF Register, LockGranted
    <3> QED BY <3>1
  <2>2. CASE ~Register(d)
    <3>1. Same
      BY <1>2, <2>2 DEF ServeHTTP, Upgrade, UpgradeFails, CallRegister, HelloAndStartPumps
    <3> QED BY <1>1, <3>1
  <2> QED BY <2>1, <2>2
<1>3. ASSUME NEW d \in Clients, readPump(d) PROVE Goal
  <2>1. Same
    BY <1>3 DEF readPump, ReadFails, CallUnregister, Unregister, CloseSend, ReadPumpReturns
  <2> QED BY <1>1, <2>1
<1>4. ASSUME NEW d \in Clients, writePump(d) \/ Browser(d) PROVE Goal
  <2>1. Same
    BY <1>4 DEF writePump, Receive, ChannelClosed, WriteSucceeds, WriteFails,
       WritePumpReturns, Browser, PeerStalls, PeerResumes, PeerGoes, PeerChanges
  <2> QED BY <1>1, <2>1
<1>5. ASSUME NEW g \in Emitters, Emit(g) PROVE Goal
  <2>1. readers' = readers /\ clients' = clients /\ missed' = missed /\ todo' = todo
    BY <1>5 DEF Emit, EmitUserRegistered, EmitJobEnqueued, NoJob
  <2>2. event'[e] = event[e]
    BY <1>0, <1>5, <2>1 DEF Emit, EmitUserRegistered, EmitJobEnqueued, NoJob
  <2> QED BY <1>1, <2>1, <2>2
<1>6. ASSUME NEW g \in Emitters, Broadcast(g) PROVE Goal
  <2>1. CASE RLock(g)
    <3>1. /\ readers' = readers \cup {g} /\ clients' = clients
          /\ todo' = [todo EXCEPT ![g] = clients]
          /\ event' = event /\ missed' = missed
      BY <2>1 DEF RLock
    <3>2. g # e
      BY <1>0, <3>1
    <3> QED BY <1>0, <1>1, <3>1, <3>2
  <2>2. ASSUME NEW d \in Clients, SendOrDrop(g, d) PROVE Goal
    <3>1. /\ readers' = readers /\ clients' = clients /\ event' = event
          /\ todo' = [todo EXCEPT ![g] = @ \ {d}] /\ missed[e] \subseteq missed'[e]
      BY <1>0, <2>2 DEF SendOrDrop
    <3>2. CASE g = e /\ d = c
      BY <2>2, <3>1, <3>2
    <3>3. CASE ~(g = e /\ d = c)
      <4>1. c \notin todo[e]
        BY <1>0, <3>1, <3>3
      <4> QED BY <3>1, <4>1
    <3> QED BY <3>2, <3>3
  <2>3. CASE RUnlock(g)
    <3>1. /\ readers' = readers \ {g} /\ clients' = clients /\ event' = event
          /\ todo' = todo /\ missed' = [missed EXCEPT ![g] = {}]
      BY <2>3 DEF RUnlock
    <3>2. missed'[e] = missed[e]
      BY <1>0, <3>1
    <3> QED BY <3>1, <3>2
  <2> QED BY <1>6, <2>1, <2>2, <2>3 DEF Broadcast
<1>7. CASE UNCHANGED vars BY <1>1, <1>7 DEF vars
<1> QED BY <1>2, <1>3, <1>4, <1>5, <1>6, <1>7 DEF Next, AllServed

LEMMA SkipStep ==
  TypeOK /\ IInv /\ HandInv /\ ConnInv /\ NobodySkipped /\ [Next]_vars => NobodySkipped'
<1> SUFFICES ASSUME TypeOK, IInv, HandInv, ConnInv, NobodySkipped, [Next]_vars,
                    NEW e \in readers', NEW c \in clients' \ todo'[e]
             PROVE  \/ Holds(Stream(c)', FrameOf(e)')
                    \/ c \in missed'[e]
                    \/ peer'[c] = "gone"
  BY DEF NobodySkipped, Holds
<1>1. /\ e \in readers /\ c \in clients /\ event'[e] = event[e]
      /\ missed[e] \subseteq missed'[e]
      /\ c \notin todo[e] \/ SendOrDrop(e, c)
  BY PassedBefore
<1>2. c \in Clients /\ e \in Emitters /\ FrameOf(e)' = FrameOf(e)
  BY <1>1 DEF TypeOK, FrameOf
<1>3. CASE SendOrDrop(e, c)
  <2>1. CASE HasRoom(c)
    <3>1. /\ send'[c] = Append(send[c], FrameOf(e))
          /\ inhand'[c] = inhand[c] /\ received'[c] = received[c]
      BY <1>2, <1>3, <2>1 DEF SendOrDrop, TypeOK
    <3>2. Parts(c)
      BY <1>2 DEF TypeOK, Parts
    <3>3. Adds(c, FrameOf(e))
      BY <1>2, <3>1, <3>2, FramesAreFrames, StreamAdds
    <3> QED BY <1>2, <3>3 DEF Adds
  <2>2. CASE ~HasRoom(c)
    <3>1. c \in missed'[e]
      BY <1>2, <1>3, <2>2 DEF SendOrDrop, TypeOK
    <3> QED BY <3>1
  <2> QED BY <2>1, <2>2
<1>4. CASE c \notin todo[e]
  <2>1. Holds(Stream(c), FrameOf(e)) \/ c \in missed[e] \/ peer[c] = "gone"
    BY <1>1, <1>4 DEF NobodySkipped, Holds
  <2>2. CASE peer[c] = "gone"
    BY <1>2, <2>2, GoneForGood
  <2>3. CASE Loses(c)
    <3>1. peer[c] = "gone"
      BY <1>1, <1>2, <2>3 DEF Loses, WriteFails, ConnInv
    <3> QED BY <1>2, <3>1, GoneForGood
  <2>4. ASSUME Holds(Stream(c), FrameOf(e)), ~Loses(c) PROVE Holds(Stream(c)', FrameOf(e))
    BY <1>2, <2>4, StreamStep DEF Keeps, Greets, Queues, Adds
  <2> QED BY <1>1, <1>2, <2>1, <2>2, <2>3, <2>4
<1> QED BY <1>1, <1>3, <1>4

(* No client is passed over, for any browsers, registrations and           *)
(* capacities, whoever comes and goes meanwhile (hub.go:90-98).            *)
THEOREM NobodyIsSkipped == Spec => []NobodySkipped
BY TypeCorrect, Invariance, OrderInit, HandStep, ConnInit, ConnStep, SkipStep, PTL DEF Spec

-----------------------------------------------------------------------------
(* The hub implements mailboxes.                                           *)

(* A writePump that writes has exactly one frame in its hand; a client is  *)
(* in the map from register to unregister; and an emitter that has not     *)
(* come to its second broadcast has the first event.                       *)
HallInv ==
  /\ \A c \in Clients :
       /\ wpump[c] = "writing" => Len(inhand[c]) = 1
       /\ serve[c] = "registered" \/ rpump[c] \in {"reading", "failed"} => c \in clients
  /\ \A e \in Emitters : emit[e] \in {"idle", "returned"} => event[e] = UserRegistered

LEMMA HallInvInit == Init => HallInv
BY DEF Init, HallInv

LEMMA HallInvStep == TypeOK /\ IInv /\ HallInv /\ [Next]_vars => HallInv'
<1> SUFFICES ASSUME TypeOK, IInv, HallInv, [Next]_vars PROVE HallInv'
  OBVIOUS
<1>0. /\ serve \in [Clients -> ServeStates] /\ wpump \in [Clients -> WriteStates]
      /\ rpump \in [Clients -> ReadStates] /\ inhand \in [Clients -> Seq(Frame)]
      /\ send \in [Clients -> Seq(Frame)]
      /\ emit \in [Emitters -> EmitStates]
      /\ event \in [Emitters -> {UserRegistered, JobEnqueued}]
  BY DEF TypeOK
<1>1. \A c \in Clients : rpump[c] # "none" <=> serve[c] = "pumps"
  BY DEF IInv, PumpStates
<1> USE DEF HallInv, lockVars, clientVars, emitterVars
<1>2. ASSUME NEW c \in Clients, ServeHTTP(c) PROVE HallInv'
  <2>1. UNCHANGED <<inhand, emit, event>>
    BY <1>2 DEF ServeHTTP, Upgrade, UpgradeFails, CallRegister, Register, HelloAndStartPumps
  <2>2. CASE Upgrade(c) BY <1>0, <2>1, <2>2 DEF Upgrade
  <2>3. CASE UpgradeFails(c) BY <1>0, <2>1, <2>3 DEF UpgradeFails
  <2>4. CASE CallRegister(c) BY <1>0, <2>1, <2>4 DEF CallRegister
  <2>5. CASE Register(c) BY <1>0, <2>1, <2>5 DEF Register
  <2>6. CASE HelloAndStartPumps(c)
    BY <1>0, <2>1, <2>6 DEF HelloAndStartPumps
  <2> QED BY <1>2, <2>2, <2>3, <2>4, <2>5, <2>6 DEF ServeHTTP
<1>3. ASSUME NEW c \in Clients, readPump(c) PROVE HallInv'
  <2>1. UNCHANGED <<serve, wpump, inhand, emit, event>>
    BY <1>3 DEF readPump, ReadFails, CallUnregister, Unregister, CloseSend, ReadPumpReturns
  <2>2. CASE ReadFails(c) BY <1>0, <2>1, <2>2 DEF ReadFails
  <2>3. CASE CallUnregister(c) BY <2>1, <2>3 DEF CallUnregister
  <2>4. CASE Unregister(c) BY <1>0, <1>1, <2>1, <2>4 DEF Unregister
  <2>5. CASE CloseSend(c) BY <1>0, <2>1, <2>5 DEF CloseSend
  <2>6. CASE ReadPumpReturns(c) BY <1>0, <2>1, <2>6 DEF ReadPumpReturns
  <2> QED BY <1>3, <2>2, <2>3, <2>4, <2>5, <2>6 DEF readPump
<1>4. ASSUME NEW c \in Clients, writePump(c) PROVE HallInv'
  <2>1. UNCHANGED <<serve, rpump, clients, emit, event>>
    BY <1>4 DEF writePump, Receive, ChannelClosed, WriteSucceeds, WriteFails, WritePumpReturns
  <2>2. CASE Receive(c)
    <3>1. /\ inhand' = [inhand EXCEPT ![c] = <<Head(send[c])>>]
          /\ wpump' = [wpump EXCEPT ![c] = "writing"]
      BY <2>2 DEF Receive
    <3>2. Len(<<Head(send[c])>>) = 1
      OBVIOUS
    <3>3. \A d \in Clients : wpump'[d] = "writing" => Len(inhand'[d]) = 1
      BY <1>0, <3>1, <3>2
    <3> QED BY <2>1, <3>3
  <2>3. CASE ChannelClosed(c) BY <1>0, <2>1, <2>3 DEF ChannelClosed
  <2>4. CASE WriteSucceeds(c) BY <1>0, <2>1, <2>4 DEF WriteSucceeds
  <2>5. CASE WriteFails(c) BY <1>0, <2>1, <2>5 DEF WriteFails
  <2>6. CASE WritePumpReturns(c) BY <1>0, <2>1, <2>6 DEF WritePumpReturns
  <2> QED BY <1>4, <2>2, <2>3, <2>4, <2>5, <2>6 DEF writePump
<1>5. ASSUME NEW c \in Clients, Browser(c) PROVE HallInv'
  BY <1>5 DEF Browser, PeerStalls, PeerResumes, PeerGoes, PeerChanges
<1>6. ASSUME NEW e \in Emitters, Emit(e) \/ Broadcast(e) PROVE HallInv'
  <2>1. UNCHANGED <<serve, rpump, wpump, inhand, clients>>
    BY <1>6 DEF Emit, EmitUserRegistered, EmitJobEnqueued, NoJob, Broadcast, RLock,
       SendOrDrop, RUnlock
  <2>2. CASE EmitUserRegistered(e) BY <1>0, <2>1, <2>2 DEF EmitUserRegistered
  <2>3. CASE EmitJobEnqueued(e) BY <1>0, <2>1, <2>3 DEF EmitJobEnqueued
  <2>4. CASE NoJob(e) BY <1>0, <2>1, <2>4 DEF NoJob
  <2>5. CASE RLock(e) BY <1>0, <2>1, <2>5 DEF RLock
  <2>6. ASSUME NEW c \in Clients, SendOrDrop(e, c) PROVE HallInv'
    BY <2>1, <2>6 DEF SendOrDrop
  <2>7. CASE RUnlock(e) BY <1>0, <2>1, <2>7 DEF RUnlock
  <2> QED BY <1>6, <2>2, <2>3, <2>4, <2>5, <2>6, <2>7 DEF Emit, Broadcast
<1>7. CASE UNCHANGED vars BY <1>7 DEF vars
<1> QED BY <1>2, <1>3, <1>4, <1>5, <1>6, <1>7 DEF Next, AllServed

(* What a mailbox holds, and what each kind of step does to it.            *)
LEMMA MailboxIs ==
  ASSUME TypeOK
  PROVE  /\ Mailbox \in [Clients -> Seq(Frame)]
         /\ \A c \in Clients : /\ Mailbox[c] = inhand[c] \o send[c]
                               /\ Len(Mailbox[c]) = Len(inhand[c]) + Len(send[c])
                               /\ Len(inhand[c]) \in Nat /\ Len(send[c]) \in Nat
<1>1. send \in [Clients -> Seq(Frame)] /\ inhand \in [Clients -> Seq(Frame)]
  BY DEF TypeOK
<1>2. ASSUME NEW c \in Clients
      PROVE  /\ inhand[c] \o send[c] \in Seq(Frame)
             /\ Len(inhand[c] \o send[c]) = Len(inhand[c]) + Len(send[c])
             /\ Len(inhand[c]) \in Nat /\ Len(send[c]) \in Nat
  BY <1>1, ConcatProperties
<1> QED BY <1>2 DEF Mailbox

LEMMA MailboxGrows ==
  ASSUME TypeOK, NEW c \in Clients, NEW f \in Frame,
         send' = [send EXCEPT ![c] = Append(@, f)], inhand' = inhand
  PROVE  Mailbox' = [Mailbox EXCEPT ![c] = Append(@, f)]
<1>1. send \in [Clients -> Seq(Frame)] /\ inhand \in [Clients -> Seq(Frame)]
  BY DEF TypeOK
<1>2. inhand[c] \o Append(send[c], f) = Append(inhand[c] \o send[c], f)
  <2>1. PICK h \in Seq(Frame), s \in Seq(Frame), hs \in Seq(Frame) :
          h = inhand[c] /\ s = send[c] /\ hs = h \o s
    BY <1>1, ConcatProperties
  <2>2. <<f>> \in Seq(Frame)
    BY OneFrame
  <2>3. Append(s, f) = s \o <<f>> /\ Append(hs, f) = hs \o <<f>>
    BY AppendIsConcat
  <2>4. (h \o s) \o <<f>> = h \o (s \o <<f>>)
    BY <2>2, ConcatAssociative
  <2> QED BY <2>1, <2>3, <2>4
<1>3. \A d \in Clients : Mailbox'[d] = [Mailbox EXCEPT ![c] = Append(@, f)][d]
  BY <1>1, <1>2 DEF Mailbox
<1> QED BY <1>3 DEF Mailbox

(* What writePump takes from the channel stays in the mailbox.             *)
LEMMA MailboxHanded ==
  ASSUME TypeOK, HandInv, NEW c \in Clients, Receive(c)
  PROVE  Mailbox' = Mailbox
<1>1. send \in [Clients -> Seq(Frame)] /\ inhand \in [Clients -> Seq(Frame)]
  BY DEF TypeOK
<1>2. /\ inhand[c] = <<>> /\ send[c] # <<>>
      /\ inhand' = [inhand EXCEPT ![c] = <<Head(send[c])>>]
      /\ send' = [send EXCEPT ![c] = Tail(@)]
  BY DEF Receive, HandInv
<1>3. <<Head(send[c])>> \o Tail(send[c]) = <<>> \o send[c]
  <2>1. send[c] = <<Head(send[c])>> \o Tail(send[c])
    BY <1>1, <1>2, HeadTailProperties
  <2>2. <<>> \o send[c] = send[c]
    BY <1>1, ConcatEmptySeq
  <2> QED BY <2>1, <2>2
<1>4. \A d \in Clients : inhand'[d] \o send'[d] = inhand[d] \o send[d]
  BY <1>1, <1>2, <1>3
<1> QED BY <1>4 DEF Mailbox

(* A write that returns takes the first frame out of the mailbox.          *)
LEMMA MailboxTaken ==
  ASSUME TypeOK, HallInv, NEW c \in Clients, wpump[c] = "writing",
         inhand' = [inhand EXCEPT ![c] = <<>>], send' = send
  PROVE  /\ Mailbox[c] # <<>>
         /\ Mailbox' = [Mailbox EXCEPT ![c] = Tail(@)]
         /\ received[c] \o inhand[c] = Append(received[c], Head(Mailbox[c]))
<1>1. /\ send \in [Clients -> Seq(Frame)] /\ inhand \in [Clients -> Seq(Frame)]
      /\ received \in [Clients -> Seq(Frame)]
  BY DEF TypeOK
<1>2. PICK f \in Frame : inhand[c] = <<f>>
  <2>1. Len(inhand[c]) = 1
    BY DEF HallInv
  <2>2. PICK h \in Seq(Frame) : h = inhand[c] /\ Len(h) = 1
    BY <1>1, <2>1
  <2>3. h[1] \in Frame /\ h = <<h[1]>>
    BY <2>2
  <2> QED BY <2>2, <2>3
<1>3. PICK s \in Seq(Frame) : s = send[c]
  BY <1>1
<1>4. <<f>> \o s # <<>> /\ Head(<<f>> \o s) = f /\ Tail(<<f>> \o s) = s
  OBVIOUS
<1>5. <<>> \o s = s
  BY ConcatEmptySeq
<1>6. Mailbox[c] = <<f>> \o s
  BY <1>2, <1>3 DEF Mailbox
<1>7. \A d \in Clients : Mailbox'[d] = [Mailbox EXCEPT ![c] = Tail(@)][d]
  BY <1>1, <1>2, <1>3, <1>4, <1>5 DEF Mailbox
<1>8. received[c] \o <<f>> = Append(received[c], f)
  BY <1>1, AppendIsConcat
<1> QED BY <1>2, <1>4, <1>6, <1>7, <1>8 DEF Mailbox

(* What the mapping sees of a step that leaves its variables alone.        *)
LEMMA HallUnseen ==
  /\ rpump' = rpump => Unregistered' = Unregistered
  /\ serve' = serve => Welcomed' = Welcomed
  /\ peer' = peer => Away' = Away
  /\ emit' = emit /\ event' = event => Started' = Started
  /\ send' = send /\ inhand' = inhand => Mailbox' = Mailbox
BY DEF Unregistered, Welcomed, Away, Started, Mailbox

(* Room in the channel is room in the mailbox; a full channel fills it.    *)
LEMMA MailboxRoom ==
  ASSUME TypeOK, HandInv, HallInv, NEW c \in Clients
  PROVE  /\ HasRoom(c) => Len(Mailbox[c]) <= SendBuf
         /\ ~HasRoom(c) => Len(Mailbox[c]) >= SendBuf
<1>1. Len(inhand[c]) = 0 \/ Len(inhand[c]) = 1
  <2>1. CASE wpump[c] = "writing"
    BY <2>1 DEF HallInv
  <2>2. CASE wpump[c] # "writing"
    <3>1. inhand[c] = <<>>
      BY <2>2 DEF HandInv
    <3> QED BY <3>1
  <2> QED BY <2>1, <2>2
<1>2. /\ Len(inhand[c]) \in Nat /\ Len(send[c]) \in Nat
      /\ Len(Mailbox[c]) = Len(inhand[c]) + Len(send[c])
  BY MailboxIs
<1>3. PICK h \in Nat, s \in Nat : h = Len(inhand[c]) /\ s = Len(send[c])
  BY <1>2
<1>4. (HasRoom(c) <=> s < SendBuf) /\ Len(Mailbox[c]) = h + s
  BY <1>2, <1>3 DEF HasRoom
<1>5. h = 0 \/ h = 1
  BY <1>1, <1>3
<1>6. (s < SendBuf => h + s <= SendBuf) /\ (~(s < SendBuf) => h + s >= SendBuf)
  BY <1>5, SendBufAssumption
<1> QED BY <1>4, <1>6

LEMMA HallServe ==
  ASSUME TypeOK, IInv, HandInv, HallInv, NEW c \in Clients, ServeHTTP(c)
  PROVE  [Hall!Next]_(Hall!vars)
<1> USE DEF lockVars, clientVars, emitterVars
<1>0. /\ serve \in [Clients -> ServeStates] /\ send \in [Clients -> Seq(Frame)]
      /\ \A d \in Clients : Len(send[d]) <= SendBuf
  BY DEF TypeOK
<1>1. CASE Upgrade(c) \/ UpgradeFails(c) \/ CallRegister(c)
  <2>1. /\ UNCHANGED <<clients, rpump, peer, emit, event, todo, send, inhand, received>>
        /\ serve' = serve \/ (serve[c] = "new" /\ \E to \in {"upgraded", "over"} :
                                serve' = [serve EXCEPT ![c] = to])
    BY <1>1 DEF Upgrade, UpgradeFails, CallRegister
  <2>2. Welcomed' = Welcomed
    BY <1>0, <2>1 DEF Welcomed
  <2> QED BY <2>1, <2>2, HallUnseen DEF Hall!vars
<1>2. CASE Register(c)
  <2>1. /\ UNCHANGED <<rpump, peer, emit, event, todo, send, inhand, received>>
        /\ serve[c] = "upgraded" /\ serve' = [serve EXCEPT ![c] = "registered"]
        /\ clients' = clients \cup {c}
    BY <1>2 DEF Register
  <2>2. Welcomed' = Welcomed
    BY <1>0, <2>1 DEF Welcomed
  <2>3. c \notin clients \cup Unregistered
    BY <2>1 DEF IInv, MembersAreServed, PumpStates, Unregistered
  <2>4. Hall!Join(c)
    BY <2>1, <2>2, <2>3, HallUnseen DEF Hall!Join
  <2> QED BY <2>4 DEF Hall!Next
<1>3. CASE HelloAndStartPumps(c)
  <2>1. /\ UNCHANGED <<clients, peer, emit, event, todo, inhand, received>>
        /\ serve[c] = "registered" /\ serve' = [serve EXCEPT ![c] = "pumps"]
        /\ rpump[c] = "none" /\ rpump' = [rpump EXCEPT ![c] = "reading"]
    BY <1>3 DEF HelloAndStartPumps, IInv, PumpStates
  <2>2. c \in clients \ Welcomed /\ Welcomed' = Welcomed \cup {c}
    BY <1>0, <2>1 DEF HallInv, Welcomed
  <2>3. Unregistered' = Unregistered
    BY <2>1 DEF TypeOK, Unregistered
  <2>4. Hall!Accept(c, c, HelloEvent) \/ Hall!Refuse(c)
    <3>1. CASE HasRoom(c)
      <4>1. send' = [send EXCEPT ![c] = Append(@, Hello(c))] /\ inhand' = inhand
        BY <1>3, <3>1 DEF HelloAndStartPumps, WriteHello
      <4>2. Mailbox' = [Mailbox EXCEPT ![c] = Append(@, Hello(c))]
        BY <4>1, MailboxGrows, FramesAreFrames
      <4>3. Len(Mailbox[c]) <= SendBuf
        BY <3>1, MailboxRoom
      <4> QED BY <4>2, <4>3 DEF Hall!Accept, Hello
    <3>2. CASE ~HasRoom(c)
      <4>1. send' = send /\ inhand' = inhand
        BY <1>3, <3>2 DEF HelloAndStartPumps, WriteHello
      <4>2. Len(Mailbox[c]) >= SendBuf
        BY <3>2, MailboxRoom
      <4> QED BY <4>1, <4>2, HallUnseen DEF Hall!Refuse
    <3> QED BY <3>1, <3>2
  <2>5. Hall!Greet(c)
    BY <2>1, <2>2, <2>3, <2>4, HallUnseen DEF Hall!Greet
  <2> QED BY <2>5 DEF Hall!Next
<1> QED BY <1>1, <1>2, <1>3 DEF ServeHTTP

LEMMA HallRead ==
  ASSUME TypeOK, IInv, HallInv, NEW c \in Clients, readPump(c)
  PROVE  [Hall!Next]_(Hall!vars)
<1> USE DEF lockVars, clientVars, emitterVars
<1>0. rpump \in [Clients -> ReadStates]
  BY DEF TypeOK
<1>1. UNCHANGED <<serve, peer, emit, event, todo, send, inhand, received>>
  BY DEF readPump, ReadFails, CallUnregister, Unregister, CloseSend, ReadPumpReturns
<1>2. CASE ~Unregister(c)
  <2>1. clients' = clients
    BY <1>2 DEF readPump, ReadFails, CallUnregister, CloseSend, ReadPumpReturns
  <2>2. Unregistered' = Unregistered
    <3>1. CASE ReadFails(c) BY <1>0, <3>1 DEF ReadFails, Unregistered
    <3>2. CASE CallUnregister(c) BY <3>2 DEF CallUnregister, Unregistered
    <3>3. CASE CloseSend(c) BY <1>0, <3>3 DEF CloseSend, Unregistered
    <3>4. CASE ReadPumpReturns(c) BY <1>0, <3>4 DEF ReadPumpReturns, Unregistered
    <3> QED BY <1>2, <3>1, <3>2, <3>3, <3>4 DEF readPump
  <2> QED BY <1>1, <2>1, <2>2, HallUnseen DEF Hall!vars
<1>3. CASE Unregister(c)
  <2>1. /\ rpump[c] = "failed" /\ rpump' = [rpump EXCEPT ![c] = "closeSend"]
        /\ clients' = clients \ {c} /\ readers = {}
    BY <1>3 DEF Unregister, LockGranted
  <2>2. c \in clients
    BY <2>1 DEF HallInv
  <2>3. \A e \in Emitters : c \notin todo[e]
    BY <2>1 DEF IInv, ReadersIterate
  <2>4. Unregistered' = Unregistered \cup {c}
    BY <1>0, <2>1 DEF Unregistered
  <2>5. Hall!Leave(c)
    BY <1>1, <2>1, <2>2, <2>3, <2>4, HallUnseen DEF Hall!Leave
  <2> QED BY <2>5 DEF Hall!Next
<1> QED BY <1>2, <1>3

LEMMA HallWrite ==
  ASSUME TypeOK, IInv, HandInv, ConnInv, HallInv, NEW c \in Clients, writePump(c)
  PROVE  [Hall!Next]_(Hall!vars)
<1> USE DEF lockVars, clientVars, emitterVars
<1>0. /\ received \in [Clients -> Seq(Frame)]
      /\ peer \in [Clients -> {"reading", "stalled", "gone"}]
      /\ rpump \in [Clients -> ReadStates]
  BY DEF TypeOK
<1>1. UNCHANGED <<clients, serve, rpump, peer, emit, event, todo>>
  BY DEF writePump, Receive, ChannelClosed, WriteSucceeds, WriteFails, WritePumpReturns
<1>2. CASE Receive(c)
  <2>1. received' = received
    BY <1>2 DEF Receive
  <2> QED BY <1>1, <1>2, <2>1, MailboxHanded, HallUnseen DEF Hall!vars
<1>3. CASE ChannelClosed(c) \/ WritePumpReturns(c)
  <2>1. UNCHANGED <<send, inhand, received>>
    BY <1>3 DEF ChannelClosed, WritePumpReturns
  <2> QED BY <1>1, <2>1, HallUnseen DEF Hall!vars
<1>4. CASE WriteSucceeds(c) \/ WriteFails(c)
  <2>1. wpump[c] = "writing" /\ inhand' = [inhand EXCEPT ![c] = <<>>] /\ send' = send
    BY <1>4 DEF WriteSucceeds, WriteFails
  <2>2. /\ Mailbox[c] # <<>>
        /\ Mailbox' = [Mailbox EXCEPT ![c] = Tail(@)]
        /\ received[c] \o inhand[c] = Append(received[c], Head(Mailbox[c]))
    BY <2>1, MailboxTaken
  <2>3. CASE WriteSucceeds(c) /\ peer[c] = "reading"
    <3>1. received' = [received EXCEPT ![c] = Append(@, Head(Mailbox[c]))]
      BY <2>2, <2>3 DEF WriteSucceeds
    <3>2. c \notin Away
      BY <2>3 DEF Away
    <3>3. Hall!Deliver(c)
      BY <1>1, <2>2, <3>1, <3>2, HallUnseen DEF Hall!Deliver
    <3> QED BY <3>3 DEF Hall!Next
  <2>4. CASE (WriteSucceeds(c) /\ peer[c] # "reading") \/ WriteFails(c)
    <3>1. received' = received
      BY <2>4 DEF WriteSucceeds, WriteFails
    <3>2. c \in Away \cup Unregistered
      <4>1. CASE peer[c] = "gone"
        BY <4>1 DEF Away
      <4>2. CASE peer[c] # "gone"
        <5>1. WriteFails(c) /\ conn[c] = "closed"
          BY <1>0, <2>4, <4>2 DEF WriteSucceeds, WriteFails
        <5>2. c \notin clients
          BY <4>2, <5>1 DEF ConnInv
        <5>3. serve[c] = "pumps"
          BY <2>1 DEF HandInv
        <5>4. rpump[c] \notin {"none", "reading", "failed"}
          BY <5>2, <5>3 DEF HallInv, IInv, PumpStates
        <5> QED BY <1>0, <5>4 DEF ReadStates, Unregistered
      <4> QED BY <4>1, <4>2
    <3>3. Hall!ThrowAway(c)
      BY <1>1, <2>2, <3>1, <3>2, HallUnseen DEF Hall!ThrowAway
    <3> QED BY <3>3 DEF Hall!Next
  <2> QED BY <1>4, <2>3, <2>4
<1> QED BY <1>2, <1>3, <1>4 DEF writePump

LEMMA HallBrowser ==
  ASSUME TypeOK, NEW c \in Clients, Browser(c)
  PROVE  [Hall!Next]_(Hall!vars)
<1> USE DEF lockVars, clientVars, emitterVars
<1>0. peer \in [Clients -> {"reading", "stalled", "gone"}]
  BY DEF TypeOK
<1>1. UNCHANGED <<clients, serve, rpump, emit, event, todo, send, inhand, received>>
  BY DEF Browser, PeerStalls, PeerResumes, PeerGoes, PeerChanges
<1>2. CASE PeerStalls(c) \/ PeerResumes(c)
  <2>1. Away' = Away
    BY <1>0, <1>2 DEF PeerStalls, PeerResumes, PeerChanges, Away
  <2> QED BY <1>1, <2>1, HallUnseen DEF Hall!vars
<1>3. CASE PeerGoes(c)
  <2>1. c \notin Away /\ Away' = Away \cup {c}
    BY <1>0, <1>3 DEF PeerGoes, PeerChanges, Away
  <2>2. Hall!Go(c)
    BY <1>1, <2>1, HallUnseen DEF Hall!Go
  <2> QED BY <2>2 DEF Hall!Next
<1> QED BY <1>2, <1>3 DEF Browser

LEMMA HallEmit ==
  ASSUME TypeOK, HallInv, NEW e \in Emitters, Emit(e)
  PROVE  [Hall!Next]_(Hall!vars)
<1> USE DEF lockVars, clientVars, emitterVars
<1>0. /\ emit \in [Emitters -> EmitStates]
      /\ event \in [Emitters -> {UserRegistered, JobEnqueued}]
      /\ UserRegistered # JobEnqueued
  BY DEF TypeOK, UserRegistered, JobEnqueued
<1>1. UNCHANGED <<clients, serve, rpump, peer, todo, send, inhand, received>>
  BY DEF Emit, EmitUserRegistered, EmitJobEnqueued, NoJob
<1>2. Started' = Started
  <2>1. CASE EmitUserRegistered(e)
    BY <1>0, <2>1 DEF EmitUserRegistered, Started
  <2>2. CASE EmitJobEnqueued(e)
    <3>1. event[e] = UserRegistered
      BY <2>2 DEF EmitJobEnqueued, HallInv
    <3> QED BY <1>0, <2>2, <3>1 DEF EmitJobEnqueued, Started
  <2>3. CASE NoJob(e)
    BY <1>0, <2>3 DEF NoJob, Started
  <2> QED BY <2>1, <2>2, <2>3 DEF Emit
<1> QED BY <1>1, <1>2, HallUnseen DEF Hall!vars

LEMMA HallBroadcast ==
  ASSUME TypeOK, IInv, HandInv, HallInv, NEW e \in Emitters, Broadcast(e)
  PROVE  [Hall!Next]_(Hall!vars)
<1> USE DEF lockVars, clientVars, emitterVars
<1>0. /\ emit \in [Emitters -> EmitStates]
      /\ event \in [Emitters -> {UserRegistered, JobEnqueued}]
      /\ UserRegistered # JobEnqueued
  BY DEF TypeOK, UserRegistered, JobEnqueued
<1>1. UNCHANGED <<clients, serve, rpump, peer, event, inhand, received>>
  BY DEF Broadcast, RLock, SendOrDrop, RUnlock
<1>2. CASE RLock(e)
  <2>1. /\ emit[e] = "calling" /\ emit' = [emit EXCEPT ![e] = "iterating"]
        /\ todo' = [todo EXCEPT ![e] = clients] /\ send' = send
    BY <1>2 DEF RLock
  <2>2. todo[e] = {}
    BY <2>1 DEF IInv, ReadersIterate
  <2>3. Started[e] < 2 /\ Started' = [Started EXCEPT ![e] = @ + 1]
    <3>1. Started[e] = IF event[e] = UserRegistered THEN 0 ELSE 1
      BY <2>1 DEF Started
    <3>2. Started'[e] = IF event[e] = UserRegistered THEN 1 ELSE 2
      BY <1>0, <1>1, <2>1 DEF Started
    <3>3. \A d \in Emitters \ {e} : Started'[d] = Started[d]
      BY <1>0, <1>1, <2>1 DEF Started
    <3>4. Started'[e] = Started[e] + 1
      BY <3>1, <3>2
    <3>5. /\ Started = [d \in Emitters |-> Started[d]]
          /\ Started' = [d \in Emitters |-> Started'[d]]
      BY DEF Started
    <3>6. Started[e] < 2
      BY <3>1
    <3> QED BY <3>3, <3>4, <3>5, <3>6
  <2>4. Len(<<UserRegistered, JobEnqueued>>) = 2
    OBVIOUS
  <2>5. Hall!Start(e)
    BY <1>1, <2>1, <2>2, <2>3, <2>4, HallUnseen DEF Hall!Start
  <2> QED BY <2>5 DEF Hall!Next
<1>3. ASSUME NEW c \in Clients, SendOrDrop(e, c) PROVE Hall!Offer(e, c)
  <2>1. /\ emit[e] = "iterating" /\ emit' = emit /\ c \in todo[e]
        /\ todo' = [todo EXCEPT ![e] = @ \ {c}]
    BY <1>3 DEF SendOrDrop
  <2>2. c \in clients
    BY <2>1, TodoIsOpen
  <2>3. <<UserRegistered, JobEnqueued>>[Started[e]] = event[e]
    <3>1. Started[e] = IF event[e] = UserRegistered THEN 1 ELSE 2
      BY <2>1 DEF Started
    <3> QED BY <1>0, <3>1
  <2>4. Hall!Accept(c, e, event[e]) \/ Hall!Refuse(c)
    <3>1. CASE HasRoom(c)
      <4>1. send' = [send EXCEPT ![c] = Append(@, FrameOf(e))]
        BY <1>3, <3>1 DEF SendOrDrop
      <4>2. Mailbox' = [Mailbox EXCEPT ![c] = Append(@, FrameOf(e))]
        BY <1>1, <4>1, MailboxGrows, FramesAreFrames
      <4>3. Len(Mailbox[c]) <= SendBuf
        BY <3>1, MailboxRoom
      <4> QED BY <4>2, <4>3 DEF Hall!Accept, FrameOf
    <3>2. CASE ~HasRoom(c)
      <4>1. send' = send
        BY <1>3, <3>2 DEF SendOrDrop
      <4>2. Len(Mailbox[c]) >= SendBuf
        BY <3>2, MailboxRoom
      <4> QED BY <1>1, <4>1, <4>2, HallUnseen DEF Hall!Refuse
    <3> QED BY <3>1, <3>2
  <2> QED BY <1>1, <2>1, <2>2, <2>3, <2>4, HallUnseen DEF Hall!Offer
<1>4. CASE RUnlock(e)
  <2>1. /\ emit[e] = "iterating" /\ todo' = todo /\ send' = send
        /\ \E to \in {"returned", "over"} : emit' = [emit EXCEPT ![e] = to]
    BY <1>4 DEF RUnlock
  <2>2. Started' = Started
    BY <1>0, <1>1, <2>1 DEF Started
  <2> QED BY <1>1, <2>1, <2>2, HallUnseen DEF Hall!vars
<1> QED BY <1>2, <1>3, <1>4 DEF Broadcast, Hall!Next

LEMMA HallInit == Init => Hall!Init
BY ConcatEmptySeq, NoFrames
   DEF Init, Hall!Init, Unregistered, Welcomed, Away, Started, Mailbox

LEMMA HallNext ==
  TypeOK /\ IInv /\ HandInv /\ ConnInv /\ HallInv /\ [Next]_vars => [Hall!Next]_(Hall!vars)
<1> SUFFICES ASSUME TypeOK, IInv, HandInv, ConnInv, HallInv, [Next]_vars
             PROVE  [Hall!Next]_(Hall!vars)
  OBVIOUS
<1>1. CASE UNCHANGED vars
  BY <1>1, HallUnseen DEF vars, Hall!vars
<1> QED BY <1>1, HallServe, HallRead, HallWrite, HallBrowser, HallEmit, HallBroadcast
        DEF Next, AllServed

(* Map, lock, channels and pumps are mailboxes, for any browsers,          *)
(* registrations and capacities (hub.go:84-169).                           *)
THEOREM Refinement == Spec => ImplementsMailboxes
BY TypeCorrect, Invariance, OrderInit, HandStep, ConnInit, ConnStep, HallInvInit, HallInvStep,
   HallInit, HallNext, PTL DEF Spec, ImplementsMailboxes, Hall!Spec
=============================================================================
