----------------------------- MODULE HubProofs -----------------------------
(***************************************************************************)
(* What TLAPS proves of Hub, for every set of connections and of emitters  *)
(* and every capacity of the send channels.                                *)
(***************************************************************************)
EXTENDS Hub, TLAPS, SequenceTheorems

USE SendBufAssumption, NoClientAssumption

(* The frames that are sent are frames. *)
LEMMA FramesAreFrames ==
  /\ \A c \in Clients : Hello(c) \in Frame
  /\ \A e \in Emitters : TypeOK => FrameOf(e) \in Frame
<1>1. ASSUME NEW c \in Clients PROVE Hello(c) \in Frame
  BY <1>1 DEF Hello, Frame
<1>2. ASSUME NEW e \in Emitters, TypeOK PROVE FrameOf(e) \in Frame
  <2>1. event[e] \in {UserRegistered, JobEnqueued, HelloEvent}
    BY <1>2 DEF TypeOK
  <2> QED BY <1>2, <2>1 DEF FrameOf, Frame
<1> QED BY <1>1, <1>2

LEMMA TypeInit == Init => TypeOK
<1>1. <<>> \in Seq(Frame) /\ Len(<<>>) = 0 /\ 0 <= SendBuf
  BY EmptySeq
<1> SUFFICES ASSUME Init PROVE TypeOK
  OBVIOUS
<1>2. \A c \in Clients : Len(send[c]) <= SendBuf
  BY <1>1 DEF Init
<1>3. /\ send \in [Clients -> Seq(Frame)]
      /\ inhand \in [Clients -> Seq(Frame)]
      /\ received \in [Clients -> Seq(Frame)]
  BY <1>1 DEF Init
<1> QED BY <1>2, <1>3 DEF Init, TypeOK, ServeStates, ReadStates, WriteStates, EmitStates

(* Each variable stays in its type, and no channel ever holds more than    *)
(* its capacity, whatever the goroutines do.                               *)
LEMMA TypeStep == TypeOK /\ [Next]_vars => TypeOK'
<1> SUFFICES ASSUME TypeOK, [Next]_vars PROVE TypeOK'
  OBVIOUS
<1> USE DEF TypeOK, ServeStates, ReadStates, WriteStates, EmitStates, lockVars,
            clientVars, emitterVars, CallLock, LockGranted
<1>1. ASSUME NEW c \in Clients, ServeHTTP(c) PROVE TypeOK'
  <2>1. CASE Upgrade(c) BY <2>1 DEF Upgrade
  <2>2. CASE UpgradeFails(c) BY <2>2 DEF UpgradeFails
  <2>3. CASE CallRegister(c) BY <2>3 DEF CallRegister
  <2>4. CASE Register(c) BY <2>4 DEF Register
  <2>5. CASE HelloAndStartPumps(c)
    <3>1. send' \in [Clients -> Seq(Frame)] /\ \A d \in Clients : Len(send'[d]) <= SendBuf
      BY <2>5, FramesAreFrames DEF HelloAndStartPumps, WriteHello, HasRoom
    <3> QED BY <2>5, <3>1 DEF HelloAndStartPumps
  <2> QED BY <1>1, <2>1, <2>2, <2>3, <2>4, <2>5 DEF ServeHTTP
<1>2. ASSUME NEW c \in Clients, readPump(c) PROVE TypeOK'
  <2>1. CASE ReadFails(c) BY <2>1 DEF ReadFails
  <2>2. CASE CallUnregister(c) BY <2>2 DEF CallUnregister
  <2>3. CASE Unregister(c) BY <2>3 DEF Unregister
  <2>4. CASE CloseSend(c) BY <2>4 DEF CloseSend
  <2>5. CASE ReadPumpReturns(c) BY <2>5 DEF ReadPumpReturns
  <2> QED BY <1>2, <2>1, <2>2, <2>3, <2>4, <2>5 DEF readPump
<1>3. ASSUME NEW c \in Clients, writePump(c) PROVE TypeOK'
  <2>1. CASE Receive(c)
    <3>1. send[c] \in Seq(Frame) /\ send[c] # <<>> /\ Len(send[c]) \in Nat
      BY <2>1 DEF Receive
    <3>2. /\ <<Head(send[c])>> \in Seq(Frame)
          /\ Tail(send[c]) \in Seq(Frame)
          /\ Len(Tail(send[c])) <= SendBuf
      BY <3>1, HeadTailProperties
    <3>3. /\ inhand' \in [Clients -> Seq(Frame)]
          /\ send' \in [Clients -> Seq(Frame)]
          /\ wpump' \in [Clients -> WriteStates]
      BY <2>1, <3>2 DEF Receive
    <3>4. \A d \in Clients : Len(send'[d]) <= SendBuf
      BY <2>1, <3>2, send \in [Clients -> Seq(Frame)] DEF Receive
    <3> QED BY <2>1, <3>3, <3>4 DEF Receive
  <2>2. CASE ChannelClosed(c) BY <2>2 DEF ChannelClosed
  <2>3. CASE WriteSucceeds(c)
    <3>1. received[c] \o inhand[c] \in Seq(Frame)
      BY ConcatProperties
    <3> QED BY <2>3, <3>1 DEF WriteSucceeds
  <2>4. CASE WriteFails(c) BY <2>4 DEF WriteFails
  <2>5. CASE WritePumpReturns(c) BY <2>5 DEF WritePumpReturns
  <2> QED BY <1>3, <2>1, <2>2, <2>3, <2>4, <2>5 DEF writePump
<1>4. ASSUME NEW c \in Clients, Browser(c) PROVE TypeOK'
  <2>1. PICK to \in {"reading", "stalled", "gone"} : PeerChanges(c, to)
    BY <1>4 DEF Browser, PeerStalls, PeerResumes, PeerGoes
  <2> QED BY <2>1 DEF PeerChanges
<1>5. ASSUME NEW e \in Emitters, Emit(e) PROVE TypeOK'
  <2>1. CASE EmitUserRegistered(e) BY <2>1 DEF EmitUserRegistered
  <2>2. CASE EmitJobEnqueued(e) BY <2>2 DEF EmitJobEnqueued
  <2>3. CASE NoJob(e) BY <2>3 DEF NoJob
  <2> QED BY <1>5, <2>1, <2>2, <2>3 DEF Emit
<1>6. ASSUME NEW e \in Emitters, Broadcast(e) PROVE TypeOK'
  <2>1. CASE RLock(e) BY <2>1 DEF RLock
  <2>2. ASSUME NEW c \in Clients, SendOrDrop(e, c) PROVE TypeOK'
    <3>1. CASE HasRoom(c)
      <4>1. FrameOf(e) \in Frame
        BY FramesAreFrames
      <4>2. send' = [send EXCEPT ![c] = Append(@, FrameOf(e))]
        BY <2>2, <3>1 DEF SendOrDrop
      <4>3. send' \in [Clients -> Seq(Frame)] /\ \A d \in Clients : Len(send'[d]) <= SendBuf
        BY <2>2, <3>1, <4>1, <4>2 DEF HasRoom
      <4> QED BY <2>2, <3>1, <4>3 DEF SendOrDrop
    <3>2. CASE ~HasRoom(c)
      <4>1. missed' = [missed EXCEPT ![e] = @ \cup {c}] /\ UNCHANGED send
        BY <2>2, <3>2 DEF SendOrDrop
      <4>2. missed' \in [Emitters -> SUBSET Clients]
        BY <2>2, <4>1
      <4> QED BY <2>2, <4>1, <4>2 DEF SendOrDrop
    <3> QED BY <3>1, <3>2
  <2>3. CASE RUnlock(e) BY <2>3 DEF RUnlock
  <2> QED BY <1>6, <2>1, <2>2, <2>3 DEF Broadcast
<1>7. CASE UNCHANGED vars BY <1>7 DEF vars
<1> QED BY <1>1, <1>2, <1>3, <1>4, <1>5, <1>6, <1>7 DEF Next, AllServed

(* Type correctness: in particular a client's channel never holds more     *)
(* frames than the capacity ServeHTTP made it with.                        *)
THEOREM TypeCorrect == Spec => []TypeOK
BY TypeInit, TypeStep, PTL DEF Spec

-----------------------------------------------------------------------------
(***************************************************************************)
(* The inductive invariant.                                                *)
(***************************************************************************)
LEMMA InvInit == Init => IInv
BY DEF Init, IInv, ReadersIterate, MembersAreServed, PumpStates, NoPanic

(* A step of a broadcast finds every client it has yet to reach in the map *)
(* and its channel open.                                                   *)
LEMMA TodoIsOpen ==
  ASSUME TypeOK, IInv, NEW e \in Emitters, NEW c \in todo[e]
  PROVE  c \in clients /\ rpump[c] \in {"none", "reading", "failed"} /\ ~closed[c]
<1>1. c \in clients
  BY DEF IInv, ReadersIterate
<1> QED BY <1>1 DEF TypeOK, IInv, MembersAreServed, PumpStates

(* What the invariant says of one client and of one emitter depends on the *)
(* variables of that client and of that emitter, the map and the lock.     *)
LEMMA InvStep == TypeOK /\ IInv /\ [Next]_vars => IInv'
<1> SUFFICES ASSUME TypeOK, IInv, [Next]_vars PROVE IInv'
  OBVIOUS
<1> USE DEF TypeOK, IInv, ReadersIterate, MembersAreServed, PumpStates, NoPanic,
            lockVars, clientVars, emitterVars, CallLock, LockGranted
<1>1. ASSUME NEW c \in Clients, ServeHTTP(c) PROVE IInv'
  <2>1. CASE Upgrade(c) BY <2>1 DEF Upgrade
  <2>2. CASE UpgradeFails(c) BY <2>2 DEF UpgradeFails
  <2>3. CASE CallRegister(c) BY <2>3 DEF CallRegister
  <2>4. CASE Register(c) BY <2>4 DEF Register
  <2>5. CASE HelloAndStartPumps(c) BY <2>5 DEF HelloAndStartPumps
  <2> QED BY <1>1, <2>1, <2>2, <2>3, <2>4, <2>5 DEF ServeHTTP
<1>2. ASSUME NEW c \in Clients, readPump(c) PROVE IInv'
  <2>1. CASE ReadFails(c) BY <2>1 DEF ReadFails
  <2>2. CASE CallUnregister(c) BY <2>2 DEF CallUnregister
  <2>3. CASE Unregister(c) BY <2>3 DEF Unregister
  <2>4. CASE CloseSend(c) BY <2>4 DEF CloseSend
  <2>5. CASE ReadPumpReturns(c) BY <2>5 DEF ReadPumpReturns
  <2> QED BY <1>2, <2>1, <2>2, <2>3, <2>4, <2>5 DEF readPump
<1>3. ASSUME NEW c \in Clients, writePump(c) PROVE IInv'
  BY <1>3 DEF writePump, Receive, ChannelClosed, WriteSucceeds, WriteFails, WritePumpReturns
<1>4. ASSUME NEW c \in Clients, Browser(c) PROVE IInv'
  BY <1>4 DEF Browser, PeerStalls, PeerResumes, PeerGoes, PeerChanges
<1>5. ASSUME NEW e \in Emitters, Emit(e) PROVE IInv'
  BY <1>5 DEF Emit, EmitUserRegistered, EmitJobEnqueued, NoJob
<1>6. ASSUME NEW e \in Emitters, Broadcast(e) PROVE IInv'
  <2>1. CASE RLock(e) BY <2>1 DEF RLock
  <2>2. ASSUME NEW c \in Clients, SendOrDrop(e, c) PROVE IInv'
    <3>1. ~closed[c]
      BY <2>2, TodoIsOpen DEF SendOrDrop
    <3> QED BY <2>2, <3>1 DEF SendOrDrop
  <2>3. CASE RUnlock(e) BY <2>3 DEF RUnlock
  <2> QED BY <1>6, <2>1, <2>2, <2>3 DEF Broadcast
<1>7. CASE UNCHANGED vars BY <1>7 DEF vars
<1> QED BY <1>1, <1>2, <1>3, <1>4, <1>5, <1>6, <1>7 DEF Next, AllServed

(* The invariant holds throughout: a broadcast iterates over registered    *)
(* clients alone, and a registered client's channel is open.               *)
THEOREM Invariance == Spec => []IInv
BY TypeCorrect, InvInit, InvStep, PTL DEF Spec

(* No goroutine sends on a closed channel or closes a channel twice, for   *)
(* any number of connections and of concurrent registrations.              *)
THEOREM NeverPanics == Spec => []NoPanic
<1>1. IInv => NoPanic
  BY DEF IInv
<1> QED BY Invariance, <1>1, PTL

(* A client that readPump has unregistered stays out of the map, and no    *)
(* broadcast that was under way queues another frame for it.               *)
THEOREM LeavesForGood == Spec => UnregisteredForGood
<1> DEFINE Left(c) == rpump[c] \in {"closeSend", "closeConn", "over"}
           Stays(c) == c \notin clients' /\ Len(send'[c]) <= Len(send[c])
<1>1. ASSUME TypeOK, IInv, [Next]_vars, NEW c \in Clients, Left(c)
      PROVE  Stays(c)
  <2>1. /\ c \notin clients
        /\ serve[c] = "pumps"
        /\ \A e \in Emitters : c \notin todo[e]
        /\ send[c] \in Seq(Frame)
        /\ Len(send[c]) \in Nat
    <3>1. c \notin clients
      BY <1>1 DEF IInv, MembersAreServed
    <3>2. serve[c] = "pumps"
      BY <1>1 DEF IInv, PumpStates
    <3>3. \A e \in Emitters : c \notin todo[e]
      BY <1>1, <3>1 DEF IInv, ReadersIterate
    <3>4. send[c] \in Seq(Frame) /\ Len(send[c]) \in Nat
      BY <1>1 DEF TypeOK
    <3> QED BY <3>1, <3>2, <3>3, <3>4
  <2> USE DEF lockVars, clientVars, emitterVars, CallLock, LockGranted, TypeOK
  <2>2. ASSUME NEW d \in Clients, ServeHTTP(d) PROVE Stays(c)
    <3>1. CASE HelloAndStartPumps(d)
      <4>1. d # c
        BY <2>1, <3>1 DEF HelloAndStartPumps
      <4>2. send'[c] = send[c] /\ clients' = clients
        BY <1>1, <3>1, <4>1 DEF HelloAndStartPumps, WriteHello
      <4> QED BY <2>1, <4>2
    <3>2. CASE Register(d)
      BY <1>1, <2>1, <3>2 DEF Register
    <3>3. CASE Upgrade(d) \/ UpgradeFails(d) \/ CallRegister(d)
      BY <1>1, <2>1, <3>3 DEF Upgrade, UpgradeFails, CallRegister
    <3> QED BY <2>2, <3>1, <3>2, <3>3 DEF ServeHTTP
  <2>3. ASSUME NEW d \in Clients, readPump(d) PROVE Stays(c)
    BY <1>1, <2>1, <2>3 DEF readPump, ReadFails, CallUnregister, Unregister, CloseSend,
       ReadPumpReturns
  <2>4. ASSUME NEW d \in Clients, writePump(d) PROVE Stays(c)
    <3>1. CASE Receive(d)
      <4>1. send[d] # <<>> => Len(Tail(send[d])) <= Len(send[d])
        BY <1>1, HeadTailProperties
      <4> QED BY <1>1, <2>1, <3>1, <4>1 DEF Receive
    <3>2. CASE ~Receive(d)
      BY <1>1, <2>1, <2>4, <3>2 DEF writePump, ChannelClosed, WriteSucceeds, WriteFails,
         WritePumpReturns
    <3> QED BY <3>1, <3>2
  <2>5. ASSUME NEW d \in Clients, Browser(d) PROVE Stays(c)
    BY <1>1, <2>1, <2>5 DEF Browser, PeerStalls, PeerResumes, PeerGoes, PeerChanges
  <2>6. ASSUME NEW e \in Emitters, Emit(e) PROVE Stays(c)
    BY <1>1, <2>1, <2>6 DEF Emit, EmitUserRegistered, EmitJobEnqueued, NoJob
  <2>7. ASSUME NEW e \in Emitters, Broadcast(e) PROVE Stays(c)
    <3>1. ASSUME NEW d \in Clients, SendOrDrop(e, d) PROVE Stays(c)
      <4>1. d # c
        BY <2>1, <3>1 DEF SendOrDrop
      <4>2. send'[c] = send[c] /\ clients' = clients
        BY <1>1, <3>1, <4>1 DEF SendOrDrop
      <4> QED BY <2>1, <4>2
    <3>2. CASE RLock(e) \/ RUnlock(e)
      BY <1>1, <2>1, <3>2 DEF RLock, RUnlock
    <3> QED BY <2>7, <3>1, <3>2 DEF Broadcast
  <2>8. CASE UNCHANGED vars BY <1>1, <2>1, <2>8 DEF vars
  <2> QED BY <1>1, <2>2, <2>3, <2>4, <2>5, <2>6, <2>7, <2>8 DEF Next, AllServed
<1>2. TypeOK /\ IInv /\ [Next]_vars =>
        [\A c \in Clients : Left(c) => Stays(c)]_vars
  BY <1>1
<1> QED BY TypeCorrect, Invariance, <1>2, PTL DEF Spec, UnregisteredForGood
=============================================================================
