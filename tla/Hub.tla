-------------------------------- MODULE Hub --------------------------------
(***************************************************************************)
(* The WebSocket hub of server/internal/core/realtime/hub.go.              *)
(*                                                                         *)
(* Every connection is served by three goroutines: the HTTP handler, which *)
(* upgrades the connection, registers the client, queues the hello frame   *)
(* and starts the other two; readPump, which waits for the connection to   *)
(* fail and then unregisters the client; and writePump, which empties the  *)
(* client's buffered channel into the connection.  The goroutines that     *)
(* serve POST /auth/register broadcast to all of them: the listeners of    *)
(* NewHub run in the goroutine that emits.  Hub.mu is a sync.RWMutex: a    *)
(* broadcast holds it for reading over its whole iteration, register and   *)
(* unregister hold it for writing.                                         *)
(*                                                                         *)
(* A step is what one goroutine does between two points at which another   *)
(* may be seen to interfere.                                               *)
(***************************************************************************)
EXTENDS Naturals, Sequences

CONSTANTS
  Clients,   (* connections; each is served once                           *)
  Emitters,  (* goroutines serving a registration; each emits for one user *)
  SendBuf,   (* capacity of client.send: 256 in ServeHTTP                  *)
  NoClient   (* not a client                                               *)

ASSUME SendBufAssumption == SendBuf \in Nat \ {0}
ASSUME NoClientAssumption == NoClient \notin Clients
ASSUME NamesAssumption == Clients \cap Emitters = {}

VARIABLES
  clients,   (* Hub.clients                                                *)
  readers,   (* Hub.mu: the emitters that hold it for reading              *)
  writer,    (* Hub.mu: the client whose goroutine has called Lock         *)
  serve,     (* where the ServeHTTP goroutine of a client is               *)
  rpump,     (* where its readPump is                                      *)
  wpump,     (* where its writePump is                                     *)
  send,      (* client.send: the frames buffered in the channel            *)
  inhand,    (* the frame writePump has received and not yet written       *)
  closed,    (* close(client.send) has been called                         *)
  conn,      (* the connection: open until a goroutine closes it           *)
  peer,      (* the browser: reading, stalled (its window is full) or gone *)
  emit,      (* where an emitter's call of Broadcast is                    *)
  event,     (* the event it broadcasts                                    *)
  todo,      (* the clients its loop has not reached                       *)
  received,  (* history: the frames a browser got, in order                *)
  missed,    (* history: the clients the loop has dropped the frame for    *)
  panicked   (* a send on, or a close of, a closed channel                 *)

lockVars == <<clients, readers, writer>>
clientVars == <<serve, rpump, wpump, send, inhand, closed, conn, peer, received>>
emitterVars == <<emit, event, todo, missed>>
vars == <<clients, readers, writer, serve, rpump, wpump, send, inhand, closed,
          conn, peer, received, emit, event, todo, missed, panicked>>

UserRegistered == "auth:user-registered"
JobEnqueued == "queue:job-enqueued"
HelloEvent == "system:hello"

(* wsFrame, its payload abstracted to who caused it. *)
Frame == [from : Clients \cup Emitters,
          event : {UserRegistered, JobEnqueued, HelloEvent}]

Hello(c) == [from |-> c, event |-> HelloEvent]
FrameWithOneName(e) == [from |-> e, event |-> UserRegistered]
FrameOf(e) == [from |-> e, event |-> event[e]]

(***************************************************************************)
(* Where the goroutines can be.                                            *)
(***************************************************************************)
ServeStates == {"new", "upgraded", "registered", "pumps", "over"}
ReadStates == {"none", "reading", "failed", "closeSend", "closeConn", "over"}
WriteStates == {"none", "receiving", "writing", "closeConn", "over"}
EmitStates == {"idle", "calling", "iterating", "returned", "over"}

TypeOK ==
  /\ clients \subseteq Clients
  /\ readers \subseteq Emitters
  /\ writer \in Clients \cup {NoClient}
  /\ serve \in [Clients -> ServeStates]
  /\ rpump \in [Clients -> ReadStates]
  /\ wpump \in [Clients -> WriteStates]
  /\ send \in [Clients -> Seq(Frame)]
  /\ inhand \in [Clients -> Seq(Frame)]
  /\ closed \in [Clients -> BOOLEAN]
  /\ conn \in [Clients -> {"open", "closed"}]
  /\ peer \in [Clients -> {"reading", "stalled", "gone"}]
  /\ emit \in [Emitters -> EmitStates]
  /\ event \in [Emitters -> {UserRegistered, JobEnqueued}]
  /\ todo \in [Emitters -> SUBSET Clients]
  /\ received \in [Clients -> Seq(Frame)]
  /\ missed \in [Emitters -> SUBSET Clients]
  /\ panicked \in BOOLEAN
  /\ \A c \in Clients : Len(send[c]) <= SendBuf

Init ==
  /\ clients = {}
  /\ readers = {}
  /\ writer = NoClient
  /\ serve = [c \in Clients |-> "new"]
  /\ rpump = [c \in Clients |-> "none"]
  /\ wpump = [c \in Clients |-> "none"]
  /\ send = [c \in Clients |-> <<>>]
  /\ inhand = [c \in Clients |-> <<>>]
  /\ closed = [c \in Clients |-> FALSE]
  /\ conn = [c \in Clients |-> "open"]
  /\ peer = [c \in Clients |-> "reading"]
  /\ emit = [e \in Emitters |-> "idle"]
  /\ event = [e \in Emitters |-> UserRegistered]
  /\ todo = [e \in Emitters |-> {}]
  /\ received = [c \in Clients |-> <<>>]
  /\ missed = [e \in Emitters |-> {}]
  /\ panicked = FALSE

(***************************************************************************)
(* sync.RWMutex.  A writer that has called Lock keeps new readers out and  *)
(* waits for those inside to leave; register and unregister hold the write *)
(* lock for one update of the map, so taking, using and releasing it is    *)
(* one step.                                                               *)
(***************************************************************************)
CallLock(c) ==
  /\ writer = NoClient
  /\ writer' = c

GrantedBesideReaders(c) == writer = c

LockGranted(c) ==
  /\ writer = c
  /\ readers = {}

RLockGranted == writer = NoClient

(***************************************************************************)
(* ServeHTTP.                                                              *)
(***************************************************************************)

(* Upgrade fails (a refused origin, a ResponseWriter that cannot be        *)
(* hijacked) and the handler returns, or the client is created.            *)
Upgrade(c) ==
  /\ serve[c] = "new"
  /\ serve' = [serve EXCEPT ![c] = "upgraded"]
  /\ UNCHANGED <<lockVars, rpump, wpump, send, inhand, closed, conn, peer,
                 received, emitterVars, panicked>>

UpgradeFails(c) ==
  /\ serve[c] = "new"
  /\ serve' = [serve EXCEPT ![c] = "over"]
  /\ conn' = [conn EXCEPT ![c] = "closed"]
  /\ UNCHANGED <<lockVars, rpump, wpump, send, inhand, closed, peer,
                 received, emitterVars, panicked>>

CallRegister(c) ==
  /\ serve[c] = "upgraded"
  /\ CallLock(c)
  /\ UNCHANGED <<clients, readers, clientVars, emitterVars, panicked>>

Register(c) ==
  /\ serve[c] = "upgraded"
  /\ LockGranted(c)
  /\ clients' = clients \cup {c}
  /\ writer' = NoClient
  /\ serve' = [serve EXCEPT ![c] = "registered"]
  /\ UNCHANGED <<readers, rpump, wpump, send, inhand, closed, conn, peer,
                 received, emitterVars, panicked>>

(* A non-blocking send, select { case ch <- f: default: }. *)
HasRoomForOneTooMany(c) == Len(send[c]) <= SendBuf
HasRoom(c) == Len(send[c]) < SendBuf

(* writeJSON queues the hello frame if there is room. *)
WriteHello(c) ==
  send' = IF HasRoom(c) THEN [send EXCEPT ![c] = Append(@, Hello(c))] ELSE send

(* go c.writePump(); go c.readPump() *)
HelloAndStartPumps(c) ==
  /\ serve[c] = "registered"
  /\ WriteHello(c)
  /\ serve' = [serve EXCEPT ![c] = "pumps"]
  /\ wpump' = [wpump EXCEPT ![c] = "receiving"]
  /\ rpump' = [rpump EXCEPT ![c] = "reading"]
  /\ panicked' = (panicked \/ closed[c])
  /\ UNCHANGED <<lockVars, inhand, closed, conn, peer, received, emitterVars>>

(***************************************************************************)
(* readPump: ReadMessage fails once the browser is gone or the connection  *)
(* has been closed on this side.  Messages that arrive are discarded.      *)
(***************************************************************************)
ReadFails(c) ==
  /\ rpump[c] = "reading"
  /\ peer[c] = "gone" \/ conn[c] = "closed"
  /\ rpump' = [rpump EXCEPT ![c] = "failed"]
  /\ UNCHANGED <<lockVars, serve, wpump, send, inhand, closed, conn, peer,
                 received, emitterVars, panicked>>

CallUnregister(c) ==
  /\ rpump[c] = "failed"
  /\ CallLock(c)
  /\ UNCHANGED <<clients, readers, clientVars, emitterVars, panicked>>

UnregisterKeepsEntry(c) ==
  /\ rpump[c] = "failed"
  /\ LockGranted(c)
  /\ writer' = NoClient
  /\ rpump' = [rpump EXCEPT ![c] = "closeSend"]
  /\ UNCHANGED <<clients, readers, serve, wpump, send, inhand, closed, conn,
                 peer, received, emitterVars, panicked>>

Unregister(c) ==
  /\ rpump[c] = "failed"
  /\ LockGranted(c)
  /\ clients' = clients \ {c}
  /\ writer' = NoClient
  /\ rpump' = [rpump EXCEPT ![c] = "closeSend"]
  /\ UNCHANGED <<readers, serve, wpump, send, inhand, closed, conn, peer,
                 received, emitterVars, panicked>>

ForgetsToClose(c) ==
  /\ rpump[c] = "closeSend"
  /\ rpump' = [rpump EXCEPT ![c] = "closeConn"]
  /\ UNCHANGED <<lockVars, serve, wpump, send, inhand, closed, conn, peer,
                 received, emitterVars, panicked>>

(* close(c.send), after the lock has been released. *)
CloseSend(c) ==
  /\ rpump[c] = "closeSend"
  /\ closed' = [closed EXCEPT ![c] = TRUE]
  /\ panicked' = (panicked \/ closed[c])
  /\ rpump' = [rpump EXCEPT ![c] = "closeConn"]
  /\ UNCHANGED <<lockVars, serve, wpump, send, inhand, conn, peer, received,
                 emitterVars>>

ReadPumpReturns(c) ==
  /\ rpump[c] = "closeConn"
  /\ conn' = [conn EXCEPT ![c] = "closed"]
  /\ rpump' = [rpump EXCEPT ![c] = "over"]
  /\ UNCHANGED <<lockVars, serve, wpump, send, inhand, closed, peer, received,
                 emitterVars, panicked>>

(***************************************************************************)
(* writePump.                                                              *)
(***************************************************************************)

(* range c.send: the next frame, *)
Receive(c) ==
  /\ wpump[c] = "receiving"
  /\ send[c] # <<>>
  /\ inhand' = [inhand EXCEPT ![c] = <<Head(send[c])>>]
  /\ send' = [send EXCEPT ![c] = Tail(@)]
  /\ wpump' = [wpump EXCEPT ![c] = "writing"]
  /\ UNCHANGED <<lockVars, serve, rpump, closed, conn, peer, received,
                 emitterVars, panicked>>

(* or the end of the loop: the channel is closed and empty. *)
ChannelClosed(c) ==
  /\ wpump[c] = "receiving"
  /\ send[c] = <<>>
  /\ closed[c]
  /\ wpump' = [wpump EXCEPT ![c] = "closeConn"]
  /\ UNCHANGED <<lockVars, serve, rpump, send, inhand, closed, conn, peer,
                 received, emitterVars, panicked>>

WritesOnce(c) ==
  /\ wpump[c] = "writing"
  /\ conn[c] = "open"
  /\ peer[c] = "reading"
  /\ received' = [received EXCEPT ![c] = @ \o inhand[c]]
  /\ inhand' = [inhand EXCEPT ![c] = <<>>]
  /\ wpump' = [wpump EXCEPT ![c] = "closeConn"]
  /\ UNCHANGED <<lockVars, serve, rpump, send, closed, conn, peer,
                 emitterVars, panicked>>

(* WriteMessage returns nil: the browser gets the frame or, if it has just *)
(* gone, the frame dies in the socket's buffer.  A stalled browser accepts *)
(* nothing: the call does not return, as there is no write deadline.       *)
WriteSucceeds(c) ==
  /\ wpump[c] = "writing"
  /\ conn[c] = "open"
  /\ peer[c] # "stalled"
  /\ received' = IF peer[c] = "reading"
                   THEN [received EXCEPT ![c] = @ \o inhand[c]]
                   ELSE received
  /\ inhand' = [inhand EXCEPT ![c] = <<>>]
  /\ wpump' = [wpump EXCEPT ![c] = "receiving"]
  /\ UNCHANGED <<lockVars, serve, rpump, send, closed, conn, peer,
                 emitterVars, panicked>>

WriteFails(c) ==
  /\ wpump[c] = "writing"
  /\ conn[c] = "closed" \/ peer[c] = "gone"
  /\ inhand' = [inhand EXCEPT ![c] = <<>>]
  /\ wpump' = [wpump EXCEPT ![c] = "closeConn"]
  /\ UNCHANGED <<lockVars, serve, rpump, send, closed, conn, peer, received,
                 emitterVars, panicked>>

WritePumpReturns(c) ==
  /\ wpump[c] = "closeConn"
  /\ conn' = [conn EXCEPT ![c] = "closed"]
  /\ wpump' = [wpump EXCEPT ![c] = "over"]
  /\ UNCHANGED <<lockVars, serve, rpump, send, inhand, closed, peer, received,
                 emitterVars, panicked>>

(***************************************************************************)
(* Broadcast, called by the listeners NewHub registers: first for the new  *)
(* user and, once the welcome job has been published, for the job.         *)
(***************************************************************************)
EmitUserRegistered(e) ==
  /\ emit[e] = "idle"
  /\ emit' = [emit EXCEPT ![e] = "calling"]
  /\ UNCHANGED <<lockVars, clientVars, event, todo, missed, panicked>>

EmitJobEnqueued(e) ==
  /\ emit[e] = "returned"
  /\ emit' = [emit EXCEPT ![e] = "calling"]
  /\ event' = [event EXCEPT ![e] = JobEnqueued]
  /\ UNCHANGED <<lockVars, clientVars, todo, missed, panicked>>

(* The job was not published (no queue manager, or a failed Publish). *)
NoJob(e) ==
  /\ emit[e] = "returned"
  /\ emit' = [emit EXCEPT ![e] = "over"]
  /\ UNCHANGED <<lockVars, clientVars, event, todo, missed, panicked>>

RLock(e) ==
  /\ emit[e] = "calling"
  /\ RLockGranted
  /\ readers' = readers \cup {e}
  /\ todo' = [todo EXCEPT ![e] = clients]
  /\ emit' = [emit EXCEPT ![e] = "iterating"]
  /\ UNCHANGED <<clients, writer, clientVars, event, missed, panicked>>

SendBlocking(e, c) ==
  /\ emit[e] = "iterating"
  /\ c \in todo[e]
  /\ HasRoom(c)
  /\ todo' = [todo EXCEPT ![e] = @ \ {c}]
  /\ panicked' = (panicked \/ closed[c])
  /\ send' = [send EXCEPT ![c] = Append(@, FrameOf(e))]
  /\ UNCHANGED <<lockVars, serve, rpump, wpump, inhand, closed, conn, peer,
                 received, emit, event, missed>>

SendOrReturn(e, c) ==
  /\ emit[e] = "iterating"
  /\ c \in todo[e]
  /\ panicked' = (panicked \/ closed[c])
  /\ IF HasRoom(c)
       THEN /\ send' = [send EXCEPT ![c] = Append(@, FrameOf(e))]
            /\ todo' = [todo EXCEPT ![e] = @ \ {c}]
       ELSE /\ todo' = [todo EXCEPT ![e] = {}]
            /\ UNCHANGED send
  /\ UNCHANGED <<lockVars, serve, rpump, wpump, inhand, closed, conn, peer,
                 received, emit, event, missed>>

(* One round of the loop, in the order of Go's map iteration: any. *)
SendOrDrop(e, c) ==
  /\ emit[e] = "iterating"
  /\ c \in todo[e]
  /\ todo' = [todo EXCEPT ![e] = @ \ {c}]
  /\ panicked' = (panicked \/ closed[c])
  /\ IF HasRoom(c)
       THEN /\ send' = [send EXCEPT ![c] = Append(@, FrameOf(e))]
            /\ UNCHANGED missed
       ELSE /\ missed' = [missed EXCEPT ![e] = @ \cup {c}]
            /\ UNCHANGED send
  /\ UNCHANGED <<lockVars, serve, rpump, wpump, inhand, closed, conn, peer,
                 received, emit, event>>

(* The deferred RUnlock. *)
RUnlock(e) ==
  /\ emit[e] = "iterating"
  /\ todo[e] = {}
  /\ readers' = readers \ {e}
  /\ missed' = [missed EXCEPT ![e] = {}]
  /\ emit' = [emit EXCEPT ![e] = IF event[e] = UserRegistered THEN "returned" ELSE "over"]
  /\ UNCHANGED <<clients, writer, clientVars, event, todo, panicked>>

(***************************************************************************)
(* The browser: it stops and resumes reading, and goes away.  One that     *)
(* goes before it is upgraded is a failed upgrade.                         *)
(***************************************************************************)
PeerChanges(c, to) ==
  /\ serve[c] \notin {"new", "over"}
  /\ conn[c] = "open"
  /\ peer[c] \notin {to, "gone"}
  /\ peer' = [peer EXCEPT ![c] = to]
  /\ UNCHANGED <<lockVars, serve, rpump, wpump, send, inhand, closed, conn,
                 received, emitterVars, panicked>>

PeerStalls(c) == PeerChanges(c, "stalled")
PeerResumes(c) == PeerChanges(c, "reading")
PeerGoes(c) == PeerChanges(c, "gone")

(* Nothing of the connection is left: no map entry and no goroutine. *)
Released(c) ==
  /\ c \notin clients
  /\ serve[c] = "over" \/ (rpump[c] = "over" /\ wpump[c] = "over")

ServeHTTP(c) ==
  \/ Upgrade(c)
  \/ UpgradeFails(c)
  \/ CallRegister(c)
  \/ Register(c)
  \/ HelloAndStartPumps(c)

readPump(c) ==
  \/ ReadFails(c)
  \/ CallUnregister(c)
  \/ Unregister(c)
  \/ CloseSend(c)
  \/ ReadPumpReturns(c)

writePump(c) ==
  \/ Receive(c)
  \/ ChannelClosed(c)
  \/ WriteSucceeds(c)
  \/ WriteFails(c)
  \/ WritePumpReturns(c)

Broadcast(e) ==
  \/ RLock(e)
  \/ \E c \in Clients : SendOrDrop(e, c)
  \/ RUnlock(e)

Emit(e) ==
  \/ EmitUserRegistered(e)
  \/ EmitJobEnqueued(e)
  \/ NoJob(e)

Browser(c) ==
  \/ PeerStalls(c)
  \/ PeerResumes(c)
  \/ PeerGoes(c)

(* The run is over: every browser has come and gone, every user registered. *)
AllServed ==
  /\ \A c \in Clients : Released(c)
  /\ \A e \in Emitters : emit[e] = "over"
  /\ UNCHANGED vars

Next ==
  \/ \E c \in Clients : ServeHTTP(c) \/ readPump(c) \/ writePump(c) \/ Browser(c)
  \/ \E e \in Emitters : Emit(e) \/ Broadcast(e)
  \/ AllServed

Spec == Init /\ [][Next]_vars

(* The Go scheduler runs every goroutine that can run.  Nothing is assumed *)
(* of the browsers, nor that anybody registers.                            *)
Fairness ==
  /\ \A c \in Clients : /\ WF_vars(ServeHTTP(c))
                        /\ WF_vars(readPump(c))
                        /\ WF_vars(writePump(c))
  /\ \A e \in Emitters : WF_vars(Broadcast(e))

FairSpec == Spec /\ Fairness

(***************************************************************************)
(* Properties.                                                             *)
(***************************************************************************)

(* No goroutine sends on a closed channel or closes one twice, although    *)
(* close(c.send) comes after the lock is released (hub.go:115-121): a      *)
(* panic in a broadcast would fail somebody else's registration.           *)
NoPanic == ~panicked

(* Why nothing panics.  A broadcast holds the read lock for all of its     *)
(* iteration, so a client it has yet to reach is still in the map; and a   *)
(* client in the map has a readPump that has not got as far as closing the *)
(* channel.                                                                *)
ReadersIterate ==
  \A e \in Emitters : /\ e \in readers <=> emit[e] = "iterating"
                      /\ todo[e] \subseteq (IF e \in readers THEN clients ELSE {})

MembersAreServed ==
  \A c \in clients : serve[c] \in {"registered", "pumps"} /\ rpump[c] \in {"none", "reading", "failed"}

PumpStates ==
  \A c \in Clients : /\ rpump[c] # "none" <=> serve[c] = "pumps"
                     /\ closed[c] <=> rpump[c] \in {"closeConn", "over"}

IInv == ReadersIterate /\ MembersAreServed /\ PumpStates /\ NoPanic

(* What is queued for a browser, in its writePump's hand or received.      *)
Stream(c) == received[c] \o inhand[c] \o send[c]

(* A browser sees a frame once at most, and never sees that the job of a   *)
(* user is enqueued before it sees that the user registered, whatever      *)
(* frames are dropped in between: NewHub's listeners run in the goroutine  *)
(* that emits, one after the other (bus.go:29-36).                         *)
FramesInOrder ==
  \A c \in Clients :
    LET s == Stream(c) IN
    \A i, j \in DOMAIN s :
      i < j => /\ s[i] # s[j]
               /\ s[i].from = s[j].from => s[j].event = JobEnqueued

(* A broadcast has passed over no client: each one it has dealt with has   *)
(* the frame, or the frame was dropped for it, or its connection is dying. *)
NobodySkipped ==
  \A e \in readers : \A c \in clients \ todo[e] :
    \/ \E i \in DOMAIN Stream(c) : Stream(c)[i] = FrameOf(e)
    \/ c \in missed[e]
    \/ peer[c] = "gone"

(* Once readPump has taken the client out of the map it never comes back,  *)
(* and nothing more is queued for it.                                      *)
UnregisteredForGood ==
  [][\A c \in Clients :
       rpump[c] \in {"closeSend", "closeConn", "over"} =>
         c \notin clients' /\ Len(send'[c]) <= Len(send[c])]_vars

(* The hub as its browsers see it.  What writePump has in its hand is still *)
(* in the mailbox; a client has left once readPump has unregistered it; a  *)
(* broadcast starts when it gets the read lock.                            *)
Mailbox == [c \in Clients |-> inhand[c] \o send[c]]
Unregistered == {c \in Clients : rpump[c] \in {"closeSend", "closeConn", "over"}}
Welcomed == {c \in Clients : serve[c] = "pumps"}
Away == {c \in Clients : peer[c] = "gone"}
Started ==
  [e \in Emitters |-> (IF event[e] = UserRegistered THEN 0 ELSE 1)
                      + (IF emit[e] \in {"idle", "calling"} THEN 0 ELSE 1)]

Hall == INSTANCE Mailboxes WITH
          Browsers <- Clients, Speakers <- Emitters, Greeting <- HelloEvent,
          Topics <- <<UserRegistered, JobEnqueued>>, Capacity <- SendBuf,
          members <- clients, left <- Unregistered, greeted <- Welcomed, gone <- Away,
          said <- Started, owed <- todo, queue <- Mailbox, delivered <- received

(* Map, lock, channels and pumps add up to mailboxes: a broadcast is owed  *)
(* to exactly the clients that are registered when it gets the lock, each  *)
(* gets its frame once and behind the earlier ones or finds its channel    *)
(* full, no client leaves while a broadcast has it ahead, and a queued     *)
(* frame reaches the browser in its turn unless that has gone or left      *)
(* (hub.go:84-169).                                                        *)
ImplementsMailboxes == Hall!Spec

(* A broadcast ends whatever the browsers do: a stalled one costs itself   *)
(* frames, and never holds up the registration that broadcasts.            *)
BroadcastReturns ==
  \A e \in Emitters : emit[e] = "calling" ~> emit[e] \in {"returned", "over"}

(* When a browser goes away its client leaves the map and its goroutines   *)
(* end, whichever of them notices first.                                   *)
GonePeerIsReleased ==
  \A c \in Clients : peer[c] = "gone" ~> Released(c)

(* A frame queued for a browser that goes on reading reaches it.           *)
QueuedFrameArrives ==
  \A c \in Clients : \A f \in [from : Emitters \cup {c}, event : {UserRegistered, JobEnqueued, HelloEvent}] :
    (\E i \in DOMAIN send[c] : send[c][i] = f)
      ~> \/ \E i \in DOMAIN received[c] : received[c][i] = f
         \/ peer[c] # "reading"
=============================================================================
