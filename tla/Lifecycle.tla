----------------------------- MODULE Lifecycle -----------------------------
(***************************************************************************)
(* The life of the process: main.go, and Setup, Start and Shutdown of      *)
(* server/server.go, against everything that runs beside them: the HTTP    *)
(* server's goroutine, the requests it accepts, the goroutines that write  *)
(* audit rows, and the pool of database connections they all share.        *)
(*                                                                         *)
(* A request is followed only where it touches a subsystem that Shutdown   *)
(* closes.  A registration takes a connection to look for the email, gives *)
(* it back, hashes the password, takes one again to insert the row, then   *)
(* publishes a job and starts an audit goroutine before it replies; a      *)
(* health check pings database and cache; a socket is upgraded, after      *)
(* which net/http neither waits for its connection nor closes it.          *)
(***************************************************************************)
EXTENDS Naturals, Sequences, FiniteSets, SequencesExt

CONSTANTS
  Registers,  (* requests POST /auth/register                              *)
  Checks,     (* requests GET /health                                      *)
  Sockets,    (* requests for a WebSocket                                  *)
  PoolSize,   (* database.pool_size                                        *)
  MaxSignals  (* bounds how many signals the process is sent               *)

Requests == Registers \cup Checks \cup Sockets

ASSUME RequestsAssumption ==
  /\ Registers \cap Checks = {}
  /\ Registers \cap Sockets = {}
  /\ Checks \cap Sockets = {}
ASSUME PoolSizeAssumption == PoolSize \in Nat \ {0}
ASSUME SignalsAssumption == MaxSignals \in Nat

VARIABLES
  main,     (* where the main goroutine is                                 *)
  exit,     (* how the process has ended                                   *)
  pool,     (* Server.pool                                                 *)
  redis,    (* Server.redis                                                *)
  qmgr,     (* Server.qmgr                                                 *)
  hub,      (* Server.hub                                                  *)
  http,     (* Server.httpSrv and the goroutine that Start gives it        *)
  quit,     (* signals in Start's channel, which holds one                 *)
  signals,  (* how many signals were sent                                  *)
  expired,  (* the 30 seconds that Shutdown gives requests have passed     *)
  req,      (* where a request is                                          *)
  audit,    (* where its audit goroutine is                                *)
  waiting,  (* who waits for a database connection, in order               *)
  holding,  (* who holds one                                               *)
  found     (* history: the subsystems a request has found closed          *)

subsystems == <<pool, redis, qmgr, hub>>
process == <<main, exit, http, quit, signals, expired>>
traffic == <<req, audit, waiting, holding, found>>
vars == <<main, exit, pool, redis, qmgr, hub, http, quit, signals, expired,
          req, audit, waiting, holding, found>>

SetupStates == {"newLogger", "newConfig", "database", "redis", "realtime", "queue",
                "consume", "router", "start"}
ShutdownStates == {"closeQueue", "closeRedis", "closePool", "poolClosing"}
InFlight == {"running", "lookQueued", "looking", "hashing", "queued", "querying", "queried",
             "emitted", "replying"}

Tenants == Requests \X {"request", "audit"}
Serving(r) == <<r, "request">>
Auditing(r) == <<r, "audit">>

TypeOK ==
  /\ main \in SetupStates \cup {"waiting", "draining"} \cup ShutdownStates \cup {"ended"}
  /\ exit \in {"none", "0", "1", "panic", "killed"}
  /\ pool \in {"nil", "open", "closed"}
  /\ redis \in {"nil", "open", "closed"}
  /\ qmgr \in {"nil", "open", "closed"}
  /\ hub \in {"nil", "open"}
  /\ http \in {"off", "starting", "listening", "failed", "reported", "closed"}
  /\ quit \in 0..1
  /\ signals \in 0..MaxSignals
  /\ expired \in BOOLEAN
  /\ req \in [Requests -> {"new", "refused", "upgraded", "answered", "cut"} \cup InFlight]
  /\ audit \in [Requests -> {"none", "asking", "queued", "querying", "over", "lost"}]
  /\ waiting \in Seq(Tenants)
  /\ holding \in SUBSET Tenants /\ IsFiniteSet(holding)
  /\ Cardinality(holding) <= PoolSize
  /\ found \in [Requests -> SUBSET {"database", "redis", "queue"}]

Init ==
  /\ main = "newLogger"
  /\ exit = "none"
  /\ pool = "nil" /\ redis = "nil" /\ qmgr = "nil" /\ hub = "nil"
  /\ http = "off"
  /\ quit = 0
  /\ signals = 0
  /\ expired = FALSE
  /\ req = [r \in Requests |-> "new"]
  /\ audit = [r \in Requests |-> "none"]
  /\ waiting = <<>>
  /\ holding = {}
  /\ found = [r \in Requests |-> {}]

(* The process ends, and every goroutine with it.                          *)
Exit(how) ==
  /\ main' = "ended"
  /\ exit' = how
  /\ req' = [r \in Requests |-> IF req[r] \in InFlight THEN "cut" ELSE req[r]]
  /\ audit' = [r \in Requests |->
                IF audit[r] \in {"asking", "queued", "querying"} THEN "lost" ELSE audit[r]]
  /\ waiting' = <<>>
  /\ holding' = {}
  /\ UNCHANGED <<subsystems, http, quit, signals, expired, found>>

Main(from, to) ==
  /\ main = from
  /\ main' = to
  /\ UNCHANGED <<exit, quit, signals, traffic>>

-----------------------------------------------------------------------------
(* main and Setup.  What fails makes main exit; nothing is closed before.  *)
(* Whether config.yaml enables a subsystem is chosen where it is asked.    *)

NewLogger ==
  /\ Main("newLogger", "newConfig")
  /\ UNCHANGED <<subsystems, http, expired>>

(* A nil *Logger.  The check for it comes after Warn has used it, and the  *)
(* check uses it too.                                                      *)
NilLogger ==
  /\ main = "newLogger"
  /\ Exit("panic")

NewConfig ==
  /\ Main("newConfig", "database")
  /\ UNCHANGED <<subsystems, http, expired>>

SetupFails ==
  /\ main \in {"newConfig", "database", "redis", "queue", "consume"}
  /\ Exit("1")

SetupDatabase ==
  /\ Main("database", "redis")
  /\ pool' = "open"
  /\ UNCHANGED <<redis, qmgr, hub, http, expired>>

SetupRedis ==
  /\ Main("redis", "realtime")
  /\ redis' \in {"nil", "open"}
  /\ UNCHANGED <<pool, qmgr, hub, http, expired>>

SetupRealtime ==
  /\ Main("realtime", "queue")
  /\ hub' \in {"nil", "open"}
  /\ UNCHANGED <<pool, redis, qmgr, http, expired>>

SetupQueue ==
  /\ \/ Main("queue", "router") /\ qmgr' \in {"nil", "open"}
     \/ Main("queue", "consume") /\ qmgr' = "open"
  /\ UNCHANGED <<pool, redis, hub, http, expired>>

ConsumeWelcomeEmails ==
  /\ Main("consume", "router")
  /\ UNCHANGED <<subsystems, http, expired>>

(* setupEventHandlers, setupRouter and setupDocs cannot fail.              *)
SetupRouter ==
  /\ Main("router", "start")
  /\ UNCHANGED <<subsystems, http, expired>>

-----------------------------------------------------------------------------
(* Start.                                                                  *)

Start ==
  /\ Main("start", "waiting")
  /\ http' = "starting"
  /\ UNCHANGED <<subsystems, expired>>

Listens ==
  /\ main # "ended"
  /\ http = "starting"
  /\ http' = "listening"
  /\ UNCHANGED <<subsystems, main, exit, quit, signals, expired, traffic>>

(* The port is taken, or Accept fails for good.                            *)
ListenFails ==
  /\ main # "ended"
  /\ http \in {"starting", "listening"}
  /\ http' = "failed"
  /\ UNCHANGED <<subsystems, main, exit, quit, signals, expired, traffic>>

ReportsNothing ==
  /\ main # "ended"
  /\ http = "failed"
  /\ http' = "reported"
  /\ UNCHANGED <<subsystems, main, exit, quit, signals, expired, traffic>>

(* quit <- syscall.SIGTERM waits while a signal is in the channel.         *)
ReportFailure ==
  /\ main # "ended"
  /\ http = "failed"
  /\ quit = 0
  /\ quit' = 1
  /\ http' = "reported"
  /\ UNCHANGED <<subsystems, main, exit, signals, expired, traffic>>

(* SIGINT or SIGTERM.  Before signal.Notify it kills the process; after    *)
(* it, it is dropped when the channel is full.                             *)
Signal ==
  /\ main # "ended"
  /\ signals < MaxSignals
  /\ IF main \in SetupStates
       THEN /\ main' = "ended"
            /\ exit' = "killed"
            /\ UNCHANGED quit
       ELSE /\ quit' = 1
            /\ UNCHANGED <<main, exit>>
  /\ signals' = signals + 1
  /\ UNCHANGED <<subsystems, http, expired, traffic>>

-----------------------------------------------------------------------------
(* Shutdown.                                                               *)

NothingInFlight == \A r \in Requests : req[r] \notin InFlight

ShutdownKeepsListening ==
  /\ main = "waiting"
  /\ quit = 1
  /\ main' = "draining"
  /\ quit' = 0
  /\ UNCHANGED <<exit, http, signals, subsystems, expired, traffic>>

(* httpSrv.Shutdown stops listening at once, also when the goroutine has   *)
(* not come to it yet: ListenAndServe then returns ErrServerClosed.        *)
ShutdownStarts ==
  /\ main = "waiting"
  /\ quit = 1
  /\ main' = "draining"
  /\ quit' = 0
  /\ http' = IF http \in {"starting", "listening"} THEN "closed" ELSE http
  /\ UNCHANGED <<exit, signals, subsystems, expired, traffic>>

ClosesWithoutDraining ==
  /\ Main("draining", "closeQueue")
  /\ UNCHANGED <<subsystems, http, expired>>

(* It returns once no request is in flight.  Connections that have become  *)
(* WebSockets are not net/http's any more, and nobody tells the hub.       *)
Drained ==
  /\ NothingInFlight
  /\ Main("draining", "closeQueue")
  /\ UNCHANGED <<subsystems, http, expired>>

(* Its 30 seconds pass; requests in flight run on.                         *)
DrainTimesOut ==
  /\ Main("draining", "closeQueue")
  /\ expired' = TRUE
  /\ UNCHANGED <<subsystems, http>>

Closed(subsystem) == IF subsystem = "nil" THEN "nil" ELSE "closed"

CloseQueue ==
  /\ Main("closeQueue", "closeRedis")
  /\ qmgr' = Closed(qmgr)
  /\ UNCHANGED <<pool, redis, hub, http, expired>>

CloseRedis ==
  /\ Main("closeRedis", "closePool")
  /\ redis' = Closed(redis)
  /\ UNCHANGED <<pool, qmgr, hub, http, expired>>

(* pgxpool's Close refuses new acquires at once, and returns when the last *)
(* connection has been released.                                           *)
ClosePool ==
  /\ Main("closePool", "poolClosing")
  /\ pool' = Closed(pool)
  /\ UNCHANGED <<redis, qmgr, hub, http, expired>>

MainReturns ==
  /\ main = "poolClosing"
  /\ holding = {}
  /\ Exit("0")

-----------------------------------------------------------------------------
(* The connection pool.  It serves in the order of asking.                 *)

Ask(t) == waiting' = Append(waiting, t)

FirstWhateverIsHeld(t) == waiting # <<>> /\ Head(waiting) = t

FirstIs(t) ==
  /\ waiting # <<>>
  /\ Head(waiting) = t
  /\ Cardinality(holding) < PoolSize

Granted(t) ==
  /\ FirstIs(t)
  /\ pool = "open"
  /\ waiting' = Tail(waiting)
  /\ holding' = holding \cup {t}

PoolIsClosed(t) ==
  /\ FirstIs(t)
  /\ pool = "closed"
  /\ waiting' = Tail(waiting)
  /\ UNCHANGED holding

Release(t) == holding' = holding \ {t}

(* The context of whoever waits is done.                                   *)
StopsWaiting(t) ==
  \E i \in DOMAIN waiting :
    /\ waiting[i] = t
    /\ waiting' = RemoveAt(waiting, i)

-----------------------------------------------------------------------------
(* Requests.                                                               *)

At(r, from, to) ==
  /\ main # "ended"
  /\ req[r] = from
  /\ req' = [req EXCEPT ![r] = to]

Accept(r) ==
  /\ http = "listening"
  /\ At(r, "new", "running")
  /\ UNCHANGED <<process, subsystems, audit, waiting, holding, found>>

Refuse(r) ==
  /\ http \in {"failed", "reported", "closed"}
  /\ At(r, "new", "refused")
  /\ UNCHANGED <<process, subsystems, audit, waiting, holding, found>>

Upgrade(r) ==
  /\ hub = "open"
  /\ At(r, "running", "upgraded")
  /\ UNCHANGED <<process, subsystems, audit, waiting, holding, found>>

UpgradeFails(r) ==
  /\ At(r, "running", "replying")
  /\ UNCHANGED <<process, subsystems, audit, waiting, holding, found>>

(* GetUserByEmail of a registration.                                       *)
Look(r) ==
  /\ r \in Registers
  /\ At(r, "running", "lookQueued")
  /\ Ask(Serving(r))
  /\ UNCHANGED <<process, subsystems, audit, holding, found>>

LookStarts(r) ==
  /\ At(r, "lookQueued", "looking")
  /\ Granted(Serving(r))
  /\ UNCHANGED <<process, subsystems, audit, found>>

(* Any error is taken for an email that is free.                           *)
LookRefused(r) ==
  /\ At(r, "lookQueued", "hashing")
  /\ PoolIsClosed(Serving(r))
  /\ found' = [found EXCEPT ![r] = @ \cup {"database"}]
  /\ UNCHANGED <<process, subsystems, audit>>

KeepsConnection(r) ==
  /\ At(r, "looking", "hashing")
  /\ UNCHANGED <<process, subsystems, audit, waiting, holding, found>>

LookReturns(r) ==
  /\ At(r, "looking", "hashing")
  /\ Release(Serving(r))
  /\ UNCHANGED <<process, subsystems, audit, waiting, found>>

EmailTaken(r) ==
  /\ At(r, "looking", "replying")
  /\ Release(Serving(r))
  /\ UNCHANGED <<process, subsystems, audit, waiting, found>>

(* HashPassword fails, or the request's context is done by now.            *)
HashPasswordFails(r) ==
  /\ At(r, "hashing", "replying")
  /\ UNCHANGED <<process, subsystems, audit, waiting, holding, found>>

(* CreateUser of a registration, Ping of a health check.                   *)
Query(r) ==
  /\ At(r, IF r \in Registers THEN "hashing" ELSE "running", "queued")
  /\ Ask(Serving(r))
  /\ UNCHANGED <<process, subsystems, audit, holding, found>>

QueryStarts(r) ==
  /\ At(r, "queued", "querying")
  /\ Granted(Serving(r))
  /\ UNCHANGED <<process, subsystems, audit, found>>

(* A registration answers 500; a health check reports it and goes on.      *)
QueryRefused(r) ==
  /\ At(r, "queued", IF r \in Checks THEN "queried" ELSE "replying")
  /\ PoolIsClosed(Serving(r))
  /\ found' = [found EXCEPT ![r] = @ \cup {"database"}]
  /\ UNCHANGED <<process, subsystems, audit>>

QueryReturns(r) ==
  /\ At(r, "querying", "queried")
  /\ Release(Serving(r))
  /\ UNCHANGED <<process, subsystems, audit, waiting, found>>

(* CreateUser fails: a registration answers 500 without an event.          *)
QueryFails(r) ==
  /\ r \in Registers
  /\ At(r, "querying", "replying")
  /\ Release(Serving(r))
  /\ UNCHANGED <<process, subsystems, audit, waiting, found>>

(* The browser goes while its registration waits for a connection.  This   *)
(* query fails, and so would the next; a health check waits regardless.    *)
BrowserGoes(r) ==
  /\ r \in Registers
  /\ At(r, "lookQueued", "replying") \/ At(r, "queued", "replying")
  /\ StopsWaiting(Serving(r))
  /\ UNCHANGED <<process, subsystems, audit, holding, found>>

Finds(r, name, subsystem) ==
  found' = [found EXCEPT ![r] = IF subsystem = "closed" THEN @ \cup {name} ELSE @]

(* EmitUserRegistered: the queue's listener publishes.                     *)
Publish(r) ==
  /\ r \in Registers
  /\ At(r, "queried", "emitted")
  /\ Finds(r, "queue", qmgr)
  /\ UNCHANGED <<process, subsystems, audit, waiting, holding>>

(* EmitAuditLog: its listener starts a goroutine and returns.              *)
EmitAuditLog(r) ==
  /\ At(r, "emitted", "replying")
  /\ audit' = [audit EXCEPT ![r] = "asking"]
  /\ UNCHANGED <<process, subsystems, waiting, holding, found>>

PingRedis(r) ==
  /\ r \in Checks
  /\ At(r, "queried", "replying")
  /\ Finds(r, "redis", redis)
  /\ UNCHANGED <<process, subsystems, audit, waiting, holding>>

Reply(r) ==
  /\ At(r, "replying", "answered")
  /\ UNCHANGED <<process, subsystems, audit, waiting, holding, found>>

-----------------------------------------------------------------------------
(* The audit goroutine of a request.                                       *)

AuditAt(r, from, to) ==
  /\ main # "ended"
  /\ audit[r] = from
  /\ audit' = [audit EXCEPT ![r] = to]
  /\ UNCHANGED <<process, subsystems, req, found>>

AuditAsks(r) ==
  /\ AuditAt(r, "asking", "queued")
  /\ Ask(Auditing(r))
  /\ UNCHANGED holding

AuditStarts(r) ==
  /\ AuditAt(r, "queued", "querying")
  /\ Granted(Auditing(r))

AuditRefused(r) ==
  /\ AuditAt(r, "queued", "over")
  /\ PoolIsClosed(Auditing(r))

AuditReturns(r) ==
  /\ AuditAt(r, "querying", "over")
  /\ Release(Auditing(r))
  /\ UNCHANGED waiting

(* Its five seconds pass before it is given a connection.                  *)
AuditTimesOut(r) ==
  /\ AuditAt(r, "queued", "over")
  /\ StopsWaiting(Auditing(r))
  /\ UNCHANGED holding

-----------------------------------------------------------------------------
MainStep ==
  \/ NewLogger
  \/ NilLogger
  \/ NewConfig
  \/ SetupFails
  \/ SetupDatabase
  \/ SetupRedis
  \/ SetupRealtime
  \/ SetupQueue
  \/ ConsumeWelcomeEmails
  \/ SetupRouter
  \/ Start
  \/ ShutdownStarts
  \/ Drained
  \/ DrainTimesOut
  \/ CloseQueue
  \/ CloseRedis
  \/ ClosePool
  \/ MainReturns

Serves(r) ==
  \/ r \in Sockets /\ (Upgrade(r) \/ UpgradeFails(r))
  \/ Look(r)
  \/ LookStarts(r)
  \/ LookRefused(r)
  \/ LookReturns(r)
  \/ EmailTaken(r)
  \/ HashPasswordFails(r)
  \/ r \notin Sockets /\ Query(r)
  \/ QueryStarts(r)
  \/ QueryRefused(r)
  \/ QueryReturns(r)
  \/ QueryFails(r)
  \/ Publish(r)
  \/ EmitAuditLog(r)
  \/ PingRedis(r)
  \/ Reply(r)

Audits(r) ==
  \/ AuditAsks(r)
  \/ AuditStarts(r)
  \/ AuditRefused(r)
  \/ AuditReturns(r)
  \/ AuditTimesOut(r)

Ended == main = "ended" /\ UNCHANGED vars

Next ==
  \/ MainStep
  \/ Listens
  \/ ListenFails
  \/ ReportFailure
  \/ Signal
  \/ \E r \in Requests : Accept(r) \/ Refuse(r) \/ BrowserGoes(r) \/ Serves(r) \/ Audits(r)
  \/ Ended

Spec == Init /\ [][Next]_vars

(* A goroutine that can run is run; a query returns, and so does a drain,  *)
(* after 30 seconds at the latest.  Nobody has to send requests or signals *)
(* or to go away, and the port need not be taken.                          *)
FairSpec ==
  /\ Spec
  /\ WF_vars(MainStep)
  /\ WF_vars(Listens)
  /\ WF_vars(ReportFailure)
  /\ \A r \in Requests : WF_vars(Serves(r))
  /\ \A r \in Registers : WF_vars(Audits(r))

-----------------------------------------------------------------------------
(* What is true of the process at each place main can be.                  *)
BeforeStart ==
  /\ main \in SetupStates => http = "off"
  /\ http = "off" => main \in SetupStates \cup {"ended"} /\ \A r \in Requests : req[r] = "new"

ClosedToRequests ==
  main \in ShutdownStates \cup {"draining"} =>
    http \in {"closed", "failed", "reported"}

DrainedBeforeClosing ==
  main \in ShutdownStates => expired \/ NothingInFlight

(* Reverse setup order (server.go:3, :373), for the three that are closed. *)
ReverseOrder ==
  /\ main \notin {"newLogger", "newConfig", "database", "poolClosing", "ended"} => pool = "open"
  /\ qmgr = "closed" => main \in {"closeRedis", "closePool", "poolClosing", "ended"}
  /\ redis = "closed" => main \in {"closePool", "poolClosing", "ended"}
  /\ pool = "closed" => main \in {"poolClosing", "ended"}
  /\ main \in {"closeRedis", "closePool", "poolClosing"} \/ exit = "0" => qmgr # "open"
  /\ main \in {"closePool", "poolClosing"} \/ exit = "0" => redis # "open"
  /\ main = "poolClosing" \/ exit = "0" => pool = "closed"

EndsOnce == exit # "none" <=> main = "ended"

(* A connection is with somebody who queries, never with a registration    *)
(* between its two queries: a request, or its audit goroutine, which it    *)
(* starts last.                                                            *)
HoldersQuery ==
  \A r \in Requests :
    /\ Serving(r) \in holding <=> req[r] \in {"looking", "querying"}
    /\ Auditing(r) \in holding <=> audit[r] = "querying"
    /\ req[r] \in {"new"} \cup InFlight /\ audit[r] # "none" => req[r] = "replying"

(* Shutdown is graceful: no request finds the queue, the cache or the      *)
(* database closed under it, and none is cut off by the end of the         *)
(* process, unless 30 seconds were not enough for it (server.go:374-406).  *)
GracefulShutdown ==
  \A r \in Requests : found[r] # {} \/ req[r] = "cut" => expired

IInv ==
  /\ BeforeStart
  /\ ClosedToRequests
  /\ DrainedBeforeClosing
  /\ ReverseOrder
  /\ EndsOnce
  /\ HoldersQuery
  /\ GracefulShutdown

(* The process as a house with a stack of subsystems; a connection that   *)
(* has become a WebSocket has left it.                                     *)
Phase ==
  IF main \in SetupStates THEN "setup"
  ELSE IF main = "waiting" THEN "open"
  ELSE IF main = "draining" THEN "draining"
  ELSE IF main \in ShutdownStates THEN "closing" ELSE "over"

Ever(subsystem, name) == IF subsystem = "nil" THEN {} ELSE {name}
Now(subsystem, name) == IF subsystem = "open" THEN <<name>> ELSE <<>>

Built == Ever(pool, "database") \cup Ever(redis, "redis") \cup Ever(qmgr, "queue")
Stack == Now(pool, "database") \o Now(redis, "redis") \o Now(qmgr, "queue")

GuestOf(state) ==
  CASE state = "new" -> "outside"
    [] state \in InFlight -> "inside"
    [] state \in {"answered", "upgraded"} -> "left"
    [] state = "refused" -> "turnedAway"
    [] state = "cut" -> "thrownOut"

Guest == [r \in Requests |-> GuestOf(req[r])]

House == INSTANCE Service WITH
           Guests <- Requests, Names <- {"database", "redis", "queue"}, Base <- "database",
           phase <- Phase, built <- Built, stack <- Stack, late <- expired,
           guest <- Guest, missed <- found

(* Setup and Shutdown work on a stack of database, cache and queue,        *)
(* whatever fails in between and whenever the signal comes: requests are   *)
(* served only on top of all of the three that were set up, these are      *)
(* closed last first and only once no request is in flight or the 30       *)
(* seconds are over, status 0 says that all three are closed, and a        *)
(* request served too late misses only what is closed (server.go:97-181,   *)
(* :355-410).  The hub is not in the stack: Setup makes it too, but        *)
(* Shutdown, which "tears down every subsystem" (server.go:373, :3), does  *)
(* nothing to it.                                                          *)
ImplementsService == House!Spec

(* Once main waits for it, SIGINT, SIGTERM or the end of the HTTP server   *)
(* ends the process, however requests and audit goroutines fight over the  *)
(* pool: Close waits for connections that are held, but not for more.      *)
SignalEndsProcess ==
  main = "waiting" /\ (quit = 1 \/ http \in {"failed", "reported"}) ~> main = "ended"

(* Whoever waits for a connection gets an answer, though a registration    *)
(* has to wait twice, behind others and their audit goroutines, and nobody *)
(* waits with a deadline but those: what the first query took is given     *)
(* back before the second asks, also when it has failed (auth.service.go:  *)
(* 33, :43; db.go:20).                                                     *)
RequestsEnd ==
  \A r \in Requests : req[r] \in InFlight ~> req[r] \notin InFlight
=============================================================================
