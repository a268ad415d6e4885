--------------------------- MODULE LifecycleProofs ---------------------------
(***************************************************************************)
(* What TLAPS proves of Lifecycle, for every set of requests and every     *)
(* size of the connection pool.                                            *)
(***************************************************************************)
EXTENDS Lifecycle, TLAPS, SequenceTheorems, FiniteSetTheorems

USE RequestsAssumption, PoolSizeAssumption, SignalsAssumption

(* Requests and audit goroutines are different tenants of the pool.        *)
LEMMA TenantsDiffer ==
  /\ \A r \in Requests : Serving(r) \in Tenants /\ Auditing(r) \in Tenants
  /\ \A q, r \in Requests : Serving(q) # Auditing(r)
  /\ \A q, r \in Requests : q # r => Serving(q) # Serving(r) /\ Auditing(q) # Auditing(r)
BY DEF Tenants, Serving, Auditing

-----------------------------------------------------------------------------
(* The pool: whoever waits is a tenant, and no more than PoolSize hold.    *)
PoolTyped ==
  /\ waiting \in Seq(Tenants)
  /\ holding \in SUBSET Tenants /\ IsFiniteSet(holding)
  /\ Cardinality(holding) <= PoolSize

LEMMA AskTyped ==
  ASSUME PoolTyped, NEW t \in Tenants, Ask(t), UNCHANGED holding
  PROVE  PoolTyped'
<1>1. Append(waiting, t) \in Seq(Tenants)
  BY AppendProperties DEF PoolTyped
<1> QED BY <1>1 DEF PoolTyped, Ask

LEMMA GrantTyped ==
  ASSUME PoolTyped, NEW t \in Tenants, Granted(t)
  PROVE  PoolTyped'
<1>1. /\ waiting # <<>> /\ Cardinality(holding) < PoolSize
      /\ waiting' = Tail(waiting)
      /\ holding' = holding \cup {t}
  BY DEF Granted, FirstIs
<1>2. waiting' \in Seq(Tenants)
  BY <1>1, HeadTailProperties DEF PoolTyped
<1>3. /\ IsFiniteSet(holding')
      /\ Cardinality(holding') = IF t \in holding THEN Cardinality(holding)
                                                  ELSE Cardinality(holding) + 1
  BY <1>1, FS_AddElement DEF PoolTyped
<1>4. Cardinality(holding) \in Nat
  BY FS_CardinalityType DEF PoolTyped
<1>5. Cardinality(holding') <= PoolSize
  BY <1>1, <1>3, <1>4
<1> QED BY <1>1, <1>2, <1>3, <1>5 DEF PoolTyped

LEMMA RefusalTyped ==
  ASSUME PoolTyped, NEW t \in Tenants, PoolIsClosed(t)
  PROVE  PoolTyped'
<1>1. Tail(waiting) \in Seq(Tenants)
  BY HeadTailProperties DEF PoolTyped, PoolIsClosed, FirstIs
<1> QED BY <1>1 DEF PoolTyped, PoolIsClosed

LEMMA ReleaseTyped ==
  ASSUME PoolTyped, NEW t \in Tenants, Release(t), UNCHANGED waiting
  PROVE  PoolTyped'
<1>1. /\ IsFiniteSet(holding')
      /\ Cardinality(holding') <= Cardinality(holding)
  BY FS_Subset, holding' \subseteq holding DEF PoolTyped, Release
<1>2. Cardinality(holding) \in Nat /\ Cardinality(holding') \in Nat
  BY <1>1, FS_CardinalityType DEF PoolTyped
<1>3. Cardinality(holding') <= PoolSize
  BY <1>1, <1>2 DEF PoolTyped
<1> QED BY <1>1, <1>3 DEF PoolTyped, Release

LEMMA LeaveTyped ==
  ASSUME PoolTyped, NEW i \in DOMAIN waiting, waiting' = RemoveAt(waiting, i),
         UNCHANGED holding
  PROVE  PoolTyped'
<1>1. waiting \in Seq(Tenants) /\ i \in 1..Len(waiting) /\ Len(waiting) \in Nat
  BY DEF PoolTyped
<1>2. /\ SubSeq(waiting, 1, i - 1) \in Seq(Tenants)
      /\ SubSeq(waiting, i + 1, Len(waiting)) \in Seq(Tenants)
  BY <1>1, SubSeqProperties
<1>3. RemoveAt(waiting, i) \in Seq(Tenants)
  BY <1>2, ConcatProperties DEF RemoveAt
<1> QED BY <1>3 DEF PoolTyped

LEMMA NobodyTyped ==
  ASSUME waiting' = <<>>, holding' = {}
  PROVE  PoolTyped'
BY EmptySeq, FS_EmptySet DEF PoolTyped

-----------------------------------------------------------------------------
(* The rest of the types.                                                  *)
StatesTyped ==
  /\ main \in SetupStates \cup {"waiting", "draining"} \cup ShutdownStates \cup {"ended"}
  /\ exit \in {"none", "0", "1", "panic", "killed"}
  /\ pool \in {"nil", "open", "closed"}
  /\ redis \in {"nil", "open", "closed"}
  /\ qmgr \in {"nil", "open", "closed"}
  /\ hub \in {"nil", "open"}
  /\ http \in {"off", "starting", "listening", "failed", "reported", "closed"}
  /\ quit \in 0..1
  /\ signals \in 0..MaxSignals
  /\ expired \in BOOLEAN
  /\ req \in [Requests -> {"new", "refused", "upgraded", "answered", "cut"} \cup InFlight]
  /\ audit \in [Requests -> {"none", "asking", "queued", "querying", "over", "lost"}]
  /\ found \in [Requests -> SUBSET {"database", "redis", "queue"}]

LEMMA TypeParts == TypeOK <=> StatesTyped /\ PoolTyped
BY DEF TypeOK, StatesTyped, PoolTyped

LEMMA TypePartsNext == TypeOK' <=> StatesTyped' /\ PoolTyped'
BY DEF TypeOK, StatesTyped, PoolTyped

LEMMA TypeInit == Init => TypeOK
<1> SUFFICES ASSUME Init PROVE TypeOK
  OBVIOUS
<1>1. PoolTyped
  BY EmptySeq, FS_EmptySet DEF Init, PoolTyped
<1>2. /\ req \in [Requests -> {"new", "refused", "upgraded", "answered", "cut"} \cup InFlight]
      /\ audit \in [Requests -> {"none", "asking", "queued", "querying", "over", "lost"}]
      /\ found \in [Requests -> SUBSET {"database", "redis", "queue"}]
  BY DEF Init
<1>3. signals \in 0..MaxSignals /\ quit \in 0..1
  BY DEF Init
<1>4. StatesTyped
  BY <1>2, <1>3 DEF Init, StatesTyped, SetupStates
<1> QED BY <1>1, <1>4, TypeParts

(* Main's own steps, signals and the HTTP server leave the pool alone,     *)
(* unless they end the process.                                            *)
LEMMA ExitTyped ==
  ASSUME TypeOK, NEW how \in {"0", "1", "panic"}, Exit(how)
  PROVE  TypeOK'
<1>1. PoolTyped'
  BY NobodyTyped DEF Exit
<1>2. /\ req' \in [Requests -> {"new", "refused", "upgraded", "answered", "cut"} \cup InFlight]
      /\ audit' \in [Requests -> {"none", "asking", "queued", "querying", "over", "lost"}]
  BY TypeParts DEF Exit, StatesTyped
<1>3. StatesTyped'
  BY <1>2, TypeParts DEF Exit, StatesTyped, subsystems
<1> QED BY <1>1, <1>3, TypePartsNext

LEMMA MainTyped == TypeOK /\ MainStep => TypeOK'
<1> SUFFICES ASSUME TypeOK, MainStep PROVE TypeOK'
  OBVIOUS
<1>0. StatesTyped /\ PoolTyped
  BY TypeParts
<1> USE DEF Main, subsystems, traffic, SetupStates, ShutdownStates
<1>1. CASE NilLogger BY <1>1, ExitTyped DEF NilLogger
<1>2. CASE SetupFails BY <1>2, ExitTyped DEF SetupFails
<1>3. CASE MainReturns BY <1>3, ExitTyped DEF MainReturns
<1>4. CASE NewLogger \/ NewConfig \/ ConsumeWelcomeEmails \/ SetupRouter \/ Start
  <2>1. StatesTyped'
    BY <1>0, <1>4 DEF NewLogger, NewConfig, ConsumeWelcomeEmails, SetupRouter, Start, StatesTyped
  <2>2. PoolTyped'
    BY <1>0, <1>4 DEF NewLogger, NewConfig, ConsumeWelcomeEmails, SetupRouter, Start, PoolTyped
  <2> QED BY <2>1, <2>2, TypePartsNext
<1>5. CASE SetupDatabase \/ SetupRedis \/ SetupRealtime \/ SetupQueue
  <2>1. StatesTyped'
    BY <1>0, <1>5 DEF SetupDatabase, SetupRedis, SetupRealtime, SetupQueue, StatesTyped
  <2>2. PoolTyped'
    BY <1>0, <1>5 DEF SetupDatabase, SetupRedis, SetupRealtime, SetupQueue, PoolTyped
  <2> QED BY <2>1, <2>2, TypePartsNext
<1>6. CASE ShutdownStarts \/ Drained \/ DrainTimesOut
  <2>1. StatesTyped'
    <3>1. CASE ShutdownStarts
      <4>1. http' \in {"off", "starting", "listening", "failed", "reported", "closed"}
        BY <1>0, <3>1 DEF ShutdownStarts, StatesTyped
      <4> QED BY <1>0, <3>1, <4>1 DEF ShutdownStarts, StatesTyped
    <3>2. CASE Drained BY <1>0, <3>2 DEF Drained, StatesTyped
    <3>3. CASE DrainTimesOut
      <4>1. expired' \in BOOLEAN /\ main' \in ShutdownStates
        BY <3>3 DEF DrainTimesOut
      <4> QED BY <1>0, <3>3, <4>1 DEF DrainTimesOut, StatesTyped
    <3> QED BY <1>6, <3>1, <3>2, <3>3
  <2>2. PoolTyped'
    BY <1>0, <1>6 DEF ShutdownStarts, Drained, DrainTimesOut, PoolTyped
  <2> QED BY <2>1, <2>2, TypePartsNext
<1>7. CASE CloseQueue \/ CloseRedis \/ ClosePool
  <2>1. StatesTyped'
    BY <1>0, <1>7 DEF CloseQueue, CloseRedis, ClosePool, Closed, StatesTyped
  <2>2. PoolTyped'
    BY <1>0, <1>7 DEF CloseQueue, CloseRedis, ClosePool, PoolTyped
  <2> QED BY <2>1, <2>2, TypePartsNext
<1> QED BY <1>1, <1>2, <1>3, <1>4, <1>5, <1>6, <1>7 DEF MainStep

LEMMA ProcessTyped ==
  TypeOK /\ (Listens \/ ListenFails \/ ReportFailure \/ Signal) => TypeOK'
<1> SUFFICES ASSUME TypeOK, Listens \/ ListenFails \/ ReportFailure \/ Signal PROVE TypeOK'
  OBVIOUS
<1>0. StatesTyped /\ PoolTyped
  BY TypeParts
<1>1. StatesTyped'
  BY <1>0 DEF Listens, ListenFails, ReportFailure, Signal, StatesTyped, subsystems, traffic
<1>2. PoolTyped'
  BY <1>0 DEF Listens, ListenFails, ReportFailure, Signal, PoolTyped, traffic
<1> QED BY <1>1, <1>2, TypePartsNext

(* A request's own step: where it is and what it has found stay typed.     *)
LEMMA RequestTyped ==
  ASSUME TypeOK, NEW r \in Requests, NEW from,
         NEW to \in {"refused", "upgraded", "answered"} \cup InFlight,
         At(r, from, to), UNCHANGED <<process, subsystems>>,
         audit' \in [Requests -> {"none", "asking", "queued", "querying", "over", "lost"}],
         found' \in [Requests -> SUBSET {"database", "redis", "queue"}],
         PoolTyped'
  PROVE  TypeOK'
<1>1. StatesTyped'
  BY TypeParts DEF At, StatesTyped, process, subsystems
<1> QED BY <1>1, TypePartsNext

LEMMA FindsTyped ==
  ASSUME TypeOK, NEW r \in Requests, NEW name \in {"database", "redis", "queue"},
         NEW subsystem, Finds(r, name, subsystem)
  PROVE  found' \in [Requests -> SUBSET {"database", "redis", "queue"}]
BY DEF TypeOK, Finds

LEMMA ServesTyped ==
  ASSUME TypeOK, NEW r \in Requests,
         Accept(r) \/ Refuse(r) \/ BrowserGoes(r) \/ Serves(r)
  PROVE  TypeOK'
<1>0. StatesTyped /\ PoolTyped
  BY TypeParts
<1> USE TenantsDiffer DEF InFlight
<1>1. CASE \/ Accept(r) \/ Refuse(r) \/ Upgrade(r) \/ UpgradeFails(r) \/ Reply(r)
            \/ HashPasswordFails(r)
  <2>1. PoolTyped'
    BY <1>0, <1>1
       DEF Accept, Refuse, Upgrade, UpgradeFails, Reply, HashPasswordFails, PoolTyped
  <2> QED BY <1>0, <1>1, <2>1, RequestTyped
          DEF Accept, Refuse, Upgrade, UpgradeFails, Reply, HashPasswordFails, StatesTyped
<1>2. CASE Look(r) \/ Query(r)
  <2>1. PoolTyped' BY <1>0, <1>2, AskTyped DEF Look, Query
  <2> QED BY <1>0, <1>2, <2>1, RequestTyped DEF Look, Query, StatesTyped
<1>3. CASE LookStarts(r) \/ QueryStarts(r)
  <2>1. PoolTyped' BY <1>0, <1>3, GrantTyped DEF LookStarts, QueryStarts
  <2> QED BY <1>0, <1>3, <2>1, RequestTyped DEF LookStarts, QueryStarts, StatesTyped
<1>4. CASE LookRefused(r)
  <2>1. PoolTyped' BY <1>0, <1>4, RefusalTyped DEF LookRefused
  <2>2. found' \in [Requests -> SUBSET {"database", "redis", "queue"}]
    BY <1>0, <1>4 DEF LookRefused, StatesTyped
  <2> QED BY <1>0, <1>4, <2>1, <2>2, RequestTyped DEF LookRefused, StatesTyped
<1>5. CASE BrowserGoes(r)
  <2>1. PICK i \in DOMAIN waiting : waiting' = RemoveAt(waiting, i)
    BY <1>5 DEF BrowserGoes, StopsWaiting
  <2>2. PoolTyped' BY <1>0, <1>5, <2>1, LeaveTyped DEF BrowserGoes
  <2> QED BY <1>0, <1>5, <2>2, RequestTyped DEF BrowserGoes, StatesTyped
<1>6. CASE QueryRefused(r)
  <2>1. PoolTyped' BY <1>0, <1>6, RefusalTyped DEF QueryRefused
  <2>2. found' \in [Requests -> SUBSET {"database", "redis", "queue"}]
    BY <1>0, <1>6 DEF QueryRefused, StatesTyped
  <2>3. CASE r \in Checks
    BY <1>0, <1>6, <2>1, <2>2, <2>3, RequestTyped DEF QueryRefused, StatesTyped
  <2>4. CASE r \notin Checks
    BY <1>0, <1>6, <2>1, <2>2, <2>4, RequestTyped DEF QueryRefused, StatesTyped
  <2> QED BY <2>3, <2>4
<1>7. CASE LookReturns(r) \/ EmailTaken(r) \/ QueryReturns(r) \/ QueryFails(r)
  <2>1. PoolTyped'
    BY <1>0, <1>7, ReleaseTyped DEF LookReturns, EmailTaken, QueryReturns, QueryFails
  <2> QED BY <1>0, <1>7, <2>1, RequestTyped
          DEF LookReturns, EmailTaken, QueryReturns, QueryFails, StatesTyped
<1>8. CASE Publish(r) \/ PingRedis(r)
  <2>1. PoolTyped' BY <1>0, <1>8 DEF Publish, PingRedis, PoolTyped
  <2>2. found' \in [Requests -> SUBSET {"database", "redis", "queue"}]
    BY <1>8, FindsTyped DEF Publish, PingRedis
  <2> QED BY <1>0, <1>8, <2>1, <2>2, RequestTyped DEF Publish, PingRedis, StatesTyped
<1>9. CASE EmitAuditLog(r)
  <2>1. PoolTyped' BY <1>0, <1>9 DEF EmitAuditLog, PoolTyped
  <2> QED BY <1>0, <1>9, <2>1, RequestTyped DEF EmitAuditLog, StatesTyped
<1> QED BY <1>1, <1>2, <1>3, <1>4, <1>5, <1>6, <1>7, <1>8, <1>9 DEF Serves

LEMMA AuditsTyped ==
  ASSUME TypeOK, NEW r \in Requests, Audits(r)
  PROVE  TypeOK'
<1>0. StatesTyped /\ PoolTyped
  BY TypeParts
<1>1. PoolTyped'
  <2> USE <1>0, TenantsDiffer
  <2>1. CASE AuditAsks(r) BY <2>1, AskTyped DEF AuditAsks
  <2>2. CASE AuditStarts(r) BY <2>2, GrantTyped DEF AuditStarts
  <2>3. CASE AuditRefused(r) BY <2>3, RefusalTyped DEF AuditRefused
  <2>4. CASE AuditReturns(r) BY <2>4, ReleaseTyped DEF AuditReturns
  <2>5. CASE AuditTimesOut(r)
    <3>1. PICK i \in DOMAIN waiting : waiting' = RemoveAt(waiting, i)
      BY <2>5 DEF AuditTimesOut, StopsWaiting
    <3> QED BY <2>5, <3>1, LeaveTyped DEF AuditTimesOut
  <2> QED BY <1>0, <2>1, <2>2, <2>3, <2>4, <2>5 DEF Audits
<1>2. StatesTyped'
  <2>1. PICK from \in {"asking", "queued", "querying"}, to \in {"queued", "querying", "over"} :
          AuditAt(r, from, to)
    BY DEF Audits, AuditAsks, AuditStarts, AuditRefused, AuditReturns, AuditTimesOut
  <2> QED BY <1>0, <2>1 DEF AuditAt, StatesTyped, process, subsystems
<1> QED BY <1>1, <1>2, TypePartsNext

LEMMA TypeStep == TypeOK /\ [Next]_vars => TypeOK'
<1> SUFFICES ASSUME TypeOK, [Next]_vars PROVE TypeOK'
  OBVIOUS
<1>1. CASE UNCHANGED vars
  BY <1>1 DEF vars, TypeOK
<1> QED BY <1>1, MainTyped, ProcessTyped, ServesTyped, AuditsTyped DEF Next, Ended

(* Type correctness: in particular no more tenants than database.pool_size *)
(* ever hold a connection.                                                 *)
THEOREM TypeCorrect == Spec => []TypeOK
BY TypeInit, TypeStep, PTL DEF Spec

-----------------------------------------------------------------------------
(***************************************************************************)
(* The inductive invariant.  GracefulShutdown says nothing of why a        *)
(* request finds its subsystems open: main closes them only at places it   *)
(* reaches after draining (ReverseOrder, DrainedBeforeClosing), and no     *)
(* request begins there any more (ClosedToRequests).                       *)
(***************************************************************************)
LEMMA InvInit == Init => IInv
BY TenantsDiffer
   DEF Init, IInv, BeforeStart, ClosedToRequests, DrainedBeforeClosing, ReverseOrder, EndsOnce,
       HoldersQuery, GracefulShutdown, SetupStates, ShutdownStates

(* The process ends where nothing is in flight, or after the 30 seconds.   *)
LEMMA ExitInv ==
  ASSUME TypeOK, IInv, NEW how \in {"0", "1", "panic"}, Exit(how),
         expired \/ NothingInFlight,
         how = "0" => pool = "closed" /\ redis # "open" /\ qmgr # "open"
  PROVE  IInv'
<1> USE DEF Exit, subsystems
<1>1. BeforeStart'
  BY DEF IInv, BeforeStart, InFlight, SetupStates
<1>2. ClosedToRequests' /\ DrainedBeforeClosing' /\ EndsOnce'
  BY DEF ClosedToRequests, DrainedBeforeClosing, EndsOnce, ShutdownStates
<1>3. ReverseOrder'
  BY DEF IInv, ReverseOrder
<1>4. HoldersQuery'
  BY DEF IInv, HoldersQuery, TypeOK, InFlight
<1>5. GracefulShutdown'
  BY DEF IInv, GracefulShutdown, NothingInFlight, TypeOK
<1> QED BY <1>1, <1>2, <1>3, <1>4, <1>5 DEF IInv

LEMMA MainInv == TypeOK /\ IInv /\ MainStep => IInv'
<1> SUFFICES ASSUME TypeOK, IInv, MainStep PROVE IInv'
  OBVIOUS
<1>0. main \in SetupStates => NothingInFlight
  BY DEF IInv, BeforeStart, NothingInFlight, InFlight
<1> USE DEF Main, subsystems, traffic
<1>1. CASE NilLogger BY <1>0, <1>1, ExitInv DEF NilLogger, SetupStates
<1>2. CASE SetupFails BY <1>0, <1>2, ExitInv DEF SetupFails, SetupStates
<1>3. CASE MainReturns
  BY <1>3, ExitInv DEF MainReturns, IInv, DrainedBeforeClosing, ShutdownStates, ReverseOrder
<1> USE DEF IInv, BeforeStart, ClosedToRequests, DrainedBeforeClosing, ReverseOrder, EndsOnce,
            HoldersQuery, GracefulShutdown, SetupStates, ShutdownStates, NothingInFlight
<1>4. CASE NewLogger \/ NewConfig \/ ConsumeWelcomeEmails \/ SetupRouter \/ Start
  BY <1>4 DEF NewLogger, NewConfig, ConsumeWelcomeEmails, SetupRouter, Start
<1>5. CASE SetupDatabase BY <1>5 DEF SetupDatabase
<1>6. CASE SetupRedis BY <1>6 DEF SetupRedis
<1>7. CASE SetupRealtime BY <1>7 DEF SetupRealtime
<1>8. CASE SetupQueue BY <1>8 DEF SetupQueue
<1>9. CASE ShutdownStarts
  <2>1. http' \in {"closed", "failed", "reported"}
    BY <1>9 DEF ShutdownStarts, TypeOK
  <2> QED BY <1>9, <2>1 DEF ShutdownStarts
<1>10. CASE Drained
  <2>1. NothingInFlight' BY <1>10 DEF Drained
  <2>2. DrainedBeforeClosing' /\ GracefulShutdown' BY <1>10, <2>1 DEF Drained
  <2> QED BY <1>10, <2>2 DEF Drained
<1>11. CASE DrainTimesOut
  <2>1. DrainedBeforeClosing' /\ GracefulShutdown' BY <1>11 DEF DrainTimesOut
  <2> QED BY <1>11, <2>1 DEF DrainTimesOut
<1>12. CASE CloseQueue BY <1>12 DEF CloseQueue, Closed
<1>13. CASE CloseRedis BY <1>13 DEF CloseRedis, Closed
<1>14. CASE ClosePool BY <1>14 DEF ClosePool, Closed
<1> QED BY <1>1, <1>2, <1>3, <1>4, <1>5, <1>6, <1>7, <1>8, <1>9, <1>10, <1>11, <1>12, <1>13,
          <1>14 DEF MainStep

LEMMA ProcessInv ==
  TypeOK /\ IInv /\ (Listens \/ ListenFails \/ ReportFailure \/ Signal) => IInv'
BY DEF Listens, ListenFails, ReportFailure, Signal, subsystems, traffic,
       IInv, BeforeStart, ClosedToRequests, DrainedBeforeClosing, ReverseOrder, EndsOnce,
       HoldersQuery, GracefulShutdown, SetupStates, ShutdownStates, NothingInFlight

(* A request's step leaves the process alone.  What has to be shown of it  *)
(* is who holds a connection, and that it finds nothing closed.            *)
LEMMA RequestInv ==
  ASSUME TypeOK, IInv, NEW r \in Requests, NEW from,
         NEW to \in {"refused", "upgraded", "answered"} \cup InFlight,
         At(r, from, to), UNCHANGED <<process, subsystems>>,
         http = "listening" \/ to = "refused" \/ from \in InFlight,
         http # "off",
         HoldersQuery', found'[r] # {} => expired,
         \A q \in Requests : q # r => found'[q] = found[q]
  PROVE  IInv'
<1> USE DEF At, process, subsystems
<1>1. \A q \in Requests : req'[q] = IF q = r THEN to ELSE req[q]
  BY DEF TypeOK
<1>2. BeforeStart'
  BY DEF IInv, BeforeStart
<1>3. DrainedBeforeClosing'
  <2> SUFFICES ASSUME main \in ShutdownStates, ~expired PROVE NothingInFlight'
    BY DEF DrainedBeforeClosing
  <2>1. NothingInFlight /\ http # "listening"
    BY DEF IInv, DrainedBeforeClosing, ClosedToRequests
  <2>2. to = "refused"
    BY <2>1 DEF NothingInFlight
  <2> QED BY <1>1, <2>1, <2>2 DEF NothingInFlight, InFlight
<1>4. GracefulShutdown'
  BY <1>1 DEF IInv, GracefulShutdown, InFlight
<1>5. ClosedToRequests' /\ ReverseOrder' /\ EndsOnce'
  BY DEF IInv, ClosedToRequests, ReverseOrder, EndsOnce
<1> QED BY <1>2, <1>3, <1>4, <1>5 DEF IInv

(* Somebody in flight who finds a subsystem closed has had 30 seconds.     *)
LEMMA ClosedIsLate ==
  ASSUME TypeOK, IInv, NEW r \in Requests, req[r] \in InFlight, main # "ended",
         pool = "closed" \/ redis = "closed" \/ qmgr = "closed"
  PROVE  expired
BY DEF IInv, ReverseOrder, DrainedBeforeClosing, NothingInFlight, ShutdownStates

LEMMA ServesInv ==
  ASSUME TypeOK, IInv, NEW r \in Requests,
         Accept(r) \/ Refuse(r) \/ BrowserGoes(r) \/ Serves(r)
  PROVE  IInv'
<1> USE TenantsDiffer
<1>1. /\ found[r] # {} => expired
      /\ req[r] # "new" => http # "off"
  BY DEF IInv, GracefulShutdown, BeforeStart
<1>2. CASE Accept(r) \/ Refuse(r)
  <2>1. HoldersQuery'
    BY <1>2 DEF Accept, Refuse, At, IInv, HoldersQuery, TypeOK, InFlight
  <2> QED BY <1>1, <1>2, <2>1, RequestInv DEF Accept, Refuse, InFlight
<1>3. CASE Upgrade(r) \/ UpgradeFails(r) \/ Reply(r) \/ HashPasswordFails(r)
  <2>1. HoldersQuery'
    BY <1>3 DEF Upgrade, UpgradeFails, Reply, HashPasswordFails, At, IInv, HoldersQuery, TypeOK,
                InFlight
  <2> QED BY <1>1, <1>3, <2>1, RequestInv
          DEF Upgrade, UpgradeFails, Reply, HashPasswordFails, At, InFlight
<1>4. CASE Look(r) \/ Query(r) \/ BrowserGoes(r)
  <2>1. HoldersQuery'
    BY <1>4 DEF Look, Query, BrowserGoes, At, IInv, HoldersQuery, TypeOK, InFlight
  <2>2. PICK from \in InFlight, to \in InFlight : At(r, from, to)
    BY <1>4 DEF Look, Query, BrowserGoes, InFlight
  <2>3. UNCHANGED <<process, subsystems, found>> /\ req[r] = from
    BY <1>4, <2>2 DEF Look, Query, BrowserGoes, At
  <2> QED BY <1>1, <2>1, <2>2, <2>3, RequestInv DEF InFlight
<1>5. CASE LookStarts(r) \/ QueryStarts(r)
  <2>1. HoldersQuery'
    BY <1>5 DEF LookStarts, QueryStarts, Granted, At, IInv, HoldersQuery, TypeOK, InFlight
  <2> QED BY <1>1, <1>5, <2>1, RequestInv DEF LookStarts, QueryStarts, At, InFlight
<1>6. CASE LookReturns(r) \/ EmailTaken(r) \/ QueryReturns(r) \/ QueryFails(r)
  <2>1. HoldersQuery'
    BY <1>6 DEF LookReturns, EmailTaken, QueryReturns, QueryFails, Release, At, IInv, HoldersQuery,
                TypeOK, InFlight
  <2> QED BY <1>1, <1>6, <2>1, RequestInv
          DEF LookReturns, EmailTaken, QueryReturns, QueryFails, At, InFlight
<1>7. CASE LookRefused(r)
  <2>1. expired
    BY <1>7, ClosedIsLate DEF LookRefused, PoolIsClosed, At, InFlight
  <2>2. HoldersQuery'
    BY <1>7 DEF LookRefused, PoolIsClosed, At, IInv, HoldersQuery, TypeOK, InFlight
  <2>3. \A q \in Requests : q # r => found'[q] = found[q]
    BY <1>7 DEF LookRefused, TypeOK
  <2> QED BY <1>1, <1>7, <2>1, <2>2, <2>3, RequestInv DEF LookRefused, At, InFlight
<1>8. CASE QueryRefused(r)
  <2>1. expired
    BY <1>8, ClosedIsLate DEF QueryRefused, PoolIsClosed, At, InFlight
  <2>2. HoldersQuery'
    BY <1>8 DEF QueryRefused, PoolIsClosed, At, IInv, HoldersQuery, TypeOK, InFlight
  <2>3. \A q \in Requests : q # r => found'[q] = found[q]
    BY <1>8 DEF QueryRefused, TypeOK
  <2>4. PICK to \in {"queried", "replying"} : At(r, "queued", to)
    BY <1>8 DEF QueryRefused
  <2> QED BY <1>1, <1>8, <2>1, <2>2, <2>3, <2>4, RequestInv DEF QueryRefused, At, InFlight
<1>9. CASE Publish(r) \/ PingRedis(r)
  <2>1. HoldersQuery'
    BY <1>9 DEF Publish, PingRedis, At, IInv, HoldersQuery, TypeOK, InFlight
  <2>2. /\ found'[r] # {} => expired
        /\ \A q \in Requests : q # r => found'[q] = found[q]
    BY <1>1, <1>9, ClosedIsLate DEF Publish, PingRedis, Finds, At, InFlight, TypeOK
  <2> QED BY <1>1, <1>9, <2>1, <2>2, RequestInv DEF Publish, PingRedis, At, InFlight
<1>10. CASE EmitAuditLog(r)
  <2>1. HoldersQuery'
    BY <1>10 DEF EmitAuditLog, At, IInv, HoldersQuery, TypeOK, InFlight
  <2> QED BY <1>1, <1>10, <2>1, RequestInv DEF EmitAuditLog, At, InFlight
<1> QED BY <1>2, <1>3, <1>4, <1>5, <1>6, <1>7, <1>8, <1>9, <1>10 DEF Serves

(* An audit goroutine's step changes only whether it holds a connection.   *)
LEMMA AuditsInv ==
  ASSUME TypeOK, IInv, NEW r \in Requests, Audits(r)
  PROVE  IInv'
<1> USE TenantsDiffer
<1>1. UNCHANGED <<process, subsystems, req, found>>
  BY DEF Audits, AuditAsks, AuditStarts, AuditRefused, AuditReturns, AuditTimesOut, AuditAt
<1>2. HoldersQuery'
  <2> USE DEF AuditAt, IInv, HoldersQuery, TypeOK, InFlight
  <2>1. CASE AuditAsks(r) BY <2>1 DEF AuditAsks
  <2>2. CASE AuditStarts(r) BY <2>2 DEF AuditStarts, Granted
  <2>3. CASE AuditRefused(r) BY <2>3 DEF AuditRefused, PoolIsClosed
  <2>4. CASE AuditReturns(r) BY <2>4 DEF AuditReturns, Release
  <2>5. CASE AuditTimesOut(r) BY <2>5 DEF AuditTimesOut
  <2> QED BY <2>1, <2>2, <2>3, <2>4, <2>5 DEF Audits
<1> QED BY <1>1, <1>2
        DEF IInv, BeforeStart, ClosedToRequests, DrainedBeforeClosing, ReverseOrder, EndsOnce,
            GracefulShutdown, NothingInFlight, process, subsystems

LEMMA InvStep == TypeOK /\ IInv /\ [Next]_vars => IInv'
<1> SUFFICES ASSUME TypeOK, IInv, [Next]_vars PROVE IInv'
  OBVIOUS
<1>1. CASE UNCHANGED vars
  BY <1>1 DEF vars, IInv, BeforeStart, ClosedToRequests, DrainedBeforeClosing, ReverseOrder,
              EndsOnce, HoldersQuery, GracefulShutdown, NothingInFlight
<1> QED BY <1>1, MainInv, ProcessInv, ServesInv, AuditsInv DEF Next, Ended

(* The invariant holds in every behaviour of the process.                  *)
THEOREM Invariance == Spec => [](TypeOK /\ IInv)
BY TypeInit, TypeStep, InvInit, InvStep, PTL DEF Spec

(* Whatever requests are under way when a signal comes, and however they   *)
(* share the pool, none finds a subsystem closed and none is cut off by    *)
(* the end of the process unless Shutdown has waited its 30 seconds.       *)
THEOREM Graceful == Spec => []GracefulShutdown
<1>1. IInv => GracefulShutdown
  BY DEF IInv
<1> QED BY <1>1, Invariance, PTL

(* Queue, cache and database are closed in the reverse of the order in     *)
(* which Setup opened them, and a process that ends with status 0 has      *)
(* closed all three.                                                       *)
THEOREM InReverse == Spec => []ReverseOrder
<1>1. IInv => ReverseOrder
  BY DEF IInv
<1> QED BY <1>1, Invariance, PTL

-----------------------------------------------------------------------------
(* The stack.  What has not been asked for yet is not there.               *)
SubsystemNames == {"database", "redis", "queue"}

StackInv ==
  /\ main \in {"newLogger", "newConfig", "database"} => pool = "nil"
  /\ main \in {"newLogger", "newConfig", "database", "redis"} => redis = "nil"
  /\ main \in {"newLogger", "newConfig", "database", "redis", "realtime", "queue"} => qmgr = "nil"

LEMMA StackInvInit == Init => StackInv
  BY DEF Init, StackInv

LEMMA SubsystemsStay ==
  ASSUME NEW r \in Requests,
         Accept(r) \/ Refuse(r) \/ BrowserGoes(r) \/ Serves(r)
  PROVE  UNCHANGED <<process, subsystems>>
BY DEF Accept, Refuse, BrowserGoes, Serves, Upgrade, UpgradeFails, Look, LookStarts, LookRefused,
       LookReturns, EmailTaken, HashPasswordFails, Query, QueryStarts, QueryRefused,
       QueryReturns, QueryFails, Publish, EmitAuditLog, PingRedis, Reply

LEMMA StackInvStep == StackInv /\ [Next]_vars => StackInv'
<1> SUFFICES ASSUME StackInv, [Next]_vars PROVE StackInv'
  OBVIOUS
<1> USE DEF StackInv, subsystems
<1>1. CASE MainStep
  BY <1>1 DEF MainStep, NewLogger, NilLogger, NewConfig, SetupFails, SetupDatabase, SetupRedis,
              SetupRealtime, SetupQueue, ConsumeWelcomeEmails, SetupRouter, Start, ShutdownStarts,
              Drained, DrainTimesOut, CloseQueue, CloseRedis, ClosePool, MainReturns, Main, Exit
<1>2. CASE Listens \/ ListenFails \/ ReportFailure \/ Signal
  BY <1>2 DEF Listens, ListenFails, ReportFailure, Signal
<1>3. ASSUME NEW r \in Requests, Accept(r) \/ Refuse(r) \/ BrowserGoes(r) \/ Serves(r)
      PROVE  StackInv'
  BY <1>3, SubsystemsStay DEF process
<1>4. ASSUME NEW r \in Requests, Audits(r) PROVE StackInv'
  BY <1>4 DEF Audits, AuditAsks, AuditStarts, AuditRefused, AuditReturns, AuditTimesOut, AuditAt,
              process
<1>5. CASE Ended \/ UNCHANGED vars
  BY <1>5 DEF Ended, vars
<1> QED BY <1>1, <1>2, <1>3, <1>4, <1>5 DEF Next

LEMMA NamesAre ==
  "database" \in SubsystemNames /\ "redis" \in SubsystemNames /\ "queue" \in SubsystemNames
BY DEF SubsystemNames

LEMMA OnTop ==
  ASSUME NEW s \in Seq(SubsystemNames), NEW n \in SubsystemNames
  PROVE  /\ Append(s, n) = s \o <<n>>
         /\ s \o <<n>> # <<>>
         /\ Front(s \o <<n>>) = s
<1>1. Append(s, n) = s \o <<n>>
  BY AppendIsConcat
<1>2. /\ Append(s, n) \in Seq(SubsystemNames)
      /\ Len(Append(s, n)) = Len(s) + 1
      /\ \A i \in 1..Len(s) : Append(s, n)[i] = s[i]
      /\ Append(s, n) # <<>>
  BY AppendProperties
<1>3. Len(s) \in Nat /\ (Len(s) + 1) - 1 = Len(s)
  BY LenProperties
<1>4. Front(Append(s, n)) = SubSeq(Append(s, n), 1, Len(s))
  BY <1>2, <1>3 DEF Front
<1>5. SubSeq(Append(s, n), 1, Len(s)) = s
  BY <1>2, <1>3, SubSeqProperties, SeqEqual
<1> QED BY <1>1, <1>2, <1>4, <1>5

(* The stack under a state of each subsystem.                              *)
Lower(p, r) == Now(p, "database") \o Now(r, "redis")
Pile(p, r, q) == Lower(p, r) \o Now(q, "queue")

LEMMA StackIs == Stack = Pile(pool, redis, qmgr) /\ Stack' = Pile(pool', redis', qmgr')
BY DEF Stack, Pile, Lower

LEMMA PileIs ==
  ASSUME NEW p, NEW r, NEW q
  PROVE  /\ Now(p, "database") \in Seq(SubsystemNames) /\ Lower(p, r) \in Seq(SubsystemNames)
         /\ Pile(p, r, q) = IF q = "open" THEN Lower(p, r) \o <<"queue">> ELSE Lower(p, r)
         /\ Lower(p, r) = IF r = "open" THEN Now(p, "database") \o <<"redis">>
                                        ELSE Now(p, "database")
         /\ Now(p, "database") = IF p = "open" THEN <<"database">> ELSE <<>>
<1>1. /\ Now(p, "database") \in Seq(SubsystemNames)
      /\ Now(r, "redis") \in Seq(SubsystemNames)
  <2>1. \A n \in SubsystemNames : <<n>> \in Seq(SubsystemNames)
    OBVIOUS
  <2>2. <<>> \in Seq(SubsystemNames)
    BY EmptySeq
  <2> QED BY <2>1, <2>2, NamesAre DEF Now
<1>2. Lower(p, r) \in Seq(SubsystemNames)
  BY <1>1, ConcatProperties DEF Lower
<1>3. \A s \in Seq(SubsystemNames) : s \o <<>> = s
  BY ConcatEmptySeq
<1> QED BY <1>1, <1>2, <1>3 DEF Lower, Pile, Now

(* The base stays at the bottom.                                           *)
LEMMA BaseFirst ==
  ASSUME pool = "open" PROVE Stack # <<>> /\ Head(Stack) = "database"
<1>1. ASSUME NEW s \in Seq(SubsystemNames), s # <<>>, Head(s) = "database",
             NEW n \in SubsystemNames
      PROVE  /\ s \o <<n>> \in Seq(SubsystemNames) /\ s \o <<n>> # <<>>
             /\ Head(s \o <<n>>) = "database"
  <2>1. /\ s \o <<n>> = Append(s, n) /\ Append(s, n) # <<>>
        /\ Append(s, n) \in Seq(SubsystemNames)
    BY OnTop, AppendProperties
  <2>2. Head(Append(s, n)) = Head(s)
    BY <1>1, HeadTailAppend
  <2> QED BY <1>1, <2>1, <2>2
<1>2. /\ Now(pool, "database") \in Seq(SubsystemNames) /\ Now(pool, "database") # <<>>
      /\ Head(Now(pool, "database")) = "database"
  <2>1. Now(pool, "database") = <<"database">>
    BY DEF Now
  <2>2. <<"database">> # <<>> /\ Head(<<"database">>) = "database"
    OBVIOUS
  <2> QED BY <2>1, <2>2, PileIs
<1>3. /\ Lower(pool, redis) \in Seq(SubsystemNames) /\ Lower(pool, redis) # <<>>
      /\ Head(Lower(pool, redis)) = "database"
  BY <1>1, <1>2, NamesAre, PileIs
<1> QED BY <1>1, <1>3, NamesAre, PileIs, StackIs

(* What is on the stack is open.                                           *)
LEMMA OnStackIsOpen ==
  ASSUME NEW i \in DOMAIN Stack
  PROVE  /\ Stack[i] = "database" => pool = "open"
         /\ Stack[i] = "redis" => redis = "open"
         /\ Stack[i] = "queue" => qmgr = "open"
<1> DEFINE Standing ==
             {n \in SubsystemNames : \/ n = "database" /\ pool = "open"
                                     \/ n = "redis" /\ redis = "open"
                                     \/ n = "queue" /\ qmgr = "open"}
<1>1. /\ Now(pool, "database") \in Seq(Standing)
      /\ Now(redis, "redis") \in Seq(Standing)
      /\ Now(qmgr, "queue") \in Seq(Standing)
  <2>1. <<>> \in Seq(Standing)
    BY EmptySeq
  <2>2. \A n \in Standing : <<n>> \in Seq(Standing)
    OBVIOUS
  <2>3. /\ pool = "open" => "database" \in Standing
        /\ redis = "open" => "redis" \in Standing
        /\ qmgr = "open" => "queue" \in Standing
    BY DEF SubsystemNames
  <2> HIDE DEF Standing
  <2> QED BY <2>1, <2>2, <2>3 DEF Now
<1>2. Stack \in Seq(Standing)
  <2> HIDE DEF Standing
  <2> QED BY <1>1, ConcatProperties DEF Stack
<1>3. Stack[i] \in Standing
  <2> HIDE DEF Standing
  <2> QED BY <1>2, ElementOfSeq, LenProperties
<1> QED BY <1>3

(* Steps that leave main and the subsystems alone.                         *)
LEMMA HouseUnseen ==
  /\ UNCHANGED <<pool, redis, qmgr>> => Stack' = Stack /\ Built' = Built
  /\ main' = main => Phase' = Phase
  /\ req' = req => Guest' = Guest
<1>1. UNCHANGED <<pool, redis, qmgr>> => Stack' = Stack /\ Built' = Built
  BY DEF Stack, Built
<1>2. main' = main => Phase' = Phase
  BY DEF Phase
<1>3. req' = req => Guest' = Guest
  BY DEF Guest
<1> QED BY <1>1, <1>2, <1>3

LEMMA HouseInit == Init => House!Init
<1> SUFFICES ASSUME Init PROVE House!Init
  OBVIOUS
<1>1. Phase = "setup" /\ Built = {} /\ expired = FALSE
  BY DEF Init, Phase, Built, Ever, SetupStates
<1>2. Stack = <<>>
  BY StackIs, PileIs DEF Init
<1>3. Guest = [r \in Requests |-> "outside"]
  BY DEF Init, Guest, GuestOf, InFlight
<1> QED BY <1>1, <1>2, <1>3 DEF Init, House!Init

(* The process ends in Setup, where there are no requests yet.             *)
LEMMA HouseGivenUp ==
  ASSUME TypeOK, IInv, NEW how, main \in SetupStates, Exit(how)
  PROVE  House!GiveUp
<1>1. Phase = "setup" /\ Phase' = "over"
  BY DEF Exit, Phase, SetupStates, ShutdownStates
<1>2. Guest' = Guest
  <2>1. \A r \in Requests : req[r] = "new"
    BY DEF IInv, BeforeStart
  <2>2. req' = req
    BY <2>1 DEF Exit, TypeOK, InFlight
  <2> QED BY <2>2, HouseUnseen
<1> QED BY <1>1, <1>2, HouseUnseen DEF Exit, subsystems, House!GiveUp

LEMMA HouseSetUp ==
  ASSUME TypeOK, IInv, StackInv,
         NewLogger \/ NilLogger \/ NewConfig \/ SetupFails \/ SetupDatabase \/ SetupRedis
           \/ SetupRealtime \/ SetupQueue \/ ConsumeWelcomeEmails \/ SetupRouter \/ Start
  PROVE  [House!Next]_(House!vars)
<1> USE DEF Main, subsystems, traffic
<1>0. main \in SetupStates
  BY DEF NewLogger, NilLogger, NewConfig, SetupFails, SetupDatabase, SetupRedis, SetupRealtime,
         SetupQueue, ConsumeWelcomeEmails, SetupRouter, Start, SetupStates
<1>1. CASE NilLogger BY <1>0, <1>1, HouseGivenUp DEF NilLogger, House!Next
<1>2. CASE SetupFails BY <1>0, <1>2, HouseGivenUp DEF SetupFails, House!Next
<1>3. CASE NewLogger \/ NewConfig \/ SetupRealtime \/ ConsumeWelcomeEmails \/ SetupRouter
  <2>1. Phase' = Phase
    BY <1>3 DEF NewLogger, NewConfig, SetupRealtime, ConsumeWelcomeEmails, SetupRouter,
                Phase, SetupStates
  <2> QED BY <1>3, <2>1, HouseUnseen
          DEF NewLogger, NewConfig, SetupRealtime, ConsumeWelcomeEmails, SetupRouter, House!vars
<1>4. CASE SetupDatabase
  <2>1. Phase = "setup" /\ Phase' = "setup" /\ Guest' = Guest /\ UNCHANGED <<expired, found>>
    BY <1>4, HouseUnseen DEF SetupDatabase, Phase, SetupStates
  <2>2. pool = "nil" /\ redis = "nil" /\ qmgr = "nil"
    BY <1>4 DEF SetupDatabase, StackInv
  <2>3. pool' = "open" /\ redis' = "nil" /\ qmgr' = "nil"
    BY <1>4, <2>2 DEF SetupDatabase
  <2>4. "database" \notin Built /\ Built' = Built \cup {"database"}
    BY <2>2, <2>3 DEF Built, Ever
  <2>5. Stack = <<>> /\ Stack' = <<"database">>
    BY <2>2, <2>3, StackIs, PileIs
  <2>6. Stack' = Append(Stack, "database")
    BY <2>5
  <2> QED BY <2>1, <2>4, <2>6 DEF House!SetUp, House!Next
<1>5. CASE SetupRedis
  <2>1. Phase = "setup" /\ Phase' = "setup" /\ Guest' = Guest /\ UNCHANGED <<expired, found>>
    BY <1>5, HouseUnseen DEF SetupRedis, Phase, SetupStates
  <2>2. redis = "nil" /\ qmgr = "nil" /\ qmgr' = "nil" /\ pool' = pool /\ redis' \in {"nil", "open"}
    BY <1>5 DEF SetupRedis, StackInv
  <2>3. CASE redis' = "nil"
    BY <2>1, <2>2, <2>3, HouseUnseen DEF House!vars
  <2>4. CASE redis' = "open"
    <3>1. "redis" \notin Built /\ Built' = Built \cup {"redis"}
      BY <2>2, <2>4 DEF Built, Ever
    <3>2. Stack = Now(pool, "database") /\ Stack' = Now(pool', "database") \o <<"redis">>
      BY <2>2, <2>4, StackIs, PileIs
    <3>3. Stack' = Append(Stack, "redis")
      BY <2>2, <3>2, StackIs, PileIs, OnTop, NamesAre
    <3> QED BY <2>1, <3>1, <3>3 DEF House!SetUp, House!Next
  <2> QED BY <2>2, <2>3, <2>4
<1>6. CASE SetupQueue
  <2>1. Phase = "setup" /\ Phase' = "setup" /\ Guest' = Guest /\ UNCHANGED <<expired, found>>
    BY <1>6, HouseUnseen DEF SetupQueue, Phase, SetupStates
  <2>2. qmgr = "nil" /\ pool' = pool /\ redis' = redis /\ qmgr' \in {"nil", "open"}
    BY <1>6 DEF SetupQueue, StackInv
  <2>3. CASE qmgr' = "nil"
    BY <2>1, <2>2, <2>3, HouseUnseen DEF House!vars
  <2>4. CASE qmgr' = "open"
    <3>1. "queue" \notin Built /\ Built' = Built \cup {"queue"}
      BY <2>2, <2>4 DEF Built, Ever
    <3>2. Stack = Lower(pool, redis) /\ Stack' = Lower(pool, redis) \o <<"queue">>
      BY <2>2, <2>4, StackIs, PileIs
    <3>3. Stack' = Append(Stack, "queue")
      BY <3>2, StackIs, PileIs, OnTop, NamesAre
    <3> QED BY <2>1, <3>1, <3>3 DEF House!SetUp, House!Next
  <2> QED BY <2>2, <2>3, <2>4
<1>7. CASE Start
  <2>1. Phase = "setup" /\ Phase' = "open"
    BY <1>7 DEF Start, Phase, SetupStates
  <2>2. pool = "open"
    BY <1>7 DEF Start, IInv, ReverseOrder
  <2> QED BY <1>7, <2>1, <2>2, BaseFirst, HouseUnseen DEF Start, House!Open, House!Next
<1> QED BY <1>1, <1>2, <1>3, <1>4, <1>5, <1>6, <1>7

LEMMA HouseEmpty ==
  ASSUME TypeOK
  PROVE  House!NobodyInside <=> NothingInFlight
BY DEF TypeOK, House!NobodyInside, NothingInFlight, Guest, GuestOf, InFlight

LEMMA HouseShutDown ==
  ASSUME TypeOK, IInv,
         ShutdownStarts \/ Drained \/ DrainTimesOut \/ CloseQueue \/ CloseRedis \/ ClosePool
           \/ MainReturns
  PROVE  [House!Next]_(House!vars)
<1> USE DEF Main, subsystems, traffic
<1>1. CASE ShutdownStarts
  <2>1. Phase = "open" /\ Phase' = "draining"
    BY <1>1 DEF ShutdownStarts, Phase, SetupStates
  <2> QED BY <1>1, <2>1, HouseUnseen DEF ShutdownStarts, House!Drain, House!Next
<1>2. CASE Drained \/ DrainTimesOut
  <2>1. Phase = "draining" /\ Phase' = "closing"
    BY <1>2 DEF Drained, DrainTimesOut, Phase, SetupStates, ShutdownStates
  <2>2. (House!NobodyInside /\ expired' = expired) \/ expired' = TRUE
    BY <1>2, HouseEmpty DEF Drained, DrainTimesOut
  <2> QED BY <1>2, <2>1, <2>2, HouseUnseen DEF Drained, DrainTimesOut, House!Close, House!Next
<1>3. CASE CloseQueue
  <2>1. Phase = "closing" /\ Phase' = "closing" /\ Guest' = Guest /\ UNCHANGED <<expired, found>>
    BY <1>3, HouseUnseen DEF CloseQueue, Phase, SetupStates, ShutdownStates
  <2>2. qmgr' = Closed(qmgr) /\ qmgr' # "open" /\ pool' = pool /\ redis' = redis
    BY <1>3 DEF CloseQueue, Closed
  <2>3. Built' = Built
    BY <2>2 DEF Built, Ever, Closed
  <2>4. Stack' = Lower(pool, redis)
    BY <2>2, StackIs, PileIs
  <2>5. CASE qmgr = "open"
    <3>1. Stack = Lower(pool, redis) \o <<"queue">>
      BY <2>5, StackIs, PileIs
    <3>2. Stack # <<>> /\ Front(Stack) = Lower(pool, redis)
      BY <3>1, PileIs, OnTop, NamesAre
    <3> QED BY <2>1, <2>3, <2>4, <3>2 DEF House!TakeDown, House!Front, Front, House!Next
  <2>6. CASE qmgr # "open"
    <3>1. Stack' = Stack
      BY <2>4, <2>6, StackIs, PileIs
    <3> QED BY <2>1, <2>3, <3>1 DEF House!vars
  <2> QED BY <2>5, <2>6
<1>4. CASE CloseRedis
  <2>1. Phase = "closing" /\ Phase' = "closing" /\ Guest' = Guest /\ UNCHANGED <<expired, found>>
    BY <1>4, HouseUnseen DEF CloseRedis, Phase, SetupStates, ShutdownStates
  <2>2. redis' = Closed(redis) /\ redis' # "open" /\ pool' = pool /\ qmgr' = qmgr /\ qmgr # "open"
    BY <1>4 DEF CloseRedis, Closed, IInv, ReverseOrder
  <2>3. Built' = Built
    BY <2>2 DEF Built, Ever, Closed
  <2>4. Stack = Lower(pool, redis) /\ Stack' = Now(pool, "database")
    BY <2>2, StackIs, PileIs
  <2>5. CASE redis = "open"
    <3>1. Stack = Now(pool, "database") \o <<"redis">>
      BY <2>4, <2>5, PileIs
    <3>2. Stack # <<>> /\ Front(Stack) = Now(pool, "database")
      BY <3>1, PileIs, OnTop, NamesAre
    <3> QED BY <2>1, <2>3, <2>4, <3>2 DEF House!TakeDown, House!Front, Front, House!Next
  <2>6. CASE redis # "open"
    <3>1. Stack' = Stack
      BY <2>4, <2>6, StackIs, PileIs
    <3> QED BY <2>1, <2>3, <3>1 DEF House!vars
  <2> QED BY <2>5, <2>6
<1>5. CASE ClosePool
  <2>1. Phase = "closing" /\ Phase' = "closing" /\ Guest' = Guest /\ UNCHANGED <<expired, found>>
    BY <1>5, HouseUnseen DEF ClosePool, Phase, SetupStates, ShutdownStates
  <2>2. /\ pool = "open" /\ redis # "open" /\ qmgr # "open"
        /\ pool' = "closed" /\ redis' = redis /\ qmgr' = qmgr
    BY <1>5 DEF ClosePool, Closed, IInv, ReverseOrder
  <2>3. Built' = Built
    BY <2>2 DEF Built, Ever
  <2>4. Stack = <<"database">> /\ Stack' = <<>>
    BY <2>2, StackIs, PileIs
  <2>5. Front(Stack) = <<>>
    <3>1. <<>> \o <<"database">> = <<"database">> /\ <<>> \in Seq(SubsystemNames)
      BY EmptySeq, <<"database">> \in Seq(SubsystemNames), ConcatEmptySeq DEF SubsystemNames
    <3> QED BY <2>4, <3>1, OnTop, NamesAre
  <2> QED BY <2>1, <2>3, <2>4, <2>5 DEF House!TakeDown, House!Front, Front, House!Next
<1>6. CASE MainReturns
  <2>1. Phase = "closing" /\ Phase' = "over"
    BY <1>6 DEF MainReturns, Exit, Phase, SetupStates, ShutdownStates
  <2>2. Stack = <<>>
    BY <1>6, StackIs, PileIs DEF MainReturns, IInv, ReverseOrder
  <2>3. Guest' = [r \in Requests |-> IF Guest[r] = "inside" THEN "thrownOut" ELSE Guest[r]]
    BY <1>6 DEF MainReturns, Exit, TypeOK, Guest, GuestOf, InFlight
  <2> QED BY <1>6, <2>1, <2>2, <2>3, HouseUnseen DEF MainReturns, Exit, House!End, House!Next
<1> QED BY <1>1, <1>2, <1>3, <1>4, <1>5, <1>6

(* SIGINT during Setup kills the process.                                  *)
LEMMA HouseSignal ==
  ASSUME TypeOK, IInv, Listens \/ ListenFails \/ ReportFailure \/ Signal
  PROVE  [House!Next]_(House!vars)
<1> USE DEF subsystems, traffic
<1>1. CASE Listens \/ ListenFails \/ ReportFailure
  BY <1>1, HouseUnseen DEF Listens, ListenFails, ReportFailure, House!vars
<1>2. CASE Signal /\ main \in SetupStates
  <2>1. Phase = "setup" /\ Phase' = "over"
    BY <1>2 DEF Signal, Phase, SetupStates, ShutdownStates
  <2> QED BY <1>2, <2>1, HouseUnseen DEF Signal, House!GiveUp, House!Next
<1>3. CASE Signal /\ main \notin SetupStates
  BY <1>3, HouseUnseen DEF Signal, House!vars
<1> QED BY <1>1, <1>2, <1>3

(* A request's step moves its guest, unless it stays in flight.            *)
LEMMA GuestMoves ==
  ASSUME TypeOK, NEW r \in Requests, NEW from, NEW to, At(r, from, to),
         UNCHANGED <<process, subsystems>>
  PROVE  /\ Guest[r] = GuestOf(from)
         /\ Guest' = [Guest EXCEPT ![r] = GuestOf(to)]
         /\ UNCHANGED <<Phase, Built, Stack, expired>>
         /\ Phase # "over"
<1>1. req \in [Requests -> {"new", "refused", "upgraded", "answered", "cut"} \cup InFlight]
  BY DEF TypeOK
<1>2. UNCHANGED <<Phase, Built, Stack, expired>>
  BY HouseUnseen DEF process, subsystems
<1>3. Phase # "over"
  BY DEF At, Phase, TypeOK
<1> QED BY <1>1, <1>2, <1>3 DEF At, Guest

LEMMA StaysInside ==
  ASSUME TypeOK, NEW r \in Requests, NEW from \in InFlight, NEW to \in InFlight,
         At(r, from, to), UNCHANGED <<process, subsystems>>
  PROVE  Guest[r] = "inside" /\ UNCHANGED <<Phase, Built, Stack, expired, Guest>>
<1>1. GuestOf(from) = "inside" /\ GuestOf(to) = "inside"
  BY DEF GuestOf, InFlight
<1>2. Guest' = [Guest EXCEPT ![r] = Guest[r]]
  BY <1>1, GuestMoves
<1> QED BY <1>1, <1>2, GuestMoves DEF Guest

LEMMA HouseServes ==
  ASSUME TypeOK, IInv, NEW r \in Requests,
         Accept(r) \/ Refuse(r) \/ BrowserGoes(r) \/ Serves(r)
  PROVE  [House!Next]_(House!vars)
<1>1. UNCHANGED <<process, subsystems>>
  BY SubsystemsStay
<1>2. CASE Accept(r)
  <2>1. At(r, "new", "running") /\ UNCHANGED found
    BY <1>2 DEF Accept
  <2>2. Phase = "open"
    BY <1>2, <2>1 DEF Accept, At, TypeOK, IInv, BeforeStart, ClosedToRequests, Phase
  <2>3. House!Enter(r)
    BY <1>1, <2>1, <2>2, GuestMoves DEF GuestOf, InFlight, House!Enter, House!Moves
  <2> QED BY <2>3 DEF House!Next
<1>3. CASE Refuse(r)
  <2>1. At(r, "new", "refused") /\ UNCHANGED found
    BY <1>3 DEF Refuse
  <2>2. Phase \notin {"setup", "over"}
    BY <1>3, <2>1 DEF Refuse, At, TypeOK, IInv, BeforeStart, Phase
  <2>3. House!TurnAway(r)
    BY <1>1, <2>1, <2>2, GuestMoves DEF GuestOf, InFlight, House!TurnAway, House!Moves
  <2> QED BY <2>3 DEF House!Next
<1>4. CASE Upgrade(r)
  <2>1. At(r, "running", "upgraded") /\ UNCHANGED found
    BY <1>4 DEF Upgrade
  <2>2. House!Leave(r)
    BY <1>1, <2>1, GuestMoves DEF GuestOf, InFlight, House!Leave, House!Moves
  <2> QED BY <2>2 DEF House!Next
<1>5. CASE Reply(r)
  <2>1. At(r, "replying", "answered") /\ UNCHANGED found
    BY <1>5 DEF Reply
  <2>2. House!Leave(r)
    BY <1>1, <2>1, GuestMoves DEF GuestOf, InFlight, House!Leave, House!Moves
  <2> QED BY <2>2 DEF House!Next
<1>6. CASE \/ UpgradeFails(r) \/ Look(r) \/ LookStarts(r) \/ LookReturns(r) \/ EmailTaken(r)
            \/ HashPasswordFails(r) \/ Query(r) \/ QueryStarts(r) \/ QueryReturns(r)
            \/ QueryFails(r) \/ BrowserGoes(r) \/ EmitAuditLog(r)
  <2>1. PICK from \in InFlight, to \in InFlight : At(r, from, to)
    BY <1>6 DEF UpgradeFails, Look, LookStarts, LookReturns, EmailTaken, HashPasswordFails, Query,
                QueryStarts, QueryReturns, QueryFails, BrowserGoes, EmitAuditLog, InFlight
  <2>2. UNCHANGED found
    BY <1>6 DEF UpgradeFails, Look, LookStarts, LookReturns, EmailTaken, HashPasswordFails, Query,
                QueryStarts, QueryReturns, QueryFails, BrowserGoes, EmitAuditLog
  <2> QED BY <1>1, <2>1, <2>2, StaysInside DEF House!vars
<1>7. CASE LookRefused(r) \/ QueryRefused(r) \/ Publish(r) \/ PingRedis(r)
  <2>1. PICK from \in InFlight, to \in InFlight : At(r, from, to)
    BY <1>7 DEF LookRefused, QueryRefused, Publish, PingRedis, InFlight
  <2>2. \/ UNCHANGED found
        \/ \E n \in SubsystemNames :
             /\ found' = [found EXCEPT ![r] = @ \cup {n}]
             /\ \/ n = "database" /\ pool = "closed"
                \/ n = "queue" /\ qmgr = "closed"
                \/ n = "redis" /\ redis = "closed"
    <3>1. CASE LookRefused(r) \/ QueryRefused(r)
      <4>1. found' = [found EXCEPT ![r] = @ \cup {"database"}] /\ pool = "closed"
        BY <3>1 DEF LookRefused, QueryRefused, PoolIsClosed
      <4> QED BY <4>1, NamesAre
    <3>2. CASE Publish(r) \/ PingRedis(r)
      <4>1. \/ found' = [found EXCEPT ![r] = @ \cup {"queue"}] /\ qmgr = "closed"
            \/ found' = [found EXCEPT ![r] = @ \cup {"redis"}] /\ redis = "closed"
            \/ found' = [found EXCEPT ![r] = @]
        BY <3>2 DEF Publish, PingRedis, Finds
      <4>2. [found EXCEPT ![r] = @] = found
        BY DEF TypeOK
      <4> QED BY <4>1, <4>2, NamesAre
    <3> QED BY <1>7, <3>1, <3>2
  <2>3. CASE UNCHANGED found
    BY <1>1, <2>1, <2>3, StaysInside DEF House!vars
  <2>4. ASSUME NEW n \in SubsystemNames,
               found' = [found EXCEPT ![r] = @ \cup {n}],
               \/ n = "database" /\ pool = "closed"
               \/ n = "queue" /\ qmgr = "closed"
               \/ n = "redis" /\ redis = "closed"
        PROVE  House!Miss(r)
    <3>1. main # "ended" /\ req[r] \in InFlight
      BY <2>1 DEF At
    <3>2. expired
      BY <2>4, <3>1, ClosedIsLate
    <3>3. Phase = "closing"
      BY <2>4, <3>1 DEF IInv, ReverseOrder, Phase, SetupStates, ShutdownStates
    <3>4. n \in Built /\ \A i \in DOMAIN Stack : Stack[i] # n
      BY <2>4, OnStackIsOpen DEF Built, Ever
    <3> QED BY <1>1, <2>1, <2>4, <3>2, <3>3, <3>4, StaysInside DEF House!Miss
  <2> QED BY <2>2, <2>3, <2>4 DEF House!Next
<1> QED BY <1>2, <1>3, <1>4, <1>5, <1>6, <1>7 DEF Serves

LEMMA HouseNext == TypeOK /\ IInv /\ StackInv /\ [Next]_vars => [House!Next]_(House!vars)
<1> SUFFICES ASSUME TypeOK, IInv, StackInv, [Next]_vars PROVE [House!Next]_(House!vars)
  OBVIOUS
<1>1. CASE MainStep
  BY <1>1, HouseSetUp, HouseShutDown DEF MainStep
<1>2. ASSUME NEW r \in Requests, Audits(r) PROVE UNCHANGED House!vars
  BY <1>2, HouseUnseen
     DEF Audits, AuditAsks, AuditStarts, AuditRefused, AuditReturns, AuditTimesOut, AuditAt,
         process, subsystems, House!vars
<1>3. CASE Ended \/ UNCHANGED vars
  BY <1>3, HouseUnseen DEF Ended, vars, House!vars
<1> QED BY <1>1, <1>2, <1>3, HouseSignal, HouseServes DEF Next

(* Setup and Shutdown implement a stack of subsystems that is built up     *)
(* before the first request is admitted, and taken down, last first, after *)
(* the last has left or the 30 seconds have passed.                        *)
THEOREM Refinement == Spec => ImplementsService
<1>1. Spec => []StackInv
  BY StackInvInit, StackInvStep, PTL DEF Spec
<1> QED BY <1>1, Invariance, HouseInit, HouseNext, PTL
        DEF Spec, ImplementsService, House!Spec
=============================================================================
