------------------------------ MODULE JobQueue ------------------------------
(***************************************************************************)
(* The welcome-email jobs: Manager of server/internal/core/queue/queue.go, *)
(* its worker goroutines, and as much of RabbitMQ and of the AMQP client   *)
(* library as they rely on.                                                *)
(*                                                                         *)
(* Publish hands a persistent message to the connection and returns; there *)
(* is no publisher confirm.  The broker pushes all that is ready to the    *)
(* consumer, which set no prefetch, and keeps each message until it is     *)
(* acked or nacked; the library buffers deliveries until a worker receives *)
(* them.  When the channel closes (a lost connection, a broker restart,    *)
(* Close, the death of the process) the broker makes ready again what was  *)
(* not settled, the library drops its buffer and the workers end.  They    *)
(* come back only with a new process.                                      *)
(***************************************************************************)
EXTENDS Naturals, Sequences, FiniteSets, SequencesExt

CONSTANTS
  Jobs,             (* messages, one for each registered user              *)
  Malformed,        (* put there by others: json.Unmarshal refuses them    *)
  Failing,          (* those the mailer that replaces the template's       *)
                    (* handler, which only logs, fails for                 *)
  Workers,          (* worker goroutines: queue.concurrency                *)
  NoJob,            (* not a job                                           *)
  MaxInterruptions, (* bounds how often the channel closes                 *)
  DefaultAttempts   (* ManagerConfig.DefaultAttempts, which nothing reads  *)

ASSUME JobsAssumption == Malformed \subseteq Jobs /\ Failing \subseteq Jobs \ Malformed
ASSUME NoJobAssumption == NoJob \notin Jobs
ASSUME BoundsAssumption == MaxInterruptions \in Nat /\ DefaultAttempts \in Nat

VARIABLES
  channel,       (* the AMQP channel: open or closed                       *)
  published,     (* what Publish has returned for a job: "", "ok", "error" *)
  wire,          (* written to the connection, not yet taken by the broker *)
  ready,         (* the broker's queue                                     *)
  unacked,       (* delivered on this channel and not settled, in order    *)
  buffer,        (* deliveries no worker has received                      *)
  worker,        (* where a worker is                                      *)
  job,           (* the delivery it processes                              *)
  acked,         (* the jobs the broker has an ack for                     *)
  discarded,     (* the jobs nacked for good                               *)
  handled,       (* history: how often a job's handler has succeeded       *)
  attempts,      (* history: how often it was called, up to the default+2  *)
  interruptions  (* history: how often the channel has closed              *)

broker == <<wire, ready, unacked, buffer>>
settled == <<acked, discarded>>
vars == <<channel, published, wire, ready, unacked, buffer, worker, job, acked,
          discarded, handled, attempts, interruptions>>

WorkerStates == {"receiving", "processing", "succeeded", "failed", "over"}

TypeOK ==
  /\ channel \in {"open", "closed"}
  /\ published \in [Jobs -> {"", "ok", "error"}]
  /\ wire \in Seq(Jobs) /\ ready \in Seq(Jobs) /\ unacked \in Seq(Jobs) /\ buffer \in Seq(Jobs)
  /\ worker \in [Workers -> WorkerStates]
  /\ job \in [Workers -> Jobs \cup {NoJob}]
  /\ \A w \in Workers : job[w] = NoJob <=> worker[w] \in {"receiving", "over"}
  /\ acked \subseteq Jobs /\ discarded \subseteq Jobs
  /\ handled \in [Jobs -> Nat] /\ attempts \in [Jobs -> 0..(DefaultAttempts + 2)]
  /\ interruptions \in 0..MaxInterruptions

(* New has dialled, declared the queue; ConsumeWelcomeEmails has started   *)
(* the workers.                                                            *)
Init ==
  /\ channel = "open"
  /\ published = [j \in Jobs |-> ""]
  /\ wire = <<>> /\ ready = <<>> /\ unacked = <<>> /\ buffer = <<>>
  /\ worker = [w \in Workers |-> "receiving"]
  /\ job = [w \in Workers |-> NoJob]
  /\ acked = {} /\ discarded = {}
  /\ handled = [j \in Jobs |-> 0] /\ attempts = [j \in Jobs |-> 0]
  /\ interruptions = 0

(* A delivery is settled once: its job is in unacked once.                 *)
Without(s, j) == RemoveAt(s, CHOOSE i \in DOMAIN s : s[i] = j)

-----------------------------------------------------------------------------
(* Publish, called once for a registered user.                             *)
PublishSucceeds(j) ==
  /\ published[j] = ""
  /\ channel = "open"
  /\ published' = [published EXCEPT ![j] = "ok"]
  /\ wire' = Append(wire, j)
  /\ UNCHANGED <<channel, ready, unacked, buffer, worker, job, settled, handled,
                 attempts, interruptions>>

PublishFails(j) ==
  /\ published[j] = ""
  /\ channel = "closed"
  /\ published' = [published EXCEPT ![j] = "error"]
  /\ UNCHANGED <<channel, broker, worker, job, settled, handled, attempts, interruptions>>

(* The broker takes a message from the connection and stores it.           *)
Route ==
  /\ wire # <<>>
  /\ ready' = Append(ready, Head(wire))
  /\ wire' = Tail(wire)
  /\ UNCHANGED <<channel, published, unacked, buffer, worker, job, settled, handled,
                 attempts, interruptions>>

(* With no prefetch nothing holds deliveries back: the broker pushes all   *)
(* that is ready before it looks at what the client sends next.            *)
Deliver ==
  /\ channel = "open"
  /\ ready # <<>>
  /\ buffer' = buffer \o ready
  /\ unacked' = unacked \o ready
  /\ ready' = <<>>
  /\ UNCHANGED <<channel, published, wire, worker, job, settled, handled, attempts,
                 interruptions>>

-----------------------------------------------------------------------------
(* case msg, ok := <-msgs                                                  *)
Receive(w) ==
  /\ worker[w] = "receiving"
  /\ buffer # <<>>
  /\ worker' = [worker EXCEPT ![w] = "processing"]
  /\ job' = [job EXCEPT ![w] = Head(buffer)]
  /\ buffer' = Tail(buffer)
  /\ UNCHANGED <<channel, published, wire, ready, unacked, settled, handled, attempts,
                 interruptions>>

(* !ok: the library has closed msgs.                                       *)
WorkerStops(w) ==
  /\ worker[w] = "receiving"
  /\ channel = "closed"
  /\ worker' = [worker EXCEPT ![w] = "over"]
  /\ UNCHANGED <<channel, published, broker, job, settled, handled, attempts, interruptions>>

(* Settling a delivery.  On a closed channel Ack and Nack return an error, *)
(* which processWithRetry ignores.                                         *)
KeepsJob(w) ==
  /\ worker' = [worker EXCEPT ![w] = "receiving"]
  /\ UNCHANGED job

NextDelivery(w) ==
  /\ worker' = [worker EXCEPT ![w] = "receiving"]
  /\ job' = [job EXCEPT ![w] = NoJob]

Settle(w, requeued) ==
  /\ NextDelivery(w)
  /\ IF channel = "open"
       THEN unacked' = Without(unacked, job[w]) /\ ready' = requeued \o ready
       ELSE UNCHANGED <<unacked, ready>>
  /\ UNCHANGED <<channel, published, wire, buffer, handled, attempts, interruptions>>

(* Unmarshal fails: Nack(false, false).                                    *)
Discard(w) ==
  /\ worker[w] = "processing"
  /\ job[w] \in Malformed
  /\ Settle(w, <<>>)
  /\ discarded' = IF channel = "open" THEN discarded \cup {job[w]} ELSE discarded
  /\ UNCHANGED acked

(* The handler returns.  What it returns decides what follows, but not at  *)
(* once: the channel may close, or the process die, in between.            *)
Call(w, outcome) ==
  /\ worker[w] = "processing"
  /\ job[w] \notin Malformed
  /\ worker' = [worker EXCEPT ![w] = outcome]
  /\ attempts' = [attempts EXCEPT ![job[w]] = IF @ > DefaultAttempts + 1 THEN @ ELSE @ + 1]
  /\ UNCHANGED <<channel, published, broker, job, settled, interruptions>>

HandlerSucceeds(w) ==
  /\ Call(w, "succeeded")
  /\ job[w] \notin Failing
  /\ handled' = [handled EXCEPT ![job[w]] = @ + 1]

HandlerFails(w) ==
  /\ Call(w, "failed")
  /\ job[w] \in Failing
  /\ UNCHANGED handled

AcksOnReceipt(w) ==
  /\ worker[w] = "processing"
  /\ job[w] \notin Malformed
  /\ Settle(w, <<>>)
  /\ acked' = IF channel = "open" THEN acked \cup {job[w]} ELSE acked
  /\ UNCHANGED discarded

RequeuesOnSuccess(w) ==
  /\ worker[w] = "succeeded"
  /\ Settle(w, <<job[w]>>)
  /\ UNCHANGED settled

Ack(w) ==
  /\ worker[w] = "succeeded"
  /\ Settle(w, <<>>)
  /\ acked' = IF channel = "open" THEN acked \cup {job[w]} ELSE acked
  /\ UNCHANGED discarded

DropsOnFailure(w) ==
  /\ worker[w] = "failed"
  /\ Settle(w, <<>>)
  /\ UNCHANGED settled

ReturnsOnFailure(w) ==
  /\ worker[w] = "failed"
  /\ worker' = [worker EXCEPT ![w] = "over"]
  /\ job' = [job EXCEPT ![w] = NoJob]
  /\ UNCHANGED <<channel, published, broker, settled, handled, attempts, interruptions>>

(* Nack(false, true): back to the head of the queue, at once.              *)
NackRequeue(w) ==
  /\ worker[w] = "failed"
  /\ Settle(w, <<job[w]>>)
  /\ UNCHANGED settled

-----------------------------------------------------------------------------
(* The channel closes.  What was on its way to the broker is lost.         *)
ChannelCloses ==
  /\ channel = "open"
  /\ interruptions < MaxInterruptions
  /\ channel' = "closed"
  /\ interruptions' = interruptions + 1
  /\ wire' = <<>>
  /\ ready' = unacked \o ready
  /\ unacked' = <<>>
  /\ buffer' = <<>>
  /\ UNCHANGED <<published, worker, job, settled, handled, attempts>>

(* The process is started again: New, declareQueues (the queue is there)   *)
(* and ConsumeWelcomeEmails.  Workers of the old process are gone, in the  *)
(* middle of a handler or not.                                             *)
Restart ==
  /\ channel = "closed"
  /\ channel' = "open"
  /\ worker' = [w \in Workers |-> "receiving"]
  /\ job' = [w \in Workers |-> NoJob]
  /\ UNCHANGED <<published, broker, settled, handled, attempts, interruptions>>

processWithRetry(w) ==
  \/ Discard(w)
  \/ HandlerSucceeds(w)
  \/ HandlerFails(w)
  \/ Ack(w)
  \/ NackRequeue(w)

Worker(w) == Receive(w) \/ WorkerStops(w) \/ processWithRetry(w)

(* All is done that ever will be.                                          *)
Quiet ==
  /\ channel = "open"
  /\ \A j \in Jobs : published[j] # ""
  /\ wire = <<>> /\ ready = <<>> /\ unacked = <<>>
  /\ UNCHANGED vars

Next ==
  \/ \E j \in Jobs : PublishSucceeds(j) \/ PublishFails(j)
  \/ Route
  \/ Deliver
  \/ \E w \in Workers : Worker(w)
  \/ ChannelCloses
  \/ Restart
  \/ Quiet

Spec == Init /\ [][Next]_vars

(* The broker and the workers are never idle for ever when they could act. *)
(* Handlers return.  Nobody has to publish, nor to restart the process.    *)
FairSpec ==
  /\ Spec
  /\ WF_vars(Route)
  /\ WF_vars(Deliver)
  /\ \A w \in Workers : WF_vars(Worker(w))

-----------------------------------------------------------------------------
AtBroker(j) == j \in ToSet(ready) \cup ToSet(unacked)

(* A job the broker has stored is never lost: while it is neither acked    *)
(* nor discarded it is ready or unsettled, once; and while the channel is  *)
(* open an unsettled job is with exactly one worker or in the buffer, so   *)
(* no delivery is forgotten and none is processed twice at a time.         *)
Occurrences(s, j) == Cardinality({i \in DOMAIN s : s[i] = j})
Processing(j) == {w \in Workers : job[w] = j}

NoJobIsLost ==
  \A j \in Jobs :
    LET kept == Occurrences(ready, j) + Occurrences(unacked, j)
        travelling == Occurrences(wire, j)
        settledOnce == IF j \in acked \cup discarded THEN 1 ELSE 0
    IN  /\ kept + travelling + settledOnce <= 1
        /\ (published[j] = "ok" /\ interruptions = 0) => kept + travelling + settledOnce = 1
        /\ channel = "open" =>
             Occurrences(unacked, j) = Occurrences(buffer, j) + Cardinality(Processing(j))

(* Publisher, broker, library and workers together are a durable queue that*)
(* delivers at least once: what it has stored leaves it only acked after   *)
(* its handler succeeded, or thrown away because it cannot be decoded,     *)
(* whatever closes the channel in between (queue.go:113-147).              *)
Q == INSTANCE DurableQueue WITH
       kept <- ToSet(ready) \cup ToSet(unacked),
       acked <- acked, discarded <- discarded, handled <- handled

ImplementsDurableQueue == Q!Spec

(* A welcome email is sent again only because the channel closed between   *)
(* the handler's success and its ack: one more email each time at most.    *)
OneEmailPerInterruption ==
  \A j \in Jobs : handled[j] <= 1 + interruptions

(* Jobs that fail for ever do not keep the others from being done, however *)
(* few the workers: a job the broker has is done unless the channel closes.*)
GoodJobsGetDone ==
  \A j \in Jobs \ (Failing \cup Malformed) :
    AtBroker(j) ~> (j \in acked \/ channel = "closed")

(* default_attempts is the "retry count on failure" (config.go:176): a job *)
(* is tried once, and again default_attempts times at most.                *)
AttemptsAreBounded ==
  \A j \in Jobs : attempts[j] <= 1 + DefaultAttempts
=============================================================================
