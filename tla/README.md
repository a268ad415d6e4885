# Formal models of go-mux-backend-template

The repository is a Go web service: an HTTP API with registration and login,
PostgreSQL behind it, a RabbitMQ queue for welcome emails, a WebSocket hub
that tells browsers what happened, and an in-process event bus between them.
It has no tests. This directory holds TLA+ models of everything in it that
keeps state or has an order, the TLC runs that check them on small instances,
and TLAPS proofs of the most important properties for every instance.

```
tlc -workers 2 -config HubClients.cfg Hub        # one of the runs below
tlapm HubProofs.tla                              # one of the proof modules
```

`PROJECT.json` lists components, runs, the source lines of each definition,
the hazards with the properties that guard against them, the theorems, and
for each property a mutation of the model that breaks it.

## The system

| Component | Source (`server/...`) | State | Operations | Talks to |
|---|---|---|---|---|
| Hub | `internal/core/realtime/hub.go` | map of clients under an RWMutex; per client a buffered channel, two goroutines, a connection | ServeHTTP, Broadcast, register, unregister, readPump, writePump | listens on the bus, called by the router |
| Event bus | `internal/core/events/` | listeners by event name | on (Setup only), emit: calls the listeners in the emitting goroutine | services emit; hub, queue listener and audit writer listen |
| Job queue | `internal/core/queue/queue.go` | AMQP connection and channel; worker goroutines | New, Publish, ConsumeWelcomeEmails, processWithRetry, Close | RabbitMQ |
| Workers | `internal/core/workers/` | none | WelcomeEmailHandler | called by the queue's workers |
| Auth service | `internal/modules/auth/` | none of its own: rows in `users` | Register, Login, Me, RefreshToken | database, bus |
| Event handlers | `server.go:183-240` | goroutines that write `audit_logs` | audit writer, enqueue the welcome email | bus, database, queue |
| Rate limiter | `internal/middlewares/ratelimit_middleware.go` | map from addresses to counted windows, under a mutex | Middleware, cleanup (a ticker) | in front of every route |
| Lifecycle | `server.go`, `main.go` | which subsystems are up; the channel of signals; the HTTP server | Setup, Start, Shutdown | all |
| Router, middlewares | `server.go:242-352`, `internal/middlewares/`, `internal/modules/` | per-request context; route order; two log files in a shared directory | request id, CORS, limit, log, guard, validate | each request |
| Tokens | `pkg/jwt.go`, `auth_middleware.go`, `auth.service.go` | none: two secrets in the environment, claims with an expiry in clients' hands | Sign, Verify, Guard, Login, Me, RefreshToken | accounts |
| Database | `internal/db/` | a pool of connections | Connect, queries, Close | services, audit writer, health check, Lifecycle |
| Config, cache, passwords, HTTP helpers, frontend, docs | | set once, or none | | Lifecycle, router |

How a registration runs through it: the rate limiter admits the request,
`Register` looks for the email, hashes the password, inserts the row, and
emits `auth.user.registered`. The bus calls the hub's listener (a broadcast to
every browser) and then the queue's (publish; on success emit
`queue.job.enqueued`, a second broadcast), all in the request's goroutine.
Then it emits `audit.log`, whose listener starts a goroutine, and answers. A
worker goroutine later gets the job from RabbitMQ, calls the handler, and acks
or requeues.

What is hard here: three goroutines per browser and all registrations meet in
the hub, with a channel that is closed after the lock is released; the look
for an email and the insert are two queries; every external call can fail or
lose its reply; the process can die between any two steps; a delivery is
settled on a channel that may have closed; the limiter forgets entries while
requests come in; a shutdown runs against requests, goroutines nobody waits
for and a pool they all queue for; every request opens and may make a
directory others are making; sessions are known only from what clients send.

## The modules

### `Hub`, `Mailboxes`: the WebSocket hub

One variable per field or per goroutine: `clients` is the map, `readers` and
`writer` the RWMutex (a waiting writer keeps new readers out, as `sync.RWMutex`
does), `serve`, `rpump`, `wpump` say where the three goroutines of a client
are, `send` is its buffered channel and `inhand` the frame writePump has taken
from it, `closed` and `conn` the channel's and the connection's end. `emit` and
`todo` are a broadcast: where it is, and the clients its loop has not reached.
`peer` is the browser, which may stop reading, resume, and go. An action is
what one goroutine does between two points where others may interfere: taking
the lock, updating the map and releasing it is one step of register and
unregister; each round of the broadcast's loop is a step. `received`, `missed`
and `panicked` are history. A half-open connection, whose peer has vanished
without a word, is a browser that goes: net/http's TCP keepalive makes the
read fail.

Not claimed, because the code does not give it: that a *stalled* browser is
ever released (`WriteMessage` has no deadline, hub.go:153).

The default configuration never lets a browser get this far: the logger
middleware's wrapped `ResponseWriter` cannot be hijacked, so the upgrade fails
(`UpgradeFails`). The hub works with `middlewares.logger.enabled: false`. Which
requests reach it is in `Pipeline`; `Hub` is about the hub that is reached.

`Mailboxes` is what the hub promises, without locks, goroutines and sockets: a
browser that joins has a mailbox, an announcement is owed to those who are
members when it starts, each gets it once and in its turn or finds its mailbox
full, nobody leaves while owed one, and mail is thrown away only when its
browser has gone or left. The mapping: a client has left once readPump has
taken it out of the map, its mailbox is the frame in writePump's hand and then
its channel, and an announcement starts when the broadcast gets the read lock.
Lock, upgrade and pumps otherwise stutter.

### `RateLimiter`, `FixedWindow`, `MCRateLimiter`

`entries` is the map, with `count` and `windowEnd`; all a request does under
the mutex is one step (`FirstOfWindow` or `WithinWindow`), as is one round of
`cleanup`, which waits for a tick of its ticker (`ticked`: the ticker's channel
holds one). `now` counts ticks of a clock that advances between any two steps.
`admitted` and `refused` are history. An address is what `GetIP` returns.
`FixedWindow` is what the limiter promises: windows that open, fill and end,
without a map and without evictions. `MCRateLimiter` bounds clock and requests.

### `JobQueue`, `DurableQueue`: publish, deliver, work, settle

`wire`, `ready`, `unacked` are RabbitMQ's side: what it has not taken from the
connection yet, its queue, and what it has delivered on this channel and waits
to see settled. `buffer` is what the client library has received and no worker
has. A worker receives a delivery, decodes it (or discards it), calls the
handler, and acks or nacks in a later step. `ChannelCloses` is a lost
connection, a broker restart, `Close`, or the death of the process: what was
not settled is ready again, the workers end. `Restart` is a new process.
RabbitMQ and the library are modelled from how queue.go uses them: no
publisher confirms, no prefetch, manual acks, a durable queue with persistent
messages. Without prefetch the broker pushes all that is ready at once
(`Deliver`); `GoodJobsGetDone` rests on that, since a job that fails goes back to
the head of the queue. The template's own handler only logs; `Failing` jobs are those for
which the mailer that its comment asks the user to write fails.

`DurableQueue` is what all of that promises, without channels, buffers and
workers: a stored job stays until it is acked after a success or thrown away
because nobody can decode it, and may be handled more than once until then.
The mapping keeps what is ready or delivered and not settled; a message still
on the wire is not stored yet, which is why losing it is a stutter.

### `Registration`, `Accounts`, `MCRegistration`: Register and Login

`users` and `audits` are the tables, a row being named for the call that
created it; `at` says how far a call has come and `answer` what it was told;
`announced`, `jobs`, `enqueued` are what the listeners did in its goroutine;
`inserting` are the INSERTs that PostgreSQL was sent and has not decided,
`auditing` the audit rows that a goroutine will send or has sent. The look for
an email may say "free" although it is taken (`EmailLooksFree`): `Register`
cannot tell a failed query from no row. An INSERT is sent (`CreateUserSent`),
PostgreSQL commits or rejects it in a step of its own (`Commits`, `Rejects`),
and the handler reads the reply, or an error in its place (`UserCreated`,
`CreateUserFails`); unless it has given up before, on a lost connection or a
browser that went (`CreateUserAbandoned`), or has died with its process. So a
row can appear after the 500, or after the death. The process dies at any step;
calls still under way are never answered.
Equality of passwords stands for Argon2id; signing may fail. Hub and queue are
enabled, as in config.yaml; with either disabled its step falls away.

`Accounts` is an atomic map from emails to accounts. A call may ask for an
account, and what it has asked for is `pending` until it opens or is dropped;
only a call whose account has opened is told so. Whoever is answered 500 has
no account, or has one or may still get one, and that one is never announced.
For a call that has been answered or was lost with the process two things may
still be done: to open the account it had asked for, and to write its audit
row, if it was announced or had found its account. The table of rows maps to
the map (the row with an email is its account), `inserting` to `pending`, other
steps between two queries to nothing, and a death to the loss of all calls
under way.

### `Lifecycle`, `Service`: main, Setup, Start, Shutdown

`main` is where the main goroutine is, a place per step of Setup (each may
fail, and then nothing that is open is closed), the wait for a signal, the
drain and the three closings. `pool`, `redis`, `qmgr`, `hub`, `http` are the
fields of `Server`; config.yaml decides whether redis, the hub and the queue
are there, so the model takes each choice where Setup asks. `quit` is the
channel of capacity one on which signals and a failed listener meet. `req` and
`audit` follow a request and its audit goroutine to where they touch what
Shutdown closes; `waiting` and `holding` are the pool. A registration asks the
pool twice, to look for the email (a refusal is ignored, as in
auth.service.go:33) and to insert, and hashes the password in between without
a connection. A browser that goes takes its registration out of the pool's
queue or out of its query (`BrowserGoes`; a health check has a context of its
own). `found` is history. An
upgraded connection is neither waited for nor closed by Shutdown: it leaves
`InFlight`. pgxpool and net/http are modelled from how server.go uses them:
acquires are served in order and refused once Close has begun, Close returns
when no connection is held, Shutdown returns when no request is in flight or
after its 30 seconds.

`Service` is a house with guests: subsystems are stacked, the house opens only
on its base (the database), guests come in only while it is open, the stack is
taken down only after they have left or their time is up, last on first off,
and nobody misses a subsystem that is still on it. The stack is database,
cache and queue; the hub, which Setup makes and Shutdown leaves alone, is not
on it. The mapping has the
subsystems that are up in the order of Setup as the stack, requests as guests,
and what a request found closed as what it missed; pool, signals and audit
goroutines are not seen.

### `Tokens`, `MCTokens`: sign, verify, refresh

The server has no table of sessions. `tokens` is everything it ever signed
(clients keep and send what they like), `secret` the generation of each of the
two environment variables, `accounts` the rows, `at` and `uid` a request
between its look for the row and the signing, or behind Guard. `now` counts
ticks; `Unix` drops the fraction of a second, as jwt's NumericDate does.
`sessions` and `rotated` are history: when who logged in, and when the refresh
secret was last replaced. `Restart` may replace either secret
or both; `AccountGoes` deletes a row. `MCTokens` bounds the clock, the tokens
and the restarts.

### `Pipeline`, `MCPipeline`: routes and middlewares

`Mounted` is the list of routes in the order in which setupRouter,
modules.Register and setupDocs mount them under a configuration, and `Taken`
mux's choice: the first that fits path and method. A request then goes through
the enabled middlewares from the outside in, one place (`at`) for each point
where another request may come between: the look for `logs/`, the Mkdir, each
opening and each closing of a file. Handlers are the set of statuses they can
answer; the other modules say what else they do. `sent` is what the client got,
`recorded` what `utils.ResponseWriter` noted, `logged` the line in events.log.
`open` are the descriptors in use, of which there are `MaxFiles`; somebody may
run `make clean` (`RemoveLogs`). `met` is history: whether another request made
`logs/` between this one's look and its Mkdir (`outrun`), whether `logs/` went
away behind its look (`removed`), whether no descriptor was left when it wanted
one (`short`).

## What the runs check

Fairness. A goroutine that can run is run, so each goroutine's steps are
weakly fair; a database query returns (it fails if the connection does); the
broker delivers what is ready; PostgreSQL decides the INSERTs it was sent, also
those nobody waits for; the drain of a shutdown ends, by its timer at
the latest. Nothing is assumed of browsers, of who sends requests, of signals,
of restarts, of a port that may be taken, or of the lock beyond `sync.RWMutex`: a writer holds it
for one update and readers leave after a loop without blocking steps, so weak
fairness is enough.

| Run | Instance | Shows |
|---|---|---|
| `hub_clients` | 2 browsers, 1 registration, channel of 1 | `NoPanic`, `ImplementsMailboxes`, `NobodySkipped` (a broadcast has queued, or dropped, its frame for all it has passed), `UnregisteredForGood`, `BroadcastReturns` whatever browsers do, `GonePeerIsReleased` whichever pump notices first |
| `hub_emitters` | 1 browser, 2 registrations, channel of 2 | `FramesInOrder` (no frame twice; never the job before its user), `QueuedFrameArrives` |
| `rate_limiter` | 2 addresses, limit 2, window 2, 7 instants, 6 requests | `LessThanTwiceTheLimit`, `RefusalsAreEarned`, `EvictionIsInvisible` (implements `FixedWindow`), `ExpiredEntriesGo` |
| `rate_limiter_sliding` | the same | the limiter is not the sliding window its comment says |
| `job_queue` | 4 jobs (2 fail, 1 undecodable), 2 workers, 2 interruptions | `NoJobIsLost`, `OneEmailPerInterruption`, `ImplementsDurableQueue`, `GoodJobsGetDone` beside jobs that fail for ever |
| `job_queue_attempts` | the same | `default_attempts` bounds nothing |
| `registration` | 3 registrations, 2 for one email, 1 login, 1 crash | `OneAccountPerEmail`, `AnswersAreTrue`, `EffectsFollowAccounts`, `ImplementsAccounts`, `CallsAreAnswered` |
| `registration_announced` | the same | an account can exist that is never announced |
| `lifecycle` | 1 registration, 1 health check, 1 socket, a pool of 1, 1 signal | `GracefulShutdown` (nobody finds a subsystem closed, or is cut off, before the 30 seconds are over), `ImplementsService`, `SignalEndsProcess`, `RequestsEnd` (though a registration queues for the one connection twice, and behind audits) |
| `tokens` | 2 users, 1 request at a time, seconds of 2 ticks, lifetimes of 3 and 5, 12 ticks, 4 tokens, each secret replaced once | `SessionsEnd` (no chain of refreshes outlives a login by more than both lifetimes), `RotationEndsSessions` (replacing the refresh secret alone ends the sessions before it once an access token's lifetime has passed), `OnlyOldTokensRefused` |
| `pipeline` | 2 requests out of 13 kinds, 4 configurations, 3 descriptors, `logs/` removed twice | `FilesAreReturned`, `LostForAReason`, `LogIsTrue`, `OnlyDocsAreHidden`, `PreflightsStopAtCORS` (a preflight that a route takes is not limited, logged or handled, and 204 is its answer alone) |
| `pipeline_upgrade` | 1 request out of the same, config.yaml as it is | a correct WebSocket handshake is not answered 101 |

Why the bounds are enough. Hub: channels of 1 and 2 are full after one or two
frames of the at most three or five a browser can be sent, so both branches of
the select are taken with the browser stalled, gone or reading; two clients
are what a broadcast needs to be between one and the next; the theorems cover
all sizes. Rate limiter: with limit 2 and window 2, six requests in seven
instants fill two windows of an address and refuse some in each, with
evictions in between. Job queue: one worker can hold a failing job while the
other works, both can hold failing ones, and each job can be interrupted
twice. `attempts` saturates above the bound the run checks. Registration: the
race needs two calls, the second email and the login show that others are
untouched, and an INSERT can outlive its call by an answer, by the crash, or
both; the theorems cover any number of calls and crashes. This is the longest
run, some 300,000 states and two minutes. Lifecycle: with
one connection a registration, its audit goroutine and a health check queue
for it in every order, before, during and after the closing of the pool; one
signal and a failing listener fill the channel of capacity one; the safety
properties are proved for any requests and any pool. Tokens: twelve ticks are
more than the two lifetimes together, so that a session ends within a run also
when the last moment is used to refresh; lifetimes that are not whole seconds
make every rounding happen; four tokens are two logins, or one and two
refreshes. Pipeline: two requests are what a race for `logs/` takes, three
descriptors run out when both log at a time, and the inputs have one of each
kind that a route or a middleware treats differently, under the shipped
configuration and those that change a route's or a middleware's place. The
requests are interchangeable, hence `SYMMETRY` in this run, which checks no
liveness.

`CHECK_DEADLOCK` stays on everywhere: each model has an explicit step for
having nothing left to do (`AllServed`, `Quiet`, `Done`, `ClockStopped`, `Ended`), whose
guard says what must then hold.

### Disagreements found

* `SlidingWindow`: ratelimit_middleware.go:17 and :27 promise a sliding
  window; almost twice the limit gets through around the end of a fixed one
  (`2 * Limit - 1` requests, as `LessThanTwiceTheLimit` has it).
* `AttemptsAreBounded`: config.go:176 calls `default_attempts` the "retry
  count on failure"; nothing reads it, and failed jobs are requeued for ever
  without backoff.
* `AccountsAreAnnounced`: user.event.go:5 says the event is emitted after an
  account is created; if the INSERT commits and its reply is lost, or commits
  after the handler gave up or the process died, it is not, and a retry is
  answered 409.
* `HubUpgrades`: hub.go:58 says that ServeHTTP upgrades the connection, and
  README.md:16 lists the hub as a feature; with the logger enabled, as in
  config.yaml, the writer that the hub is given
  (logger_middleware.go:47, http.go:62-65) is no `http.Hijacker`, and every
  handshake is answered 500.

Others stand in the models as exceptions that a property names:

* README.md:86 says where the documentation is served, but the frontend's
  catch-all is mounted before it (server.go:276-279), so it is reached only in a
  server without frontend (`OnlyDocsAreHidden` states exactly this exception).
* cors_middleware.go:11 says that preflight requests are answered 204; in a
  server without frontend mux answers one to a GET or POST route with 405
  itself, without running the middleware that would allow it
  (`PreflightsStopAtCORS`).
* logger.go:19 says that `logs/` is created if it does not exist, and its Stat
  and Mkdir (:25-26) are two steps: of the requests that look while it is
  missing, one makes it and the others are refused by Mkdir, get a nil logger
  and lose their connection. `LostForAReason` names this (`outrun`); without
  that reason TLC finds it violated by two requests and one `make clean`.
* logger_middleware.go:16 says that it logs every HTTP request; it never sees
  the 204, 429, 404 and 405 that CORSMiddleware, the limiter and mux answer
  (`NotSeenByLogger`).
* server.go:3 and :373 say that Shutdown tears down every subsystem; it does
  nothing to the hub (`ImplementsService` has the three it closes).

## What is proved

TLAPS proves, for every value of the constants that the modules' named
assumptions allow (`SendBuf`, `Limit`, `Window`, `PoolSize`, `Second` positive;
browsers and emitters named apart; calls disjoint and with an email and a
password each; kinds of requests disjoint; malformed and failing jobs distinct):

* `HubProofs`: `TypeCorrect`, `Invariance`, `NeverPanics`, `LeavesForGood`. The
  argument: `NoPanic` is not inductive, since it says nothing of why the
  channel a broadcast sends on is open. `IInv` adds that a broadcast under way
  is a reader of the lock and the clients it has yet to reach are still in
  the map (`ReadersIterate`: unregister waits for readers), that a client in
  the map has a readPump that has not come to closing (`MembersAreServed`), and
  that the channel is closed exactly after that point (`PumpStates`).
* `HubFramesProofs`: `InOrder`, `NobodyIsSkipped` and `Refinement`. What a browser has received,
  what its writePump has in hand and what its channel holds are one sequence
  of frames, and a step keeps it, takes out the frame in hand, or puts one
  behind the others (`StreamStep`). A frame in it says how far the broadcast
  that sent it has come (`Known`), so the one put behind it is not the same and
  not of an earlier event. A connection is closed only after its client has
  left the map or its browser has gone (`ConnInv`), so nothing else is lost.
  `Refinement` maps each step to one of `Mailboxes` or to a stutter. It needs
  all of this, and that a pump that writes has one frame in hand, that a client
  is in the map from its registration until readPump takes it out, and that the
  first broadcast of an emitter is for its user (`HallInv`).
* `RateLimiterProofs`: `TypeCorrect`, `Invariance`, `LessThanTwice`,
  `RefusalsEarned`, `Refinement`. `IInv` ties the map to the history: an entry's
  window was opened by the first of the requests last let through, and the
  request `Limit` places before that one is more than a window old
  (`OpeningIsFirst`; `EvictedIsOver` says so once the entry is gone). Requests
  `2 * Limit - 1` places apart thus lie on both sides of a whole window. `Refinement` maps
  the map to its unexpired entries; a round of cleanup is a stutter.
* `RegistrationProofs`: `TypeCorrect`, `Invariance`, `OneAccount`, `TrueAnswers`,
  `EffectsFollow`, `Refinement`. `IInv` says what each place in the code implies of the tables,
  the hub and the queue; uniqueness rests on the UNIQUE constraint of the
  migration, not on the look before it. It is also what makes the mapping of
  `Refinement` a map: the row with an email is one. An INSERT still to be
  decided has no row yet, and belongs to a call that waits, was answered 500 or
  died. `BookInv` adds that a registration that has not read its row has not
  been announced, and that a login that has not looked has found nobody.
  `Refinement` is about a commit at any time: before the answer, after a 500,
  and after the process is gone.
* `LifecycleProofs`: `TypeCorrect` (with the pool never over its size),
  `Invariance`, `Graceful`, `InReverse`, `Refinement`. `GracefulShutdown` is not inductive: it
  says nothing of why requests are gone when the closing starts. `IInv` adds
  that nothing is accepted any more once the drain begins
  (`ClosedToRequests`), that after it either nothing is in flight or the time
  was up (`DrainedBeforeClosing`), which subsystems are closed at which place
  of main (`ReverseOrder`), and who holds a connection (`HoldersQuery`). `Refinement` adds which subsystems
  Setup has not come to yet at which place of main (`StackInv`); with it the stack of `Service` is
  written out for every place (`PileIs`), so that each step of Setup puts one on
  it, each closing takes off the one on top, and a subsystem that a request
  finds closed is on it no more.
* `TokensProofs`: `TypeCorrect`, `Invariance`, `EverySessionEnds`, `RotationEnds`,
  `InTime`. `IInv` ties each token to a login: one signed with the refresh secret
  expires within a refresh lifetime of it, one signed with the access secret
  within both (`TokensBelongToSessions`), and nothing is signed with a generation
  of a secret still to come (`SecretsAreNew`). `RotationEnds` needs of
  `TokensBelongToSessions` that an access token whose login is older than the
  refresh secret expires within an access lifetime of its replacement: it was
  signed before, and no token expires later than its lifetime from when it is
  signed (`TokensRunOut`). That the two environment variables hold different
  secrets is part of the model: the code does not check it.
* `PipelineProofs`: `TypeCorrect`, `Invariance`, `FilesReturned`, `NothingLost`,
  `TrueLog`, `OnlyDocsHidden`, `PreflightsStop`, for any set of requests, kinds
  of requests, configurations and descriptors. `IInv` says of each place in the
  chain which files the request has open, what has been sent and recorded
  (`PlaceInv`, `FilesInv`), and why it may be lost (`ReasonInv`): whoever is
  about to Mkdir while `logs/` is there was outrun, whoever is behind its look
  while `logs/` is not had it removed.
  `OnlyDocsHidden` is about the list of routes under any configuration: up to
  the hub's each has a path of its own, from the frontend's on all are the
  frontend's or the documentation's (`MountedInOrder`). `PreflightsStop` needs that
  whoever is behind CORSMiddleware is no preflight, if that is mounted
  (`PreflightInv`): since each middleware goes to the next one mounted inside,
  nothing passes it (`NotPast`).
* `JobQueueProofs`: `TypeCorrect`, `Invariance`, `OneEmail`, `NothingLost`,
  `Refinement`, for any jobs, workers and interruptions. `IInv` says that no job
  is in two places or twice in one (`PlacesInv`), that a delivery is in the
  buffer or with one worker while the channel is open, and that what a worker
  still holds when it is closed is ready again (`HoldersInv`), and that each
  success of a handler is paid for by an ack or by an interruption
  (`HandledInv`): a worker that still processes a job on a closed channel leaves
  room for one more. `Refinement` needs it, since an ack must find its job
  stored and handled.

Only model-checked: the liveness properties. The prover has neither fairness
nor ENABLED. Every invariant, action property and refinement that a
passing run checks is proved. The inductive invariants (`IInv` and the like) are
proved and not listed in the runs; TLC checks those of `Hub`, `RateLimiter`,
`Registration`, `Lifecycle` and `Tokens` when `INVARIANT IInv` is added to a
configuration.

## What is not modelled, and why

* `TimeoutMiddleware` (its handler outlives the 408 and writes to the same
  ResponseWriter): it is mounted nowhere, so no behaviour of the program
  reaches it. The same holds of `Cache.Get`, `Set`, `Del`, `Exists`, of
  the queries nobody calls, and of `Text`, `Error` and `SetCookie`.
* Password hashing and its encoding: a pure cryptographic function.
  `Registration` has what matters of it, a comparison and a failure.
* Configuration defaults and overrides, which one goroutine applies once before
  anything else runs; `Lifecycle` has that it may fail, `Pipeline` what it
  enables.
* Formatting, logging lines and the serving of files: input and output without
  state that another actor could disturb. `Pipeline` has the statuses.
* A connection that net/http accepts in the very moment Shutdown begins: it is
  taken for one accepted before.
* `Registration`, `JobQueue` and `Hub` are composed by what passes between them
  (the announcement, the publish and its error) and not by one module with all
  their variables: its states are their product, and no property relates a
  worker to a request except through the queue.
* Paths are clean and HEAD requests are left out; addresses are what `GetIP`
  returns, headers included.
* The web frontend, the TypeSpec sources, build files and scripts: they are no
  part of the running server.
