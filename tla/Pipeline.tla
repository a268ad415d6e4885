------------------------------ MODULE Pipeline ------------------------------
(***************************************************************************)
(* What happens to a request: the routes and middlewares that setupRouter  *)
(* and setupDocs of server.go mount, in that order, and the two log files  *)
(* that requests share.                                                    *)
(*                                                                         *)
(* mux takes the first route that fits.  Only then does it run the         *)
(* middlewares, each inside the one mounted before it.  RequestID opens    *)
(* logs/app.jsonl, and keeps it open for as long as the request lasts;     *)
(* the logger appends a line to logs/events.log once the handler is done.  *)
(* Handlers are their answers here; what else they do is in the modules    *)
(* Registration, Tokens and Hub, and the limiter's count in RateLimiter.   *)
(***************************************************************************)
EXTENDS Naturals, Sequences, FiniteSets, SequencesExt

CONSTANTS
  Requests,    (* connections, each of which sends one request             *)
  Inputs,      (* the requests that clients send                           *)
  Configs,     (* the configurations the server may be started with        *)
  MaxFiles,    (* descriptors left for log files                           *)
  MaxRemovals  (* bounds how often somebody runs make clean                *)

Options == {"requestID", "cors", "rateLimit", "logger", "hub", "web", "docs"}
Paths == {"health", "register", "login", "refresh", "me", "ws", "docs", "openapi", "other"}
Methods == {"GET", "POST", "OPTIONS"}
(* Of a body, a token or a handshake: cannot be read; can, but is refused. *)
Contents == {"malformed", "refused", "good"}

ASSUME InputsAssumption ==
  Inputs \subseteq [path : Paths, method : Methods, content : Contents]
ASSUME ConfigsAssumption == Configs \subseteq [Options -> BOOLEAN]
ASSUME FilesAssumption == MaxFiles \in Nat
ASSUME RemovalsAssumption == MaxRemovals \in Nat

VARIABLES
  cfg,       (* what config.yaml enables, and whether New got a webHandler *)
  logs,      (* the directory logs/ exists                                 *)
  open,      (* open log files, each with the request that opened it       *)
  input,     (* what a request asks for                                    *)
  at,        (* where it is                                                *)
  sent,      (* the status its client was sent, 0 before                   *)
  recorded,  (* ResponseWriter.StatusCode                                  *)
  logged,    (* the status in its line of events.log, 0 without one        *)
  removals,  (* how often logs/ was removed                                *)
  met        (* history: what a request has met on its way                 *)

vars == <<cfg, logs, open, input, at, sent, recorded, logged, removals, met>>

Stages == {"requestID", "cors", "rateLimit", "logger", "handler"}
Unanswered == Stages \cup {"new", "mkdir", "openApp"}
Places == Unanswered \cup {"append", "closeLog", "unwind", "done", "aborted"}
Statuses ==
  {101, 200, 201, 204, 206, 301, 304, 400, 401, 403, 404, 405, 409, 412, 416, 422, 429, 500}

(* Another request has made logs/ between this one's look and its Mkdir;   *)
(* logs/ is not there after it has looked, or it never looks; no descriptor*)
(* was left when it wanted one.                                            *)
Hindrances == {"outrun", "removed", "short"}
NoInput == [path |-> "other", method |-> "GET", content |-> "good"]

(* One answer each: nothing is sent before the handler but by what ends    *)
(* the request there.                                                      *)
TypeOK ==
  /\ cfg \in Configs
  /\ logs \in BOOLEAN
  /\ open \subseteq Requests \X {"app", "events"} /\ IsFiniteSet(open)
  /\ Cardinality(open) <= MaxFiles
  /\ input \in [Requests -> Inputs \cup {NoInput}]
  /\ at \in [Requests -> Places]
  /\ sent \in [Requests -> Statuses \cup {0}]
  /\ \A r \in Requests : sent[r] = 0 <=> at[r] \in Unanswered \cup {"aborted"}
  /\ recorded \in [Requests -> Statuses \cup {0}]
  /\ logged \in [Requests -> Statuses \cup {0}]
  /\ removals \in 0..MaxRemovals
  /\ met \in [Requests -> SUBSET Hindrances]

(* main's logger has made the directory.                                   *)
Init ==
  /\ cfg \in Configs
  /\ logs = TRUE
  /\ open = {}
  /\ input = [r \in Requests |-> NoInput]
  /\ at = [r \in Requests |-> "new"]
  /\ sent = [r \in Requests |-> 0]
  /\ recorded = [r \in Requests |-> 0]
  /\ logged = [r \in Requests |-> 0]
  /\ removals = 0
  /\ met = [r \in Requests |-> {}]

-----------------------------------------------------------------------------
(* Routes.                                                                 *)

Route(path, methods, handler) == [path |-> path, methods |-> methods, handler |-> handler]

HealthRoutes == <<Route("health", {"GET"}, "health")>>

AuthRoutes ==
  <<Route("register", {"POST"}, "register"), Route("login", {"POST"}, "login"),
    Route("refresh", {"POST"}, "refresh"), Route("me", {"GET"}, "me")>>

(* modules.Register.                                                       *)
APIRoutes == HealthRoutes \o AuthRoutes

DocsRoutes == <<Route("openapi", Methods, "openapi"), Route("docs", Methods, "docs")>>

Enabled(option, routes) == IF cfg[option] THEN routes ELSE <<>>

FrontendBeforeHub ==
  APIRoutes
    \o Enabled("web", <<Route("any", Methods, "web")>>)
    \o Enabled("hub", <<Route("ws", Methods, "hub")>>)
    \o Enabled("docs", DocsRoutes)

(* The frontend's PathPrefix("/") is mounted before the documentation.     *)
Mounted ==
  APIRoutes
    \o Enabled("hub", <<Route("ws", Methods, "hub")>>)
    \o Enabled("web", <<Route("any", Methods, "web")>>)
    \o Enabled("docs", DocsRoutes)

OnPath(route, in) == route.path \in {in.path, "any"}
Fits(route, in) == OnPath(route, in) /\ in.method \in route.methods

(* The route mux takes, 0 if none fits.                                    *)
Taken(in) == SelectInSeq(Mounted, LAMBDA route : Fits(route, in))
Handler(r) == Mounted[Taken(input[r])].handler

-----------------------------------------------------------------------------
(* The way through the middlewares.                                        *)

LimitBeforeCORS ==
  [requestID |-> 1, rateLimit |-> 2, cors |-> 3, logger |-> 4, handler |-> 5]

Order == [requestID |-> 1, cors |-> 2, rateLimit |-> 3, logger |-> 4, handler |-> 5]

Inside(position) == {s \in Stages : Order[s] > position /\ (s = "handler" \/ cfg[s])}
First(stages) == CHOOSE s \in stages : \A t \in stages : Order[s] <= Order[t]

Goes(r, place) == at' = [at EXCEPT ![r] = place]

(* next.ServeHTTP, from a middleware or, from position 0, by mux.          *)
ServeNext(r, position) == Goes(r, First(Inside(position)))

WithoutDefer == "done"

(* What is left to do for a request whose handler or middleware returns.   *)
Returned == IF cfg.requestID THEN "unwind" ELSE "done"

WriteHeader(r, status) == sent' = [sent EXCEPT ![r] = status]

(* mux answers without any middleware.                                     *)
NoRoute(r, in) ==
  /\ at[r] = "new"
  /\ Taken(in) = 0
  /\ input' = [input EXCEPT ![r] = in]
  /\ WriteHeader(r, IF \E i \in DOMAIN Mounted : OnPath(Mounted[i], in) THEN 405 ELSE 404)
  /\ Goes(r, "done")
  /\ UNCHANGED <<cfg, logs, open, recorded, logged, removals>>

Arrive(r, in) ==
  /\ at[r] = "new"
  /\ Taken(in) # 0
  /\ input' = [input EXCEPT ![r] = in]
  /\ ServeNext(r, 0)
  /\ UNCHANGED <<cfg, logs, open, sent, recorded, logged, removals>>

-----------------------------------------------------------------------------
(* RequestIDMiddleware.  NewLogger looks for the directory, makes it if it *)
(* is missing, and opens the file.  When it cannot it returns nil, and the *)
(* first use of a nil *Logger panics: net/http recovers, and drops the     *)
(* connection.                                                             *)

MakesWithoutLooking(r) ==
  /\ at[r] = "requestID"
  /\ Goes(r, "mkdir")
  /\ UNCHANGED <<cfg, logs, open, input, sent, recorded, logged, removals>>

StatLogs(r) ==
  /\ at[r] = "requestID"
  /\ Goes(r, IF logs THEN "openApp" ELSE "mkdir")
  /\ UNCHANGED <<cfg, logs, open, input, sent, recorded, logged, removals>>

(* Mkdir fails when the directory is there.                                *)
MkdirLogs(r) ==
  /\ at[r] = "mkdir"
  /\ Goes(r, IF logs THEN "aborted" ELSE "openApp")
  /\ logs' = TRUE
  /\ UNCHANGED <<cfg, open, input, sent, recorded, logged, removals>>

CanOpen == logs /\ Cardinality(open) < MaxFiles

OpenFails(r) ==
  /\ at[r] = "openApp"
  /\ ~CanOpen
  /\ Goes(r, "aborted")
  /\ UNCHANGED <<cfg, logs, open, input, sent, recorded, logged, removals>>

(* Whether an ID can be drawn makes no difference here.                    *)
RequestID(r) ==
  /\ at[r] = "openApp"
  /\ CanOpen
  /\ open' = open \cup {<<r, "app">>}
  /\ ServeNext(r, Order.requestID)
  /\ UNCHANGED <<cfg, logs, input, sent, recorded, logged, removals>>

(* defer logger.Close()                                                    *)
CloseLogger(r) ==
  /\ at[r] = "unwind"
  /\ open' = open \ {<<r, "app">>}
  /\ Goes(r, "done")
  /\ UNCHANGED <<cfg, logs, input, sent, recorded, logged, removals>>

-----------------------------------------------------------------------------
(* CORSMiddleware, the limiter's Middleware.                               *)

PreflightGoesOn(r) ==
  /\ at[r] = "cors"
  /\ input[r].method = "OPTIONS"
  /\ WriteHeader(r, 204)
  /\ ServeNext(r, Order.cors)
  /\ UNCHANGED <<cfg, logs, open, input, recorded, logged, removals>>

Preflight(r) ==
  /\ at[r] = "cors"
  /\ input[r].method = "OPTIONS"
  /\ WriteHeader(r, 204)
  /\ Goes(r, Returned)
  /\ UNCHANGED <<cfg, logs, open, input, recorded, logged, removals>>

CORS(r) ==
  /\ at[r] = "cors"
  /\ input[r].method # "OPTIONS"
  /\ ServeNext(r, Order.cors)
  /\ UNCHANGED <<cfg, logs, open, input, sent, recorded, logged, removals>>

Admit(r) ==
  /\ at[r] = "rateLimit"
  /\ ServeNext(r, Order.rateLimit)
  /\ UNCHANGED <<cfg, logs, open, input, sent, recorded, logged, removals>>

TooManyRequests(r) ==
  /\ at[r] = "rateLimit"
  /\ WriteHeader(r, 429)
  /\ Goes(r, Returned)
  /\ UNCHANGED <<cfg, logs, open, input, recorded, logged, removals>>

-----------------------------------------------------------------------------
(* LoggerMiddleware, around the handler.                                   *)

(* The writer that the handler is given takes a status to be 200 until     *)
(* WriteHeader says otherwise.                                             *)
WrapWriter(r) ==
  /\ at[r] = "logger"
  /\ recorded' = [recorded EXCEPT ![r] = 200]
  /\ ServeNext(r, Order.logger)
  /\ UNCHANGED <<cfg, logs, open, input, sent, logged, removals>>

(* What it has is WriteHeader; http.Hijacker it does not have.             *)
Hijackable == ~cfg.logger

ParseBody(content) == content # "malformed"

(* Validate, before the handlers that expect a body.                       *)
Validated(content, statuses) ==
  IF ~ParseBody(content) THEN {400} ELSE IF content = "refused" THEN {422} ELSE statuses

(* Guard, before Me.                                                       *)
Guarded(content, statuses) == IF content = "good" THEN statuses ELSE {401}

(* The checks of gorilla's Upgrader, in its order.                         *)
Upgraded(method, content) ==
  CASE content = "malformed" -> {400}
    [] content # "malformed" /\ method # "GET" -> {405}
    [] content = "refused" /\ method = "GET" -> {403}
    [] content = "good" /\ method = "GET" -> IF Hijackable THEN {101} ELSE {500}

Register(content) == Validated(content, {201, 409, 500})
Login(content) == Validated(content, {200, 401, 500})
RefreshToken(content) == Validated(content, {200, 401, 500})

(* A uid that a token carries can be parsed: Me's 400 does not occur.      *)
Me(content) == Guarded(content, {200, 404})

(* Reading openapi.yaml fails until make docs has made it; so may Scalar.  *)
OpenAPI == {200, 404}
Scalar == {200, 404, 500}

(* FileServer's and ServeFile's answers to ranges, conditions and paths    *)
(* among them.                                                             *)
WebFS == {200, 206, 301, 304, 400, 403, 404, 412, 416, 500}

Answers(handler, in) ==
  CASE handler = "health"   -> {200}
    [] handler = "register" -> Register(in.content)
    [] handler = "login"    -> Login(in.content)
    [] handler = "refresh"  -> RefreshToken(in.content)
    [] handler = "me"       -> Me(in.content)
    [] handler = "hub"      -> Upgraded(in.method, in.content)
    [] handler = "web"      -> WebFS
    [] handler = "openapi"  -> OpenAPI
    [] handler = "docs"     -> Scalar

WriteHeaderUnrecorded(r, status) ==
  /\ WriteHeader(r, status)
  /\ UNCHANGED recorded

(* ResponseWriter.WriteHeader, where the writer is wrapped.                *)
HandlerWrites(r, status) ==
  /\ WriteHeader(r, status)
  /\ recorded' = [recorded EXCEPT ![r] = IF cfg.logger THEN status ELSE @]

Handle(r) ==
  /\ at[r] = "handler"
  /\ \E status \in Answers(Handler(r), input[r]) : HandlerWrites(r, status)
  /\ Goes(r, IF cfg.logger THEN "append" ELSE Returned)
  /\ UNCHANGED <<cfg, logs, open, input, logged, removals>>

(* OpenFile makes the file when it is missing, not the directory.          *)
AppendLine(r) ==
  /\ at[r] = "append"
  /\ CanOpen
  /\ open' = open \cup {<<r, "events">>}
  /\ logged' = [logged EXCEPT ![r] = recorded[r]]
  /\ Goes(r, "closeLog")
  /\ UNCHANGED <<cfg, logs, input, sent, recorded, removals>>

AppendFails(r) ==
  /\ at[r] = "append"
  /\ ~CanOpen
  /\ Goes(r, Returned)
  /\ UNCHANGED <<cfg, logs, open, input, sent, recorded, logged, removals>>

CloseLog(r) ==
  /\ at[r] = "closeLog"
  /\ open' = open \ {<<r, "events">>}
  /\ Goes(r, Returned)
  /\ UNCHANGED <<cfg, logs, input, sent, recorded, logged, removals>>

-----------------------------------------------------------------------------
(* make clean.  Files that are open stay usable.                           *)
RemoveLogs ==
  /\ removals < MaxRemovals
  /\ logs
  /\ logs' = FALSE
  /\ removals' = removals + 1
  /\ UNCHANGED <<cfg, open, input, at, sent, recorded, logged>>

Over(r) == at[r] \in {"done", "aborted"}
AllServed == (\A r \in Requests : Over(r)) /\ UNCHANGED vars

(* History.                                                                *)
Arrives(r) == at[r] = "new" /\ at'[r] # "new"
HasLooked(r) == at[r] \notin {"new", "requestID", "mkdir"}

Meets(r, what) ==
  \/ /\ what = "outrun"
     /\ at[r] = "mkdir" /\ at'[r] = "mkdir"
     /\ ~logs /\ logs'
  \/ /\ what = "removed"
     /\ \/ HasLooked(r) /\ ~Over(r) /\ logs
        \/ Arrives(r) /\ ~cfg.requestID
     /\ ~logs'
  \/ /\ what = "short"
     /\ at[r] \in {"openApp", "append"} /\ at'[r] # at[r]
     /\ Cardinality(open) = MaxFiles

Notice == met' = [r \in Requests |-> met[r] \cup {what \in Hindrances : Meets(r, what)}]

Middleware(r) ==
  \/ StatLogs(r) \/ MkdirLogs(r) \/ OpenFails(r) \/ RequestID(r) \/ CloseLogger(r)
  \/ Preflight(r) \/ CORS(r)
  \/ Admit(r) \/ TooManyRequests(r)
  \/ WrapWriter(r) \/ AppendLine(r) \/ AppendFails(r) \/ CloseLog(r)

Step ==
  \/ \E r \in Requests :
       \/ \E in \in Inputs : NoRoute(r, in) \/ Arrive(r, in)
       \/ Middleware(r)
       \/ Handle(r)
  \/ RemoveLogs

Next == (Step /\ Notice) \/ AllServed

Spec == Init /\ [][Next]_vars

-----------------------------------------------------------------------------
(* Whatever way a request ends, the log files it has opened are closed by  *)
(* then: it leaves none behind (requestid_middleware.go:18,                *)
(* logger_middleware.go:73).                                               *)
FilesAreReturned ==
  /\ \A file \in open : ~Over(file[1])
  /\ \A r \in Requests : <<r, "events">> \in open => at[r] = "closeLog"

IsPreflight(r) == cfg.cors /\ input[r].method = "OPTIONS"

(* What LoggerMiddleware never sees: requests that mux has no route for,   *)
(* preflights, and what the limiter refuses.                               *)
NotSeenByLogger(r) ==
  \/ ~cfg.logger
  \/ Taken(input[r]) = 0
  \/ IsPreflight(r)
  \/ sent[r] = 429

(* A request is aborted only if it was outrun: of the requests that look   *)
(* while logs/ is missing all but the one that makes it are, though "the   *)
(* logs/ directory and app.log file are created if they do not exist"      *)
(* (logger.go:19, :25-26); or if logs/ was removed between its look and its*)
(* open, or no descriptor was left.  Beyond that, a request is missing from*)
(* events.log only if logs/ was away or no descriptor was left when it     *)
(* wanted to append, or if the logger never saw it, though where it is     *)
(* mounted it "logs every HTTP request" (logger_middleware.go:16).  What   *)
(* happened to logs/ before a request came disturbs none that looks.       *)
LostForAReason ==
  \A r \in Requests :
    /\ at[r] = "aborted" => met[r] # {}
    /\ at[r] \in {"unwind", "done"} /\ logged[r] = 0 /\ ~NotSeenByLogger(r)
         => met[r] \cap {"removed", "short"} # {}

(* A line of events.log has the status that the client was sent: requests  *)
(* served at a time, whoever answered them, each have their own            *)
(* (logger_middleware.go:47-50, http.go:68-71).                            *)
LogIsTrue == \A r \in Requests : logged[r] # 0 => logged[r] = sent[r]

(* A request whose path and method have a handler gets that handler, with  *)
(* one exception: the frontend is mounted before the documentation, and    *)
(* hides it (server.go:266-277, :314-352).                                 *)
OnlyDocsAreHidden ==
  \A r \in Requests :
    at[r] = "handler" =>
      \A i \in DOMAIN Mounted :
        Fits(Mounted[i], input[r]) =>
          \/ Mounted[i].handler \in {Handler(r), "web"}
          \/ Handler(r) = "web" /\ Mounted[i].handler \in {"docs", "openapi"}

(* A preflight that mux has a route for goes no further than               *)
(* CORSMiddleware: it is neither limited, nor logged, nor handled, and     *)
(* answered 204, which nothing else is (server.go:245-264,                 *)
(* cors_middleware.go:29-32).  One that mux has none for never gets there: *)
(* without the frontend that is so of every route but the hub's and the    *)
(* documentation's, whose preflights mux answers 405, though "preflight    *)
(* OPTIONS requests are answered immediately with 204"                     *)
(* (cors_middleware.go:11-12).                                             *)
PreflightsStopAtCORS ==
  \A r \in Requests :
    /\ IsPreflight(r) =>
         /\ at[r] \notin {"rateLimit", "logger", "handler", "append", "closeLog"}
         /\ sent[r] \in IF Taken(input[r]) = 0 THEN {0, 404, 405} ELSE {0, 204}
         /\ recorded[r] = 0
    /\ sent[r] = 204 => IsPreflight(r)

(* The hub "upgrades the HTTP connection to WebSocket" (hub.go:58): a      *)
(* handshake in which nothing is wrong is answered 101.                    *)
HubUpgrades ==
  \A r \in Requests :
    /\ sent[r] \notin {0, 429}
    /\ Taken(input[r]) # 0 /\ Handler(r) = "hub"
    /\ input[r].method = "GET" /\ input[r].content = "good"
    => sent[r] = 101
=============================================================================
