--------------------------- MODULE PipelineProofs ---------------------------
(***************************************************************************)
(* What TLAPS proves of Pipeline, for every number of requests, whatever   *)
(* they ask for, every set of configurations and any bound on descriptors. *)
(***************************************************************************)
EXTENDS Pipeline, TLAPS, FiniteSetTheorems

USE InputsAssumption, ConfigsAssumption, FilesAssumption, RemovalsAssumption

-----------------------------------------------------------------------------
(* Where a request goes from a middleware: inwards, to one that is mounted.*)
Entered(place, position) ==
  /\ place \in Stages
  /\ Order[place] > position
  /\ place = "handler" \/ cfg[place]

LEMMA Entering ==
  ASSUME NEW position \in 0..4
  PROVE  /\ Entered(First(Inside(position)), position)
         /\ \A s \in Inside(position) : Order[First(Inside(position))] <= Order[s]
<1> DEFINE S == Inside(position)
<1>1. S \subseteq Stages /\ "handler" \in S
  BY DEF Inside, Stages, Order
<1>2. \A s \in Stages : Order[s] \in 1..5
  BY DEF Stages, Order
<1>3. \E s \in S : \A t \in S : Order[s] <= Order[t]
  <2>1. CASE "requestID" \in S
    BY <1>1, <1>2, <2>1 DEF Order
  <2>2. CASE "requestID" \notin S /\ "cors" \in S
    BY <1>1, <1>2, <2>2 DEF Order, Stages
  <2>3. CASE "requestID" \notin S /\ "cors" \notin S /\ "rateLimit" \in S
    BY <1>1, <1>2, <2>3 DEF Order, Stages
  <2>4. CASE "requestID" \notin S /\ "cors" \notin S /\ "rateLimit" \notin S /\ "logger" \in S
    BY <1>1, <1>2, <2>4 DEF Order, Stages
  <2>5. CASE S = {"handler"}
    BY <1>2, <2>5 DEF Stages
  <2> QED BY <1>1, <2>1, <2>2, <2>3, <2>4, <2>5 DEF Stages
<1>4. First(S) \in S /\ \A s \in S : Order[First(S)] <= Order[s]
  BY <1>3 DEF First
<1> QED BY <1>4 DEF Inside, Entered

(* Nobody gets past RequestID or CORSMiddleware, where they are mounted,   *)
(* from outside.                                                           *)
LEMMA NotPast ==
  ASSUME NEW position \in 0..1
  PROVE  /\ cfg["requestID"] /\ position = 0 => First(Inside(position)) = "requestID"
         /\ cfg["cors"] => First(Inside(position)) \in {"requestID", "cors"}
<1>1. First(Inside(position)) \in Stages
  BY Entering DEF Entered
<1>2. cfg["requestID"] /\ position = 0 => "requestID" \in Inside(position)
  BY DEF Inside, Order, Stages
<1>3. cfg["cors"] => "cors" \in Inside(position)
  BY DEF Inside, Order, Stages
<1>4. \A s \in Inside(position) : Order[First(Inside(position))] <= Order[s]
  BY Entering
<1> QED BY <1>1, <1>2, <1>3, <1>4 DEF Order, Stages

-----------------------------------------------------------------------------
(* Types.                                                                  *)
FilesTyped ==
  /\ open \subseteq Requests \X {"app", "events"} /\ IsFiniteSet(open)
  /\ Cardinality(open) <= MaxFiles

StatesTyped ==
  /\ cfg \in Configs
  /\ logs \in BOOLEAN
  /\ input \in [Requests -> Inputs \cup {NoInput}]
  /\ at \in [Requests -> Places]
  /\ sent \in [Requests -> Statuses \cup {0}]
  /\ \A r \in Requests : sent[r] = 0 <=> at[r] \in Unanswered \cup {"aborted"}
  /\ recorded \in [Requests -> Statuses \cup {0}]
  /\ logged \in [Requests -> Statuses \cup {0}]
  /\ removals \in 0..MaxRemovals

LEMMA TypeParts ==
  TypeOK <=> FilesTyped /\ StatesTyped /\ met \in [Requests -> SUBSET Hindrances]
BY DEF TypeOK, FilesTyped, StatesTyped

LEMMA TypePartsNext ==
  TypeOK' <=> FilesTyped' /\ StatesTyped' /\ met' \in [Requests -> SUBSET Hindrances]
BY DEF TypeOK, FilesTyped, StatesTyped

LEMMA TypeInit == Init => TypeOK
<1> SUFFICES ASSUME Init PROVE TypeOK
  OBVIOUS
<1>1. FilesTyped
  BY FS_EmptySet DEF Init, FilesTyped
<1>2. StatesTyped
  BY DEF Init, StatesTyped, Places, Unanswered
<1>3. met \in [Requests -> SUBSET Hindrances]
  BY DEF Init
<1> QED BY <1>1, <1>2, <1>3, TypeParts

LEMMA OpenTyped ==
  ASSUME FilesTyped, CanOpen, NEW file \in Requests \X {"app", "events"},
         open' = open \cup {file}
  PROVE  FilesTyped'
<1>1. /\ IsFiniteSet(open')
      /\ Cardinality(open') = IF file \in open THEN Cardinality(open) ELSE Cardinality(open) + 1
  BY FS_AddElement DEF FilesTyped
<1>2. Cardinality(open) \in Nat /\ Cardinality(open) < MaxFiles
  BY FS_CardinalityType DEF FilesTyped, CanOpen
<1> QED BY <1>1, <1>2 DEF FilesTyped

LEMMA CloseTyped ==
  ASSUME FilesTyped, NEW file, open' = open \ {file}
  PROVE  FilesTyped'
<1>1. IsFiniteSet(open') /\ Cardinality(open') <= Cardinality(open)
  BY FS_Subset, open' \subseteq open DEF FilesTyped
<1>2. Cardinality(open) \in Nat /\ Cardinality(open') \in Nat
  BY <1>1, FS_CardinalityType DEF FilesTyped
<1> QED BY <1>1, <1>2 DEF FilesTyped

LEMMA UpgradedTyped ==
  ASSUME NEW method, NEW content \in Contents
  PROVE  Upgraded(method, content) \subseteq {101, 400, 403, 405, 500}
<1>1. CASE content = "malformed"
  BY <1>1 DEF Upgraded
<1>2. CASE content # "malformed" /\ method # "GET"
  BY <1>2 DEF Upgraded
<1>3. CASE content # "malformed" /\ method = "GET"
  BY <1>3 DEF Upgraded, Contents
<1> QED BY <1>1, <1>2, <1>3

Handlers ==
  {"health", "register", "login", "refresh", "me", "hub", "web", "openapi", "docs"}

(* No handler answers what the middlewares do.                             *)
LEMMA AnswersTyped ==
  ASSUME NEW handler \in Handlers, NEW in \in Inputs \cup {NoInput}
  PROVE  Answers(handler, in) \subseteq Statuses \ {204, 429}
<1>1. in.content \in Contents
  BY DEF NoInput, Contents, Methods
<1>2. \A statuses : Validated(in.content, statuses) \subseteq {400, 422} \cup statuses
  BY DEF Validated
<1>3. \A statuses : Guarded(in.content, statuses) \subseteq {401} \cup statuses
  BY DEF Guarded
<1>4. Upgraded(in.method, in.content) \subseteq {101, 400, 403, 405, 500}
  BY <1>1, UpgradedTyped
<1> QED BY <1>2, <1>3, <1>4 DEF Handlers, Answers, Statuses, Register, Login,
        RefreshToken,
           Me, OpenAPI, Scalar, WebFS

LEMMA Concatenated ==
  ASSUME NEW R, NEW s \in Seq(R), NEW t \in Seq(R)
  PROVE  s \o t \in Seq(R) /\ Len(s \o t) = Len(s) + Len(t)
OBVIOUS

Routes == [path : Paths \cup {"any"}, methods : SUBSET Methods, handler : Handlers]

(* There are nine routes at most.                                          *)
LEMMA MountedTyped == Mounted \in Seq(Routes) /\ Len(Mounted) \in 0..9
<1>1. APIRoutes \in Seq(Routes) /\ Len(APIRoutes) = 5
  <2>1. HealthRoutes \in Seq(Routes) /\ Len(HealthRoutes) = 1
    BY DEF HealthRoutes, Route, Routes, Paths, Methods, Handlers
  <2>2. AuthRoutes \in Seq(Routes) /\ Len(AuthRoutes) = 4
    BY DEF AuthRoutes, Route, Routes, Paths, Methods, Handlers
  <2>3. /\ HealthRoutes \o AuthRoutes \in Seq(Routes)
        /\ Len(HealthRoutes \o AuthRoutes) = Len(HealthRoutes) + Len(AuthRoutes)
    BY <2>1, <2>2, Concatenated
  <2> QED BY <2>1, <2>2, <2>3 DEF APIRoutes
<1>2. \A option : \A routes \in Seq(Routes) :
        Enabled(option, routes) \in Seq(Routes) /\ Len(Enabled(option, routes)) \in 0..Len(routes)
  BY DEF Enabled
<1> DEFINE H == Enabled("hub", <<Route("ws", Methods, "hub")>>)
           W == Enabled("web", <<Route("any", Methods, "web")>>)
           D == Enabled("docs", DocsRoutes)
<1>3. H \in Seq(Routes) /\ Len(H) \in 0..1
  <2>1. <<Route("ws", Methods, "hub")>> \in Seq(Routes)
    BY DEF Route, Routes, Paths, Handlers
  <2> QED BY <2>1, <1>2
<1>4. W \in Seq(Routes) /\ Len(W) \in 0..1
  <2>1. <<Route("any", Methods, "web")>> \in Seq(Routes)
    BY DEF Route, Routes, Paths, Handlers
  <2> QED BY <2>1, <1>2
<1>5. D \in Seq(Routes) /\ Len(D) \in 0..2
  <2>1. DocsRoutes \in Seq(Routes) /\ Len(DocsRoutes) = 2
    BY DEF DocsRoutes, Route, Routes, Paths, Handlers
  <2> QED BY <2>1, <1>2
<1>6. Mounted = ((APIRoutes \o H) \o W) \o D
  BY DEF Mounted
<1> HIDE DEF H, W, D
<1>7. /\ APIRoutes \o H \in Seq(Routes)
      /\ Len(APIRoutes \o H) = Len(APIRoutes) + Len(H)
  BY <1>1, <1>3, Concatenated
<1>8. /\ (APIRoutes \o H) \o W \in Seq(Routes)
      /\ Len((APIRoutes \o H) \o W) = Len(APIRoutes \o H) + Len(W)
  BY <1>4, <1>7, Concatenated
<1>9. /\ ((APIRoutes \o H) \o W) \o D \in Seq(Routes)
      /\ Len(((APIRoutes \o H) \o W) \o D) = Len((APIRoutes \o H) \o W) + Len(D)
  BY <1>5, <1>8, Concatenated
<1>10. Len(Mounted) = 5 + Len(H) + Len(W) + Len(D)
  BY <1>1, <1>3, <1>4, <1>5, <1>6, <1>7, <1>8, <1>9
<1>11. Len(Mounted) \in 0..9
  <2>1. \A h \in 0..1, w \in 0..1, d \in 0..2 : 5 + h + w + d \in 0..9
    OBVIOUS
  <2> QED BY <1>3, <1>4, <1>5, <1>10, <2>1
<1> QED BY <1>6, <1>9, <1>11

LEMMA MinInSet ==
  ASSUME NEW I \in SUBSET (1..9), I # {}
  PROVE  Min(I) \in I /\ \A i \in I : Min(I) <= i
<1>1. \E i \in I : \A j \in I : i <= j
  <2>1. CASE 1 \in I
    BY <2>1
  <2>2. CASE I \subseteq 2..9 /\ 2 \in I
    BY <2>2
  <2>3. CASE I \subseteq 3..9 /\ 3 \in I
    BY <2>3
  <2>4. CASE I \subseteq 4..9 /\ 4 \in I
    BY <2>4
  <2>5. CASE I \subseteq 5..9 /\ 5 \in I
    BY <2>5
  <2>6. CASE I \subseteq 6..9 /\ 6 \in I
    BY <2>6
  <2>7. CASE I \subseteq 7..9 /\ 7 \in I
    BY <2>7
  <2>8. CASE I \subseteq 8..9 /\ 8 \in I
    BY <2>8
  <2>9. CASE I \subseteq 9..9
    <3>1. PICK i \in I : TRUE
      OBVIOUS
    <3>2. \A j \in I : i = 9 /\ j = 9
      BY <2>9, <3>1
    <3> QED BY <3>1, <3>2
  <2>10. CASE I \subseteq 6..9
    <3>1. CASE I \subseteq 8..9
      BY <2>8, <2>9, <3>1
    <3> QED BY <2>6, <2>7, <2>10, <3>1
  <2> QED BY <2>1, <2>2, <2>3, <2>4, <2>5, <2>10
<1> QED BY <1>1 DEF Min

(* Where mux takes a route, that route has a handler.                      *)
LEMMA TakenHasHandler ==
  ASSUME NEW r \in Requests, Taken(input[r]) # 0
  PROVE  Handler(r) \in Handlers
<1> DEFINE I == {i \in 1..Len(Mounted) : Fits(Mounted[i], input[r])}
<1>1. I # {} /\ Taken(input[r]) = Min(I)
  BY DEF Taken, SelectInSeq
<1>2. I \in SUBSET (1..9)
  BY MountedTyped
<1>3. Min(I) \in I
  BY <1>1, <1>2, MinInSet
<1>4. Taken(input[r]) \in 1..Len(Mounted)
  BY <1>1, <1>3
<1>5. Mounted[Taken(input[r])] \in Routes
  BY <1>4, MountedTyped
<1> QED BY <1>5 DEF Handler, Routes

(* The routes stay what they are.                                          *)
LEMMA TakenStays ==
  ASSUME cfg' = cfg, NEW q, NEW in, input'[q] = in
  PROVE  Taken(input[q])' = Taken(in)
<1>1. Mounted' = Mounted
  BY DEF Mounted, Enabled
<1> QED BY <1>1 DEF Taken, Fits, OnPath, SelectInSeq

-----------------------------------------------------------------------------
(* What a request has with it at each place.                               *)
Fresh == {"new", "requestID", "mkdir", "openApp"}

PlaceInv(r) ==
  /\ at[r] \in Fresh \cup {"cors", "rateLimit", "logger"} => recorded[r] = 0
  /\ at[r] = "logger" => cfg["logger"]
  /\ at[r] \in {"requestID", "mkdir", "openApp"} => cfg["requestID"]
  /\ at[r] \notin {"closeLog", "unwind", "done"} => logged[r] = 0
  /\ at[r] \in {"append", "closeLog"} => recorded[r] = sent[r] /\ recorded[r] # 0
  /\ at[r] = "closeLog" => logged[r] # 0
  /\ ~cfg["logger"] => recorded[r] = 0
  /\ logged[r] # 0 => logged[r] = sent[r]
  /\ at[r] \in Stages \cup {"mkdir", "openApp"} => Taken(input[r]) # 0

FilesInv(r) ==
  /\ <<r, "app">> \in open => cfg["requestID"]
  /\ <<r, "app">> \in open => at[r] \notin Fresh \cup {"done", "aborted"}
  /\ <<r, "events">> \in open => at[r] = "closeLog"

(* Why it may be lost.                                                     *)
ReasonInv(r) ==
  /\ at[r] = "mkdir" /\ logs => "outrun" \in met[r]
  /\ HasLooked(r) /\ at[r] \notin {"unwind", "done", "aborted"} /\ ~logs => "removed" \in met[r]
  /\ at[r] = "aborted" => met[r] # {}
  /\ at[r] \in {"unwind", "done"} /\ logged[r] = 0 /\ ~NotSeenByLogger(r)
       => met[r] \cap {"removed", "short"} # {}

PastCORS == {"rateLimit", "logger", "handler", "append", "closeLog"}

PreflightInv(r) ==
  /\ at[r] = "cors" => cfg["cors"]
  /\ at[r] \in PastCORS => ~IsPreflight(r)
  /\ IsPreflight(r) => /\ recorded[r] = 0
                       /\ sent[r] \in IF Taken(input[r]) = 0 THEN {0, 404, 405} ELSE {0, 204}
  /\ sent[r] = 204 => IsPreflight(r)

RequestInv(r) == PlaceInv(r) /\ FilesInv(r) /\ ReasonInv(r) /\ PreflightInv(r)

IInv == \A r \in Requests : RequestInv(r)

(* A step belongs to one request; the others keep what they have.          *)
Kept(r) ==
  /\ at'[r] = at[r] /\ input'[r] = input[r] /\ sent'[r] = sent[r]
  /\ recorded'[r] = recorded[r] /\ logged'[r] = logged[r]
  /\ <<r, "app">> \in open' <=> <<r, "app">> \in open
  /\ <<r, "events">> \in open' <=> <<r, "events">> \in open

StepOf(r) ==
  /\ cfg' = cfg
  /\ FilesTyped' /\ StatesTyped'
  /\ RequestInv(r)'
  /\ \A q \in Requests \ {r} : Kept(q)

(* History only grows, by what a step meets.                               *)
LEMMA Noticed ==
  ASSUME TypeOK, Notice
  PROVE  /\ met' \in [Requests -> SUBSET Hindrances]
         /\ \A r \in Requests :
              /\ met[r] \subseteq met'[r]
              /\ \A what \in Hindrances : Meets(r, what) => what \in met'[r]
BY DEF TypeOK, Notice

(* What stays with a request that is not answered by the step.             *)
LEMMA Stays ==
  ASSUME cfg' = cfg, NEW q, input'[q] = input[q]
  PROVE  /\ Taken(input[q])' = Taken(input[q])
         /\ IsPreflight(q)' <=> IsPreflight(q)
         /\ sent'[q] = sent[q] => (NotSeenByLogger(q)' <=> NotSeenByLogger(q))
<1>1. Taken(input[q])' = Taken(input[q])
  BY TakenStays
<1>2. IsPreflight(q)' <=> IsPreflight(q)
  BY DEF IsPreflight
<1> QED BY <1>1, <1>2 DEF NotSeenByLogger

LEMMA KeptInv ==
  ASSUME TypeOK, Notice, NEW q \in Requests, cfg' = cfg, Kept(q), RequestInv(q)
  PROVE  RequestInv(q)'
<1> USE DEF RequestInv
<1>1. /\ Taken(input[q])' = Taken(input[q])
      /\ IsPreflight(q)' <=> IsPreflight(q)
      /\ NotSeenByLogger(q)' <=> NotSeenByLogger(q)
  BY Stays DEF Kept
<1>2. PlaceInv(q)' /\ FilesInv(q)' /\ PreflightInv(q)'
  BY <1>1 DEF Kept, PlaceInv, FilesInv, PreflightInv
<1>3. ReasonInv(q)'
  <2>1. Meets(q, "outrun") => "outrun" \in met'[q]
    BY Noticed DEF Hindrances
  <2>2. Meets(q, "removed") => "removed" \in met'[q]
    BY Noticed DEF Hindrances
  <2>3. met[q] \subseteq met'[q]
    BY Noticed
  <2>4. at[q] = "mkdir" /\ logs' => "outrun" \in met'[q]
    BY <2>1, <2>3 DEF Kept, Meets, ReasonInv, TypeOK
  <2>5. HasLooked(q) /\ at[q] \notin {"unwind", "done", "aborted"} /\ ~logs'
          => "removed" \in met'[q]
    BY <2>2, <2>3 DEF Kept, Meets, ReasonInv, Over
  <2> QED BY <1>1, <2>3, <2>4, <2>5 DEF Kept, ReasonInv, HasLooked
<1> QED BY <1>2, <1>3

(* A step that sends nothing, and goes on where a preflight may.           *)
LEMMA PreflightKept ==
  ASSUME cfg' = cfg, NEW r, PreflightInv(r), input'[r] = input[r], sent'[r] = sent[r],
         recorded'[r] = recorded[r] \/ ~IsPreflight(r),
         at'[r] \in PastCORS => at[r] \in PastCORS \/ ~IsPreflight(r),
         at'[r] = "cors" => cfg["cors"]
  PROVE  PreflightInv(r)'
<1>1. /\ Taken(input[r])' = Taken(input[r])
      /\ IsPreflight(r)' <=> IsPreflight(r)
  BY Stays
<1> QED BY <1>1 DEF PreflightInv

(* A step inwards, once logs/ is behind.                                   *)
LEMMA ReasonInside ==
  ASSUME logs' = logs, NEW r, ReasonInv(r), met[r] \subseteq met'[r],
         logs \/ (HasLooked(r) /\ at[r] \notin {"unwind", "done", "aborted"}),
         at'[r] \in Stages \cup {"append", "closeLog"}
  PROVE  ReasonInv(r)'
BY DEF ReasonInv, HasLooked, Stages

(* A step out of the chain.                                                *)
LEMMA ReasonLeft ==
  ASSUME NEW r, at'[r] \in {"unwind", "done"},
         \/ logged'[r] # 0
         \/ NotSeenByLogger(r)'
         \/ met'[r] \cap {"removed", "short"} # {}
  PROVE  ReasonInv(r)'
BY DEF ReasonInv

(* No file could be opened.                                                *)
LEMMA CannotOpen ==
  ASSUME TypeOK, Notice, NEW r \in Requests, ReasonInv(r), ~CanOpen,
         at[r] \in {"openApp", "append"}, at'[r] # at[r]
  PROVE  met'[r] \cap {"removed", "short"} # {}
<1>1. met[r] \subseteq met'[r] /\ (Meets(r, "short") => "short" \in met'[r])
  BY Noticed DEF Hindrances
<1>2. CASE ~logs
  BY <1>1, <1>2 DEF ReasonInv, HasLooked
<1>3. CASE logs
  <2>1. Cardinality(open) = MaxFiles
    BY <1>3, FS_CardinalityType DEF CanOpen, TypeOK
  <2> QED BY <1>1, <2>1 DEF Meets
<1> QED BY <1>2, <1>3

-----------------------------------------------------------------------------
(* Each action of a request keeps the types, and what it has at its place. *)
Good(r) == TypeOK /\ RequestInv(r) /\ Notice

LEMMA StatLogsStep ==
  ASSUME NEW r \in Requests, Good(r), StatLogs(r)
  PROVE  StepOf(r)
<1> USE DEF Good, RequestInv, StatLogs
<1>1. FilesTyped /\ StatesTyped
  BY TypeParts
<1>2. FilesTyped'
  BY <1>1 DEF FilesTyped
<1>3. StatesTyped'
  BY <1>1 DEF StatesTyped, Goes, Unanswered, Places
<1>4. PlaceInv(r)'
  <2>1. Taken(input[r])' = Taken(input[r])
    BY TakenStays
  <2> QED BY <1>1, <2>1 DEF StatesTyped, PlaceInv, Goes, Fresh, Unanswered, Places
<1>5. FilesInv(r)'
  BY <1>1 DEF StatesTyped, FilesInv, Fresh
<1>6. met[r] \subseteq met'[r]
  BY Noticed
<1>7. ReasonInv(r)'
  BY <1>1, <1>6 DEF StatesTyped, ReasonInv, HasLooked, Over, Goes, Stages
<1>8. PreflightInv(r)'
  BY <1>1, PreflightKept DEF StatesTyped, Goes, PastCORS, Stages
<1>9. \A q \in Requests \ {r} : Kept(q)
  BY <1>1 DEF StatesTyped, Kept, Goes
<1> QED BY <1>2, <1>3, <1>4, <1>5, <1>7, <1>8, <1>9 DEF StepOf

LEMMA MkdirLogsStep ==
  ASSUME NEW r \in Requests, Good(r), MkdirLogs(r)
  PROVE  StepOf(r)
<1> USE DEF Good, RequestInv, MkdirLogs
<1>1. FilesTyped /\ StatesTyped
  BY TypeParts
<1>2. FilesTyped'
  BY <1>1 DEF FilesTyped
<1>3. StatesTyped'
  BY <1>1 DEF StatesTyped, Goes, Unanswered, Places
<1>4. PlaceInv(r)'
  <2>1. Taken(input[r])' = Taken(input[r])
    BY TakenStays
  <2> QED BY <1>1, <2>1 DEF StatesTyped, PlaceInv, Goes, Fresh
<1>5. FilesInv(r)'
  BY <1>1 DEF StatesTyped, FilesInv, Fresh
<1>6. met[r] \subseteq met'[r]
  BY Noticed
<1>7. ReasonInv(r)'
  BY <1>1, <1>6 DEF StatesTyped, ReasonInv, HasLooked, Over, Goes, Stages
<1>8. PreflightInv(r)'
  BY <1>1, PreflightKept DEF StatesTyped, Goes, PastCORS, Stages
<1>9. \A q \in Requests \ {r} : Kept(q)
  BY <1>1 DEF StatesTyped, Kept, Goes
<1> QED BY <1>2, <1>3, <1>4, <1>5, <1>7, <1>8, <1>9 DEF StepOf

LEMMA OpenFailsStep ==
  ASSUME NEW r \in Requests, Good(r), OpenFails(r)
  PROVE  StepOf(r)
<1> USE DEF Good, RequestInv, OpenFails
<1>1. FilesTyped /\ StatesTyped
  BY TypeParts
<1>2. FilesTyped'
  BY <1>1 DEF FilesTyped
<1>3. StatesTyped'
  BY <1>1 DEF StatesTyped, Goes, Places
<1>4. PlaceInv(r)'
  <2>1. Taken(input[r])' = Taken(input[r])
    BY TakenStays
  <2> QED BY <1>1, <2>1 DEF StatesTyped, PlaceInv, Goes, Fresh
<1>5. FilesInv(r)'
  BY <1>1 DEF StatesTyped, FilesInv, Fresh
<1>6. ReasonInv(r)'
  <2>1. met'[r] \cap {"removed", "short"} # {}
    BY <1>1, CannotOpen DEF StatesTyped, Goes
  <2> QED BY <1>1, <2>1 DEF StatesTyped, ReasonInv, HasLooked, Goes
<1>7. PreflightInv(r)'
  BY <1>1, PreflightKept DEF StatesTyped, Goes, PastCORS, Stages
<1>8. \A q \in Requests \ {r} : Kept(q)
  BY <1>1 DEF StatesTyped, Kept, Goes
<1> QED BY <1>2, <1>3, <1>4, <1>5, <1>6, <1>7, <1>8 DEF StepOf

LEMMA RequestIDStep ==
  ASSUME NEW r \in Requests, Good(r), RequestID(r)
  PROVE  StepOf(r)
<1> USE DEF Good, RequestInv, RequestID
<1>1. FilesTyped /\ StatesTyped
  BY TypeParts
<1>2. PICK place : /\ Entered(place, 1) /\ place = First(Inside(1))
                   /\ at' = [at EXCEPT ![r] = place]
  <2>1. ServeNext(r, 1)
    BY DEF Order
  <2>2. Entered(First(Inside(1)), 1)
    BY Entering
  <2> QED BY <2>1, <2>2 DEF ServeNext, Goes
<1>3. FilesTyped'
  BY <1>1, OpenTyped, <<r, "app">> \in Requests \X {"app", "events"}
<1>4. StatesTyped'
  BY <1>1, <1>2 DEF StatesTyped, Entered, Unanswered, Places
<1>5. PlaceInv(r)'
  <2>1. Taken(input[r])' = Taken(input[r])
    BY TakenStays
  <2> QED BY <1>1, <1>2, <2>1 DEF StatesTyped, PlaceInv, Entered, Fresh, Stages
<1>6. FilesInv(r)'
  BY <1>1, <1>2 DEF StatesTyped, FilesInv, PlaceInv, Entered, Order, Fresh, Stages
<1>7. met[r] \subseteq met'[r]
  BY Noticed
<1>8. ReasonInv(r)'
  BY <1>1, <1>2, <1>7, ReasonInside DEF CanOpen, StatesTyped, Entered
<1>9. PreflightInv(r)'
  <2>1. cfg["cors"] => place = "cors"
    BY <1>1, <1>2, NotPast DEF Entered, Order
  <2> QED BY <1>1, <1>2, <2>1, PreflightKept DEF StatesTyped, Entered, PastCORS, IsPreflight
<1>10. \A q \in Requests \ {r} : Kept(q)
  BY <1>1, <1>2 DEF StatesTyped, Kept
<1> QED BY <1>3, <1>4, <1>5, <1>6, <1>8, <1>9, <1>10 DEF StepOf

LEMMA CloseLoggerStep ==
  ASSUME NEW r \in Requests, Good(r), CloseLogger(r)
  PROVE  StepOf(r)
<1> USE DEF Good, RequestInv, CloseLogger
<1>1. FilesTyped /\ StatesTyped
  BY TypeParts
<1>2. FilesTyped'
  BY <1>1, CloseTyped
<1>3. StatesTyped'
  BY <1>1 DEF StatesTyped, Goes, Stages, Unanswered, Places
<1>4. PlaceInv(r)'
  <2>1. Taken(input[r])' = Taken(input[r])
    BY TakenStays
  <2> QED BY <1>1, <2>1 DEF StatesTyped, PlaceInv, Goes, Fresh, Stages
<1>5. FilesInv(r)'
  BY <1>1 DEF StatesTyped, FilesInv
<1>6. met[r] \subseteq met'[r]
  BY Noticed
<1>7. /\ Taken(input[r])' = Taken(input[r])
      /\ IsPreflight(r)' <=> IsPreflight(r)
      /\ sent'[r] = sent[r] => (NotSeenByLogger(r)' <=> NotSeenByLogger(r))
  BY Stays
<1>8. ReasonInv(r)'
  <2>1. at'[r] = "done" /\ logged'[r] = logged[r]
    BY <1>1 DEF StatesTyped, Goes
  <2>2. logged[r] = 0 /\ ~NotSeenByLogger(r) => met'[r] \cap {"removed", "short"} # {}
    BY <1>6 DEF ReasonInv
  <2>3. NotSeenByLogger(r)' <=> NotSeenByLogger(r)
    BY <1>7
  <2> QED BY <2>1, <2>2, <2>3, ReasonLeft
<1>9. PreflightInv(r)'
  BY <1>1, PreflightKept DEF StatesTyped, Goes, PastCORS, Returned
<1>10. \A q \in Requests \ {r} : Kept(q)
  BY <1>1 DEF StatesTyped, Kept, Goes
<1> QED BY <1>2, <1>3, <1>4, <1>5, <1>8, <1>9, <1>10 DEF StepOf

LEMMA PreflightStep ==
  ASSUME NEW r \in Requests, Good(r), Preflight(r)
  PROVE  StepOf(r)
<1> USE DEF Good, RequestInv, Preflight
<1>1. FilesTyped /\ StatesTyped
  BY TypeParts
<1>2. FilesTyped'
  BY <1>1 DEF FilesTyped
<1>3. StatesTyped'
  BY <1>1 DEF StatesTyped, Goes, Returned, Stages, Unanswered, Places, Statuses,
       WriteHeader
<1>4. PlaceInv(r)'
  <2>1. Taken(input[r])' = Taken(input[r])
    BY TakenStays
  <2> QED BY <1>1, <2>1 DEF StatesTyped, PlaceInv, Goes, Returned, Unanswered, Places
<1>5. FilesInv(r)'
  BY <1>1 DEF StatesTyped, FilesInv, Goes, Returned, Fresh
<1>6. /\ Taken(input[r])' = Taken(input[r])
      /\ IsPreflight(r)' <=> IsPreflight(r)
  BY Stays
<1>7. ReasonInv(r)'
  <2>1. at'[r] \in {"unwind", "done"}
    BY <1>1 DEF StatesTyped, Goes, Returned
  <2>2. NotSeenByLogger(r)'
    BY <1>6 DEF NotSeenByLogger, PreflightInv, IsPreflight
  <2> QED BY <2>1, <2>2, ReasonLeft
<1>8. PreflightInv(r)'
  <2>1. at'[r] \in {"unwind", "done"} /\ sent'[r] = 204 /\ recorded'[r] = recorded[r]
    BY <1>1 DEF StatesTyped, Goes, Returned, WriteHeader
  <2>2. IsPreflight(r) /\ Taken(input[r]) # 0 /\ recorded[r] = 0
    BY DEF PreflightInv, PlaceInv, IsPreflight, Stages
  <2> QED BY <1>6, <2>1, <2>2 DEF PreflightInv, PastCORS
<1>9. \A q \in Requests \ {r} : Kept(q)
  BY <1>1 DEF StatesTyped, Kept, Goes, WriteHeader
<1> QED BY <1>2, <1>3, <1>4, <1>5, <1>7, <1>8, <1>9 DEF StepOf

LEMMA CORSStep ==
  ASSUME NEW r \in Requests, Good(r), CORS(r)
  PROVE  StepOf(r)
<1> USE DEF Good, RequestInv, CORS
<1>1. FilesTyped /\ StatesTyped
  BY TypeParts
<1>2. PICK place : Entered(place, 2) /\ at' = [at EXCEPT ![r] = place]
  <2>1. ServeNext(r, 2)
    BY DEF Order
  <2>2. Entered(First(Inside(2)), 2)
    BY Entering
  <2> QED BY <2>1, <2>2 DEF ServeNext, Goes
<1>3. FilesTyped'
  BY <1>1 DEF FilesTyped
<1>4. StatesTyped'
  BY <1>1, <1>2 DEF StatesTyped, Entered, Unanswered, Places
<1>5. PlaceInv(r)'
  <2>1. Taken(input[r])' = Taken(input[r])
    BY TakenStays
  <2> QED BY <1>1, <1>2, <2>1 DEF StatesTyped, PlaceInv, Entered, Stages
<1>6. FilesInv(r)'
  BY <1>1, <1>2 DEF StatesTyped, FilesInv, Entered, Order, Fresh, Stages
<1>7. met[r] \subseteq met'[r]
  BY Noticed
<1>8. ReasonInv(r)'
  BY <1>1, <1>2, <1>7, ReasonInside DEF HasLooked, StatesTyped, Entered
<1>9. PreflightInv(r)'
  <2>1. ~IsPreflight(r)
    BY DEF IsPreflight
  <2> QED BY <1>1, <1>2, <2>1, PreflightKept DEF StatesTyped, Entered, Order
<1>10. \A q \in Requests \ {r} : Kept(q)
  BY <1>1, <1>2 DEF StatesTyped, Kept
<1> QED BY <1>3, <1>4, <1>5, <1>6, <1>8, <1>9, <1>10 DEF StepOf

LEMMA AdmitStep ==
  ASSUME NEW r \in Requests, Good(r), Admit(r)
  PROVE  StepOf(r)
<1> USE DEF Good, RequestInv, Admit
<1>1. FilesTyped /\ StatesTyped
  BY TypeParts
<1>2. PICK place : Entered(place, 3) /\ at' = [at EXCEPT ![r] = place]
  <2>1. ServeNext(r, 3)
    BY DEF Order
  <2>2. Entered(First(Inside(3)), 3)
    BY Entering
  <2> QED BY <2>1, <2>2 DEF ServeNext, Goes
<1>3. FilesTyped'
  BY <1>1 DEF FilesTyped
<1>4. StatesTyped'
  BY <1>1, <1>2 DEF StatesTyped, Entered, Unanswered, Places
<1>5. PlaceInv(r)'
  <2>1. Taken(input[r])' = Taken(input[r])
    BY TakenStays
  <2> QED BY <1>1, <1>2, <2>1 DEF StatesTyped, PlaceInv, Entered, Stages
<1>6. FilesInv(r)'
  BY <1>1, <1>2 DEF StatesTyped, FilesInv, Entered, Order, Fresh, Stages
<1>7. met[r] \subseteq met'[r]
  BY Noticed
<1>8. ReasonInv(r)'
  BY <1>1, <1>2, <1>7, ReasonInside DEF HasLooked, StatesTyped, Entered
<1>9. PreflightInv(r)'
  BY <1>1, <1>2, PreflightKept DEF StatesTyped, Entered, PastCORS, Stages
<1>10. \A q \in Requests \ {r} : Kept(q)
  BY <1>1, <1>2 DEF StatesTyped, Kept
<1> QED BY <1>3, <1>4, <1>5, <1>6, <1>8, <1>9, <1>10 DEF StepOf

LEMMA TooManyRequestsStep ==
  ASSUME NEW r \in Requests, Good(r), TooManyRequests(r)
  PROVE  StepOf(r)
<1> USE DEF Good, RequestInv, TooManyRequests
<1>1. FilesTyped /\ StatesTyped
  BY TypeParts
<1>2. FilesTyped'
  BY <1>1 DEF FilesTyped
<1>3. StatesTyped'
  BY <1>1 DEF StatesTyped, Goes, Returned, Stages, Unanswered, Places, Statuses,
       WriteHeader
<1>4. PlaceInv(r)'
  <2>1. Taken(input[r])' = Taken(input[r])
    BY TakenStays
  <2> QED BY <1>1, <2>1 DEF StatesTyped, PlaceInv, Goes, Returned, Unanswered, Places
<1>5. FilesInv(r)'
  BY <1>1 DEF StatesTyped, FilesInv, Goes, Returned, Fresh
<1>6. /\ Taken(input[r])' = Taken(input[r])
      /\ IsPreflight(r)' <=> IsPreflight(r)
  BY Stays
<1>7. ReasonInv(r)'
  <2>1. at'[r] \in {"unwind", "done"} /\ sent'[r] = 429
    BY <1>1 DEF StatesTyped, Goes, Returned, WriteHeader
  <2> QED BY <2>1, ReasonLeft DEF NotSeenByLogger
<1>8. PreflightInv(r)'
  <2>1. at'[r] \in {"unwind", "done"} /\ sent'[r] = 429
    BY <1>1 DEF StatesTyped, Goes, Returned, WriteHeader
  <2>2. ~IsPreflight(r)
    BY DEF PreflightInv, PastCORS
  <2>3. ~IsPreflight(r)'
    BY <1>6, <2>2
  <2> QED BY <2>1, <2>3 DEF PreflightInv
<1>9. \A q \in Requests \ {r} : Kept(q)
  BY <1>1 DEF StatesTyped, Kept, Goes, WriteHeader
<1> QED BY <1>2, <1>3, <1>4, <1>5, <1>7, <1>8, <1>9 DEF StepOf

LEMMA WrapWriterStep ==
  ASSUME NEW r \in Requests, Good(r), WrapWriter(r)
  PROVE  StepOf(r)
<1> USE DEF Good, RequestInv, WrapWriter
<1>1. FilesTyped /\ StatesTyped
  BY TypeParts
<1>2. PICK place : Entered(place, 4) /\ at' = [at EXCEPT ![r] = place]
  <2>1. ServeNext(r, 4)
    BY DEF Order
  <2>2. Entered(First(Inside(4)), 4)
    BY Entering
  <2> QED BY <2>1, <2>2 DEF ServeNext, Goes
<1>3. FilesTyped'
  BY <1>1 DEF FilesTyped
<1>4. StatesTyped'
  BY <1>1, <1>2 DEF StatesTyped, Entered, Unanswered, Places, Statuses
<1>5. PlaceInv(r)'
  <2>1. Taken(input[r])' = Taken(input[r])
    BY TakenStays
  <2> QED BY <1>1, <1>2, <2>1 DEF StatesTyped, PlaceInv, Entered, Order, Fresh, Stages
<1>6. FilesInv(r)'
  BY <1>1, <1>2 DEF StatesTyped, FilesInv, Entered, Order, Fresh, Stages
<1>7. met[r] \subseteq met'[r]
  BY Noticed
<1>8. ReasonInv(r)'
  BY <1>1, <1>2, <1>7, ReasonInside DEF HasLooked, StatesTyped, Entered
<1>9. PreflightInv(r)'
  <2>1. ~IsPreflight(r)
    BY DEF PreflightInv, PastCORS
  <2> QED BY <1>1, <1>2, <2>1, PreflightKept DEF StatesTyped, Entered, Order
<1>10. \A q \in Requests \ {r} : Kept(q)
  BY <1>1, <1>2 DEF StatesTyped, Kept
<1> QED BY <1>3, <1>4, <1>5, <1>6, <1>8, <1>9, <1>10 DEF StepOf

LEMMA AppendLineStep ==
  ASSUME NEW r \in Requests, Good(r), AppendLine(r)
  PROVE  StepOf(r)
<1> USE DEF Good, RequestInv, AppendLine
<1>1. FilesTyped /\ StatesTyped
  BY TypeParts
<1>2. FilesTyped'
  BY <1>1, OpenTyped, <<r, "events">> \in Requests \X {"app", "events"}
<1>3. StatesTyped'
  BY <1>1 DEF StatesTyped, Goes, Stages, Unanswered, Places
<1>4. PlaceInv(r)'
  <2>1. Taken(input[r])' = Taken(input[r])
    BY TakenStays
  <2> QED BY <1>1, <2>1 DEF StatesTyped, PlaceInv, Goes, Fresh, Stages
<1>5. FilesInv(r)'
  BY <1>1 DEF StatesTyped, FilesInv, Goes, Fresh
<1>6. met[r] \subseteq met'[r]
  BY Noticed
<1>7. ReasonInv(r)'
  BY <1>1, <1>6, ReasonInside DEF HasLooked, StatesTyped, Goes
<1>8. PreflightInv(r)'
  BY <1>1, PreflightKept DEF StatesTyped, Goes, PastCORS, Stages
<1>9. \A q \in Requests \ {r} : Kept(q)
  BY <1>1 DEF StatesTyped, Kept, Goes
<1> QED BY <1>2, <1>3, <1>4, <1>5, <1>7, <1>8, <1>9 DEF StepOf

LEMMA AppendFailsStep ==
  ASSUME NEW r \in Requests, Good(r), AppendFails(r)
  PROVE  StepOf(r)
<1> USE DEF Good, RequestInv, AppendFails
<1>1. FilesTyped /\ StatesTyped
  BY TypeParts
<1>2. FilesTyped'
  BY <1>1 DEF FilesTyped
<1>3. StatesTyped'
  BY <1>1 DEF StatesTyped, Goes, Returned, Stages, Unanswered, Places
<1>4. PlaceInv(r)'
  <2>1. Taken(input[r])' = Taken(input[r])
    BY TakenStays
  <2> QED BY <1>1, <2>1 DEF StatesTyped, PlaceInv, Goes, Returned, Fresh, Stages
<1>5. FilesInv(r)'
  BY <1>1 DEF StatesTyped, FilesInv, Goes, Returned, Fresh
<1>6. ReasonInv(r)'
  <2>1. at'[r] \in {"unwind", "done"}
    BY <1>1 DEF StatesTyped, Goes, Returned
  <2>2. met'[r] \cap {"removed", "short"} # {}
    BY <2>1, CannotOpen
  <2> QED BY <2>1, <2>2, ReasonLeft
<1>7. PreflightInv(r)'
  BY <1>1, PreflightKept DEF StatesTyped, Goes, PastCORS, Returned
<1>8. \A q \in Requests \ {r} : Kept(q)
  BY <1>1 DEF StatesTyped, Kept, Goes
<1> QED BY <1>2, <1>3, <1>4, <1>5, <1>6, <1>7, <1>8 DEF StepOf

LEMMA CloseLogStep ==
  ASSUME NEW r \in Requests, Good(r), CloseLog(r)
  PROVE  StepOf(r)
<1> USE DEF Good, RequestInv, CloseLog
<1>1. FilesTyped /\ StatesTyped
  BY TypeParts
<1>2. FilesTyped'
  BY <1>1, CloseTyped
<1>3. StatesTyped'
  BY <1>1 DEF StatesTyped, Goes, Returned, Stages, Unanswered, Places
<1>4. PlaceInv(r)'
  <2>1. Taken(input[r])' = Taken(input[r])
    BY TakenStays
  <2> QED BY <1>1, <2>1 DEF StatesTyped, PlaceInv, Goes, Returned, Fresh, Stages
<1>5. FilesInv(r)'
  BY <1>1 DEF StatesTyped, FilesInv, Goes, Returned, Fresh
<1>6. ReasonInv(r)'
  <2>1. at'[r] \in {"unwind", "done"}
    BY <1>1 DEF StatesTyped, Goes, Returned
  <2>2. logged'[r] # 0
    BY DEF PlaceInv
  <2> QED BY <2>1, <2>2, ReasonLeft
<1>7. PreflightInv(r)'
  BY <1>1, PreflightKept DEF StatesTyped, Goes, PastCORS, Returned
<1>8. \A q \in Requests \ {r} : Kept(q)
  BY <1>1 DEF StatesTyped, Kept, Goes
<1> QED BY <1>2, <1>3, <1>4, <1>5, <1>6, <1>7, <1>8 DEF StepOf

LEMMA NoRouteStep ==
  ASSUME NEW r \in Requests, Good(r), NEW in \in Inputs, NoRoute(r, in)
  PROVE  StepOf(r)
<1> USE DEF Good, RequestInv, NoRoute
<1>1. FilesTyped /\ StatesTyped
  BY TypeParts
<1>2. PICK status \in {404, 405} : sent' = [sent EXCEPT ![r] = status]
  <2>1. CASE \E i \in DOMAIN Mounted : OnPath(Mounted[i], in)
    BY <2>1 DEF WriteHeader
  <2>2. CASE ~\E i \in DOMAIN Mounted : OnPath(Mounted[i], in)
    BY <2>2 DEF WriteHeader
  <2> QED BY <2>1, <2>2
<1>3. FilesTyped'
  BY <1>1 DEF FilesTyped
<1>4. StatesTyped'
  BY <1>1, <1>2 DEF StatesTyped, Goes, Stages, Unanswered, Places, Statuses
<1>5. PlaceInv(r)'
  BY <1>1, <1>2 DEF StatesTyped, PlaceInv, Goes, Fresh, Stages
<1>6. FilesInv(r)'
  BY <1>1 DEF StatesTyped, FilesInv, Fresh
<1>7. ReasonInv(r)'
  <2>1. input'[r] = in /\ at'[r] = "done"
    BY <1>1 DEF StatesTyped, Goes
  <2>2. Taken(input[r])' = 0
    BY <2>1, TakenStays
  <2> QED BY <2>1, <2>2, ReasonLeft DEF NotSeenByLogger
<1>8. PreflightInv(r)'
  <2>1. input'[r] = in /\ at'[r] = "done" /\ recorded'[r] = 0
    BY <1>1 DEF StatesTyped, Goes, PlaceInv, Fresh
  <2>2. sent'[r] \in {404, 405}
    BY <1>1, <1>2 DEF StatesTyped
  <2>3. Taken(input[r])' = 0
    BY <2>1, TakenStays
  <2> QED BY <2>1, <2>2, <2>3 DEF PreflightInv, PastCORS
<1>9. \A q \in Requests \ {r} : Kept(q)
  BY <1>1, <1>2 DEF StatesTyped, Kept, Goes
<1> QED BY <1>3, <1>4, <1>5, <1>6, <1>7, <1>8, <1>9 DEF StepOf

LEMMA ArriveStep ==
  ASSUME NEW r \in Requests, Good(r), NEW in \in Inputs, Arrive(r, in)
  PROVE  StepOf(r)
<1> USE DEF Good, RequestInv, Arrive
<1>1. FilesTyped /\ StatesTyped
  BY TypeParts
<1>2. PICK place : /\ Entered(place, 0) /\ place = First(Inside(0))
                   /\ at' = [at EXCEPT ![r] = place]
  <2>1. Entered(First(Inside(0)), 0)
    BY Entering
  <2> QED BY <2>1 DEF ServeNext, Goes
<1>3. FilesTyped'
  BY <1>1 DEF FilesTyped
<1>4. StatesTyped'
  BY <1>1, <1>2 DEF StatesTyped, Entered, Unanswered, Places
<1>5. PlaceInv(r)'
  <2>1. input'[r] = in
    BY <1>1 DEF StatesTyped
  <2>2. Taken(input[r])' # 0
    BY <2>1, TakenStays
  <2> QED BY <1>1, <1>2, <2>2 DEF StatesTyped, PlaceInv, Entered, Fresh, Stages
<1>6. FilesInv(r)'
  BY <1>1 DEF StatesTyped, FilesInv, Fresh
<1>7. ReasonInv(r)'
  <2>1. input'[r] = in /\ at'[r] = place /\ logs' = logs /\ cfg' = cfg
    BY <1>1, <1>2 DEF StatesTyped
  <2>2. cfg["requestID"] => place = "requestID"
    BY <1>2, NotPast
  <2>3. Meets(r, "removed") => "removed" \in met'[r]
    BY Noticed DEF Hindrances
  <2>4. ~cfg["requestID"] /\ ~logs => "removed" \in met'[r]
    BY <1>2, <2>1, <2>3 DEF Meets, Arrives, Entered, Stages
  <2> QED BY <1>2, <2>1, <2>2, <2>4 DEF ReasonInv, HasLooked, Entered, Stages
<1>8. PreflightInv(r)'
  <2>1. at'[r] = place /\ recorded'[r] = 0 /\ sent'[r] = 0
    BY <1>1, <1>2 DEF StatesTyped, PlaceInv, Fresh, Unanswered
  <2>2. cfg["cors"] => place \in {"requestID", "cors"}
    BY <1>2, NotPast
  <2> QED BY <1>2, <2>1, <2>2 DEF PreflightInv, PastCORS, IsPreflight, Entered
<1>9. \A q \in Requests \ {r} : Kept(q)
  BY <1>1, <1>2 DEF StatesTyped, Kept
<1> QED BY <1>3, <1>4, <1>5, <1>6, <1>7, <1>8, <1>9 DEF StepOf

LEMMA HandleStep ==
  ASSUME NEW r \in Requests, Good(r), Handle(r)
  PROVE  StepOf(r)
<1> USE DEF Good, RequestInv, Handle
<1>1. FilesTyped /\ StatesTyped
  BY TypeParts
<1>2. PICK status \in Statuses \ {204, 429} :
        /\ sent' = [sent EXCEPT ![r] = status]
        /\ recorded' = [recorded EXCEPT ![r] = IF cfg["logger"] THEN status ELSE recorded[r]]
  <2>1. Taken(input[r]) # 0
    BY DEF PlaceInv, Stages
  <2>2. Handler(r) \in Handlers /\ input[r] \in Inputs \cup {NoInput}
    BY <1>1, <2>1, TakenHasHandler DEF StatesTyped
  <2>3. Answers(Handler(r), input[r]) \subseteq Statuses \ {204, 429}
    BY <2>2, AnswersTyped
  <2>4. PICK status \in Answers(Handler(r), input[r]) : HandlerWrites(r, status)
    OBVIOUS
  <2> QED BY <2>3, <2>4 DEF HandlerWrites, WriteHeader
<1>3. FilesTyped'
  BY <1>1 DEF FilesTyped
<1>4. StatesTyped'
  BY <1>1, <1>2 DEF StatesTyped, Goes, Returned, Stages, Unanswered, Places, Statuses
<1>5. PlaceInv(r)'
  BY <1>1, <1>2 DEF StatesTyped, PlaceInv, Goes, Returned, Fresh, Stages, Statuses
<1>6. FilesInv(r)'
  BY <1>1 DEF StatesTyped, FilesInv, Goes, Returned, Fresh
<1>7. met[r] \subseteq met'[r]
  BY Noticed
<1>8. /\ Taken(input[r])' = Taken(input[r])
      /\ IsPreflight(r)' <=> IsPreflight(r)
  BY Stays
<1>9. ReasonInv(r)'
  <2>1. CASE cfg["logger"]
    BY <1>1, <1>7, <2>1, ReasonInside DEF StatesTyped, Goes, HasLooked
  <2>2. CASE ~cfg["logger"]
    <3>1. at'[r] \in {"unwind", "done"}
      BY <1>1, <2>2 DEF StatesTyped, Goes, Returned
    <3> QED BY <2>2, <3>1, ReasonLeft DEF NotSeenByLogger
  <2> QED BY <2>1, <2>2
<1>10. PreflightInv(r)'
  <2>1. at'[r] # "cors" /\ sent'[r] # 204
    BY <1>1, <1>2 DEF StatesTyped, Goes, Returned
  <2>2. ~IsPreflight(r)
    BY DEF PreflightInv, PastCORS
  <2>3. ~IsPreflight(r)'
    BY <1>8, <2>2
  <2> QED BY <2>1, <2>3 DEF PreflightInv
<1>11. \A q \in Requests \ {r} : Kept(q)
  BY <1>1, <1>2 DEF StatesTyped, Kept, Goes
<1> QED BY <1>3, <1>4, <1>5, <1>6, <1>9, <1>10, <1>11 DEF StepOf

-----------------------------------------------------------------------------
(* Every step keeps the invariant.                                         *)
LEMMA RequestStep ==
  ASSUME TypeOK, IInv, NEW r \in Requests, StepOf(r), Notice
  PROVE  TypeOK' /\ IInv'
<1>1. TypeOK'
  BY Noticed, TypePartsNext DEF StepOf
<1>2. ASSUME NEW q \in Requests
      PROVE  RequestInv(q)'
  <2>1. CASE q = r
    BY <2>1 DEF StepOf
  <2>2. CASE q # r
    BY <2>2, KeptInv DEF StepOf, IInv
  <2> QED BY <2>1, <2>2
<1> QED BY <1>1, <1>2 DEF IInv

LEMMA RemoveLogsStep ==
  ASSUME TypeOK, IInv, RemoveLogs, Notice
  PROVE  TypeOK' /\ IInv'
<1> USE DEF RemoveLogs
<1>1. FilesTyped' /\ StatesTyped'
  <2>1. FilesTyped /\ StatesTyped
    BY TypeParts
  <2>2. FilesTyped'
    BY <2>1 DEF FilesTyped
  <2>3. removals' \in 0..MaxRemovals
    BY <2>1 DEF StatesTyped
  <2> QED BY <2>1, <2>2, <2>3 DEF StatesTyped
<1>2. ASSUME NEW q \in Requests
      PROVE  RequestInv(q)'
  BY KeptInv DEF Kept, IInv
<1> QED BY <1>1, <1>2, Noticed, TypePartsNext DEF IInv

LEMMA StutterStep ==
  ASSUME TypeOK, IInv, UNCHANGED vars
  PROVE  TypeOK' /\ IInv'
<1> USE DEF vars
<1>1. FilesTyped' /\ StatesTyped' /\ met' \in [Requests -> SUBSET Hindrances]
  BY TypeParts DEF FilesTyped, StatesTyped
<1>2. ASSUME NEW q \in Requests
      PROVE  RequestInv(q)'
  <2>1. /\ Taken(input[q])' = Taken(input[q])
        /\ IsPreflight(q)' <=> IsPreflight(q)
        /\ NotSeenByLogger(q)' <=> NotSeenByLogger(q)
    BY Stays
  <2> QED BY <2>1 DEF IInv, RequestInv, PlaceInv, FilesInv, ReasonInv, PreflightInv,
            HasLooked
<1> QED BY <1>1, <1>2, TypePartsNext DEF IInv

LEMMA InvInit == Init => TypeOK /\ IInv
<1> SUFFICES ASSUME Init PROVE TypeOK /\ IInv
  OBVIOUS
<1>1. ASSUME NEW r \in Requests
      PROVE  PlaceInv(r) /\ FilesInv(r)
  BY DEF Init, PlaceInv, FilesInv, Stages
<1>2. ASSUME NEW r \in Requests
      PROVE  ReasonInv(r) /\ PreflightInv(r)
  BY DEF Init, ReasonInv, PreflightInv, HasLooked, PastCORS
<1> QED BY <1>1, <1>2, TypeInit DEF IInv, RequestInv

LEMMA InvNext == TypeOK /\ IInv /\ [Next]_vars => TypeOK' /\ IInv'
<1> SUFFICES ASSUME TypeOK, IInv, [Next]_vars PROVE TypeOK' /\ IInv'
  OBVIOUS
<1>1. Notice => \A r \in Requests : Good(r)
  BY DEF Good, IInv
<1>2. ASSUME Notice, NEW r \in Requests, NEW in \in Inputs, NoRoute(r, in) \/ Arrive(r, in)
      PROVE  StepOf(r)
  BY <1>1, <1>2, NoRouteStep, ArriveStep
<1>3. ASSUME Notice, NEW r \in Requests, Middleware(r)
      PROVE  StepOf(r)
  BY <1>1, <1>3, StatLogsStep, MkdirLogsStep, OpenFailsStep, RequestIDStep, CloseLoggerStep,
     PreflightStep, CORSStep, AdmitStep, TooManyRequestsStep, WrapWriterStep, AppendLineStep,
     AppendFailsStep, CloseLogStep DEF Middleware
<1>4. ASSUME Notice, NEW r \in Requests, Handle(r)
      PROVE  StepOf(r)
  BY <1>1, <1>4, HandleStep
<1>5. CASE Step /\ Notice
  BY <1>2, <1>3, <1>4, <1>5, RequestStep, RemoveLogsStep DEF Step
<1>6. CASE AllServed \/ UNCHANGED vars
  BY <1>6, StutterStep DEF AllServed
<1> QED BY <1>5, <1>6 DEF Next

-----------------------------------------------------------------------------
(* What a request has with it at each place.                               *)
THEOREM Invariance == Spec => [](TypeOK /\ IInv)
BY InvInit, InvNext, PTL DEF Spec

(* Every answer is one of the statuses the handlers and middlewares have   *)
(* (server.go, http.go), every file belongs to a request, and no more are  *)
(* open than there are descriptors.                                        *)
THEOREM TypeCorrect == Spec => []TypeOK
BY Invariance, PTL

(* Both log files of a request are closed when it ends, whichever way it   *)
(* ends (requestid_middleware.go:18, logger_middleware.go:73).             *)
THEOREM FilesReturned == Spec => []FilesAreReturned
<1>1. TypeOK /\ IInv => FilesAreReturned
  <2> SUFFICES ASSUME TypeOK, IInv PROVE FilesAreReturned
    OBVIOUS
  <2>1. ASSUME NEW file \in open PROVE ~Over(file[1])
    <3>1. PICK r \in Requests, kind \in {"app", "events"} : file = <<r, kind>>
      BY DEF TypeOK
    <3> QED BY <3>1 DEF IInv, RequestInv, FilesInv, Over
  <2> QED BY <2>1 DEF FilesAreReturned, IInv, RequestInv, FilesInv
<1> QED BY <1>1, Invariance, PTL

(* A request is aborted only if another made logs/ between its look and its*)
(* Mkdir, if logs/ went away between its look and its open, or if no       *)
(* descriptor was left; and one that LoggerMiddleware sees is missing from *)
(* events.log only if logs/ was away or no descriptor was left             *)
(* (logger.go:25-37, logger_middleware.go:69-71).                          *)
THEOREM NothingLost == Spec => []LostForAReason
<1>1. IInv => LostForAReason
  BY DEF IInv, RequestInv, ReasonInv, LostForAReason
<1> QED BY <1>1, Invariance, PTL

(* A line of events.log has the status that the client was sent            *)
(* (logger_middleware.go:47-50, http.go:68-71).                            *)
THEOREM TrueLog == Spec => []LogIsTrue
<1>1. IInv => LogIsTrue
  BY DEF IInv, RequestInv, PlaceInv, LogIsTrue
<1> QED BY <1>1, Invariance, PTL

-----------------------------------------------------------------------------
(* Which handler a request gets.  All routes but the frontend's serve one  *)
(* path, each its own; what is mounted with the frontend or after it is    *)
(* the documentation.                                                      *)
Served(path) == IF path = "ws" THEN "hub" ELSE path

OwnPath == {route \in Routes : route.path # "any" /\ route.handler = Served(route.path)}
AnyPath == {route \in Routes : route.path = "any" /\ route.handler = "web"}
Late == {route \in AnyPath \cup OwnPath : route.handler \in {"web", "docs", "openapi"}}

LEMMA Elements ==
  ASSUME NEW R, NEW T, NEW s \in Seq(R), NEW t \in Seq(T)
  PROVE  /\ Len(s \o t) = Len(s) + Len(t)
         /\ \A i \in 1..Len(s) : (s \o t)[i] = s[i] /\ s[i] \in R
         /\ \A i \in 1..Len(s \o t) : i > Len(s) => (s \o t)[i] \in T
OBVIOUS

LEMMA MountedInOrder ==
  \E n \in Nat : \A i \in 1..Len(Mounted) :
    Mounted[i] \in IF i <= n THEN OwnPath ELSE Late
<1> USE DEF Route, Routes, Paths, Methods, Handlers, OwnPath, AnyPath, Late, Served
<1>1. HealthRoutes \in Seq(OwnPath)
  BY DEF HealthRoutes
<1>2. AuthRoutes \in Seq(OwnPath)
  BY DEF AuthRoutes
<1>3. Route("ws", Methods, "hub") \in OwnPath
  OBVIOUS
<1>4. Route("any", Methods, "web") \in Late
  OBVIOUS
<1>5. Route("openapi", Methods, "openapi") \in Late /\ Route("docs", Methods, "docs") \in Late
  OBVIOUS
<1> HIDE DEF Route, Routes, Paths, Methods, Handlers, OwnPath, AnyPath, Late, Served
<1>0. ASSUME NEW R, NEW option, NEW routes \in Seq(R) PROVE Enabled(option, routes) \in Seq(R)
  BY DEF Enabled
<1>6. PICK H \in Seq(OwnPath) : H = Enabled("hub", <<Route("ws", Methods, "hub")>>)
  <2>1. <<Route("ws", Methods, "hub")>> \in Seq(OwnPath)
    BY <1>3
  <2> QED BY <1>0, <2>1
<1>7. PICK W \in Seq(Late) : W = Enabled("web", <<Route("any", Methods, "web")>>)
  <2>1. <<Route("any", Methods, "web")>> \in Seq(Late)
    BY <1>4
  <2> QED BY <1>0, <2>1
<1>8. PICK D \in Seq(Late) : D = Enabled("docs", DocsRoutes)
  <2>1. DocsRoutes \in Seq(Late)
    BY <1>5 DEF DocsRoutes
  <2> QED BY <1>0, <2>1
<1>9. APIRoutes \in Seq(OwnPath)
  BY <1>1, <1>2, Concatenated DEF APIRoutes
<1>10. PICK F \in Seq(OwnPath) : F = APIRoutes \o H
  BY <1>9, Concatenated
<1>11. Mounted = (F \o W) \o D
  BY <1>6, <1>7, <1>8, <1>10 DEF Mounted
<1>12. /\ Len(F \o W) = Len(F) + Len(W)
       /\ \A i \in 1..Len(F) : (F \o W)[i] = F[i] /\ F[i] \in OwnPath
       /\ \A i \in 1..Len(F \o W) : i > Len(F) => (F \o W)[i] \in Late
  BY Elements
<1>13. PICK FW \in Seq(OwnPath \cup Late) : FW = F \o W
  <2>1. F \in Seq(OwnPath \cup Late) /\ W \in Seq(OwnPath \cup Late)
    OBVIOUS
  <2> QED BY <2>1, Concatenated
<1>14. /\ \A i \in 1..Len(FW) : (FW \o D)[i] = FW[i]
       /\ \A i \in 1..Len(FW \o D) : i > Len(FW) => (FW \o D)[i] \in Late
  BY Elements
<1>15. PICK n \in Nat : n = Len(F)
  OBVIOUS
<1>16. PICK m \in Nat : m = Len(FW)
  OBVIOUS
<1>17. n <= m
  <2>1. Len(W) \in Nat
    OBVIOUS
  <2> QED BY <1>12, <1>13, <1>15, <1>16, <2>1
<1>18. ASSUME NEW i \in 1..Len(Mounted)
       PROVE  Mounted[i] \in IF i <= n THEN OwnPath ELSE Late
  <2>1. CASE i <= n
    BY <1>11, <1>12, <1>13, <1>14, <1>15, <1>16, <1>17, <2>1
  <2>2. CASE i > n /\ i <= m
    BY <1>11, <1>12, <1>13, <1>14, <1>15, <1>16, <2>2
  <2>3. CASE i > m
    BY <1>11, <1>13, <1>14, <1>16, <1>17, <2>3
  <2> QED BY <2>1, <2>2, <2>3
<1> QED BY <1>18

LEMMA TakenIsFirst ==
  ASSUME NEW in, NEW i \in 1..Len(Mounted), Fits(Mounted[i], in)
  PROVE  /\ Taken(in) \in 1..Len(Mounted) /\ Taken(in) <= i
         /\ Fits(Mounted[Taken(in)], in)
<1>1. PICK I : I = {k \in 1..Len(Mounted) : Fits(Mounted[k], in)}
  OBVIOUS
<1>2. I \in SUBSET (1..9) /\ i \in I
  BY <1>1, MountedTyped
<1>3. Taken(in) = Min(I)
  BY <1>1, <1>2 DEF Taken, SelectInSeq
<1>4. Min(I) \in I /\ Min(I) <= i
  BY <1>2, MinInSet
<1> QED BY <1>1, <1>3, <1>4

(* The frontend hides the documentation, and nothing hides anything else,  *)
(* for any configuration and any request (server.go:266-277, :314-352).    *)
THEOREM OnlyDocsHidden == Spec => []OnlyDocsAreHidden
<1>1. ASSUME TypeOK PROVE OnlyDocsAreHidden
  <2> SUFFICES ASSUME NEW r \in Requests, NEW i \in DOMAIN Mounted,
                      Fits(Mounted[i], input[r])
               PROVE  \/ Mounted[i].handler \in {Handler(r), "web"}
                      \/ Handler(r) = "web" /\ Mounted[i].handler \in {"docs", "openapi"}
    BY DEF OnlyDocsAreHidden
  <2>1. i \in 1..Len(Mounted)
    BY MountedTyped
  <2>2. PICK k \in 1..Len(Mounted) :
          k = Taken(input[r]) /\ k <= i /\ Fits(Mounted[k], input[r])
    BY <2>1, TakenIsFirst
  <2>3. PICK n \in Nat : \A j \in 1..Len(Mounted) :
          Mounted[j] \in IF j <= n THEN OwnPath ELSE Late
    BY MountedInOrder
  <2>4. PICK mine : mine = Mounted[k]
    OBVIOUS
  <2>5. PICK other : other = Mounted[i]
    OBVIOUS
  <2>6. mine \in OwnPath \cup AnyPath /\ other \in OwnPath \cup AnyPath
    BY <2>1, <2>2, <2>3, <2>4, <2>5 DEF Late
  <2>7. mine \in AnyPath => other \in Late
    <3>1. mine \in AnyPath => k > n
      <4>1. k <= n => mine \in OwnPath
        BY <2>2, <2>3, <2>4
      <4>2. mine \in AnyPath => mine \notin OwnPath
        BY DEF AnyPath, OwnPath
      <4> QED BY <2>2, <2>3, <4>1, <4>2
    <3>2. mine \in AnyPath => i > n
      BY <2>1, <2>2, <3>1
    <3> QED BY <2>1, <2>3, <2>5, <3>2
  <2>8. OnPath(mine, input[r]) /\ OnPath(other, input[r])
    BY <2>2, <2>4, <2>5 DEF Fits
  <2>9. Handler(r) = mine.handler
    BY <2>2, <2>4 DEF Handler
  <2>10. CASE other \in AnyPath
    BY <2>5, <2>10 DEF AnyPath
  <2>11. CASE mine \in OwnPath /\ other \in OwnPath
    BY <2>5, <2>8, <2>9, <2>11 DEF OwnPath, OnPath
  <2>12. CASE mine \in AnyPath /\ other \in OwnPath
    BY <2>5, <2>7, <2>9, <2>12 DEF AnyPath, Late
  <2> QED BY <2>6, <2>10, <2>11, <2>12
<1> QED BY <1>1, TypeCorrect, PTL
-----------------------------------------------------------------------------
(* In every configuration, however requests share the log files: no        *)
(* preflight that a route takes is limited, logged or handled, and 204 is  *)
(* its answer and nobody else's (server.go:245-264, cors_middleware.go:    *)
(* 29-32).                                                                 *)
THEOREM PreflightsStop == Spec => []PreflightsStopAtCORS
<1>1. IInv => PreflightsStopAtCORS
  BY DEF IInv, RequestInv, PreflightInv, PastCORS, PreflightsStopAtCORS
<1> QED BY <1>1, Invariance, PTL
=============================================================================
