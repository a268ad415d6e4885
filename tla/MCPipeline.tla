----------------------------- MODULE MCPipeline -----------------------------
(***************************************************************************)
(* Pipeline with the configurations that matter and one request of each    *)
(* kind that is treated differently.                                       *)
(***************************************************************************)
EXTENDS Pipeline

(* config.yaml as it is.                                                   *)
Shipped == [option \in Options |-> TRUE]

(* The hub can be reached.                                                 *)
WithoutLogger == [Shipped EXCEPT !.logger = FALSE]

(* server.New(cfg, logger, nil): API only, with its documentation.         *)
ApiOnly == [Shipped EXCEPT !.web = FALSE, !.rateLimit = FALSE]

(* Nothing makes logs/ again.                                              *)
WithoutRequestID == [Shipped EXCEPT !.requestID = FALSE, !.hub = FALSE]

MCConfigs == {Shipped, WithoutLogger, ApiOnly, WithoutRequestID}
MCShipped == {Shipped}

Ask(path, method, content) == [path |-> path, method |-> method, content |-> content]

MCInputs ==
  {Ask("health", "GET", "good"), Ask("register", "POST", "malformed"),
   Ask("login", "POST", "refused"), Ask("refresh", "POST", "good"),
   Ask("me", "GET", "good"), Ask("me", "POST", "good"),
   Ask("register", "OPTIONS", "good"), Ask("ws", "GET", "good"),
   Ask("ws", "GET", "refused"), Ask("ws", "POST", "good"),
   Ask("docs", "GET", "good"), Ask("openapi", "GET", "good"),
   Ask("other", "GET", "good")}

Symmetry == Permutations(Requests)
=============================================================================
