------------------------------- MODULE Tokens -------------------------------
(***************************************************************************)
(* Access and refresh tokens: pkg/jwt.go, the guard of                     *)
(* middlewares/auth_middleware.go, and Login, Me and RefreshToken of       *)
(* auth.service.go.                                                        *)
(*                                                                         *)
(* The server keeps no sessions: all it knows of one is in the tokens it   *)
(* has signed, and all it checks is a signature and an expiry.  Time is    *)
(* counted in ticks, of which a second has several; tokens carry whole     *)
(* seconds.  A secret is the generation of an environment variable, which  *)
(* changes only when the process is started again; that the two variables  *)
(* differ is assumed.                                                      *)
(***************************************************************************)
EXTENDS Integers

CONSTANTS
  Users,      (* uids                                                      *)
  NoUser,     (* no uid in the context                                     *)
  Requests,   (* requests served at a time; each slot is used again        *)
  Second,     (* ticks of the clock per second                             *)
  AccessTTL,  (* 24 hours, in ticks                                        *)
  RefreshTTL  (* 30 days                                                   *)

ASSUME NoUserAssumption == NoUser \notin Users
ASSUME SecondAssumption == Second \in Nat \ {0}
ASSUME TTLAssumption == AccessTTL \in Nat /\ RefreshTTL \in Nat

VARIABLES
  now,       (* the clock                                                  *)
  secret,    (* the generation of JWT_SECRET and of JWT_REFRESH_SECRET     *)
  accounts,  (* the users whose row is in the table                        *)
  tokens,    (* all that was signed; clients keep and send what they like  *)
  at,        (* where a request is                                         *)
  uid,       (* the user it has looked up, or that Guard put in its context*)
  sessions,  (* history: logins, since both secrets were last replaced     *)
  rotated    (* history: when JWT_REFRESH_SECRET was last replaced         *)

vars == <<now, secret, accounts, tokens, at, uid, sessions, rotated>>

Names == {"access", "refresh"}
Claims == [uid : Users, iat : Nat, exp : Int]
Token == [claims : Claims, secret : Names \X Nat]
NoToken == [claims |-> [uid |-> NoUser, iat |-> 0, exp |-> 0], secret |-> <<"access", 0>>]

TypeOK ==
  /\ now \in Nat
  /\ secret \in [Names -> Nat]
  /\ accounts \subseteq Users
  /\ tokens \subseteq Token
  /\ at \in [Requests -> {"idle", "looked", "guarded"}]
  /\ uid \in [Requests -> Users \cup {NoUser}]
  /\ \A r \in Requests : at[r] = "idle" <=> uid[r] = NoUser
  /\ sessions \subseteq [uid : Users, at : Nat]
  /\ rotated \in 0..now

Init ==
  /\ now = 0
  /\ secret = [name \in Names |-> 0]
  /\ accounts = Users
  /\ tokens = {}
  /\ at = [r \in Requests |-> "idle"]
  /\ uid = [r \in Requests |-> NoUser]
  /\ sessions = {}
  /\ rotated = 0

-----------------------------------------------------------------------------
(* Signing and verifying.                                                  *)

TTL(name) == IF name = "access" THEN AccessTTL ELSE RefreshTTL
Current(name) == <<name, secret[name]>>

(* Unix() drops the fraction of a second.                                  *)
Unix(t) == t - (t % Second)

StandardClaims(u, ttl) == [uid |-> u, iat |-> Unix(now), exp |-> Unix(now + ttl)]

Sign(claims, name) == [claims |-> claims, secret |-> Current(name)]

VerifyASecondEarly(token, name) ==
  /\ token.secret = Current(name)
  /\ now + Second < token.claims.exp

VerifyAnyGeneration(token, name) ==
  /\ token.secret[1] = name
  /\ now < token.claims.exp

(* HMAC compares all of the token; jwt v5 looks at exp, and not at iat.    *)
Verify(token, name) ==
  /\ token.secret = Current(name)
  /\ now < token.claims.exp

-----------------------------------------------------------------------------
(* POST /auth/login.  Its row is found and the password is right; nothing  *)
(* else gets past the first query and the comparison.                      *)
LoginLooks(r, u) ==
  /\ at[r] = "idle"
  /\ u \in accounts
  /\ at' = [at EXCEPT ![r] = "looked"]
  /\ uid' = [uid EXCEPT ![r] = u]
  /\ UNCHANGED <<now, secret, accounts, tokens, sessions, rotated>>

(* Hashing takes its time: the row may be gone by now.                     *)
LoginSigns(r) ==
  /\ at[r] = "looked"
  /\ at' = [at EXCEPT ![r] = "idle"]
  /\ tokens' = tokens \cup {Sign(StandardClaims(uid[r], TTL(name)), name) : name \in Names}
  /\ sessions' = sessions \cup {[uid |-> uid[r], at |-> now]}
  /\ uid' = [uid EXCEPT ![r] = NoUser]
  /\ UNCHANGED <<now, secret, accounts, rotated>>

RefreshAcceptsAccess(r, token) ==
  /\ at[r] = "idle"
  /\ Verify(token, "access") \/ Verify(token, "refresh")
  /\ tokens' = tokens \cup {Sign(StandardClaims(token.claims.uid, AccessTTL), "access")}
  /\ UNCHANGED <<now, secret, accounts, at, uid, sessions, rotated>>

(* POST /auth/refresh: no query, so the account need not exist any more.   *)
(* A token it does not accept is answered 401, and nothing changes.        *)
RefreshToken(r, token) ==
  /\ at[r] = "idle"
  /\ Verify(token, "refresh")
  /\ tokens' = tokens \cup {Sign(StandardClaims(token.claims.uid, AccessTTL), "access")}
  /\ UNCHANGED <<now, secret, accounts, at, uid, sessions, rotated>>

-----------------------------------------------------------------------------
(* A cookie hides the header, whatever is in it.                           *)
extractToken(cookie, header) == IF cookie # NoToken THEN cookie ELSE header

LetThrough(r, u) ==
  /\ at[r] = "idle"
  /\ at' = [at EXCEPT ![r] = "guarded"]
  /\ uid' = [uid EXCEPT ![r] = u]
  /\ UNCHANGED <<now, secret, accounts, tokens, sessions, rotated>>

(* Without a valid token the request goes on, without a uid.  No route     *)
(* uses it.                                                                *)
OptionalGuard(r, cookie, header) ==
  LET token == extractToken(cookie, header)
  IN  LetThrough(r, IF token # NoToken /\ Verify(token, "access")
                      THEN token.claims.uid ELSE NoUser)

(* Otherwise it answers 401, and nothing changes.                          *)
Guard(r, cookie, header) ==
  LET token == extractToken(cookie, header)
  IN  /\ token # NoToken /\ Verify(token, "access")
      /\ LetThrough(r, token.claims.uid)

(* GET /auth/me answers 200 with the row, or 404 when it is gone or the    *)
(* query fails.                                                            *)
Me(r) ==
  /\ at[r] = "guarded"
  /\ at' = [at EXCEPT ![r] = "idle"]
  /\ uid' = [uid EXCEPT ![r] = NoUser]
  /\ UNCHANGED <<now, secret, accounts, tokens, sessions, rotated>>

-----------------------------------------------------------------------------
Tick ==
  /\ now' = now + 1
  /\ UNCHANGED <<secret, accounts, tokens, at, uid, sessions, rotated>>

(* The process ends, and comes back with some of its secrets replaced.     *)
Restart(replaced) ==
  /\ secret' = [name \in Names |-> IF name \in replaced THEN secret[name] + 1 ELSE secret[name]]
  /\ at' = [r \in Requests |-> "idle"]
  /\ uid' = [r \in Requests |-> NoUser]
  /\ sessions' = IF replaced = Names THEN {} ELSE sessions
  /\ rotated' = IF "refresh" \in replaced THEN now ELSE rotated
  /\ UNCHANGED <<now, accounts, tokens>>

(* DELETE FROM users, which only an administrator sends.                   *)
AccountGoes(u) ==
  /\ u \in accounts
  /\ accounts' = accounts \ {u}
  /\ UNCHANGED <<now, secret, tokens, at, uid, sessions, rotated>>

Login(r) == (\E u \in Users : LoginLooks(r, u)) \/ LoginSigns(r)

Next ==
  \/ \E r \in Requests :
       \/ Login(r)
       \/ \E token \in tokens : RefreshToken(r, token)
       \/ \E cookie, header \in tokens \cup {NoToken} : Guard(r, cookie, header)
       \/ Me(r)
  \/ Tick
  \/ \E replaced \in SUBSET Names : Restart(replaced)
  \/ \E u \in Users : AccountGoes(u)

Spec == Init /\ [][Next]_vars

-----------------------------------------------------------------------------
(* What a session of u, begun after since, can still bear.                 *)
Within(u, since, t, life) ==
  \E s \in sessions : s.uid = u /\ since <= s.at /\ t <= s.at + life

(* A new generation of a secret has signed nothing yet.                    *)
SecretsAreNew ==
  \A token \in tokens : token.secret[2] <= secret[token.secret[1]]

(* A token has its own lifetime, less a fraction of a second.              *)
TokensRunOut ==
  \A token \in tokens :
    LET ttl == TTL(token.secret[1])
    IN  /\ token.claims.iat + ttl < token.claims.exp + Second
        /\ token.claims.exp <= now + ttl

(* It outlives its session by no more than the lifetime of one access      *)
(* token, and a refresh secret that was replaced by no more than that.     *)
TokensBelongToSessions ==
  \A token \in tokens :
    LET claims == token.claims
    IN  /\ token.secret = Current("access") =>
             /\ Within(claims.uid, 0, claims.exp, AccessTTL + RefreshTTL)
             /\ \/ claims.exp <= rotated + AccessTTL
                \/ Within(claims.uid, rotated, claims.exp, AccessTTL + RefreshTTL)
        /\ token.secret = Current("refresh") =>
             Within(claims.uid, rotated, claims.exp, RefreshTTL)

IInv ==
  /\ SecretsAreNew
  /\ TokensRunOut
  /\ TokensBelongToSessions

(* Sessions end, although nothing ends them: whoever Guard lets through as *)
(* u has logged in as u, less than the two lifetimes before, whichever     *)
(* tokens were refreshed with which in between, and not before a restart   *)
(* that replaced both secrets (auth_middleware.go:43, auth.service.go:129, *)
(* jwt.go:50-57).                                                          *)
LetIn(r) == at[r] # "guarded" /\ at'[r] = "guarded"

SessionsEnd ==
  [][\A r \in Requests :
       LetIn(r) => Within(uid'[r], 0, now + 1, AccessTTL + RefreshTTL)]_vars

(* To replace JWT_REFRESH_SECRET alone ends the sessions begun before: for *)
(* the lifetime of an access token those that are about are still good,    *)
(* then nobody is let through who has not logged in since                  *)
(* (auth.service.go:129, :140, auth_middleware.go:40).                     *)
RotationEndsSessions ==
  [][\A r \in Requests :
       LetIn(r) => \/ now < rotated + AccessTTL
                   \/ Within(uid'[r], rotated, now + 1, AccessTTL + RefreshTTL)]_vars

(* A client that comes back in time stays in: a token is refused only      *)
(* where the other kind is asked for, when its secret has been replaced,   *)
(* or less than a second before the end of its lifetime, since tokens      *)
(* carry whole seconds (jwt.go:50-57, auth_middleware.go:43).              *)
OnlyOldTokensRefused ==
  \A token \in tokens, name \in Names :
    ~Verify(token, name) =>
      \/ token.secret # Current(name)
      \/ now + Second > token.claims.iat + TTL(name)
=============================================================================
