---------------------------- MODULE TokensProofs ----------------------------
(***************************************************************************)
(* What TLAPS proves of Tokens, for every number of users, requests and    *)
(* ticks per second, and every pair of lifetimes.                          *)
(***************************************************************************)
EXTENDS Tokens, TLAPS

USE NoUserAssumption, SecondAssumption, TTLAssumption

(* Dropping the fraction of a second takes off less than a second.         *)
LEMMA WholeSeconds ==
  ASSUME NEW t \in Nat
  PROVE  Unix(t) \in Int /\ Unix(t) >= 0 /\ Unix(t) <= t /\ t < Unix(t) + Second
<1>1. t % Second \in 0..(Second - 1)
  OBVIOUS
<1>2. t % Second <= t
  <2>1. CASE t < Second BY <2>1
  <2>2. CASE t >= Second BY <1>1, <2>2
  <2> QED BY <2>1, <2>2
<1> QED BY <1>1, <1>2 DEF Unix

(* What Sign makes of StandardClaims.                                      *)
LEMMA SignedTokens ==
  ASSUME TypeOK, NEW u \in Users, NEW ttl \in Nat, NEW name \in Names
  PROVE  LET token == Sign(StandardClaims(u, ttl), name)
         IN  /\ token \in Token
             /\ token.secret = Current(name)
             /\ token.claims.uid = u
             /\ token.claims.exp <= now + ttl
             /\ token.claims.iat + ttl < token.claims.exp + Second
<1>1. /\ Unix(now) \in Nat /\ Unix(now) <= now
      /\ Unix(now + ttl) \in Int /\ Unix(now + ttl) <= now + ttl
      /\ now + ttl < Unix(now + ttl) + Second
  BY WholeSeconds DEF TypeOK
<1>2. Current(name) \in Names \X Nat
  BY DEF Current, TypeOK
<1> QED BY <1>1, <1>2 DEF Sign, StandardClaims, Token, Claims, TypeOK

LEMMA TypeInit == Init => TypeOK
BY DEF Init, TypeOK, Names

(* extractToken finds nothing but what the client sent.                    *)
LEMMA SentTokens ==
  ASSUME NEW cookie \in tokens \cup {NoToken}, NEW header \in tokens \cup {NoToken},
         NEW r, Guard(r, cookie, header)
  PROVE  \E token \in tokens :
           Verify(token, "access") /\ LetThrough(r, token.claims.uid)
BY DEF Guard, extractToken

LEMMA TypeStep == TypeOK /\ [Next]_vars => TypeOK'
<1> SUFFICES ASSUME TypeOK, [Next]_vars PROVE TypeOK'
  OBVIOUS
<1>1. ASSUME NEW r \in Requests, NEW u \in Users, LoginLooks(r, u) PROVE TypeOK'
  BY <1>1 DEF LoginLooks, TypeOK
<1>2. ASSUME NEW r \in Requests, LoginSigns(r) PROVE TypeOK'
  <2>1. uid[r] \in Users
    BY <1>2 DEF LoginSigns, TypeOK
  <2>2. \A name \in Names : Sign(StandardClaims(uid[r], TTL(name)), name) \in Token
    BY <2>1, SignedTokens DEF TTL
  <2>3. tokens' \subseteq Token
    BY <1>2, <2>2 DEF LoginSigns, TypeOK
  <2>4. sessions' \subseteq [uid : Users, at : Nat]
    BY <1>2, <2>1 DEF LoginSigns, TypeOK
  <2> QED BY <1>2, <2>3, <2>4 DEF LoginSigns, TypeOK
<1>3. ASSUME NEW r \in Requests, NEW token \in tokens, RefreshToken(r, token) PROVE TypeOK'
  <2>1. token.claims.uid \in Users
    BY DEF TypeOK, Token, Claims
  <2>2. Sign(StandardClaims(token.claims.uid, AccessTTL), "access") \in Token
    BY <2>1, SignedTokens DEF Names
  <2> QED BY <1>3, <2>2 DEF RefreshToken, TypeOK
<1>4. ASSUME NEW r \in Requests, NEW token \in tokens, LetThrough(r, token.claims.uid)
      PROVE  TypeOK'
  <2>1. token.claims.uid \in Users
    BY DEF TypeOK, Token, Claims
  <2> QED BY <1>4, <2>1 DEF LetThrough, TypeOK
<1>5. ASSUME NEW r \in Requests, Me(r) PROVE TypeOK'
  BY <1>5 DEF Me, TypeOK
<1>6. CASE Tick BY <1>6 DEF Tick, TypeOK
<1>7. ASSUME NEW replaced \in SUBSET Names, Restart(replaced) PROVE TypeOK'
  BY <1>7 DEF Restart, TypeOK
<1>8. ASSUME NEW u \in Users, AccountGoes(u) PROVE TypeOK'
  BY <1>8 DEF AccountGoes, TypeOK
<1>9. CASE UNCHANGED vars BY <1>9 DEF vars, TypeOK
<1> QED BY <1>1, <1>2, <1>3, <1>4, <1>5, <1>6, <1>7, <1>8, <1>9, SentTokens DEF Next, Login

(* Type correctness: in particular a request has a uid in its context      *)
(* exactly while it is being served behind Guard or by Login.              *)
THEOREM TypeCorrect == Spec => []TypeOK
BY TypeInit, TypeStep, PTL DEF Spec

-----------------------------------------------------------------------------
(***************************************************************************)
(* The inductive invariant.                                                *)
(***************************************************************************)
LEMMA InvInit == Init => IInv
BY DEF Init, IInv, SecretsAreNew, TokensRunOut, TokensBelongToSessions

(* What the invariant asks of one token.                                   *)
Fits(token) ==
  LET name == token.secret[1]
      claims == token.claims
  IN  /\ token.secret[2] <= secret[name]
      /\ claims.iat + TTL(name) < claims.exp + Second
      /\ claims.exp <= now + TTL(name)
      /\ token.secret = Current("access") =>
           /\ Within(claims.uid, 0, claims.exp, AccessTTL + RefreshTTL)
           /\ \/ claims.exp <= rotated + AccessTTL
              \/ Within(claims.uid, rotated, claims.exp, AccessTTL + RefreshTTL)
      /\ token.secret = Current("refresh") =>
           Within(claims.uid, rotated, claims.exp, RefreshTTL)

LEMMA InvIsFits == IInv <=> \A token \in tokens : Fits(token)
BY DEF IInv, SecretsAreNew, TokensRunOut, TokensBelongToSessions, Fits

LEMMA InvIsFitsNext == IInv' <=> \A token \in tokens' : Fits(token)'
BY DEF IInv, SecretsAreNew, TokensRunOut, TokensBelongToSessions, Fits

(* A session that is there can bear what it could before.                  *)
LEMMA SessionsStay ==
  ASSUME sessions \subseteq sessions', NEW u, NEW since, NEW t, NEW life,
         Within(u, since, t, life)
  PROVE  Within(u, since, t, life)'
BY DEF Within

LEMMA FitsStays ==
  ASSUME TypeOK, sessions \subseteq sessions', UNCHANGED <<secret, rotated>>,
         now' \in Nat, now <= now', NEW token \in tokens, Fits(token)
  PROVE  Fits(token)'
<1>1. token.claims.exp \in Int /\ TTL(token.secret[1]) \in Nat /\ now \in Nat
  BY DEF TypeOK, Token, Claims, TTL
<1>2. token.claims.exp <= now' + TTL(token.secret[1])
  BY <1>1 DEF Fits
<1> QED BY <1>2, SessionsStay DEF Fits, Current

(* What is signed fits, if there is a session to bear it.                  *)
LEMMA SignedFits ==
  ASSUME TypeOK, UNCHANGED <<now, secret, rotated>>, NEW u \in Users, NEW name \in Names,
         NEW token, token = Sign(StandardClaims(u, TTL(name)), name),
         NEW life, life = (IF name = "access" THEN AccessTTL + RefreshTTL ELSE RefreshTTL),
         \E s \in sessions' : /\ s.uid = u /\ s.at \in Nat /\ rotated <= s.at
                              /\ now + TTL(name) <= s.at + life
  PROVE  Fits(token)'
<1>1. TTL(name) \in Nat
  BY DEF TTL
<1>2. /\ token \in Token
      /\ token.secret = Current(name)
      /\ token.claims.uid = u
      /\ token.claims.exp <= now + TTL(name)
      /\ token.claims.iat + TTL(name) < token.claims.exp + Second
  BY <1>1, SignedTokens
<1>3. /\ token.secret[1] = name
      /\ token.secret[2] = secret[name]
      /\ token.claims.exp \in Int
      /\ now \in Nat /\ life \in Nat /\ rotated \in Nat
  BY <1>2 DEF Current, TypeOK, Token, Claims
<1>4. /\ Within(u, rotated, token.claims.exp, life)'
      /\ Within(u, 0, token.claims.exp, life)'
  <2>1. PICK s \in sessions' : /\ s.uid = u /\ s.at \in Nat /\ rotated <= s.at
                               /\ now + TTL(name) <= s.at + life
    OBVIOUS
  <2>2. token.claims.exp <= s.at + life /\ 0 <= s.at
    BY <1>1, <1>2, <1>3, <2>1
  <2> QED BY <2>1, <2>2 DEF Within
<1>5. secret[name] \in Nat
  BY DEF TypeOK
<1>6. CASE name = "access"
  BY <1>2, <1>3, <1>4, <1>5, <1>6 DEF Fits, Current
<1>7. CASE name = "refresh"
  BY <1>2, <1>3, <1>4, <1>5, <1>7 DEF Fits, Current
<1> QED BY <1>6, <1>7 DEF Names

LEMMA InvStep == TypeOK /\ IInv /\ [Next]_vars => IInv'
<1> SUFFICES ASSUME TypeOK, IInv, [Next]_vars PROVE IInv'
  OBVIOUS
<1>0. \A token \in tokens : Fits(token)
  BY InvIsFits
<1>1. ASSUME UNCHANGED <<secret, tokens, sessions, rotated>>, now' = now \/ now' = now + 1
      PROVE  IInv'
  <2>1. now' \in Nat /\ now <= now'
    BY <1>1 DEF TypeOK
  <2> QED BY <1>0, <1>1, <2>1, FitsStays, InvIsFitsNext
<1>2. ASSUME NEW r \in Requests, LoginSigns(r) PROVE IInv'
  <2> DEFINE begun == [uid |-> uid[r], at |-> now]
  <2>0. begun \in sessions' /\ begun.uid = uid[r] /\ begun.at = now
    BY <1>2 DEF LoginSigns
  <2>1. PICK new \in sessions' : new.uid = uid[r] /\ new.at = now
    BY <2>0
  <2>2. /\ uid[r] \in Users /\ now \in Nat /\ rotated <= now
        /\ sessions \subseteq sessions' /\ UNCHANGED <<now, secret, rotated>>
    BY <1>2 DEF LoginSigns, TypeOK
  <2>3. ASSUME NEW token \in tokens', token \notin tokens PROVE Fits(token)'
    <3>1. PICK name \in Names : token = Sign(StandardClaims(uid[r], TTL(name)), name)
      BY <1>2, <2>3 DEF LoginSigns
    <3>2. now + TTL(name) <=
            new.at + (IF name = "access" THEN AccessTTL + RefreshTTL ELSE RefreshTTL)
      BY <2>1, <2>2 DEF TTL
    <3> QED BY <2>1, <2>2, <3>1, <3>2, SignedFits
  <2>4. now' \in Nat /\ now <= now'
    BY <2>2
  <2> QED BY <1>0, <2>2, <2>3, <2>4, FitsStays, InvIsFitsNext
<1>3. ASSUME NEW r \in Requests, NEW token \in tokens, RefreshToken(r, token) PROVE IInv'
  <2> DEFINE u == token.claims.uid
  <2>1. /\ u \in Users /\ token.claims.exp \in Int /\ now \in Nat
        /\ sessions' = sessions /\ UNCHANGED <<now, secret, rotated>>
    BY <1>3 DEF RefreshToken, TypeOK, Token, Claims
  <2>2. now < token.claims.exp /\ Within(u, rotated, token.claims.exp, RefreshTTL)
    BY <1>0, <1>3 DEF RefreshToken, Verify, Fits
  <2>3. PICK s \in sessions : /\ s.uid = u /\ rotated <= s.at
                              /\ token.claims.exp <= s.at + RefreshTTL
    BY <2>2 DEF Within
  <2>4. s.at \in Nat
    BY DEF TypeOK
  <2>5. ASSUME NEW new \in tokens', new \notin tokens PROVE Fits(new)'
    <3>1. new = Sign(StandardClaims(u, TTL("access")), "access")
      BY <1>3, <2>5 DEF RefreshToken, TTL
    <3>2. now + TTL("access") <= s.at + (AccessTTL + RefreshTTL)
      BY <2>1, <2>2, <2>3, <2>4 DEF TTL
    <3> QED BY <2>1, <2>3, <2>4, <3>1, <3>2, SignedFits, "access" \in Names DEF Names
  <2>6. now' \in Nat /\ now <= now'
    BY <2>1
  <2> QED BY <1>0, <2>1, <2>5, <2>6, FitsStays, InvIsFitsNext
<1>4. ASSUME NEW replaced \in SUBSET Names, Restart(replaced) PROVE IInv'
  <2>1. /\ tokens' = tokens /\ now' = now
        /\ rotated' = (IF "refresh" \in replaced THEN now ELSE rotated)
        /\ \A name \in Names :
             secret'[name] = IF name \in replaced THEN secret[name] + 1 ELSE secret[name]
        /\ replaced # Names => sessions' = sessions
    BY <1>4 DEF Restart
  <2>2. ASSUME NEW token \in tokens PROVE Fits(token)'
    <3>1. /\ token.secret[1] \in Names /\ token.secret[2] \in Nat
          /\ token.secret = <<token.secret[1], token.secret[2]>>
          /\ \A name \in Names : secret[name] \in Nat
      BY DEF TypeOK, Token
    <3>2. token.secret[2] <= secret[token.secret[1]]
      BY <1>0 DEF Fits
    <3>3. ASSUME NEW name \in Names, token.secret = Current(name)'
          PROVE  replaced # Names /\ token.secret = Current(name)
      <4>1. token.secret[1] = name /\ token.secret[2] = secret'[name]
        BY <3>3 DEF Current
      <4>2. name \notin replaced
        BY <2>1, <3>1, <3>2, <4>1
      <4> QED BY <2>1, <3>3, <4>2 DEF Current
    <3>4. /\ token.secret[2] <= secret'[token.secret[1]]
          /\ "access" \in Names /\ "refresh" \in Names
      BY <2>1, <3>1, <3>2 DEF Names
    <3>5. ASSUME token.secret = Current("access")'
          PROVE  /\ Within(token.claims.uid, 0, token.claims.exp, AccessTTL + RefreshTTL)'
                 /\ \/ token.claims.exp <= rotated' + AccessTTL
                    \/ Within(token.claims.uid, rotated, token.claims.exp,
                              AccessTTL + RefreshTTL)'
      <4>1. token.secret = Current("access") /\ sessions' = sessions
        BY <2>1, <3>3, <3>4, <3>5
      <4>2. CASE "refresh" \in replaced
        BY <1>0, <2>1, <4>1, <4>2 DEF Fits, Within, Current, TTL
      <4>3. CASE "refresh" \notin replaced
        BY <1>0, <2>1, <4>1, <4>3 DEF Fits, Within
      <4> QED BY <4>2, <4>3
    <3>6. ASSUME token.secret = Current("refresh")'
          PROVE  Within(token.claims.uid, rotated, token.claims.exp, RefreshTTL)'
      <4>1. token.secret = Current("refresh") /\ sessions' = sessions
        BY <2>1, <3>3, <3>4, <3>6
      <4>2. "refresh" \notin replaced
        BY <2>1, <3>1, <3>4, <3>6, <4>1 DEF Current
      <4> QED BY <1>0, <2>1, <4>1, <4>2 DEF Fits, Within
    <3> QED BY <1>0, <2>1, <3>4, <3>5, <3>6 DEF Fits
  <2> QED BY <2>1, <2>2, InvIsFitsNext
<1>5. ASSUME NEW r \in Requests,
             \/ \E u \in Users : LoginLooks(r, u)
             \/ \E token \in tokens : LetThrough(r, token.claims.uid)
             \/ Me(r)
      PROVE  IInv'
  BY <1>1, <1>5 DEF LoginLooks, LetThrough, Me
<1>6. CASE Tick \/ UNCHANGED vars \/ \E u \in Users : AccountGoes(u)
  BY <1>1, <1>6 DEF Tick, AccountGoes, vars
<1> QED BY <1>2, <1>3, <1>4, <1>5, <1>6, SentTokens DEF Next, Login

(* The invariant holds in every behaviour.                                 *)
THEOREM Invariance == Spec => [](TypeOK /\ IInv)
BY TypeInit, TypeStep, InvInit, InvStep, PTL DEF Spec

-----------------------------------------------------------------------------
(* Whoever gets past Guard carries an access token that is still good.     *)
LEMMA LetInByToken ==
  ASSUME TypeOK, IInv, [Next]_vars, NEW r \in Requests, LetIn(r)
  PROVE  \E token \in tokens : /\ now < token.claims.exp /\ token.claims.exp \in Int
                               /\ token.secret = Current("access")
                               /\ uid'[r] = token.claims.uid
                               /\ Fits(token)
<1>1. PICK q \in Requests, token \in tokens :
        Verify(token, "access") /\ LetThrough(q, token.claims.uid)
  BY SentTokens DEF Next, LetIn, TypeOK, Login, LoginLooks, LoginSigns, RefreshToken,
     Me, Tick, Restart, AccountGoes, vars
<1>2. LetThrough(r, token.claims.uid)
  BY <1>1 DEF LetThrough, LetIn, TypeOK
<1>3. token.claims.exp \in Int /\ uid'[r] = token.claims.uid
  BY <1>2 DEF LetThrough, TypeOK, Token, Claims
<1>4. token.secret = Current("access") /\ now < token.claims.exp /\ Fits(token)
  BY <1>1, InvIsFits DEF Verify
<1> QED BY <1>3, <1>4

(* A session that bears what ends later bears this moment.                 *)
LEMMA BearsNow ==
  ASSUME TypeOK, NEW u, NEW since, NEW t \in Int, NEW life \in Nat, now < t,
         Within(u, since, t, life)
  PROVE  Within(u, since, now + 1, life)
<1>1. PICK s \in sessions : s.uid = u /\ since <= s.at /\ t <= s.at + life
  BY DEF Within
<1>2. now \in Nat /\ s.at \in Nat
  BY DEF TypeOK
<1>3. now + 1 <= s.at + life
  BY <1>1, <1>2
<1> QED BY <1>1, <1>3 DEF Within

(* Nobody gets past Guard without a login of his own that is less than the *)
(* lifetimes of one refresh and one access token old, and no older than    *)
(* the last restart that replaced both secrets.                            *)
THEOREM EverySessionEnds == Spec => SessionsEnd
<1>1. ASSUME TypeOK, IInv, [Next]_vars, NEW r \in Requests, LetIn(r)
      PROVE  Within(uid'[r], 0, now + 1, AccessTTL + RefreshTTL)
  <2>1. PICK token \in tokens : /\ now < token.claims.exp /\ token.claims.exp \in Int
                                /\ token.secret = Current("access")
                                /\ uid'[r] = token.claims.uid
                                /\ Fits(token)
    BY <1>1, LetInByToken
  <2>2. Within(uid'[r], 0, token.claims.exp, AccessTTL + RefreshTTL)
    BY <2>1 DEF Fits
  <2> QED BY <1>1, <2>1, <2>2, BearsNow
<1>2. TypeOK /\ IInv /\ [Next]_vars =>
        [\A r \in Requests :
           LetIn(r) => Within(uid'[r], 0, now + 1, AccessTTL + RefreshTTL)]_vars
  BY <1>1
<1> QED BY <1>2, Invariance, PTL DEF Spec, SessionsEnd

(* Once the refresh secret has been replaced, and the lifetime of an       *)
(* access token has passed, nobody gets past Guard without a login of his  *)
(* own since, although the access secret is the old one.                   *)
THEOREM RotationEnds == Spec => RotationEndsSessions
<1>1. ASSUME TypeOK, IInv, [Next]_vars, NEW r \in Requests, LetIn(r)
      PROVE  \/ now < rotated + AccessTTL
             \/ Within(uid'[r], rotated, now + 1, AccessTTL + RefreshTTL)
  <2>1. PICK token \in tokens : /\ now < token.claims.exp /\ token.claims.exp \in Int
                                /\ token.secret = Current("access")
                                /\ uid'[r] = token.claims.uid
                                /\ Fits(token)
    BY <1>1, LetInByToken
  <2>2. \/ token.claims.exp <= rotated + AccessTTL
        \/ Within(uid'[r], rotated, token.claims.exp, AccessTTL + RefreshTTL)
    BY <2>1 DEF Fits
  <2>3. CASE token.claims.exp <= rotated + AccessTTL
    BY <1>1, <2>1, <2>3 DEF TypeOK
  <2>4. CASE Within(uid'[r], rotated, token.claims.exp, AccessTTL + RefreshTTL)
    BY <1>1, <2>1, <2>4, BearsNow
  <2> QED BY <2>2, <2>3, <2>4
<1>2. TypeOK /\ IInv /\ [Next]_vars =>
        [\A r \in Requests :
           LetIn(r) => \/ now < rotated + AccessTTL
                       \/ Within(uid'[r], rotated, now + 1, AccessTTL + RefreshTTL)]_vars
  BY <1>1
<1> QED BY <1>2, Invariance, PTL DEF Spec, RotationEndsSessions

(* A token that comes a second before its lifetime is over, or earlier, is *)
(* accepted where it belongs while its secret is in use.                   *)
THEOREM InTime == Spec => []OnlyOldTokensRefused
<1>1. TypeOK /\ IInv => OnlyOldTokensRefused
  <2> SUFFICES ASSUME TypeOK, IInv, NEW token \in tokens, NEW name \in Names,
                      ~Verify(token, name), token.secret = Current(name)
               PROVE  now + Second > token.claims.iat + TTL(name)
    BY DEF OnlyOldTokensRefused
  <2>1. token.claims.iat + TTL(name) < token.claims.exp + Second
    BY InvIsFits DEF Fits, Current
  <2>2. ~(now < token.claims.exp)
    BY DEF Verify
  <2> QED BY <2>1, <2>2 DEF TypeOK, Token, Claims, TTL
<1> QED BY <1>1, Invariance, PTL
=============================================================================
