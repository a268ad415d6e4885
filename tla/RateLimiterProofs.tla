------------------------- MODULE RateLimiterProofs -------------------------
(***************************************************************************)
(* What TLAPS proves of RateLimiter, for every set of addresses, every     *)
(* limit and every window.                                                 *)
(***************************************************************************)
EXTENDS RateLimiter, TLAPS, SequenceTheorems, FiniteSetTheorems

USE LimitAssumption, WindowAssumption

(* What appending the current time to one address's history does.          *)
LEMMA LogProperties ==
  ASSUME NEW h \in [IPs -> Seq(Nat)], NEW ip \in IPs, now \in Nat
  PROVE  /\ Log(h, ip) \in [IPs -> Seq(Nat)]
         /\ Len(h[ip]) \in Nat
         /\ DOMAIN h[ip] = 1..Len(h[ip])
         /\ \A x \in IPs : x # ip => Log(h, ip)[x] = h[x]
         /\ Len(Log(h, ip)[ip]) = Len(h[ip]) + 1
         /\ DOMAIN Log(h, ip)[ip] = 1..(Len(h[ip]) + 1)
         /\ \A i \in DOMAIN h[ip] : Log(h, ip)[ip][i] = h[ip][i]
         /\ Log(h, ip)[ip][Len(h[ip]) + 1] = now
<1>1. h[ip] \in Seq(Nat) /\ Log(h, ip)[ip] = Append(h[ip], now)
  BY DEF Log
<1> QED BY <1>1, AppendProperties, LenProperties DEF Log

(* The same of the admissions, in the terms the steps below use.           *)
LEMMA AdmissionLogged ==
  ASSUME TypeOK, NEW ip \in IPs, NEW n, n = Len(admitted[ip])
  PROVE  /\ n \in Nat /\ DOMAIN admitted[ip] = 1..n
         /\ \A i \in 1..n : admitted[ip][i] \in Nat
         /\ DOMAIN Log(admitted, ip)[ip] = 1..(n+1)
         /\ Len(Log(admitted, ip)[ip]) = n + 1
         /\ \A x \in IPs : x # ip => Log(admitted, ip)[x] = admitted[x]
         /\ \A i \in 1..n : Log(admitted, ip)[ip][i] = admitted[ip][i]
         /\ Log(admitted, ip)[ip][n+1] = now
<1>1. admitted \in [IPs -> Seq(Nat)] /\ now \in Nat
  BY DEF TypeOK
<1>2. admitted[ip] \in Seq(Nat)
  BY <1>1
<1>3. n \in Nat /\ DOMAIN admitted[ip] = 1..n /\ \A i \in 1..n : admitted[ip][i] \in Nat
  BY <1>2
<1>4. /\ DOMAIN Log(admitted, ip)[ip] = 1..(Len(admitted[ip]) + 1)
      /\ Len(Log(admitted, ip)[ip]) = Len(admitted[ip]) + 1
      /\ Log(admitted, ip)[ip][Len(admitted[ip]) + 1] = now
  BY <1>1, LogProperties
<1>5. \A x \in IPs : x # ip => Log(admitted, ip)[x] = admitted[x]
  BY <1>1, LogProperties
<1>6. \A i \in DOMAIN admitted[ip] : Log(admitted, ip)[ip][i] = admitted[ip][i]
  BY <1>1, LogProperties
<1>7. \A i \in 1..n : Log(admitted, ip)[ip][i] = admitted[ip][i]
  BY <1>3, <1>6
<1> QED BY <1>3, <1>4, <1>5, <1>7

-----------------------------------------------------------------------------
LEMMA TypeInit == Init => TypeOK
<1> SUFFICES ASSUME Init PROVE TypeOK
  OBVIOUS
<1>1. DOMAIN entries = {} /\ entries \in [DOMAIN entries -> Entry]
  BY DEF Init
<1> QED BY <1>1, EmptySeq DEF Init, TypeOK

LEMMA TypeStep == TypeOK /\ [Next]_vars => TypeOK'
<1> SUFFICES ASSUME TypeOK, [Next]_vars PROVE TypeOK'
  OBVIOUS
<1> USE DEF TypeOK
<1>1. ASSUME NEW ip \in IPs, FirstOfWindow(ip) PROVE TypeOK'
  <2>1. NewEntry \in Entry
    BY DEF NewEntry, Entry
  <2> QED BY <1>1, <2>1, LogProperties DEF FirstOfWindow, Store
<1>2. ASSUME NEW ip \in IPs, WithinWindow(ip) PROVE TypeOK'
  <2>1. Counted(entries[ip]) \in Entry
    BY <1>2 DEF WithinWindow, Counted, Entry
  <2>2. DOMAIN entries' \subseteq IPs /\ entries' \in [DOMAIN entries' -> Entry]
    BY <1>2, <2>1 DEF WithinWindow, Store
  <2>3. admitted' \in [IPs -> Seq(Nat)] /\ refused' \in [IPs -> Seq(Nat)]
    <3>1. Log(admitted, ip) \in [IPs -> Seq(Nat)] /\ Log(refused, ip) \in [IPs -> Seq(Nat)]
      BY LogProperties
    <3> QED BY <1>2, <3>1 DEF WithinWindow
  <2> QED BY <1>2, <2>2, <2>3 DEF WithinWindow
<1>3. CASE Cleanup BY <1>3 DEF Cleanup
<1>4. CASE Tick BY <1>4 DEF Tick
<1>5. CASE UNCHANGED vars BY <1>5 DEF vars
<1> QED BY <1>1, <1>2, <1>3, <1>4, <1>5 DEF Next, Middleware

(* Type correctness: the map holds entries of client addresses alone, and  *)
(* an entry that is stored has counted a request.                          *)
THEOREM TypeCorrect == Spec => []TypeOK
BY TypeInit, TypeStep, PTL DEF Spec

-----------------------------------------------------------------------------
(***************************************************************************)
(* The inductive invariant.                                                *)
(***************************************************************************)
LEMMA InvInit == Init => IInv
<1> SUFFICES ASSUME Init PROVE IInv
  OBVIOUS
<1>1. \A ip \in IPs : /\ admitted[ip] = <<>> /\ refused[ip] = <<>>
                      /\ DOMAIN admitted[ip] = {} /\ DOMAIN refused[ip] = {}
  BY DEF Init
<1>2. DOMAIN entries = {}
  BY DEF Init
<1> QED BY <1>1, <1>2 DEF IInv, Chronological, OpeningIsFirst, EvictedIsOver,
           RefusalsFollowLimit, LessThanTwiceTheLimit

(* Before a request that opens a window, a whole window has passed since   *)
(* every request but the last Limit - 1: either the entry was evicted, or  *)
(* it is still there and has expired.                                      *)
LEMMA WindowIsOver ==
  ASSUME TypeOK, IInv, NEW ip \in IPs,
         ip \in DOMAIN entries => Expired(entries[ip]),
         NEW i \in DOMAIN admitted[ip], i + Limit <= Len(admitted[ip]) + 1
  PROVE  admitted[ip][i] + Window < now
<1>1. CASE ip \notin DOMAIN entries
  BY <1>1 DEF IInv, EvictedIsOver
<1>2. CASE ip \in DOMAIN entries
  <2> DEFINE s == admitted[ip]
             k == First(ip)
  <2>1. /\ entries[ip].count \in Nat /\ entries[ip].windowEnd \in Nat
        /\ s \in Seq(Nat) /\ Len(s) \in Nat /\ DOMAIN s = 1..Len(s)
    BY <1>2 DEF TypeOK, Entry
  <2>2. /\ k \in DOMAIN s
        /\ entries[ip].windowEnd = s[k] + Window
    BY <1>2 DEF IInv, OpeningIsFirst
  <2>3. i <= k
    <3>1. k = Len(s) + 1 - Admissions(entries[ip])
      BY DEF First
    <3>2. Admissions(entries[ip]) \in Nat /\ Admissions(entries[ip]) <= Limit
      BY <2>1 DEF Admissions
    <3>3. i \in Nat
      BY <2>1
    <3> HIDE DEF k
    <3> QED BY <2>1, <3>1, <3>2, <3>3
  <2>4. s[i] <= s[k]
    BY <2>2, <2>3 DEF IInv, Chronological
  <2>5. now > entries[ip].windowEnd
    BY <1>2 DEF Expired
  <2>6. s[i] \in Nat /\ s[k] \in Nat /\ now \in Nat
    BY <2>1, <2>2 DEF TypeOK
  <2> QED BY <2>2, <2>4, <2>5, <2>6
<1> QED BY <1>1, <1>2

(* A request that is let through: its time ends the address's history, and *)
(* what the invariant says of refusals and of the order is not disturbed.  *)
LEMMA AdmissionKeepsHistories ==
  ASSUME TypeOK, IInv, NEW ip \in IPs,
         admitted' = Log(admitted, ip), now' = now, refused' = refused
  PROVE  Chronological' /\ RefusalsFollowLimit'
<1> DEFINE n == Len(admitted[ip])
<1>1. admitted \in [IPs -> Seq(Nat)] /\ now \in Nat
  BY DEF TypeOK
<1>2. /\ n \in Nat /\ DOMAIN admitted[ip] = 1..n /\ DOMAIN admitted'[ip] = 1..(n+1)
      /\ \A x \in IPs : x # ip => admitted'[x] = admitted[x]
      /\ \A i \in 1..n : admitted'[ip][i] = admitted[ip][i]
      /\ admitted'[ip][n+1] = now
  <2>1. /\ n \in Nat /\ DOMAIN admitted[ip] = 1..n
        /\ DOMAIN Log(admitted, ip)[ip] = 1..(n+1)
        /\ \A x \in IPs : x # ip => Log(admitted, ip)[x] = admitted[x]
        /\ \A i \in 1..n : Log(admitted, ip)[ip][i] = admitted[ip][i]
        /\ Log(admitted, ip)[ip][n+1] = now
    BY AdmissionLogged
  <2> QED BY <2>1
<1>3. \A x \in IPs : \A i \in DOMAIN admitted[x] :
        i \in DOMAIN admitted'[x] /\ admitted'[x][i] = admitted[x][i]
  BY <1>2
<1>4. Chronological'
  <2> SUFFICES ASSUME NEW x \in IPs, NEW i \in DOMAIN admitted'[x]
               PROVE  /\ admitted'[x][i] <= now
                      /\ \A j \in DOMAIN admitted'[x] : i <= j => admitted'[x][i] <= admitted'[x][j]
    BY DEF Chronological
  <2>1. CASE x # ip
    BY <1>2, <2>1 DEF IInv, Chronological
  <2>2. CASE x = ip
    <3>1. \A m \in 1..n : admitted[ip][m] <= now
      BY <1>2 DEF IInv, Chronological
    <3>2. \A m, j \in 1..n : m <= j => admitted[ip][m] <= admitted[ip][j]
      BY <1>2 DEF IInv, Chronological
    <3>3. admitted'[ip][i] <= now
      BY <1>1, <1>2, <2>2, <3>1
    <3>4. ASSUME NEW j \in 1..(n+1), i <= j PROVE admitted'[ip][i] <= admitted'[ip][j]
      <4>1. CASE j = n+1 BY <1>2, <3>3, <4>1
      <4>2. CASE j # n+1
        <5>1. i \in 1..n /\ j \in 1..n
          BY <1>2, <2>2, <3>4, <4>2
        <5> QED BY <1>2, <3>2, <3>4, <5>1
      <4> QED BY <4>1, <4>2
    <3> QED BY <1>2, <2>2, <3>3, <3>4
  <2> QED BY <2>1, <2>2
<1>5. RefusalsFollowLimit'
  <2> SUFFICES ASSUME NEW x \in IPs, NEW r \in DOMAIN refused[x]
               PROVE  \E k \in DOMAIN admitted'[x] :
                        /\ k + Limit - 1 \in DOMAIN admitted'[x]
                        /\ refused[x][r] <= admitted'[x][k] + Window
                        /\ admitted'[x][k + Limit - 1] <= refused[x][r]
    BY DEF RefusalsFollowLimit
  <2>1. PICK k \in DOMAIN admitted[x] :
          /\ k + Limit - 1 \in DOMAIN admitted[x]
          /\ refused[x][r] <= admitted[x][k] + Window
          /\ admitted[x][k + Limit - 1] <= refused[x][r]
    BY DEF IInv, RefusalsFollowLimit
  <2> QED BY <1>3, <2>1
<1> QED BY <1>4, <1>5

(* The other parts of the invariant say of an address what depends on its  *)
(* own entry and history alone.                                            *)
LEMMA FirstOfWindowStep ==
  ASSUME TypeOK, IInv, NEW ip \in IPs, FirstOfWindow(ip)
  PROVE  IInv'
<1> DEFINE n == Len(admitted[ip])
<1>0. now \in Nat /\ now' = now /\ refused' = refused /\ admitted' = Log(admitted, ip)
  BY DEF TypeOK, FirstOfWindow
<1>1. /\ n \in Nat /\ DOMAIN admitted[ip] = 1..n /\ DOMAIN admitted'[ip] = 1..(n+1)
      /\ Len(admitted'[ip]) = n + 1
      /\ \A x \in IPs : x # ip => admitted'[x] = admitted[x]
      /\ \A i \in 1..n : admitted'[ip][i] = admitted[ip][i] /\ admitted[ip][i] \in Nat
      /\ admitted'[ip][n+1] = now
  <2>1. /\ n \in Nat /\ DOMAIN admitted[ip] = 1..n
        /\ \A i \in 1..n : admitted[ip][i] \in Nat
        /\ DOMAIN Log(admitted, ip)[ip] = 1..(n+1)
        /\ Len(Log(admitted, ip)[ip]) = n + 1
        /\ \A x \in IPs : x # ip => Log(admitted, ip)[x] = admitted[x]
        /\ \A i \in 1..n : Log(admitted, ip)[ip][i] = admitted[ip][i]
        /\ Log(admitted, ip)[ip][n+1] = now
    BY AdmissionLogged
  <2> QED BY <1>0, <2>1
<1>2. /\ DOMAIN entries' = DOMAIN entries \cup {ip}
      /\ entries'[ip] = NewEntry
      /\ \A x \in DOMAIN entries : x # ip => entries'[x] = entries[x]
      /\ DOMAIN entries \subseteq IPs
  <2>1. entries' = Store(ip, NewEntry)
    BY DEF FirstOfWindow
  <2> QED BY <2>1 DEF Store, TypeOK
<1>3. \A i \in 1..n : i + Limit <= n + 1 => admitted[ip][i] + Window < now
  BY <1>1, WindowIsOver DEF FirstOfWindow
<1>4. Chronological' /\ RefusalsFollowLimit'
  BY <1>0, AdmissionKeepsHistories
<1>5. OpeningIsFirst'
  <2> SUFFICES ASSUME NEW x \in DOMAIN entries'
               PROVE  /\ First(x)' \in DOMAIN admitted'[x]
                      /\ entries'[x].windowEnd = admitted'[x][First(x)'] + Window
                      /\ \A i \in DOMAIN admitted'[x] :
                           i + Limit <= First(x)' => admitted'[x][i] + Window < admitted'[x][First(x)']
    BY DEF OpeningIsFirst
  <2>1. CASE x = ip
    <3>1. First(x)' = n + 1
      BY <1>1, <1>2, <2>1 DEF First, Admissions, NewEntry
    <3>2. entries'[x].windowEnd = now + Window
      BY <1>2, <2>1 DEF NewEntry
    <3>3. \A i \in 1..(n+1) : i + Limit <= n + 1 => i \in 1..n
      BY <1>1
    <3>4. \A i \in 1..(n+1) : i + Limit <= n + 1 => admitted'[ip][i] + Window < now
      BY <1>1, <1>3, <3>3
    <3> QED BY <1>1, <2>1, <3>1, <3>2, <3>4
  <2>2. CASE x # ip
    <3>1. x \in DOMAIN entries /\ entries'[x] = entries[x] /\ admitted'[x] = admitted[x]
      BY <1>1, <1>2, <2>2
    <3>2. First(x)' = First(x)
      BY <3>1 DEF First, Admissions
    <3> QED BY <3>1, <3>2 DEF IInv, OpeningIsFirst
  <2> QED BY <2>1, <2>2
<1>6. EvictedIsOver'
  <2> SUFFICES ASSUME NEW x \in IPs \ DOMAIN entries', NEW i \in DOMAIN admitted'[x],
                      i + Limit <= Len(admitted'[x]) + 1
               PROVE  admitted'[x][i] + Window < now
    BY <1>0 DEF EvictedIsOver
  <2>1. x \in IPs \ DOMAIN entries /\ admitted'[x] = admitted[x]
    BY <1>1, <1>2
  <2> QED BY <2>1 DEF IInv, EvictedIsOver
<1>7. LessThanTwiceTheLimit'
  <2> SUFFICES ASSUME NEW x \in IPs, NEW i \in DOMAIN admitted'[x], NEW j \in DOMAIN admitted'[x],
                      j >= i + 2 * Limit - 1
               PROVE  admitted'[x][j] > admitted'[x][i] + Window
    BY DEF LessThanTwiceTheLimit
  <2>1. CASE x = ip /\ j = n + 1
    <3>1. i \in 1..n /\ i + Limit <= n + 1
      BY <1>1, <2>1
    <3> QED BY <1>0, <1>1, <1>3, <2>1, <3>1
  <2>2. CASE ~(x = ip /\ j = n + 1)
    <3>1. /\ i \in DOMAIN admitted[x] /\ j \in DOMAIN admitted[x]
          /\ admitted'[x][i] = admitted[x][i] /\ admitted'[x][j] = admitted[x][j]
      <4>1. CASE x # ip BY <1>1, <4>1
      <4>2. CASE x = ip
        <5>1. i \in 1..n /\ j \in 1..n
          BY <1>1, <2>2, <4>2
        <5> QED BY <1>1, <4>2, <5>1
      <4> QED BY <4>1, <4>2
    <3> QED BY <3>1 DEF IInv, LessThanTwiceTheLimit
  <2> QED BY <2>1, <2>2
<1> QED BY <1>4, <1>5, <1>6, <1>7 DEF IInv

LEMMA AdmittedWithinWindowStep ==
  ASSUME TypeOK, IInv, NEW ip \in IPs, WithinWindow(ip), entries[ip].count < Limit
  PROVE  IInv'
<1> DEFINE n == Len(admitted[ip])
           k == First(ip)
<1>0. /\ now \in Nat /\ now' = now /\ ip \in DOMAIN entries
      /\ entries[ip].count \in Nat \ {0} /\ entries[ip].windowEnd \in Nat
      /\ entries' = Store(ip, Counted(entries[ip]))
  BY DEF TypeOK, WithinWindow, Entry
<1>1. refused' = refused /\ admitted' = Log(admitted, ip)
  BY <1>0 DEF WithinWindow, Counted
<1>2. /\ n \in Nat /\ DOMAIN admitted[ip] = 1..n /\ DOMAIN admitted'[ip] = 1..(n+1)
      /\ Len(admitted'[ip]) = n + 1
      /\ \A x \in IPs : x # ip => admitted'[x] = admitted[x]
      /\ \A i \in 1..n : admitted'[ip][i] = admitted[ip][i] /\ admitted[ip][i] \in Nat
      /\ admitted'[ip][n+1] = now
  <2>1. /\ n \in Nat /\ DOMAIN admitted[ip] = 1..n
        /\ \A i \in 1..n : admitted[ip][i] \in Nat
        /\ DOMAIN Log(admitted, ip)[ip] = 1..(n+1)
        /\ Len(Log(admitted, ip)[ip]) = n + 1
        /\ \A x \in IPs : x # ip => Log(admitted, ip)[x] = admitted[x]
        /\ \A i \in 1..n : Log(admitted, ip)[ip][i] = admitted[ip][i]
        /\ Log(admitted, ip)[ip][n+1] = now
    BY AdmissionLogged
  <2> QED BY <1>1, <2>1
<1>3. /\ DOMAIN entries' = DOMAIN entries
      /\ entries'[ip] = Counted(entries[ip])
      /\ \A x \in DOMAIN entries : x # ip => entries'[x] = entries[x]
      /\ DOMAIN entries \subseteq IPs
  BY <1>0 DEF Store, TypeOK
<1>4. /\ k = n + 1 - entries[ip].count
      /\ First(ip)' = k
      /\ k \in 1..n
      /\ entries[ip].windowEnd = admitted[ip][k] + Window
      /\ \A i \in 1..n : i + Limit <= k => admitted[ip][i] + Window < admitted[ip][k]
  <2>1. k = n + 1 - entries[ip].count
    BY <1>0 DEF First, Admissions
  <2>2. First(ip)' = n + 2 - (entries[ip].count + 1)
    <3>1. entries'[ip].count = entries[ip].count + 1
      BY <1>3 DEF Counted
    <3>2. Admissions(entries[ip])' = entries[ip].count + 1
      BY <1>0, <3>1 DEF Admissions
    <3>3. First(ip)' = Len(admitted'[ip]) + 1 - Admissions(entries[ip])'
      BY DEF First
    <3>4. Len(admitted'[ip]) = n + 1 /\ n \in Nat
      BY <1>2
    <3> HIDE DEF n
    <3>5. First(ip)' = (n + 1) + 1 - (entries[ip].count + 1)
      BY <3>2, <3>3, <3>4
    <3> QED BY <1>0, <3>4, <3>5
  <2>3. First(ip)' = k
    BY <1>0, <1>2, <2>1, <2>2
  <2>4. /\ k \in DOMAIN admitted[ip]
        /\ entries[ip].windowEnd = admitted[ip][k] + Window
        /\ \A i \in DOMAIN admitted[ip] :
             i + Limit <= k => admitted[ip][i] + Window < admitted[ip][k]
    BY <1>0 DEF IInv, OpeningIsFirst
  <2> HIDE DEF k
  <2> QED BY <1>2, <2>1, <2>3, <2>4
<1>5. Chronological' /\ RefusalsFollowLimit'
  BY <1>0, <1>1, AdmissionKeepsHistories
<1>6. OpeningIsFirst'
  <2> SUFFICES ASSUME NEW x \in DOMAIN entries'
               PROVE  /\ First(x)' \in DOMAIN admitted'[x]
                      /\ entries'[x].windowEnd = admitted'[x][First(x)'] + Window
                      /\ \A i \in DOMAIN admitted'[x] :
                           i + Limit <= First(x)' => admitted'[x][i] + Window < admitted'[x][First(x)']
    BY DEF OpeningIsFirst
  <2>1. CASE x = ip
    <3>1. entries'[x].windowEnd = entries[ip].windowEnd
      BY <1>3, <2>1 DEF Counted
    <3>2. \A i \in 1..(n+1) : i + Limit <= k => i \in 1..n
      BY <1>2, <1>4
    <3>3. \A i \in 1..(n+1) : i + Limit <= k => admitted'[ip][i] + Window < admitted'[ip][k]
      BY <1>2, <1>4, <3>2
    <3> HIDE DEF k
    <3>4. k \in 1..(n+1) /\ admitted'[ip][k] = admitted[ip][k]
      BY <1>2, <1>4
    <3> QED BY <1>2, <1>4, <2>1, <3>1, <3>3, <3>4
  <2>2. CASE x # ip
    <3>1. x \in DOMAIN entries /\ entries'[x] = entries[x] /\ admitted'[x] = admitted[x]
      BY <1>2, <1>3, <2>2
    <3>2. First(x)' = First(x)
      BY <3>1 DEF First, Admissions
    <3> QED BY <3>1, <3>2 DEF IInv, OpeningIsFirst
  <2> QED BY <2>1, <2>2
<1>7. EvictedIsOver'
  <2> SUFFICES ASSUME NEW x \in IPs \ DOMAIN entries', NEW i \in DOMAIN admitted'[x],
                      i + Limit <= Len(admitted'[x]) + 1
               PROVE  admitted'[x][i] + Window < now
    BY <1>0 DEF EvictedIsOver
  <2>1. x \in IPs \ DOMAIN entries /\ admitted'[x] = admitted[x]
    BY <1>0, <1>2, <1>3
  <2> QED BY <2>1 DEF IInv, EvictedIsOver
<1>8. LessThanTwiceTheLimit'
  <2> SUFFICES ASSUME NEW x \in IPs, NEW i \in DOMAIN admitted'[x], NEW j \in DOMAIN admitted'[x],
                      j >= i + 2 * Limit - 1
               PROVE  admitted'[x][j] > admitted'[x][i] + Window
    BY DEF LessThanTwiceTheLimit
  <2>1. CASE x = ip /\ j = n + 1
    <3>0. i \in Nat /\ i >= 1 /\ i + 2 * Limit - 1 <= n + 1
      BY <1>2, <2>1
    <3>1. i \in 1..n /\ i + Limit <= k
      <4>1. k = n + 1 - entries[ip].count
        BY <1>4
      <4> HIDE DEF k
      <4> QED BY <1>0, <1>2, <3>0, <4>1
    <3>2. admitted[ip][i] + Window < admitted[ip][k] /\ admitted[ip][k] <= now
      BY <1>2, <1>4, <3>1 DEF IInv, Chronological
    <3>3. admitted[ip][i] \in Nat /\ admitted[ip][k] \in Nat
      BY <1>2, <1>4, <3>1
    <3> HIDE DEF k
    <3>4. admitted'[x][j] = now /\ admitted'[x][i] = admitted[ip][i]
      BY <1>2, <2>1, <3>1
    <3> QED BY <1>0, <3>2, <3>3, <3>4
  <2>2. CASE ~(x = ip /\ j = n + 1)
    <3>1. /\ i \in DOMAIN admitted[x] /\ j \in DOMAIN admitted[x]
          /\ admitted'[x][i] = admitted[x][i] /\ admitted'[x][j] = admitted[x][j]
      <4>1. CASE x # ip BY <1>2, <4>1
      <4>2. CASE x = ip
        <5> HIDE DEF n
        <5>0. i \in 1..(n+1) /\ j \in 1..(n+1) /\ j # n + 1 /\ n \in Nat
          BY <1>2, <2>2, <4>2
        <5>1. i \in 1..n /\ j \in 1..n
          BY <5>0
        <5> QED BY <1>2, <4>2, <5>1
      <4> QED BY <4>1, <4>2
    <3> QED BY <3>1 DEF IInv, LessThanTwiceTheLimit
  <2> QED BY <2>1, <2>2
<1> QED BY <1>5, <1>6, <1>7, <1>8 DEF IInv

(* A request that is refused follows Limit admissions of its own window,   *)
(* which has not ended.                                                    *)
LEMMA RefusedWithinWindowStep ==
  ASSUME TypeOK, IInv, NEW ip \in IPs, WithinWindow(ip), ~(entries[ip].count < Limit)
  PROVE  IInv'
<1> DEFINE n == Len(admitted[ip])
           k == First(ip)
           m == Len(refused[ip])
<1>0. /\ now \in Nat /\ now' = now /\ ip \in DOMAIN entries
      /\ entries[ip].count \in Nat \ {0} /\ entries[ip].windowEnd \in Nat
      /\ now <= entries[ip].windowEnd
      /\ entries' = Store(ip, Counted(entries[ip]))
  BY DEF TypeOK, WithinWindow, Entry, Expired
<1>1. admitted' = admitted /\ refused' = Log(refused, ip)
  BY <1>0 DEF WithinWindow, Counted
<1>2. /\ n \in Nat /\ DOMAIN admitted[ip] = 1..n
      /\ \A i \in 1..n : admitted[ip][i] \in Nat
  <2>1. admitted[ip] \in Seq(Nat)
    BY DEF TypeOK
  <2> QED BY <2>1
<1>3. /\ DOMAIN entries' = DOMAIN entries
      /\ entries'[ip] = Counted(entries[ip])
      /\ \A x \in DOMAIN entries : x # ip => entries'[x] = entries[x]
      /\ DOMAIN entries \subseteq IPs
  BY <1>0 DEF Store, TypeOK
<1>4. \A x \in DOMAIN entries : /\ First(x)' = First(x)
                               /\ entries'[x].windowEnd = entries[x].windowEnd
  <2> SUFFICES ASSUME NEW x \in DOMAIN entries
               PROVE  First(x)' = First(x) /\ entries'[x].windowEnd = entries[x].windowEnd
    OBVIOUS
  <2>1. CASE x = ip
    <3>1. Admissions(entries[x]) = Limit /\ Admissions(entries'[x]) = Limit
      BY <1>0, <1>3, <2>1 DEF Admissions, Counted
    <3> QED BY <1>1, <1>3, <2>1, <3>1 DEF First, Counted, Admissions
  <2>2. CASE x # ip
    <3>1. entries'[x] = entries[x]
      BY <1>3, <2>2
    <3> QED BY <1>1, <3>1 DEF First, Admissions
  <2> QED BY <2>1, <2>2
<1>5. OpeningIsFirst'
  BY <1>1, <1>3, <1>4 DEF IInv, OpeningIsFirst
<1>6. Chronological' /\ EvictedIsOver' /\ LessThanTwiceTheLimit'
  BY <1>0, <1>1, <1>3 DEF IInv, Chronological, EvictedIsOver, LessThanTwiceTheLimit
<1>7. /\ k = n + 1 - Limit /\ k \in 1..n /\ k + Limit - 1 = n
      /\ now <= admitted[ip][k] + Window
      /\ admitted[ip][n] <= now
  <2>1. k = n + 1 - Limit
    BY <1>0 DEF First, Admissions
  <2>2. k \in 1..n /\ entries[ip].windowEnd = admitted[ip][k] + Window
    BY <1>0, <1>2 DEF IInv, OpeningIsFirst
  <2>3. n \in 1..n
    BY <1>2, <2>2
  <2>4. admitted[ip][n] <= now
    BY <1>2, <2>3 DEF IInv, Chronological
  <2> HIDE DEF k
  <2> QED BY <1>0, <1>2, <2>1, <2>2, <2>4
<1>8. RefusalsFollowLimit'
  <2>1. /\ m \in Nat /\ DOMAIN refused[ip] = 1..m /\ DOMAIN refused'[ip] = 1..(m+1)
        /\ \A x \in IPs : x # ip => refused'[x] = refused[x]
        /\ \A i \in 1..m : refused'[ip][i] = refused[ip][i]
        /\ refused'[ip][m+1] = now
    <3>1. refused \in [IPs -> Seq(Nat)]
      BY DEF TypeOK
    <3>2. /\ m \in Nat /\ DOMAIN refused[ip] = 1..m
          /\ DOMAIN Log(refused, ip)[ip] = 1..(m+1)
          /\ \A x \in IPs : x # ip => Log(refused, ip)[x] = refused[x]
          /\ \A i \in DOMAIN refused[ip] : Log(refused, ip)[ip][i] = refused[ip][i]
          /\ Log(refused, ip)[ip][m+1] = now
      BY <1>0, <3>1, LogProperties
    <3> QED BY <1>1, <3>2
  <2> SUFFICES ASSUME NEW x \in IPs, NEW r \in DOMAIN refused'[x]
               PROVE  \E q \in DOMAIN admitted[x] :
                        /\ q + Limit - 1 \in DOMAIN admitted[x]
                        /\ refused'[x][r] <= admitted[x][q] + Window
                        /\ admitted[x][q + Limit - 1] <= refused'[x][r]
    BY <1>1 DEF RefusalsFollowLimit
  <2>2. CASE x = ip /\ r = m + 1
    <3>1. refused'[x][r] = now
      BY <2>1, <2>2
    <3>2. k \in DOMAIN admitted[x] /\ n \in DOMAIN admitted[x]
      BY <1>2, <1>7, <2>2
    <3> HIDE DEF k
    <3>3. /\ k + Limit - 1 \in DOMAIN admitted[x]
          /\ refused'[x][r] <= admitted[x][k] + Window
          /\ admitted[x][k + Limit - 1] <= refused'[x][r]
      BY <1>7, <2>2, <3>1, <3>2
    <3> QED BY <3>2, <3>3
  <2>3. CASE ~(x = ip /\ r = m + 1)
    <3>1. r \in DOMAIN refused[x] /\ refused'[x][r] = refused[x][r]
      <4>1. CASE x # ip BY <2>1, <4>1
      <4>2. CASE x = ip
        <5>1. r \in 1..m
          BY <2>1, <2>3, <4>2
        <5> QED BY <2>1, <4>2, <5>1
      <4> QED BY <4>1, <4>2
    <3> QED BY <3>1 DEF IInv, RefusalsFollowLimit
  <2> QED BY <2>2, <2>3
<1> QED BY <1>5, <1>6, <1>8 DEF IInv

LEMMA InvStep == TypeOK /\ IInv /\ [Next]_vars => IInv'
<1> SUFFICES ASSUME TypeOK, IInv, [Next]_vars PROVE IInv'
  OBVIOUS
<1>1. ASSUME NEW ip \in IPs, Middleware(ip) PROVE IInv'
  BY <1>1, FirstOfWindowStep, AdmittedWithinWindowStep, RefusedWithinWindowStep DEF Middleware
<1>2. CASE Cleanup
  <2>1. /\ DOMAIN entries' = {i \in DOMAIN entries : ~Expired(entries[i])}
        /\ \A x \in DOMAIN entries' : entries'[x] = entries[x]
        /\ now' = now /\ admitted' = admitted /\ refused' = refused
    BY <1>2 DEF Cleanup
  <2>2. Chronological' /\ RefusalsFollowLimit' /\ LessThanTwiceTheLimit'
    BY <2>1 DEF IInv, Chronological, RefusalsFollowLimit, LessThanTwiceTheLimit
  <2>3. OpeningIsFirst'
    <3>1. \A x \in DOMAIN entries' : x \in DOMAIN entries /\ First(x)' = First(x)
      BY <2>1 DEF First, Admissions
    <3> QED BY <2>1, <3>1 DEF IInv, OpeningIsFirst
  <2>4. EvictedIsOver'
    <3> SUFFICES ASSUME NEW x \in IPs \ DOMAIN entries', NEW i \in DOMAIN admitted[x],
                        i + Limit <= Len(admitted[x]) + 1
                 PROVE  admitted[x][i] + Window < now
      BY <2>1 DEF EvictedIsOver
    <3>1. x \in DOMAIN entries => Expired(entries[x])
      BY <2>1
    <3> QED BY <3>1, WindowIsOver
  <2> QED BY <2>2, <2>3, <2>4 DEF IInv
<1>3. CASE Tick
  <2>1. /\ now \in Nat /\ now' = now + 1
        /\ entries' = entries /\ admitted' = admitted /\ refused' = refused
        /\ \A x \in IPs : \A i \in DOMAIN admitted[x] : admitted[x][i] \in Nat
    BY <1>3 DEF Tick, TypeOK
  <2>2. \A x \in DOMAIN entries : First(x)' = First(x)
    BY <2>1 DEF First, Admissions
  <2>3. OpeningIsFirst' /\ RefusalsFollowLimit' /\ LessThanTwiceTheLimit'
    BY <2>1, <2>2 DEF IInv, OpeningIsFirst, RefusalsFollowLimit, LessThanTwiceTheLimit
  <2>4. Chronological'
    BY <2>1 DEF IInv, Chronological
  <2>5. EvictedIsOver'
    BY <2>1 DEF IInv, EvictedIsOver
  <2> QED BY <2>3, <2>4, <2>5 DEF IInv
<1>4. CASE UNCHANGED vars
  <2>1. \A x \in DOMAIN entries : First(x)' = First(x)
    BY <1>4 DEF vars, First, Admissions
  <2> QED BY <1>4, <2>1 DEF vars, IInv, Chronological, OpeningIsFirst, EvictedIsOver,
             RefusalsFollowLimit, LessThanTwiceTheLimit
<1> QED BY <1>1, <1>2, <1>3, <1>4 DEF Next

(* The invariant holds throughout.                                         *)
THEOREM Invariance == Spec => []IInv
BY TypeCorrect, InvInit, InvStep, PTL DEF Spec

(* For every limit, window and traffic: 2 * Limit requests of one address  *)
(* that are let through take more than a window, whatever is evicted in    *)
(* the meantime.                                                           *)
THEOREM LessThanTwice == Spec => []LessThanTwiceTheLimit
<1>1. IInv => LessThanTwiceTheLimit
  BY DEF IInv
<1> QED BY Invariance, <1>1, PTL

(* A refusal comes after Limit admissions that are at most a window old.   *)
THEOREM RefusalsEarned == Spec => []RefusalsAreEarned
<1>1. TypeOK /\ IInv => RefusalsAreEarned
  <2> SUFFICES ASSUME TypeOK, IInv, NEW ip \in IPs, NEW r \in DOMAIN refused[ip]
               PROVE  Cardinality({i \in DOMAIN admitted[ip] :
                                     /\ admitted[ip][i] <= refused[ip][r]
                                     /\ refused[ip][r] <= admitted[ip][i] + Window}) >= Limit
    BY DEF RefusalsAreEarned
  <2> DEFINE s == admitted[ip]
             t == refused[ip][r]
             recent == {i \in DOMAIN s : s[i] <= t /\ t <= s[i] + Window}
  <2>1. /\ Len(s) \in Nat /\ DOMAIN s = 1..Len(s)
        /\ \A i \in DOMAIN s : s[i] \in Nat
        /\ t \in Nat
    <3>1. s \in Seq(Nat) /\ refused[ip] \in Seq(Nat)
      BY DEF TypeOK
    <3> QED BY <3>1
  <2>2. PICK k \in DOMAIN s : /\ k + Limit - 1 \in DOMAIN s
                              /\ t <= s[k] + Window
                              /\ s[k + Limit - 1] <= t
    BY DEF IInv, RefusalsFollowLimit
  <2>3. ASSUME NEW i \in k..(k + Limit - 1) PROVE i \in recent
    <3>1. i \in DOMAIN s
      BY <2>1, <2>2
    <3>2. s[k] <= s[i] /\ s[i] <= s[k + Limit - 1]
      BY <2>1, <2>2, <3>1 DEF IInv, Chronological
    <3>3. s[k] \in Nat /\ s[i] \in Nat /\ s[k + Limit - 1] \in Nat
      BY <2>1, <2>2, <3>1
    <3> HIDE DEF s, t
    <3>4. s[i] <= t /\ t <= s[i] + Window
      BY <2>1, <2>2, <3>2, <3>3
    <3> QED BY <3>1, <3>4
  <2>4. IsFiniteSet(recent)
    <3>1. IsFiniteSet(1..Len(s))
      BY <2>1, FS_Interval
    <3>2. recent \subseteq 1..Len(s)
      BY <2>1
    <3> QED BY <3>1, <3>2, FS_Subset
  <2>5. Cardinality(k..(k + Limit - 1)) = Limit
    <3>1. k \in Int /\ k + Limit - 1 \in Int /\ k <= k + Limit - 1
      BY <2>1, <2>2
    <3> QED BY <2>1, <3>1, FS_Interval
  <2>6. Cardinality(k..(k + Limit - 1)) <= Cardinality(recent)
    <3>1. k..(k + Limit - 1) \subseteq recent
      BY <2>3
    <3> QED BY <2>4, <3>1, FS_Subset
  <2>7. Cardinality(recent) \in Nat
    BY <2>4, FS_CardinalityType
  <2> QED BY <2>5, <2>6, <2>7
<1> QED BY TypeCorrect, Invariance, <1>1, PTL

-----------------------------------------------------------------------------
(***************************************************************************)
(* The limiter implements windows that are forgotten when they end.        *)
(***************************************************************************)
LEMMA RefinesInit == Init => F!Init
<1> SUFFICES ASSUME Init PROVE F!Init
  OBVIOUS
<1>1. Live = {} /\ now \in Nat
  BY DEF Init, Live
<1> QED BY <1>1 DEF Init, F!Init

LEMMA RefinesStep ==
  ASSUME TypeOK, [Next]_vars
  PROVE  [F!Next]_F!vars
<1> DEFINE W(x) == [left |-> RoomLeft(entries[x]), end |-> entries[x].windowEnd]
<1>0. /\ now \in Nat
      /\ \A x \in DOMAIN entries : x \in IPs /\ entries[x].count \in Nat \ {0} /\ entries[x].windowEnd \in Nat
  BY DEF TypeOK, Entry
<1>1. ASSUME NEW ip \in IPs, FirstOfWindow(ip) PROVE F!Open(ip)
  <2>1. ip \notin Live /\ now' = now /\ refused' = refused /\ admitted' = F!Log(admitted, ip)
    BY <1>1 DEF FirstOfWindow, Live, Log, F!Log
  <2>2. Live' = Live \cup {ip}
    BY <1>0, <1>1 DEF FirstOfWindow, Live, Expired, Store, NewEntry
  <2>3. RoomLeft(entries[ip])' = Limit - 1 /\ entries'[ip].windowEnd = now + Window
    BY <1>1 DEF FirstOfWindow, Store, NewEntry, RoomLeft
  <2>4. \A x \in Live : x # ip /\ W(x)' = W(x)
    BY <1>1, <2>1 DEF FirstOfWindow, Store, Live, RoomLeft
  <2>5. [x \in Live' |-> W(x)'] = [x \in Live \cup {ip} |->
          IF x = ip THEN [left |-> Limit - 1, end |-> now + Window] ELSE W(x)]
    BY <2>2, <2>3, <2>4
  <2> QED BY <2>1, <2>5 DEF F!Open, F!Set
<1>2. ASSUME NEW ip \in IPs, WithinWindow(ip) PROVE F!Admit(ip) \/ F!Refuse(ip)
  <2>1. /\ ip \in Live /\ ip \in DOMAIN entries /\ now' = now
        /\ entries' = Store(ip, Counted(entries[ip]))
    BY <1>2 DEF WithinWindow, Live
  <2>2. entries'[ip].count = entries[ip].count + 1 /\ entries'[ip].windowEnd = entries[ip].windowEnd
    BY <2>1 DEF Store, Counted
  <2>3. /\ DOMAIN entries' = DOMAIN entries
        /\ \A x \in DOMAIN entries : x # ip => entries'[x] = entries[x]
    BY <2>1 DEF Store
  <2>4. Live' = Live
    BY <2>1, <2>2, <2>3 DEF Live, Expired
  <2>5. \A x \in Live : x # ip => W(x)' = W(x)
    BY <2>3 DEF Live, RoomLeft
  <2>6. CASE entries[ip].count < Limit
    <3>1. RoomLeft(entries[ip]) > 0 /\ RoomLeft(entries[ip])' = RoomLeft(entries[ip]) - 1
      BY <1>0, <2>1, <2>2, <2>6 DEF RoomLeft
    <3>2. admitted' = F!Log(admitted, ip) /\ refused' = refused
      BY <1>0, <1>2, <2>1, <2>6 DEF WithinWindow, Counted, Log, F!Log
    <3>3. [x \in Live' |-> W(x)'] = [x \in Live \cup {ip} |->
            IF x = ip THEN [left |-> RoomLeft(entries[ip]) - 1, end |-> entries[ip].windowEnd]
                      ELSE W(x)]
      BY <2>1, <2>2, <2>4, <2>5, <3>1
    <3> QED BY <2>1, <3>1, <3>2, <3>3 DEF F!Admit, F!Set
  <2>7. CASE ~(entries[ip].count < Limit)
    <3>1. RoomLeft(entries[ip]) = 0 /\ RoomLeft(entries[ip])' = 0
      BY <1>0, <2>1, <2>2, <2>7 DEF RoomLeft
    <3>2. refused' = F!Log(refused, ip) /\ admitted' = admitted
      BY <1>0, <1>2, <2>1, <2>7 DEF WithinWindow, Counted, Log, F!Log
    <3>3. [x \in Live' |-> W(x)'] = [x \in Live |-> W(x)]
      BY <2>2, <2>4, <2>5, <3>1
    <3> QED BY <2>1, <3>1, <3>2, <3>3 DEF F!Refuse
  <2> QED BY <2>6, <2>7
<1>3. CASE Cleanup
  <2>1. Live' = Live /\ \A x \in Live : W(x)' = W(x)
    BY <1>3 DEF Cleanup, Live, Expired, RoomLeft
  <2>2. [x \in Live' |-> W(x)'] = [x \in Live |-> W(x)]
    BY <2>1
  <2> QED BY <1>3, <2>2 DEF Cleanup, F!vars
<1>4. CASE Tick
  <2>1. now' = now + 1 /\ entries' = entries /\ admitted' = admitted /\ refused' = refused
    BY <1>4 DEF Tick
  <2>2. Live' = {x \in Live : now' <= entries[x].windowEnd}
    BY <1>0, <2>1 DEF Live, Expired
  <2>3. \A x \in Live : W(x)' = W(x)
    BY <2>1 DEF RoomLeft
  <2>4. [x \in Live' |-> W(x)'] = [x \in {y \in Live : now' <= entries[y].windowEnd} |-> W(x)]
    BY <2>2, <2>3
  <2> DEFINE bar == [x \in Live |-> W(x)]
  <2>5. /\ DOMAIN bar = Live
        /\ \A x \in Live : bar[x] = W(x) /\ bar[x].end = entries[x].windowEnd
    OBVIOUS
  <2>6. {y \in DOMAIN bar : now' <= bar[y].end} = {y \in Live : now' <= entries[y].windowEnd}
    BY <2>5
  <2>7. [x \in Live' |-> W(x)'] = [x \in {y \in DOMAIN bar : now' <= bar[y].end} |-> bar[x]]
    BY <2>4, <2>5, <2>6
  <2>8. F!Tick
    BY <2>1, <2>7 DEF F!Tick
  <2> QED BY <2>8 DEF F!Next
<1>5. CASE UNCHANGED vars
  <2>1. Live' = Live /\ \A x \in Live : W(x)' = W(x)
    BY <1>5 DEF vars, Live, Expired, RoomLeft
  <2>2. [x \in Live' |-> W(x)'] = [x \in Live |-> W(x)]
    BY <2>1
  <2> QED BY <1>5, <2>2 DEF vars, F!vars
<1> QED BY <1>1, <1>2, <1>3, <1>4, <1>5 DEF Next, Middleware, F!Next

(* Whatever cleanup evicts and whenever it runs, every request gets the    *)
(* verdict it would get if each address had a window of its own and there  *)
(* were no map.                                                            *)
THEOREM Refinement == Spec => EvictionIsInvisible
BY TypeCorrect, RefinesInit, RefinesStep, PTL DEF Spec, EvictionIsInvisible, F!Spec
=============================================================================
