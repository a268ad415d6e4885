---------------------------- MODULE RateLimiter ----------------------------
(***************************************************************************)
(* The in-memory rate limiter of ratelimit_middleware.go.                  *)
(*                                                                         *)
(* Everything between rl.mu.Lock() and Unlock(), the reading of the clock  *)
(* included, is one step: of a request, or of the goroutine that evicts    *)
(* expired entries on the ticks of a time.Ticker.  Time is counted in      *)
(* ticks of a clock, and may pass between any two steps.                   *)
(***************************************************************************)
EXTENDS Naturals, Sequences, FiniteSets

CONSTANTS
  IPs,     (* client addresses, as GetIP tells them apart                  *)
  Limit,   (* RateLimiter.limit; config fills in 100                       *)
  Window   (* RateLimiter.window, in ticks; config fills in 900 seconds    *)

ASSUME LimitAssumption == Limit \in Nat \ {0}
ASSUME WindowAssumption == Window \in Nat \ {0}

VARIABLES
  now,       (* the clock                                                  *)
  entries,   (* RateLimiter.entries: a map from addresses                  *)
  ticked,    (* a tick waits in ticker.C, which holds one                  *)
  admitted,  (* history: when the requests of an address were let through  *)
  refused    (* history: and when they got a 429                           *)

vars == <<now, entries, ticked, admitted, refused>>

Entry == [count : Nat \ {0}, windowEnd : Nat]

TypeOK ==
  /\ now \in Nat
  /\ DOMAIN entries \subseteq IPs
  /\ entries \in [DOMAIN entries -> Entry]
  /\ ticked \in BOOLEAN
  /\ admitted \in [IPs -> Seq(Nat)]
  /\ refused \in [IPs -> Seq(Nat)]

(* NewRateLimiter, which starts the ticker. *)
Init ==
  /\ now = 0
  /\ entries = [ip \in {} |-> {}]
  /\ ticked = FALSE
  /\ admitted = [ip \in IPs |-> <<>>]
  /\ refused = [ip \in IPs |-> <<>>]

-----------------------------------------------------------------------------
(* now.After(e.windowEnd) *)
Expired(e) == now > e.windowEnd

Uncounted == [count |-> 0, windowEnd |-> now + Window]
NewEntry == [count |-> 1, windowEnd |-> now + Window]

Counted(e) == [count |-> e.count + 1, windowEnd |-> e.windowEnd]

Store(ip, e) ==
  [x \in DOMAIN entries \cup {ip} |-> IF x = ip THEN e ELSE entries[x]]

Log(history, ip) == [history EXCEPT ![ip] = Append(@, now)]

(* Middleware: the address has no entry, or one that has expired. *)
FirstOfWindow(ip) ==
  /\ ip \in DOMAIN entries => Expired(entries[ip])
  /\ entries' = Store(ip, NewEntry)
  /\ admitted' = Log(admitted, ip)
  /\ UNCHANGED <<now, ticked, refused>>

RestartsWindow(ip) ==
  /\ ip \in DOMAIN entries
  /\ ~Expired(entries[ip])
  /\ LET e == Counted(entries[ip]) IN
     /\ entries' = Store(ip, [count |-> e.count, windowEnd |-> now + Window])
     /\ IF e.count > Limit
          THEN refused' = Log(refused, ip) /\ UNCHANGED admitted
          ELSE admitted' = Log(admitted, ip) /\ UNCHANGED refused
  /\ UNCHANGED <<now, ticked>>

(* Middleware: a request inside the window is counted whether it is let    *)
(* through or not.                                                         *)
WithinWindow(ip) ==
  /\ ip \in DOMAIN entries
  /\ ~Expired(entries[ip])
  /\ LET e == Counted(entries[ip]) IN
     /\ entries' = Store(ip, e)
     /\ IF e.count > Limit
          THEN refused' = Log(refused, ip) /\ UNCHANGED admitted
          ELSE admitted' = Log(admitted, ip) /\ UNCHANGED refused
  /\ UNCHANGED <<now, ticked>>

CleanupEvictsAll ==
  /\ ticked
  /\ ticked' = FALSE
  /\ entries' = [ip \in {} |-> {}]
  /\ UNCHANGED <<now, admitted, refused>>

CleanupEvictsLive ==
  /\ ticked
  /\ ticked' = FALSE
  /\ entries' = [ip \in {i \in DOMAIN entries : Expired(entries[i])} |-> entries[ip]]
  /\ UNCHANGED <<now, admitted, refused>>

(* One round of cleanup: what has expired goes. *)
Cleanup ==
  /\ ticked
  /\ ticked' = FALSE
  /\ entries' = [ip \in {i \in DOMAIN entries : ~Expired(entries[i])} |-> entries[ip]]
  /\ UNCHANGED <<now, admitted, refused>>

(* Time passes.  The ticker ticks every Window; it drops the tick if the   *)
(* last one has not been taken.                                            *)
Tick ==
  /\ now' = now + 1
  /\ ticked' = (ticked \/ now' % Window = 0)
  /\ UNCHANGED <<entries, admitted, refused>>

Middleware(ip) == FirstOfWindow(ip) \/ WithinWindow(ip)

Next ==
  \/ \E ip \in IPs : Middleware(ip)
  \/ Cleanup
  \/ Tick

Spec == Init /\ [][Next]_vars

-----------------------------------------------------------------------------
(* Every address gets less than twice the limit through in any stretch of  *)
(* time as long as a window, wherever the windows and the evictions fall   *)
(* (ratelimit_middleware.go:48-66): what opened the stretch's first window *)
(* is before the stretch, or that window is the only one in it.            *)
LessThanTwiceTheLimit ==
  \A ip \in IPs :
    LET s == admitted[ip] IN
    \A i, j \in DOMAIN s : j >= i + 2 * Limit - 1 => s[j] > s[i] + Window

(* Whoever is refused has had the whole limit let through since a window   *)
(* ago: a refused request never prolongs the refusal.                      *)
RefusalsAreEarned ==
  \A ip \in IPs : \A k \in DOMAIN refused[ip] :
    LET t == refused[ip][k] IN
    Cardinality({i \in DOMAIN admitted[ip] :
                   admitted[ip][i] <= t /\ t <= admitted[ip][i] + Window}) >= Limit

(* Why.  The requests let through in the current window are the last ones  *)
(* of the history; its first opened the window; and Limit requests before  *)
(* that one, or before any request once the window is over, a whole window *)
(* has gone by.                                                            *)
Admissions(e) == IF e.count < Limit THEN e.count ELSE Limit
First(ip) == Len(admitted[ip]) + 1 - Admissions(entries[ip])

Chronological ==
  \A ip \in IPs : \A i \in DOMAIN admitted[ip] :
    /\ admitted[ip][i] <= now
    /\ \A j \in DOMAIN admitted[ip] : i <= j => admitted[ip][i] <= admitted[ip][j]

OpeningIsFirst ==
  \A ip \in DOMAIN entries :
    /\ First(ip) \in DOMAIN admitted[ip]
    /\ entries[ip].windowEnd = admitted[ip][First(ip)] + Window
    /\ \A i \in DOMAIN admitted[ip] :
         i + Limit <= First(ip) => admitted[ip][i] + Window < admitted[ip][First(ip)]

EvictedIsOver ==
  \A ip \in IPs \ DOMAIN entries : \A i \in DOMAIN admitted[ip] :
    i + Limit <= Len(admitted[ip]) + 1 => admitted[ip][i] + Window < now

RefusalsFollowLimit ==
  \A ip \in IPs : \A r \in DOMAIN refused[ip] :
    \E k \in DOMAIN admitted[ip] :
      /\ k + Limit - 1 \in DOMAIN admitted[ip]
      /\ refused[ip][r] <= admitted[ip][k] + Window
      /\ admitted[ip][k + Limit - 1] <= refused[ip][r]

IInv ==
  /\ Chronological
  /\ OpeningIsFirst
  /\ EvictedIsOver
  /\ RefusalsFollowLimit
  /\ LessThanTwiceTheLimit

(* "RateLimiter is a simple in-memory, per-IP sliding-window rate limiter" *)
(* (ratelimit_middleware.go:17) that "allows 100 requests per minute per   *)
(* IP" (:27): more than Limit requests take at least a window.             *)
SlidingWindow ==
  \A ip \in IPs :
    LET s == admitted[ip] IN
    \A i, j \in DOMAIN s : j >= i + Limit => s[j] >= s[i] + Window

(* Evicting entries cannot be told from keeping them: the limiter gives    *)
(* the verdicts that windows without a map would give (FixedWindow).       *)
Live == {ip \in DOMAIN entries : ~Expired(entries[ip])}
RoomLeft(e) == IF e.count < Limit THEN Limit - e.count ELSE 0

F == INSTANCE FixedWindow WITH
       window <- [ip \in Live |-> [left |-> RoomLeft(entries[ip]),
                                   end |-> entries[ip].windowEnd]]

EvictionIsInvisible == F!Spec
=============================================================================
