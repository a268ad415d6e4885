--------------------------- MODULE MCRateLimiter ---------------------------
(* RateLimiter with a bounded clock and a bounded number of requests.      *)
EXTENDS RateLimiter, FiniteSetsExt

CONSTANTS
  MaxTime,     (* the clock stops here                                     *)
  MaxRequests  (* requests of all addresses together                       *)

Requests == FoldSet(LAMBDA ip, n : n + Len(admitted[ip]) + Len(refused[ip]), 0, IPs)

MCRequest(ip) == Requests < MaxRequests /\ Middleware(ip)
MCTick == now < MaxTime /\ Tick
ClockStopped == now = MaxTime /\ UNCHANGED vars

MCNext ==
  \/ \E ip \in IPs : MCRequest(ip)
  \/ Cleanup
  \/ MCTick
  \/ ClockStopped

(* The clock runs, and the goroutine that evicts is scheduled. *)
MCSpec == Init /\ [][MCNext]_vars /\ WF_vars(Cleanup) /\ WF_vars(MCTick)

(* The map does not grow for ever: an entry that has expired is evicted,   *)
(* or its address comes back and it is renewed.  It takes a tick of the    *)
(* ticker after the window's end, so the claim is about windows that end   *)
(* before the last tick of the bounded clock.                              *)
LastTick == (MaxTime \div Window) * Window

ExpiredEntriesGo ==
  \A ip \in IPs :
    (ip \in DOMAIN entries /\ Expired(entries[ip]) /\ entries[ip].windowEnd < LastTick)
      ~> ~(ip \in DOMAIN entries /\ Expired(entries[ip]))
=============================================================================
