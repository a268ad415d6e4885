---------------------------- MODULE FixedWindow ----------------------------
(***************************************************************************)
(* What the rate limiter promises each client address.  Its first request  *)
(* opens a window that lasts Window ticks; the window has room for Limit   *)
(* requests, counting that one, and the others it gets are refused.  When  *)
(* the window ends it is forgotten.  There is no map to keep small here.   *)
(***************************************************************************)
EXTENDS Naturals, Sequences

CONSTANTS IPs, Limit, Window

VARIABLES
  now,       (* the clock                                                  *)
  window,    (* the open windows: the room left in each, and when it ends  *)
  admitted,  (* for each address, when its requests were let through       *)
  refused    (* and when they were refused                                 *)

vars == <<now, window, admitted, refused>>

Init ==
  /\ now \in Nat
  /\ window = [ip \in {} |-> {}]
  /\ admitted = [ip \in IPs |-> <<>>]
  /\ refused = [ip \in IPs |-> <<>>]

Set(ip, left, end) ==
  [x \in DOMAIN window \cup {ip} |->
     IF x = ip THEN [left |-> left, end |-> end] ELSE window[x]]

Log(history, ip) == [history EXCEPT ![ip] = Append(@, now)]

Open(ip) ==
  /\ ip \notin DOMAIN window
  /\ window' = Set(ip, Limit - 1, now + Window)
  /\ admitted' = Log(admitted, ip)
  /\ UNCHANGED <<now, refused>>

Admit(ip) ==
  /\ ip \in DOMAIN window
  /\ window[ip].left > 0
  /\ window' = Set(ip, window[ip].left - 1, window[ip].end)
  /\ admitted' = Log(admitted, ip)
  /\ UNCHANGED <<now, refused>>

Refuse(ip) ==
  /\ ip \in DOMAIN window
  /\ window[ip].left = 0
  /\ refused' = Log(refused, ip)
  /\ UNCHANGED <<now, window, admitted>>

Tick ==
  /\ now' = now + 1
  /\ window' = [x \in {ip \in DOMAIN window : now' <= window[ip].end} |-> window[x]]
  /\ UNCHANGED <<admitted, refused>>

Next == Tick \/ \E ip \in IPs : Open(ip) \/ Admit(ip) \/ Refuse(ip)

Spec == Init /\ [][Next]_vars
=============================================================================
