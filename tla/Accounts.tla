------------------------------ MODULE Accounts ------------------------------
(***************************************************************************)
(* What registration and login promise: a map from emails to accounts.     *)
(* Registering asks for an account, and either opens it in one step, finds *)
(* that another has the email, or fails; logging in finds an account and   *)
(* its password in one step.  201, 409, 200 and 401 say what happened and  *)
(* are final.  500, or no answer because the process died, is not: what    *)
(* was asked for may have been opened, may yet be, or never is; but then   *)
(* nobody is told of the account and no job is queued for it.  The record  *)
(* of a call that was announced, or that found its account, may come late. *)
(***************************************************************************)
EXTENDS Naturals

CONSTANTS
  Registrations, Logins,
  EmailOf, PasswordOf,
  Nobody

VARIABLES
  pending,    (* the registrations whose account may yet be opened         *)
  account,    (* the map: the registration that opened an email's account  *)
  session,    (* the account a login has found                             *)
  reply,      (* what a call was answered; 0 when nothing yet              *)
  lost,       (* the calls that will never be answered                     *)
  announced,  (* the registrations that were announced,                    *)
  welcomed,   (* those a welcome job was queued for,                       *)
  reported,   (* those whose job was announced too                         *)
  audits      (* the calls there is a record of                            *)

vars == <<pending, account, session, reply, lost, announced, welcomed, reported, audits>>

Init ==
  /\ pending = {}
  /\ account = [e \in {} |-> Nobody]
  /\ session = [l \in Logins |-> Nobody]
  /\ reply = [c \in Registrations \cup Logins |-> 0]
  /\ lost = {} /\ announced = {} /\ welcomed = {} /\ reported = {} /\ audits = {}

Taken(c) == EmailOf[c] \in DOMAIN account
Has(r) == Taken(r) /\ account[EmailOf[r]] = r
UnderWay(c) == reply[c] = 0 /\ c \notin lost

Replies(c, status) ==
  /\ UnderWay(c)
  /\ reply' = [reply EXCEPT ![c] = status]
  /\ UNCHANGED <<pending, account, session, lost, announced, welcomed, reported, audits>>

(* Register. *)
Ask(r) ==
  /\ UnderWay(r)
  /\ r \notin pending /\ ~Has(r)
  /\ pending' = pending \cup {r}
  /\ UNCHANGED <<account, session, reply, lost, announced, welcomed, reported, audits>>

Settled(r) ==
  /\ r \in pending
  /\ pending' = pending \ {r}
  /\ UNCHANGED <<session, reply, lost, announced, welcomed, reported, audits>>

Opens(r) ==
  /\ ~Taken(r)
  /\ account' = [e \in DOMAIN account \cup {EmailOf[r]} |->
                   IF e = EmailOf[r] THEN r ELSE account[e]]

Open(r) == Settled(r) /\ Opens(r)

Drop(r) == Settled(r) /\ UNCHANGED account

Conflict(r) == Replies(r, 409) /\ Taken(r) /\ ~Has(r) /\ r \notin pending

Confirm(r) == Replies(r, 201) /\ Has(r) /\ r \in announced

Announce(r) ==
  /\ UnderWay(r) /\ Has(r)
  /\ announced' = announced \cup {r}
  /\ UNCHANGED <<pending, account, session, reply, lost, welcomed, reported, audits>>

Welcome(r) ==
  /\ UnderWay(r) /\ r \in announced
  /\ welcomed' = welcomed \cup {r}
  /\ UNCHANGED <<pending, account, session, reply, lost, announced, reported, audits>>

Report(r) ==
  /\ UnderWay(r) /\ r \in welcomed
  /\ reported' = reported \cup {r}
  /\ UNCHANGED <<pending, account, session, reply, lost, announced, welcomed, audits>>

(* Login. *)
Find(l) ==
  /\ UnderWay(l) /\ session[l] = Nobody
  /\ Taken(l)
  /\ PasswordOf[account[EmailOf[l]]] = PasswordOf[l]
  /\ session' = [session EXCEPT ![l] = account[EmailOf[l]]]
  /\ UNCHANGED <<pending, account, reply, lost, announced, welcomed, reported, audits>>

Grant(l) == Replies(l, 200) /\ session[l] # Nobody

Deny(l) == Replies(l, 401) /\ session[l] = Nobody

(* Both. *)
Did(c) == IF c \in Registrations THEN c \in announced ELSE session[c] # Nobody

Fail(c) == Replies(c, 500) /\ (c \in Registrations => c \notin announced)

Record(c) ==
  /\ Did(c)
  /\ audits' = audits \cup {c}
  /\ UNCHANGED <<pending, account, session, reply, lost, announced, welcomed, reported>>

(* The process dies. *)
Lose ==
  /\ \E some \in SUBSET {c \in Registrations \cup Logins : UnderWay(c)} :
       lost' = lost \cup some
  /\ UNCHANGED <<pending, account, session, reply, announced, welcomed, reported, audits>>

Next ==
  \/ \E r \in Registrations :
       \/ Ask(r) \/ Open(r) \/ Drop(r) \/ Conflict(r) \/ Confirm(r)
       \/ Announce(r) \/ Welcome(r) \/ Report(r)
  \/ \E l \in Logins : Find(l) \/ Grant(l) \/ Deny(l)
  \/ \E c \in Registrations \cup Logins : Fail(c) \/ Record(c)
  \/ Lose

Spec == Init /\ [][Next]_vars
=============================================================================
