--------------------------- MODULE Registration ---------------------------
(***************************************************************************)
(* POST /auth/register and POST /auth/login: Service.Register and          *)
(* Service.Login of modules/auth/auth.service.go, with the listeners that  *)
(* setupEventHandlers (server.go) and NewHub (hub.go) put on the event bus *)
(* and the tables of PostgreSQL they write.                                *)
(*                                                                         *)
(* Every call runs in a goroutine of its own and shares nothing with the   *)
(* others but the database and the queue.  The bus calls its listeners in  *)
(* the emitting goroutine, the hub's first, so Register goes through them  *)
(* before it answers; only the audit row is written by another goroutine.  *)
(* A query can fail; the queue's channel can close; and the process can    *)
(* die between any two steps.  An INSERT is sent, decided by PostgreSQL,   *)
(* and its reply read: the handler may have answered, or the process may   *)
(* have died, before PostgreSQL decides it.                                *)
(***************************************************************************)
EXTENDS Naturals

CONSTANTS
  Registrations,  (* calls of Register; the row one creates has its name   *)
  Logins,         (* calls of Login                                        *)
  EmailOf,        (* the email of a call                                   *)
  PasswordOf,     (* its password                                          *)
  NoUser,         (* not a registration                                    *)
  MaxCrashes      (* bounds how often the process dies                     *)

Calls == Registrations \cup Logins

ASSUME CallsAssumption == Registrations \cap Logins = {} /\ NoUser \notin Calls
ASSUME InputAssumption == DOMAIN EmailOf = Calls /\ DOMAIN PasswordOf = Calls
ASSUME CrashesAssumption == MaxCrashes \in Nat

VARIABLES
  process,   (* up or down                                                *)
  queue,     (* the AMQP channel: open or closed                          *)
  users,     (* rows of table users                                       *)
  inserting, (* the registrations whose INSERT was sent and is undecided  *)
  at,        (* where a call is                                           *)
  answer,    (* the status it was answered with; 0 when none              *)
  userOf,    (* the row a Login has found                                 *)
  announced, (* the users the hub was told of                             *)
  enqueued,  (* the users whose welcome job the hub was told of           *)
  jobs,      (* the users a welcome job was published for                 *)
  auditing,  (* the calls whose audit row is undecided: a goroutine will  *)
             (* send it, or has sent it                                   *)
  audits,    (* rows of table audit_logs, one for a call at most          *)
  crashes    (* how often the process has died                            *)

database == <<users, inserting, audits>>
outcome == <<at, answer>>
environment == <<process, queue, crashes>>
vars == <<process, queue, users, inserting, at, answer, userOf, announced, enqueued, jobs,
          auditing, audits, crashes>>

(* Each place is named for what the call has done.                         *)
RegisterStates == {"called", "free", "inserting", "created", "announced", "published",
                   "emitted", "audited"}
LoginStates == {"called", "verified", "audited"}
Over == {"answered", "dead"}

TypeOK ==
  /\ process \in {"up", "down"}
  /\ queue \in {"open", "closed"}
  /\ users \subseteq Registrations
  /\ inserting \subseteq Registrations
  /\ at \in [Calls -> RegisterStates \cup LoginStates \cup Over]
  /\ answer \in [Calls -> {0, 200, 201, 401, 409, 500}]
  /\ userOf \in [Logins -> Registrations \cup {NoUser}]
  /\ announced \subseteq Registrations
  /\ enqueued \subseteq Registrations
  /\ jobs \subseteq Registrations
  /\ auditing \subseteq Calls
  /\ audits \subseteq Calls
  /\ crashes \in 0..MaxCrashes

Init ==
  /\ process = "up"
  /\ queue = "open"
  /\ users = {}
  /\ inserting = {}
  /\ at = [c \in Calls |-> "called"]
  /\ answer = [c \in Calls |-> 0]
  /\ userOf = [l \in Logins |-> NoUser]
  /\ announced = {}
  /\ enqueued = {}
  /\ jobs = {}
  /\ auditing = {}
  /\ audits = {}
  /\ crashes = 0

WithEmailOf(c) == {u \in users : EmailOf[u] = EmailOf[c]}

(* A call goes on.                                                         *)
Goes(c, from, to) ==
  /\ process = "up"
  /\ at[c] = from
  /\ at' = [at EXCEPT ![c] = to]
  /\ UNCHANGED answer

(* A call answers, and is over.                                            *)
Answers(c, from, status) ==
  /\ process = "up"
  /\ at[c] = from
  /\ at' = [at EXCEPT ![c] = "answered"]
  /\ answer' = [answer EXCEPT ![c] = status]

-----------------------------------------------------------------------------
(* Register.                                                               *)

TakenIsBadRequest(r) ==
  /\ WithEmailOf(r) # {}
  /\ Answers(r, "called", 400)
  /\ UNCHANGED <<environment, database, userOf, announced, enqueued, jobs, auditing>>

(* GetUserByEmail returns a row: 409.                                      *)
EmailTaken(r) ==
  /\ WithEmailOf(r) # {}
  /\ Answers(r, "called", 409)
  /\ UNCHANGED <<environment, database, userOf, announced, enqueued, jobs, auditing>>

(* It returns an error.  No rows and a failed query are the same error to  *)
(* Register, so this can happen although the email is taken.               *)
EmailLooksFree(r) ==
  /\ Goes(r, "called", "free")
  /\ UNCHANGED <<environment, database, userOf, announced, enqueued, jobs, auditing>>

HashPasswordFails(r) ==
  /\ Answers(r, "free", 500)
  /\ UNCHANGED <<environment, database, userOf, announced, enqueued, jobs, auditing>>

(* CreateUser.  The INSERT is on its way to PostgreSQL, which commits it   *)
(* as soon as it has carried it out.                                       *)
CreateUserSent(r) ==
  /\ Goes(r, "free", "inserting")
  /\ inserting' = inserting \cup {r}
  /\ UNCHANGED <<environment, users, userOf, announced, enqueued, jobs, auditing, audits>>

(* users.email is UNIQUE.                                                  *)
InsertsUnchecked(r) == users' = users \cup {r}

Inserts(r) ==
  /\ WithEmailOf(r) = {}
  /\ users' = users \cup {r}

(* PostgreSQL decides, whether or not anybody waits for it: the row is     *)
(* committed, or it is not (a violated constraint, a value too long for    *)
(* its column, a connection that broke before the statement was run).      *)
Commits(r) ==
  /\ r \in inserting
  /\ inserting' = inserting \ {r}
  /\ Inserts(r)
  /\ UNCHANGED <<environment, outcome, userOf, announced, enqueued, jobs, auditing, audits>>

Rejects(r) ==
  /\ r \in inserting
  /\ inserting' = inserting \ {r}
  /\ UNCHANGED <<environment, outcome, users, userOf, announced, enqueued, jobs, auditing, audits>>

(* RETURNING is read.                                                      *)
UserCreated(r) ==
  /\ r \in users
  /\ Goes(r, "inserting", "created")
  /\ UNCHANGED <<environment, database, userOf, announced, enqueued, jobs, auditing>>

IgnoresTheError(r) ==
  /\ r \notin inserting
  /\ Goes(r, "inserting", "created")
  /\ UNCHANGED <<environment, database, userOf, announced, enqueued, jobs, auditing>>

(* No connection to send it on; or it was decided, and PostgreSQL returns  *)
(* an error or the reply is lost, which may be that of a committed row.    *)
CreateUserFails(r) ==
  /\ r \notin inserting
  /\ Answers(r, "free", 500) \/ Answers(r, "inserting", 500)
  /\ UNCHANGED <<environment, database, userOf, announced, enqueued, jobs, auditing>>

(* The request's context is cancelled, for the browser has gone, or the    *)
(* connection breaks, while PostgreSQL still has the INSERT.               *)
CreateUserAbandoned(r) ==
  /\ r \in inserting
  /\ Answers(r, "inserting", 500)
  /\ UNCHANGED <<environment, database, userOf, announced, enqueued, jobs, auditing>>

(* EmitUserRegistered: the hub's listener, then the queue's.               *)
HubHearsOfUser(r) ==
  /\ Goes(r, "created", "announced")
  /\ announced' = announced \cup {r}
  /\ UNCHANGED <<environment, database, userOf, enqueued, jobs, auditing>>

Published(r) ==
  /\ queue = "open"
  /\ Goes(r, "announced", "published")
  /\ jobs' = jobs \cup {r}
  /\ UNCHANGED <<environment, database, userOf, announced, enqueued, auditing>>

PublishFailsUnnoticed(r) ==
  /\ queue = "closed"
  /\ Goes(r, "announced", "published")
  /\ UNCHANGED <<environment, database, userOf, announced, enqueued, jobs, auditing>>

RetriesForEver(r) ==
  /\ queue = "closed"
  /\ Goes(r, "announced", "announced")
  /\ UNCHANGED <<environment, database, userOf, announced, enqueued, jobs, auditing>>

(* Logged, and the listener returns.                                       *)
PublishFails(r) ==
  /\ queue = "closed"
  /\ Goes(r, "announced", "emitted")
  /\ UNCHANGED <<environment, database, userOf, announced, enqueued, jobs, auditing>>

(* EmitJobEnqueued, from within the queue's listener: the hub's listener.  *)
HubHearsOfJob(r) ==
  /\ Goes(r, "published", "emitted")
  /\ enqueued' = enqueued \cup {r}
  /\ UNCHANGED <<environment, database, userOf, announced, jobs, auditing>>

-----------------------------------------------------------------------------
(* Login.                                                                  *)

SkipsThePassword(l) ==
  /\ Goes(l, "called", "verified")
  /\ \E u \in WithEmailOf(l) : userOf' = [userOf EXCEPT ![l] = u]
  /\ UNCHANGED <<environment, database, announced, enqueued, jobs, auditing>>

(* A row, and the password is its.                                         *)
CredentialsMatch(l) ==
  /\ Goes(l, "called", "verified")
  /\ \E u \in WithEmailOf(l) :
       /\ PasswordOf[u] = PasswordOf[l]
       /\ userOf' = [userOf EXCEPT ![l] = u]
  /\ UNCHANGED <<environment, database, announced, enqueued, jobs, auditing>>

(* No row, a failed query, or another password: 401 for each of them.      *)
InvalidCredentials(l) ==
  /\ Answers(l, "called", 401)
  /\ UNCHANGED <<environment, database, userOf, announced, enqueued, jobs, auditing>>

SigningFails(l) ==
  /\ Answers(l, "verified", 500)
  /\ UNCHANGED <<environment, database, userOf, announced, enqueued, jobs, auditing>>

-----------------------------------------------------------------------------
(* EmitAuditLog, the last thing both do before they answer.  The listener  *)
(* starts a goroutine and returns.                                         *)
EmitAuditLog(c, from) ==
  /\ Goes(c, from, "audited")
  /\ auditing' = auditing \cup {c}
  /\ UNCHANGED <<environment, database, userOf, announced, enqueued, jobs>>

Success(c, status) ==
  /\ Answers(c, "audited", status)
  /\ UNCHANGED <<environment, database, userOf, announced, enqueued, jobs, auditing>>

(* The goroutine: CreateAuditLog within five seconds, or a logged error.   *)
(* Like the user's, its row may be committed when nobody waits any more.   *)
ActorOf(c) == IF c \in Registrations THEN c ELSE userOf[c]

AuditWritten(c) ==
  /\ c \in auditing
  /\ ActorOf(c) \in users                          (* the foreign key      *)
  /\ audits' = audits \cup {c}
  /\ auditing' = auditing \ {c}
  /\ UNCHANGED <<environment, users, inserting, outcome, userOf, announced, enqueued, jobs>>

AuditFails(c) ==
  /\ c \in auditing
  /\ auditing' = auditing \ {c}
  /\ UNCHANGED <<environment, database, outcome, userOf, announced, enqueued, jobs>>

-----------------------------------------------------------------------------
QueueCloses ==
  /\ queue = "open"
  /\ queue' = "closed"
  /\ UNCHANGED <<process, crashes, database, outcome, userOf, announced, enqueued, jobs, auditing>>

(* The process dies.  Register and Login hold no transaction to roll back, *)
(* and what PostgreSQL was sent, of users or of audit rows, it may still   *)
(* commit.                                                                 *)
Crash ==
  /\ process = "up"
  /\ crashes < MaxCrashes
  /\ process' = "down"
  /\ crashes' = crashes + 1
  /\ queue' = "closed"
  /\ at' = [c \in Calls |-> IF at[c] \in {"called", "answered"} THEN at[c] ELSE "dead"]
  /\ auditing' \in SUBSET auditing
  /\ UNCHANGED <<database, answer, userOf, announced, enqueued, jobs>>

(* Setup.  Calls that are "called" reach the new process.                  *)
Restart ==
  /\ process = "down"
  /\ process' = "up"
  /\ queue' = "open"
  /\ UNCHANGED <<crashes, database, outcome, userOf, announced, enqueued, jobs, auditing>>

Register(r) ==
  \/ EmailTaken(r)
  \/ EmailLooksFree(r)
  \/ HashPasswordFails(r)
  \/ CreateUserSent(r)
  \/ UserCreated(r)
  \/ CreateUserFails(r)
  \/ HubHearsOfUser(r)
  \/ Published(r)
  \/ PublishFails(r)
  \/ HubHearsOfJob(r)
  \/ EmitAuditLog(r, "emitted")
  \/ Success(r, 201)

Login(l) ==
  \/ CredentialsMatch(l)
  \/ InvalidCredentials(l)
  \/ SigningFails(l)
  \/ EmitAuditLog(l, "verified")
  \/ Success(l, 200)

AuditWriter(c) == AuditWritten(c) \/ AuditFails(c)

Decided(r) == Commits(r) \/ Rejects(r)

Done ==
  /\ \A c \in Calls : at[c] \in Over
  /\ inserting = {} /\ auditing = {}
  /\ UNCHANGED vars

Next ==
  \/ \E r \in Registrations : Register(r)
  \/ \E l \in Logins : Login(l)
  \/ \E r \in Registrations : CreateUserAbandoned(r) \/ Decided(r)
  \/ \E c \in Calls : AuditWriter(c)
  \/ QueueCloses
  \/ Crash
  \/ Restart
  \/ Done

Spec == Init /\ [][Next]_vars

(* Goroutines run, PostgreSQL decides what it was sent, and the audit      *)
(* goroutine gives up after five seconds.  No browser has to go, and       *)
(* nobody has to restart the process.                                      *)
FairSpec ==
  /\ Spec
  /\ \A r \in Registrations : WF_vars(Register(r)) /\ WF_vars(Decided(r))
  /\ \A l \in Logins : WF_vars(Login(l))
  /\ \A c \in Calls : WF_vars(AuditWriter(c))

-----------------------------------------------------------------------------
(* What makes the properties below inductive: how far a call has come and  *)
(* what it was answered say what is in the tables, at the hub, in the      *)
(* queue.                                                                  *)
UniqueEmails == \A u, v \in users : EmailOf[u] = EmailOf[v] => u = v

RegistrationsLeft ==
  \A r \in Registrations :
    /\ at[r] \in {"created", "announced", "published", "emitted", "audited"} => r \in users
    /\ at[r] \in {"announced", "published", "emitted", "audited"} => r \in announced
    /\ at[r] = "published" => r \in jobs
    /\ answer[r] = 201 => r \in users /\ r \in announced
    /\ answer[r] = 409 => \E u \in users : u # r /\ EmailOf[u] = EmailOf[r]

LoginsVerified ==
  \A l \in Logins :
    at[l] \in {"verified", "audited"} \/ answer[l] = 200 \/ l \in auditing \cup audits =>
      /\ userOf[l] \in users
      /\ EmailOf[userOf[l]] = EmailOf[l]
      /\ PasswordOf[userOf[l]] = PasswordOf[l]

Effects == announced \subseteq users /\ jobs \subseteq announced /\ enqueued \subseteq jobs

Progress ==
  /\ \A c \in Calls : answer[c] # 0 <=> at[c] = "answered"
  /\ \A r \in Registrations : at[r] \in {"called", "free"} => r \notin users \cup inserting
  /\ \A r \in inserting : /\ r \notin users
                          /\ at[r] \in {"inserting", "answered", "dead"}
                          /\ answer[r] \in {0, 500}
  /\ \A r \in Registrations : r \in auditing \cup audits => r \in announced
  /\ \A l \in Logins : at[l] = "called" => l \notin auditing \cup audits

IInv == TypeOK /\ UniqueEmails /\ RegistrationsLeft /\ LoginsVerified /\ Effects /\ Progress

(* Register looks for the email and inserts the row a hash later, and a    *)
(* failed look counts as none: still no two accounts share an email, and   *)
(* no email is welcomed twice, in whatever order calls and retries run.    *)
OneAccountPerEmail ==
  /\ \A u, v \in users : EmailOf[u] = EmailOf[v] => u = v
  /\ \A u, v \in jobs : EmailOf[u] = EmailOf[v] => u = v

(* What a client was told is so.  201: the account is there, and the hub   *)
(* was told of it.  409: another call's account is.  200: the password is *)
(* that of the account, hence nobody logs in with the password of a        *)
(* registration that lost the email to another.                            *)
AnswersAreTrue ==
  /\ \A r \in Registrations :
       /\ answer[r] = 201 => r \in users /\ r \in announced
       /\ answer[r] = 409 => WithEmailOf(r) \ {r} # {}
  /\ \A l \in Logins : answer[l] = 200 =>
       \E u \in users : EmailOf[u] = EmailOf[l] /\ PasswordOf[u] = PasswordOf[l]
  /\ \A l \in Logins, r \in Registrations :
       (answer[l] = 200 /\ answer[r] = 201 /\ EmailOf[l] = EmailOf[r])
         => PasswordOf[l] = PasswordOf[r]

(* The side effects are those of accounts: the hub is told of a job only   *)
(* when it was told of the user before and the job was published; a job    *)
(* was published only for an account the hub was told of; and an audit row *)
(* the foreign key refuses is never attempted.                             *)
EffectsFollowAccounts ==
  /\ Effects
  /\ \A c \in auditing \cup audits : ActorOf(c) \in users

(* The table as the map it stands for.                                     *)
Owner(e) == CHOOSE u \in users : EmailOf[u] = e
AccountOf == [e \in {EmailOf[u] : u \in users} |-> Owner(e)]
Lost == {c \in Calls : at[c] = "dead"}

Book == INSTANCE Accounts WITH
          Nobody <- NoUser, account <- AccountOf, pending <- inserting, session <- userOf,
          reply <- answer, lost <- Lost, welcomed <- jobs, reported <- enqueued

(* Register and Login are operations on a map from emails to accounts,     *)
(* although both are several queries that can fail, lose their reply or be *)
(* decided after the handler gave up or the process died: an account opens *)
(* in one step and changes hands never, 201, 409 and 200 say what is so    *)
(* and final, and whoever was answered 500 or got no answer has an account *)
(* now, or later, or never, of which nobody is told (auth.service.go:32-   *)
(* 115).                                                                   *)
ImplementsAccounts == Book!Spec

(* A call that reached the process is answered unless the process dies: no *)
(* listener, not even the queue's with its channel closed, holds it up.    *)
CallsAreAnswered ==
  \A c \in Calls : (process = "up" /\ at[c] \notin Over) ~> (at[c] \in Over \/ process = "down")

(* "UserRegisteredPayload is emitted after a new user account is created"  *)
(* (events/user.event.go:5): a row in users is followed by the event.      *)
AccountsAreAnnounced ==
  \A u \in Registrations : u \in users ~> u \in announced
=============================================================================
