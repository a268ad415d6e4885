------------------------- MODULE RegistrationProofs -------------------------
(***************************************************************************)
(* What TLAPS proves of Registration, for every set of calls, whatever     *)
(* their emails and passwords, and however often the process dies.         *)
(***************************************************************************)
EXTENDS Registration, TLAPS

USE CallsAssumption, InputAssumption, CrashesAssumption

LEMMA TypeInit == Init => TypeOK
  BY DEF Init, TypeOK, Calls, RegisterStates, LoginStates, Over

(* Each variable stays in its type.                                        *)
LEMMA TypeStep == TypeOK /\ [Next]_vars => TypeOK'
<1> SUFFICES ASSUME TypeOK, [Next]_vars PROVE TypeOK'
  OBVIOUS
<1> USE DEF TypeOK, Calls, RegisterStates, LoginStates, Over, environment, database,
            outcome, Goes, Answers
<1>1. ASSUME NEW r \in Registrations, Register(r) PROVE TypeOK'
  <2>1. CASE EmailTaken(r) BY <2>1 DEF EmailTaken
  <2>2. CASE EmailLooksFree(r) BY <2>2 DEF EmailLooksFree
  <2>3. CASE HashPasswordFails(r) BY <2>3 DEF HashPasswordFails
  <2>4. CASE CreateUserSent(r) BY <2>4 DEF CreateUserSent
  <2>5. CASE UserCreated(r) BY <2>5 DEF UserCreated
  <2>6. CASE CreateUserFails(r) BY <2>6 DEF CreateUserFails
  <2>7. CASE HubHearsOfUser(r) BY <2>7 DEF HubHearsOfUser
  <2>8. CASE Published(r) BY <2>8 DEF Published
  <2>9. CASE PublishFails(r) BY <2>9 DEF PublishFails
  <2>10. CASE HubHearsOfJob(r) BY <2>10 DEF HubHearsOfJob
  <2>11. CASE EmitAuditLog(r, "emitted") BY <2>11 DEF EmitAuditLog
  <2>12. CASE Success(r, 201) BY <2>12 DEF Success
  <2> QED BY <1>1, <2>1, <2>2, <2>3, <2>4, <2>5, <2>6, <2>7, <2>8, <2>9, <2>10, <2>11, <2>12
          DEF Register
<1>2. ASSUME NEW l \in Logins, Login(l) PROVE TypeOK'
  <2>1. CASE CredentialsMatch(l) BY <2>1 DEF CredentialsMatch, WithEmailOf
  <2>2. CASE InvalidCredentials(l) BY <2>2 DEF InvalidCredentials
  <2>3. CASE SigningFails(l) BY <2>3 DEF SigningFails
  <2>4. CASE EmitAuditLog(l, "verified") BY <2>4 DEF EmitAuditLog
  <2>5. CASE Success(l, 200) BY <2>5 DEF Success
  <2> QED BY <1>2, <2>1, <2>2, <2>3, <2>4, <2>5 DEF Login
<1>3. ASSUME NEW r \in Registrations, CreateUserAbandoned(r) PROVE TypeOK'
  BY <1>3 DEF CreateUserAbandoned
<1>4. ASSUME NEW r \in Registrations, Decided(r) PROVE TypeOK'
  BY <1>4 DEF Decided, Commits, Rejects, Inserts
<1>5. ASSUME NEW c \in Calls, AuditWriter(c) PROVE TypeOK'
  BY <1>5 DEF AuditWriter, AuditWritten, AuditFails
<1>6. CASE QueueCloses BY <1>6 DEF QueueCloses
<1>7. CASE Crash BY <1>7 DEF Crash
<1>8. CASE Restart BY <1>8 DEF Restart
<1>9. CASE Done \/ UNCHANGED vars BY <1>9 DEF Done, vars
<1> QED BY <1>1, <1>2, <1>3, <1>4, <1>5, <1>6, <1>7, <1>8, <1>9 DEF Next

LEMMA InvInit == Init => IInv

    BY TypeInit
       DEF Init, IInv, UniqueEmails, RegistrationsLeft, LoginsVerified, Effects, Progress, Calls

(* The parts of the invariant survive each step of Register. *)
LEMMA RegisterStep ==
  ASSUME IInv, NEW r \in Registrations, Register(r)
  PROVE  UniqueEmails' /\ RegistrationsLeft' /\ LoginsVerified' /\ Effects' /\ Progress'
<1> USE DEF IInv, TypeOK, Calls, environment, database, Goes, Answers
<1>1. CASE EmailTaken(r)
  <2>1. UniqueEmails' BY <1>1 DEF EmailTaken, WithEmailOf, UniqueEmails
  <2>2. RegistrationsLeft'
    BY <1>1
       DEF EmailTaken, WithEmailOf, UniqueEmails, RegistrationsLeft, LoginsVerified, Effects,
              Progress
  <2>3. LoginsVerified' BY <1>1 DEF EmailTaken, WithEmailOf, LoginsVerified
  <2>4. Effects' BY <1>1 DEF EmailTaken, WithEmailOf, Effects
  <2>5. Progress' BY <1>1 DEF EmailTaken, WithEmailOf, Progress
  <2> QED BY <2>1, <2>2, <2>3, <2>4, <2>5
<1>2. CASE EmailLooksFree(r)
  <2>1. UniqueEmails' BY <1>2 DEF EmailLooksFree, UniqueEmails
  <2>2. RegistrationsLeft' BY <1>2 DEF EmailLooksFree, RegistrationsLeft
  <2>3. LoginsVerified' BY <1>2 DEF EmailLooksFree, LoginsVerified
  <2>4. Effects' BY <1>2 DEF EmailLooksFree, Effects
  <2>5. Progress' BY <1>2 DEF EmailLooksFree, Progress
  <2> QED BY <2>1, <2>2, <2>3, <2>4, <2>5
<1>3. CASE HashPasswordFails(r)
  <2>1. UniqueEmails' BY <1>3 DEF HashPasswordFails, UniqueEmails
  <2>2. RegistrationsLeft' BY <1>3 DEF HashPasswordFails, RegistrationsLeft
  <2>3. LoginsVerified' BY <1>3 DEF HashPasswordFails, LoginsVerified
  <2>4. Effects' BY <1>3 DEF HashPasswordFails, Effects
  <2>5. Progress' BY <1>3 DEF HashPasswordFails, Progress
  <2> QED BY <2>1, <2>2, <2>3, <2>4, <2>5
<1>4. CASE CreateUserSent(r)
  <2>1. UniqueEmails' BY <1>4 DEF CreateUserSent, UniqueEmails
  <2>2. RegistrationsLeft' BY <1>4 DEF CreateUserSent, RegistrationsLeft
  <2>3. LoginsVerified' BY <1>4 DEF CreateUserSent, LoginsVerified
  <2>4. Effects' BY <1>4 DEF CreateUserSent, Effects
  <2>5. Progress' BY <1>4 DEF CreateUserSent, Progress
  <2> QED BY <2>1, <2>2, <2>3, <2>4, <2>5
<1>5. CASE UserCreated(r)
  <2>1. UniqueEmails' BY <1>5 DEF UserCreated, UniqueEmails
  <2>2. RegistrationsLeft' BY <1>5 DEF UserCreated, RegistrationsLeft
  <2>3. LoginsVerified' BY <1>5 DEF UserCreated, LoginsVerified
  <2>4. Effects' BY <1>5 DEF UserCreated, Effects
  <2>5. Progress' BY <1>5 DEF UserCreated, Progress
  <2> QED BY <2>1, <2>2, <2>3, <2>4, <2>5
<1>6. CASE CreateUserFails(r)
  <2>1. UniqueEmails' BY <1>6 DEF CreateUserFails, UniqueEmails
  <2>2. RegistrationsLeft' BY <1>6 DEF CreateUserFails, RegistrationsLeft
  <2>3. LoginsVerified' BY <1>6 DEF CreateUserFails, LoginsVerified
  <2>4. Effects' BY <1>6 DEF CreateUserFails, Effects
  <2>5. Progress' BY <1>6 DEF CreateUserFails, Progress
  <2> QED BY <2>1, <2>2, <2>3, <2>4, <2>5
<1>7. CASE HubHearsOfUser(r)
  <2>1. UniqueEmails' BY <1>7 DEF HubHearsOfUser, UniqueEmails
  <2>2. RegistrationsLeft' BY <1>7 DEF HubHearsOfUser, RegistrationsLeft
  <2>3. LoginsVerified' BY <1>7 DEF HubHearsOfUser, LoginsVerified
  <2>4. Effects'
    BY <1>7 DEF HubHearsOfUser, UniqueEmails, RegistrationsLeft, LoginsVerified, Effects, Progress
  <2>5. Progress' BY <1>7 DEF HubHearsOfUser, Progress
  <2> QED BY <2>1, <2>2, <2>3, <2>4, <2>5
<1>8. CASE Published(r)
  <2>1. UniqueEmails' BY <1>8 DEF Published, UniqueEmails
  <2>2. RegistrationsLeft' BY <1>8 DEF Published, RegistrationsLeft
  <2>3. LoginsVerified' BY <1>8 DEF Published, LoginsVerified
  <2>4. Effects'
    BY <1>8 DEF Published, UniqueEmails, RegistrationsLeft, LoginsVerified, Effects, Progress
  <2>5. Progress' BY <1>8 DEF Published, Progress
  <2> QED BY <2>1, <2>2, <2>3, <2>4, <2>5
<1>9. CASE PublishFails(r)
  <2>1. UniqueEmails' BY <1>9 DEF PublishFails, UniqueEmails
  <2>2. RegistrationsLeft' BY <1>9 DEF PublishFails, RegistrationsLeft
  <2>3. LoginsVerified' BY <1>9 DEF PublishFails, LoginsVerified
  <2>4. Effects' BY <1>9 DEF PublishFails, Effects
  <2>5. Progress' BY <1>9 DEF PublishFails, Progress
  <2> QED BY <2>1, <2>2, <2>3, <2>4, <2>5
<1>10. CASE HubHearsOfJob(r)
  <2>1. UniqueEmails' BY <1>10 DEF HubHearsOfJob, UniqueEmails
  <2>2. RegistrationsLeft' BY <1>10 DEF HubHearsOfJob, RegistrationsLeft
  <2>3. LoginsVerified' BY <1>10 DEF HubHearsOfJob, LoginsVerified
  <2>4. Effects'
    BY <1>10 DEF HubHearsOfJob, UniqueEmails, RegistrationsLeft, LoginsVerified, Effects, Progress
  <2>5. Progress' BY <1>10 DEF HubHearsOfJob, Progress
  <2> QED BY <2>1, <2>2, <2>3, <2>4, <2>5
<1>11. CASE EmitAuditLog(r, "emitted")
  <2>1. UniqueEmails' BY <1>11 DEF EmitAuditLog, UniqueEmails
  <2>2. RegistrationsLeft' BY <1>11 DEF EmitAuditLog, RegistrationsLeft
  <2>3. LoginsVerified' BY <1>11 DEF EmitAuditLog, LoginsVerified
  <2>4. Effects' BY <1>11 DEF EmitAuditLog, Effects
  <2>5. Progress'
    BY <1>11 DEF EmitAuditLog, UniqueEmails, RegistrationsLeft, LoginsVerified, Effects, Progress
  <2> QED BY <2>1, <2>2, <2>3, <2>4, <2>5
<1>12. CASE Success(r, 201)
  <2>1. UniqueEmails' BY <1>12 DEF Success, UniqueEmails
  <2>2. RegistrationsLeft' BY <1>12 DEF Success, RegistrationsLeft
  <2>3. LoginsVerified' BY <1>12 DEF Success, LoginsVerified
  <2>4. Effects' BY <1>12 DEF Success, Effects
  <2>5. Progress' BY <1>12 DEF Success, Progress
  <2> QED BY <2>1, <2>2, <2>3, <2>4, <2>5
<1> QED BY <1>1, <1>2, <1>3, <1>4, <1>5, <1>6, <1>7, <1>8, <1>9, <1>10, <1>11, <1>12 DEF Register

(* The parts of the invariant survive each step of Login. *)
LEMMA LoginStep ==
  ASSUME IInv, NEW l \in Logins, Login(l)
  PROVE  UniqueEmails' /\ RegistrationsLeft' /\ LoginsVerified' /\ Effects' /\ Progress'
<1> USE DEF IInv, TypeOK, Calls, environment, database, Goes, Answers
<1>1. CASE CredentialsMatch(l)
  <2>1. UniqueEmails' BY <1>1 DEF CredentialsMatch, WithEmailOf, UniqueEmails
  <2>2. RegistrationsLeft' BY <1>1 DEF CredentialsMatch, WithEmailOf, RegistrationsLeft
  <2>3. LoginsVerified' BY <1>1 DEF CredentialsMatch, WithEmailOf, LoginsVerified
  <2>4. Effects' BY <1>1 DEF CredentialsMatch, WithEmailOf, Effects
  <2>5. Progress' BY <1>1 DEF CredentialsMatch, WithEmailOf, Progress
  <2> QED BY <2>1, <2>2, <2>3, <2>4, <2>5
<1>2. CASE InvalidCredentials(l)
  <2>1. UniqueEmails' BY <1>2 DEF InvalidCredentials, UniqueEmails
  <2>2. RegistrationsLeft' BY <1>2 DEF InvalidCredentials, RegistrationsLeft
  <2>3. LoginsVerified' BY <1>2 DEF InvalidCredentials, LoginsVerified
  <2>4. Effects' BY <1>2 DEF InvalidCredentials, Effects
  <2>5. Progress' BY <1>2 DEF InvalidCredentials, Progress
  <2> QED BY <2>1, <2>2, <2>3, <2>4, <2>5
<1>3. CASE SigningFails(l)
  <2>1. UniqueEmails' BY <1>3 DEF SigningFails, UniqueEmails
  <2>2. RegistrationsLeft' BY <1>3 DEF SigningFails, RegistrationsLeft
  <2>3. LoginsVerified' BY <1>3 DEF SigningFails, LoginsVerified
  <2>4. Effects' BY <1>3 DEF SigningFails, Effects
  <2>5. Progress' BY <1>3 DEF SigningFails, Progress
  <2> QED BY <2>1, <2>2, <2>3, <2>4, <2>5
<1>4. CASE EmitAuditLog(l, "verified")
  <2>1. UniqueEmails' BY <1>4 DEF EmitAuditLog, UniqueEmails
  <2>2. RegistrationsLeft' BY <1>4 DEF EmitAuditLog, RegistrationsLeft
  <2>3. LoginsVerified' BY <1>4 DEF EmitAuditLog, LoginsVerified
  <2>4. Effects' BY <1>4 DEF EmitAuditLog, Effects
  <2>5. Progress' BY <1>4 DEF EmitAuditLog, Progress
  <2> QED BY <2>1, <2>2, <2>3, <2>4, <2>5
<1>5. CASE Success(l, 200)
  <2>1. UniqueEmails' BY <1>5 DEF Success, UniqueEmails
  <2>2. RegistrationsLeft' BY <1>5 DEF Success, RegistrationsLeft
  <2>3. LoginsVerified' BY <1>5 DEF Success, LoginsVerified
  <2>4. Effects' BY <1>5 DEF Success, Effects
  <2>5. Progress' BY <1>5 DEF Success, Progress
  <2> QED BY <2>1, <2>2, <2>3, <2>4, <2>5
<1> QED BY <1>1, <1>2, <1>3, <1>4, <1>5 DEF Login

(* And each decision of PostgreSQL, whenever it comes. *)
LEMMA DecisionStep ==
  ASSUME IInv, NEW r \in Registrations, Decided(r)
  PROVE  UniqueEmails' /\ RegistrationsLeft' /\ LoginsVerified' /\ Effects' /\ Progress'
<1> USE DEF IInv, TypeOK, Calls, environment, outcome
<1>1. CASE Commits(r)
  <2>1. UniqueEmails' BY <1>1 DEF Commits, Inserts, WithEmailOf, UniqueEmails
  <2>2. RegistrationsLeft'
    BY <1>1 DEF Commits, Inserts, WithEmailOf, UniqueEmails, RegistrationsLeft, Progress
  <2>3. LoginsVerified' BY <1>1 DEF Commits, Inserts, WithEmailOf, LoginsVerified
  <2>4. Effects' BY <1>1 DEF Commits, Inserts, WithEmailOf, Effects
  <2>5. Progress' BY <1>1 DEF Commits, Inserts, WithEmailOf, Progress
  <2> QED BY <2>1, <2>2, <2>3, <2>4, <2>5
<1>2. CASE Rejects(r)
  <2>1. UniqueEmails' BY <1>2 DEF Rejects, UniqueEmails
  <2>2. RegistrationsLeft' BY <1>2 DEF Rejects, RegistrationsLeft
  <2>3. LoginsVerified' BY <1>2 DEF Rejects, LoginsVerified
  <2>4. Effects' BY <1>2 DEF Rejects, Effects
  <2>5. Progress' BY <1>2 DEF Rejects, Progress
  <2> QED BY <2>1, <2>2, <2>3, <2>4, <2>5
<1> QED BY <1>1, <1>2 DEF Decided

LEMMA InvStep == IInv /\ [Next]_vars => IInv'
<1> SUFFICES ASSUME IInv, [Next]_vars PROVE IInv'
  OBVIOUS
<1>1. TypeOK'
  BY TypeStep DEF IInv
<1>2. UniqueEmails' /\ RegistrationsLeft' /\ LoginsVerified' /\ Effects' /\ Progress'
  <2> USE DEF IInv, TypeOK, Calls, UniqueEmails, RegistrationsLeft, LoginsVerified, Effects,
         Progress,
              environment, database, outcome
  <2>1. CASE \E r \in Registrations : Register(r) BY <2>1, RegisterStep
  <2>2. CASE \E l \in Logins : Login(l) BY <2>2, LoginStep
  <2>3. ASSUME NEW c \in Calls, AuditWritten(c)
        PROVE  UniqueEmails' /\ RegistrationsLeft' /\ LoginsVerified' /\ Effects' /\ Progress'
    BY <2>3 DEF AuditWritten, ActorOf
  <2>4. ASSUME NEW c \in Calls, AuditFails(c)
        PROVE  UniqueEmails' /\ RegistrationsLeft' /\ LoginsVerified' /\ Effects' /\ Progress'
    BY <2>4 DEF AuditFails
  <2>5. CASE QueueCloses BY <2>5 DEF QueueCloses
  <2>6. CASE Crash BY <2>6 DEF Crash
  <2>7. CASE Restart BY <2>7 DEF Restart
  <2>8. CASE Done \/ UNCHANGED vars BY <2>8 DEF Done, vars
  <2>9. ASSUME NEW r \in Registrations, CreateUserAbandoned(r)
        PROVE  UniqueEmails' /\ RegistrationsLeft' /\ LoginsVerified' /\ Effects' /\ Progress'
    BY <2>9 DEF CreateUserAbandoned, Answers
  <2>10. CASE \E r \in Registrations : Decided(r) BY <2>10, DecisionStep
  <2> QED BY <2>1, <2>2, <2>3, <2>4, <2>5, <2>6, <2>7, <2>8, <2>9, <2>10 DEF Next, AuditWriter
<1> QED BY <1>1, <1>2 DEF IInv

(* The type invariant and what it takes to prove the rest.                 *)
THEOREM Invariance == Spec => []IInv
  BY InvInit, InvStep, PTL DEF Spec

THEOREM TypeCorrect == Spec => []TypeOK
<1>1. IInv => TypeOK
  BY DEF IInv
<1> QED BY Invariance, <1>1, PTL

(* Whatever the order in which calls look for an email and insert it, and  *)
(* whichever queries fail, no two accounts and no two welcome jobs share   *)
(* an email.                                                               *)
THEOREM OneAccount == Spec => []OneAccountPerEmail
<1>1. IInv => OneAccountPerEmail
  BY DEF IInv, UniqueEmails, Effects, OneAccountPerEmail, TypeOK
<1> QED BY Invariance, <1>1, PTL

(* No client is told what is not so: 201, 409 and 200 are true of the      *)
(* accounts, and a password that lost the race for an email opens nothing. *)
THEOREM TrueAnswers == Spec => []AnswersAreTrue
<1>1. ASSUME IInv PROVE AnswersAreTrue
  <2> USE <1>1 DEF IInv, TypeOK, UniqueEmails, RegistrationsLeft, LoginsVerified
  <2>1. \A r \in Registrations :
          /\ answer[r] = 201 => r \in users /\ r \in announced
          /\ answer[r] = 409 => WithEmailOf(r) \ {r} # {}
    <3> TAKE r \in Registrations
    <3>1. ASSUME answer[r] = 409 PROVE WithEmailOf(r) \ {r} # {}
      <4>1. PICK u \in users : u # r /\ EmailOf[u] = EmailOf[r]
        BY <3>1
      <4>2. u \in WithEmailOf(r) \ {r}
        BY <4>1 DEF WithEmailOf
      <4> QED BY <4>2
    <3> QED BY <3>1
  <2>2. \A l \in Logins : answer[l] = 200 =>
          \E u \in users : EmailOf[u] = EmailOf[l] /\ PasswordOf[u] = PasswordOf[l]
    OBVIOUS
  <2>3. \A l \in Logins, r \in Registrations :
          (answer[l] = 200 /\ answer[r] = 201 /\ EmailOf[l] = EmailOf[r])
            => PasswordOf[l] = PasswordOf[r]
    OBVIOUS
  <2> QED BY <2>1, <2>2, <2>3 DEF AnswersAreTrue
<1> QED BY Invariance, <1>1, PTL

(* The hub, the queue and the audit table hear of accounts only, each of   *)
(* them after those before it.                                             *)
THEOREM EffectsFollow == Spec => []EffectsFollowAccounts
<1>1. ASSUME IInv PROVE EffectsFollowAccounts
  <2> USE <1>1 DEF IInv, TypeOK, Calls, RegistrationsLeft, LoginsVerified, Progress
  <2>1. Effects
    OBVIOUS
  <2>2. \A c \in auditing \cup audits : ActorOf(c) \in users
    BY DEF ActorOf, Effects
  <2> QED BY <2>1, <2>2 DEF EffectsFollowAccounts
<1> QED BY Invariance, <1>1, PTL

-----------------------------------------------------------------------------
(* Register and Login are operations on a map.                             *)

(* Nobody hears of a registration before it has read its row, and a login *)
(* has no session before its look.                                         *)
BookInv ==
  /\ \A r \in Registrations :
       at[r] \in {"called", "free", "inserting", "created"} => r \notin announced
  /\ \A l \in Logins : at[l] = "called" => userOf[l] = NoUser

LEMMA BookInvInit == Init => BookInv
  BY DEF Init, BookInv, Calls

LEMMA BookInvStep == IInv /\ BookInv /\ [Next]_vars => BookInv'
<1> SUFFICES ASSUME IInv, BookInv, [Next]_vars PROVE BookInv'
  OBVIOUS
<1>0. /\ at \in [Calls -> RegisterStates \cup LoginStates \cup Over]
      /\ userOf \in [Logins -> Registrations \cup {NoUser}]
      /\ announced \subseteq Registrations
      /\ Registrations \subseteq Calls /\ Logins \subseteq Calls
      /\ Registrations \cap Logins = {}
  BY CallsAssumption DEF IInv, TypeOK, Calls
<1> USE <1>0 DEF BookInv, environment, database, outcome, Goes, Answers
<1>1. ASSUME NEW r \in Registrations, Register(r) PROVE BookInv'
  <2>1. CASE EmailTaken(r) BY <2>1 DEF EmailTaken
  <2>2. CASE EmailLooksFree(r) BY <2>2 DEF EmailLooksFree
  <2>3. CASE HashPasswordFails(r) BY <2>3 DEF HashPasswordFails
  <2>4. CASE CreateUserSent(r) BY <2>4 DEF CreateUserSent
  <2>5. CASE UserCreated(r) BY <2>5 DEF UserCreated
  <2>6. CASE CreateUserFails(r) BY <2>6 DEF CreateUserFails
  <2>7. CASE HubHearsOfUser(r) BY <2>7 DEF HubHearsOfUser
  <2>8. CASE Published(r) BY <2>8 DEF Published
  <2>9. CASE PublishFails(r) BY <2>9 DEF PublishFails
  <2>10. CASE HubHearsOfJob(r) BY <2>10 DEF HubHearsOfJob
  <2>11. CASE EmitAuditLog(r, "emitted") BY <2>11 DEF EmitAuditLog
  <2>12. CASE Success(r, 201) BY <2>12 DEF Success
  <2> QED BY <1>1, <2>1, <2>2, <2>3, <2>4, <2>5, <2>6, <2>7, <2>8, <2>9, <2>10, <2>11, <2>12
          DEF Register
<1>2. ASSUME NEW l \in Logins, Login(l) PROVE BookInv'
  <2>1. CASE CredentialsMatch(l) BY <2>1 DEF CredentialsMatch
  <2>2. CASE InvalidCredentials(l) BY <2>2 DEF InvalidCredentials
  <2>3. CASE SigningFails(l) BY <2>3 DEF SigningFails
  <2>4. CASE EmitAuditLog(l, "verified") BY <2>4 DEF EmitAuditLog
  <2>5. CASE Success(l, 200) BY <2>5 DEF Success
  <2> QED BY <1>2, <2>1, <2>2, <2>3, <2>4, <2>5 DEF Login
<1>3. ASSUME NEW r \in Registrations, CreateUserAbandoned(r) PROVE BookInv'
  BY <1>3 DEF CreateUserAbandoned
<1>4. ASSUME NEW r \in Registrations, Decided(r) PROVE BookInv'
  BY <1>4 DEF Decided, Commits, Rejects, Inserts
<1>5. ASSUME NEW c \in Calls, AuditWriter(c) PROVE BookInv'
  BY <1>5 DEF AuditWriter, AuditWritten, AuditFails
<1>6. CASE QueueCloses BY <1>6 DEF QueueCloses
<1>7. CASE Crash BY <1>7 DEF Crash
<1>8. CASE Restart BY <1>8 DEF Restart
<1>9. CASE Done \/ UNCHANGED vars BY <1>9 DEF Done, vars
<1> QED BY <1>1, <1>2, <1>3, <1>4, <1>5, <1>6, <1>7, <1>8, <1>9 DEF Next

(* Emails being unique, the table is a map.                                *)
LEMMA OwnerIs ==
  ASSUME UniqueEmails, NEW u \in users
  PROVE  Owner(EmailOf[u]) = u
BY DEF UniqueEmails, Owner

LEMMA TableIsMap ==
  ASSUME IInv, NEW c \in Calls
  PROVE  /\ Book!Taken(c) <=> WithEmailOf(c) # {}
         /\ \A u \in WithEmailOf(c) : AccountOf[EmailOf[c]] = u
         /\ c \in Registrations => (Book!Has(c) <=> c \in users)
<1>1. users \subseteq Registrations /\ UniqueEmails
  BY DEF IInv, TypeOK
<1>2. DOMAIN AccountOf = {EmailOf[u] : u \in users}
  BY DEF AccountOf
<1>3. Book!Taken(c) <=> WithEmailOf(c) # {}
  BY <1>2 DEF Book!Taken, WithEmailOf
<1>4. ASSUME NEW u \in users PROVE AccountOf[EmailOf[u]] = u
  BY <1>1, OwnerIs DEF AccountOf
<1>5. \A u \in WithEmailOf(c) : AccountOf[EmailOf[c]] = u
  BY <1>4 DEF WithEmailOf
<1>6. ASSUME Book!Has(c) PROVE c \in users
  <2>1. PICK u \in users : EmailOf[u] = EmailOf[c]
    BY <1>2, <1>6 DEF Book!Has, Book!Taken
  <2> QED BY <1>4, <1>6, <2>1 DEF Book!Has
<1>7. ASSUME c \in users PROVE Book!Has(c)
  BY <1>2, <1>4, <1>7 DEF Book!Has, Book!Taken
<1> QED BY <1>3, <1>5, <1>6, <1>7

(* An insert is an entry in the map, which has none for that email.        *)
LEMMA InsertOpens ==
  ASSUME IInv, UniqueEmails', NEW r \in Registrations, Inserts(r)
  PROVE  Book!Opens(r)
<1>1. users' = users \cup {r} /\ WithEmailOf(r) = {} /\ r \in Calls
  BY DEF Inserts, Calls
<1>2. ~Book!Taken(r)
  BY <1>1, TableIsMap
<1>3. /\ DOMAIN AccountOf = {EmailOf[u] : u \in users}
      /\ DOMAIN AccountOf' = {EmailOf[u] : u \in users'}
  BY DEF AccountOf
<1>4. DOMAIN AccountOf' = DOMAIN AccountOf \cup {EmailOf[r]}
  BY <1>1, <1>3
<1>5. UniqueEmails
  BY DEF IInv
<1>6. ASSUME NEW u \in users' PROVE AccountOf'[EmailOf[u]] = u
  <2>1. (CHOOSE v \in users' : EmailOf[v] = EmailOf[u]) = u
    BY DEF UniqueEmails
  <2> QED BY <2>1 DEF AccountOf, Owner
<1>7. ASSUME NEW u \in users PROVE AccountOf[EmailOf[u]] = u
  BY <1>5, OwnerIs DEF AccountOf
<1>8. ASSUME NEW e \in DOMAIN AccountOf'
      PROVE  AccountOf'[e] = IF e = EmailOf[r] THEN r ELSE AccountOf[e]
  <2>1. PICK u \in users' : e = EmailOf[u]
    BY <1>3
  <2>2. CASE u = r
    BY <1>6, <2>1, <2>2
  <2>3. CASE u # r
    <3>1. u \in users /\ EmailOf[u] # EmailOf[r]
      BY <1>1, <2>3 DEF WithEmailOf
    <3> QED BY <1>6, <1>7, <2>1, <3>1
  <2> QED BY <2>2, <2>3
<1>9. AccountOf' = [e \in DOMAIN AccountOf' |-> AccountOf'[e]]
  BY DEF AccountOf
<1>10. AccountOf' = [e \in DOMAIN AccountOf \cup {EmailOf[r]} |->
                       IF e = EmailOf[r] THEN r ELSE AccountOf[e]]
  BY <1>4, <1>8, <1>9
<1> QED BY <1>2, <1>10 DEF Book!Opens

LEMMA MapUnseen ==
  /\ users' = users => AccountOf' = AccountOf
  /\ at' = at => Lost' = Lost
BY DEF AccountOf, Owner, Lost

(* A step of a call under way leaves no call lost that was not.            *)
LEMMA GoesOn ==
  ASSUME IInv, NEW c \in Calls, NEW from, NEW to, Goes(c, from, to),
         from \notin Over, to # "dead"
  PROVE  Book!UnderWay(c) /\ Lost' = Lost
<1>1. at \in [Calls -> RegisterStates \cup LoginStates \cup Over] /\ at[c] = from
  BY DEF IInv, TypeOK, Goes
<1>2. at' = [at EXCEPT ![c] = to]
  BY DEF Goes
<1>3. Lost' = Lost
  BY <1>1, <1>2 DEF Lost, Over
<1>4. answer[c] = 0 /\ c \notin Lost
  BY <1>1 DEF IInv, TypeOK, Progress, Lost, Over
<1> QED BY <1>3, <1>4 DEF Book!UnderWay

LEMMA IsAnswered ==
  ASSUME IInv, NEW c \in Calls, NEW from, NEW status, Answers(c, from, status),
         from \notin Over
  PROVE  Book!UnderWay(c) /\ Lost' = Lost
<1>1. at \in [Calls -> RegisterStates \cup LoginStates \cup Over] /\ at[c] = from
  BY DEF IInv, TypeOK, Answers
<1>2. at' = [at EXCEPT ![c] = "answered"]
  BY DEF Answers
<1>3. Lost' = Lost
  BY <1>1, <1>2 DEF Lost, Over
<1>4. answer[c] = 0 /\ c \notin Lost
  BY <1>1 DEF IInv, TypeOK, Progress, Lost, Over
<1> QED BY <1>3, <1>4 DEF Book!UnderWay

(* 500, whatever has become of the INSERT.                                 *)
LEMMA MapFailure ==
  ASSUME IInv, BookInv, NEW r \in Registrations,
         Answers(r, "free", 500) \/ Answers(r, "inserting", 500),
         UNCHANGED <<environment, database, userOf, announced, enqueued, jobs, auditing>>
  PROVE  [Book!Next]_(Book!vars)
<1>1. r \in Calls
  BY DEF Calls
<1>2. Book!UnderWay(r) /\ Lost' = Lost
  BY <1>1, IsAnswered DEF Over
<1>3. r \notin announced
  BY DEF BookInv, Answers
<1>4. Book!Fail(r)
  BY <1>2, <1>3, MapUnseen DEF Answers, database, Book!Fail, Book!Replies
<1> QED BY <1>1, <1>4 DEF Book!Next, Calls

LEMMA MapDecision ==
  ASSUME IInv, UniqueEmails', NEW r \in Registrations, Decided(r)
  PROVE  [Book!Next]_(Book!vars)
<1>1. r \in inserting /\ inserting' = inserting \ {r}
  BY DEF Decided, Commits, Rejects
<1>2. Lost' = Lost
  BY MapUnseen DEF Decided, Commits, Rejects, outcome
<1>3. Book!Settled(r)
  BY <1>1, <1>2 DEF Decided, Commits, Rejects, outcome, Book!Settled
<1>4. CASE Commits(r)
  <2>1. Book!Open(r)
    BY <1>3, <1>4, InsertOpens DEF Commits, Book!Open
  <2> QED BY <2>1 DEF Book!Next
<1>5. CASE Rejects(r)
  <2>1. Book!Drop(r)
    BY <1>3, <1>5, MapUnseen DEF Rejects, Book!Drop
  <2> QED BY <2>1 DEF Book!Next
<1> QED BY <1>4, <1>5 DEF Decided

LEMMA MapRegister ==
  ASSUME IInv, BookInv, UniqueEmails', NEW r \in Registrations, Register(r)
  PROVE  [Book!Next]_(Book!vars)
<1>0. r \in Calls /\ r \notin Logins
  BY CallsAssumption DEF Calls
<1>1. /\ Book!Taken(r) <=> WithEmailOf(r) # {}
      /\ Book!Has(r) <=> r \in users
  BY <1>0, TableIsMap
<1> USE <1>0 DEF environment, database
<1>2. CASE EmailTaken(r)
  <2>1. Answers(r, "called", 409)
    BY <1>2 DEF EmailTaken
  <2>2. Book!UnderWay(r) /\ Lost' = Lost
    BY <2>1, IsAnswered DEF Over
  <2>3. ~Book!Has(r) /\ Book!Taken(r)
    BY <1>1, <1>2, <2>1 DEF EmailTaken, IInv, Progress, Answers
  <2>4. r \notin inserting
    BY <2>1 DEF IInv, Progress, Answers
  <2>5. Book!Conflict(r)
    BY <1>2, <2>1, <2>2, <2>3, <2>4, MapUnseen
       DEF EmailTaken, Answers, Book!Conflict, Book!Replies
  <2> QED BY <2>5 DEF Book!Next
<1>3. CASE EmailLooksFree(r)
  <2>1. Goes(r, "called", "free")
    BY <1>3 DEF EmailLooksFree
  <2>2. Lost' = Lost
    BY <2>1, GoesOn DEF Over
  <2> QED BY <1>3, <2>1, <2>2, MapUnseen DEF EmailLooksFree, Goes, Book!vars
<1>4. CASE HashPasswordFails(r) \/ CreateUserFails(r)
  BY <1>4, MapFailure DEF HashPasswordFails, CreateUserFails
<1>5. CASE CreateUserSent(r)
  <2>1. Goes(r, "free", "inserting")
    BY <1>5 DEF CreateUserSent
  <2>2. Book!UnderWay(r) /\ Lost' = Lost
    BY <2>1, GoesOn DEF Over
  <2>3. r \notin inserting /\ ~Book!Has(r)
    BY <1>1, <2>1 DEF IInv, Progress, Goes
  <2>4. Book!Ask(r)
    BY <1>5, <2>1, <2>2, <2>3, MapUnseen DEF CreateUserSent, Goes, Book!Ask
  <2> QED BY <2>4 DEF Book!Next
<1>6. CASE UserCreated(r)
  <2>1. Goes(r, "inserting", "created")
    BY <1>6 DEF UserCreated
  <2>2. Lost' = Lost
    BY <2>1, GoesOn DEF Over
  <2> QED BY <1>6, <2>1, <2>2, MapUnseen DEF UserCreated, Goes, Book!vars
<1>7. CASE HubHearsOfUser(r)
  <2>1. Goes(r, "created", "announced")
    BY <1>7 DEF HubHearsOfUser
  <2>2. Book!UnderWay(r) /\ Lost' = Lost
    BY <2>1, GoesOn DEF Over
  <2>3. Book!Has(r)
    BY <1>1, <2>1 DEF IInv, RegistrationsLeft, Goes
  <2>4. Book!Announce(r)
    BY <1>7, <2>1, <2>2, <2>3, MapUnseen DEF HubHearsOfUser, Goes, Book!Announce
  <2> QED BY <2>4 DEF Book!Next
<1>8. CASE Published(r)
  <2>1. Goes(r, "announced", "published")
    BY <1>8 DEF Published
  <2>2. Book!UnderWay(r) /\ Lost' = Lost
    BY <2>1, GoesOn DEF Over
  <2>3. r \in announced
    BY <2>1 DEF IInv, RegistrationsLeft, Goes
  <2>4. Book!Welcome(r)
    BY <1>8, <2>1, <2>2, <2>3, MapUnseen DEF Published, Goes, Book!Welcome
  <2> QED BY <2>4 DEF Book!Next
<1>9. CASE PublishFails(r)
  <2>1. Goes(r, "announced", "emitted")
    BY <1>9 DEF PublishFails
  <2>2. Lost' = Lost
    BY <2>1, GoesOn DEF Over
  <2> QED BY <1>9, <2>1, <2>2, MapUnseen DEF PublishFails, Goes, Book!vars
<1>10. CASE HubHearsOfJob(r)
  <2>1. Goes(r, "published", "emitted")
    BY <1>10 DEF HubHearsOfJob
  <2>2. Book!UnderWay(r) /\ Lost' = Lost
    BY <2>1, GoesOn DEF Over
  <2>3. r \in jobs
    BY <2>1 DEF IInv, RegistrationsLeft, Goes
  <2>4. Book!Report(r)
    BY <1>10, <2>1, <2>2, <2>3, MapUnseen DEF HubHearsOfJob, Goes, Book!Report
  <2> QED BY <2>4 DEF Book!Next
<1>11. CASE EmitAuditLog(r, "emitted")
  <2>1. Goes(r, "emitted", "audited")
    BY <1>11 DEF EmitAuditLog
  <2>2. Lost' = Lost
    BY <2>1, GoesOn DEF Over
  <2> QED BY <1>11, <2>1, <2>2, MapUnseen DEF EmitAuditLog, Goes, Book!vars
<1>12. CASE Success(r, 201)
  <2>1. Answers(r, "audited", 201)
    BY <1>12 DEF Success
  <2>2. Book!UnderWay(r) /\ Lost' = Lost
    BY <2>1, IsAnswered DEF Over
  <2>3. Book!Has(r) /\ r \in announced
    BY <1>1, <2>1 DEF IInv, RegistrationsLeft, Answers
  <2>4. Book!Confirm(r)
    BY <1>12, <2>1, <2>2, <2>3, MapUnseen DEF Success, Answers, Book!Confirm, Book!Replies
  <2> QED BY <2>4 DEF Book!Next
<1> QED BY <1>2, <1>3, <1>4, <1>5, <1>6, <1>7, <1>8, <1>9, <1>10, <1>11, <1>12 DEF Register

LEMMA MapLogin ==
  ASSUME IInv, BookInv, NEW l \in Logins, Login(l)
  PROVE  [Book!Next]_(Book!vars)
<1>0. l \in Calls /\ l \notin Registrations
  BY CallsAssumption DEF Calls
<1> USE <1>0 DEF environment, database
<1>1. CASE CredentialsMatch(l)
  <2>1. Goes(l, "called", "verified")
    BY <1>1 DEF CredentialsMatch
  <2>2. Book!UnderWay(l) /\ Lost' = Lost
    BY <2>1, GoesOn DEF Over
  <2>3. PICK u \in WithEmailOf(l) : /\ PasswordOf[u] = PasswordOf[l]
                                    /\ userOf' = [userOf EXCEPT ![l] = u]
    BY <1>1 DEF CredentialsMatch
  <2>4. Book!Taken(l) /\ AccountOf[EmailOf[l]] = u
    BY <2>3, TableIsMap
  <2>5. userOf[l] = NoUser
    BY <2>1 DEF BookInv, Goes
  <2>6. Book!Find(l)
    BY <1>1, <2>1, <2>2, <2>3, <2>4, <2>5, MapUnseen
       DEF CredentialsMatch, Goes, Book!Find
  <2> QED BY <2>6 DEF Book!Next
<1>2. CASE InvalidCredentials(l)
  <2>1. Answers(l, "called", 401)
    BY <1>2 DEF InvalidCredentials
  <2>2. Book!UnderWay(l) /\ Lost' = Lost
    BY <2>1, IsAnswered DEF Over
  <2>3. userOf[l] = NoUser
    BY <2>1 DEF BookInv, Answers
  <2>4. Book!Deny(l)
    BY <1>2, <2>1, <2>2, <2>3, MapUnseen
       DEF InvalidCredentials, Answers, Book!Deny, Book!Replies
  <2> QED BY <2>4 DEF Book!Next
<1>3. CASE SigningFails(l)
  <2>1. Answers(l, "verified", 500)
    BY <1>3 DEF SigningFails
  <2>2. Book!UnderWay(l) /\ Lost' = Lost
    BY <2>1, IsAnswered DEF Over
  <2>3. Book!Fail(l)
    BY <1>3, <2>1, <2>2, MapUnseen DEF SigningFails, Answers, Book!Fail, Book!Replies
  <2> QED BY <2>3 DEF Book!Next
<1>4. CASE EmitAuditLog(l, "verified")
  <2>1. Goes(l, "verified", "audited")
    BY <1>4 DEF EmitAuditLog
  <2>2. Lost' = Lost
    BY <2>1, GoesOn DEF Over
  <2> QED BY <1>4, <2>1, <2>2, MapUnseen DEF EmitAuditLog, Goes, Book!vars
<1>5. CASE Success(l, 200)
  <2>1. Answers(l, "audited", 200)
    BY <1>5 DEF Success
  <2>2. Book!UnderWay(l) /\ Lost' = Lost
    BY <2>1, IsAnswered DEF Over
  <2>3. userOf[l] # NoUser
    BY <2>1, CallsAssumption DEF IInv, TypeOK, LoginsVerified, Answers, Calls
  <2>4. Book!Grant(l)
    BY <1>5, <2>1, <2>2, <2>3, MapUnseen DEF Success, Answers, Book!Grant, Book!Replies
  <2> QED BY <2>4 DEF Book!Next
<1> QED BY <1>1, <1>2, <1>3, <1>4, <1>5 DEF Login

(* An audit row may come after the answer, or after the process has died.  *)
LEMMA MapAudit ==
  ASSUME IInv, NEW c \in Calls, AuditWriter(c)
  PROVE  [Book!Next]_(Book!vars)
<1> USE DEF environment, database, outcome
<1>1. CASE AuditWritten(c)
  <2>1. c \in auditing /\ at' = at /\ users' = users /\ audits' = audits \cup {c}
    BY <1>1 DEF AuditWritten
  <2>2. Book!Did(c)
    <3>1. CASE c \in Registrations
      BY <2>1, <3>1 DEF IInv, Progress, Book!Did
    <3>2. CASE c \notin Registrations
      <4>1. c \in Logins /\ userOf[c] \in users /\ users \subseteq Registrations
        BY <2>1, <3>2 DEF Calls, IInv, TypeOK, LoginsVerified
      <4> QED BY <3>2, <4>1, CallsAssumption DEF Calls, Book!Did
    <3> QED BY <3>1, <3>2
  <2>3. Book!Record(c)
    BY <1>1, <2>1, <2>2, MapUnseen DEF AuditWritten, Book!Record
  <2> QED BY <2>3 DEF Book!Next, Calls
<1>2. CASE AuditFails(c)
  BY <1>2, MapUnseen DEF AuditFails, Book!vars
<1> QED BY <1>1, <1>2 DEF AuditWriter

LEMMA MapCrash ==
  ASSUME IInv, Crash
  PROVE  [Book!Next]_(Book!vars)
<1> DEFINE Some == {c \in Calls : at[c] \notin {"called", "answered", "dead"}}
<1>1. at' = [c \in Calls |-> IF at[c] \in {"called", "answered"} THEN at[c] ELSE "dead"]
  BY DEF Crash
<1>2. Lost' = Lost \cup Some
  BY <1>1 DEF Lost
<1>3. \A c \in Some : Book!UnderWay(c)
  BY DEF IInv, TypeOK, Progress, Lost, Book!UnderWay
<1>4. Some \in SUBSET {c \in Registrations \cup Logins : Book!UnderWay(c)}
  BY <1>3 DEF Calls
<1>5. Book!Lose
  BY <1>2, <1>4, MapUnseen DEF Crash, database, Book!Lose
<1> QED BY <1>5 DEF Book!Next

LEMMA MapInit == Init => Book!Init
<1> SUFFICES ASSUME Init PROVE Book!Init
  OBVIOUS
<1>1. AccountOf = [e \in {} |-> NoUser]
  BY DEF Init, AccountOf
<1>2. Lost = {}
  BY DEF Init, Lost
<1> QED BY <1>1, <1>2 DEF Init, Book!Init, Calls

LEMMA MapNext == IInv /\ BookInv /\ [Next]_vars => [Book!Next]_(Book!vars)
<1> SUFFICES ASSUME IInv, BookInv, [Next]_vars PROVE [Book!Next]_(Book!vars)
  OBVIOUS
<1>1. UniqueEmails'
  BY InvStep DEF IInv
<1>2. CASE QueueCloses \/ Restart \/ Done \/ UNCHANGED vars
  BY <1>2, MapUnseen DEF QueueCloses, Restart, Done, vars, database, outcome, Book!vars
<1>3. ASSUME NEW r \in Registrations, CreateUserAbandoned(r)
      PROVE  [Book!Next]_(Book!vars)
  BY <1>3, MapFailure DEF CreateUserAbandoned
<1> QED BY <1>1, <1>2, <1>3, MapRegister, MapDecision, MapLogin, MapAudit, MapCrash DEF Next

(* Whatever fails, races, comes late or dies, Register and Login are       *)
(* operations on a map from emails to accounts, whose 201, 409, 200 and    *)
(* 401 are true and final, and whose 500s and deaths leave an account that *)
(* was opened, may yet be or never is, of which nobody is told             *)
(* (auth.service.go:32-115).                                               *)
THEOREM Refinement == Spec => ImplementsAccounts
  BY Invariance, BookInvInit, BookInvStep, MapInit, MapNext, PTL
     DEF Spec, ImplementsAccounts, Book!Spec
=============================================================================
