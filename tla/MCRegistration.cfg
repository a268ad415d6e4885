CONSTANTS
  ann = ann
  bob = bob
  cleo = cleo
  login = login
  Registrations <- MCRegistrations
  Logins <- MCLogins
  EmailOf <- MCEmailOf
  PasswordOf <- MCPasswordOf
  NoUser = NoUser
  MaxCrashes = 1
SPECIFICATION FairSpec
INVARIANTS TypeOK OneAccountPerEmail AnswersAreTrue EffectsFollowAccounts
PROPERTIES ImplementsAccounts CallsAreAnswered
