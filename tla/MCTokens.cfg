CONSTANTS
  Users = {ann, bob}
  NoUser = NoUser
  Requests = {r1}
  Second = 2
  AccessTTL = 3
  RefreshTTL = 5
  MaxTime = 12
  MaxTokens = 4
  MaxRestarts = 1
SPECIFICATION MCSpec
INVARIANTS TypeOK OnlyOldTokensRefused
PROPERTIES SessionsEnd RotationEndsSessions
