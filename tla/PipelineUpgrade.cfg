CONSTANTS
  Requests = {r1}
  Inputs <- MCInputs
  Configs <- MCShipped
  MaxFiles = 3
  MaxRemovals = 0
SPECIFICATION Spec
INVARIANT HubUpgrades
