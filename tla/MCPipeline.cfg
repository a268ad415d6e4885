CONSTANTS
  Requests = {r1, r2}
  Inputs <- MCInputs
  Configs <- MCConfigs
  MaxFiles = 3
  MaxRemovals = 2
SPECIFICATION Spec
SYMMETRY Symmetry
INVARIANTS TypeOK FilesAreReturned LostForAReason LogIsTrue OnlyDocsAreHidden PreflightsStopAtCORS
