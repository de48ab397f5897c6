SPECIFICATION Spec
CONSTANTS
  Gets = {g1, g2}
  Deletes = {}
  Jobs = {j1, j2}
  Apps = {a1, a2}
  NoOne = NoOne
  NoJob = NoJob
  NoApp = NoApp
  ClaimAttempts = 2
  DeleteAttempts = 2
  Faults = {"deploy"}
SYMMETRY Symmetry
INVARIANT StoredOutcomeIsTheJobs
PROPERTY VisibleJobIsNotDuplicated
