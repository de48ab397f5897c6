SPECIFICATION Spec
CONSTANTS
  Gets = {g1, g2}
  Deletes = {}
  Jobs = {j1,j2}
  Apps = {a1}
  NoOne = NoOne
  NoJob = NoJob
  NoApp = NoApp
  ClaimAttempts = 2
  DeleteAttempts = 2
  Faults = {"error","crash","outage","lost","claimttl"}
SYMMETRY Symmetry
INVARIANTS TypeOK OneSubmitterPerClaim UnhandedJobKeepsItsClaim
