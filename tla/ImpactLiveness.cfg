SPECIFICATION FairSpec
CONSTANTS
  Gets = {g1, g2}
  Deletes = {d1}
  Jobs = {j1}
  Apps = {a1}
  NoOne = NoOne
  NoJob = NoJob
  NoApp = NoApp
  ClaimAttempts = 2
  DeleteAttempts = 2
  Faults = {"recordttl"}
PROPERTY RequestsEnd EndedJobIsSettled DeleteOnlyOldFailures ImplementsLifecycle
