SPECIFICATION FairSpec
CONSTANTS
    p1 = p1
    p2 = p2
    j1 = j1
    j2 = j2
    Requests = {p1, p2}
    Jobs = {j1, j2}
    NoOne = NoOne
    NoJob = NoJob
    ClaimAttempts = 2
    Regimes <- MCRegimes
INVARIANTS OneSubmitter StoredOutcomeIsTheBatchs OneBatchWhileRedisAnswers
PROPERTIES BatchKeepsItsPlace RequestsEnd ClaimIsResolved EndedBatchIsSettled
