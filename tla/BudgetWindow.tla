---------------------------- MODULE BudgetWindow ----------------------------
(***************************************************************************)
(* How concurrent requests for one budget-window report share one batch    *)
(* job: services/economy_budget_window_submission.py and                   *)
(* economy_budget_window_results.py over the single state key per report   *)
(* that services/budget_window_cache.py keeps in Redis. Unlike the         *)
(* single-year impacts, the claim and the result live under one key, so    *)
(* claiming (SET NX) also checks that nothing is stored.                   *)
(***************************************************************************)
EXTENDS Integers, FiniteSets

CONSTANTS
    Requests,       \* requests for the report; each is a client that may ask again
    Jobs,           \* the batch job ids the gateway can still hand out
    NoOne, NoJob,
    ClaimAttempts,  \* BUDGET_WINDOW_CLAIM_ATTEMPTS
    Regimes         \* the sets of faults to consider, of FaultKinds

FaultKinds == {"outage",    \* a Redis call fails
               "error",     \* a gateway or database call raises
               "crash",     \* the process serving a request dies
               "lost",      \* a call takes effect but its reply is lost
               "claimttl",  \* a starting claim expires under its owner
               "statettl"}  \* Redis expires or evicts another state

ASSUME ConstantsAssumption ==
    /\ NoOne \notin Requests /\ NoJob \notin Jobs
    /\ ClaimAttempts \in Nat \ {0}
    /\ Regimes \subseteq SUBSET FaultKinds

\* BudgetWindowCacheState: "failed" and "typed" are its two failure types.
\* "unreadable" is a value that does not decode under this build's schema. In a
\* terminal state "job" stands for the stored result or error: whose it is.
Statuses == {"none", "unreadable", "starting", "submitted",
             "completed", "failed", "typed"}
State == [status: Statuses, owner: Requests \union {NoOne}, job: Jobs \union {NoJob}]
Terminal == {"completed", "failed", "typed"}

Plain(s) == [status |-> s, owner |-> NoOne, job |-> NoJob]
Starting(p) == [status |-> "starting", owner |-> p, job |-> NoJob]
OfJob(s, j) == [status |-> s, owner |-> NoOne, job |-> j]

VARIABLES
    state,    \* the report's state key
    gw,       \* state of each batch job at the gateway
    pc,       \* the call each request makes next
    seen,     \* the state it read, or the outcome it is about to store
    job,      \* the batch it polls or has submitted
    tries,    \* failed attempts of its claim loop
    expired,  \* observed: requests whose claim expired while they held it
    faults    \* the faults that may happen in this behaviour, which never change

vars == <<state, gw, pc, seen, job, tries, expired, faults>>

PC == {"idle",      \* next: ReadState
       "poll",      \* next: Poll
       "replay",    \* next: Replay
       "settle",    \* next: Settle
       "create",    \* next: LoadPolicies
       "claim",     \* next: Claim
       "readclaim", \* next: ReadClaim
       "submit",    \* next: Submit
       "store",     \* next: StoreSubmitted
       "release"}   \* next: ClearStartingClaim

\* "empty" is a batch that completes without a result; "spm" one the gateway
\* reports with a typed SPM error.
JobStates == {"absent", "running", "complete", "empty", "failed", "spm"}

\* The report's state decodes as a BudgetWindowCacheState (or is the one value
\* that does not), and every request holds values of its kinds: what it is about
\* to store is a cache status, never the gateway's own.
TypeOK ==
    /\ state \in State
    /\ gw \in [Jobs -> JobStates]
    /\ pc \in [Requests -> PC]
    /\ seen \in [Requests -> Statuses]
    /\ job \in [Requests -> Jobs \union {NoJob}]
    /\ tries \in [Requests -> Nat]
    /\ expired \subseteq Requests
    /\ faults \in Regimes

Init ==
    /\ state \in {Plain("none"), Plain("unreadable")}
    /\ gw = [j \in Jobs |-> "absent"]
    /\ pc = [p \in Requests |-> "idle"]
    /\ seen = [p \in Requests |-> "none"]
    /\ job = [p \in Requests |-> NoJob]
    /\ tries = [p \in Requests |-> 0]
    /\ expired = {}
    /\ faults \in Regimes

\* The request answers, or its exception leaves the service: it is over.
Return(p) ==
    /\ pc' = [pc EXCEPT ![p] = "idle"]
    /\ seen' = [seen EXCEPT ![p] = "none"]
    /\ job' = [job EXCEPT ![p] = NoJob]
    /\ tries' = [tries EXCEPT ![p] = 0]

Goto(p, next) ==
    /\ pc' = [pc EXCEPT ![p] = next]
    /\ UNCHANGED <<seen, job, tries>>

\* The request goes on to the given call about batch j.
GotoWithJob(p, next, j) ==
    /\ pc' = [pc EXCEPT ![p] = next]
    /\ job' = [job EXCEPT ![p] = j]
    /\ UNCHANGED <<seen, tries>>

\* The request stores the given outcome of batch j.
StartSettling(p, outcome, j) ==
    /\ pc' = [pc EXCEPT ![p] = "settle"]
    /\ seen' = [seen EXCEPT ![p] = outcome]
    /\ job' = [job EXCEPT ![p] = j]
    /\ UNCHANGED tries

\* BudgetWindowCache.get_state: a value that does not decode is deleted, if it
\* is still there, and read as nothing. The read itself fails closed (Raise).
ReadsNothing == state.status \in {"none", "unreadable"}
ClearInvalidState ==
    \/ state' = IF state.status = "unreadable" THEN Plain("none") ELSE state
    \/ "outage" \in faults /\ UNCHANGED state

\* get_budget_window_economic_impact and _budget_window_result_from_state: a
\* failure is replayed and a starting claim answers "computing".
ReadState(p) ==
    /\ pc[p] = "idle"
    /\ \/ /\ ReadsNothing
          /\ ClearInvalidState
          /\ Goto(p, "create")
       \/ /\ state.status = "submitted"
          /\ GotoWithJob(p, "poll", state.job)
          /\ UNCHANGED state
       \/ /\ state.status = "completed"
          /\ GotoWithJob(p, "replay", state.job)
          /\ UNCHANGED state
       \/ /\ state.status \in {"starting", "failed", "typed"}
          /\ Return(p)
          /\ UNCHANGED state
    /\ UNCHANGED <<gw, expired, faults>>

\* _replay_budget_window_result: serve the stored result, or, when this build
\* cannot certify it, store the typed failure.
Replay(p) ==
    /\ pc[p] = "replay"
    /\ Return(p) \/ StartSettling(p, "typed", job[p])
    /\ UNCHANGED <<state, gw, expired, faults>>

\* Mutant: stores a completed batch without looking at its result.
PollOutcomesUnchecked(s) ==
    CASE s \in {"complete", "empty"} -> {"completed", "typed"}
      [] s = "failed" -> {"failed"}
      [] s = "spm" -> {"typed"}
      [] OTHER -> {}

\* What a poll of a batch in each state stores.
PollOutcomes(s) ==
    CASE s = "complete"           -> {"completed", "typed"}
      [] s \in {"empty", "failed"} -> {"failed"}
      [] s = "spm"                -> {"typed"}
      [] OTHER                    -> {}

\* Mutant: answers a batch that completed without a result but stores nothing.
PollForgetsEmpty(p) ==
    /\ pc[p] = "poll"
    /\ \/ gw[job[p]] \in {"running", "empty"} /\ Return(p)
       \/ /\ gw[job[p]] # "empty"
          /\ \E outcome \in PollOutcomes(gw[job[p]]) : StartSettling(p, outcome, job[p])
    /\ UNCHANGED <<state, gw, expired, faults>>

\* _get_budget_window_result_from_batch_job_id up to the store.
Poll(p) ==
    /\ pc[p] = "poll"
    /\ \/ gw[job[p]] = "running" /\ Return(p)
       \/ \E outcome \in PollOutcomes(gw[job[p]]) : StartSettling(p, outcome, job[p])
    /\ UNCHANGED <<state, gw, expired, faults>>

\* _set_recoverable_state: an unconditional SET; a failed write is only logged.
Settle(p) ==
    /\ pc[p] = "settle"
    /\ \/ state' = OfJob(seen[p], job[p])
       \/ "outage" \in faults /\ UNCHANGED state
    /\ Return(p)
    /\ UNCHANGED <<gw, expired, faults>>

\* _submit_budget_window loads both policies before it claims.
LoadPolicies(p) ==
    /\ pc[p] = "create"
    /\ Goto(p, "claim")
    /\ UNCHANGED <<state, gw, expired, faults>>

\* Mutant: a SET without NX where another request is starting.
ClaimOverwrites(p) ==
    /\ pc[p] = "claim"
    /\ \/ /\ state.status \in {"none", "starting"}
          /\ state' = Starting(p)
          /\ Goto(p, "submit")
       \/ /\ state.status \notin {"none", "starting"}
          /\ Goto(p, "readclaim")
          /\ UNCHANGED state
    /\ UNCHANGED <<gw, expired, faults>>

\* claim_batch_start: SET NX, so it succeeds only where nothing is stored. A
\* lost reply raises, and the claim it made stays until it expires.
Claim(p) ==
    /\ pc[p] = "claim"
    /\ \/ /\ state.status = "none"
          /\ state' = Starting(p)
          /\ expired' = expired \ {p}
          /\ Goto(p, "submit") \/ ("lost" \in faults /\ Return(p))
       \/ /\ state.status # "none"
          /\ Goto(p, "readclaim")
          /\ UNCHANGED <<state, expired>>
    /\ UNCHANGED <<gw, faults>>

\* Mutant: an unbounded claim loop.
ReadClaimForever(p) ==
    /\ pc[p] = "readclaim"
    /\ \/ ReadsNothing /\ ClearInvalidState /\ Goto(p, "claim")
       \/ ~ReadsNothing /\ Return(p) /\ UNCHANGED state
    /\ UNCHANGED <<gw, expired, faults>>

\* _claim_budget_window_start after a lost claim: any state found answers
\* "computing"; none is claimed again, until the attempts run out.
ReadClaim(p) ==
    /\ pc[p] = "readclaim"
    /\ \/ /\ ReadsNothing
          /\ ClearInvalidState
          /\ \/ /\ tries[p] + 1 < ClaimAttempts
                /\ tries' = [tries EXCEPT ![p] = tries[p] + 1]
                /\ pc' = [pc EXCEPT ![p] = "claim"]
                /\ UNCHANGED <<seen, job>>
             \/ tries[p] + 1 >= ClaimAttempts /\ Return(p)
       \/ /\ ~ReadsNothing
          /\ Return(p)
          /\ UNCHANGED state
    /\ UNCHANGED <<gw, expired, faults>>

\* Mutant: a failed submission re-raises without releasing its claim.
SubmitKeepsClaim(p) ==
    /\ pc[p] = "submit"
    /\ \/ \E j \in Jobs :
             /\ gw[j] = "absent"
             /\ gw' = [gw EXCEPT ![j] = "running"]
             /\ GotoWithJob(p, "store", j)
       \/ /\ StartSettling(p, "failed", NoJob) \/ Return(p)
          /\ UNCHANGED gw
    /\ UNCHANGED <<state, expired, faults>>

\* _submit_claimed_budget_window_batch, run_budget_window_batch: the gateway
\* accepts the batch; or rejects it as invalid, which is stored as a failure; or
\* the call raises, having started a batch or not.
Submit(p) ==
    /\ pc[p] = "submit"
    /\ \/ \E j \in Jobs :
             /\ gw[j] = "absent"
             /\ gw' = [gw EXCEPT ![j] = "running"]
             /\ \/ GotoWithJob(p, "store", j)
                \/ "lost" \in faults /\ Goto(p, "release")
       \/ /\ StartSettling(p, "failed", NoJob) \/ Goto(p, "release")
          /\ UNCHANGED gw
    /\ UNCHANGED <<state, expired, faults>>

\* store_submitted: an unconditional SET. A failure, or a lost reply, raises
\* CacheCoordinationError, and the handler releases the claim.
StoreSubmitted(p) ==
    /\ pc[p] = "store"
    /\ \/ /\ state' = OfJob("submitted", job[p])
          /\ Return(p) \/ ("lost" \in faults /\ Goto(p, "release"))
       \/ /\ "outage" \in faults
          /\ Goto(p, "release")
          /\ UNCHANGED state
    /\ UNCHANGED <<gw, expired, faults>>

\* Mutant: a plain DEL of the state key.
ClearAnyState(p) ==
    /\ pc[p] = "release"
    /\ state' = Plain("none")
    /\ Return(p)
    /\ UNCHANGED <<gw, expired, faults>>

\* clear_starting_claim: deletes the state only if it is this request's claim.
ClearStartingClaim(p) ==
    /\ pc[p] = "release"
    /\ \/ state' = IF state = Starting(p) THEN Plain("none") ELSE state
       \/ "outage" \in faults /\ UNCHANGED state
    /\ Return(p)
    /\ UNCHANGED <<gw, expired, faults>>

\* The policies cannot be loaded, or the poll or a claim call fails.
Raise(p) ==
    /\ "error" \in faults
    /\ pc[p] \in {"poll", "create", "claim", "readclaim"}
    /\ Return(p)
    /\ UNCHANGED <<state, gw, expired, faults>>

Crash(p) ==
    /\ "crash" \in faults
    /\ pc[p] # "idle"
    /\ Return(p)
    /\ UNCHANGED <<state, gw, expired, faults>>

\* The calls a request makes while it owns the submission.
Submitting == {"submit", "store", "release"}

\* The 300 seconds of a starting claim pass.
ClaimExpires ==
    /\ "claimttl" \in faults
    /\ state.status = "starting"
    /\ state' = Plain("none")
    /\ expired' = IF pc[state.owner] \in Submitting \union {"settle"}
                  THEN expired \union {state.owner} ELSE expired
    /\ UNCHANGED <<gw, pc, seen, job, tries, faults>>

\* A submitted state's day, or a terminal state's 30 days, pass.
StateExpires ==
    /\ "statettl" \in faults
    /\ state.status \in Terminal \union {"submitted"}
    /\ state' = Plain("none")
    /\ UNCHANGED <<gw, pc, seen, job, tries, expired, faults>>

\* The gateway finishes a batch; it never changes its mind.
JobEnds(j) ==
    /\ gw[j] = "running"
    /\ \E s \in JobStates \ {"absent", "running"} : gw' = [gw EXCEPT ![j] = s]
    /\ UNCHANGED <<state, pc, seen, job, tries, expired, faults>>

Step(p) ==
    \/ ReadState(p) \/ Replay(p) \/ Poll(p) \/ Settle(p)
    \/ LoadPolicies(p) \/ Claim(p) \/ ReadClaim(p)
    \/ Submit(p) \/ StoreSubmitted(p) \/ ClearStartingClaim(p)

Next ==
    \/ \E p \in Requests : Step(p) \/ Raise(p) \/ Crash(p)
    \/ \E j \in Jobs : JobEnds(j)
    \/ ClaimExpires
    \/ StateExpires

Spec == Init /\ [][Next]_vars

(***************************************************************************)
(* Properties.                                                             *)
(***************************************************************************)

\* Of two requests between winning the claim and handing the batch over, one
\* has outlived its starting claim: while no other state expires, neither the
\* release of a claim (claims.py compares the token) nor the late handoff of a
\* request whose claim had expired lets a second one in.
OneSubmitter ==
    "statettl" \notin faults => \A p, q \in Requests :
        /\ pc[p] \in {"submit", "store"} /\ pc[q] \in {"submit", "store"}
        /\ p \notin expired /\ q \notin expired
        => p = q

\* A stored outcome is its own batch's, though pollers of an earlier batch may
\* finish after a later one was stored (_set_recoverable_state overwrites). A
\* failure of no batch is a submission the gateway rejected.
StoredOutcomeIsTheBatchs ==
    /\ state.status = "completed" => gw[state.job] = "complete"
    /\ state.status = "typed" => gw[state.job] \in {"complete", "spm"}
    /\ state.status = "failed" /\ state.job # NoJob =>
           gw[state.job] \in {"empty", "failed"}

\* While no state expires, a report that names a batch keeps that batch, and
\* once it is settled stays settled, whoever else is still submitting,
\* releasing or polling.
BatchKeepsItsPlace ==
    [][state.job # NoJob /\ faults \intersect {"claimttl", "statettl"} = {} =>
          /\ state'.job = state.job
          /\ state.status \in Terminal => state'.status \in Terminal]_vars

\* "submitting its batch job only once" (economy_budget_window_submission.py)
\* and "deduplication operations fail closed instead of launching duplicate
\* work" (README.md): the gateway never accepts a second batch for the report.
OneBatch == Cardinality({j \in Jobs : gw[j] # "absent"}) <= 1

\* The gateway accepts one batch at most while every Redis call is answered and
\* nothing expires, though database and gateway calls fail and processes die.
OneBatchWhileRedisAnswers == faults \subseteq {"error", "crash"} => OneBatch

(***************************************************************************)
(* Liveness. A started request keeps taking its steps, and each client     *)
(* asks again after an answer, as the app does while it is shown           *)
(* "computing". Nothing is assumed of the gateway, nor of expiry.          *)
(***************************************************************************)
FairSpec == Spec /\ \A p \in Requests : WF_vars(Step(p))

\* Every request ends: the claim loop gives up after its attempts.
RequestsEnd == \A p \in Requests : pc[p] # "idle" ~> pc[p] = "idle"

\* A starting claim whose owner lives and reaches Redis is replaced or released
\* by its owner, whether the gateway accepts, rejects or fails: nobody waits for
\* its expiry.
ClaimIsResolved ==
    faults \intersect {"outage", "crash", "lost"} = {} =>
    \A p \in Requests : state = Starting(p) ~> state # Starting(p)

\* A batch that ended does not stay "submitted" while clients poll it and their
\* calls are answered.
EndedBatchIsSettled ==
    faults \intersect {"outage", "crash", "error"} = {} =>
    \A j \in Jobs :
        state = OfJob("submitted", j) /\ gw[j] # "running"
            ~> state # OfJob("submitted", j)
=============================================================================
