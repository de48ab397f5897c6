-------------------------- MODULE BudgetWindowProofs --------------------------
(***************************************************************************)
(* Proofs, for any sets of requests and batch jobs and any faults, of the  *)
(* safety properties of BudgetWindow.                                      *)
(***************************************************************************)
EXTENDS BudgetWindow, FiniteSetTheorems, TLAPS

(***************************************************************************)
(* What is stored, and what a request carries from one call to the next,   *)
(* agrees with the gateway. Neither holds without the other: a settling    *)
(* request stores what it carries, and a polling one carries what it read. *)
(***************************************************************************)
Settled == {"completed", "failed", "typed", "submitted"}

\* The gateway's answer about batch j is the outcome.
OutcomeOf(outcome, j) ==
    \/ outcome = "completed" /\ j \in Jobs /\ gw[j] = "complete"
    \/ outcome = "typed" /\ j \in Jobs /\ gw[j] \in {"complete", "spm"}
    \/ outcome = "failed" /\ j \in Jobs /\ gw[j] \in {"empty", "failed"}
    \/ outcome = "failed" /\ j = NoJob

StoredIsTrue ==
    /\ state.status \in {"none", "unreadable", "starting"} => state.job = NoJob
    /\ state.status = "starting" => state.owner \in Requests
    /\ state.status = "submitted" => state.job \in Jobs /\ gw[state.job] # "absent"
    /\ state.status \in Terminal => OutcomeOf(state.status, state.job)

CarriedIsTrue ==
    \A p \in Requests :
        /\ pc[p] \in {"poll", "store"} => job[p] \in Jobs /\ gw[job[p]] # "absent"
        /\ pc[p] = "replay" => job[p] \in Jobs /\ gw[job[p]] = "complete"
        /\ pc[p] = "settle" => seen[p] \in Terminal /\ OutcomeOf(seen[p], job[p])

TruthInv == TypeOK /\ StoredIsTrue /\ CarriedIsTrue

(***************************************************************************)
(* A request that submits owns the report's state, unless its claim        *)
(* expired or a late writer settled the report under it.                   *)
(***************************************************************************)
SubmitterOwns ==
    "statettl" \notin faults => \A p \in Requests :
        pc[p] \in {"submit", "store"} /\ p \notin expired =>
            state = Starting(p) \/ state.status \in Settled

(***************************************************************************)
(* While nothing expires, who may write the state key is fixed by what it  *)
(* holds: the owner of a starting claim, or a request that polls or        *)
(* replays the batch it names.                                             *)
(***************************************************************************)
NothingExpires == faults \intersect {"claimttl", "statettl"} = {}

\* The request is about to store that the gateway rejected its submission.
Rejected(p) == pc[p] = "settle" /\ job[p] = NoJob

WritersMatchState ==
    NothingExpires => \A p \in Requests :
        /\ pc[p] \in {"submit", "store"} \/ Rejected(p) => state = Starting(p)
        /\ pc[p] \in {"poll", "replay"} \/ (pc[p] = "settle" /\ job[p] # NoJob) =>
               state.job = job[p]

(***************************************************************************)
(* While Redis answers too, a request that may still release its claim has *)
(* no batch, and an accepted batch keeps the state key occupied.           *)
(***************************************************************************)
RedisAnswers == faults \subseteq {"error", "crash"}

NoBatch == \A j \in Jobs : gw[j] = "absent"

BatchKeepsOthersOut ==
    RedisAnswers =>
        /\ \A p \in Requests : pc[p] \in {"submit", "release"} \/ Rejected(p) =>
               state = Starting(p) /\ NoBatch
        /\ ReadsNothing => NoBatch
        /\ \A j, k \in Jobs : gw[j] # "absent" /\ gw[k] # "absent" => j = k

IInv ==
    /\ TruthInv
    /\ SubmitterOwns
    /\ OneSubmitter
    /\ WritersMatchState
    /\ BatchKeepsOthersOut

(***************************************************************************)
(* Types and truth.                                                        *)
(***************************************************************************)

\* The report starts with nothing stored, or with what another build left.
LEMMA InitTruth == Init => TruthInv
  BY ConstantsAssumption
  DEF Init, TruthInv, TypeOK, StoredIsTrue, CarriedIsTrue, State, Statuses, Plain,
      PC, JobStates, Terminal

\* What each writer of the key stores is a BudgetWindowCacheState.
LEMMA StatesTyped ==
  /\ \A s \in Statuses : Plain(s) \in State
  /\ \A p \in Requests : Starting(p) \in State
  /\ \A s \in Statuses, j \in Jobs \union {NoJob} : OfJob(s, j) \in State
  BY DEF State, Statuses, Plain, Starting, OfJob

\* A poll stores only what the gateway reports of the batch.
LEMMA PollIsTrue ==
  ASSUME NEW j \in Jobs, NEW outcome \in PollOutcomes(gw[j])
  PROVE  outcome \in Terminal /\ OutcomeOf(outcome, j)
  BY DEF PollOutcomes, Terminal, OutcomeOf

\* Every step of a request keeps what is stored and what is carried true.
LEMMA StepTruth ==
  ASSUME TruthInv, NEW p \in Requests, Step(p) \/ Raise(p) \/ Crash(p)
  PROVE  TruthInv'
<1> USE DEF TruthInv
<1>1. CASE ReadState(p)
  BY <1>1, StatesTyped DEF ReadState, Return, Goto, GotoWithJob, ReadsNothing, ClearInvalidState,
     TypeOK, StoredIsTrue, CarriedIsTrue, OutcomeOf, State, Statuses, Plain, Terminal, PC
<1>2. CASE Replay(p)
  BY <1>2 DEF Replay, Return, StartSettling, TypeOK, StoredIsTrue, CarriedIsTrue,
     OutcomeOf, Statuses, Terminal, PC
<1>3. CASE Poll(p)
  BY <1>3, PollIsTrue DEF Poll, Return, StartSettling, TypeOK, StoredIsTrue, CarriedIsTrue,
     OutcomeOf, Statuses, Terminal, PC
<1>4. CASE Settle(p)
  BY <1>4, StatesTyped DEF Settle, Return, TypeOK, StoredIsTrue, CarriedIsTrue,
     OutcomeOf, OfJob, Statuses, Terminal, PC
<1>5. CASE LoadPolicies(p)
  BY <1>5 DEF LoadPolicies, Goto, TypeOK, StoredIsTrue, CarriedIsTrue, OutcomeOf, PC
<1>6. CASE Claim(p)
  BY <1>6, StatesTyped DEF Claim, Goto, Return, TypeOK, StoredIsTrue, CarriedIsTrue, OutcomeOf,
     Starting, Statuses, Terminal, PC
<1>7. CASE ReadClaim(p)
  BY <1>7, StatesTyped DEF ReadClaim, Return, ReadsNothing, ClearInvalidState, TypeOK,
     StoredIsTrue, CarriedIsTrue, OutcomeOf, Plain, Statuses, Terminal, PC
<1>8. CASE Submit(p)
  BY <1>8 DEF Submit, Goto, GotoWithJob, StartSettling, TypeOK, StoredIsTrue, CarriedIsTrue,
     OutcomeOf, JobStates, Statuses, Terminal, PC
<1>9. CASE StoreSubmitted(p)
  BY <1>9, StatesTyped DEF StoreSubmitted, Goto, Return, TypeOK, StoredIsTrue, CarriedIsTrue,
     OutcomeOf, OfJob, Statuses, Terminal, PC
<1>10. CASE ClearStartingClaim(p)
  BY <1>10, StatesTyped DEF ClearStartingClaim, Return, TypeOK, StoredIsTrue, CarriedIsTrue,
     OutcomeOf, Plain, Statuses, Terminal, PC
<1>11. CASE Raise(p) \/ Crash(p)
  BY <1>11 DEF Raise, Crash, Return, TypeOK, StoredIsTrue, CarriedIsTrue, OutcomeOf, Statuses, PC
<1> QED
  BY <1>1, <1>2, <1>3, <1>4, <1>5, <1>6, <1>7, <1>8, <1>9, <1>10, <1>11 DEF Step

\* So do the gateway, which ends only a running batch, and Redis, which only
\* deletes.
LEMMA OtherTruth ==
  ASSUME TruthInv, (\E j \in Jobs : JobEnds(j)) \/ ClaimExpires \/ StateExpires
  PROVE  TruthInv'
<1> USE DEF TruthInv
<1>1. ASSUME NEW j \in Jobs, JobEnds(j)
      PROVE  TruthInv'
  BY <1>1 DEF JobEnds, TypeOK, StoredIsTrue, CarriedIsTrue, OutcomeOf, JobStates
<1>2. CASE ClaimExpires
  BY <1>2, StatesTyped DEF ClaimExpires, TypeOK, StoredIsTrue, CarriedIsTrue, OutcomeOf,
     Plain, Statuses, Terminal
<1>3. CASE StateExpires
  BY <1>3, StatesTyped DEF StateExpires, TypeOK, StoredIsTrue, CarriedIsTrue, OutcomeOf,
     Plain, Statuses, Terminal
<1> QED
  BY <1>1, <1>2, <1>3

\* Truth is inductive by itself.
LEMMA TruthStep == TruthInv /\ [Next]_vars => TruthInv'
<1> SUFFICES ASSUME TruthInv, [Next]_vars
             PROVE  TruthInv'
  OBVIOUS
<1>1. CASE UNCHANGED vars
  BY <1>1 DEF vars, TruthInv, TypeOK, StoredIsTrue, CarriedIsTrue, OutcomeOf
<1> QED
  BY <1>1, StepTruth, OtherTruth DEF Next

(***************************************************************************)
(* Ownership of the submission.                                            *)
(***************************************************************************)

\* Nobody submits yet.
LEMMA InitSubmitter == Init => SubmitterOwns /\ OneSubmitter
  BY DEF Init, SubmitterOwns, OneSubmitter

\* A claim succeeds only on an empty key, which no live submitter leaves behind;
\* a release compares the token, so it frees only its own claim.
LEMMA SubmitterStep ==
  ASSUME TruthInv, SubmitterOwns, OneSubmitter, [Next]_vars
  PROVE  SubmitterOwns' /\ OneSubmitter'
<1> USE DEF TruthInv, TypeOK
<1>1. ASSUME NEW p \in Requests, ReadState(p) \/ LoadPolicies(p) \/ ReadClaim(p)
      PROVE  SubmitterOwns' /\ OneSubmitter'
  BY <1>1 DEF ReadState, LoadPolicies, ReadClaim, Return, Goto, GotoWithJob, ReadsNothing,
     ClearInvalidState, SubmitterOwns, OneSubmitter, Starting, Settled, State
<1>2. ASSUME NEW p \in Requests, Replay(p) \/ Poll(p) \/ Raise(p) \/ Crash(p)
      PROVE  SubmitterOwns' /\ OneSubmitter'
  BY <1>2 DEF Replay, Poll, Raise, Crash, Return, StartSettling, SubmitterOwns, OneSubmitter
<1>3. ASSUME NEW p \in Requests, Settle(p)
      PROVE  SubmitterOwns' /\ OneSubmitter'
  BY <1>3 DEF Settle, Return, OfJob, CarriedIsTrue, Terminal, Settled, SubmitterOwns, OneSubmitter
<1>4. ASSUME NEW p \in Requests, Claim(p)
      PROVE  SubmitterOwns' /\ OneSubmitter'
  BY <1>4 DEF Claim, Goto, Return, Starting, Settled, SubmitterOwns, OneSubmitter
<1>5. ASSUME NEW p \in Requests, Submit(p)
      PROVE  SubmitterOwns' /\ OneSubmitter'
  BY <1>5 DEF Submit, Goto, GotoWithJob, StartSettling, SubmitterOwns, OneSubmitter
<1>6. ASSUME NEW p \in Requests, StoreSubmitted(p)
      PROVE  SubmitterOwns' /\ OneSubmitter'
  BY <1>6 DEF StoreSubmitted, Goto, Return, OfJob, Settled, SubmitterOwns, OneSubmitter
<1>7. ASSUME NEW p \in Requests, ClearStartingClaim(p)
      PROVE  SubmitterOwns' /\ OneSubmitter'
  BY <1>7 DEF ClearStartingClaim, Return, Starting, Settled, SubmitterOwns, OneSubmitter
<1>8. ASSUME NEW j \in Jobs, JobEnds(j)
      PROVE  SubmitterOwns' /\ OneSubmitter'
  BY <1>8 DEF JobEnds, SubmitterOwns, OneSubmitter
<1>9. CASE ClaimExpires
  <2>1. \A q \in Requests : state = Starting(q) => state.owner = q
    BY DEF Starting
  <2> QED
    BY <1>9, <2>1 DEF ClaimExpires, Submitting, Settled, SubmitterOwns, OneSubmitter
<1>10. CASE StateExpires
  BY <1>10 DEF StateExpires, SubmitterOwns, OneSubmitter
<1>11. CASE UNCHANGED vars
  BY <1>11 DEF vars, SubmitterOwns, OneSubmitter
<1> QED
  BY <1>1, <1>2, <1>3, <1>4, <1>5, <1>6, <1>7, <1>8, <1>9, <1>10, <1>11 DEF Next, Step

(***************************************************************************)
(* Who may write the state key while nothing expires.                      *)
(***************************************************************************)

\* Nobody is about to write it yet.
LEMMA InitWriters == Init => WritersMatchState
  BY DEF Init, WritersMatchState, Rejected

\* A claim on the key shuts out pollers, who hold the batch it would name; a
\* named batch shuts out claims.
LEMMA WritersStep ==
  ASSUME TruthInv, WritersMatchState, [Next]_vars
  PROVE  WritersMatchState'
<1> USE ConstantsAssumption DEF TruthInv, TypeOK, WritersMatchState, NothingExpires, Rejected
<1>1. ASSUME NEW p \in Requests, ReadState(p)
      PROVE  WritersMatchState'
  BY <1>1 DEF ReadState, Return, Goto, GotoWithJob, ReadsNothing, ClearInvalidState,
     StoredIsTrue, CarriedIsTrue, Starting, Plain
<1>2. ASSUME NEW p \in Requests, Replay(p) \/ Poll(p)
      PROVE  WritersMatchState'
  BY <1>2 DEF Replay, Poll, Return, StartSettling, CarriedIsTrue
<1>3. ASSUME NEW p \in Requests, Settle(p)
      PROVE  WritersMatchState'
  BY <1>3 DEF Settle, Return, OfJob, Starting, CarriedIsTrue
<1>4. ASSUME NEW p \in Requests, Claim(p)
      PROVE  WritersMatchState'
  BY <1>4 DEF Claim, Goto, Return, Starting, StoredIsTrue, CarriedIsTrue
<1>5. ASSUME NEW p \in Requests, Submit(p)
      PROVE  WritersMatchState'
  BY <1>5 DEF Submit, Goto, GotoWithJob, StartSettling
<1>6. ASSUME NEW p \in Requests, StoreSubmitted(p)
      PROVE  WritersMatchState'
  BY <1>6 DEF StoreSubmitted, Goto, Return, OfJob, Starting, CarriedIsTrue
<1>7. ASSUME NEW p \in Requests, ClearStartingClaim(p)
      PROVE  WritersMatchState'
  BY <1>7 DEF ClearStartingClaim, Return, Starting, Plain, CarriedIsTrue
<1>8. ASSUME NEW p \in Requests, LoadPolicies(p) \/ Raise(p) \/ Crash(p)
      PROVE  WritersMatchState'
  BY <1>8 DEF LoadPolicies, Raise, Crash, Goto, Return
<1>9. ASSUME NEW p \in Requests, ReadClaim(p)
      PROVE  WritersMatchState'
  BY <1>9 DEF ReadClaim, Return, ReadsNothing, ClearInvalidState, StoredIsTrue, CarriedIsTrue,
     Starting, Plain
<1>10. ASSUME NEW j \in Jobs, JobEnds(j)
      PROVE  WritersMatchState'
  BY <1>10 DEF JobEnds
<1>11. CASE ClaimExpires \/ StateExpires
  BY <1>11 DEF ClaimExpires, StateExpires
<1>12. CASE UNCHANGED vars
  BY <1>12 DEF vars
<1> QED
  BY <1>1, <1>2, <1>3, <1>4, <1>5, <1>6, <1>7, <1>8, <1>9, <1>10, <1>11, <1>12 DEF Next, Step

(***************************************************************************)
(* One batch while Redis answers.                                          *)
(***************************************************************************)

\* The gateway knows no batch of the report yet.
LEMMA InitBatch == Init => BatchKeepsOthersOut
  BY DEF Init, BatchKeepsOthersOut, Rejected, NoBatch

\* Only a submission adds a batch, and the claim under which it is made stays
\* until the batch itself is stored: a handoff that is answered is never followed
\* by a release.
LEMMA BatchStep ==
  ASSUME TruthInv, WritersMatchState, BatchKeepsOthersOut, [Next]_vars
  PROVE  BatchKeepsOthersOut'
<1> SUFFICES ASSUME RedisAnswers
             PROVE  BatchKeepsOthersOut'
  <2>1. RedisAnswers' => RedisAnswers
    BY DEF RedisAnswers, Next, Step, ReadState, Replay, Poll, Settle, LoadPolicies, Claim,
       ReadClaim, Submit, StoreSubmitted, ClearStartingClaim, Raise, Crash, JobEnds,
       ClaimExpires, StateExpires, vars
  <2> QED
    BY <2>1 DEF BatchKeepsOthersOut
<1>0. /\ {"outage", "lost", "claimttl", "statettl"} \intersect faults = {}
      /\ NothingExpires
  BY DEF RedisAnswers, NothingExpires
<1> USE ConstantsAssumption, <1>0
    DEF TruthInv, TypeOK, BatchKeepsOthersOut, WritersMatchState, Rejected, NoBatch, ReadsNothing
<1>1. ASSUME NEW p \in Requests, ReadState(p)
      PROVE  BatchKeepsOthersOut'
  BY <1>1 DEF ReadState, Return, Goto, GotoWithJob, ClearInvalidState, Starting, Plain
<1>2. ASSUME NEW p \in Requests, Replay(p) \/ Poll(p)
      PROVE  BatchKeepsOthersOut'
  BY <1>2 DEF Replay, Poll, Return, StartSettling, CarriedIsTrue
<1>3. ASSUME NEW p \in Requests, Settle(p)
      PROVE  BatchKeepsOthersOut'
  <2>1. /\ seen[p] \in Terminal
        /\ job[p] = NoJob \/ (job[p] \in Jobs /\ gw[job[p]] # "absent")
    BY <1>3 DEF Settle, CarriedIsTrue, OutcomeOf
  <2> QED
    BY <1>3, <2>1 DEF Settle, Return, OfJob, Starting, Terminal
<1>4. ASSUME NEW p \in Requests, Claim(p)
      PROVE  BatchKeepsOthersOut'
  BY <1>4 DEF Claim, Goto, Return, Starting
<1>5. ASSUME NEW p \in Requests, Submit(p)
      PROVE  BatchKeepsOthersOut'
  BY <1>5 DEF Submit, Goto, GotoWithJob, StartSettling, Starting
<1>6. ASSUME NEW p \in Requests, StoreSubmitted(p)
      PROVE  BatchKeepsOthersOut'
  BY <1>6 DEF StoreSubmitted, Goto, Return, OfJob, Starting, CarriedIsTrue
<1>7. ASSUME NEW p \in Requests, ClearStartingClaim(p)
      PROVE  BatchKeepsOthersOut'
  BY <1>7 DEF ClearStartingClaim, Return, Starting, Plain
<1>8. ASSUME NEW p \in Requests, LoadPolicies(p) \/ Raise(p) \/ Crash(p)
      PROVE  BatchKeepsOthersOut'
  BY <1>8 DEF LoadPolicies, Raise, Crash, Goto, Return
<1>9. ASSUME NEW p \in Requests, ReadClaim(p)
      PROVE  BatchKeepsOthersOut'
  BY <1>9 DEF ReadClaim, Return, ClearInvalidState, Starting, Plain
<1>10. ASSUME NEW j \in Jobs, JobEnds(j)
      PROVE  BatchKeepsOthersOut'
  BY <1>10 DEF JobEnds, JobStates
<1>11. CASE ClaimExpires \/ StateExpires
  BY <1>11 DEF ClaimExpires, StateExpires
<1>12. CASE UNCHANGED vars
  BY <1>12 DEF vars
<1> QED
  BY <1>1, <1>2, <1>3, <1>4, <1>5, <1>6, <1>7, <1>8, <1>9, <1>10, <1>11, <1>12 DEF Next, Step

\* A set whose members are all equal has at most one.
LEMMA AtMostOne ==
  ASSUME NEW S, \A x, y \in S : x = y
  PROVE  Cardinality(S) <= 1
<1>1. CASE S = {}
  BY <1>1, FS_EmptySet
<1>2. ASSUME NEW x \in S PROVE Cardinality(S) <= 1
  <2>1. S = {x}
    BY <1>2
  <2> QED
    BY <2>1, FS_Singleton
<1> QED
  BY <1>1, <1>2

(***************************************************************************)
(* The theorems.                                                           *)
(***************************************************************************)

\* The inductive invariant holds throughout.
THEOREM Inductive == Spec => []IInv
<1>1. Init => IInv
  BY InitTruth, InitSubmitter, InitWriters, InitBatch DEF IInv
<1>2. IInv /\ [Next]_vars => IInv'
  BY TruthStep, SubmitterStep, WritersStep, BatchStep DEF IInv
<1> QED
  BY <1>1, <1>2, PTL DEF Spec

\* The report's state always decodes and every request holds values of its
\* kinds, whoever writes the key last.
THEOREM TypeCorrect == Spec => []TypeOK
<1>1. IInv => TypeOK
  BY DEF IInv, TruthInv
<1> QED
  BY <1>1, Inductive, PTL

\* claim_batch_start and clear_starting_claim give the submission to one request
\* at a time, but for those that outlive their claim.
THEOREM OneRequestSubmits == Spec => []OneSubmitter
<1>1. IInv => OneSubmitter
  BY DEF IInv
<1> QED
  BY <1>1, Inductive, PTL

\* What _set_recoverable_state stored last is what the gateway says of the batch
\* it is stored for, whatever expired, failed or arrived late.
THEOREM OutcomesAreTrue == Spec => []StoredOutcomeIsTheBatchs
<1>1. IInv => StoredOutcomeIsTheBatchs
  BY ConstantsAssumption
  DEF IInv, TruthInv, StoredIsTrue, OutcomeOf, Terminal, StoredOutcomeIsTheBatchs
<1> QED
  BY <1>1, Inductive, PTL

\* While Redis answers and nothing expires, the claim under SET NX admits one
\* batch per report, whoever crashes and whichever gateway call raises.
THEOREM OneBatchIsAccepted == Spec => []OneBatchWhileRedisAnswers
<1>1. IInv => OneBatchWhileRedisAnswers
  <2> SUFFICES ASSUME IInv, RedisAnswers
               PROVE  OneBatch
    BY DEF OneBatchWhileRedisAnswers, RedisAnswers
  <2> QED
    BY AtMostOne DEF IInv, BatchKeepsOthersOut, OneBatch
<1> QED
  BY <1>1, Inductive, PTL

\* While nothing expires, no unconditional SET of store_submitted or
\* _set_recoverable_state replaces a batch by another, or undoes its settlement.
THEOREM BatchesKeepTheirPlace == Spec => BatchKeepsItsPlace
<1> DEFINE Kept == state.job # NoJob /\ NothingExpires =>
                       /\ state'.job = state.job
                       /\ state.status \in Terminal => state'.status \in Terminal
<1>1. IInv /\ [Next]_vars => [Kept]_vars
  <2> SUFFICES ASSUME IInv, Next, state.job # NoJob, NothingExpires
               PROVE  /\ state'.job = state.job
                      /\ state.status \in Terminal => state'.status \in Terminal
    OBVIOUS
  <2> USE DEF IInv, TruthInv, TypeOK
  <2>1. /\ state.status \in Settled
        /\ \A p \in Requests : state # Starting(p)
    BY DEF StoredIsTrue, State, Statuses, Settled, Starting
  <2>2. ASSUME NEW p \in Requests, ReadState(p) \/ ReadClaim(p)
        PROVE  state' = state
    BY <2>1, <2>2 DEF ReadState, ReadClaim, ReadsNothing, Settled
  <2>3. ASSUME NEW p \in Requests, Settle(p)
        PROVE  /\ state'.job = state.job
               /\ state.status \in Terminal => state'.status \in Terminal
    BY <2>1, <2>3 DEF Settle, WritersMatchState, Rejected, CarriedIsTrue, OfJob
  <2>4. ASSUME NEW p \in Requests, Claim(p) \/ StoreSubmitted(p) \/ ClearStartingClaim(p)
        PROVE  state' = state
    BY <2>1, <2>4 DEF Claim, StoreSubmitted, ClearStartingClaim, WritersMatchState, Settled
  <2>5. ASSUME NEW p \in Requests,
               Replay(p) \/ Poll(p) \/ LoadPolicies(p) \/ Submit(p) \/ Raise(p) \/ Crash(p)
        PROVE  state' = state
    BY <2>5 DEF Replay, Poll, LoadPolicies, Submit, Raise, Crash
  <2>6. ASSUME NEW j \in Jobs, JobEnds(j)
        PROVE  state' = state
    BY <2>6 DEF JobEnds
  <2>7. ~ClaimExpires /\ ~StateExpires
    BY DEF NothingExpires, ClaimExpires, StateExpires
  <2> QED
    BY <2>2, <2>3, <2>4, <2>5, <2>6, <2>7 DEF Next, Step
<1> QED
  BY <1>1, Inductive, PTL DEF Spec, BatchKeepsItsPlace, NothingExpires
===============================================================================
