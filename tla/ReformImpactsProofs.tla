------------------------ MODULE ReformImpactsProofs ------------------------
(***************************************************************************)
(* Proofs, for any sets of requests, jobs and worker apps and any faults,  *)
(* of the safety properties of ReformImpacts.                              *)
(***************************************************************************)
EXTENDS ReformImpacts, TLAPS

(***************************************************************************)
(* Types. TypeOK alone is not inductive: a request that stores a record    *)
(* must have the job, the copy, the worker app and the outcome it stores.  *)
(***************************************************************************)
HasJob == {"looked", "selected", "update", "write", "delete", "store"}
HasCopy == {"looked", "selected", "update", "write", "delete"}
HasApp == {"claim", "readclaim"} \union Submitting
HasChange == {"update", "write"}

LocalsSet ==
    \A p \in Requests :
        /\ pc[p] \in HasJob => job[p] \in Jobs
        /\ pc[p] \in HasCopy => copy[p] \in Impact
        /\ pc[p] \in HasApp => app[p] \in Apps
        /\ pc[p] \in HasChange => change[p] # "none"

LocalsTyped ==
    /\ pc \in [Requests -> PC]
    /\ job \in [Requests -> Jobs \union {NoJob}]
    /\ copy \in [Requests -> Impact \union {NoImpact}]
    /\ app \in [Requests -> Apps \union {NoApp}]
    /\ tries \in [Requests -> Nat]
    /\ change \in [Requests -> Changes]
    /\ visible \in [Requests -> SUBSET Jobs]
    /\ LocalsSet

TypeInv == TypeOK /\ LocalsSet

\* Every request starts idle, with none of its variables set.
LEMMA InitTypeInv == Init => TypeInv
  BY ConstantsAssumption
  DEF Init, TypeInv, TypeOK, LocalsSet, Requests, PC, JobStates, Changes,
      HasJob, HasCopy, HasApp, HasChange, Submitting

\* The ways a request leaves one call for the next keep its variables typed.
LEMMA ReturnLocals ==
  ASSUME TypeInv, NEW p \in Requests, Return(p)
  PROVE  LocalsTyped'
  BY DEF Return, TypeInv, TypeOK, LocalsTyped, LocalsSet, PC, Changes,
         HasJob, HasCopy, HasApp, HasChange, Submitting

\* Going on to a call, with the variables that the call needs already set.
LEMMA GotoLocals ==
  ASSUME TypeInv, NEW p \in Requests, NEW next \in PC, Goto(p, next),
         next \in HasJob => job[p] \in Jobs,
         next \in HasCopy => copy[p] \in Impact,
         next \in HasApp => app[p] \in Apps,
         next \in HasChange => change[p] # "none"
  PROVE  LocalsTyped'
  BY DEF Goto, TypeInv, TypeOK, LocalsTyped, LocalsSet

\* Selecting a record sets the job and the copy that the next call uses.
LEMMA SelectLocals ==
  ASSUME TypeInv, NEW p \in Requests, NEW j \in Found, NEW a \in Apps \union {NoApp},
         NEW next \in {"looked", "selected"}, Select(p, j, a, next)
  PROVE  LocalsTyped'
<1>1. j \in Jobs /\ rec[j] \in Impact
  BY DEF Found, TypeInv, TypeOK
<1> QED
  BY <1>1 DEF Select, TypeInv, TypeOK, LocalsTyped, LocalsSet, PC,
              HasJob, HasCopy, HasApp, HasChange, Submitting

\* Finding nothing to reuse ends a DELETE, and leaves a GET nothing to keep.
LEMMA SelectNothingLocals ==
  ASSUME TypeInv, NEW p \in Requests, NEW a \in Apps \union {NoApp},
         NEW seen \in SUBSET Jobs, SelectNothing(p, a, seen)
  PROVE  LocalsTyped'
<1>1. CASE Return(p)
  BY <1>1, ReturnLocals
<1>2. CASE ~Return(p)
  BY <1>2 DEF SelectNothing, TypeInv, TypeOK, LocalsTyped, LocalsSet, PC,
              HasJob, HasCopy, HasApp, HasChange, Submitting
<1> QED
  BY <1>1, <1>2

\* A request about to store an outcome has one, and a job to store it on.
LEMMA StartUpdateLocals ==
  ASSUME TypeInv, NEW g \in Requests, pc[g] \in HasCopy \intersect HasJob,
         NEW outcome \in Changes \ {"none"}, StartUpdate(g, outcome)
  PROVE  LocalsTyped'
  BY DEF StartUpdate, TypeInv, TypeOK, LocalsTyped, LocalsSet, PC,
         HasJob, HasCopy, HasApp, HasChange, Submitting

\* A write on top of a stored impact is an impact.
LEMMA ChangedType ==
  ASSUME NEW impact \in Impact, NEW outcome, NEW n \in Nat
  PROVE  Changed(impact, outcome, n) \in Impact
  BY DEF Changed, Impact

\* Every action leaves each request with the variables its next call uses.
LEMMA TypeInvStep == TypeInv /\ [Next]_vars => TypeInv'
<1> SUFFICES ASSUME TypeInv, [Next]_vars
             PROVE  TypeInv'
  OBVIOUS
<1>0. /\ Gets \subseteq Requests /\ Deletes \subseteq Requests
      /\ {"idle", "retry", "looked", "selected", "create", "claim", "readclaim",
          "submit", "store", "release", "update", "write", "delete"} = PC
  BY DEF Requests, PC
<1> USE DEF redis, gateway, local, observed
<1>1. ASSUME NEW p \in Requests, Lookup(p) PROVE TypeInv'
  <2>1. LocalsTyped'
    <3>1. ASSUME NEW j \in Newest(Found),
                 Select(p, j, NoApp,
                        IF rec[j].status = "computing" THEN "selected" ELSE "looked")
          PROVE  LocalsTyped'
      BY <3>1, SelectLocals DEF Newest
    <3>2. CASE SelectNothing(p, NoApp, {})
      BY <3>2, SelectNothingLocals
    <3> QED
      BY <1>1, <3>1, <3>2 DEF Lookup, LookupOutage
  <2> QED
    BY <1>1, <2>1 DEF Lookup, TypeInv, TypeOK, LocalsTyped
<1>2. ASSUME NEW p \in Requests, Raise(p) \/ Crash(p) PROVE TypeInv'
  BY <1>2, ReturnLocals DEF Raise, Crash, TypeInv, TypeOK, LocalsTyped
<1>3. ASSUME NEW p \in Requests, Refresh(p) PROVE TypeInv'
  <2>1. live \in Apps /\ Found \in SUBSET Jobs /\ pc[p] = "looked"
    BY <1>3 DEF TypeInv, TypeOK, Found, Refresh
  <2>2. LocalsTyped'
    <3>1. CASE Goto(p, "selected")
      BY <3>1, <2>1, <1>0, GotoLocals
      DEF TypeInv, LocalsSet, HasJob, HasCopy, HasApp, HasChange, Submitting
    <3>2. ASSUME NEW j \in Newest(Matching(live)), Select(p, j, live, "selected")
          PROVE  LocalsTyped'
      BY <3>2, <2>1, SelectLocals DEF Newest, Matching
    <3>3. CASE SelectNothing(p, live, Found) \/ SelectNothing(p, live, {})
      BY <3>3, <2>1, SelectNothingLocals
    <3>4. CASE /\ pc' = [pc EXCEPT ![p] = "selected"]
               /\ app' = [app EXCEPT ![p] = live]
               /\ UNCHANGED <<job, copy, tries, change, visible>>
      BY <3>4, <2>1 DEF TypeInv, TypeOK, LocalsTyped, LocalsSet, PC,
                        HasJob, HasCopy, HasApp, HasChange, Submitting
    <3> QED
      BY <1>3, <3>1, <3>2, <3>3, <3>4 DEF Refresh, LookupOutage
  <2> QED
    BY <1>3, <2>2 DEF Refresh, TypeInv, TypeOK, LocalsTyped
<1>4. ASSUME NEW g \in Gets, Replay(g) PROVE TypeInv'
  <2>1. LocalsTyped'
    BY <1>0, <1>4, ReturnLocals, StartUpdateLocals DEF Replay, Changes, HasCopy, HasJob
  <2> QED
    BY <1>4, <2>1 DEF Replay, TypeInv, TypeOK, LocalsTyped
<1>5. ASSUME NEW g \in Gets, AnswerFailure(g) PROVE TypeInv'
  BY <1>0, <1>5, ReturnLocals DEF AnswerFailure, TypeInv, TypeOK, LocalsTyped
<1>6. ASSUME NEW g \in Gets, Poll(g) PROVE TypeInv'
  <2>1. LocalsTyped'
    BY <1>0, <1>6, ReturnLocals, StartUpdateLocals
    DEF Poll, PollOutcomes, Changes, HasCopy, HasJob
  <2> QED
    BY <1>6, <2>1 DEF Poll, TypeInv, TypeOK, LocalsTyped
<1>7. ASSUME NEW g \in Gets, UpdateRead(g) PROVE TypeInv'
  <2>1. g \in Requests /\ job[g] \in Jobs
    BY <1>0, <1>7 DEF UpdateRead, TypeInv, LocalsSet, HasJob
  <2>2. LocalsTyped'
    <3>1. CASE Return(g)
      BY <3>1, <2>1, ReturnLocals
    <3>2. CASE ~Return(g)
      BY <1>7, <2>1, <3>2
      DEF UpdateRead, TypeInv, TypeOK, LocalsTyped, LocalsSet, PC,
          HasJob, HasCopy, HasApp, HasChange, Submitting
    <3> QED
      BY <3>1, <3>2
  <2> QED
    BY <1>7, <2>2 DEF UpdateRead, TypeInv, TypeOK, LocalsTyped
<1>8. ASSUME NEW g \in Gets, UpdateWrite(g) PROVE TypeInv'
  <2>1. /\ g \in Requests /\ job[g] \in Jobs /\ copy[g] \in Impact
        /\ rec[job[g]] # NoImpact => rec[job[g]].stamp + 1 \in Nat
    BY <1>0, <1>8 DEF UpdateWrite, TypeInv, TypeOK, LocalsSet, HasJob, HasCopy, Impact
  <2>2. LocalsTyped'
    BY <1>8, <2>1, ReturnLocals DEF UpdateWrite
  <2>3. rec[job[g]] # NoImpact =>
          Changed(copy[g], change[g], rec[job[g]].stamp + 1) \in Impact
    BY <2>1, ChangedType
  <2> QED
    BY <1>8, <2>1, <2>2, <2>3 DEF UpdateWrite, TypeInv, TypeOK, LocalsTyped
<1>9. ASSUME NEW g \in Gets, ResolveApp(g) PROVE TypeInv'
  BY <1>0, <1>9 DEF ResolveApp, TypeInv, TypeOK, LocalsSet,
                    HasJob, HasCopy, HasApp, HasChange, Submitting
<1>10. ASSUME NEW g \in Gets, Claim(g) PROVE TypeInv'
  <2>1. g \in Requests /\ pc[g] = "claim" /\ app[g] \in Apps
    BY <1>0, <1>10 DEF Claim, TypeInv, LocalsSet, HasApp
  <2>2. LocalsTyped'
    BY <1>0, <1>10, <2>1, GotoLocals, ReturnLocals
    DEF Claim, HasJob, HasCopy, HasApp, HasChange, Submitting
  <2> QED
    BY <1>10, <2>1, <2>2 DEF Claim, TypeInv, TypeOK, LocalsTyped
<1>11. ASSUME NEW g \in Gets, ReadClaim(g) PROVE TypeInv'
  <2>1. LocalsTyped'
    <3>1. CASE Return(g)
      BY <3>1, <1>0, ReturnLocals
    <3>2. CASE ~Return(g)
      BY <1>0, <1>11, <3>2
      DEF ReadClaim, TypeInv, TypeOK, LocalsTyped, LocalsSet,
          HasJob, HasCopy, HasApp, HasChange, Submitting
    <3> QED
      BY <3>1, <3>2
  <2> QED
    BY <1>11, <2>1 DEF ReadClaim, TypeInv, TypeOK, LocalsTyped
<1>12. ASSUME NEW g \in Gets, Submit(g) PROVE TypeInv'
  <2>1. g \in Requests /\ pc[g] = "submit" /\ app[g] \in Apps
    BY <1>0, <1>12 DEF Submit, TypeInv, LocalsSet, HasApp, Submitting
  <2>2. LocalsTyped'
    <3>1. CASE Goto(g, "release")
      BY <3>1, <2>1, <1>0, GotoLocals DEF HasJob, HasCopy, HasApp, HasChange, Submitting
    <3>2. CASE ~Goto(g, "release")
      BY <1>0, <1>12, <2>1, <3>2
      DEF Submit, TypeInv, TypeOK, LocalsTyped, LocalsSet,
          HasJob, HasCopy, HasApp, HasChange, Submitting
    <3> QED
      BY <3>1, <3>2
  <2> QED
    BY <1>12, <2>1, <2>2 DEF Submit, TypeInv, TypeOK, LocalsTyped, JobStates
<1>13. ASSUME NEW g \in Gets, StoreComputing(g) PROVE TypeInv'
  <2>1. g \in Requests /\ pc[g] = "store" /\ app[g] \in Apps /\ job[g] \in Jobs
    BY <1>0, <1>13 DEF StoreComputing, TypeInv, LocalsSet, HasApp, HasJob, Submitting
  <2>2. LocalsTyped'
    BY <1>0, <1>13, <2>1, GotoLocals, ReturnLocals
    DEF StoreComputing, HandoffError, HasJob, HasCopy, HasApp, HasChange, Submitting
  <2>3. [status |-> "computing", hash |-> app[g], start |-> clock,
         handle |-> TRUE, typed |-> FALSE, stamp |-> 0] \in Impact
    BY <2>1 DEF Impact, TypeInv, TypeOK
  <2>4. rec' \in [Jobs -> Impact \union {NoImpact}] /\ index' \subseteq Jobs /\ clock' \in Nat
    <3>1. CASE NewRecord(g)
      BY <3>1, <2>1, <2>3 DEF NewRecord, TypeInv, TypeOK
    <3>2. CASE UNCHANGED <<rec, index, clock>>
      BY <3>2 DEF TypeInv, TypeOK
    <3> QED
      BY <1>13, <3>1, <3>2 DEF StoreComputing
  <2>5. unhanded' \subseteq Apps
    BY <1>13, <2>1 DEF StoreComputing, HandoffError, TypeInv, TypeOK
  <2> QED
    BY <1>13, <2>2, <2>4, <2>5 DEF StoreComputing, TypeInv, TypeOK, LocalsTyped
<1>14. ASSUME NEW g \in Gets, Release(g) PROVE TypeInv'
  <2>1. LocalsTyped'
    BY <1>0, <1>14, ReturnLocals DEF Release
  <2> QED
    BY <1>14, <2>1 DEF Release, TypeInv, TypeOK, LocalsTyped
<1>15. ASSUME NEW d \in Deletes, CheckFailure(d) PROVE TypeInv'
  <2>1. LocalsTyped'
    BY <1>0, <1>15, ReturnLocals, GotoLocals
    DEF CheckFailure, TypeInv, LocalsSet, HasJob, HasCopy, HasApp, HasChange, Submitting
  <2> QED
    BY <1>15, <2>1 DEF CheckFailure, TypeInv, TypeOK, LocalsTyped
<1>16. ASSUME NEW d \in Deletes, DeleteFailure(d) PROVE TypeInv'
  <2>1. LocalsTyped'
    <3>1. CASE Return(d)
      BY <3>1, <1>0, ReturnLocals
    <3>2. CASE ~Return(d)
      BY <1>0, <1>16, <3>2
      DEF DeleteFailure, TypeInv, TypeOK, LocalsTyped, LocalsSet,
          HasJob, HasCopy, HasApp, HasChange, Submitting
    <3> QED
      BY <3>1, <3>2
  <2> QED
    BY <1>16, <2>1 DEF DeleteFailure, TypeInv, TypeOK, LocalsTyped
<1>17. ASSUME NEW a \in Apps, ClaimExpires(a) PROVE TypeInv'
  BY <1>17 DEF ClaimExpires, TypeInv, TypeOK, LocalsSet
<1>18. ASSUME NEW a \in Apps, Deploy(a) PROVE TypeInv'
  BY <1>18 DEF Deploy, TypeInv, TypeOK, LocalsSet
<1>19. ASSUME NEW j \in Jobs, RecordExpires(j) \/ LockoutPasses(j) PROVE TypeInv'
  BY <1>19 DEF RecordExpires, LockoutPasses, TypeInv, TypeOK, LocalsSet
<1>20. ASSUME NEW j \in Jobs, JobEnds(j) PROVE TypeInv'
  BY <1>20 DEF JobEnds, TypeInv, TypeOK, LocalsSet
<1>21. CASE IndexExpires
  BY <1>21 DEF IndexExpires, TypeInv, TypeOK, LocalsSet
<1>22. CASE UNCHANGED vars
  BY <1>22 DEF vars, TypeInv, TypeOK, LocalsSet
<1> QED
  BY <1>0, <1>1, <1>2, <1>3, <1>4, <1>5, <1>6, <1>7, <1>8, <1>9, <1>10, <1>11, <1>12,
     <1>13, <1>14, <1>15, <1>16, <1>17, <1>18, <1>19, <1>20, <1>21, <1>22
  DEF Next, GetStep, DeleteStep

\* Every variable keeps its type, and a request in the middle of a call has the
\* job, the record, the worker app and the outcome that call uses.
THEOREM TypeCorrect == Spec => []TypeOK
<1>1. TypeInv => TypeOK
  BY DEF TypeInv
<1> QED
  BY <1>1, InitTypeInv, TypeInvStep, PTL DEF Spec

(***************************************************************************)
(* The inductive invariant of the other properties.                        *)
(***************************************************************************)

\* A request that submits, and whose claim has not expired, holds the claim.
ClaimHeld ==
    \A g \in Gets : pc[g] \in Submitting /\ g \notin expired => claim[app[g]] = g

\* What requests carry from one call to the next is true of their job.
OutcomeTrue(outcome, state) ==
    /\ outcome = "ok" => state = "complete"
    /\ outcome = "error" => state = "failed"
    /\ outcome = "typed" => state \in {"complete", "spm"}

CarriedTruth ==
    \A p \in Requests :
        /\ pc[p] \in HasCopy => Truthful(copy[p], gw[job[p]])
        /\ pc[p] \in HasChange => OutcomeTrue(change[p], gw[job[p]])
        /\ pc[p] = "store" => gw[job[p]] # "absent"

\* A job has no record before it is accepted and handed over, nobody else knows
\* it until then, and a record that is gone never comes back.
RecordedOnce ==
    /\ \A j \in Jobs : gw[j] = "absent" =>
          rec[j] = NoImpact /\ removed[j] = "no" /\ \A p \in Requests : job[p] # j
    /\ \A p \in Requests : pc[p] = "store" =>
          /\ rec[job[p]] = NoImpact /\ removed[job[p]] = "no"
          /\ \A q \in Requests : job[q] = job[p] => q = p
    /\ \A j \in Jobs : removed[j] # "no" => rec[j] = NoImpact

\* The copy a DELETE checked is not newer than the record, so a record that
\* still equals it has not been written since the check.
CopyNotNewer ==
    \A p \in Requests :
        /\ pc[p] \in {"looked", "selected", "delete"} /\ rec[job[p]] # NoImpact =>
               copy[p].stamp <= rec[job[p]].stamp
        /\ pc[p] = "delete" =>
               /\ copy[p].status = "error"
               /\ rec[job[p]] = copy[p] => job[p] \notin lockout

IInv ==
    /\ TypeInv
    /\ ClaimHeld
    /\ UnhandedJobKeepsItsClaim
    /\ StoredOutcomeIsTheJobs
    /\ CarriedTruth
    /\ RecordedOnce
    /\ CopyNotNewer

\* The steps of one request. A quiet one touches no claim.
QuietStep(p) ==
    \/ Lookup(p) \/ Raise(p) \/ Crash(p) \/ Refresh(p)
    \/ Replay(p) \/ AnswerFailure(p) \/ Poll(p) \/ UpdateRead(p) \/ UpdateWrite(p)
    \/ ResolveApp(p) \/ ReadClaim(p) \/ CheckFailure(p) \/ DeleteFailure(p)

SubmissionStep(g) == Claim(g) \/ Submit(g) \/ StoreComputing(g) \/ Release(g)

Environment ==
    \/ \E a \in Apps : ClaimExpires(a) \/ Deploy(a)
    \/ \E j \in Jobs : RecordExpires(j) \/ LockoutPasses(j) \/ JobEnds(j)
    \/ IndexExpires

\* Every step is a quiet or a submission step of one request, or the environment's.
LEMMA NextSteps ==
  ASSUME Next
  PROVE  \/ \E p \in Requests : QuietStep(p)
         \/ \E g \in Gets : SubmissionStep(g)
         \/ Environment
  BY DEF Next, GetStep, DeleteStep, QuietStep, SubmissionStep, Environment, Requests

Untouched(q) ==
    /\ pc'[q] = pc[q] /\ job'[q] = job[q] /\ copy'[q] = copy[q]
    /\ app'[q] = app[q] /\ change'[q] = change[q]

\* A step of one request leaves the variables of the others alone.
LEMMA OthersUntouched ==
  ASSUME TypeInv, NEW p \in Requests, QuietStep(p) \/ SubmissionStep(p),
         NEW q \in Requests, q # p
  PROVE  Untouched(q)
<1> USE DEF TypeInv, TypeOK, Untouched
<1>1. CASE \/ Return(p) \/ \E next \in PC : Goto(p, next)
           \/ \E j, a, next : Select(p, j, a, next)
           \/ \E a, seen : SelectNothing(p, a, seen)
           \/ \E outcome : StartUpdate(p, outcome)
  BY <1>1 DEF Return, Goto, Select, SelectNothing, StartUpdate
<1>2. CASE Lookup(p) \/ Raise(p) \/ Crash(p)
  BY <1>1, <1>2 DEF Lookup, LookupOutage, Raise, Crash
<1>3. CASE Refresh(p)
  BY <1>1, <1>3 DEF Refresh, LookupOutage, PC
<1>4. CASE Replay(p) \/ AnswerFailure(p) \/ Poll(p)
  BY <1>1, <1>4 DEF Replay, AnswerFailure, Poll
<1>5. CASE UpdateRead(p) \/ UpdateWrite(p)
  BY <1>1, <1>5 DEF UpdateRead, UpdateWrite
<1>6. CASE ResolveApp(p) \/ ReadClaim(p)
  BY <1>1, <1>6 DEF ResolveApp, ReadClaim
<1>7. CASE CheckFailure(p) \/ DeleteFailure(p)
  BY <1>1, <1>7 DEF CheckFailure, DeleteFailure, PC
<1>8. CASE Claim(p) \/ Submit(p)
  BY <1>1, <1>8 DEF Claim, Submit, PC
<1>9. CASE StoreComputing(p) \/ Release(p)
  BY <1>1, <1>9 DEF StoreComputing, HandoffError, Release, PC
<1> QED
  BY <1>2, <1>3, <1>4, <1>5, <1>6, <1>7, <1>8, <1>9 DEF QuietStep, SubmissionStep

\* Nobody starts to submit in a quiet step.
LEMMA QuietNotSubmitting ==
  ASSUME TypeInv, NEW p \in Requests, QuietStep(p)
  PROVE  pc'[p] \notin Submitting /\ UNCHANGED <<claim, expired, unhanded>>
<1> USE DEF TypeInv, TypeOK, Submitting, redis
<1>1. Return(p) => pc'[p] \notin Submitting
  BY DEF Return
<1>2. CASE Lookup(p) \/ Raise(p) \/ Crash(p)
  BY <1>1, <1>2 DEF Lookup, LookupOutage, Raise, Crash, Select, SelectNothing
<1>3. CASE Refresh(p)
  BY <1>1, <1>3 DEF Refresh, LookupOutage, Select, SelectNothing, Goto
<1>4. CASE Replay(p) \/ AnswerFailure(p) \/ Poll(p)
  BY <1>1, <1>4 DEF Replay, AnswerFailure, Poll, StartUpdate
<1>5. CASE UpdateRead(p) \/ UpdateWrite(p)
  BY <1>1, <1>5 DEF UpdateRead, UpdateWrite
<1>6. CASE ResolveApp(p) \/ ReadClaim(p)
  BY <1>1, <1>6 DEF ResolveApp, ReadClaim, observed
<1>7. CASE CheckFailure(p) \/ DeleteFailure(p)
  BY <1>1, <1>7 DEF CheckFailure, DeleteFailure, Goto
<1> QED
  BY <1>2, <1>3, <1>4, <1>5, <1>6, <1>7 DEF QuietStep

ClaimInv == ClaimHeld /\ UnhandedJobKeepsItsClaim

\* Claims change hands only through SET NX, the owner's release and expiry, so a
\* submitter keeps its claim and a failed handoff's claim stays with its owner.
LEMMA ClaimInvStep == TypeInv /\ ClaimInv /\ [Next]_vars => ClaimInv'
<1> SUFFICES ASSUME TypeInv, ClaimInv, [Next]_vars
             PROVE  ClaimInv'
  OBVIOUS
<1>0. Gets \subseteq Requests /\ NoOne \notin Gets
  BY ConstantsAssumption DEF Requests
<1> USE DEF ClaimInv, ClaimHeld, UnhandedJobKeepsItsClaim, TypeInv, TypeOK
<1>1. ASSUME NEW p \in Requests, QuietStep(p) PROVE ClaimInv'
  <2>1. pc'[p] \notin Submitting /\ UNCHANGED <<claim, expired, unhanded>>
    BY <1>1, QuietNotSubmitting
  <2>2. \A q \in Requests : q # p => pc'[q] = pc[q] /\ app'[q] = app[q]
    BY <1>1, OthersUntouched DEF Untouched
  <2> QED
    BY <1>0, <2>1, <2>2
<1>2. ASSUME NEW g \in Gets, SubmissionStep(g) PROVE ClaimInv'
  <2>0. g \in Requests /\ pc[g] \in HasApp /\ app[g] \in Apps
    BY <1>0, <1>2 DEF SubmissionStep, Claim, Submit, StoreComputing, Release,
                      HasApp, Submitting, LocalsSet
  <2>1. \A q \in Requests : q # g => pc'[q] = pc[q] /\ app'[q] = app[q]
    BY <1>2, <2>0, OthersUntouched DEF Untouched
  <2>2. CASE Claim(g)
    <3>1. pc[g] \notin Submitting /\ unhanded' = unhanded
      BY <2>2 DEF Claim, Submitting
    <3>2. CASE claim[app[g]] = NoOne
      <4>1. /\ claim' = [claim EXCEPT ![app[g]] = g] /\ expired' = expired \ {g}
            /\ pc'[g] = "idle" \/ (pc'[g] = "submit" /\ app'[g] = app[g])
        BY <2>0, <2>2, <3>2 DEF Claim, Goto, Return
      <4> QED
        BY <1>0, <2>0, <2>1, <3>1, <3>2, <4>1 DEF Submitting
    <3>3. CASE claim[app[g]] # NoOne
      <4>1. claim' = claim /\ expired' = expired /\ pc'[g] = "readclaim"
        BY <2>0, <2>2, <3>3 DEF Claim, Goto
      <4> QED
        BY <1>0, <2>1, <3>1, <4>1 DEF Submitting
    <3> QED
      BY <3>2, <3>3
  <2>3. CASE Submit(g)
    <3>1. pc[g] \in Submitting /\ app' = app /\ UNCHANGED <<claim, expired, unhanded>>
      BY <2>3 DEF Submit, Goto, redis, Submitting
    <3> QED
      BY <1>0, <2>1, <3>1
  <2>4. CASE StoreComputing(g)
    <3>1. pc[g] \in Submitting /\ UNCHANGED <<claim, expired>>
      BY <2>4 DEF StoreComputing, Submitting
    <3>2. CASE Goto(g, "release") /\ UNCHANGED unhanded
      BY <1>0, <2>1, <3>1, <3>2 DEF Goto
    <3>3. CASE HandoffError(g)
      <4>1. pc'[g] \notin Submitting
        BY <2>0, <3>3 DEF HandoffError, Return, Submitting
      <4>2. unhanded' = unhanded \/ (unhanded' = unhanded \union {app[g]} /\ claim[app[g]] = g)
        BY <3>3 DEF HandoffError
      <4> QED
        BY <1>0, <2>0, <2>1, <3>1, <4>1, <4>2
    <3> QED
      BY <2>4, <3>2, <3>3 DEF StoreComputing
  <2>5. CASE Release(g)
    <3>1. pc[g] \in Submitting /\ pc'[g] \notin Submitting /\ UNCHANGED <<expired, unhanded>>
      BY <2>0, <2>5 DEF Release, Return, Submitting
    <3>2. claim' = claim \/
          claim' = [claim EXCEPT ![app[g]] = IF claim[app[g]] = g THEN NoOne
                                             ELSE claim[app[g]]]
      BY <2>5 DEF Release
    <3>3. \A a \in Apps : claim'[a] = claim[a] \/ (a = app[g] /\ claim[a] = g)
      BY <2>0, <3>2
    <3>4. ClaimHeld'
      BY <1>0, <2>1, <3>1, <3>3 DEF LocalsSet, HasApp
    <3>5. UnhandedJobKeepsItsClaim'
      BY <1>0, <2>1, <3>1, <3>3
    <3> QED
      BY <3>4, <3>5
  <2> QED
    BY <1>2, <2>2, <2>3, <2>4, <2>5 DEF SubmissionStep
<1>3. CASE Environment
  <2>1. ASSUME NEW a \in Apps, ClaimExpires(a) PROVE ClaimInv'
    BY <1>0, <2>1 DEF ClaimExpires, local
  <2>2. CASE UNCHANGED <<claim, expired, unhanded, pc, app>>
    BY <2>2
  <2> QED
    BY <1>3, <2>1, <2>2 DEF Environment, Deploy, RecordExpires, LockoutPasses, JobEnds,
                            IndexExpires, local, redis, observed
<1>4. CASE UNCHANGED vars
  BY <1>4 DEF vars, redis, local, observed
<1> QED
  BY <1>1, <1>2, <1>3, <1>4, NextSteps

\* What one step may do to the state of a job, and to its record.
GatewayMoves(s, t) ==
    \/ t = s
    \/ s = "absent" /\ t = "running"
    \/ s = "running" /\ t \in {"complete", "failed", "spm"}

RecordMoves(j) ==
    \/ rec'[j] = rec[j]
    \/ rec'[j] = NoImpact
    \/ \E g \in Gets :
          /\ pc[g] = "store" /\ pc'[g] # "store" /\ job[g] = j
          /\ rec'[j] = [status |-> "computing", hash |-> app[g], start |-> clock,
                        handle |-> TRUE, typed |-> FALSE, stamp |-> 0]
    \/ \E g \in Requests :
          /\ pc[g] = "write" /\ job[g] = j /\ rec[j] # NoImpact
          /\ rec'[j] = Changed(copy[g], change[g], rec[j].stamp + 1)

\* Only a submission reaches a gateway job.
LEMMA QuietLeavesGateway ==
  ASSUME NEW p, QuietStep(p)
  PROVE  UNCHANGED gw
  BY DEF QuietStep, Lookup, Raise, Crash, Refresh, Replay, AnswerFailure, Poll, UpdateRead,
         UpdateWrite, ResolveApp, ReadClaim, CheckFailure, DeleteFailure, gateway

\* A gateway job only moves from absent to running to one end.
LEMMA GatewayMovesStep ==
  ASSUME TypeInv, [Next]_vars, NEW j \in Jobs
  PROVE  GatewayMoves(gw[j], gw'[j])
<1> USE DEF TypeInv, TypeOK, GatewayMoves, gateway
<1>1. ASSUME NEW p \in Requests, QuietStep(p) PROVE GatewayMoves(gw[j], gw'[j])
  BY <1>1, QuietLeavesGateway
<1>2. ASSUME NEW g \in Gets, SubmissionStep(g) PROVE GatewayMoves(gw[j], gw'[j])
  BY <1>2 DEF SubmissionStep, Claim, Submit, StoreComputing, Release
<1>3. CASE Environment
  BY <1>3 DEF Environment, ClaimExpires, Deploy, RecordExpires, LockoutPasses, JobEnds,
              IndexExpires, JobStates
<1>4. CASE UNCHANGED vars
  BY <1>4 DEF vars
<1> QED
  BY <1>1, <1>2, <1>3, <1>4, NextSteps

\* A record is only created by the GET that submitted its job, rewritten by a
\* poller of that job, or removed.
LEMMA RecordMovesStep ==
  ASSUME TypeInv, [Next]_vars, NEW j \in Jobs
  PROVE  RecordMoves(j)
<1> USE DEF TypeInv, TypeOK, redis
<1>1. ASSUME NEW p \in Requests, QuietStep(p) PROVE RecordMoves(j)
  <2>1. CASE UpdateWrite(p)
    BY <2>1 DEF UpdateWrite, RecordMoves
  <2>2. CASE DeleteFailure(p)
    BY <2>2 DEF DeleteFailure, RecordMoves
  <2>3. CASE UNCHANGED rec
    BY <2>3 DEF RecordMoves
  <2> QED
    BY <1>1, <2>1, <2>2, <2>3
    DEF QuietStep, Lookup, Raise, Crash, Refresh, Replay, AnswerFailure, Poll, UpdateRead,
        ResolveApp, ReadClaim, CheckFailure
<1>2. ASSUME NEW g \in Gets, SubmissionStep(g) PROVE RecordMoves(j)
  <2>1. CASE StoreComputing(g)
    <3>1. pc[g] = "store" /\ pc'[g] # "store"
      BY <2>1 DEF StoreComputing, Goto, HandoffError, Return, Requests
    <3> QED
      BY <2>1, <3>1 DEF StoreComputing, NewRecord, RecordMoves
  <2>2. CASE UNCHANGED rec
    BY <2>2 DEF RecordMoves
  <2> QED
    BY <1>2, <2>1, <2>2 DEF SubmissionStep, Claim, Submit, Release
<1>3. CASE Environment
  BY <1>3 DEF Environment, ClaimExpires, Deploy, RecordExpires, LockoutPasses, JobEnds,
              IndexExpires, RecordMoves
<1>4. CASE UNCHANGED vars
  BY <1>4 DEF vars, RecordMoves
<1> QED
  BY <1>1, <1>2, <1>3, <1>4, NextSteps

\* What is true of a job stays true of it.
LEMMA TruthfulStable ==
  ASSUME NEW impact \in Impact \union {NoImpact}, NEW s, NEW t,
         Truthful(impact, s), GatewayMoves(s, t)
  PROVE  Truthful(impact, t)
  BY DEF Truthful, GatewayMoves, Impact, NoImpact

\* An outcome that is true of a job when it is polled is true when it is stored.
LEMMA OutcomeStable ==
  ASSUME NEW outcome, NEW s, NEW t, OutcomeTrue(outcome, s), GatewayMoves(s, t),
         outcome \in Changes \ {"none"}
  PROVE  OutcomeTrue(outcome, t)
  BY DEF OutcomeTrue, GatewayMoves, Changes

\* Writing a true outcome leaves a true record.
LEMMA ChangedTruthful ==
  ASSUME NEW impact \in Impact, NEW outcome \in Changes \ {"none"}, NEW n \in Nat, NEW s,
         Truthful(impact, s), OutcomeTrue(outcome, s)
  PROVE  Truthful(Changed(impact, outcome, n), s)
<1>1. impact # NoImpact /\ s # "absent"
  BY DEF Truthful, Impact, NoImpact
<1>2. CASE outcome = "ok"
  <2>1. Changed(impact, outcome, n).status = "ok"
    BY <1>2 DEF Changed, Impact
  <2> QED
    BY <1>1, <1>2, <2>1 DEF Truthful, OutcomeTrue
<1>3. CASE outcome = "error"
  <2>1. /\ Changed(impact, outcome, n).status = "error"
        /\ Changed(impact, outcome, n).typed = FALSE
    BY <1>3 DEF Changed, Impact
  <2> QED
    BY <1>1, <1>3, <2>1 DEF Truthful, OutcomeTrue
<1>4. CASE outcome = "typed"
  <2>1. /\ Changed(impact, outcome, n).status = "error"
        /\ Changed(impact, outcome, n).typed = TRUE
    BY <1>4 DEF Changed, Impact
  <2> QED
    BY <1>1, <1>4, <2>1 DEF Truthful, OutcomeTrue
<1> QED
  BY <1>2, <1>3, <1>4 DEF Changes

\* What the records say, and what the requests are about to make them say.
TruthInv == StoredOutcomeIsTheJobs /\ CarriedTruth

\* What one request carries, in the current state.
CarriesTruth(p) ==
    /\ pc[p] \in HasCopy => Truthful(copy[p], gw[job[p]])
    /\ pc[p] \in HasChange => OutcomeTrue(change[p], gw[job[p]])
    /\ pc[p] = "store" => gw[job[p]] # "absent"

\* A quiet step of p takes what it carries from a record or from the gateway.
LEMMA QuietCarriesTruth ==
  ASSUME TypeInv, TruthInv, NEW p \in Requests, QuietStep(p)
  PROVE  CarriesTruth(p)'
<1>0. UNCHANGED gw
  BY QuietLeavesGateway
<1> USE DEF TypeInv, TypeOK, CarriesTruth, HasCopy, HasChange
<1>1. Return(p) => CarriesTruth(p)'
  BY DEF Return
<1>2. ASSUME NEW j \in Found, NEW a, NEW next \in {"looked", "selected"}, Select(p, j, a, next)
      PROVE  CarriesTruth(p)'
  <2>1. j \in Jobs /\ Truthful(rec[j], gw[j])
    BY DEF Found, TruthInv, StoredOutcomeIsTheJobs
  <2> QED
    BY <1>0, <1>2, <2>1 DEF Select
<1>3. ASSUME NEW a, NEW seen, SelectNothing(p, a, seen) PROVE CarriesTruth(p)'
  BY <1>1, <1>3 DEF SelectNothing
<1>4. CASE Lookup(p)
  BY <1>2, <1>3, <1>4 DEF Lookup, LookupOutage, Newest
<1>5. CASE Raise(p) \/ Crash(p) \/ AnswerFailure(p) \/ UpdateWrite(p)
  BY <1>1, <1>5 DEF Raise, Crash, AnswerFailure, UpdateWrite
<1>6. CASE Refresh(p)
  <2>1. pc[p] = "looked" /\ Truthful(copy[p], gw[job[p]])
    BY <1>6 DEF Refresh, TruthInv, CarriedTruth
  <2>2. CASE pc' = [pc EXCEPT ![p] = "selected"] /\ UNCHANGED <<job, copy>>
    BY <1>0, <2>1, <2>2
  <2> QED
    BY <1>2, <1>3, <1>6, <2>2 DEF Refresh, LookupOutage, Newest, Matching, Goto
<1>7. CASE Replay(p)
  <2>1. CASE StartUpdate(p, "typed")
    <3>1. Truthful(copy[p], gw[job[p]]) /\ copy[p].status = "ok"
      BY <1>7 DEF Replay, TruthInv, CarriedTruth
    <3>2. OutcomeTrue("typed", gw[job[p]])
      BY <3>1 DEF Truthful, OutcomeTrue
    <3> QED
      BY <1>0, <2>1, <3>1, <3>2 DEF StartUpdate
  <2> QED
    BY <1>1, <1>7, <2>1 DEF Replay
<1>8. CASE Poll(p)
  <2>1. ASSUME NEW outcome \in PollOutcomes(gw[job[p]]), StartUpdate(p, outcome)
        PROVE  CarriesTruth(p)'
    <3>1. Truthful(copy[p], gw[job[p]])
      BY <1>8 DEF Poll, TruthInv, CarriedTruth
    <3>2. OutcomeTrue(outcome, gw[job[p]])
      BY <2>1 DEF PollOutcomes, OutcomeTrue
    <3> QED
      BY <1>0, <2>1, <3>1, <3>2 DEF StartUpdate
  <2> QED
    BY <1>1, <1>8, <2>1 DEF Poll
<1>9. CASE UpdateRead(p)
  <2>1. /\ job[p] \in Jobs /\ Truthful(rec[job[p]], gw[job[p]])
        /\ OutcomeTrue(change[p], gw[job[p]])
    BY <1>9 DEF UpdateRead, LocalsSet, HasJob, TruthInv, StoredOutcomeIsTheJobs, CarriedTruth
  <2> QED
    BY <1>0, <1>1, <1>9, <2>1 DEF UpdateRead
<1>10. CASE ResolveApp(p) \/ ReadClaim(p)
  BY <1>1, <1>10 DEF ResolveApp, ReadClaim
<1>11. CASE CheckFailure(p)
  <2>1. Truthful(copy[p], gw[job[p]])
    BY <1>11 DEF CheckFailure, TruthInv, CarriedTruth
  <2> QED
    BY <1>0, <1>1, <1>11, <2>1 DEF CheckFailure, Goto
<1>12. CASE DeleteFailure(p)
  BY <1>1, <1>12 DEF DeleteFailure
<1> QED
  BY <1>4, <1>5, <1>6, <1>7, <1>8, <1>9, <1>10, <1>11, <1>12 DEF QuietStep

\* No step stores, or picks up to store later, an outcome that is not the job's
\* own: gateway jobs never change their end, and writes go to the polled job.
LEMMA TruthInvStep == TypeInv /\ TruthInv /\ [Next]_vars => TruthInv'
<1> SUFFICES ASSUME TypeInv, TruthInv, [Next]_vars
             PROVE  TruthInv'
  OBVIOUS
<1>0. Gets \subseteq Requests
  BY DEF Requests
<1> USE DEF TypeInv, TypeOK
<1>1. \A j \in Jobs : GatewayMoves(gw[j], gw'[j])
  BY GatewayMovesStep
<1>2. StoredOutcomeIsTheJobs'
  <2> SUFFICES ASSUME NEW j \in Jobs PROVE Truthful(rec'[j], gw'[j])
    BY DEF StoredOutcomeIsTheJobs
  <2>1. RecordMoves(j) /\ GatewayMoves(gw[j], gw'[j]) /\ Truthful(rec[j], gw[j])
    BY <1>1, RecordMovesStep DEF TruthInv, StoredOutcomeIsTheJobs
  <2>2. CASE rec'[j] = rec[j]
    BY <2>1, <2>2, TruthfulStable
  <2>3. CASE rec'[j] = NoImpact
    BY <2>3 DEF Truthful, NoImpact
  <2>4. ASSUME NEW g \in Gets, pc[g] = "store", job[g] = j,
               rec'[j] = [status |-> "computing", hash |-> app[g], start |-> clock,
                          handle |-> TRUE, typed |-> FALSE, stamp |-> 0]
        PROVE  Truthful(rec'[j], gw'[j])
    <3>1. gw'[j] # "absent"
      BY <1>0, <2>1, <2>4 DEF GatewayMoves, TruthInv, CarriedTruth
    <3> QED
      BY <2>4, <3>1 DEF Truthful
  <2>5. ASSUME NEW g \in Requests, pc[g] = "write", job[g] = j, rec[j] # NoImpact,
               rec'[j] = Changed(copy[g], change[g], rec[j].stamp + 1)
        PROVE  Truthful(rec'[j], gw'[j])
    <3>1. /\ copy[g] \in Impact /\ change[g] \in Changes \ {"none"}
          /\ rec[j].stamp + 1 \in Nat
      BY <2>5 DEF LocalsSet, HasCopy, HasChange, Impact
    <3>2. Truthful(copy[g], gw[j]) /\ OutcomeTrue(change[g], gw[j])
      BY <2>5 DEF TruthInv, CarriedTruth, HasCopy, HasChange
    <3>3. rec'[j] \in Impact /\ Truthful(rec'[j], gw[j])
      BY <2>5, <3>1, <3>2, ChangedTruthful, ChangedType
    <3> QED
      BY <2>1, <3>3, TruthfulStable
  <2> QED
    BY <2>1, <2>2, <2>3, <2>4, <2>5 DEF RecordMoves
<1>3. ASSUME NEW p \in Requests, Untouched(p) PROVE CarriesTruth(p)'
  <2>1. pc[p] \in HasCopy => copy[p] \in Impact /\ job[p] \in Jobs
    BY DEF LocalsSet, HasCopy, HasJob
  <2>2. pc[p] \in HasChange => change[p] \in Changes \ {"none"} /\ job[p] \in Jobs
    BY DEF LocalsSet, HasChange, HasJob
  <2>3. pc[p] = "store" => job[p] \in Jobs
    BY DEF LocalsSet, HasJob
  <2>4. CarriesTruth(p)
    BY DEF TruthInv, CarriedTruth, CarriesTruth
  <2>5. pc[p] \in HasCopy => Truthful(copy[p], gw'[job[p]])
    BY <1>1, <2>1, <2>4, TruthfulStable DEF CarriesTruth
  <2>6. pc[p] \in HasChange => OutcomeTrue(change[p], gw'[job[p]])
    BY <1>1, <2>2, <2>4, OutcomeStable DEF CarriesTruth
  <2>7. pc[p] = "store" => gw'[job[p]] # "absent"
    BY <1>1, <2>3, <2>4 DEF CarriesTruth, GatewayMoves
  <2> QED
    BY <1>3, <2>5, <2>6, <2>7 DEF Untouched, CarriesTruth
<1>4. ASSUME NEW p \in Requests PROVE CarriesTruth(p)'
  <2>1. ASSUME NEW q \in Requests, QuietStep(q) PROVE CarriesTruth(p)'
    BY <1>3, <2>1, OthersUntouched, QuietCarriesTruth
  <2>2. ASSUME NEW g \in Gets, SubmissionStep(g) PROVE CarriesTruth(p)'
    <3>1. CASE p # g
      BY <1>0, <1>3, <2>2, <3>1, OthersUntouched
    <3>2. CASE p = g
      BY <1>0, <2>2, <3>2
      DEF SubmissionStep, Claim, Submit, StoreComputing, HandoffError, Release, Goto, Return,
          CarriesTruth, HasCopy, HasChange
    <3> QED
      BY <3>1, <3>2
  <2>3. CASE Environment \/ UNCHANGED vars
    <3>1. Untouched(p)
      BY <2>3 DEF Environment, ClaimExpires, Deploy, RecordExpires, LockoutPasses, JobEnds,
                  IndexExpires, local, vars, Untouched
    <3> QED
      BY <1>3, <3>1
  <2> QED
    BY <2>1, <2>2, <2>3, NextSteps
<1>5. CarriedTruth'
  BY <1>4 DEF CarriedTruth, CarriesTruth
<1> QED
  BY <1>2, <1>5 DEF TruthInv

(***************************************************************************)
(* A job is recorded at most once.                                         *)
(***************************************************************************)

\* What one step may do to the job a request knows and to a removal.
JobMoves(p) ==
    \/ job'[p] = job[p]
    \/ job'[p] = NoJob
    \/ job'[p] \in Found
    \/ gw[job'[p]] = "absent" /\ gw'[job'[p]] = "running"

StoreMoves(p) ==
    \/ pc[p] = "store" /\ job'[p] = job[p]
    \/ /\ job'[p] \in Jobs /\ gw[job'[p]] = "absent"
       /\ \A q \in Requests : q # p => job'[q] = job[q]

RemovedMoves(j) ==
    \/ removed'[j] = removed[j]
    \/ rec[j] # NoImpact /\ rec'[j] = NoImpact

\* A request changes its job only by selecting a record or submitting a job.
LEMMA LocalMovesStep ==
  ASSUME TypeInv, [Next]_vars, NEW p \in Requests
  PROVE  JobMoves(p) /\ (pc'[p] = "store" => StoreMoves(p))
<1>0. Gets \subseteq Requests
  BY DEF Requests
<1> USE DEF TypeInv, TypeOK
<1>1. ASSUME Untouched(p) PROVE JobMoves(p) /\ (pc'[p] = "store" => StoreMoves(p))
  BY <1>1 DEF Untouched, JobMoves, StoreMoves
<1>2. CASE QuietStep(p)
  <2>1. pc'[p] # "store"
    BY <1>2, QuietNotSubmitting DEF Submitting
  <2>2. Return(p) => job'[p] = NoJob
    BY DEF Return
  <2>3. ASSUME NEW a, NEW seen, SelectNothing(p, a, seen) PROVE job'[p] = NoJob
    BY <2>2, <2>3 DEF SelectNothing
  <2>4. CASE Lookup(p) \/ Raise(p) \/ Crash(p)
    BY <2>1, <2>2, <2>3, <2>4 DEF Lookup, LookupOutage, Raise, Crash, Select, Newest, JobMoves
  <2>5. CASE Refresh(p)
    BY <2>1, <2>3, <2>5 DEF Refresh, LookupOutage, Select, Goto, Newest, Matching, JobMoves
  <2>6. CASE Replay(p) \/ AnswerFailure(p) \/ Poll(p) \/ UpdateRead(p) \/ UpdateWrite(p)
    BY <2>1, <2>2, <2>6 DEF Replay, AnswerFailure, Poll, UpdateRead, UpdateWrite, StartUpdate, JobMoves
  <2>7. CASE ResolveApp(p) \/ ReadClaim(p) \/ CheckFailure(p) \/ DeleteFailure(p)
    BY <2>1, <2>2, <2>7 DEF ResolveApp, ReadClaim, CheckFailure, DeleteFailure, Goto, JobMoves
  <2> QED
    BY <1>2, <2>1, <2>4, <2>5, <2>6, <2>7 DEF QuietStep
<1>3. CASE SubmissionStep(p)
  <2>1. CASE Submit(p)
    <3>1. CASE job' = job /\ pc'[p] = "release"
      BY <3>1 DEF JobMoves
    <3>2. ASSUME NEW j \in Jobs, gw[j] = "absent", gw' = [gw EXCEPT ![j] = "running"],
                 job' = [job EXCEPT ![p] = j]
          PROVE  JobMoves(p) /\ StoreMoves(p)
      BY <3>2 DEF JobMoves, StoreMoves
    <3> QED
      BY <2>1, <3>1, <3>2 DEF Submit, Goto
  <2>2. CASE Claim(p) \/ StoreComputing(p) \/ Release(p)
    BY <2>2 DEF Claim, StoreComputing, HandoffError, Release, Goto, Return, JobMoves
  <2> QED
    BY <1>3, <2>1, <2>2 DEF SubmissionStep
<1>4. ASSUME NEW q \in Requests, q # p, QuietStep(q) \/ SubmissionStep(q)
      PROVE  Untouched(p)
  BY <1>4, OthersUntouched
<1>5. CASE Environment \/ UNCHANGED vars
  BY <1>1, <1>5 DEF Environment, ClaimExpires, Deploy, RecordExpires, LockoutPasses, JobEnds,
                    IndexExpires, local, vars, Untouched
<1> QED
  BY <1>0, <1>1, <1>2, <1>3, <1>4, <1>5, NextSteps

\* A record is noted as removed exactly when it leaves Redis.
LEMMA RemovedMovesStep ==
  ASSUME TypeInv, [Next]_vars, NEW j \in Jobs
  PROVE  RemovedMoves(j)
<1> USE DEF TypeInv, TypeOK, observed
<1>1. ASSUME NEW p \in Requests, QuietStep(p) PROVE RemovedMoves(j)
  <2>1. CASE DeleteFailure(p)
    <3>1. job[p] \in Jobs /\ copy[p] \in Impact
      BY <2>1 DEF DeleteFailure, LocalsSet, HasJob, HasCopy
    <3>2. copy[p] # NoImpact
      BY <3>1 DEF Impact, NoImpact
    <3> QED
      BY <2>1, <3>1, <3>2 DEF DeleteFailure, RemovedMoves
  <2>2. CASE UNCHANGED removed
    BY <2>2 DEF RemovedMoves
  <2> QED
    BY <1>1, <2>1, <2>2
    DEF QuietStep, Lookup, Raise, Crash, Refresh, Replay, AnswerFailure, Poll, UpdateRead,
        UpdateWrite, ResolveApp, ReadClaim, CheckFailure
<1>2. ASSUME NEW g \in Gets, SubmissionStep(g) PROVE RemovedMoves(j)
  BY <1>2 DEF SubmissionStep, Claim, Submit, StoreComputing, Release, RemovedMoves
<1>3. CASE Environment
  BY <1>3 DEF Environment, ClaimExpires, Deploy, RecordExpires, LockoutPasses, JobEnds,
              IndexExpires, RemovedMoves
<1>4. CASE UNCHANGED vars
  BY <1>4 DEF vars, RemovedMoves
<1> QED
  BY <1>1, <1>2, <1>3, <1>4, NextSteps

\* Each job is handed to one submitter, whose store is the only step that creates
\* its record, and a removed record is never created again (SET XX).
LEMMA RecordedOnceStep ==
  TypeInv /\ TruthInv /\ RecordedOnce /\ [Next]_vars => RecordedOnce'
<1> SUFFICES ASSUME TypeInv, TruthInv, RecordedOnce, [Next]_vars
             PROVE  RecordedOnce'
  OBVIOUS
<1>0. NoJob \notin Jobs /\ Gets \subseteq Requests
  BY ConstantsAssumption DEF Requests
<1> USE DEF TypeInv, TypeOK
<1>1. \A j \in Jobs : GatewayMoves(gw[j], gw'[j]) /\ RecordMoves(j) /\ RemovedMoves(j)
  BY GatewayMovesStep, RecordMovesStep, RemovedMovesStep
<1>2. \A p \in Requests : JobMoves(p) /\ (pc'[p] = "store" => StoreMoves(p))
  BY LocalMovesStep
<1>3. \A p \in Requests : pc[p] = "store" => job[p] \in Jobs /\ gw[job[p]] # "absent"
  BY DEF LocalsSet, HasJob, TruthInv, CarriedTruth
<1>4. ASSUME NEW j \in Jobs, rec[j] = NoImpact,
             \A g \in Gets : pc[g] = "store" /\ job[g] = j => pc'[g] = "store"
      PROVE  rec'[j] = NoImpact
  <2>1. RecordMoves(j)
    BY <1>1
  <2> QED
    BY <1>4, <2>1 DEF RecordMoves
<1>5. ASSUME NEW j \in Jobs, gw[j] = "absent" PROVE rec'[j] = NoImpact /\ removed'[j] = "no"
  <2>1. rec[j] = NoImpact /\ removed[j] = "no"
    BY <1>5 DEF RecordedOnce
  <2> QED
    BY <1>0, <1>1, <1>3, <1>4, <1>5, <2>1 DEF RemovedMoves
<1>6. ASSUME NEW j \in Jobs, gw'[j] = "absent", NEW p \in Requests PROVE job'[p] # j
  BY <1>0, <1>1, <1>2, <1>6 DEF GatewayMoves, JobMoves, Found, RecordedOnce
<1>7. ASSUME NEW p \in Requests, pc'[p] = "store"
      PROVE  /\ rec'[job'[p]] = NoImpact /\ removed'[job'[p]] = "no"
             /\ \A q \in Requests : job'[q] = job'[p] => q = p
  <2>1. CASE pc[p] = "store" /\ job'[p] = job[p]
    <3>1. job[p] \in Jobs /\ rec[job[p]] = NoImpact /\ removed[job[p]] = "no"
      BY <1>3, <2>1 DEF RecordedOnce
    <3>2. rec'[job[p]] = NoImpact
      <4>1. \A g \in Gets : pc[g] = "store" /\ job[g] = job[p] => g = p
        BY <1>0, <2>1 DEF RecordedOnce
      <4> QED
        BY <1>4, <1>7, <3>1, <4>1
    <3>3. removed'[job[p]] = "no"
      BY <1>1, <3>1 DEF RemovedMoves
    <3>4. ASSUME NEW q \in Requests, job'[q] = job[p] PROVE q = p
      BY <1>0, <1>2, <1>3, <2>1, <3>1, <3>4 DEF JobMoves, Found, RecordedOnce
    <3> QED
      BY <2>1, <3>2, <3>3, <3>4
  <2>2. CASE /\ job'[p] \in Jobs /\ gw[job'[p]] = "absent"
             /\ \A q \in Requests : q # p => job'[q] = job[q]
    BY <1>5, <2>2 DEF RecordedOnce
  <2> QED
    BY <1>2, <1>7, <2>1, <2>2 DEF StoreMoves
<1>8. ASSUME NEW j \in Jobs, removed'[j] # "no" PROVE rec'[j] = NoImpact
  <2>1. CASE removed'[j] = removed[j]
    <3>1. rec[j] = NoImpact /\ \A g \in Gets : pc[g] = "store" => job[g] # j
      BY <1>0, <1>8, <2>1 DEF RecordedOnce
    <3> QED
      BY <1>4, <3>1
  <2> QED
    BY <1>1, <2>1 DEF RemovedMoves
<1>9. \A j \in Jobs : gw'[j] = "absent" => gw[j] = "absent"
  BY <1>1 DEF GatewayMoves
<1> QED
  BY <1>6, <1>7, <1>8, <1>9, <1>5 DEF RecordedOnce

(***************************************************************************)
(* A DELETE acts on the failure it checked.                                *)
(***************************************************************************)
Checking == {"looked", "selected", "delete"}

\* What one step may do to the copy a request checks, and to a lockout.
CopyMoves(p) ==
    /\ pc'[p] \in Checking =>
          \/ pc[p] \in Checking /\ job'[p] = job[p] /\ copy'[p] = copy[p]
          \/ job'[p] \in Found /\ copy'[p] = rec[job'[p]] /\ rec' = rec
    /\ pc'[p] = "delete" =>
          \/ pc[p] = "delete" /\ job'[p] = job[p] /\ copy'[p] = copy[p]
          \/ /\ job'[p] = job[p] /\ copy'[p] = copy[p] /\ lockout' = lockout
             /\ copy[p].status = "error" /\ job[p] \notin lockout

LockoutMoves(j) ==
    j \in lockout' => \/ j \in lockout
                      \/ rec[j] # NoImpact /\ rec'[j].stamp = rec[j].stamp + 1

\* A DELETE's copy is what Redis held when it selected the record.
LEMMA CopyMovesStep ==
  ASSUME TypeInv, [Next]_vars, NEW p \in Requests
  PROVE  CopyMoves(p)
<1>0. Gets \subseteq Requests
  BY DEF Requests
<1> USE DEF TypeInv, TypeOK, CopyMoves, Checking
<1>1. ASSUME Untouched(p) PROVE CopyMoves(p)
  BY <1>1 DEF Untouched
<1>2. CASE QuietStep(p)
  <2>1. ASSUME pc'[p] \notin Checking PROVE CopyMoves(p)
    BY <2>1
  <2>2. Return(p) => CopyMoves(p)
    BY DEF Return
  <2>3. ASSUME NEW a, NEW seen, SelectNothing(p, a, seen) PROVE CopyMoves(p)
    BY <2>2, <2>3 DEF SelectNothing
  <2>4. ASSUME NEW j \in Found, NEW a, NEW next \in {"looked", "selected"},
               Select(p, j, a, next), UNCHANGED rec
        PROVE  CopyMoves(p)
    BY <2>4 DEF Select
  <2>5. CASE Lookup(p)
    BY <2>3, <2>4, <2>5 DEF Lookup, LookupOutage, Newest, redis
  <2>6. CASE Raise(p) \/ Crash(p) \/ AnswerFailure(p) \/ UpdateWrite(p)
    BY <2>2, <2>6 DEF Raise, Crash, AnswerFailure, UpdateWrite
  <2>7. CASE Refresh(p)
    <3>1. CASE /\ pc[p] = "looked" /\ pc' = [pc EXCEPT ![p] = "selected"]
               /\ UNCHANGED <<job, copy>>
      BY <3>1
    <3> QED
      BY <2>3, <2>4, <2>7, <3>1 DEF Refresh, LookupOutage, Newest, Matching, Goto, redis
  <2>8. CASE Replay(p) \/ Poll(p) \/ UpdateRead(p) \/ ResolveApp(p) \/ ReadClaim(p)
    BY <2>1, <2>2, <2>8 DEF Replay, Poll, UpdateRead, ResolveApp, ReadClaim, StartUpdate
  <2>9. CASE CheckFailure(p)
    BY <2>2, <2>9 DEF CheckFailure, Goto, redis
  <2>10. CASE DeleteFailure(p)
    BY <2>1, <2>2, <2>10 DEF DeleteFailure
  <2> QED
    BY <1>2, <2>5, <2>6, <2>7, <2>8, <2>9, <2>10 DEF QuietStep
<1>3. CASE SubmissionStep(p)
  BY <1>3 DEF SubmissionStep, Claim, Submit, StoreComputing, HandoffError, Release, Goto, Return
<1>4. ASSUME NEW q \in Requests, q # p, QuietStep(q) \/ SubmissionStep(q)
      PROVE  Untouched(p)
  BY <1>4, OthersUntouched
<1>5. CASE Environment \/ UNCHANGED vars
  BY <1>1, <1>5 DEF Environment, ClaimExpires, Deploy, RecordExpires, LockoutPasses, JobEnds,
                    IndexExpires, local, vars, Untouched
<1> QED
  BY <1>0, <1>1, <1>2, <1>3, <1>4, <1>5, NextSteps

\* Every write has its own end_time.
LEMMA ChangedStamp ==
  ASSUME NEW impact \in Impact, NEW outcome, NEW n \in Nat
  PROVE  Changed(impact, outcome, n).stamp = n
  BY DEF Changed, Impact

\* A failure enters its lockout only when it is written, with a new end_time.
LEMMA LockoutMovesStep ==
  ASSUME TypeInv, [Next]_vars, NEW j \in Jobs
  PROVE  LockoutMoves(j)
<1> USE DEF TypeInv, TypeOK, LockoutMoves
<1>1. ASSUME NEW p \in Requests, QuietStep(p) PROVE LockoutMoves(j)
  <2>1. CASE UpdateWrite(p)
    <3>1. job[p] \in Jobs /\ copy[p] \in Impact
      BY <2>1 DEF UpdateWrite, LocalsSet, HasJob, HasCopy
    <3>2. rec[job[p]] # NoImpact =>
            /\ rec[job[p]].stamp + 1 \in Nat
            /\ Changed(copy[p], change[p], rec[job[p]].stamp + 1).stamp = rec[job[p]].stamp + 1
      BY <3>1, ChangedStamp DEF Impact
    <3> QED
      BY <2>1, <3>1, <3>2 DEF UpdateWrite
  <2>2. CASE lockout' \subseteq lockout
    BY <2>2
  <2> QED
    BY <1>1, <2>1, <2>2
    DEF QuietStep, Lookup, Raise, Crash, Refresh, Replay, AnswerFailure, Poll, UpdateRead,
        ResolveApp, ReadClaim, CheckFailure, DeleteFailure, redis
<1>2. ASSUME NEW g \in Gets, SubmissionStep(g) PROVE LockoutMoves(j)
  BY <1>2 DEF SubmissionStep, Claim, Submit, StoreComputing, Release, redis
<1>3. CASE Environment
  BY <1>3 DEF Environment, ClaimExpires, Deploy, RecordExpires, LockoutPasses, JobEnds,
              IndexExpires, redis
<1>4. CASE UNCHANGED vars
  BY <1>4 DEF vars, redis
<1> QED
  BY <1>1, <1>2, <1>3, <1>4, NextSteps

\* A record that still equals the copy a DELETE checked has not been written since,
\* so its lockout, once passed, has stayed passed.
LEMMA CopyNotNewerStep ==
  TypeInv /\ TypeInv' /\ RecordedOnce /\ CopyNotNewer /\ [Next]_vars => CopyNotNewer'
<1> SUFFICES ASSUME TypeInv, TypeInv', RecordedOnce, CopyNotNewer, [Next]_vars
             PROVE  CopyNotNewer'
  OBVIOUS
<1>0. Gets \subseteq Requests /\ NoImpact \notin Impact
  BY DEF Requests, NoImpact, Impact
<1> USE DEF TypeInv, TypeOK, Checking
<1> SUFFICES ASSUME NEW p \in Requests
             PROVE  /\ pc'[p] \in Checking /\ rec'[job'[p]] # NoImpact =>
                          copy'[p].stamp <= rec'[job'[p]].stamp
                    /\ pc'[p] = "delete" =>
                          /\ copy'[p].status = "error"
                          /\ rec'[job'[p]] = copy'[p] => job'[p] \notin lockout'
  BY DEF CopyNotNewer
<1>1. CopyMoves(p)
  BY CopyMovesStep
<1>2. ASSUME NEW j \in Jobs, pc[p] \in Checking, job[p] = j
      PROVE  \/ rec'[j] = rec[j]
             \/ rec'[j] = NoImpact
             \/ rec[j] # NoImpact /\ rec'[j].stamp = rec[j].stamp + 1
  <2>1. RecordMoves(j)
    BY RecordMovesStep
  <2>2. \A g \in Gets : pc[g] = "store" => job[g] # j
    BY <1>0, <1>2 DEF RecordedOnce
  <2>3. ASSUME NEW g \in Requests, pc[g] = "write", rec[j] # NoImpact
        PROVE  Changed(copy[g], change[g], rec[j].stamp + 1).stamp = rec[j].stamp + 1
    <3>1. copy[g] \in Impact /\ rec[j].stamp + 1 \in Nat
      BY <2>3 DEF LocalsSet, HasCopy, Impact
    <3> QED
      BY <3>1, ChangedStamp
  <2> QED
    BY <2>1, <2>2, <2>3 DEF RecordMoves
<1>3. ASSUME pc[p] \in Checking, pc'[p] \in Checking, job'[p] = job[p], copy'[p] = copy[p]
      PROVE  /\ job[p] \in Jobs /\ copy[p] \in Impact /\ copy[p].stamp \in Nat
             /\ rec[job[p]] # NoImpact => rec[job[p]].stamp \in Nat
             /\ rec'[job[p]] # NoImpact =>
                   rec[job[p]] # NoImpact /\ copy[p].stamp <= rec'[job[p]].stamp
             /\ rec'[job[p]] = rec[job[p]] \/ rec'[job[p]] # copy[p]
  <2>1. /\ job[p] \in Jobs /\ copy[p] \in Impact /\ copy[p].stamp \in Nat
        /\ rec[job[p]] # NoImpact => rec[job[p]].stamp \in Nat
    BY <1>3 DEF LocalsSet, HasJob, HasCopy, Impact
  <2>2. rec[job[p]] # NoImpact => copy[p].stamp <= rec[job[p]].stamp
    BY <1>3 DEF CopyNotNewer
  <2> QED
    BY <1>0, <1>2, <1>3, <2>1, <2>2
<1>4. pc'[p] \in Checking /\ rec'[job'[p]] # NoImpact => copy'[p].stamp <= rec'[job'[p]].stamp
  <2>1. ASSUME job'[p] \in Found, copy'[p] = rec[job'[p]], rec' = rec
        PROVE  copy'[p].stamp <= rec'[job'[p]].stamp
    <3>1. rec[job'[p]] \in Impact
      BY <2>1 DEF Found
    <3> QED
      BY <2>1, <3>1 DEF Impact
  <2> QED
    BY <1>1, <1>3, <2>1 DEF CopyMoves
<1>5. ASSUME pc'[p] = "delete"
      PROVE  /\ copy'[p].status = "error"
             /\ rec'[job'[p]] = copy'[p] => job'[p] \notin lockout'
  <2>1. CASE pc[p] = "delete" /\ job'[p] = job[p] /\ copy'[p] = copy[p]
    <3>1. copy[p].status = "error" /\ (rec[job[p]] = copy[p] => job[p] \notin lockout)
      BY <2>1 DEF CopyNotNewer
    <3>2. LockoutMoves(job[p])
      BY <1>3, <1>5, <2>1, LockoutMovesStep
    <3>3. rec'[job[p]] = copy[p] => rec[job[p]] = copy[p]
      BY <1>0, <1>3, <1>5, <2>1
    <3>4. rec'[job[p]] = copy[p] => rec'[job[p]].stamp # rec[job[p]].stamp + 1
      BY <1>3, <1>5, <2>1, <3>3
    <3> QED
      BY <2>1, <3>1, <3>2, <3>3, <3>4 DEF LockoutMoves
  <2> QED
    BY <1>1, <1>5, <2>1 DEF CopyMoves
<1> QED
  BY <1>4, <1>5

(***************************************************************************)
(* The theorems.                                                           *)
(***************************************************************************)
\* The invariant holds of an empty cache, an idle gateway and no requests.
LEMMA InitIInv == Init => IInv
<1> SUFFICES ASSUME Init PROVE IInv
  OBVIOUS
<1>1. TypeInv
  BY InitTypeInv
<1>2. NoJob \notin Jobs /\ Gets \subseteq Requests
  BY ConstantsAssumption DEF Requests
<1>3. ClaimHeld /\ UnhandedJobKeepsItsClaim
  BY <1>2 DEF Init, ClaimHeld, UnhandedJobKeepsItsClaim, Submitting
<1>4. StoredOutcomeIsTheJobs
  BY DEF Init, StoredOutcomeIsTheJobs, Truthful, NoImpact
<1>5. CarriedTruth /\ CopyNotNewer
  BY DEF Init, CarriedTruth, CopyNotNewer, HasCopy, HasChange
<1>6. RecordedOnce
  BY <1>2 DEF Init, RecordedOnce
<1> QED
  BY <1>1, <1>3, <1>4, <1>5, <1>6 DEF IInv

\* The invariant is inductive.
LEMMA IInvStep == IInv /\ [Next]_vars => IInv'
  BY TypeInvStep, ClaimInvStep, TruthInvStep, RecordedOnceStep, CopyNotNewerStep
  DEF IInv, ClaimInv, TruthInv

\* The invariant holds in every reachable state.
LEMMA Inductive == Spec => []IInv
  BY InitIInv, IInvStep, PTL DEF Spec

\* Of two GETs submitting for one options hash one has outlived its claim,
\* however the claims, failures and expiries interleave.
THEOREM OneSubmitter == Spec => []OneSubmitterPerClaim
<1>1. IInv => OneSubmitterPerClaim
  BY DEF IInv, ClaimHeld, OneSubmitterPerClaim
<1> QED
  BY <1>1, Inductive, PTL

\* After a failed handoff nobody can claim the submission before it expires.
THEOREM HandoffKeepsClaim == Spec => []UnhandedJobKeepsItsClaim
<1>1. IInv => UnhandedJobKeepsItsClaim
  BY DEF IInv
<1> QED
  BY <1>1, Inductive, PTL

\* A record never contradicts its job, however late its pollers write.
THEOREM OutcomesAreTrue == Spec => []StoredOutcomeIsTheJobs
<1>1. IInv => StoredOutcomeIsTheJobs
  BY DEF IInv
<1> QED
  BY <1>1, Inductive, PTL

\* A DELETE removes failures past their lockout and nothing else.
THEOREM DeletesAreSafe == Spec => DeleteOnlyOldFailures
<1> DEFINE Safe(j) == removed[j] # "deleted" /\ removed'[j] = "deleted" =>
                          rec[j].status = "error" /\ j \notin lockout
<1>1. ASSUME IInv, [Next]_vars, NEW j \in Jobs PROVE Safe(j)
  <2> USE DEF IInv, TypeInv, TypeOK, observed
  <2>1. ASSUME NEW p \in Requests, QuietStep(p) PROVE Safe(j)
    <3>1. CASE DeleteFailure(p)
      <4>1. /\ job[p] \in Jobs /\ copy[p].status = "error"
            /\ rec[job[p]] = copy[p] => job[p] \notin lockout
        BY <1>1, <3>1 DEF DeleteFailure, LocalsSet, HasJob, CopyNotNewer
      <4> QED
        BY <1>1, <3>1, <4>1 DEF DeleteFailure
    <3>2. CASE UNCHANGED removed
      BY <3>2
    <3> QED
      BY <2>1, <3>1, <3>2
      DEF QuietStep, Lookup, Raise, Crash, Refresh, Replay, AnswerFailure, Poll, UpdateRead,
          UpdateWrite, ResolveApp, ReadClaim, CheckFailure
  <2>2. ASSUME NEW g \in Gets, SubmissionStep(g) PROVE Safe(j)
    BY <2>2 DEF SubmissionStep, Claim, Submit, StoreComputing, Release
  <2>3. CASE Environment
    BY <1>1, <2>3 DEF Environment, ClaimExpires, Deploy, RecordExpires, LockoutPasses, JobEnds,
                      IndexExpires
  <2>4. CASE UNCHANGED vars
    BY <2>4 DEF vars
  <2> QED
    BY <1>1, <2>1, <2>2, <2>3, <2>4, NextSteps
<1>2. IInv /\ [Next]_vars => [\A j \in Jobs : Safe(j)]_vars
  BY <1>1
<1> QED
  BY <1>2, Inductive, PTL DEF Spec, DeleteOnlyOldFailures

(***************************************************************************)
(* What a GET saw when it decided to create a job.                         *)
(***************************************************************************)
Creating == {"create", "claim", "readclaim"} \union Submitting

\* A record keeps the options hash it was created with.
CopyKeepsHash ==
    \A p \in Requests :
        pc[p] \in HasCopy /\ rec[job[p]] # NoImpact => copy[p].hash = rec[job[p]].hash

\* Nobody is about to create the record of j.
HandedOver(j) == gw[j] # "absent" /\ \A g \in Gets : pc[g] = "store" => job[g] # j

\* A GET that saw some records decided under a worker app that is none of
\* theirs, and keeps that app until it has submitted.
PassedOver ==
    \A p \in Requests : \A j \in visible[p] :
        /\ pc[p] \in Creating /\ app[p] \in Apps
        /\ HandedOver(j)
        /\ rec[j] # NoImpact => rec[j].hash # app[p]

SeenInv == CopyKeepsHash /\ PassedOver

\* What one step may do to the copy a request holds, and to what it saw.
CopyTaken(p) ==
    pc'[p] \in HasCopy =>
        \/ pc[p] \in HasCopy /\ job'[p] = job[p] /\ copy'[p] = copy[p]
        \/ job'[p] \in Jobs /\ copy'[p] = rec[job'[p]] /\ rec' = rec

VisibleMoves(p) ==
    \/ visible'[p] = {}
    \/ /\ visible'[p] = visible[p]
       /\ pc[p] \in Creating => /\ pc'[p] \in Creating
                                /\ app[p] \in Apps => app'[p] = app[p]
    \/ /\ visible'[p] = Found /\ Matching(live) = {} /\ rec' = rec
       /\ pc'[p] = "create" /\ app'[p] = live

\* A step of one request leaves what the others saw alone.
LEMMA OthersSawTheSame ==
  ASSUME TypeInv, NEW p \in Requests, QuietStep(p) \/ SubmissionStep(p),
         NEW q \in Requests, q # p
  PROVE  visible'[q] = visible[q]
<1> USE DEF TypeInv, TypeOK
<1>1. CASE \/ Return(p) \/ \E next : Goto(p, next)
           \/ \E j, a, next : Select(p, j, a, next)
           \/ \E a, seen : SelectNothing(p, a, seen)
           \/ \E outcome : StartUpdate(p, outcome)
  BY <1>1 DEF Return, Goto, Select, SelectNothing, StartUpdate
<1>2. CASE Lookup(p) \/ Raise(p) \/ Crash(p)
  BY <1>1, <1>2 DEF Lookup, LookupOutage, Raise, Crash
<1>3. CASE Refresh(p)
  BY <1>1, <1>3 DEF Refresh, LookupOutage
<1>4. CASE Replay(p) \/ AnswerFailure(p) \/ Poll(p)
  BY <1>1, <1>4 DEF Replay, AnswerFailure, Poll
<1>5. CASE UpdateRead(p) \/ UpdateWrite(p)
  BY <1>1, <1>5 DEF UpdateRead, UpdateWrite
<1>6. CASE ResolveApp(p) \/ ReadClaim(p)
  BY <1>1, <1>6 DEF ResolveApp, ReadClaim, observed
<1>7. CASE CheckFailure(p) \/ DeleteFailure(p)
  BY <1>1, <1>7 DEF CheckFailure, DeleteFailure
<1>8. CASE Claim(p) \/ Submit(p)
  BY <1>1, <1>8 DEF Claim, Submit
<1>9. CASE StoreComputing(p) \/ Release(p)
  BY <1>1, <1>9 DEF StoreComputing, HandoffError, Release
<1> QED
  BY <1>2, <1>3, <1>4, <1>5, <1>6, <1>7, <1>8, <1>9 DEF QuietStep, SubmissionStep

\* A request takes a copy only from the record it selects or rereads, and its
\* view of the records only from a lookup that matched none of them.
LEMMA SeenMovesStep ==
  ASSUME TypeInv, [Next]_vars, NEW p \in Requests
  PROVE  CopyTaken(p) /\ VisibleMoves(p)
<1>0. Gets \subseteq Requests /\ NoApp \notin Apps
  BY ConstantsAssumption DEF Requests
<1> USE DEF TypeInv, TypeOK
<1>1. ASSUME Untouched(p), visible'[p] = visible[p] PROVE CopyTaken(p) /\ VisibleMoves(p)
  BY <1>1 DEF Untouched, CopyTaken, VisibleMoves
<1>2. ASSUME Return(p) PROVE CopyTaken(p) /\ VisibleMoves(p)
  BY <1>2 DEF Return, CopyTaken, VisibleMoves, HasCopy
<1>3. ASSUME NEW j \in Found, NEW a, NEW next \in {"looked", "selected"},
             pc[p] \notin Creating, Select(p, j, a, next), UNCHANGED rec
      PROVE  CopyTaken(p) /\ VisibleMoves(p)
  BY <1>3 DEF Select, Found, CopyTaken, VisibleMoves
<1>4. ASSUME NEW a, SelectNothing(p, a, {}) PROVE CopyTaken(p) /\ VisibleMoves(p)
  BY <1>2, <1>4 DEF SelectNothing, CopyTaken, VisibleMoves, HasCopy
<1>5. CASE QuietStep(p)
  <2>1. CASE Lookup(p)
    BY <1>3, <1>4, <2>1 DEF Lookup, LookupOutage, Newest, redis, Creating, Submitting
  <2>2. CASE Raise(p) \/ Crash(p) \/ AnswerFailure(p) \/ UpdateWrite(p)
    BY <1>2, <2>2 DEF Raise, Crash, AnswerFailure, UpdateWrite
  <2>3. CASE Refresh(p)
    <3>1. pc[p] = "looked" /\ pc[p] \notin Creating /\ pc[p] \in HasCopy /\ UNCHANGED rec
      BY <2>3 DEF Refresh, Creating, Submitting, HasCopy, redis
    <3>2. CASE /\ pc' = [pc EXCEPT ![p] = "selected"]
               /\ UNCHANGED <<job, copy, visible>>
      BY <3>1, <3>2 DEF CopyTaken, VisibleMoves
    <3>3. CASE Matching(live) = {} /\ SelectNothing(p, live, Found)
      BY <1>2, <3>1, <3>3 DEF SelectNothing, CopyTaken, VisibleMoves, HasCopy
    <3> QED
      BY <1>3, <1>4, <2>3, <3>1, <3>2, <3>3
      DEF Refresh, LookupOutage, Newest, Matching, Goto
  <2>4. CASE Replay(p) \/ Poll(p)
    BY <1>2, <2>4
    DEF Replay, Poll, StartUpdate, CopyTaken, VisibleMoves, HasCopy, Creating, Submitting
  <2>5. CASE UpdateRead(p)
    <3>1. job[p] \in Jobs
      BY <2>5 DEF UpdateRead, LocalsSet, HasJob
    <3> QED
      BY <1>2, <2>5, <3>1
      DEF UpdateRead, CopyTaken, VisibleMoves, redis, Creating, Submitting
  <2>6. CASE ResolveApp(p)
    BY <1>0, <2>6
    DEF ResolveApp, CopyTaken, VisibleMoves, HasCopy, Creating, observed
  <2>7. CASE ReadClaim(p)
    BY <1>2, <2>7 DEF ReadClaim, CopyTaken, VisibleMoves, HasCopy, Creating
  <2>8. CASE CheckFailure(p)
    BY <1>2, <2>8
    DEF CheckFailure, Goto, CopyTaken, VisibleMoves, HasCopy, Creating, Submitting
  <2>9. CASE DeleteFailure(p)
    BY <1>2, <2>9 DEF DeleteFailure, CopyTaken, VisibleMoves, HasCopy, Creating, Submitting
  <2> QED
    BY <1>5, <2>1, <2>2, <2>3, <2>4, <2>5, <2>6, <2>7, <2>8, <2>9 DEF QuietStep
<1>6. CASE SubmissionStep(p)
  <2>1. CASE Claim(p) \/ Submit(p)
    BY <1>2, <2>1
    DEF Claim, Submit, Goto, CopyTaken, VisibleMoves, HasCopy, Creating, Submitting
  <2>2. CASE StoreComputing(p) \/ Release(p)
    BY <1>2, <2>2
    DEF StoreComputing, HandoffError, Release, Goto, CopyTaken, VisibleMoves, HasCopy,
        Creating, Submitting
  <2> QED
    BY <1>6, <2>1, <2>2 DEF SubmissionStep
<1>7. ASSUME NEW q \in Requests, q # p, QuietStep(q) \/ SubmissionStep(q)
      PROVE  CopyTaken(p) /\ VisibleMoves(p)
  BY <1>1, <1>7, OthersUntouched, OthersSawTheSame
<1>8. CASE Environment \/ UNCHANGED vars
  BY <1>1, <1>8 DEF Environment, ClaimExpires, Deploy, RecordExpires, LockoutPasses, JobEnds,
                    IndexExpires, local, observed, vars, Untouched
<1> QED
  BY <1>0, <1>5, <1>6, <1>7, <1>8, NextSteps

\* Once a job is handed over it stays so, and its record is only rewritten under
\* the same options hash or removed for good.
LEMMA HandedOverStep ==
  ASSUME IInv, CopyKeepsHash, [Next]_vars, NEW j \in Jobs, HandedOver(j)
  PROVE  /\ HandedOver(j)'
         /\ rec'[j] # NoImpact => rec[j] # NoImpact /\ rec'[j].hash = rec[j].hash
<1>0. Gets \subseteq Requests
  BY DEF Requests
<1> USE DEF IInv, TypeInv, TypeOK
<1>1. HandedOver(j)'
  <2>1. GatewayMoves(gw[j], gw'[j])
    BY GatewayMovesStep
  <2>2. ASSUME NEW g \in Gets, pc'[g] = "store" PROVE job'[g] # j
    <3>1. StoreMoves(g)
      BY <1>0, <2>2, LocalMovesStep
    <3> QED
      BY <3>1, <2>2 DEF StoreMoves, HandedOver
  <2> QED
    BY <2>1, <2>2 DEF GatewayMoves, HandedOver
<1>2. ASSUME NEW g \in Requests, pc[g] = "write", job[g] = j, rec[j] # NoImpact
      PROVE  Changed(copy[g], change[g], rec[j].stamp + 1).hash = rec[j].hash
  <2>1. copy[g] \in Impact /\ copy[g].hash = rec[j].hash
    BY <1>2 DEF LocalsSet, HasCopy, CopyKeepsHash
  <2> QED
    BY <2>1 DEF Changed, Impact
<1>3. RecordMoves(j)
  BY RecordMovesStep
<1> QED
  BY <1>1, <1>2, <1>3 DEF RecordMoves, HandedOver

\* A job whose record exists has been handed over.
LEMMA RecordedIsHandedOver ==
  ASSUME IInv, NEW j \in Jobs, rec[j] # NoImpact
  PROVE  HandedOver(j)
  BY DEF IInv, RecordedOnce, HandedOver, Requests

\* No step gives a record the hash that a creating GET looked for: the hashes
\* of records never change, and a record that is gone is not created again.
LEMMA SeenInvStep == IInv /\ SeenInv /\ [Next]_vars => SeenInv'
<1> SUFFICES ASSUME IInv, SeenInv, [Next]_vars
             PROVE  SeenInv'
  OBVIOUS
<1>0. TypeInv /\ TypeInv' /\ Gets \subseteq Requests
  BY TypeInvStep DEF IInv, Requests
<1>1. \A p \in Requests : CopyTaken(p) /\ VisibleMoves(p)
  BY <1>0, SeenMovesStep
<1>2. ASSUME NEW j \in Jobs, HandedOver(j)
      PROVE  /\ HandedOver(j)'
             /\ rec'[j] # NoImpact => rec[j] # NoImpact /\ rec'[j].hash = rec[j].hash
  BY <1>2, HandedOverStep DEF SeenInv
<1>3. ASSUME NEW p \in Requests, pc'[p] \in HasCopy, rec'[job'[p]] # NoImpact
      PROVE  copy'[p].hash = rec'[job'[p]].hash
  <2>1. CASE pc[p] \in HasCopy /\ job'[p] = job[p] /\ copy'[p] = copy[p]
    <3> DEFINE j == job[p]
    <3>1. j \in Jobs
      BY <1>0, <2>1 DEF TypeInv, LocalsSet, HasCopy, HasJob
    <3>2. HandedOver(j)
      <4>1. \A g \in Gets : pc[g] = "store" => job[g] # j
        BY <1>0, <2>1 DEF IInv, RecordedOnce, HasCopy
      <4>2. gw[j] # "absent"
        BY <3>1 DEF IInv, RecordedOnce
      <4> QED
        BY <4>1, <4>2 DEF HandedOver
    <3>3. rec[j] # NoImpact /\ rec'[j].hash = rec[j].hash
      BY <1>2, <1>3, <2>1, <3>1, <3>2
    <3> QED
      BY <2>1, <3>3 DEF SeenInv, CopyKeepsHash
  <2>2. CASE copy'[p] = rec[job'[p]] /\ rec' = rec
    BY <2>2
  <2> QED
    BY <1>1, <1>3, <2>1, <2>2 DEF CopyTaken
<1>4. ASSUME NEW p \in Requests, NEW j \in visible'[p]
      PROVE  /\ pc'[p] \in Creating /\ app'[p] \in Apps
             /\ HandedOver(j)'
             /\ rec'[j] # NoImpact => rec'[j].hash # app'[p]
  <2>1. CASE /\ visible'[p] = visible[p]
             /\ pc[p] \in Creating => /\ pc'[p] \in Creating
                                      /\ app[p] \in Apps => app'[p] = app[p]
    <3>1. /\ pc[p] \in Creating /\ app[p] \in Apps /\ HandedOver(j) /\ j \in Jobs
          /\ rec[j] # NoImpact => rec[j].hash # app[p]
      BY <1>0, <1>4, <2>1 DEF SeenInv, PassedOver, TypeInv, TypeOK
    <3> QED
      BY <1>2, <2>1, <3>1
  <2>2. CASE /\ visible'[p] = Found /\ Matching(live) = {} /\ rec' = rec
             /\ pc'[p] = "create" /\ app'[p] = live
    <3>1. j \in Jobs /\ rec[j] # NoImpact /\ rec[j].hash # live /\ live \in Apps
      BY <1>0, <1>4, <2>2 DEF Found, Matching, TypeInv, TypeOK
    <3>2. HandedOver(j)'
      BY <1>2, <3>1, RecordedIsHandedOver
    <3> QED
      BY <2>2, <3>1, <3>2 DEF Creating
  <2> QED
    BY <1>1, <1>4, <2>1, <2>2 DEF VisibleMoves
<1>5. CopyKeepsHash'
  BY <1>3 DEF CopyKeepsHash
<1>6. PassedOver'
  BY <1>4 DEF PassedOver
<1> QED
  BY <1>5, <1>6 DEF SeenInv

\* A GET that passed over the records it saw, because none was computed by the
\* live worker app, never submits a second job for the app of one of them: it
\* submits under the app its lookup compared, though the live app changes while
\* it loads the policies and waits for its claim.
THEOREM VisibleJobsAreNotDuplicated == Spec => VisibleJobIsNotDuplicated
<1>1. Init => SeenInv
  BY DEF Init, SeenInv, CopyKeepsHash, PassedOver, HasCopy
<1>2. Spec => []SeenInv
  BY <1>1, Inductive, SeenInvStep, PTL DEF Spec
<1>3. SeenInv /\ [Next]_vars =>
        [\A g \in Gets : Submits(g) =>
            \A j \in visible[g] : rec[j] # NoImpact => rec[j].hash # app[g]]_vars
  BY DEF SeenInv, PassedOver, Requests
<1> QED
  BY <1>2, <1>3, PTL DEF Spec, VisibleJobIsNotDuplicated

(***************************************************************************)
(* Refinement.                                                             *)
(***************************************************************************)
\* What ImpactLifecycle calls a record that is stored.
LEMMA LifeOfRecord ==
  ASSUME NEW impact \in Impact, NEW how
  PROVE  /\ impact.status = "error" => Life(impact, how) = IF impact.typed THEN "typed" ELSE "error"
         /\ impact.status # "error" => Life(impact, how) = impact.status
         /\ Life(impact, how) \in {"computing", "ok", "error", "typed"}
<1>1. impact # NoImpact /\ impact.status \in {"computing", "ok", "error"}
  BY DEF Impact, NoImpact
<1> QED
  BY <1>1 DEF Life

\* What ImpactLifecycle calls a record that is not.
LEMMA LifeOfNoRecord ==
  ASSUME NEW how
  PROVE  Life(NoImpact, how) = IF how = "no" THEN "unrecorded" ELSE "forgotten"
  BY DEF Life

\* The initial states map to the lifecycle's initial state.
LEMMA LifecycleInit == Init => Lifecycle!Init
  BY LifeOfNoRecord DEF Init, Lifecycle!Init

\* Every step maps to a step of the lifecycle or leaves it unchanged.
LEMMA LifecycleStep == IInv /\ [Next]_vars => [Lifecycle!Next]_(Lifecycle!vars)
<1> SUFFICES ASSUME IInv, [Next]_vars
             PROVE  Lifecycle!Next \/ UNCHANGED Lifecycle!vars
  OBVIOUS
<1> DEFINE life == [j \in Jobs |-> Life(rec[j], removed[j])]
<1> USE DEF IInv, TypeInv, TypeOK
<1>0. Gets \subseteq Requests
  BY DEF Requests
<1>1. CASE UNCHANGED <<gw, rec, removed>>
  BY <1>1 DEF Lifecycle!vars
<1>2. ASSUME NEW j \in Jobs, rec[j] # NoImpact, rec' = [rec EXCEPT ![j] = NoImpact],
             NEW how \in {"expired", "deleted"}, removed' = [removed EXCEPT ![j] = how],
             UNCHANGED gw
      PROVE  Lifecycle!Next
  <2>1. life[j] \in {"computing", "ok", "error", "typed"}
    BY <1>2, LifeOfRecord
  <2>2. life' = [life EXCEPT ![j] = "forgotten"]
    BY <1>2, LifeOfNoRecord
  <2>3. Lifecycle!Forget(j)
    BY <1>2, <2>1, <2>2 DEF Lifecycle!Forget
  <2> QED
    BY <2>3 DEF Lifecycle!Next
<1>3. ASSUME NEW p \in Requests, UpdateWrite(p) PROVE Lifecycle!Next \/ UNCHANGED Lifecycle!vars
  <2> DEFINE j == job[p]
  <2>1. /\ j \in Jobs /\ copy[p] \in Impact /\ change[p] \in {"ok", "error", "typed"}
        /\ UNCHANGED <<gw, removed>>
    BY <1>3 DEF UpdateWrite, LocalsSet, HasJob, HasCopy, HasChange, Changes, gateway
  <2>2. CASE rec' = rec
    BY <1>1, <2>1, <2>2
  <2>3. CASE rec[j] # NoImpact /\ rec' = [rec EXCEPT ![j] = Changed(copy[p], change[p], rec[j].stamp + 1)]
    <3> DEFINE new == Changed(copy[p], change[p], rec[j].stamp + 1)
    <3>1. rec[j] \in Impact /\ rec[j].stamp + 1 \in Nat
      BY <2>1, <2>3 DEF Impact
    <3>2. new \in Impact
      BY <2>1, <3>1, ChangedType
    <3>3. life[j] \in {"computing", "ok", "error", "typed"}
      BY <2>1, <3>1, LifeOfRecord
    <3>4. life' = [life EXCEPT ![j] = Life(new, removed[j])]
      BY <2>1, <2>3
    <3>5. Life(new, removed[j]) = change[p]
      <4>1. /\ change[p] = "ok" => new.status = "ok"
            /\ change[p] = "error" => new.status = "error" /\ new.typed = FALSE
            /\ change[p] = "typed" => new.status = "error" /\ new.typed = TRUE
        BY <2>1 DEF Changed, Impact
      <4> QED
        BY <2>1, <3>2, <4>1, LifeOfRecord
    <3>6. OutcomeTrue(change[p], gw[j])
      BY <1>3 DEF UpdateWrite, CarriedTruth, HasChange
    <3>7. CASE change[p] = "typed" /\ gw[j] = "complete"
      <4>1. life[j] # "error"
        BY <2>1, <3>1, <3>7, LifeOfRecord DEF StoredOutcomeIsTheJobs, Truthful
      <4>2. Lifecycle!Uncertifiable(j)
        BY <2>1, <3>3, <3>4, <3>5, <3>7, <4>1 DEF Lifecycle!Uncertifiable
      <4> QED
        BY <2>1, <4>2 DEF Lifecycle!Next
    <3>8. CASE ~(change[p] = "typed" /\ gw[j] = "complete")
      <4>1. /\ gw[j] \in {"complete", "failed", "spm"}
            /\ change[p] = CASE gw[j] = "failed" -> "error"
                             [] gw[j] = "spm" -> "typed"
                             [] OTHER -> "ok"
        BY <2>1, <3>6, <3>8 DEF OutcomeTrue
      <4>2. Lifecycle!Report(j)
        BY <2>1, <3>3, <3>4, <3>5, <4>1 DEF Lifecycle!Report, Lifecycle!Ended
      <4> QED
        BY <2>1, <4>2 DEF Lifecycle!Next
    <3> QED
      BY <3>7, <3>8
  <2> QED
    BY <1>3, <2>2, <2>3 DEF UpdateWrite
<1>4. ASSUME NEW p \in Requests, DeleteFailure(p) PROVE Lifecycle!Next \/ UNCHANGED Lifecycle!vars
  <2>1. job[p] \in Jobs /\ copy[p] # NoImpact /\ UNCHANGED gw
    BY <1>4 DEF DeleteFailure, LocalsSet, HasJob, HasCopy, Impact, NoImpact, gateway
  <2> QED
    BY <1>1, <1>2, <1>4, <2>1 DEF DeleteFailure
<1>5. ASSUME NEW p \in Requests, QuietStep(p) PROVE Lifecycle!Next \/ UNCHANGED Lifecycle!vars
  BY <1>1, <1>3, <1>4, <1>5
  DEF QuietStep, Lookup, Raise, Crash, Refresh, Replay, AnswerFailure, Poll, UpdateRead,
      ResolveApp, ReadClaim, CheckFailure, redis, gateway, observed
<1>6. ASSUME NEW g \in Gets, Submit(g) PROVE Lifecycle!Next \/ UNCHANGED Lifecycle!vars
  <2>1. ASSUME NEW j \in Jobs, gw[j] = "absent", gw' = [gw EXCEPT ![j] = "running"],
               UNCHANGED <<rec, removed>>
        PROVE  Lifecycle!Next
    <3>1. Lifecycle!Accept(j)
      BY <2>1 DEF Lifecycle!Accept
    <3> QED
      BY <3>1 DEF Lifecycle!Next
  <2> QED
    BY <1>1, <1>6, <2>1 DEF Submit, redis
<1>7. ASSUME NEW g \in Gets, StoreComputing(g) PROVE Lifecycle!Next \/ UNCHANGED Lifecycle!vars
  <2> DEFINE j == job[g]
             new == [status |-> "computing", hash |-> app[g], start |-> clock,
                     handle |-> TRUE, typed |-> FALSE, stamp |-> 0]
  <2>1. /\ j \in Jobs /\ app[g] \in Apps /\ UNCHANGED <<gw, removed>>
        /\ rec[j] = NoImpact /\ removed[j] = "no" /\ gw[j] # "absent"
    BY <1>0, <1>7 DEF StoreComputing, LocalsSet, HasJob, HasApp, Submitting, RecordedOnce,
                      CarriedTruth, gateway
  <2>2. CASE NewRecord(g)
    <3>1. new \in Impact /\ new.status = "computing"
      BY <2>1 DEF Impact
    <3>2. life[j] = "unrecorded" /\ life' = [life EXCEPT ![j] = "computing"]
      BY <2>1, <2>2, <3>1, LifeOfNoRecord, LifeOfRecord DEF NewRecord
    <3>3. Lifecycle!Record(j)
      BY <2>1, <3>2 DEF Lifecycle!Record
    <3> QED
      BY <2>1, <3>3 DEF Lifecycle!Next
  <2> QED
    BY <1>1, <1>7, <2>1, <2>2 DEF StoreComputing
<1>8. ASSUME NEW j \in Jobs, JobEnds(j) PROVE Lifecycle!Next
  <2>1. Lifecycle!End(j)
    BY <1>8 DEF JobEnds, Lifecycle!End, Lifecycle!Ended, JobStates, redis, observed
  <2> QED
    BY <2>1 DEF Lifecycle!Next
<1>9. ASSUME NEW j \in Jobs, RecordExpires(j) PROVE Lifecycle!Next
  BY <1>2, <1>9 DEF RecordExpires, gateway
<1>10. CASE Environment
  BY <1>1, <1>8, <1>9, <1>10
  DEF Environment, ClaimExpires, Deploy, LockoutPasses, IndexExpires, redis, gateway, observed
<1>11. ASSUME NEW g \in Gets, SubmissionStep(g) PROVE Lifecycle!Next \/ UNCHANGED Lifecycle!vars
  BY <1>1, <1>6, <1>7, <1>11 DEF SubmissionStep, Claim, Release, gateway
<1>12. CASE UNCHANGED vars
  BY <1>1, <1>12 DEF vars, redis, gateway, observed
<1> QED
  BY <1>5, <1>10, <1>11, <1>12, NextSteps

\* The requests, claims and failures of ReformImpacts implement the lifecycle
\* of a job's record: ImpactLifecycle is what a reader of the cache may rely on.
THEOREM RecordsFollowLifecycle == Spec => ImplementsLifecycle
  BY Inductive, LifecycleInit, LifecycleStep, PTL DEF Spec, ImplementsLifecycle, Lifecycle!Spec
=============================================================================
