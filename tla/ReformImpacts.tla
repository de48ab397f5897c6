--------------------------- MODULE ReformImpacts ---------------------------
(***************************************************************************)
(* How concurrent GET and DELETE requests on one economy URL share one     *)
(* simulation job: services/economy_service.py and its mixins, over the    *)
(* start claims and the stored impacts of runtime_cache/reform_impacts.py. *)
(*                                                                         *)
(* One scope (policy pair, region, dataset, period, API version) and one   *)
(* spelling of its options is modelled, so an options hash is the name of  *)
(* the worker application it was resolved to; NoApp is the hash of a       *)
(* request that has not resolved one, which every stored hash extends.     *)
(* Each call to Redis or to the simulation gateway is one step of its      *)
(* request, and what it read stays in the request's own variables until    *)
(* a later step uses it.                                                   *)
(***************************************************************************)
EXTENDS Integers, FiniteSets

CONSTANTS
    Gets,           \* GET requests; each one is a client that may ask again
    Deletes,        \* DELETE requests
    Jobs,           \* the job ids the gateway can still hand out
    Apps,           \* worker applications a version can resolve to
    NoOne, NoJob, NoApp,
    ClaimAttempts,  \* REFORM_IMPACT_START_CLAIM_ATTEMPTS
    DeleteAttempts, \* FAILED_IMPACT_DELETE_ATTEMPTS
    Faults          \* which of the events of FaultKinds may happen

FaultKinds == {"outage",     \* a Redis call fails
               "error",      \* a gateway or database call raises
               "crash",      \* the process serving a request dies
               "lost",       \* a call takes effect but its reply is lost
               "claimttl",   \* a start claim expires under its owner
               "recordttl",  \* Redis expires or evicts a record or the index
               "deploy"}     \* the version map names another worker app

Requests == Gets \union Deletes

ASSUME ConstantsAssumption ==
    /\ Gets \intersect Deletes = {}
    /\ NoOne \notin Gets /\ NoJob \notin Jobs /\ NoApp \notin Apps
    /\ ClaimAttempts \in Nat \ {0} /\ DeleteAttempts \in Nat \ {0}
    /\ Faults \subseteq FaultKinds

(***************************************************************************)
(* A stored impact, by the fields the requests tell apart. "hash" is the   *)
(* options hash, "start" orders start times, "handle" says that the        *)
(* execution id is still in the payload, "typed" that error_code is set.   *)
(* "stamp" counts the writes of the record: every write has its own        *)
(* end_time, so two writes never store the same value.                     *)
(***************************************************************************)
Impact == [status: {"computing", "ok", "error"}, hash: Apps, start: Nat,
           handle: BOOLEAN, typed: BOOLEAN, stamp: Nat]
NoImpact == [status |-> "none"]

VARIABLES
    \* Redis
    claim,     \* start-claim key of each options hash: its owner, or NoOne
    rec,       \* record key of each job: its stored impact, or NoImpact
    index,     \* the scope index: jobs whose record key it lists
    lockout,   \* failed jobs whose end_time is within the delete lockout
    clock,     \* the next start time
    \* the simulation gateway
    gw,        \* state of each job
    ran,       \* worker app each job ran on
    live,      \* worker app the version map now names
    \* each request's own variables
    pc,        \* the call it makes next
    job,       \* the job its selected record, or its submission, names
    copy,      \* the record as it last read it
    app,       \* runtime_app_name: the worker app it resolved
    tries,     \* failed attempts of its claim or delete loop
    change,    \* the status it is about to store
    \* observed, never read by a request
    expired,   \* GETs whose claim expired while they held it
    unhanded,  \* hashes whose claim was kept after a failed handoff
    visible,   \* the jobs a GET's lookup saw when it decided to create one
    removed    \* how each job's record left Redis

redis == <<claim, rec, index, lockout, clock>>
gateway == <<gw, ran, live>>
local == <<pc, job, copy, app, tries, change>>
observed == <<expired, unhanded, visible, removed>>
vars == <<redis, gateway, local, observed>>

\* Where each program counter leads.
PC == {"idle",      \* next: Lookup
       "retry",     \* a DELETE whose record changed; next: Lookup
       "looked",    \* next: Refresh
       "selected",  \* next: Poll, Replay, AnswerFailure or CheckFailure
       "create",    \* next: ResolveApp
       "claim",     \* next: Claim
       "readclaim", \* next: ReadClaim
       "submit",    \* next: Submit
       "store",     \* next: StoreComputing
       "release",   \* next: Release
       "update",    \* next: UpdateRead
       "write",     \* next: UpdateWrite
       "delete"}    \* next: DeleteFailure

\* A job that fails, or completes with a result of the wrong kind, is "failed";
\* one the gateway reports with a typed SPM error is "spm".
JobStates == {"absent", "running", "complete", "failed", "spm"}
Changes == {"none", "ok", "error", "typed"}

\* Redis, the gateway and every request hold values of their kinds. A record's
\* status is one of the three that economy_impact_execution.py maps the gateway's
\* answers to, and a claim is held by a GET or by nobody.
TypeOK ==
    /\ claim \in [Apps -> Gets \union {NoOne}]
    /\ rec \in [Jobs -> Impact \union {NoImpact}]
    /\ index \subseteq Jobs
    /\ lockout \subseteq Jobs
    /\ clock \in Nat
    /\ gw \in [Jobs -> JobStates]
    /\ ran \in [Jobs -> Apps \union {NoApp}]
    /\ live \in Apps
    /\ pc \in [Requests -> PC]
    /\ job \in [Requests -> Jobs \union {NoJob}]
    /\ copy \in [Requests -> Impact \union {NoImpact}]
    /\ app \in [Requests -> Apps \union {NoApp}]
    /\ tries \in [Requests -> Nat]
    /\ change \in [Requests -> Changes]
    /\ expired \subseteq Gets
    /\ unhanded \subseteq Apps
    /\ visible \in [Requests -> SUBSET Jobs]
    /\ removed \in [Jobs -> {"no", "expired", "deleted"}]

Init ==
    /\ claim = [a \in Apps |-> NoOne]
    /\ rec = [j \in Jobs |-> NoImpact]
    /\ index = {}
    /\ lockout = {}
    /\ clock = 0
    /\ gw = [j \in Jobs |-> "absent"]
    /\ ran = [j \in Jobs |-> NoApp]
    /\ live \in Apps
    /\ pc = [p \in Requests |-> "idle"]
    /\ job = [p \in Requests |-> NoJob]
    /\ copy = [p \in Requests |-> NoImpact]
    /\ app = [p \in Requests |-> NoApp]
    /\ tries = [p \in Requests |-> 0]
    /\ change = [p \in Requests |-> "none"]
    /\ expired = {}
    /\ unhanded = {}
    /\ visible = [p \in Requests |-> {}]
    /\ removed = [j \in Jobs |-> "no"]

(***************************************************************************)
(* Lookups.                                                                *)
(***************************************************************************)

\* ReformImpactCache._from_index: the listed records that still exist.
Found == {j \in index : rec[j] # NoImpact}

\* ReformImpactCache.matching for an exact options hash.
Matching(hash) == {j \in Found : rec[j].hash = hash}

\* The most recently started of some records.
Newest(S) == {j \in S : \A k \in S : rec[k].start <= rec[j].start}

\* The request answers, or its exception leaves the service: it is over.
Return(p) ==
    /\ pc' = [pc EXCEPT ![p] = "idle"]
    /\ job' = [job EXCEPT ![p] = NoJob]
    /\ copy' = [copy EXCEPT ![p] = NoImpact]
    /\ app' = [app EXCEPT ![p] = NoApp]
    /\ tries' = [tries EXCEPT ![p] = 0]
    /\ change' = [change EXCEPT ![p] = "none"]
    /\ visible' = [visible EXCEPT ![p] = {}]

\* The request goes on to the call named next, keeping its other variables.
Goto(p, next) ==
    /\ pc' = [pc EXCEPT ![p] = next]
    /\ UNCHANGED <<job, copy, app, tries, change, visible>>

\* A lookup by app a found j: the request goes on with a copy of its record.
Select(p, j, a, next) ==
    /\ pc' = [pc EXCEPT ![p] = next]
    /\ job' = [job EXCEPT ![p] = j]
    /\ copy' = [copy EXCEPT ![p] = rec[j]]
    /\ app' = [app EXCEPT ![p] = a]
    /\ UNCHANGED <<tries, change, visible>>

\* A lookup by app a that read the records of seen found none to reuse: a GET
\* goes on to create one (ImpactAction.CREATE), a DELETE answers not_found.
SelectNothing(p, a, seen) ==
    \/ /\ p \in Gets
       /\ pc' = [pc EXCEPT ![p] = "create"]
       /\ job' = [job EXCEPT ![p] = NoJob]
       /\ copy' = [copy EXCEPT ![p] = NoImpact]
       /\ app' = [app EXCEPT ![p] = a]
       /\ visible' = [visible EXCEPT ![p] = seen]
       /\ UNCHANGED <<tries, change>>
    \/ /\ p \in Deletes
       /\ Return(p)

\* A lookup that cannot read Redis sees nothing in a GET, and raises in a
\* DELETE (reads_fail_closed), which ends it.
LookupOutage(p, a) ==
    /\ "outage" \in Faults
    /\ SelectNothing(p, a, {})

\* _get_most_recent_impact under the request's unresolved options hash, which
\* every stored hash extends.
Lookup(p) ==
    /\ pc[p] \in {"idle", "retry"}
    /\ \/ \E j \in Newest(Found) :
             Select(p, j, NoApp,
                    IF rec[j].status = "computing" THEN "selected" ELSE "looked")
       \/ Found = {} /\ SelectNothing(p, NoApp, {})
       \/ LookupOutage(p, NoApp)
    /\ UNCHANGED <<redis, gateway, expired, unhanded, removed>>

\* Whether _should_refresh_cached_impact keeps a finished record: only a result
\* names the app that computed it.
FromLiveApp(p) == copy[p].status = "ok" /\ ran[job[p]] = live

\* _get_reusable_impact on a finished record. An app that cannot be resolved
\* keeps the record, and so does a result of the live app. Any other record is
\* looked up again under the live app's hash, which it must match exactly.
Refresh(p) ==
    /\ pc[p] = "looked"
    /\ \/ "error" \in Faults /\ Goto(p, "selected")
       \/ /\ FromLiveApp(p)
          /\ pc' = [pc EXCEPT ![p] = "selected"]
          /\ app' = [app EXCEPT ![p] = live]
          /\ UNCHANGED <<job, copy, tries, change, visible>>
       \/ /\ ~FromLiveApp(p)
          /\ \/ \E j \in Newest(Matching(live)) : Select(p, j, live, "selected")
             \/ Matching(live) = {} /\ SelectNothing(p, live, Found)
             \/ LookupOutage(p, live)
    /\ UNCHANGED <<redis, gateway, expired, unhanded, removed>>

(***************************************************************************)
(* GET: answering from a stored impact.                                    *)
(***************************************************************************)

\* The request stores the given outcome on the record of its job.
StartUpdate(g, outcome) ==
    /\ pc' = [pc EXCEPT ![g] = "update"]
    /\ change' = [change EXCEPT ![g] = outcome]
    /\ UNCHANGED <<job, copy, app, tries, visible>>

\* _handle_completed_impact: serve the result, or, when this build cannot
\* certify it, mark the record - but only the request's own, and only while it
\* has its handle (_record_uncertifiable_stored_impact).
Replay(g) ==
    /\ pc[g] = "selected" /\ copy[g].status = "ok"
    /\ \/ Return(g)
       \/ /\ copy[g].handle /\ copy[g].hash = app[g]
          /\ StartUpdate(g, "typed")
    /\ UNCHANGED <<redis, gateway, expired, unhanded, removed>>

\* _handle_failed_impact: replay the stored failure.
AnswerFailure(g) ==
    /\ pc[g] = "selected" /\ copy[g].status = "error"
    /\ Return(g)
    /\ UNCHANGED <<redis, gateway, expired, unhanded, removed>>

\* What a poll of a job in each state stores; a complete job's receipts may
\* fail certification in one build and pass in another.
PollOutcomes(state) ==
    CASE state = "complete" -> {"ok", "typed"}
      [] state = "failed"   -> {"error"}
      [] state = "spm"      -> {"typed"}
      [] OTHER              -> {}

\* Mutant: stores the status the gateway reported, not the one it maps to.
PollStoresGatewayStatus(g) ==
    /\ pc[g] = "selected" /\ copy[g].status = "computing"
    /\ IF gw[job[g]] = "running" THEN Return(g) ELSE StartUpdate(g, gw[job[g]])
    /\ UNCHANGED <<redis, gateway, expired, unhanded, removed>>

\* Mutant: takes a typed SPM error for a job that is still pending.
PollMissesTypedError(g) ==
    /\ pc[g] = "selected" /\ copy[g].status = "computing"
    /\ \/ gw[job[g]] \in {"running", "spm"} /\ Return(g)
       \/ gw[job[g]] = "complete" /\ StartUpdate(g, "ok")
       \/ gw[job[g]] = "failed" /\ StartUpdate(g, "error")
    /\ UNCHANGED <<redis, gateway, expired, unhanded, removed>>

\* _handle_computing_impact and _handle_execution_state up to the store: a
\* pending job answers "computing".
Poll(g) ==
    /\ pc[g] = "selected" /\ copy[g].status = "computing"
    /\ \/ gw[job[g]] = "running" /\ Return(g)
       \/ \E outcome \in PollOutcomes(gw[job[g]]) : StartUpdate(g, outcome)
    /\ UNCHANGED <<redis, gateway, expired, unhanded, removed>>

\* ReformImpactCache.update, its read. A missing record, like an outage, ends
\* the update.
UpdateRead(g) ==
    /\ pc[g] = "update"
    /\ \/ /\ rec[job[g]] # NoImpact
          /\ pc' = [pc EXCEPT ![g] = "write"]
          /\ copy' = [copy EXCEPT ![g] = rec[job[g]]]
          /\ UNCHANGED <<job, app, tries, change, visible>>
       \/ /\ rec[job[g]] = NoImpact \/ "outage" \in Faults
          /\ Return(g)
    /\ UNCHANGED <<redis, gateway, expired, unhanded, removed>>

\* dataclasses.replace on the record as it was read: set_complete_reform_impact
\* leaves error_code and the handle as they were, set_error_reform_impact
\* always writes error_code and clears the handle of a typed failure.
Changed(impact, outcome, n) ==
    CASE outcome = "ok"    -> [impact EXCEPT !.stamp = n, !.status = "ok"]
      [] outcome = "error" -> [impact EXCEPT !.stamp = n, !.status = "error",
                                             !.typed = FALSE]
      [] OTHER             -> [impact EXCEPT !.stamp = n, !.status = "error",
                                             !.typed = TRUE, !.handle = FALSE]

\* Mutant: writes the outcome to the record the index now finds first.
UpdateWriteToNewest(g) ==
    /\ pc[g] = "write"
    /\ \E j \in Newest(Found) :
          rec' = [rec EXCEPT ![j] = Changed(rec[j], change[g], rec[j].stamp + 1)]
    /\ Return(g)
    /\ UNCHANGED <<index, lockout, claim, clock, gateway, expired, unhanded, removed>>

\* Mutant: a SET without XX.
UpdateWriteUpserts(g) ==
    LET j == job[g] IN
    /\ pc[g] = "write"
    /\ rec' = [rec EXCEPT ![j] = Changed(copy[g], change[g], copy[g].stamp + 1)]
    /\ lockout' = IF change[g] = "ok" THEN lockout \ {j} ELSE lockout \union {j}
    /\ index' = index \union {j}
    /\ Return(g)
    /\ UNCHANGED <<claim, clock, gateway, expired, unhanded, removed>>

\* ReformImpactCache.set with only_if_present: SET XX, and the index entry
\* either way. A new end_time starts the delete lockout.
UpdateWrite(g) ==
    LET j == job[g] IN
    /\ pc[g] = "write"
    /\ \/ /\ rec[j] # NoImpact
          /\ rec' = [rec EXCEPT ![j] = Changed(copy[g], change[g], rec[j].stamp + 1)]
          /\ lockout' = IF change[g] = "ok" THEN lockout \ {j} ELSE lockout \union {j}
          /\ index' = index \union {j}
       \/ /\ rec[j] = NoImpact
          /\ index' = index \union {j}
          /\ UNCHANGED <<rec, lockout>>
       \/ /\ "outage" \in Faults
          /\ UNCHANGED <<rec, lockout, index>>
    /\ Return(g)
    /\ UNCHANGED <<claim, clock, gateway, expired, unhanded, removed>>

(***************************************************************************)
(* GET: submitting a job.                                                  *)
(***************************************************************************)

\* Mutant: resolves the worker app again after the lookup decided under one.
ResolveAppAgain(g) ==
    /\ pc[g] = "create"
    /\ app' = [app EXCEPT ![g] = live]
    /\ pc' = [pc EXCEPT ![g] = "claim"]
    /\ UNCHANGED <<redis, gateway, job, copy, tries, change, observed>>

\* _create_economic_impact loads both policies and resolves the worker app,
\* unless the lookup already did; either may raise (see Raise).
ResolveApp(g) ==
    /\ pc[g] = "create"
    /\ app' = [app EXCEPT ![g] = IF app[g] = NoApp THEN live ELSE app[g]]
    /\ pc' = [pc EXCEPT ![g] = "claim"]
    /\ UNCHANGED <<redis, gateway, job, copy, tries, change, observed>>

\* ExpiringClaimStore.acquire: SET NX. A lost reply raises, and the claim it
\* made stays until it expires.
Claim(g) ==
    /\ pc[g] = "claim"
    /\ \/ /\ claim[app[g]] = NoOne
          /\ claim' = [claim EXCEPT ![app[g]] = g]
          /\ expired' = expired \ {g}
          /\ Goto(g, "submit") \/ ("lost" \in Faults /\ Return(g))
       \/ /\ claim[app[g]] # NoOne
          /\ Goto(g, "readclaim")
          /\ UNCHANGED <<claim, expired>>
    /\ UNCHANGED <<rec, index, lockout, clock, gateway, unhanded, removed>>

\* Mutant: an unbounded claim loop.
ReadClaimForever(g) ==
    /\ pc[g] = "readclaim"
    /\ \/ claim[app[g]] = NoOne /\ Goto(g, "claim")
       \/ claim[app[g]] # NoOne /\ Return(g)
    /\ UNCHANGED <<redis, gateway, expired, unhanded, removed>>

\* get_start_claim: another owner's claim answers "computing"; one that is
\* gone is claimed again, until the attempts run out and the request raises.
ReadClaim(g) ==
    /\ pc[g] = "readclaim"
    /\ \/ /\ claim[app[g]] = NoOne
          /\ tries[g] + 1 < ClaimAttempts
          /\ tries' = [tries EXCEPT ![g] = tries[g] + 1]
          /\ pc' = [pc EXCEPT ![g] = "claim"]
          /\ UNCHANGED <<job, copy, app, change, visible>>
       \/ /\ claim[app[g]] # NoOne \/ tries[g] + 1 >= ClaimAttempts
          /\ Return(g)
    /\ UNCHANGED <<redis, gateway, expired, unhanded, removed>>

\* _handle_create_impact, gateway.run: the gateway accepts the job, or refuses
\* it, or accepts it and the reply is lost, which the service takes for a
\* refusal.
Submit(g) ==
    /\ pc[g] = "submit"
    /\ \/ \E j \in Jobs :
             /\ gw[j] = "absent"
             /\ gw' = [gw EXCEPT ![j] = "running"]
             /\ ran' = [ran EXCEPT ![j] = live]
             /\ \/ /\ pc' = [pc EXCEPT ![g] = "store"]
                   /\ job' = [job EXCEPT ![g] = j]
                   /\ UNCHANGED <<copy, app, tries, change, visible>>
                \/ "lost" \in Faults /\ Goto(g, "release")
       \/ /\ Goto(g, "release")
          /\ UNCHANGED <<gw, ran>>
    /\ UNCHANGED <<redis, live, expired, unhanded, removed>>

\* The record of a job just submitted, and its index entry.
NewRecord(g) ==
    /\ rec' = [rec EXCEPT ![job[g]] =
                 [status |-> "computing", hash |-> app[g], start |-> clock,
                  handle |-> TRUE, typed |-> FALSE, stamp |-> 0]]
    /\ index' = index \union {job[g]}
    /\ clock' = clock + 1

\* set_reform_impact raised ReformImpactHandoffError: the request ends and
\* keeps its claim.
HandoffError(g) ==
    /\ Return(g)
    /\ unhanded' = IF claim[app[g]] = g /\ g \notin expired
                   THEN unhanded \union {app[g]} ELSE unhanded

\* Mutant: a failed handoff releases the claim like any other error.
StoreComputingReleases(g) ==
    /\ pc[g] = "store"
    /\ \/ /\ NewRecord(g)
          /\ UNCHANGED unhanded
       \/ /\ "outage" \in Faults
          /\ unhanded' = IF claim[app[g]] = g THEN unhanded \union {app[g]} ELSE unhanded
          /\ UNCHANGED <<rec, index, clock>>
    /\ Goto(g, "release")
    /\ UNCHANGED <<claim, lockout, gateway, expired, removed>>

\* _set_reform_impact_computing. The write may fail, or be done and its reply
\* lost; both raise ReformImpactHandoffError.
StoreComputing(g) ==
    /\ pc[g] = "store"
    /\ \/ /\ NewRecord(g)
          /\ Goto(g, "release")
          /\ UNCHANGED unhanded
       \/ /\ "outage" \in Faults
          /\ HandoffError(g)
          /\ UNCHANGED <<rec, index, clock>>
       \/ /\ "lost" \in Faults
          /\ NewRecord(g)
          /\ HandoffError(g)
    /\ UNCHANGED <<claim, lockout, gateway, expired, removed>>

\* Mutant: a plain DEL of the claim key.
ReleaseAnyToken(g) ==
    /\ pc[g] = "release"
    /\ claim' = [claim EXCEPT ![app[g]] = NoOne]
    /\ Return(g)
    /\ UNCHANGED <<rec, index, lockout, clock, gateway, expired, unhanded, removed>>

\* ExpiringClaimStore.release: the script deletes the claim only if it still
\* holds this request's token. A failed release leaves it to expire.
Release(g) ==
    /\ pc[g] = "release"
    /\ \/ claim' = [claim EXCEPT ![app[g]] = IF @ = g THEN NoOne ELSE @]
       \/ "outage" \in Faults /\ UNCHANGED claim
    /\ Return(g)
    /\ UNCHANGED <<rec, index, lockout, clock, gateway, expired, unhanded, removed>>

(***************************************************************************)
(* DELETE: removing a stored failure.                                      *)
(***************************************************************************)

\* delete_failed_economic_impact's checks of the record it selected: not a
\* failure, or one still in its lockout, is answered and left alone.
CheckFailure(d) ==
    /\ pc[d] = "selected"
    /\ \/ /\ copy[d].status = "error" /\ job[d] \notin lockout
          /\ Goto(d, "delete")
       \/ /\ copy[d].status # "error" \/ job[d] \in lockout
          /\ Return(d)
    /\ UNCHANGED <<redis, gateway, expired, unhanded, removed>>

\* Mutant: deletes the record whatever it holds by now.
DeleteFailureUnchecked(d) ==
    LET j == job[d] IN
    /\ pc[d] = "delete"
    /\ rec' = [rec EXCEPT ![j] = NoImpact]
    /\ index' = index \ {j}
    /\ lockout' = lockout \ {j}
    /\ removed' = [removed EXCEPT ![j] = "deleted"]
    /\ Return(d)
    /\ UNCHANGED <<claim, clock, gateway, expired, unhanded>>

\* ReformImpactCache.delete_failure: the script removes the record and its
\* index entries if the record still holds the value that was checked;
\* otherwise the DELETE selects again, until its attempts run out.
DeleteFailure(d) ==
    LET j == job[d] IN
    /\ pc[d] = "delete"
    /\ \/ /\ rec[j] = copy[d] /\ j \in index
          /\ rec' = [rec EXCEPT ![j] = NoImpact]
          /\ index' = index \ {j}
          /\ lockout' = lockout \ {j}
          /\ removed' = [removed EXCEPT ![j] = "deleted"]
          /\ Return(d)
       \/ /\ ~(rec[j] = copy[d] /\ j \in index)
          /\ tries[d] + 1 < DeleteAttempts
          /\ tries' = [tries EXCEPT ![d] = tries[d] + 1]
          /\ pc' = [pc EXCEPT ![d] = "retry"]
          /\ job' = [job EXCEPT ![d] = NoJob]
          /\ copy' = [copy EXCEPT ![d] = NoImpact]
          /\ UNCHANGED <<app, change, visible, rec, index, lockout, removed>>
       \/ /\ ~(rec[j] = copy[d] /\ j \in index)
          /\ tries[d] + 1 >= DeleteAttempts
          /\ Return(d)
          /\ UNCHANGED <<rec, index, lockout, removed>>
    /\ UNCHANGED <<claim, clock, gateway, expired, unhanded>>

(***************************************************************************)
(* Failures of a request, Redis expiry, and the gateway.                   *)
(***************************************************************************)

\* An exception outside the submission: the policies or the worker app cannot
\* be loaded, the poll or a claim call fails, the delete cannot reach Redis.
Raise(p) ==
    /\ "error" \in Faults
    /\ \/ pc[p] \in {"create", "claim", "readclaim", "delete"}
       \/ pc[p] = "selected" /\ copy[p].status = "computing"
    /\ Return(p)
    /\ UNCHANGED <<redis, gateway, expired, unhanded, removed>>

\* The process serving the request dies between two calls.
Crash(p) ==
    /\ "crash" \in Faults
    /\ pc[p] # "idle"
    /\ Return(p)
    /\ UNCHANGED <<redis, gateway, expired, unhanded, removed>>

\* The calls a request makes while it owns the submission.
Submitting == {"submit", "store", "release"}

\* The 300 seconds of a start claim pass.
ClaimExpires(a) ==
    LET g == claim[a] IN
    /\ "claimttl" \in Faults
    /\ g # NoOne
    /\ claim' = [claim EXCEPT ![a] = NoOne]
    /\ expired' = IF pc[g] \in Submitting /\ app[g] = a
                  THEN expired \union {g} ELSE expired
    /\ unhanded' = unhanded \ {a}
    /\ UNCHANGED <<rec, index, lockout, clock, gateway, local, visible, removed>>

\* A record's lifetime passes (30 days, or 120 seconds for a retryable
\* failure), or Redis evicts it.
RecordExpires(j) ==
    /\ "recordttl" \in Faults
    /\ rec[j] # NoImpact
    /\ rec' = [rec EXCEPT ![j] = NoImpact]
    /\ lockout' = lockout \ {j}
    /\ removed' = [removed EXCEPT ![j] = "expired"]
    /\ UNCHANGED <<claim, index, clock, gateway, local, expired, unhanded, visible>>

\* The index expires before the records it lists.
IndexExpires ==
    /\ "recordttl" \in Faults
    /\ index # {}
    /\ index' = {}
    /\ UNCHANGED <<claim, rec, lockout, clock, gateway, local, observed>>

\* The lockout seconds pass since the record's end_time.
LockoutPasses(j) ==
    /\ j \in lockout
    /\ lockout' = lockout \ {j}
    /\ UNCHANGED <<claim, rec, index, clock, gateway, local, observed>>

\* The gateway finishes a job, one way or another; it never changes its mind.
JobEnds(j) ==
    /\ gw[j] = "running"
    /\ \E state \in JobStates \ {"absent", "running"} : gw' = [gw EXCEPT ![j] = state]
    /\ UNCHANGED <<redis, ran, live, local, observed>>

\* A release makes the version map name another worker app.
Deploy(a) ==
    /\ "deploy" \in Faults
    /\ live # a
    /\ live' = a
    /\ UNCHANGED <<redis, gw, ran, local, observed>>

GetStep(g) ==
    \/ Refresh(g) \/ Replay(g) \/ AnswerFailure(g) \/ Poll(g)
    \/ UpdateRead(g) \/ UpdateWrite(g)
    \/ ResolveApp(g) \/ Claim(g) \/ ReadClaim(g)
    \/ Submit(g) \/ StoreComputing(g) \/ Release(g)

DeleteStep(d) ==
    \/ Refresh(d) \/ CheckFailure(d) \/ DeleteFailure(d)

Next ==
    \/ \E p \in Requests : Lookup(p) \/ Raise(p) \/ Crash(p)
    \/ \E g \in Gets : GetStep(g)
    \/ \E d \in Deletes : DeleteStep(d)
    \/ \E a \in Apps : ClaimExpires(a) \/ Deploy(a)
    \/ \E j \in Jobs : RecordExpires(j) \/ LockoutPasses(j) \/ JobEnds(j)
    \/ IndexExpires

Spec == Init /\ [][Next]_vars

(***************************************************************************)
(* Properties.                                                             *)
(***************************************************************************)

\* A start claim admits one submitter: of two GETs submitting for the same
\* options hash, one has outlived its claim. Nobody but its owner, and the
\* 300-second expiry, ends a claim (claims.py compares the token to release).
OneSubmitterPerClaim ==
    \A g, h \in Gets :
        /\ pc[g] \in Submitting /\ pc[h] \in Submitting
        /\ app[g] = app[h]
        /\ g \notin expired /\ h \notin expired
        => g = h

\* When an accepted job could not be recorded, its claim stays until it
\* expires, held by a request that is no longer submitting, so that nobody can
\* claim the same submission (economy_service.py, ReformImpactHandoffError).
UnhandedJobKeepsItsClaim ==
    \A a \in unhanded :
        /\ claim[a] # NoOne
        /\ ~(pc[claim[a]] \in Submitting /\ app[claim[a]] = a)

\* What a stored impact may say of a job in the given state.
Truthful(impact, state) ==
    /\ impact # NoImpact => state # "absent"
    /\ impact.status = "ok" => state = "complete"
    /\ impact.status = "error" /\ ~impact.typed => state = "failed"
    /\ impact.status = "error" /\ impact.typed => state \in {"complete", "spm"}

\* A record says of its job what the gateway says of it: pollers that finish
\* late and out of order never record one job's outcome on another, nor turn a
\* result into a failure that is not typed.
StoredOutcomeIsTheJobs == \A j \in Jobs : Truthful(rec[j], gw[j])

\* DELETE removes a failure whose lockout has passed and nothing else: never a
\* computing or completed record, and never a failure written again, with a new
\* end_time, after the DELETE checked it.
DeleteOnlyOldFailures ==
    [][\A j \in Jobs :
          removed[j] # "deleted" /\ removed'[j] = "deleted" =>
              rec[j].status = "error" /\ j \notin lockout]_vars

\* The gateway accepts a job that g submits.
Submits(g) ==
    pc[g] = "submit" /\ \E j \in Jobs : gw[j] = "absent" /\ gw'[j] # "absent"
                                        /\ pc'[g] # "submit"

\* A GET that saw a job's record when it decided never submits a second job for
\* that record's worker app, though the live app changes in between.
VisibleJobIsNotDuplicated ==
    [][\A g \in Gets : Submits(g) =>
          \A j \in visible[g] : rec[j] # NoImpact => rec[j].hash # app[g]]_vars

\* "the submission claim token that guards against duplicate simulation jobs"
\* (economy_impact_types.py): no job is submitted for an options hash that has
\* a stored computing job.
NoDuplicateJob ==
    [][\A g \in Gets : Submits(g) =>
          \A j \in Jobs : rec[j].status = "computing" => rec[j].hash # app[g]]_vars

\* What the cache says of a job, from its record and how it left Redis.
Life(impact, how) ==
    CASE impact = NoImpact -> IF how = "no" THEN "unrecorded" ELSE "forgotten"
      [] impact # NoImpact /\ impact.status = "error" ->
             IF impact.typed THEN "typed" ELSE "error"
      [] OTHER -> impact.status

Lifecycle == INSTANCE ImpactLifecycle
                WITH outcome <- gw, life <- [j \in Jobs |-> Life(rec[j], removed[j])]

\* The records implement the lifecycle that ImpactLifecycle promises of a job:
\* recorded once, after it was accepted; reported as it ended; and, once its
\* record was deleted or expired, never put back by a late write.
ImplementsLifecycle == Lifecycle!Spec

(***************************************************************************)
(* Liveness. A started request keeps taking its steps, and each client     *)
(* asks again after an answer, as the app does while it is shown           *)
(* "computing".                                                            *)
(***************************************************************************)
Fairness ==
    /\ \A g \in Gets : WF_vars(Lookup(g) \/ GetStep(g))
    /\ \A d \in Deletes : WF_vars((pc[d] = "retry" /\ Lookup(d)) \/ DeleteStep(d))

FairSpec == Spec /\ Fairness

\* Every request ends: the claim loop and the delete loop give up after their
\* attempts, however often the ownership or the record changes under them.
RequestsEnd == \A p \in Requests : pc[p] # "idle" ~> pc[p] = "idle"

\* The job that lookups answer from, once it has ended, is recorded as ended
\* (or its record leaves the cache, or a newer job replaces it).
Unsettled(j) ==
    /\ j \in Newest(Found)
    /\ rec[j].status = "computing"
    /\ gw[j] # "running"

EndedJobIsSettled == \A j \in Jobs : Unsettled(j) ~> ~Unsettled(j)
=============================================================================
