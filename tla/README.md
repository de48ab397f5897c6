# A TLA+ model of the PolicyEngine API's shared work

PolicyEngine API answers HTTP requests about tax and benefit policy. Almost all
of a request is sequential computation. What is hard to test is what requests
share: simulation jobs that many clients ask for at once, coordinated through
Redis; records that live in one database and are copied to another; report
outputs and their run history; the versions of the metadata catalog, published
and pruned while they are read; and accounts that a signed-out browser's work
moves into. This project models those parts, checks them on small instances
with TLC, and proves the most important properties for every instance with
TLAPS.

Paths below are relative to `policyengine_api/` unless they start with another
top-level directory.

## Inventory

| Component | State it keeps | Operations | What makes it correct |
|---|---|---|---|
| Economic impacts: `services/economy_service.py`, `economy_impact_execution.py`, `economy_stored_impacts.py`, `reform_impacts_service.py` | none of its own; each request carries what it read | GET: look up, refresh after a release, poll, replay, claim, submit, record. DELETE: select, check, remove, retry | one submitter per claim; a record says of its job what the gateway says; DELETE removes only old failures; requests end |
| Stored impacts and claims: `runtime_cache/reform_impacts.py`, `claims.py` | in Redis: a record per job, an index per scope, a start claim per options hash | SET NX, SET XX, compare-and-delete scripts, expiry | compare-and-delete never removes another's value |
| Budget windows: `services/economy_budget_window_*.py`, `budget_window_cache.py` | in Redis: one state per report (starting, submitted, completed, failed) | read, claim, submit, store, poll, settle, release | one batch per report; a settled report stays settled; a claim is resolved |
| Household copies: `services/household_service.py`, `household_mirroring.py`, `routes/household_routes.py`, `scripts/process_v1_household_mirror_event.py` | Cloud SQL: household, create event | create with event, lock event, copy, mark processed, operator's replay | a processed event was copied; replays change nothing |
| v2 households: `services/v2/households/` | Supabase: households unique by content hash, legacy mappings | create native, mirror legacy | one row per content; no row without a reason |
| v1 policies and copies: `services/policy_service.py`, `policy_mirroring.py`, `services/v2/policies/` | Cloud SQL: policies. Supabase: policies unique by content, mappings | look up or insert, copy after the commit, v2 POST | one copy per v1 policy, for good, whichever release translated it |
| Saved policies and copies: `services/user_policy_service.py`, `user_policy_mirroring.py`, `services/v2/user_policies/` | Cloud SQL: saved policy, numbered revisions. Supabase: users, associations, their mappings | create, update, copy pending revisions in order | the copy only advances and carries the name of its revision |
| v1 reports and simulations: `services/report_output_service.py`, `report_output_runs.py`, `simulation_service.py` | MySQL: report outputs, simulations, a run of each, run pointers | POST, GET, PATCH, each with the dual write into runs | a run repeats its record; a finished report is not lost |
| v2 catalog publication: `data/v2/catalog/publication*.py` | Supabase: stored versions, what each still has, when it was published and pruned | publish, restore, choose, prune; promote | versions in use keep their data |
| v2 metadata reads: `services/v2/metadata/`, `fastapi_routes/v2/metadata/` | per process: kept selections, kept bodies, builds in flight | select, read, check again, keep, wait for a build | an answer is true of the version at some moment of the request |
| v2 associations and accounts: `services/v2/identity/`, `user_accounts/`, `user_policies/`, `user_households/`, `user_simulations/`, `user_reports/` | Supabase: users, identities, associations; Auth0 users | provision, upgrade (convert or merge), five operations on four kinds of saved work, export, close | users and identities pair up; saved work is lost only on its owner's request |
| Simulation gateway (outside the repository), reached through `libs/simulation_entrypoint.py` | jobs and batches | accept, finish, report | external: a job ends once and never changes its end |
| Household calculations, comparison runs, v1 reruns and aliases, v2 engine, runtime cache core, privileges, catalog extraction, assembly, logging, country packages, SPM release data | see `PROJECT.json` | | not modelled: see *Not modelled* |

Interaction. An economy GET asks `ReformImpactCache` for a stored impact; if
none can be reused it takes a start claim in Redis, submits a job to the
gateway, records it and releases the claim. Later GETs find the record, poll
the gateway and store how the job ended. A DELETE removes a stored failure so
that the next GET starts again. Budget windows follow the same idea with one
key in place of record, index and claim. A v1 household POST commits the
household and a create event in MySQL, and then, holding the event's row lock,
runs a separate PostgreSQL transaction that stores the v2 household and the
mapping; then it marks the event. If anything fails, the event stays pending
and an operator replays it. Saved policies work the same way with a revision
per write, and copy their reform policy in the same transaction; a v1 policy
alone is copied after its commit with nothing retained. The policies are
translated under the catalog that the metadata publication stored.

What is hard: every request runs concurrently with others in other processes;
there is no lock around look up - claim - submit - record; claims expire by
time; any Redis, database or gateway call can fail, or take effect and lose its
reply; a process can die between two calls; a release changes the worker
application, the translation and the served version at any moment; two
databases commit separately; an ORM session keeps values it loaded before it
locked a row. `PROJECT.json` lists each hazard at its line with the properties
that would catch it.

## Modules

| Module | Models |
|---|---|
| `ReformImpacts` | GET and DELETE on one economy URL, its records, index, claims, the gateway's jobs |
| `ImpactLifecycle` | what the stored impacts promise of one job; `ReformImpacts` implements it |
| `BudgetWindow` | requests for one budget-window report |
| `HouseholdMirror` | v1 POSTs, operators' replays and v2 POSTs of households over both databases |
| `PolicyCopies` | v1 and v2 POSTs of policies over both databases |
| `SavedPolicies` | saved policies, their revisions and copies; extends `PolicyCopies` |
| `V1Reports` | v1 reports, simulations and their runs |
| `CatalogPublication` | publication, pruning and promotion of catalog versions |
| `CatalogReads` | the metadata requests of a process; extends `CatalogPublication` |
| `UserIdentity` | the v2 user a request acts as: provisioning and upgrade |
| `UserResources` | the four kinds of saved work; extends `UserIdentity` |
| `UserAccounts` | the account itself, and the whole; extends `UserResources` |
| `MC...` | symmetry, constants and scenarios for TLC |
| `ReformImpactsProofs`, `BudgetWindowProofs`, `HouseholdMirrorProofs`, `SavedPoliciesProofs`, `CatalogPublicationProofs`, `CatalogReadsProofs`, `UserAccountsProofs`, `V1ReportsProofs` | the theorems and proofs of each |

### ReformImpacts

A request is a program counter and the local variables of the Python call
stack: the job it selected (`job`), the record as it last read it (`copy`), the
worker application it resolved (`app`), its loop counter (`tries`) and what it
is about to store (`change`). Every call to Redis or the gateway is one action,
so everything read before a call may be stale after it.

| Action | Code |
|---|---|
| `Lookup`, `Refresh` | `_get_reusable_impact`: look up under the unresolved options hash, and, for a finished record that is not from the live worker app, again under the resolved one |
| `Poll`, `Replay`, `AnswerFailure` | `_handle_computing_impact` with `_handle_execution_state`; `_handle_completed_impact`; `_handle_failed_impact` |
| `UpdateRead`, `UpdateWrite` | `ReformImpactCache.update`: a read, then `SET XX` with the index entry |
| `ResolveApp`, `Claim`, `ReadClaim` | `_create_economic_impact`, `_claim_reform_impact_submission` and its bounded loop |
| `Submit`, `StoreComputing`, `Release` | `_handle_create_impact`, `_set_reform_impact_computing`, the release in `_create_economic_impact`; a failed handoff keeps the claim |
| `CheckFailure`, `DeleteFailure` | `delete_failed_economic_impact` and the script `DELETE_UNCHANGED_RECORD` |
| `Raise`, `Crash` | an exception leaves the service; the process dies |
| `ClaimExpires`, `RecordExpires`, `IndexExpires`, `LockoutPasses` | Redis lifetimes and the delete lockout |
| `JobEnds`, `Deploy` | the gateway, external |

Abstractions. One scope and one spelling of the options is modelled, so an
options hash is the worker app it was resolved to. A record keeps status, hash,
start order, whether its execution id is still in the payload, whether its
error is typed, and a write stamp that stands for `end_time`: the delete script
compares encoded records, and two writes differ in `end_time`. Certification of
a worker's result by `worker_spm.py` is a choice: the same result may pass in
one build and fail in another. `expired`, `unhanded`, `visible` and `removed`
are observations for the properties, and no action's guard reads them.
Start times increase with submission; skew between the clocks of two
instances is not modelled. `delete_matching_computing` and its service method
have no caller in this commit and are no actions.

### BudgetWindow

The report's key holds a `BudgetWindowCacheState` or a value that this build
cannot decode (`"unreadable"`, which `get_state` removes). Claiming is `SET NX`
on that same key, which is why two requests cannot both submit as long as Redis
answers. `Settle` is `_set_recoverable_state`, an unconditional `SET` whose
failure is only logged. The job of a terminal state stands for its stored
result or error: whose it is. `faults` is chosen once, from `Regimes`: each
property names the faults under which the code promises it.

### HouseholdMirror

Every SQL statement is one action; `row` and `map` are what is committed, and
`mine`, `mapped` what a transaction has inserted and not committed. `INSERT ...
ON CONFLICT DO NOTHING` waits for another transaction's uncommitted row with
the same key and then finds it or inserts: that is the guard of
`InsertHousehold` and `InsertMapping`. `LockEvent` and `ReadMapping` wait for
row locks. `LoseLock` is a dropped MySQL connection: the row lock is released
while the worker's PostgreSQL transaction goes on. A document, a content and a
translation (`Translate`) are abstract; a content's SHA-256 stands for the
content, so collisions, which `create_normalized_household` detects and
refuses, do not occur. The v1 household and the event's snapshot never change,
so fingerprints always match. One build is modelled: `Translate` does not
change during a behaviour.

### PolicyCopies and SavedPolicies

A v1 POST of a policy looks it up by hash and label, inserts it when it is new,
commits, and copies it (`LookUp`, `InsertLegacy`, `CopyPolicy`, `CommitCopy`).
A saved-policy request writes the saved policy and its next revision in one
transaction (`Save`, `Update`), then copies every pending revision up to its
own, oldest first (`LockNext`, `CopyReform`, `ReadUser` to `InsertAssociation`,
`CommitSaved`, `MarkProcessed`). As in `HouseholdMirror`, a statement is a step
and uncommitted rows make other inserts wait. `Translate` depends on the
release that serves the request, and a release can translate only once its
catalog is published (`Publish`): during a roll-out two instances may give one
policy two contents. A label set while a copy could not be recorded is in
`unrecorded`, and `NameIsOfItsRevision` excludes it. No route of this commit
calls the saved-policy services; `tests/integration/test_v1_user_policy_dual_write.py`
does.

### V1Reports

A request is one InnoDB transaction at the default isolation level (no other is
set in `data/orm.py`). Plain reads see the snapshot of the first plain read;
`FOR UPDATE` reads see the committed row. The session (`tx`) keeps `base`, what
it first loaded of a row, and `mine`, what it has made of it; a flush writes
only the columns that differ, to the record and to its run. This is what can go
wrong: a session that loaded a row before it locked it judges and writes from
old values. `Open`, `PatchCurrent` and `PatchOutdated` are the three ways in,
`Insert` creates the report of this build's cache version, `Lock` takes the
locks of the dual write one by one, `Finish` is the rest of the transaction. An
update under an outdated id ends in `FinishRedirected`: it flushes the first dual
write, reads the run again (`Reread`: the row as it is now, with the columns that
others have committed, if this transaction has written to it, else the snapshot),
judges and updates the report, and does the dual write again. Whether the first
dual write touches the run when its result is unchanged depends on columns that are
not tracked (`restamps`: a simulation was PATCHed by another build since). A PATCH
of a simulation locks its one row before it reads, so it is one step. POST
/simulation finds its row by a locking read that no index serves: `Scan` takes the
rows one by one in the order of their ids and keeps those that do not match, and
`PostSimulation` is the rest. Gap locks are left out: of two scans one already waits
for the other at the first row, and a scan of an empty table has no row to meet a
report at. InnoDB breaks a circle of waits by rolling a member back (`Victim`). `_require_simulation`
discards what it loads, so it leaves nothing in the session. Simulations are
never deleted. Reruns and aliases have no caller outside tests, so a record has
at most one run. The content of a specification, the version manifest and the
timestamps are not tracked. `Valid` says what the routes accept; `Storable`, what
the database may hold before the first request: runs that repeat their records,
records without a run (stored before runs existed) or without a kind, and results
of the former SPM format. It also says that a report's simulations exist, which no
code can end since none deletes a simulation; the branch for a missing one
(`report_output_runs.py:332`) is therefore left out. All reports are of the country
`us`, the only one whose completed reports are checked (`Unsound`).

### CatalogPublication and CatalogReads

A seed job publishes a version under the advisory lock (`PublishCatalog`: a new
version, or one restored if it had been pruned), then chooses what to prune
without the lock (`ChooseOlderVersions`) and prunes each version in a
transaction of its own if the rule still chooses it (`PruneIfStillChosen`). A
transaction that holds the lock is one step. `Promote` and `PromotionFails` are
the release workflow's (external). A version is the set of data pruning would
delete, its marker and its two publication times.

A metadata request reads in autocommit mode, one statement a step: it uses a
kept selection or makes one (`Select`, `Recheck`, `Query`), reads its rows
(`Read`) and, if it found none, reads the marker again (`Verify`). The two
whole-version routes go through the response cache first (`Look`, `Join`,
`LookAgain`) and may wait for another request's build. `seen` records the
conditions the version was in during the request, and during the build a body
came from. The initial versions are taken to have been published since their
trees and search files were added; time-period options are not tracked.
`catalog_last_published_at` is the start of the publishing transaction, before
it has the lock, so versions published by overlapping jobs are ordered by who
started: `ServingIsKept` is claimed without jobs dispatched by hand, and
`RecentAreKept` with at most one of them beside a release's (`OneByHand`; see
*Known weaknesses*). `ServingIsKept` counts the releases published and not
promoted since the last promotion: the older serving revision keeps its data
while they are fewer than `KeptOthers`.

### UserIdentity, UserResources, UserAccounts

The tables are the committed rows; what an open transaction inserted or locked
is in its request's record and is applied by `Commit`. An unauthenticated user
is the UUID its browser sends; a standard user is reached by a verified
subject. `Resolve` finds or provisions the owner. A known identity's activity is refreshed
once an hour or when its email changes: whether it is due is a choice, and
`RefreshActivity` is the UPDATE of the identity's row, locked until the transaction
ends. `InsertUnauthenticated` and
`ShareUnauthenticated` take the share lock that an upgrade's
`FOR UPDATE` (`LockForUpgrade`) waits for; `ConvertInPlace`, `Reassign` and
`DeleteMerged` are the two ways an upgrade ends; `CloseStandard` deletes the user's
row and `Cascade` the identity's and the associations, for which it may have to wait
while it holds the first. The four resources share their
steps, and each operation of each has an action. Row locks are what
PostgreSQL takes for these statements: `FOR SHARE` and `FOR UPDATE` on the
user, the lock of an UPDATE or DELETE of it and of its identity (`HoldsActivity`,
`HoldsDelete`), the foreign key's share lock on the owner of an inserted row
(`OwnerIsFree`) and on the new owner of the rows a merge moved
(`HoldsOwnerKey`), and the lock on a row that a merge has updated
(`ItemIsFree`); each lasts until its transaction ends. Token verification and a
missing v1 reference are choices that refuse the request. `reuses` observes
that a browser inserted its user again, under its UUID, while a signed-in
request was open that had found the account converted from it; `NoIdIsReused`
excludes that case from three properties (see *Known weaknesses*). Names, descriptions
and the artifacts an association refers to are not tracked. The loop of
`_delete_standard_account` over a user's subjects is one step, as a user has one.
Not among the starts are the standard users without an identity that
`create_transition_user` makes for the saved-policy copies (`docs/migration/stage-12a-user-login.md:38`):
no credential names them, so no request of these routes reaches them, and
`AccountsMatchIdentities` speaks of the other users.

## Runs

| Run | Instance | Shows |
|---|---|---|
| `impact_claims` | 2 GETs, 2 jobs, 1 app; outages, lost replies, errors, crashes, expiring claims | `TypeOK`, `OneSubmitterPerClaim`, `UnhandedJobKeepsItsClaim` |
| `impact_deploys` | 2 GETs, 2 jobs, 2 apps; releases | `StoredOutcomeIsTheJobs`, `VisibleJobIsNotDuplicated` |
| `impact_liveness` | 2 GETs, 1 DELETE, 1 job; expiring records | `RequestsEnd`, `EndedJobIsSettled`, `DeleteOnlyOldFailures`, and `ImpactLifecycle` is implemented |
| `impact_duplicates` | 2 GETs, 2 jobs, no faults | `NoDuplicateJob` is violated (finding) |
| `budget_window` | 2 requests, 2 batches; five sets of faults | `OneSubmitter`, `StoredOutcomeIsTheBatchs`, `OneBatchWhileRedisAnswers`, `BatchKeepsItsPlace`, `RequestsEnd`, `ClaimIsResolved`, `EndedBatchIsSettled` |
| `budget_duplicates` | 2 requests, 2 batches; outages | `OneBatch` is violated (finding) |
| `household_mirror` | 1 POST, 2 operators, 1 native POST on one household; failures, lost commits, lost locks | `TypeOK`, `ProcessedIsCopied`, `OneRowPerContent`, `NoOrphanRow`, `CopiesAreFinal`, `CopiesEnd` |
| `saved_policies` | 2 saved-policy requests on instances of two releases, a v1 and a v2 POST of the reform policy, 2 revisions; failures, lost commits, lost locks, a catalog published meanwhile | `ProcessedIsCopied`, `NameIsOfItsRevision`, `NothingLeftBehind`, `NoConflict`, `NoWaitCycle`, `CopyAdvances` |
| `v1_reports` | 3 requests on one pair of simulations, 9 stored contents, every pair of 12 calls with a third | `RunMirrorsRecord`, `WaitsAreOrdered`, `FinishedReportsAreKept` |
| `catalog` | 4 versions, 2 releases and a job by hand; 2 requests on two routes at a time during 2 releases | `ServingIsKept`, `RecentAreKept`, `AnswersAreTrue`, `WaitersHaveABuild` |
| `user_accounts` | 3 requests of 2 browsers and one subject, from every start in which users and identities are paired; six families of calls | `AccountsMatchIdentities`, `LinksWithinOwner`, `NoWaitCycle`, `WorkIsKept`, `UpgradeMovesWork` |
| `upgrade_waits` | the same | `UpgradeWaitsForWrites` is violated (finding) |

Bounds. Two clients and two jobs are enough for each race in the protocols: a
stale reader against one writer, a late owner against the next owner. One
DELETE suffices because DELETEs only interfere through the record, which GETs
also change. The second household document cannot be translated.
`ClaimAttempts` and `DeleteAttempts` are 2 (3 in the code): one retry and the
give-up branch. `Jobs`, `Rows` and `MaxRevision` bound what the gateway,
`uuid4()` and the writes hand out; when none is left only refusals happen. Two
revisions and two savers give a revision copied late, twice and by the other
saver. Three report requests give a stale one, the one that makes it stale and
a third that reads what they left; the stored contents are those a deployment
leaves behind: only the report of the former version, both, a record stored
before runs existed, and a simulation missing. `KeptOthers` is 2 as in the
code and `PrunedPerRun` 1 (2 in the code), so that the limit takes effect with
four versions; `Budgets` limits each behaviour to a few jobs and the requests to
one or two routes, because the routes only meet in the kept selections and bodies.
Three account requests are a write, an upgrade or a closing, and a third party of
either; more only add writes of the same kinds. Household workers, saved-policy, account and
report requests run once: the first three kinds of run are checked with deadlock
off, and `NoWaitCycle` and `CopiesEnd` say that nobody is left waiting: of any
requests that are not answered, one waits for none of the others, nor for a lock
of one that was. `Waits` says for whom a statement waits, in the same terms as the
statements' guards (`PolicyWaits` and `SaverWaits` are the guards; the `Holds`
operators of `UserIdentity` occur in both). In `UserAccounts` there is one exception,
`MeetsDeletion`, which the run reaches; `RequestFails` is how PostgreSQL ends it.
The run `v1_reports` checks for deadlock, with `Rest` for the state in which every request
was answered. All other runs check for deadlock.

Larger instances. Runs that check liveness cannot use symmetry and stay small.
The safety properties they also check were model-checked on larger instances
under `Spec`, with no error: `BudgetWindow` with 3 requests and 3 batches, all
regimes, with symmetry (4.8 million states), where a poller of an old batch meets
two submitters; `HouseholdMirror` with 2 POSTs, 1 operator and 2 households
(450 thousand); `ReformImpacts` with 2 GETs, a DELETE, errors, crashes and
expiring records (650 thousand). These are not listed as runs.

Fairness. A started request keeps taking its own steps: weak fairness on the
steps of each request, and, in the economy models, on its lookup, because the
app asks again while it is shown "computing". A household worker takes its next
statement unless it waits for a lock. Nothing is assumed of the gateway, of
expiry, of releases or of failures.

Each property of a passing run has a mutant: an operator, defined just before
the action it replaces and marked `Mutant:`, that changes the action as a
plausible mistake would (`PROJECT.json`, `mutants`).

## Findings

* **A failed handoff of a budget-window batch releases the claim**
  (`budget_duplicates`). README.md says that without Redis "ownership and
  deduplication operations fail closed instead of launching duplicate work".
  When `store_submitted` fails after the gateway accepted the batch, the
  handler clears the starting claim, and the next request starts a second
  batch. The single-year path keeps its claim in this case.
* **The start claim does not by itself prevent a duplicate job**
  (`impact_duplicates`). A GET looks up before it claims and does not look
  again afterwards, so a request delayed between the two submits a second job
  although a computing record is stored. `VisibleJobIsNotDuplicated` is what
  does hold: no GET duplicates a job that it saw.
* **An upgrade does not wait for a browser's first write** (`upgrade_waits`).
  `services/v2/identity/services.py` and
  `docs/migration/stage-12a-user-login.md` say that an upgrade waits for the
  browser's writes in progress. The first write of a browser inserts its user in
  a transaction of its own, which `SELECT ... FOR UPDATE` does not see: the
  upgrade answers `none` and the record stays with an unauthenticated user.

## Known weaknesses without a run

Nine statements hold only with the exception that their property names; TLC finds
the trace when the exception is removed, or the stronger statement, which is kept in
its module, is added to the run's cfg.

* `V1Reports!FinishedIsNotRestarted`. A PATCH under an outdated id loads the
  current report by a plain read; another PATCH completes that report; the first
  then locks it, but the session keeps what it had loaded
  (`_select_report_output` does not ask for `populate_existing`, as the v2
  identity reads do), so it passes the check for "running" and sets a complete
  report back to running, with pointers to match. `FinishedReportsAreKept` is
  what holds: for records with a run this is the only path.
* `V1Reports!RunningAllowed`. A complete report that was stored before runs existed
  accepts "running": `_has_mutable_running_run` answers True when there are no runs,
  although the docstring of `update_report_output` promises a ValueError "when marking
  it running without an active run". `FinishedReportsAreKept` excepts records without
  a run.
* `V1Reports!StaleUpdate`. A PATCH under an outdated id that sends the output which its
  session had loaded changes no column, so the flush leaves the output that another
  PATCH saved meanwhile without certification, while it writes the status "complete":
  a complete economy report whose output nobody certified. `FinishedReportsAreKept`
  excepts updates whose session loaded the report before its result changed, and the
  theorem shows that there is no other path.
* `V1Reports!EveryWriteIsMirrored`. A PATCH under an outdated id that stores a result
  has loaded the current report; another PATCH commits an error on it; and a PATCH of a
  simulation has restamped its version meanwhile, so that the first of the two dual
  writes writes to the run. Between the two the session reads the run again and finds
  the other's error there, but keeps the report it had loaded, without one. It sets the
  run's error back to none, and leaves the report's column alone because for the
  session it has not changed: the record is complete with its result and an error, the
  run complete with the same result and none. `RunMirrorsRecord` excepts the reports
  that such an update has written to (`Overtaken`); the theorem shows that there is no
  other path.
* `V1Reports!Ascends`. A report may name its simulations in descending order of their
  ids. Its dual write then holds the second while it waits for the first: with the dual
  write of a report of others, or with the scan of POST /simulation, which goes
  upwards, that is a deadlock, and InnoDB rolls one of the two back. `WaitsAreOrdered` names
  this, and the redirections of two builds into each other's reports, as the only ways.
* `UserAccounts!MeetsDeletion`. A signed-in request has refreshed its identity's row and
  then waits for the user's (the foreign key of what it saves, or its own PATCH of
  /v2/me); `DELETE /v2/me` has deleted the user's row and its cascade waits for the
  identity's. PostgreSQL rolls one of the two back, with an error to its caller.
  `NoWaitCycle` holds but for this meeting.
* `CatalogReads!KeptBodiesAreWhole`. A version pruned before a request reads its
  rows and restored before `require_unpruned` reads the marker again leaves a
  `/v2/model-catalog/variables` body without its values, kept for the life of the
  process. `docs/migration/stage-9-v2-metadata.md` expects kept bodies to hold
  the values the version had. `AnswersAreTrue` is what holds.
* `UserAccounts!NoIdIsReused`. A conversion in place keeps the browser's UUID as the
  account's id. A signed-in request has found that account; the account is closed; the
  browser writes again under the same UUID, which inserts an unauthenticated user of
  that id; the signed-in request then goes on with the id it had found and deletes, or
  links, the new user's record. `WorkIsKept`, `LinksWithinOwner` and `UpgradeMovesWork`
  are stated without this case; the run's calls include it.
* `CatalogPublication!OneByHand`. `seed-v2-database.yml` has no concurrency group, and
  `record_catalog_publication` stores the start of the transaction, taken before the
  publication lock. Of three jobs that overlap, one that began first and got the lock last
  moves its version's publication time back; a version pruned in between is then among
  the most recent again, without its data. With one job by hand beside a release's this
  cannot happen (`RecentVersionsAreKept`).

Smaller simplifications, none of which a property depends on: `ReformImpacts!Lookup`
reads the index and its records in one step (the code reads the index, then each
record); an error stored over an earlier success keeps that success's payload in the
code and not in the model; a budget-window state of bytes that are not UTF-8 is cleared
in the model and left by `_clear_invalid_state`; the locking read of `LockNext` waits
for the rows it returns and not for those it passes, which come in ascending order; a
saved policy is always created with its mirror event, as the mirrored service does
(`create` called without `record_mirror_event` leaves nothing to copy).

Two GETs or POSTs may also each create a current report for one pair of
simulations; the newer one is served. No source line promises one report per pair.

## Proofs

`ReformImpactsProofs` proves, for any number of requests, jobs, worker apps,
attempts and any set of faults, from `ConstantsAssumption` alone: `TypeCorrect`,
`OneSubmitter`, `HandoffKeepsClaim`, `OutcomesAreTrue`, `DeletesAreSafe`,
`VisibleJobsAreNotDuplicated` and `RecordsFollowLifecycle` (refinement of
`ImpactLifecycle`). The inductive
invariant `IInv` adds to the properties what the requests carry between calls:

* `LocalsSet`: a request has a job, a copy and an app wherever its next call
  uses one;
* `ClaimHeld`: a submitter whose claim did not expire holds it. Without this
  nothing prevents two submitters;
* `CarriedTruth`: a copy, or an outcome about to be stored, is true of its job.
  It stays true because a job's end never changes;
* `RecordedOnce`: a job that is not yet recorded has one submitter, and a
  record that is gone was recorded. Needed for the refinement: nobody puts a
  record back;
* `CopyNotNewer`: a record that still equals the copy a DELETE checked has not
  been written since, so a lockout that had passed is still passed.

`VisibleJobsAreNotDuplicated` needs a second invariant over `IInv`, `SeenInv`: a
record and every copy of it keep the options hash it was created with
(`CopyKeepsHash`), and a GET that is creating a job keeps the worker app its lookup
compared, which is none of those it saw (`PassedOver`). A record it saw that is gone
stays gone, because its job was handed over before.

Preservation is proved by classifying steps (quiet, submission, environment)
and stating once what a step may do to a job, a record, a copy and a lockout.

`HouseholdMirrorProofs` proves, for any number of workers, households,
documents, contents and rows, and any translation: `TypeCorrect`,
`MarksAreTrue`, `ContentsAreUnique`, `CopiesAreAtomic` and
`ReplaysChangeNothing`. Its `IInv` says what a transaction has inserted and
what it found (`StoresTranslation`, `InsertedOnce`, `FoundContent`,
`MappedOnce`, `SawMapping`), that every mapping names its household's copy
(`MappingsAreCopies`), and that a worker marks an event only after its commit
(`MarksCopies`). The event's row lock appears in no conjunct: the uniqueness
constraints alone carry the safety, which is why a lost lock is harmless.

`BudgetWindowProofs` proves, for any number of requests, batches and attempts, any
set of faults and any first state of the key: `TypeCorrect`, `OneRequestSubmits`,
`OutcomesAreTrue`, `OneBatchIsAccepted` and `BatchesKeepTheirPlace`. The key is
written unconditionally, so what must be invariant is who may still write it:
`SubmitterOwns` (a submitter's claim is there, or the report was settled under it),
`WritersMatchState` (while nothing expires, every request about to write polled or
replays the batch the key names) and `BatchKeepsOthersOut` (once a batch was accepted
nobody is left who could claim).

`SavedPoliciesProofs` proves, for any number of saved-policy and policy requests,
documents, releases, translations and revisions, from `ConstantsAssumption` and
`SavedAssumption`: `TypeCorrect`, `ProcessedEventsAreCopied`,
`NamesAreOfTheirRevision`, `CopyingLeavesNothingBehind`, `IntegrityChecksPass`,
`CopiesAdvance` and `WaitsEnd`. `PolicyInv` covers the copying of policies, whoever does it: what a
transaction has inserted and not committed (`Uncommitted`), that one transaction at a
time has an uncommitted mapping of a policy (`MappingIsExclusive`), that a mapping is a
translation of its policy (`MapIsTrue`). `SaverInv` adds that events follow revisions
without gaps (`EventsFollowRevisions`), that the copy stands at a revision with that
revision's label and the reform's copy (`CopyMatchesSource`), what a request knows at
each statement (`SaverPlace`, `SaverUser`, `SaverAssociation`), and that of the
transactions on one saved policy only one has inserted its association and only one
holds its mapping's row (`SaversExclude`). The event's row lock appears in no
conjunct, as with households: it may be lost with its connection, and the unique keys
and the row lock in v2 carry the safety. For `WaitsEnd`, `LocksInv` adds that a
transaction has no lock before it came to it nor after it ended; it takes its locks in
one order (`Stage`), waits only for one that is further (`WaitsForFurther`), and of any
requests one is furthest.

`UserAccountsProofs` proves, for any number of requests, browsers, subjects and stored
records and for any calls, from `IdentityAssumption`: `TypeCorrect`,
`OneIdentityPerUser`, `LinksStayWithinOwner`, `WorkIsKeptFromOthers`,
`UpgradesMoveWork` and `WaitsEnd`. `UsersInv` says that identities name distinct standard users
(`OneIdentity`), where a user's id comes from (`UsersHaveAnOrigin`), that what a
transaction has locked is still there (`WhatIsHeldStands`), which transactions exclude
each other (`TransactionsExclude`) and whom a request acts as (`OwnersAreAccounts`,
`OwnersAreTheSubjects`). `RecordsInv` says that records belong to users
(`RecordsStand`), that a merge has moved all of the browser's records when it deletes
the browser's user (`MergesAreComplete`), and that what a request checked of a record
still stands when it writes (`ChecksStand`). The locks that the proof needs are those
listed above: without the key lock on a merge's new owner, closing that account leaves
records of nobody. Here no order of the locks is enough for `WaitsEnd`, since a merge
may wait for a user whom another upgrade holds as its browser. Of any open requests
the one at the end of a merge waits for nobody; one that has inserted its user,
refreshed its identity or shares the browser's row only for such an end, or it is the
refreshed request that a deletion meets (`RestingWaits`); a deletion that cascades only
for a refreshed request (`CascadeWaits`); and any other for one of these or for an
upgrade. Among upgrades that hold their browsers, `UpgradesEnd` says that one acts
as a user whom none of them holds: an upgrade finds its user after it has locked its
browser, and a user found through an identity is then nobody's locked browser.

`CatalogPublicationProofs` proves, for any countries, versions, first contents, jobs
and limits, from `CatalogAssumption`: `RecentVersionsAreKept` and
`ServingVersionIsKept`. The invariant says of each stored version that it has its data
or its marker, that publication times of a country differ (`TimesDiffer`), that a
pruned version has at least `KeptOthers` newer ones, also without the version that an
overlapping job which began earlier has still to record an older time for
(`PrunedAreOld`, with `TwoJobs` on the times of two such jobs), and that releases alone
publish in order, so that only as many versions are newer than the serving one as were
not promoted (`ServingIsStored`, `ReleasesInOrder`). The cardinality arguments rest on
`FiniteSetTheorems`.

`V1ReportsProofs` proves, for any number of requests, any calls the routes accept, any
simulations, populations and stored rows, from `ReportsAssumption`:
`RunsMirrorTheirRecords`, `FinishedReportsStay` and `LocksAreOrdered`. A COMMIT writes
what a session made of values it loaded earlier, so the invariant relates the two:
`Since` says how a report may differ from an earlier state of it (once mirrored it
stays so, an output is not taken back, its first kind is its last); `Loaded`, that
what a session loaded of a report is such an earlier state and of a simulation is the
row itself, except for a run older than its record (`LoadedSim`); `TargetOK`, what the session
has made of its report; `ToLockReport` and `ToLockSims`, which locks it has and in
which order it takes the others. Around it stand `RowsOK` (every commit leaves
well-formed rows), `IdsLeft` and `InsertedApart` (ids of INSERTs). `FlushReport` and
`FlushSim` are the lemmas on which the first two theorems rest: writing the changed
columns over a later state of the same record leaves a record that its run repeats.
`SessionsAgreeWithRows` excepts overtaken reports wherever it relates a report to its
run. For `LocksAreOrdered`, of requests that wait in a circle and take simulations in
the order of their ids, by a report or by the scan, the one that waits for the highest
would have to wait for a higher one (`AscendingLocks`, with `Scanned` on what a scan
holds); and of requests on reports of the same simulations, in whatever order, the one
with the fewest locks still to take for one with fewer (`SameSimulations`).

`CatalogReadsProofs` extends `CatalogPublicationProofs` and proves, for any requests, routes, capacity of the
response cache and restarts, from `ReadsAssumption` as well: `ReadsAnswerTruly` and
`NobodyWaitsAlone`. `ReadInv` says what a request in progress has seen at each
statement (`Sees`, `FoundRows`, `Missed`, `Confirmed`, `HasTree`), that selections are
of stored versions (`KeptOK`), and that every kept body tells what its build saw
(`CacheOK`). A commit that comes between two statements adds to what the requests have
seen and makes nothing they have seen untrue.

The assumptions on the constants say that the values standing for "none" differ from
the others, that rows have ids of their own, and that versions are numbered from one;
TLC evaluates them on every run. Theorems named `Inductive`, `PublicationInductive`,
`ReadsInductive` and `SessionsAgreeWithRows` state the whole invariant, of which the others are consequences; each
invariant was model-checked on the run's instance before it was proved.

Only model-checked: the liveness properties (`RequestsEnd`, `EndedJobIsSettled`,
`ClaimIsResolved`, `EndedBatchIsSettled`, `CopiesEnd`), which are out of the prover's
reach. Every other property of a passing run is stated by a theorem.

## Plan

1. An outbox specification that both the household and the saved-policy copies
   implement, and a household translation that changes with a release.
2. Comparison runs, once a caller exists.

## Not modelled

The models cover the code in which requests share state; measured in lines that
is the smaller part of the repository. The rest is left out for these reasons:

* HTTP parsing and responses, validation of requests, region and year rules, the
  construction of simulation payloads, protocol and record types, observability
  identifiers, logging and tracing: they read shared state or compute values and
  decide nothing that two requests share.
* Country packages and SPM release data (`country.py`, `spm.py`,
  `worker_spm*.py`), the translation and canonical form of households and
  policies, catalog extraction and staging: pure functions over nested data. The
  models need only that they are functions, and that they may refuse.
* Household calculations: the cache of `/calculate` is one read before and one
  write after a computation outside the repository; no other code reads it.
* The runtime cache core, the engine per process and the machine-token caches:
  each is one step inside the actions that use it.
* Comparison runs, v1 reruns, simulation specifications and report aliases: no
  code of this commit calls them outside tests.
* Privilege reconciliation, database migrations, migration qualification, the
  repository's rule checkers, release and telemetry scripts: sequential tools run
  by one operator or job at a time.
