------------------------------ MODULE V1Reports ------------------------------
(***************************************************************************)
(* v1 report outputs and simulations (services/report_output_service.py,   *)
(* report_output_runs.py and simulation_service.py) and the run history    *)
(* that mirrors each of them.                                              *)
(*                                                                         *)
(* A request is one InnoDB transaction at the default isolation level:     *)
(* plain reads see the snapshot of the transaction's first plain read, FOR *)
(* UPDATE reads see the committed row, and a row stays locked until the    *)
(* transaction ends.  The ORM session keeps the first values it loaded of  *)
(* a row it still refers to, also when a later FOR UPDATE read finds newer *)
(* ones, and writes only the columns whose value it changed.               *)
(*                                                                         *)
(* Only the dual write creates runs, so a record has at most one: a record *)
(* stored before runs existed has none.  Not tracked: the specification,   *)
(* the version manifest and the timestamps of a run.                       *)
(***************************************************************************)
EXTENDS Naturals, FiniteSets, Sequences, FiniteSetsExt, Functions

CONSTANTS Requests,     \* the requests, one transaction each
          Sims,         \* the simulations' identities
          Calls,        \* the calls the requests may make: [Requests -> call]
          Population,   \* each simulation's population: its type and its id
          Stored,       \* the contents the database may start with
          FirstNewId,   \* the next report id of those contents
          Outputs,      \* what a client may store as a result
          NoOne, NoRun, NoOutput,
          Legacy,       \* an output with SPM fields of the former format
          Uncertified   \* a report output without valid SPM provenance

VARIABLES db,      \* the committed rows: report ids and simulations to records
          nextId,  \* report_outputs' AUTO_INCREMENT
          lock,    \* the holder of each row's lock
          call,    \* what each request asks for
          tx       \* each request's transaction and session

vars == <<db, nextId, lock, call, tx>>

ReportIds == 1..(FirstNewId + Cardinality(Requests) - 1)
Rows == ReportIds \union Sims

Statuses == {"pending", "running", "complete", "error"}
Live == {"pending", "running"}

\* Records of reports and of simulations, and their runs.  A simulation has no
\* cache version, no simulations and no kind.  num is a simulation's place in the
\* order of the ids; a report's id is its key.
Run == [status: Statuses, output: Outputs \union {NoOutput}, error: BOOLEAN]
Row == [num: Nat, ver: Nat, sims: Seq(Sims), status: Statuses, output: Outputs \union {NoOutput}, error: BOOLEAN,
        kind: {"none", "economy", "household"}, run: Run \union {NoRun}, active: BOOLEAN, latest: BOOLEAN]

\* What the routes accept.
Call == [op: {"get", "post", "patch", "simpatch", "simpost"}, report: Nat, sims: Seq(Sims), sim: Sims,
         ver: Nat, status: Statuses \union {"keep"}, output: Outputs \union {NoOutput}, error: BOOLEAN]
Valid(c) ==
    /\ c \in Call
    /\ c.op \in {"patch", "simpatch"} => c.status # "keep" \/ c.output # NoOutput \/ c.error
    /\ c.status = "complete" => c.output # NoOutput
    /\ c.op = "simpatch" => c.status # "running" /\ c.output # Legacy

\* A session that has read nothing yet.  late, for observation, is the report that
\* the transaction has written over a later state than it had loaded.
NoSession == [pc |-> "start", snap |-> <<>>, base |-> <<>>, mine |-> <<>>,
              target |-> 0, todo |-> <<>>, answer |-> "none", late |-> 0]

Init ==
    /\ db \in Stored
    /\ nextId = FirstNewId
    /\ lock = [x \in Rows |-> NoOne]
    /\ call \in Calls
    /\ tx = [q \in Requests |-> NoSession]

(***************************************************************************)
(* Records and their run.                                                  *)
(***************************************************************************)

\* What a run repeats of its record.
Result(row) == [status |-> row.status, output |-> row.output, error |-> row.error]

\* A row as INSERTed: pending, and not mirrored yet.
NewRow(num, ver, sims) ==
    [num |-> num, ver |-> ver, sims |-> sims, status |-> "pending", output |-> NoOutput, error |-> FALSE,
     kind |-> "none", run |-> NoRun, active |-> FALSE, latest |-> FALSE]

\* _select_mutable_run: a running record only writes to a run that is live.
Mutable(row) == row.status = "running" => row.run.status \in Live

\* Mutant: a finished run is left alone.
Mirrored_LiveRunsOnly(row) ==
    IF row.run = NoRun \/ row.run.status \in Live THEN Result(row) ELSE row.run

\* The first run, or _update_run_from_parent on the one there is.
Mirrored(row) == IF row.run = NoRun \/ Mutable(row) THEN Result(row) ELSE row.run

\* build_report_spec: a report has a kind if its simulations share their population.
Kind(sims) ==
    LET populations == {Population[s] : s \in Range(sims)} IN
    IF Cardinality(populations) # 1 THEN "none"
    ELSE IF (CHOOSE p \in populations : TRUE).type = "geography" THEN "economy" ELSE "household"

\* The end of the dual write: _upsert_report_spec, which keeps the stored kind when
\* no specification can be built, the run, and _sync_parent_pointers.
Synced(row) ==
    LET run == Mirrored(row) IN
    [row EXCEPT !.kind = IF Kind(row.sims) = "none" THEN @ ELSE Kind(row.sims),
                !.run = run,
                !.active = row.status \in Live,
                !.latest = "complete" \in {run.status, row.status}]

\* ensure_simulation_dual_write_state: an output of the former SPM format is
\* cleared, so that the simulation is calculated again.
SyncedSim(row) ==
    Synced(IF row.output # Legacy THEN row
           ELSE [row EXCEPT !.status = "pending", !.output = NoOutput, !.error = FALSE])

\* The given fields replace the stored ones; the others are kept.
Updated(row, c) ==
    [row EXCEPT !.status = IF c.status = "keep" THEN @ ELSE c.status,
                !.output = IF c.output = NoOutput THEN @ ELSE c.output,
                !.error = @ \/ c.error]

\* _has_mutable_running_run
RunningAllowed(row) == IF row.run = NoRun THEN TRUE ELSE row.run.status \in Live

\* A completed economy report without valid SPM provenance.  The reports are those
\* of the us, the only country whose reports are checked.
Unsound(row) == row.status = "complete" /\ row.kind = "economy" /\ row.output = Uncertified

\* Mutant: a report may be marked running whatever its run.
Accepts_AnyRunning(row, c) == ~Unsound(Updated(row, c))

\* The two refusals of _update_report_output, judged by what the session holds.
Accepts(row, c) ==
    /\ c.status = "running" => RunningAllowed(row)
    /\ ~Unsound(Updated(row, c))

\* The simulations there are.
Simulations(rows) == DOMAIN rows \intersect Sims

\* Contents that the database may start with: runs repeat their records, reports
\* name simulations that exist (no code deletes one), a complete report has an
\* output, the routes mark no simulation running, and ids follow an order.
Storable(rows) ==
    /\ DOMAIN rows \subseteq 1..(FirstNewId - 1) \union Sims
    /\ rows \in [DOMAIN rows -> Row]
    /\ \A x \in DOMAIN rows :
          /\ rows[x].run # NoRun => rows[x].run = Result(rows[x])
          /\ Range(rows[x].sims) \subseteq DOMAIN rows
          /\ rows[x].kind # "none" => Kind(rows[x].sims) \in {"none", rows[x].kind}
          /\ IF x \in Sims THEN rows[x].status # "running"
             ELSE rows[x].status = "complete" => rows[x].output # NoOutput
    /\ \A s, o \in Simulations(rows) :
          /\ rows[s].num \in 1..Cardinality(Simulations(rows))
          /\ rows[s].num = rows[o].num => s = o

ASSUME ReportsAssumption ==
    /\ IsFiniteSet(Requests) /\ IsFiniteSet(Sims) /\ NoOne \notin Requests
    /\ FirstNewId \in Nat \ {0} /\ Sims \intersect Nat = {}
    /\ NoOutput \notin Outputs /\ Legacy \in Outputs /\ NoRun \notin Run
    /\ \A calls \in Calls : calls \in [Requests -> Call] /\ \A q \in Requests : Valid(calls[q])
    /\ \A rows \in Stored : Storable(rows)

(***************************************************************************)
(* Sessions.                                                               *)
(***************************************************************************)

\* The flush of one row: only the columns this session changed.
Columns(now, base, mine) ==
    [c \in DOMAIN now |-> IF mine[c] = base[c] THEN now[c] ELSE mine[c]]

\* A row and its run after the flush; a first run is INSERTed.
Flushed(now, base, mine) ==
    [Columns(now, base, mine) EXCEPT
        !.run = IF mine.run = base.run THEN now.run
                ELSE IF base.run = NoRun THEN mine.run
                ELSE Columns(now.run, base.run, mine.run)]

\* A first run is INSERTed for a record that meanwhile has one: the unique
\* key on the record and the run's number refuses it.
Clash(base, mine) ==
    \E x \in DOMAIN base : base[x].run = NoRun /\ mine[x].run # NoRun /\ db[x].run # NoRun

\* The transaction ends, by COMMIT or ROLLBACK, and its locks with it.
Leave(q, answer, late) ==
    /\ tx' = [tx EXCEPT ![q] = [NoSession EXCEPT !.pc = "ended", !.answer = answer, !.late = late]]
    /\ lock' = [x \in Rows |-> IF lock[x] = q THEN NoOne ELSE lock[x]]
    /\ UNCHANGED <<nextId, call>>

End(q, answer) == Leave(q, answer, 0)
Rollback(q, answer) == End(q, answer) /\ UNCHANGED db

\* The rows of f, and those of g that f has not.
Over(f, g) == [x \in DOMAIN f \union DOMAIN g |-> IF x \in DOMAIN f THEN f[x] ELSE g[x]]
With(f, x, row) == [y \in DOMAIN f \union {x} |-> IF y = x THEN row ELSE f[y]]

\* A session whose first reads, of the current state, load the rows in S.
Load(S) == [NoSession EXCEPT !.snap = db, !.base = Restrict(db, S), !.mine = Restrict(db, S)]

(***************************************************************************)
(* Reports.                                                                *)
(***************************************************************************)

\* _find_existing_report_output: the reports of these simulations under this
\* build's cache version; the newest id is taken.
Current(sims, ver) ==
    {x \in DOMAIN db \ Sims : db[x].sims = sims /\ db[x].ver = ver}

\* Mutant: the simulations are locked before the report.
Aim_LocksSimulationsFirst(q, sims, found, held) ==
    \/ /\ found # {}
       /\ tx' = [tx EXCEPT ![q] = [Load(held \union {Max(found)}) EXCEPT
                    !.pc = "locking", !.target = Max(found), !.todo = sims \o <<Max(found)>>]]
    \/ /\ found = {} /\ Range(sims) \subseteq DOMAIN db
       /\ tx' = [tx EXCEPT ![q] = [Load(held) EXCEPT !.pc = "insert", !.todo = sims]]

\* _get_or_create_current_report_output, _create_report_output: the plain reads
\* that choose the report to work on, all of one snapshot.  The report they find is
\* in the session from here on; the simulations a new one needs are only looked up.
Aim(q, sims, found, held) ==
    \/ /\ found # {}
       /\ tx' = [tx EXCEPT ![q] = [Load(held \union {Max(found)}) EXCEPT
                    !.pc = "locking", !.target = Max(found), !.todo = <<Max(found)>> \o sims]]
    \/ /\ found = {} /\ Range(sims) \subseteq DOMAIN db
       /\ tx' = [tx EXCEPT ![q] = [Load(held) EXCEPT !.pc = "insert", !.todo = sims]]

\* The report a call names exists, and the simulations of the report it is about.
Known(q) == call[q].op = "post" \/ call[q].report \in DOMAIN db
Wanted(q) == IF call[q].op = "post" THEN call[q].sims ELSE db[call[q].report].sims

\* Whether the call names a report of this build's cache version.
IsCurrent(q) == call[q].op # "post" /\ db[call[q].report].ver = call[q].ver

\* create_or_reuse_report_output and resolve_report_output up to the first lock.
Open(q) ==
    /\ tx[q].pc = "start" /\ call[q].op \in {"get", "post"} /\ Known(q)
    /\ Aim(q, Wanted(q), IF IsCurrent(q) THEN {call[q].report} ELSE Current(Wanted(q), call[q].ver), {})
    /\ UNCHANGED <<db, nextId, lock, call>>

\* The report, or a simulation that a new report needs, does not exist.
OpenMissing(q) ==
    /\ tx[q].pc = "start" /\ call[q].op \in {"get", "post", "patch"}
    /\ Known(q) => /\ ~IsCurrent(q) /\ Current(Wanted(q), call[q].ver) = {}
                   /\ ~(Range(Wanted(q)) \subseteq DOMAIN db)
    /\ Rollback(q, "missing")

\* update_report_output on a report of this build's cache version.
PatchCurrent(q) ==
    LET c == call[q]
        row == db[c.report]
    IN  /\ tx[q].pc = "start" /\ c.op = "patch"
        /\ Known(q) /\ lock[c.report] = NoOne /\ IsCurrent(q)
        /\ \/ /\ Accepts(row, c)
              /\ lock' = [lock EXCEPT ![c.report] = q]
              /\ tx' = [tx EXCEPT ![q] = [Load({c.report}) EXCEPT
                    !.pc = "locking", !.target = c.report, !.todo = row.sims,
                    !.snap = IF c.status = "running" THEN @ ELSE <<>>,
                    !.mine = With(@, c.report, Updated(row, c))]]
              /\ UNCHANGED <<db, nextId, call>>
           \/ ~Accepts(row, c) /\ Rollback(q, "refused")

\* update_report_output on a report of another cache version: it is locked, and the
\* update goes to the report of this build's version.
PatchOutdated(q) ==
    LET c == call[q] IN
    /\ tx[q].pc = "start" /\ c.op = "patch"
    /\ Known(q) /\ lock[c.report] = NoOne /\ ~IsCurrent(q)
    /\ Aim(q, Wanted(q), Current(Wanted(q), c.ver), {c.report})
    /\ lock' = [lock EXCEPT ![c.report] = q]
    /\ UNCHANGED <<db, nextId, call>>

\* The INSERT of _create_report_output.
Insert(q) ==
    /\ tx[q].pc = "insert"
    /\ LET row == NewRow(0, call[q].ver, tx[q].todo) IN
       tx' = [tx EXCEPT ![q] = [tx[q] EXCEPT !.pc = "locking", !.target = nextId, !.mine = With(@, nextId, row)]]
    /\ lock' = [lock EXCEPT ![nextId] = q]
    /\ nextId' = nextId + 1
    /\ UNCHANGED <<db, call>>

\* The FOR UPDATE reads of _ensure_report_output_dual_write_state, in order: the
\* report, then its simulations, each brought up to date when it is locked.  A row
\* the session holds keeps its loaded values; a run is read from the snapshot.
Lock(q) ==
    LET t == tx[q]
        x == Head(t.todo)
        snap == IF x \in Sims /\ t.snap = <<>> THEN db ELSE t.snap
        run == IF x \in DOMAIN snap THEN snap[x].run ELSE NoRun
        base == IF x \in DOMAIN t.mine THEN t.base ELSE With(t.base, x, [db[x] EXCEPT !.run = run])
        mine == IF x \in DOMAIN t.mine THEN t.mine[x] ELSE base[x]
    IN  /\ t.pc = "locking" /\ t.todo # <<>> /\ lock[x] \in {NoOne, q}
        /\ lock' = [lock EXCEPT ![x] = q]
        /\ tx' = [tx EXCEPT ![q] = [t EXCEPT
               !.todo = Tail(@), !.snap = snap, !.base = base,
               !.mine = With(@, x, IF x \in Sims THEN SyncedSim(mine) ELSE mine)]]
        /\ UNCHANGED <<db, nextId, call>>

\* A redirected update is applied once the report it goes to is up to date.
Redirected(q) == call[q].op = "patch" /\ tx[q].target # call[q].report

\* The session's rows over the committed ones.
Merged(base, mine) ==
    [x \in DOMAIN mine |-> IF x \in DOMAIN db THEN Flushed(db[x], base[x], mine[x]) ELSE mine[x]]

\* The first dual write writes to the run: it changes the result, or only columns
\* that are not tracked, like the version of a simulation that was PATCHed since.
WritesRun(base, row, restamps) == row.run # base.run \/ (restamps /\ Mutable(row))

\* The report for the update and the second dual write.  The session has let go of
\* the run: it is read again, and the transaction sees the row as it is if it has
\* written to it, else the snapshot.
Reread(base, row, now, restamps) ==
    [row EXCEPT !.run = IF WritesRun(base, row, restamps) THEN now.run ELSE row.run]

\* The rest of the dual write and, unless the call is a redirected PATCH, the
\* COMMIT: every row is locked, so nothing comes between.
Finish(q) ==
    LET t == tx[q]
        mine == [t.mine EXCEPT ![t.target] = Synced(@)]
    IN  /\ t.pc = "locking" /\ t.todo = <<>>
        /\ \/ Clash(t.base, mine) /\ Rollback(q, "error")
           \/ /\ ~Clash(t.base, mine) /\ ~Redirected(q)
              /\ db' = Over(Merged(t.base, mine), db)
              /\ End(q, "ok")

\* A redirected PATCH flushes this dual write, updates the report and does the dual
\* write again, for which the simulations are as the first has left them.
FinishRedirected(q) ==
    LET t == tx[q]
        c == call[q]
        x == t.target
        mine == [t.mine EXCEPT ![x] = Synced(@)]
        rows == Merged(t.base, mine)
        base == IF x \in DOMAIN db THEN t.base[x] ELSE mine[x]
    IN  /\ t.pc = "locking" /\ t.todo = <<>>
        /\ Redirected(q) /\ ~Clash(t.base, mine)
        /\ \E restamps \in BOOLEAN :
              LET row == Reread(base, mine[x], rows[x], restamps)
                  late == WritesRun(base, mine[x], restamps) /\ x \in DOMAIN db /\ Result(base) # Result(db[x])
              IN  \/ /\ Accepts(row, c)
                     /\ db' = Over([rows EXCEPT ![x] = Flushed(@, row, Synced(Updated(row, c)))], db)
                     /\ Leave(q, "ok", IF late THEN x ELSE 0)
                  \/ ~Accepts(row, c) /\ Rollback(q, "refused")

(***************************************************************************)
(* Simulations.  Each request locks its rows before it reads anything      *)
(* else, so what follows the last lock is one step.                        *)
(***************************************************************************)

\* update_simulation
PatchSimulation(q) ==
    LET c == call[q] IN
    /\ tx[q].pc = "start" /\ c.op = "simpatch" /\ lock[c.sim] = NoOne
    /\ \/ /\ c.sim \in DOMAIN db
          /\ db' = [db EXCEPT ![c.sim] = SyncedSim(Updated(@, c))]
          /\ End(q, "ok")
       \/ c.sim \notin DOMAIN db /\ Rollback(q, "missing")

\* The locking read of get_or_create_simulation scans a table with no index on these
\* columns: InnoDB locks the rows one by one in the order of their ids, and keeps
\* those that do not match locked too.  Of the gaps it locks none matters once there
\* is a row: of two scans one waits for the other at the first.
ToScan(q) == {s \in Simulations(db) : lock[s] # q}
NextToScan(q) == {s \in ToScan(q) : \A o \in ToScan(q) : db[s].num <= db[o].num}

Scan(q) ==
    /\ tx[q].pc = "start" /\ call[q].op = "simpost"
    /\ \E s \in NextToScan(q) : lock[s] = NoOne /\ lock' = [lock EXCEPT ![s] = q]
    /\ UNCHANGED <<db, nextId, call, tx>>

\* get_or_create_simulation after the scan.
PostSimulation(q) ==
    LET c == call[q]
        row == IF c.sim \in DOMAIN db THEN db[c.sim]
               ELSE NewRow(Cardinality(Simulations(db)) + 1, 0, <<>>)
    IN  /\ tx[q].pc = "start" /\ c.op = "simpost"
        /\ ToScan(q) = {}
        /\ db' = With(db, c.sim, SyncedSim(row))
        /\ End(q, "ok")

(***************************************************************************)
(* InnoDB's deadlock detection.                                            *)
(***************************************************************************)

\* The transaction that holds the row this one asks for.
Blocker(q) ==
    LET c == call[q]
        scanned == NextToScan(q)
        holder == CASE tx[q].pc = "locking" /\ tx[q].todo # <<>> -> lock[Head(tx[q].todo)]
                    [] tx[q].pc = "start" /\ c.op = "patch" /\ Known(q) -> lock[c.report]
                    [] tx[q].pc = "start" /\ c.op = "simpatch" -> lock[c.sim]
                    [] tx[q].pc = "start" /\ c.op = "simpost" /\ scanned # {} ->
                          lock[CHOOSE s \in scanned : TRUE]
                    [] OTHER -> NoOne
    IN  IF holder = q THEN NoOne ELSE holder

Circles == {S \in SUBSET Requests : S # {} /\ {Blocker(q) : q \in S} = S}

\* A member of a circle of waits is rolled back; its caller gets an error.
Victim(q) == (\E S \in Circles : q \in S) /\ Rollback(q, "error")

Next ==
    \E q \in Requests :
        \/ Open(q) \/ OpenMissing(q)
        \/ PatchCurrent(q) \/ PatchOutdated(q)
        \/ Insert(q) \/ Lock(q) \/ Finish(q) \/ FinishRedirected(q)
        \/ PatchSimulation(q) \/ Scan(q) \/ PostSimulation(q)
        \/ Victim(q)

\* Every request has been answered.  No other state is without a next step: no
\* refusal, conflict or circle of waits leaves a lock behind.
Rest == (\A q \in Requests : tx[q].pc = "ended") /\ UNCHANGED vars

Spec == Init /\ [][Next \/ Rest]_vars

(***************************************************************************)
(* Properties.                                                             *)
(***************************************************************************)

\* Reports that an update under an outdated id was written to although its session
\* had loaded them before another request changed their result.
Overtaken == {tx[q].late : q \in Requests}

\* Whatever its session had loaded before it took the locks, no transaction leaves a
\* record and its run with different results, as report_output_runs.py:1 promises
\* ("each write mirrored into a report run"), with one exception: an update of a
\* report that was loaded before it was locked, whose two dual writes read the run
\* before and after another request's columns became visible in it.
RunMirrorsRecord ==
    \A x \in DOMAIN db : db[x].run # NoRun => db[x].run = Result(db[x]) \/ x \in Overtaken

\* The stronger statement, which does not hold.
EveryWriteIsMirrored ==
    \A x \in DOMAIN db : db[x].run # NoRun => db[x].run = Result(db[x])

\* The step updates x under an outdated id, and its session loaded x before another
\* request changed its result.
StaleUpdate(x) ==
    \E q \in Requests : /\ Redirected(q) /\ tx[q].target = x /\ tx'[q].answer = "ok"
                        /\ Result(tx[q].base[x]) # Result(db[x])

\* A complete report keeps an output, does not return to running, and if it is an
\* economy report its output has SPM provenance.  The checks of an update cover every
\* path but one, a stale update under an outdated id, after which the run may be live
\* though the report is complete, and every record but those of
\* former builds: one stored before runs existed may be set to running, and one
\* stored before kinds existed is not known to be an economy report.
FinishedReportsAreKept ==
    [][/\ \A x \in DOMAIN db \ Sims :
             /\ db[x].status = "complete" =>
                   /\ db'[x].output # NoOutput
                   /\ db'[x].status = "running" => db[x].run = NoRun \/ StaleUpdate(x) \/ x \in Overtaken
             /\ ~Unsound(db[x]) /\ Unsound(db'[x]) => db[x].kind = "none" \/ StaleUpdate(x)
       /\ \A x \in (DOMAIN db') \ (DOMAIN db) : ~Unsound(db'[x])]_vars

\* The simulations of the report that q works on, and whether they come in the order
\* of their ids.
SimsOf(q) == tx[q].mine[tx[q].target].sims
Ascends(q) == \A i, j \in DOMAIN SimsOf(q) : i < j => db[SimsOf(q)[i]].num <= db[SimsOf(q)[j]].num

\* Transactions of one build never wait in a circle unless one of them takes the
\* simulations of its report against the order of their ids, and another one takes
\* simulations otherwise: for a report that names others, or for a scan of them all.
WaitsAreOrdered ==
    \A S \in Circles :
        LET reports == {q \in S : call[q].op # "simpost"} IN
        \/ \E q, r \in reports : call[q].ver # call[r].ver
        \/ \E q \in reports : ~Ascends(q) /\ \E r \in S : r \in reports => SimsOf(q) # SimsOf(r)

\* The stronger statement, which does not hold: report_output_service.py:318 says that
\* marking a report running without an active run raises ValueError, but the update
\* under an outdated id judges the report its session loaded before it was locked.
FinishedIsNotRestarted ==
    [][\A x \in DOMAIN db \ Sims : db[x].status \in {"complete", "error"} => db'[x].status # "running"]_vars
=============================================================================
