---------------------------- MODULE V1ReportsProofs ----------------------------
(***************************************************************************)
(* Proofs, for any requests, stored reports and simulations, that the dual *)
(* write leaves a record and its run alike although a session judges and   *)
(* writes values that it loaded before it had the locks, that a finished   *)
(* report is kept, and that the locks are taken in an order, each but for  *)
(* the cases that the property names.                                      *)
(***************************************************************************)
EXTENDS V1Reports, TLAPS, FiniteSetTheorems, WellFoundedInduction

(***************************************************************************)
(* Records.                                                                *)
(***************************************************************************)
Formed(row) ==
    /\ row \in Row
    /\ row.kind # "none" => Kind(row.sims) \in {"none", row.kind}

Mirrors(row) == row.run # NoRun => row.run = Result(row)
RowOK(row) == Formed(row) /\ Mirrors(row)

\* What a report may have become since it was as old: once it has a run it keeps one, an
\* output is not taken back, and the first kind is the last.
Since(old, now) ==
    /\ Formed(old) /\ Formed(now)
    /\ now.sims = old.sims /\ now.ver = old.ver
    /\ now.run = NoRun => now = old
    /\ old.output # NoOutput => now.output # NoOutput
    /\ now.kind = old.kind \/ (old.kind = "none" /\ now.kind = Kind(old.sims))

\* A simulation without a run, or with an output of the former format, is as the
\* database was found.
Untouched(row) == row.run = NoRun \/ row.output = Legacy

\* Simulations are numbered.
Numbered ==
    \A s, o \in Simulations(db) :
        /\ db[s].num \in 1..Cardinality(Simulations(db))
        /\ db[s].num = db[o].num => s = o

\* Runs repeat their records, those of overtaken reports excepted.
RowsOK ==
    /\ DOMAIN db \subseteq Rows /\ db \in [DOMAIN db -> Row]
    /\ \A x \in DOMAIN db : Formed(db[x]) /\ Range(db[x].sims) \subseteq DOMAIN db
    /\ \A x \in DOMAIN db : x \in Sims \/ x \notin Overtaken => Mirrors(db[x])
    /\ Numbered
    /\ \A x \in DOMAIN db \ Sims :
          x < nextId /\ (db[x].status = "complete" => db[x].output # NoOutput)
    /\ \A s \in DOMAIN db \intersect Sims : db[s].status # "running"

\* Every id that INSERTs may still hand out is a row's.
ToInsert == {q \in Requests : tx[q].pc \in {"start", "insert"}}
IdsLeft == nextId \in Nat \ {0} /\ nextId + Cardinality(ToInsert) <= FirstNewId + Cardinality(Requests)

(***************************************************************************)
(* Sessions.                                                               *)
(***************************************************************************)
PCs == {"start", "insert", "locking", "ended"}
SessionRecord(t) ==
    t \in [pc: PCs, snap: {t.snap}, base: {t.base}, mine: {t.mine}, target: {t.target}, todo: {t.todo},
           answer: {t.answer}, late: {t.late}]

Past(snap) ==
    /\ DOMAIN snap \subseteq DOMAIN db /\ snap \in [DOMAIN snap -> Row]
    /\ \A s \in DOMAIN snap \intersect Sims : Untouched(db[s]) => snap[s] = db[s]

\* A simulation is locked before it is loaded; its run is the snapshot's.
LoadedSim(q, s) ==
    LET now == db[s]
        base == tx[q].base[s]
    IN  /\ lock[s] = q /\ s \in DOMAIN db
        /\ base \in Row /\ base = [now EXCEPT !.run = base.run]
        /\ base.run # NoRun /\ now.output = Legacy => base = now
        /\ now.run = NoRun => base.run = NoRun
        /\ tx[q].mine[s] = SyncedSim(base)

\* A report is loaded before or after it is locked.
Loaded(q) ==
    /\ \A x \in DOMAIN tx[q].base \ Sims :
          x \in DOMAIN db /\ Since(tx[q].base[x], db[x]) /\ (x \in Overtaken \/ Mirrors(tx[q].base[x]))
    /\ \A s \in DOMAIN tx[q].base \intersect Sims : LoadedSim(q, s)

\* The report that a PATCH names, when it is not of this build's cache version.
IsOutdated(q, x) ==
    call[q].op = "patch" /\ x = call[q].report /\ x \in DOMAIN db /\ db[x].ver # call[q].ver

Inserting(q) ==
    /\ tx[q].todo \in Seq(Sims) /\ Range(tx[q].todo) \subseteq DOMAIN db
    /\ tx[q].mine = tx[q].base
    /\ \A x \in DOMAIN tx[q].base : IsOutdated(q, x)
    /\ call[q].op = "patch" => call[q].report \in DOMAIN tx[q].base
    /\ \A x \in Rows : lock[x] = q => IsOutdated(q, x)

\* The report a session works on, as it has it.
Mine(q) == tx[q].mine[tx[q].target]
Own(q) == call[q].op = "patch" /\ call[q].report = tx[q].target

\* It is as it was loaded, but for the update of a PATCH that names it.
TargetOK(q) ==
    LET t == tx[q]
        c == call[q]
        x == t.target
    IN  /\ Mine(q) \in Row /\ Mine(q).ver = c.ver
        /\ x \in DOMAIN t.base /\ ~Own(q) => Mine(q) = t.base[x]
        /\ Own(q) => /\ x \in DOMAIN t.base /\ t.base[x] = db[x]
                     /\ Accepts(db[x], c) /\ Mine(q) = Updated(db[x], c)
        /\ x \notin DOMAIN t.base =>
              /\ x \notin DOMAIN db /\ x \in ReportIds /\ x < nextId
              /\ Mine(q) = NewRow(0, c.ver, Mine(q).sims) /\ Range(Mine(q).sims) \subseteq DOMAIN db

\* How many of its simulations it has locked.
Place(q) == Len(Mine(q).sims) - Len(tx[q].todo)

\* The report is locked first, then its simulations in order.
ToLockReport(q) ==
    /\ tx[q].todo = <<tx[q].target>> \o Mine(q).sims
    /\ tx[q].target \in DOMAIN tx[q].base /\ ~Own(q)
    /\ \A x \in Rows : lock[x] = q => IsOutdated(q, x)

ToLockSims(q) ==
    /\ tx[q].todo \in Seq(Sims) /\ Len(tx[q].todo) <= Len(Mine(q).sims)
    /\ \A i \in 1..Len(tx[q].todo) : tx[q].todo[i] = Mine(q).sims[Place(q) + i]
    /\ \A i \in 1..Place(q) : lock[Mine(q).sims[i]] = q
    /\ tx[q].target \in DOMAIN tx[q].base => lock[tx[q].target] = q
    /\ \A x \in Rows : lock[x] = q =>
          (\E i \in 1..Place(q) : Mine(q).sims[i] = x) \/ x = tx[q].target \/ IsOutdated(q, x)

Locking(q) ==
    LET t == tx[q] IN
    /\ t.target \in DOMAIN t.mine \ Sims /\ DOMAIN t.mine = DOMAIN t.base \union {t.target}
    /\ \A x \in DOMAIN t.base \ (Sims \union {t.target}) : t.mine[x] = t.base[x] /\ IsOutdated(q, x)
    /\ call[q].op = "patch" /\ ~Own(q) => call[q].report \in DOMAIN t.base
    /\ TargetOK(q)
    /\ ToLockReport(q) \/ ToLockSims(q)

\* A scan has locked the first simulations in the order of their ids.
Scanned(q, x) ==
    /\ call[q].op = "simpost" /\ x \in Simulations(db)
    /\ \A s \in Simulations(db) : db[s].num < db[x].num => lock[s] = q

SessionOK(q) ==
    /\ SessionRecord(tx[q])
    /\ tx[q].pc = "ended" => \A x \in Rows : lock[x] # q
    /\ tx[q].pc # "ended" => tx[q].late = 0
    /\ tx[q].pc = "start" => tx[q] = NoSession /\ \A x \in Rows : lock[x] = q => Scanned(q, x)
    /\ tx[q].pc \in {"insert", "locking"} =>
          /\ call[q].op \in {"get", "post", "patch"}
          /\ tx[q].snap # <<>> => Past(tx[q].snap)
          /\ Loaded(q)
    /\ tx[q].pc = "insert" => Inserting(q)
    /\ tx[q].pc = "locking" => Locking(q)

\* No two sessions INSERT one id.
InsertedApart ==
    \A q, r \in Requests : q # r /\ tx[q].pc = "locking" /\ tx[r].pc = "locking"
        /\ tx[q].target = tx[r].target => tx[q].target \in DOMAIN tx[q].base

IInv ==
    /\ call \in Calls /\ lock \in [Rows -> Requests \union {NoOne}] /\ tx = [q \in Requests |-> tx[q]]
    /\ RowsOK /\ IdsLeft
    /\ \A q \in Requests : SessionOK(q)
    /\ InsertedApart
(***************************************************************************)
(* What the dual write and the flush make of one row.                      *)
(***************************************************************************)

\* The kind of a report, of whichever simulations.
LEMMA Kinds == \A sims : Kind(sims) \in {"none", "economy", "household"}
BY DEF Kind

\* A run that repeats its record (_update_run_from_parent).
LEMMA ResultIsRun == ASSUME NEW row \in Row PROVE Result(row) \in Run /\ Result(row) # NoRun
BY ReportsAssumption DEF Result, Row, Run, ReportsAssumption

\* The dual write changes nothing that a client stored.
LEMMA SyncedRow ==
  ASSUME NEW row \in Row
  PROVE  LET new == Synced(row)
         IN /\ new \in Row
            /\ new.num = row.num /\ new.ver = row.ver /\ new.sims = row.sims
            /\ new.status = row.status /\ new.output = row.output /\ new.error = row.error
            /\ new.kind = IF Kind(row.sims) = "none" THEN row.kind ELSE Kind(row.sims)
            /\ new.run = Mirrored(row) /\ new.run # NoRun
            /\ Result(new) = Result(row)
            /\ Formed(row) => Formed(new)
<1>1. Mirrored(row) \in Run /\ Mirrored(row) # NoRun
  BY ResultIsRun DEF Mirrored, Row
<1> DEFINE kind == IF Kind(row.sims) = "none" THEN row.kind ELSE Kind(row.sims)
           run == Mirrored(row)
           active == row.status \in Live
           latest == "complete" \in {run.status, row.status}
<1>2. kind \in {"none", "economy", "household"} /\ run \in Run \union {NoRun}
      /\ active \in BOOLEAN /\ latest \in BOOLEAN
  BY <1>1, Kinds DEF Row
<1>3. Synced(row) = [row EXCEPT !.kind = kind, !.run = run, !.active = active, !.latest = latest]
  BY DEF Synced
<1> HIDE DEF kind, run, active, latest
<1>4. LET new == [row EXCEPT !.kind = kind, !.run = run, !.active = active, !.latest = latest]
      IN /\ new \in Row
         /\ new.num = row.num /\ new.ver = row.ver /\ new.sims = row.sims
         /\ new.status = row.status /\ new.output = row.output /\ new.error = row.error
         /\ new.kind = kind /\ new.run = run
  BY <1>2 DEF Row
<1> QED BY <1>1, <1>3, <1>4 DEF kind, run, Result, Formed

\* After it a run repeats its record, unless a record is running whose run is not live.
LEMMA SyncedOK ==
  ASSUME NEW row \in Row, row.status = "running" => RunningAllowed(row)
  PROVE  /\ Synced(row).run = Result(row) /\ Mirrors(Synced(row))
         /\ Formed(row) => RowOK(Synced(row))
<1>1. Synced(row).run = Result(row)
  BY SyncedRow DEF Mirrored, Mutable, RunningAllowed
<1> QED BY <1>1, SyncedRow DEF RowOK, Mirrors

\* A record that has a run with its own result may be marked running if it is live.
LEMMA MirroredRunning ==
  ASSUME NEW row \in Row, Mirrors(row), row.status = "running"
  PROVE  RunningAllowed(row)
BY DEF Mirrors, RunningAllowed, Result, Live, Row

\* The flush writes the columns that the session changed.
LEMMA FlushedRow ==
  ASSUME NEW now \in Row, NEW base \in Row, NEW mine \in Row, mine.run # NoRun
  PROVE  LET new == Flushed(now, base, mine)
         IN /\ new.num = IF mine.num = base.num THEN now.num ELSE mine.num
            /\ new.ver = IF mine.ver = base.ver THEN now.ver ELSE mine.ver
            /\ new.sims = IF mine.sims = base.sims THEN now.sims ELSE mine.sims
            /\ new.status = IF mine.status = base.status THEN now.status ELSE mine.status
            /\ new.output = IF mine.output = base.output THEN now.output ELSE mine.output
            /\ new.error = IF mine.error = base.error THEN now.error ELSE mine.error
            /\ new.kind = IF mine.kind = base.kind THEN now.kind ELSE mine.kind
            /\ new.run = IF mine.run = base.run THEN now.run
                         ELSE IF base.run = NoRun THEN mine.run
                         ELSE Columns(now.run, base.run, mine.run)
            /\ (now.run # NoRun \/ base.run = NoRun) => new \in Row
<1> DEFINE f == Columns(now, base, mine)
<1>1. /\ f \in Row
      /\ f.num = IF mine.num = base.num THEN now.num ELSE mine.num
      /\ f.ver = IF mine.ver = base.ver THEN now.ver ELSE mine.ver
      /\ f.sims = IF mine.sims = base.sims THEN now.sims ELSE mine.sims
      /\ f.status = IF mine.status = base.status THEN now.status ELSE mine.status
      /\ f.output = IF mine.output = base.output THEN now.output ELSE mine.output
      /\ f.error = IF mine.error = base.error THEN now.error ELSE mine.error
      /\ f.kind = IF mine.kind = base.kind THEN now.kind ELSE mine.kind
  BY DEF Columns, Row
<1> HIDE DEF f
<1> DEFINE run == IF mine.run = base.run THEN now.run
                  ELSE IF base.run = NoRun THEN mine.run
                  ELSE Columns(now.run, base.run, mine.run)
<1>2. (now.run # NoRun \/ base.run = NoRun) => run \in Run \union {NoRun}
  <2>1. ASSUME now.run # NoRun, base.run # NoRun
        PROVE  Columns(now.run, base.run, mine.run) \in Run
    <3>1. now.run \in Run /\ base.run \in Run /\ mine.run \in Run
      BY <2>1 DEF Row
    <3> QED BY <3>1 DEF Columns, Run
  <2> QED BY <2>1 DEF Row
<1>3. Flushed(now, base, mine) = [f EXCEPT !.run = run]
  BY DEF Flushed, f
<1> HIDE DEF run
<1>4. /\ [f EXCEPT !.run = run].run = run
      /\ run \in Run \union {NoRun} => [f EXCEPT !.run = run] \in Row
      /\ [f EXCEPT !.run = run].num = f.num
      /\ [f EXCEPT !.run = run].ver = f.ver /\ [f EXCEPT !.run = run].sims = f.sims
      /\ [f EXCEPT !.run = run].status = f.status /\ [f EXCEPT !.run = run].output = f.output
      /\ [f EXCEPT !.run = run].error = f.error /\ [f EXCEPT !.run = run].kind = f.kind
  BY <1>1 DEF Row
<1> QED BY <1>1, <1>2, <1>3, <1>4 DEF run

\* A row that the session left as it was is not written.
LEMMA FlushedSame ==
  ASSUME NEW now \in Row, NEW base
  PROVE  Flushed(now, base, base) = now
<1>1. Columns(now, base, base) = now
  BY DEF Columns, Row
<1> QED BY <1>1 DEF Flushed, Row

\* The flush of a run: column by column, like its record.
LEMMA FlushedRun ==
  ASSUME NEW now \in Row, NEW base \in Row, NEW mine \in Row,
         now.run = Result(now), base.run = Result(base), mine.run = Result(mine)
  PROVE  LET new == Flushed(now, base, mine)
         IN new \in Row /\ new.run = Result(new)
<1> DEFINE new == Flushed(now, base, mine)
<1>1. now.run # NoRun /\ base.run # NoRun /\ mine.run # NoRun
  BY ResultIsRun
<1>2. /\ new \in Row
      /\ new.status = IF mine.status = base.status THEN now.status ELSE mine.status
      /\ new.output = IF mine.output = base.output THEN now.output ELSE mine.output
      /\ new.error = IF mine.error = base.error THEN now.error ELSE mine.error
      /\ new.run = IF mine.run = base.run THEN now.run ELSE Columns(now.run, base.run, mine.run)
  BY <1>1, FlushedRow
<1> HIDE DEF new
<1>3. ASSUME mine.run = base.run PROVE new.run = Result(new)
  <2>1. mine.status = base.status /\ mine.output = base.output /\ mine.error = base.error
    BY <1>3 DEF Result
  <2> QED BY <1>2, <1>3, <2>1 DEF Result
<1>4. ASSUME mine.run # base.run PROVE new.run = Result(new)
  <2>1. Columns(Result(now), Result(base), Result(mine)) = Result(new)
    BY <1>2 DEF Columns, Result
  <2> QED BY <1>2, <1>4, <2>1
<1> QED BY <1>2, <1>3, <1>4 DEF new

\* A first run is INSERTed with the record it mirrors.
LEMMA FlushedFirst ==
  ASSUME NEW base \in Row, NEW mine \in Row, base.run = NoRun, mine.run = Result(mine)
  PROVE  LET new == Flushed(base, base, mine)
         IN new \in Row /\ new.run = Result(new)
<1> DEFINE new == Flushed(base, base, mine)
<1>1. mine.run # NoRun
  BY ResultIsRun
<1>2. /\ new \in Row
      /\ new.status = IF mine.status = base.status THEN base.status ELSE mine.status
      /\ new.output = IF mine.output = base.output THEN base.output ELSE mine.output
      /\ new.error = IF mine.error = base.error THEN base.error ELSE mine.error
      /\ new.run = IF mine.run = base.run THEN base.run ELSE mine.run
  BY <1>1, FlushedRow
<1> HIDE DEF new
<1> QED BY <1>1, <1>2 DEF Result, new

\* What a report has become when a session that loaded it earlier has written it.
LEMMA FlushReport ==
  ASSUME NEW base, NEW now, Since(base, now),
         NEW mine \in Row, mine.sims = base.sims, mine.ver = base.ver, mine.run # NoRun,
         mine.kind = IF Kind(base.sims) = "none" THEN base.kind ELSE Kind(base.sims),
         base.output # NoOutput => mine.output # NoOutput,
         mine.status = "complete" => mine.output # NoOutput \/ mine.status = base.status,
         base.run = NoRun => now.run = NoRun,
         now.status = "complete" => now.output # NoOutput
  PROVE  LET new == Flushed(now, base, mine)
         IN /\ Since(now, new) /\ new.run # NoRun /\ new.kind = mine.kind
            /\ new.status = IF mine.status = base.status THEN now.status ELSE mine.status
            /\ new.output = IF mine.output = base.output THEN now.output ELSE mine.output
            /\ new.error = IF mine.error = base.error THEN now.error ELSE mine.error
            /\ new.status = "complete" => new.output # NoOutput
            /\ Mirrors(base) /\ Mirrors(now) /\ Mirrors(mine) => Mirrors(new)
<1> DEFINE new == Flushed(now, base, mine)
<1>1. base \in Row /\ now \in Row /\ now.sims = base.sims /\ now.ver = base.ver
  BY DEF Since, Formed
<1>2. base.run # NoRun => now.run # NoRun
  BY DEF Since
<1>3. /\ new.ver = now.ver /\ new.sims = now.sims
      /\ new.status = IF mine.status = base.status THEN now.status ELSE mine.status
      /\ new.output = IF mine.output = base.output THEN now.output ELSE mine.output
      /\ new.error = IF mine.error = base.error THEN now.error ELSE mine.error
      /\ new.kind = IF mine.kind = base.kind THEN now.kind ELSE mine.kind
      /\ new.run = IF mine.run = base.run THEN now.run
                   ELSE IF base.run = NoRun THEN mine.run
                   ELSE Columns(now.run, base.run, mine.run)
      /\ new \in Row
  BY <1>1, <1>2, FlushedRow
<1>4. new.run # NoRun
  <2>1. CASE base.run = NoRun \/ mine.run = base.run
    BY <1>2, <1>3, <2>1
  <2>2. CASE base.run # NoRun /\ mine.run # base.run
    <3>1. now.run \in Run /\ base.run \in Run /\ mine.run \in Run
      BY <1>1, <1>2, <2>2 DEF Row
    <3>2. Columns(now.run, base.run, mine.run) \in Run
      BY <3>1 DEF Columns, Run
    <3> QED BY <1>3, <2>2, <3>2, ReportsAssumption DEF ReportsAssumption
  <2> QED BY <2>1, <2>2
<1>5. ASSUME Mirrors(base), Mirrors(now), Mirrors(mine) PROVE Mirrors(new)
  <2>1. mine.run = Result(mine)
    BY <1>5 DEF Mirrors
  <2>2. CASE base.run = NoRun
    <3>1. now = base
      BY <2>2 DEF Since
    <3> QED BY <1>1, <2>1, <2>2, <3>1, FlushedFirst DEF Mirrors
  <2>3. CASE base.run # NoRun
    <3>1. base.run = Result(base) /\ now.run = Result(now)
      BY <1>2, <1>5, <2>3 DEF Mirrors
    <3> QED BY <1>1, <2>1, <3>1, FlushedRun DEF Mirrors
  <2> QED BY <2>2, <2>3
<1> HIDE DEF new
<1>6. new.status = "complete" => new.output # NoOutput
  BY <1>3 DEF Since
<1>7. now.output # NoOutput => new.output # NoOutput
  BY <1>3
<1>8. new.kind = mine.kind
  BY <1>1, <1>3 DEF Since, Formed
<1>9. new.kind = now.kind \/ (now.kind = "none" /\ new.kind = Kind(now.sims))
  BY <1>1, <1>3 DEF Since, Formed
<1>10. Formed(now) /\ Formed(new)
  BY <1>1, <1>3, <1>9 DEF Since, Formed
<1> QED BY <1>3, <1>4, <1>5, <1>6, <1>7, <1>8, <1>9, <1>10 DEF Since, new

\* A record of a simulation as the database was found is not left so.
LEMMA SyncedSimRow ==
  ASSUME NEW row \in Row, row.status # "running"
  PROVE  LET new == SyncedSim(row)
         IN /\ new \in Row /\ new.num = row.num /\ new.sims = row.sims /\ new.run = Result(new)
            /\ new.status # "running" /\ new.output # Legacy
            /\ new.kind = IF Kind(row.sims) = "none" THEN row.kind ELSE Kind(row.sims)
            /\ row.output # Legacy => Result(new) = Result(row)
            /\ Formed(row) => RowOK(new)
<1> DEFINE from == IF row.output # Legacy THEN row
                   ELSE [row EXCEPT !.status = "pending", !.output = NoOutput, !.error = FALSE]
<1>1. /\ from \in Row /\ from.status # "running" /\ from.output # Legacy /\ from.sims = row.sims
      /\ from.num = row.num /\ from.kind = row.kind
      /\ row.output # Legacy => Result(from) = Result(row)
  BY ReportsAssumption DEF Row, Statuses, ReportsAssumption
<1>2. SyncedSim(row) = Synced(from)
  BY DEF SyncedSim
<1> HIDE DEF from
<1>3. Synced(from).run = Result(from) /\ (Formed(row) => RowOK(Synced(from)))
  BY <1>1, SyncedOK DEF Formed
<1>4. /\ Synced(from) \in Row /\ Synced(from).num = row.num /\ Synced(from).sims = row.sims
      /\ Synced(from).status = from.status /\ Synced(from).output = from.output
      /\ Synced(from).kind = IF Kind(row.sims) = "none" THEN row.kind ELSE Kind(row.sims)
      /\ Result(Synced(from)) = Result(from)
  BY <1>1, SyncedRow
<1> QED BY <1>1, <1>2, <1>3, <1>4

\* What a simulation has become, which is locked before it is loaded and of which
\* only the run may be older than the record.
LEMMA FlushSim ==
  ASSUME NEW now, RowOK(now), now.status # "running",
         NEW base \in Row, base = [now EXCEPT !.run = base.run],
         base.run # NoRun /\ now.output = Legacy => base = now,
         base.run = NoRun <=> now.run = NoRun
  PROVE  LET new == Flushed(now, base, SyncedSim(base))
         IN /\ RowOK(new) /\ new.run # NoRun /\ new.output # Legacy
            /\ new.num = now.num /\ new.sims = now.sims /\ new.status # "running"
<1> DEFINE mine == SyncedSim(base)
           new == Flushed(now, base, mine)
<1>1. now \in Row
  BY DEF RowOK, Formed
<1>2. /\ base.status = now.status /\ base.output = now.output /\ base.error = now.error
      /\ base.num = now.num /\ base.sims = now.sims /\ base.ver = now.ver /\ base.kind = now.kind
  BY <1>1 DEF Row
<1>3. /\ mine \in Row /\ mine.num = now.num /\ mine.sims = now.sims /\ mine.run = Result(mine)
      /\ mine.status # "running" /\ mine.output # Legacy
      /\ mine.kind = IF Kind(now.sims) = "none" THEN now.kind ELSE Kind(now.sims)
      /\ now.output # Legacy => Result(mine) = Result(base)
  BY <1>2, SyncedSimRow
<1>4. mine.run # NoRun
  BY <1>3, ResultIsRun
<1> HIDE DEF mine
<1>5. /\ new.num = now.num /\ new.sims = now.sims
      /\ new.status = IF mine.status = base.status THEN now.status ELSE mine.status
      /\ new.output = IF mine.output = base.output THEN now.output ELSE mine.output
      /\ new.error = IF mine.error = base.error THEN now.error ELSE mine.error
      /\ new.kind = IF mine.kind = base.kind THEN now.kind ELSE mine.kind
      /\ new.run = IF mine.run = base.run THEN now.run
                   ELSE IF base.run = NoRun THEN mine.run
                   ELSE Columns(now.run, base.run, mine.run)
      /\ new \in Row
  BY <1>1, <1>2, <1>3, <1>4, FlushedRow
<1>6. new.run = Result(new)
  <2>1. ASSUME base = now PROVE new.run = Result(new)
    <3>1. CASE now.run = NoRun
      BY <1>1, <1>3, <2>1, <3>1, FlushedFirst
    <3>2. CASE now.run # NoRun
      <4>1. now.run = Result(now)
        BY <3>2 DEF RowOK, Mirrors
      <4> QED BY <1>1, <1>3, <2>1, <4>1, FlushedRun
    <3> QED BY <3>1, <3>2
  <2>2. ASSUME base # now PROVE new.run = Result(new)
    <3>1. base.run # NoRun /\ now.run # NoRun
      BY <1>1, <2>2 DEF Row
    <3>2. now.output # Legacy /\ now.run = Result(now) /\ now.run \in Run
      BY <1>1, <2>2, <3>1 DEF RowOK, Mirrors, Row
    <3>3. mine.run = now.run
      BY <1>2, <1>3, <3>2 DEF Result
    <3>4. Columns(now.run, base.run, now.run) = now.run
      BY <3>2 DEF Columns, Run
    <3>5. new.run = now.run
      BY <1>5, <3>1, <3>3, <3>4
    <3>6. mine.status = base.status /\ mine.output = base.output /\ mine.error = base.error
      BY <1>3, <3>2 DEF Result
    <3> HIDE DEF new
    <3> QED BY <1>5, <3>2, <3>5, <3>6 DEF Result
  <2> QED BY <2>1, <2>2
<1> HIDE DEF new
<1>7. new.run # NoRun
  BY <1>5, <1>6, ResultIsRun
<1>8. new.status # "running" /\ new.output # Legacy
  BY <1>2, <1>3, <1>5
<1>9. new.kind # "none" => Kind(new.sims) \in {"none", new.kind}
  BY <1>2, <1>3, <1>5 DEF RowOK, Formed
<1> QED BY <1>5, <1>6, <1>7, <1>8, <1>9 DEF RowOK, Formed, Mirrors, mine, new

\* Locking a simulation twice brings it up to date once.
LEMMA SyncedSimTwice ==
  ASSUME NEW row \in Row, row.status # "running"
  PROVE  SyncedSim(SyncedSim(row)) = SyncedSim(row)
<1> DEFINE from == IF row.output # Legacy THEN row
                   ELSE [row EXCEPT !.status = "pending", !.output = NoOutput, !.error = FALSE]
           once == Synced(from)
<1>1. from \in Row /\ from.status # "running" /\ from.output # Legacy
  BY ReportsAssumption DEF Row, Statuses, ReportsAssumption
<1>2. SyncedSim(row) = once
  BY DEF SyncedSim
<1> HIDE DEF from
<1>3. /\ once \in Row /\ once.sims = from.sims /\ once.status = from.status /\ once.output = from.output
      /\ once.kind = IF Kind(from.sims) = "none" THEN from.kind ELSE Kind(from.sims)
      /\ Result(once) = Result(from)
  BY <1>1, SyncedRow
<1>4. once.run = Result(once) /\ once.active = (from.status \in Live)
      /\ once.latest = ("complete" \in {once.run.status, from.status})
  <2>1. once.run = Result(from)
    BY <1>1, SyncedOK
  <2>2. Mirrored(from) = Result(from)
    BY <1>1 DEF Mirrored, Mutable
  <2> QED BY <1>1, <1>3, <2>1, <2>2 DEF Synced, Row
<1> HIDE DEF once
<1>5. SyncedSim(once) = Synced(once)
  BY <1>1, <1>3 DEF SyncedSim
<1>6. Mirrored(once) = once.run
  BY <1>1, <1>3, <1>4 DEF Mirrored, Mutable
<1>7. (IF Kind(once.sims) = "none" THEN once.kind ELSE Kind(once.sims)) = once.kind
  BY <1>3
<1>8. Synced(once) = [once EXCEPT !.kind = once.kind, !.run = once.run, !.active = once.active,
                                  !.latest = once.latest]
  BY <1>3, <1>4, <1>6, <1>7 DEF Synced
<1>9. Synced(once) = once
  BY <1>3, <1>8 DEF Row
<1> QED BY <1>2, <1>5, <1>9
(***************************************************************************)
(* What a request meets of the others' steps.                              *)
(***************************************************************************)

\* A call is one that the routes accept; it names a report, not a simulation.
LEMMA CallIs ==
  ASSUME call \in Calls, NEW q \in Requests
  PROVE  /\ call[q] \in Call /\ Valid(call[q])
         /\ call[q].report \notin Sims /\ call[q].ver \in Nat
<1>1. call[q] \in Call /\ Valid(call[q])
  BY ReportsAssumption DEF ReportsAssumption
<1>2. call[q].report \in Nat /\ call[q].ver \in Nat
  BY <1>1 DEF Call
<1> QED BY <1>1, <1>2, ReportsAssumption DEF ReportsAssumption

\* A report is as it was, or as a sequence of updates has left it.
LEMMA SinceSelf == ASSUME NEW row, Formed(row) PROVE Since(row, row)
BY DEF Since

\* Updates by several sessions.
LEMMA SinceTrans ==
  ASSUME NEW a, NEW b, NEW c, Since(a, b), Since(b, c)
  PROVE  Since(a, c)
BY DEF Since

\* Simulations keep their numbers, and new ones get later numbers.
SameOrder ==
    /\ \A s \in Simulations(db) : db'[s].num = db[s].num
    /\ \A o \in Simulations(db') \ DOMAIN db :
          db'[o].num \in Nat /\ \A s \in Simulations(db) : db[s].num < db'[o].num

\* What r may find changed after a step of another request.
Meanwhile(r) ==
    /\ tx'[r] = tx[r] /\ call' = call /\ nextId' \in Nat /\ nextId <= nextId'
    /\ \A x \in Rows : lock'[x] = r <=> lock[x] = r
    /\ DOMAIN db \subseteq DOMAIN db'
    /\ \A x \in DOMAIN db \ Sims : Since(db[x], db'[x])
    /\ \A x \in DOMAIN db : lock[x] = r => db'[x] = db[x]
    /\ \A s \in DOMAIN db \intersect Sims : Untouched(db'[s]) => db'[s] = db[s]
    /\ SameOrder /\ \A x \in Rows : x \in Overtaken => x \in Overtaken'
    /\ tx[r].pc = "locking" /\ tx[r].target \notin DOMAIN tx[r].base => tx[r].target \notin DOMAIN db'

\* The facts that a session relies on outlast it: rows it has locked stay, others
\* change as updates change them.
LEMMA Undisturbed ==
  ASSUME IInv, NEW r \in Requests, Meanwhile(r)
  PROVE  SessionOK(r)'
<1>1. /\ tx'[r] = tx[r] /\ call' = call /\ nextId' \in Nat /\ nextId <= nextId' /\ nextId \in Nat
      /\ \A x \in Rows : lock'[x] = r <=> lock[x] = r
      /\ DOMAIN db \subseteq DOMAIN db' /\ DOMAIN db \subseteq Rows
      /\ SessionOK(r)
  BY DEF Meanwhile, IInv, RowsOK, IdsLeft
<1>2. /\ \A x \in DOMAIN db \ Sims : Since(db[x], db'[x])
      /\ \A x \in DOMAIN db : lock[x] = r => db'[x] = db[x]
      /\ \A s \in DOMAIN db \intersect Sims : Untouched(db'[s]) => db'[s] = db[s]
      /\ SameOrder /\ \A x \in Rows : x \in Overtaken => x \in Overtaken'
      /\ tx[r].pc = "locking" /\ tx[r].target \notin DOMAIN tx[r].base => tx[r].target \notin DOMAIN db'
  BY DEF Meanwhile
<1>3. ASSUME NEW x, IsOutdated(r, x) PROVE IsOutdated(r, x)'
  <2>1. x \in DOMAIN db \ Sims
    BY <1>3, CallIs DEF IInv, IsOutdated
  <2>2. db'[x].ver = db[x].ver
    BY <1>2, <2>1 DEF Since
  <2> QED BY <1>1, <1>3, <2>1, <2>2 DEF IsOutdated
<1>4. ASSUME Past(tx[r].snap) PROVE Past(tx[r].snap)'
  <2>1. ASSUME NEW s \in DOMAIN tx[r].snap \intersect Sims, Untouched(db'[s]) PROVE tx[r].snap[s] = db'[s]
    BY <1>2, <1>4, <2>1 DEF Past
  <2> QED BY <1>1, <1>4, <2>1 DEF Past
<1>5. ASSUME Loaded(r) PROVE Loaded(r)'
  <2>1. ASSUME NEW x \in DOMAIN tx[r].base \ Sims
        PROVE  /\ x \in DOMAIN db' /\ Since(tx[r].base[x], db'[x])
               /\ x \in Overtaken' \/ Mirrors(tx[r].base[x])
    <3>1. x \in DOMAIN db /\ Since(tx[r].base[x], db[x]) /\ (x \in Overtaken \/ Mirrors(tx[r].base[x]))
      BY <1>5, <2>1 DEF Loaded
    <3>2. Since(db[x], db'[x])
      BY <1>2, <2>1, <3>1
    <3>3. Since(tx[r].base[x], db'[x])
      BY <3>1, <3>2, SinceTrans
    <3> QED BY <1>1, <1>2, <3>1, <3>3
  <2>2. ASSUME NEW s \in DOMAIN tx[r].base \intersect Sims PROVE LoadedSim(r, s)'
    <3>1. LoadedSim(r, s)
      BY <1>5 DEF Loaded
    <3>2. s \in DOMAIN db /\ lock[s] = r
      BY <3>1 DEF LoadedSim
    <3>3. db'[s] = db[s] /\ lock'[s] = r /\ s \in DOMAIN db'
      BY <1>1, <1>2, <3>2
    <3> QED BY <1>1, <3>1, <3>3 DEF LoadedSim
  <2> QED BY <1>1, <2>1, <2>2 DEF Loaded
<1>6. ASSUME Inserting(r) PROVE Inserting(r)'
  BY <1>1, <1>3, <1>6 DEF Inserting
<1>7. ASSUME Locking(r), tx[r].pc = "locking", Loaded(r) PROVE Locking(r)'
  <2>1. Mine(r)' = Mine(r) /\ Place(r)' = Place(r) /\ Own(r)' = Own(r)
    BY <1>1 DEF Mine, Place, Own
  <2>2. tx[r].target \in DOMAIN tx[r].mine \ Sims /\ TargetOK(r)
    BY <1>7 DEF Locking
  <2>3. Own(r) => lock[tx[r].target] = r
    BY <1>7, <2>2 DEF Locking, TargetOK, ToLockReport, ToLockSims
  <2>4. Own(r) => tx[r].target \in DOMAIN db
    BY <1>7, <2>2 DEF TargetOK, Loaded
  <2>5. Own(r) => db'[tx[r].target] = db[tx[r].target]
    BY <1>2, <2>3, <2>4
  <2>6. TargetOK(r)'
    <3>1. Mine(r) \in Row /\ Mine(r).ver = call[r].ver
      BY <2>2 DEF TargetOK
    <3>2. tx[r].target \in DOMAIN tx[r].base /\ ~Own(r) => Mine(r) = tx[r].base[tx[r].target]
      BY <2>2 DEF TargetOK
    <3>3. Own(r) => /\ tx[r].target \in DOMAIN tx[r].base
                    /\ tx[r].base[tx[r].target] = db'[tx[r].target]
                    /\ Accepts(db'[tx[r].target], call[r]) /\ Mine(r) = Updated(db'[tx[r].target], call[r])
      BY <2>2, <2>5 DEF TargetOK
    <3>4. tx[r].target \notin DOMAIN tx[r].base =>
              /\ tx[r].target \notin DOMAIN db' /\ tx[r].target \in ReportIds /\ tx[r].target < nextId'
              /\ Mine(r) = NewRow(0, call[r].ver, Mine(r).sims) /\ Range(Mine(r).sims) \subseteq DOMAIN db'
      <4>1. tx[r].target \notin DOMAIN tx[r].base =>
              /\ tx[r].target \in ReportIds /\ tx[r].target < nextId
              /\ Mine(r) = NewRow(0, call[r].ver, Mine(r).sims) /\ Range(Mine(r).sims) \subseteq DOMAIN db
        BY <2>2 DEF TargetOK
      <4>2. ReportIds \subseteq Nat
        BY DEF ReportIds
      <4>3. tx[r].target \notin DOMAIN tx[r].base => tx[r].target \notin DOMAIN db'
        BY <1>2, <1>7
      <4>4. tx[r].target \in Nat /\ tx[r].target < nextId => tx[r].target < nextId'
        BY <1>1
      <4>5. DOMAIN db \subseteq DOMAIN db'
        BY <1>1
      <4> QED BY <4>1, <4>2, <4>3, <4>4, <4>5
    <3> QED BY <1>1, <2>1, <3>1, <3>2, <3>3, <3>4 DEF TargetOK
  <2>7. ToLockReport(r) => ToLockReport(r)'
    BY <1>1, <1>3, <2>1 DEF ToLockReport
  <2>8. ToLockSims(r) => ToLockSims(r)'
    <3> SUFFICES ASSUME ToLockSims(r) PROVE ToLockSims(r)'
      OBVIOUS
    <3>1. Mine(r).sims \in Seq(Sims) /\ Sims \subseteq Rows /\ Place(r) \in Nat /\ Place(r) <= Len(Mine(r).sims)
      BY <2>2 DEF TargetOK, Row, Rows, ToLockSims, Place
    <3>2. \A i \in 1..Place(r) : lock'[Mine(r).sims[i]] = r
      BY <1>1, <3>1 DEF ToLockSims
    <3>3. tx[r].target \in DOMAIN tx[r].base => lock'[tx[r].target] = r
      <4>1. tx[r].target \in DOMAIN tx[r].base => tx[r].target \in DOMAIN db
        BY <1>7, <2>2 DEF Loaded
      <4> QED BY <1>1, <4>1 DEF ToLockSims
    <3> QED BY <1>1, <1>3, <2>1, <3>2, <3>3 DEF ToLockSims
  <2> QED BY <1>1, <1>3, <1>7, <2>1, <2>6, <2>7, <2>8 DEF Locking
<1>8. SessionRecord(tx[r])'
  BY <1>1 DEF SessionOK, SessionRecord
<1>9. ASSUME NEW x \in Rows, Scanned(r, x) PROVE Scanned(r, x)'
  <2>1. call[r].op = "simpost" /\ x \in Simulations(db)
    BY <1>9 DEF Scanned
  <2>2. x \in Simulations(db') /\ \A s \in Simulations(db) : s \in Rows /\ s \in Simulations(db')
    BY <1>1, <2>1 DEF Simulations
  <2>3. ASSUME NEW s \in Simulations(db'), db'[s].num < db'[x].num PROVE lock'[s] = r
    <3>1. CASE s \in Simulations(db)
      <4>1. db[s].num < db[x].num
        BY <1>2, <2>1, <2>3, <3>1 DEF SameOrder
      <4>2. lock[s] = r
        BY <1>9, <3>1, <4>1 DEF Scanned
      <4> QED BY <1>1, <2>2, <3>1, <4>2
    <3>2. CASE s \notin Simulations(db)
      <4>1. s \in Simulations(db') \ DOMAIN db
        BY <2>3, <3>2 DEF Simulations
      <4>2. db[x].num < db'[s].num /\ db'[x].num = db[x].num /\ db'[s].num \in Nat
        BY <1>2, <2>1, <4>1 DEF SameOrder
      <4>3. db[x].num \in Nat
        BY <2>1 DEF IInv, RowsOK, Simulations, Row
      <4>4. ~(db'[s].num < db[x].num)
        BY <4>2, <4>3
      <4> QED BY <2>3, <4>2, <4>4
    <3> QED BY <3>1, <3>2
  <2> QED BY <1>1, <2>1, <2>2, <2>3 DEF Scanned
<1>10. tx[r].pc = "start" => \A x \in Rows : lock'[x] = r => Scanned(r, x)'
  BY <1>1, <1>9 DEF SessionOK
<1> QED BY <1>1, <1>4, <1>5, <1>6, <1>7, <1>8, <1>10 DEF SessionOK

\* A request changes only its own session.
LEMMA OwnSession ==
  ASSUME tx = [q \in Requests |-> tx[q]], NEW q \in Requests, NEW new, tx' = [tx EXCEPT ![q] = new]
  PROVE  /\ tx'[q] = new /\ \A r \in Requests \ {q} : tx'[r] = tx[r]
         /\ tx' = [r \in Requests |-> tx'[r]]
OBVIOUS

\* Ids stay for the INSERTs to come, if no session becomes one that may INSERT.
LEMMA IdsKept ==
  ASSUME IInv, nextId' = nextId,
         \A r \in Requests : tx'[r].pc \in {"start", "insert"} => tx[r].pc \in {"start", "insert"}
  PROVE  IdsLeft'
<1>1. ToInsert' \subseteq ToInsert /\ ToInsert \subseteq Requests
  BY DEF ToInsert
<1>2. IsFiniteSet(Requests) /\ FirstNewId \in Nat
  BY ReportsAssumption DEF ReportsAssumption
<1>3. IsFiniteSet(ToInsert) /\ IsFiniteSet(ToInsert')
  BY <1>1, <1>2, FS_Subset
<1>4. /\ Cardinality(ToInsert) \in Nat /\ Cardinality(ToInsert') \in Nat /\ Cardinality(Requests) \in Nat
      /\ Cardinality(ToInsert') <= Cardinality(ToInsert)
  BY <1>1, <1>2, <1>3, FS_CardinalityType, FS_Subset
<1>5. Cardinality(ToInsert)' = Cardinality(ToInsert')
  OBVIOUS
<1> QED BY <1>2, <1>4, <1>5 DEF IInv, IdsLeft

\* An overtaken report remains one: a request that can take a step has overtaken none.
LEMMA OvertakenStays ==
  ASSUME IInv, NEW q \in Requests, tx[q].late = 0, \A r \in Requests \ {q} : tx'[r] = tx[r]
  PROVE  \A x \in Rows : x \in Overtaken => x \in Overtaken'
<1>1. 0 \notin Rows
  BY ReportsAssumption DEF Rows, ReportIds, ReportsAssumption
<1>2. ASSUME NEW r \in Requests, tx[r].late \in Rows PROVE tx'[r].late = tx[r].late
  BY <1>1, <1>2
<1> QED BY <1>2, Zenon DEF Overtaken

\* A step that writes no row.
LEMMA NothingWritten ==
  ASSUME IInv, db' = db, call' = call, nextId' \in Nat, nextId <= nextId',
         \A x \in Rows : x \in Overtaken => x \in Overtaken'
  PROVE  /\ RowsOK'
         /\ \A r \in Requests :
               tx'[r] = tx[r] /\ (\A x \in Rows : lock'[x] = r <=> lock[x] = r) => Meanwhile(r)
<1>1. RowsOK /\ nextId \in Nat
  BY DEF IInv, IdsLeft
<1>2. RowsOK'
  <2>1. \A x \in DOMAIN db \ Sims : x < nextId'
    <3> SUFFICES ASSUME NEW x \in DOMAIN db \ Sims PROVE x < nextId'
      OBVIOUS
    <3>1. x \in Nat /\ x < nextId
      BY <1>1 DEF RowsOK, Rows, ReportIds
    <3> QED BY <1>1, <3>1
  <2>2. \A x \in DOMAIN db : x \in Sims \/ x \notin Overtaken' => Mirrors(db[x])
    BY <1>1 DEF RowsOK
  <2>3. Numbered'
    BY <1>1 DEF RowsOK, Numbered, Simulations
  <2> QED BY <1>1, <2>1, <2>2, <2>3 DEF RowsOK
<1>3. ASSUME NEW r \in Requests, tx'[r] = tx[r], \A x \in Rows : lock'[x] = r <=> lock[x] = r
      PROVE  Meanwhile(r)
  <2>1. \A x \in DOMAIN db \ Sims : Since(db[x], db'[x])
    BY <1>1, SinceSelf DEF RowsOK
  <2>2. tx[r].pc = "locking" /\ tx[r].target \notin DOMAIN tx[r].base => tx[r].target \notin DOMAIN db
    BY DEF IInv, SessionOK, Locking, TargetOK
  <2>3. SameOrder
    BY DEF SameOrder, Simulations
  <2> QED BY <1>3, <2>1, <2>2, <2>3 DEF Meanwhile
<1> QED BY <1>2, <1>3

\* What a step of q has to keep.
LEMMA StepKeeps ==
  ASSUME IInv, NEW q \in Requests,
         call' = call, lock' \in [Rows -> Requests \union {NoOne}],
         NEW new, tx' = [tx EXCEPT ![q] = new],
         RowsOK', IdsLeft', SessionOK(q)',
         \A r \in Requests \ {q} : Meanwhile(r),
         new.pc = "locking" =>
             \A r \in Requests \ {q} :
                 tx[r].pc = "locking" /\ tx[r].target = new.target =>
                     new.target \in DOMAIN new.base /\ new.target \in DOMAIN tx[r].base
  PROVE  IInv'
<1>1. /\ tx'[q] = new /\ \A r \in Requests \ {q} : tx'[r] = tx[r]
      /\ tx' = [r \in Requests |-> tx'[r]]
  BY OwnSession DEF IInv
<1>2. \A r \in Requests : SessionOK(r)'
  BY Undisturbed
<1>3. InsertedApart'
  BY <1>1 DEF IInv, InsertedApart
<1> QED BY <1>1, <1>2, <1>3 DEF IInv

\* The end of a transaction leaves no lock.
Ended(answer, late) == [NoSession EXCEPT !.pc = "ended", !.answer = answer, !.late = late]

LEMMA Ending ==
  ASSUME IInv, NEW q \in Requests, tx[q].late = 0, NEW answer, NEW late, Leave(q, answer, late)
  PROVE  /\ SessionOK(q)' /\ IdsLeft' /\ call' = call /\ nextId' = nextId
         /\ lock' \in [Rows -> Requests \union {NoOne}]
         /\ tx' = [tx EXCEPT ![q] = Ended(answer, late)]
         /\ \A r \in Requests \ {q} : tx'[r] = tx[r] /\ \A x \in Rows : lock'[x] = r <=> lock[x] = r
         /\ tx'[q].pc = "ended" /\ tx'[q].answer = answer /\ tx'[q].late = late
         /\ \A x \in Rows : x \in Overtaken => x \in Overtaken'
         /\ Ended(answer, late).pc = "ended"
<1> DEFINE new == Ended(answer, late)
<1>1. /\ tx' = [tx EXCEPT ![q] = new] /\ lock' = [x \in Rows |-> IF lock[x] = q THEN NoOne ELSE lock[x]]
      /\ nextId' = nextId /\ call' = call
  BY DEF Leave, Ended
<1>2. new.pc = "ended" /\ new.answer = answer /\ new.late = late /\ SessionRecord(new)
  BY DEF NoSession, SessionRecord, PCs, Ended
<1> HIDE DEF new
<1>3. tx'[q] = new /\ \A r \in Requests \ {q} : tx'[r] = tx[r]
  BY <1>1, OwnSession DEF IInv
<1>4. NoOne \notin Requests
  BY ReportsAssumption DEF ReportsAssumption
<1>5. /\ lock' \in [Rows -> Requests \union {NoOne}]
      /\ \A x \in Rows : lock'[x] # q
      /\ \A r \in Requests \ {q} : \A x \in Rows : lock'[x] = r <=> lock[x] = r
  BY <1>1, <1>4 DEF IInv
<1>6. SessionOK(q)'
  BY <1>2, <1>3, <1>5 DEF SessionOK, SessionRecord
<1>7. IdsLeft'
  BY <1>1, <1>2, <1>3, IdsKept
<1>8. \A x \in Rows : x \in Overtaken => x \in Overtaken'
  BY <1>3, OvertakenStays
<1> QED BY <1>1, <1>2, <1>3, <1>5, <1>6, <1>7, <1>8 DEF new

\* A ROLLBACK.
LEMMA RollbackKeeps ==
  ASSUME IInv, NEW q \in Requests, tx[q].late = 0, NEW answer, Rollback(q, answer)
  PROVE  IInv'
<1> DEFINE new == Ended(answer, 0)
<1>1. Leave(q, answer, 0) /\ db' = db
  BY DEF Rollback, End
<1>2. /\ SessionOK(q)' /\ IdsLeft' /\ call' = call /\ nextId' = nextId
      /\ lock' \in [Rows -> Requests \union {NoOne}] /\ tx' = [tx EXCEPT ![q] = new]
      /\ \A r \in Requests \ {q} : tx'[r] = tx[r] /\ \A x \in Rows : lock'[x] = r <=> lock[x] = r
      /\ \A x \in Rows : x \in Overtaken => x \in Overtaken'
      /\ new.pc = "ended"
  BY <1>1, Ending
<1>3. nextId' \in Nat /\ nextId <= nextId'
  BY <1>2 DEF IInv, IdsLeft
<1>4. RowsOK' /\ \A r \in Requests \ {q} : Meanwhile(r)
  BY <1>1, <1>2, <1>3, NothingWritten
<1> HIDE DEF new
<1> QED BY <1>2, <1>4, StepKeeps
(***************************************************************************)
(* Opening a report.                                                       *)
(***************************************************************************)

\* A set of numbers has a least one.
LEMMA Least == ASSUME NEW T \in SUBSET Nat, T # {} PROVE \E x \in T : \A y \in T : x <= y
<1>1. \E x \in T : \A y \in T : ~(<<y, x>> \in OpToRel(<, Nat))
  BY NatLessThanWellFounded, WFMin
<1>2. PICK x \in T : \A y \in T : ~(<<y, x>> \in OpToRel(<, Nat))
  BY <1>1
<1>3. ASSUME NEW y \in T PROVE x <= y
  <2>1. x \in Nat /\ y \in Nat
    OBVIOUS
  <2>2. <<y, x>> \in Nat \X Nat /\ <<y, x>>[1] = y /\ <<y, x>>[2] = x
    BY <2>1
  <2>3. y < x => <<y, x>> \in OpToRel(<, Nat)
    BY <2>1, <2>2 DEF OpToRel
  <2>4. ~(y < x)
    BY ONLY <1>2, <2>3, y \in T, Zenon
  <2> QED BY ONLY <2>1, <2>4, SMT
<1> QED BY <1>3

\* The newest of some reports is one of them.
LEMMA Newest == ASSUME NEW N \in Nat, NEW S \in SUBSET (1..N), S # {} PROVE Max(S) \in S
<1> DEFINE T == {N - x : x \in S}
<1>1. T \in SUBSET Nat /\ T # {}
  <2>1. ASSUME NEW x \in S PROVE N - x \in Nat
    OBVIOUS
  <2>2. PICK x \in S : TRUE
    OBVIOUS
  <2>3. N - x \in T
    OBVIOUS
  <2> QED BY <2>1, <2>3
<1> HIDE DEF T
<1>2. PICK n \in T : \A m \in T : n <= m
  BY <1>1, Least
<1>3. PICK x \in S : n = N - x
  BY DEF T
<1>4. ASSUME NEW y \in S PROVE x >= y
  <2>1. n <= N - y
    BY <1>2 DEF T
  <2> QED BY <1>3, <2>1
<1> QED BY <1>4 DEF Max

\* The reports that a session finds and the one it holds are not simulations.
LEMMA FoundIsReport ==
  ASSUME IInv, NEW found, found \subseteq DOMAIN db \ Sims, found # {}
  PROVE  Max(found) \in found
<1> DEFINE N == FirstNewId + Cardinality(Requests) - 1
<1>1. N \in Nat
  <2>1. FirstNewId \in Nat \ {0} /\ IsFiniteSet(Requests)
    BY ReportsAssumption DEF ReportsAssumption
  <2> QED BY <2>1, FS_CardinalityType
<1>2. found \subseteq 1..N
  BY DEF IInv, RowsOK, Rows, ReportIds
<1> QED BY <1>1, <1>2, Newest

\* A session that has loaded the rows S, with its next stage.
Session(S, pc, target, todo) == [Load(S) EXCEPT !.pc = pc, !.target = target, !.todo = todo]

\* Its fields.
LEMMA LoadedSession ==
  ASSUME NEW S, NEW pc \in PCs, NEW target, NEW todo
  PROVE  LET new == Session(S, pc, target, todo)
         IN /\ SessionRecord(new) /\ new.pc = pc /\ new.target = target /\ new.todo = todo
            /\ new.snap = db /\ new.base = Restrict(db, S) /\ new.mine = Restrict(db, S) /\ new.late = 0
<1> DEFINE rows == Restrict(db, S)
           old == Load(S)
           new == [old EXCEPT !.pc = pc, !.target = target, !.todo = todo]
<1> HIDE DEF rows
<1>1. old = [NoSession EXCEPT !.snap = db, !.base = rows, !.mine = rows]
  BY DEF Load, rows
<1> HIDE DEF old
<1>2. old = [pc |-> "start", snap |-> db, base |-> rows, mine |-> rows,
             target |-> 0, todo |-> <<>>, answer |-> "none", late |-> 0]
  BY <1>1 DEF NoSession
<1>3. old \in [pc: {"start"}, snap: {db}, base: {rows}, mine: {rows}, target: {0}, todo: {<<>>}, answer: {"none"},
             late: {0}]
  BY <1>2
<1>4. /\ new.pc = pc /\ new.target = target /\ new.todo = todo /\ new.snap = db
      /\ new.base = rows /\ new.mine = rows /\ new.late = 0
      /\ new \in [pc: {pc}, snap: {db}, base: {rows}, mine: {rows}, target: {target}, todo: {todo}, answer: {"none"},
                  late: {0}]
  BY <1>3
<1> HIDE DEF new
<1>5. SessionRecord(new)
  BY <1>4 DEF SessionRecord
<1> QED BY <1>4, <1>5 DEF rows, new, old, Session

\* Before an INSERT it works on no report.
LEMMA NoTarget ==
  ASSUME NEW S, NEW todo
  PROVE  [Load(S) EXCEPT !.pc = "insert", !.todo = todo] = Session(S, "insert", 0, todo)
<1> DEFINE rows == Restrict(db, S)
<1> HIDE DEF rows
<1>1. Load(S) \in [pc: {"start"}, snap: {db}, base: {rows}, mine: {rows}, target: {0}, todo: {<<>>}, answer: {"none"},
             late: {0}]
  BY DEF Load, NoSession, rows
<1> QED BY <1>1 DEF Session

\* The rows it has loaded.
LEMMA Loads == ASSUME NEW S PROVE DOMAIN Restrict(db, S) = S /\ \A x \in S : Restrict(db, S)[x] = db[x]
BY DEF Restrict

\* A session that begins holds no lock unless it scans, has read nothing, and works
\* on no report.
LEMMA Beginning ==
  ASSUME IInv, NEW q \in Requests, tx[q].pc = "start"
  PROVE  /\ call[q].op # "simpost" => \A x \in Rows : lock[x] # q
         /\ tx[q] = NoSession /\ tx[q].late = 0
<1>1. tx[q] = NoSession /\ \A x \in Rows : lock[x] = q => Scanned(q, x)
  BY DEF IInv, SessionOK
<1> QED BY <1>1 DEF Scanned, NoSession

\* A step that ends no transaction overtakes none.
LEMMA GoesOn ==
  ASSUME IInv, NEW q \in Requests, tx[q].pc # "ended", NEW new, tx' = [tx EXCEPT ![q] = new]
  PROVE  \A x \in Rows : x \in Overtaken => x \in Overtaken'
<1>1. \A r \in Requests \ {q} : tx'[r] = tx[r]
  BY OwnSession DEF IInv
<1>2. tx[q].late = 0
  BY DEF IInv, SessionOK
<1> QED BY <1>1, <1>2, OvertakenStays

\* The choice of the report to work on.
LEMMA AimKeeps ==
  ASSUME IInv, NEW q \in Requests, tx[q].pc = "start", call[q].op \in {"get", "post", "patch"},
         NEW sims \in Seq(Sims), NEW found, NEW held, Aim(q, sims, found, held),
         found \subseteq {x \in DOMAIN db \ Sims : db[x].sims = sims /\ db[x].ver = call[q].ver},
         \A x \in held : IsOutdated(q, x),
         call[q].op = "patch" => call[q].report \in held,
         db' = db, nextId' = nextId, call' = call,
         lock' \in [Rows -> Requests \union {NoOne}],
         \A x \in Rows : lock'[x] = q => IsOutdated(q, x),
         \A r \in Requests \ {q} : \A x \in Rows : lock'[x] = r <=> lock[x] = r
  PROVE  IInv'
<1>1. RowsOK /\ nextId \in Nat /\ call \in Calls
  BY DEF IInv, IdsLeft
<1>2. held \subseteq DOMAIN db \ Sims
  BY <1>1, CallIs DEF IsOutdated
<1>0. tx[q].pc # "ended"
  OBVIOUS
<1>3. ASSUME NEW new, tx' = [tx EXCEPT ![q] = new], new.pc \in {"insert", "locking"}, SessionOK(q)',
             new.pc = "locking" => new.target \in DOMAIN db /\ new.target \in DOMAIN new.base
      PROVE  IInv'
  <2>1. tx'[q] = new /\ \A r \in Requests \ {q} : tx'[r] = tx[r]
    BY <1>3, OwnSession DEF IInv
  <2>2. IdsLeft'
    BY <2>1, IdsKept
  <2>3. RowsOK' /\ \A r \in Requests \ {q} : Meanwhile(r)
    <3>1. \A x \in Rows : x \in Overtaken => x \in Overtaken'
      BY <1>0, <1>3, GoesOn
    <3> QED BY <1>1, <2>1, <3>1, NothingWritten
  <2>4. ASSUME new.pc = "locking", NEW r \in Requests \ {q}, tx[r].pc = "locking", tx[r].target = new.target
        PROVE  new.target \in DOMAIN new.base /\ new.target \in DOMAIN tx[r].base
    BY <1>3, <2>4 DEF IInv, SessionOK, Locking, TargetOK
  <2> QED BY <1>3, <2>2, <2>3, <2>4, StepKeeps
<1>4. ASSUME NEW S, S \subseteq DOMAIN db \ Sims, NEW new, tx' = [tx EXCEPT ![q] = new],
             new.base = Restrict(db, S), new.snap = db
      PROVE  Past(tx[q].snap)' /\ Loaded(q)'
  <2>0. tx'[q] = new
    BY <1>4, OwnSession DEF IInv
  <2>1. Past(tx[q].snap)'
    BY <1>1, <1>4, <2>0 DEF Past, RowsOK
  <2>2. ASSUME NEW x \in S
        PROVE  x \in DOMAIN db /\ Since(db[x], db[x]) /\ (x \in Overtaken' \/ Mirrors(db[x]))
    <3>1. x \in DOMAIN db /\ x \in Rows /\ Formed(db[x]) /\ (x \notin Overtaken => Mirrors(db[x]))
      BY <1>1, <1>4, <2>2 DEF RowsOK
    <3>2. x \in Overtaken => x \in Overtaken'
      BY <1>0, <1>4, <3>1, GoesOn
    <3> QED BY <3>1, <3>2, SinceSelf
  <2>3. DOMAIN new.base = S /\ \A x \in S : new.base[x] = db[x]
    BY Loads, <1>4
  <2> QED BY <1>4, <2>0, <2>1, <2>2, <2>3 DEF Loaded
<1>5. CASE found # {}
  <2> DEFINE m == Max(found)
             S == held \union {m}
             todo == <<m>> \o sims
             new == Session(S, "locking", m, todo)
  <2>1. m \in DOMAIN db \ Sims /\ db[m].sims = sims /\ db[m].ver = call[q].ver
    BY <1>5, FoundIsReport
  <2>2. tx' = [tx EXCEPT ![q] = new]
    BY <1>5 DEF Aim, Session
  <2>3. /\ new.pc = "locking" /\ new.target = m /\ new.todo = todo /\ new.snap = db
        /\ new.base = Restrict(db, S) /\ new.mine = Restrict(db, S) /\ SessionRecord(new) /\ new.late = 0
    <3>1. "locking" \in PCs
      BY DEF PCs
    <3> HIDE DEF m, S, todo
    <3> QED BY ONLY <3>1, LoadedSession
  <2>4. tx'[q] = new
    BY <2>2, OwnSession DEF IInv
  <2>5. S \subseteq DOMAIN db \ Sims
    BY <1>2, <2>1
  <2> HIDE DEF m, new
  <2>6. Past(tx[q].snap)' /\ Loaded(q)'
    BY <1>4, <2>2, <2>3, <2>5
  <2>7. Mine(q)' = db[m] /\ db[m] \in Row
    BY Loads, <1>1, <2>1, <2>3, <2>4 DEF Mine, RowsOK, Formed
  <2>8. ~Own(q)'
    BY <2>1, <2>3, <2>4 DEF Own, IsOutdated
  <2>9. TargetOK(q)'
    BY Loads, <2>1, <2>3, <2>4, <2>7, <2>8 DEF TargetOK
  <2>10. \A x \in Rows : lock'[x] = q => IsOutdated(q, x)'
    BY DEF IsOutdated
  <2>11. ToLockReport(q)'
    BY Loads, <2>1, <2>3, <2>4, <2>7, <2>8, <2>10 DEF ToLockReport
  <2>12. \A x \in S \ (Sims \union {m}) : IsOutdated(q, x)'
    BY DEF IsOutdated
  <2>13. Locking(q)'
    BY Loads, <2>1, <2>3, <2>4, <2>9, <2>11, <2>12 DEF Locking
  <2>14. SessionOK(q)'
    BY <2>3, <2>4, <2>6, <2>13 DEF SessionOK, SessionRecord
  <2>15. new.target \in DOMAIN db /\ new.target \in DOMAIN new.base /\ new.pc \in {"insert", "locking"}
    BY Loads, <2>1, <2>3
  <2> QED BY <1>3, <2>2, <2>14, <2>15
<1>6. CASE found = {}
  <2> DEFINE new == Session(held, "insert", 0, sims)
  <2>1. new = [Load(held) EXCEPT !.pc = "insert", !.todo = sims]
    BY NoTarget
  <2>2. tx' = [tx EXCEPT ![q] = new] /\ Range(sims) \subseteq DOMAIN db
    BY <1>6, <2>1 DEF Aim
  <2>3. /\ new.pc = "insert" /\ new.todo = sims /\ new.snap = db
        /\ new.base = Restrict(db, held) /\ new.mine = Restrict(db, held) /\ SessionRecord(new) /\ new.late = 0
    <3>1. "insert" \in PCs
      BY DEF PCs
    <3> QED BY <3>1, LoadedSession
  <2>4. tx'[q] = new
    BY <2>2, OwnSession DEF IInv
  <2> HIDE DEF new
  <2>5. Past(tx[q].snap)' /\ Loaded(q)'
    BY <1>2, <1>4, <2>2, <2>3
  <2>6. \A x \in Rows : lock'[x] = q => IsOutdated(q, x)'
    BY DEF IsOutdated
  <2>7. \A x \in held : IsOutdated(q, x)'
    BY DEF IsOutdated
  <2>8. Inserting(q)'
    BY Loads, <2>2, <2>3, <2>4, <2>6, <2>7 DEF Inserting
  <2>9. SessionOK(q)'
    BY <2>3, <2>4, <2>5, <2>8 DEF SessionOK, SessionRecord
  <2> QED BY <1>3, <2>2, <2>3, <2>9
<1> QED BY <1>5, <1>6

\* The simulations of the report that a call is about.
LEMMA WantedSims == ASSUME IInv, NEW q \in Requests, Known(q) PROVE Wanted(q) \in Seq(Sims)
<1>1. call[q] \in Call
  BY CallIs DEF IInv
<1>2. CASE call[q].op = "post"
  BY <1>1, <1>2 DEF Wanted, Call
<1>3. CASE call[q].op # "post"
  BY <1>3 DEF Wanted, Known, IInv, RowsOK, Row
<1> QED BY <1>2, <1>3

\* The reports of these simulations, of this build.
LEMMA CurrentReports ==
  ASSUME NEW sims, NEW ver
  PROVE  Current(sims, ver) \subseteq {x \in DOMAIN db \ Sims : db[x].sims = sims /\ db[x].ver = ver}
BY DEF Current

\* create_or_reuse_report_output and resolve_report_output.
LEMMA OpenKeeps == ASSUME IInv, NEW q \in Requests, Open(q) PROVE IInv'
<1> DEFINE sims == Wanted(q)
           found == IF IsCurrent(q) THEN {call[q].report} ELSE Current(sims, call[q].ver)
<1>1. /\ tx[q].pc = "start" /\ call[q].op \in {"get", "post"} /\ Known(q) /\ Aim(q, sims, found, {})
      /\ db' = db /\ nextId' = nextId /\ lock' = lock /\ call' = call
  BY DEF Open
<1>2. sims \in Seq(Sims)
  BY <1>1, WantedSims
<1>3. found \subseteq {x \in DOMAIN db \ Sims : db[x].sims = sims /\ db[x].ver = call[q].ver}
  <2>1. CASE IsCurrent(q)
    BY <1>1, <2>1, CallIs DEF IsCurrent, Known, Wanted, IInv
  <2>2. CASE ~IsCurrent(q)
    BY <2>2, CurrentReports
  <2> QED BY <2>1, <2>2
<1>4. /\ lock' \in [Rows -> Requests \union {NoOne}]
      /\ \A x \in Rows : lock'[x] # q
      /\ \A r \in Requests \ {q} : \A x \in Rows : lock'[x] = r <=> lock[x] = r
  BY <1>1, Beginning DEF IInv
<1> HIDE DEF sims, found
<1> QED BY <1>1, <1>2, <1>3, <1>4, AimKeeps

\* An update of a report of another cache version.
LEMMA PatchOutdatedKeeps == ASSUME IInv, NEW q \in Requests, PatchOutdated(q) PROVE IInv'
<1> DEFINE sims == Wanted(q)
           x0 == call[q].report
           found == Current(sims, call[q].ver)
<1>1. /\ tx[q].pc = "start" /\ call[q].op = "patch" /\ Known(q) /\ ~IsCurrent(q) /\ lock[x0] = NoOne
      /\ Aim(q, sims, found, {x0}) /\ lock' = [lock EXCEPT ![x0] = q]
      /\ db' = db /\ nextId' = nextId /\ call' = call
  BY DEF PatchOutdated
<1>2. sims \in Seq(Sims)
  BY <1>1, WantedSims
<1>3. found \subseteq {x \in DOMAIN db \ Sims : db[x].sims = sims /\ db[x].ver = call[q].ver}
  BY CurrentReports
<1>4. IsOutdated(q, x0) /\ x0 \in Rows
  BY <1>1 DEF IsOutdated, IsCurrent, Known, IInv, RowsOK
<1>5. /\ lock' \in [Rows -> Requests \union {NoOne}]
      /\ \A x \in Rows : lock'[x] = q => x = x0
      /\ \A r \in Requests \ {q} : \A x \in Rows : lock'[x] = r <=> lock[x] = r
  <2>1. NoOne \notin Requests /\ \A x \in Rows : lock[x] # q
    BY <1>1, Beginning, ReportsAssumption DEF ReportsAssumption
  <2> QED BY <1>1, <1>4, <2>1 DEF IInv
<1> HIDE DEF sims, found, x0
<1>6. \A x \in {x0} : IsOutdated(q, x)
  BY <1>4
<1>7. \A x \in Rows : lock'[x] = q => IsOutdated(q, x)
  BY <1>4, <1>5
<1>8. call[q].op \in {"get", "post", "patch"} /\ call[q].report \in {x0}
  BY <1>1 DEF x0
<1> QED BY <1>1, <1>2, <1>3, <1>5, <1>6, <1>7, <1>8, AimKeeps

\* An update replaces the fields it gives.
LEMMA UpdatedRow ==
  ASSUME NEW row \in Row, NEW c \in Call, Valid(c)
  PROVE  LET new == Updated(row, c)
         IN /\ new \in Row /\ new.num = row.num /\ new.ver = row.ver /\ new.sims = row.sims /\ new.kind = row.kind
            /\ new.run = row.run
            /\ new.status = IF c.status = "keep" THEN row.status ELSE c.status
            /\ new.output = IF c.output = NoOutput THEN row.output ELSE c.output
            /\ row.output # NoOutput => new.output # NoOutput
            /\ new.status = "complete" => new.output # NoOutput \/ new.status = row.status
<1> DEFINE status == IF c.status = "keep" THEN row.status ELSE c.status
           output == IF c.output = NoOutput THEN row.output ELSE c.output
           error == row.error \/ c.error
<1>1. status \in Statuses /\ output \in Outputs \union {NoOutput} /\ error \in BOOLEAN
  BY DEF Row, Call
<1>2. Updated(row, c) = [row EXCEPT !.status = status, !.output = output, !.error = error]
  BY DEF Updated
<1>3. c.status = "complete" => c.output # NoOutput
  BY DEF Valid
<1> HIDE DEF error
<1>4. LET new == [row EXCEPT !.status = status, !.output = output, !.error = error]
      IN /\ new \in Row /\ new.num = row.num /\ new.ver = row.ver /\ new.sims = row.sims /\ new.kind = row.kind
         /\ new.run = row.run /\ new.status = status /\ new.output = output
  BY <1>1 DEF Row
<1> QED BY <1>2, <1>3, <1>4

\* A session that has locked the report it is asked to update, and updated it.
PatchSession(S, x, todo, snap, row) ==
    [Load(S) EXCEPT !.pc = "locking", !.target = x, !.todo = todo, !.snap = snap,
                    !.mine = With(Restrict(db, S), x, row)]

\* Its fields.
LEMMA PatchedSession ==
  ASSUME NEW S, NEW x, NEW todo, NEW snap, NEW row
  PROVE  LET new == PatchSession(S, x, todo, snap, row)
         IN /\ SessionRecord(new) /\ new.pc = "locking" /\ new.target = x /\ new.todo = todo
            /\ new.snap = snap
            /\ new.base = Restrict(db, S) /\ new.mine = With(Restrict(db, S), x, row) /\ new.late = 0
<1> DEFINE rows == Restrict(db, S)
           mine == With(rows, x, row)
           old == Load(S)
           new == [old EXCEPT !.pc = "locking", !.target = x, !.todo = todo, !.snap = snap, !.mine = mine]
<1> HIDE DEF mine, rows
<1>1. old \in [pc: {"start"}, snap: {db}, base: {rows}, mine: {rows}, target: {0}, todo: {<<>>}, answer: {"none"},
             late: {0}]
  BY DEF Load, NoSession, rows
<1> HIDE DEF old
<1>2. /\ new.pc = "locking" /\ new.target = x /\ new.todo = todo /\ new.snap = snap
      /\ new.base = rows /\ new.mine = mine /\ new.late = 0
      /\ new \in [pc: {"locking"}, snap: {snap}, base: {rows}, mine: {mine}, target: {x}, todo: {todo},
                  answer: {"none"}, late: {0}]
  BY <1>1
<1> HIDE DEF new
<1>3. SessionRecord(new)
  BY <1>2 DEF SessionRecord, PCs
<1> QED BY <1>2, <1>3 DEF rows, mine, old, new, PatchSession

\* The snapshot of a session that begins.
LEMMA LoadFields == ASSUME NEW S PROVE Load(S).snap = db /\ Load(S).mine = Restrict(db, S)
<1> DEFINE rows == Restrict(db, S)
<1> HIDE DEF rows
<1> QED BY DEF Load, NoSession, rows

\* An update of a report of this build's cache version.
LEMMA PatchCurrentKeeps == ASSUME IInv, NEW q \in Requests, PatchCurrent(q) PROVE IInv'
<1> DEFINE c == call[q]
           x == c.report
           row == db[x]
<1>1. /\ tx[q].pc = "start" /\ c.op = "patch" /\ Known(q) /\ IsCurrent(q) /\ lock[x] = NoOne
  BY DEF PatchCurrent
<1>2. CASE ~Accepts(row, c) /\ Rollback(q, "refused")
  BY <1>1, <1>2, Beginning, RollbackKeeps
<1>3. CASE /\ Accepts(row, c) /\ lock' = [lock EXCEPT ![x] = q]
           /\ tx' = [tx EXCEPT ![q] = [Load({x}) EXCEPT
                    !.pc = "locking", !.target = x, !.todo = row.sims,
                    !.snap = IF c.status = "running" THEN @ ELSE <<>>,
                    !.mine = With(@, x, Updated(row, c))]]
           /\ UNCHANGED <<db, nextId, call>>
  <2> DEFINE snap == IF c.status = "running" THEN db ELSE <<>>
             s == PatchSession({x}, x, row.sims, snap, Updated(row, c))
  <2>1. tx' = [tx EXCEPT ![q] = s]
    BY <1>3, LoadFields DEF PatchSession
  <2>2. /\ SessionRecord(s) /\ s.pc = "locking" /\ s.target = x /\ s.todo = row.sims
        /\ s.snap \in {db, <<>>}
        /\ s.base = Restrict(db, {x}) /\ s.mine = With(Restrict(db, {x}), x, Updated(row, c)) /\ s.late = 0
    <3>1. snap \in {db, <<>>}
      OBVIOUS
    <3> HIDE DEF snap
    <3> QED BY <3>1, PatchedSession
  <2> HIDE DEF s
  <2>3. tx'[q] = s /\ \A r \in Requests \ {q} : tx'[r] = tx[r]
    BY <2>1, OwnSession DEF IInv
  <2>4. /\ db' = db /\ nextId' = nextId /\ call' = call /\ lock' = [lock EXCEPT ![x] = q]
        /\ RowsOK /\ nextId \in Nat /\ call \in Calls
    BY <1>3 DEF IInv, IdsLeft
  <2>5. c \in Call /\ Valid(c) /\ x \notin Sims
    BY <2>4, CallIs
  <2>6. /\ x \in DOMAIN db \ Sims /\ x \in Rows /\ row.ver = c.ver /\ row \in Row
        /\ Formed(row) /\ (x \in Overtaken \/ Mirrors(row))
        /\ x \in Overtaken => x \in Overtaken'
    <3>1. /\ x \in DOMAIN db \ Sims /\ x \in Rows /\ row.ver = c.ver /\ row \in Row
          /\ Formed(row) /\ (x \in Overtaken \/ Mirrors(row))
      BY <1>1, <2>4, <2>5 DEF Known, IsCurrent, RowsOK
    <3>2. tx[q].pc # "ended"
      BY <1>1
    <3> QED BY <2>1, <3>1, <3>2, GoesOn
  <2>7. /\ lock' \in [Rows -> Requests \union {NoOne}] /\ lock'[x] = q
        /\ \A y \in Rows : lock'[y] = q => y = x
        /\ \A r \in Requests \ {q} : \A y \in Rows : lock'[y] = r <=> lock[y] = r
    <3>1. NoOne \notin Requests /\ \A y \in Rows : lock[y] # q
      BY <1>1, Beginning, ReportsAssumption DEF ReportsAssumption
    <3> QED BY <1>1, <2>4, <2>6, <3>1 DEF IInv
  <2>8. /\ DOMAIN s.base = {x} /\ s.base[x] = row
        /\ DOMAIN s.mine = {x} /\ s.mine[x] = Updated(row, c)
    BY <2>2, Loads DEF With
  <2>9. Mine(q)' = Updated(row, c) /\ Own(q)'
    BY <1>1, <2>2, <2>3, <2>4, <2>8 DEF Mine, Own
  <2>10. Updated(row, c) \in Row /\ Updated(row, c).ver = c.ver /\ Updated(row, c).sims = row.sims
    BY <2>5, <2>6, UpdatedRow
  <2>11. Past(db)' /\ Loaded(q)'
    <3>1. Past(db)'
      BY <2>4 DEF Past, RowsOK
    <3>2. Since(row, row)
      BY <2>6, SinceSelf
    <3>3. \A y \in DOMAIN s.base \ Sims :
             y \in DOMAIN db /\ Since(s.base[y], db[y]) /\ (y \in Overtaken' \/ Mirrors(s.base[y]))
      BY <2>6, <2>8, <3>2
    <3>4. DOMAIN s.base \intersect Sims = {}
      BY <2>6, <2>8
    <3>5. Loaded(q)'
      BY <2>3, <2>4, <3>3, <3>4 DEF Loaded
    <3> QED BY <3>1, <3>5
  <2>12. TargetOK(q)'
    BY <1>3, <2>2, <2>3, <2>4, <2>8, <2>9, <2>10 DEF TargetOK
  <2>13. ToLockSims(q)'
    <3>1. row.sims \in Seq(Sims)
      BY <2>6 DEF Row
    <3>2. Place(q)' = 0
      BY <2>2, <2>3, <2>9, <2>10, <3>1 DEF Place
    <3> QED BY <2>2, <2>3, <2>7, <2>8, <2>9, <2>10, <3>1, <3>2 DEF ToLockSims
  <2>14. Locking(q)'
    BY <2>2, <2>3, <2>6, <2>8, <2>9, <2>12, <2>13 DEF Locking
  <2>15. SessionOK(q)'
    <3>1. tx'[q].snap # <<>> => Past(tx[q].snap)'
      BY <2>2, <2>3, <2>4, <2>11 DEF Past
    <3> QED BY <1>1, <2>2, <2>3, <2>4, <2>11, <2>14, <3>1 DEF SessionOK, SessionRecord
  <2>16. IdsLeft'
    BY <2>2, <2>3, <2>4, IdsKept
  <2>17. RowsOK' /\ \A r \in Requests \ {q} : Meanwhile(r)
    <3>1. \A y \in Rows : y \in Overtaken => y \in Overtaken'
      BY <1>1, <2>1, GoesOn
    <3> QED BY <2>3, <2>4, <2>7, <3>1, NothingWritten
  <2>18. ASSUME NEW r \in Requests \ {q}, tx[r].pc = "locking", tx[r].target = s.target
         PROVE  s.target \in DOMAIN s.base /\ s.target \in DOMAIN tx[r].base
    BY <2>2, <2>6, <2>8, <2>18 DEF IInv, SessionOK, Locking, TargetOK
  <2> QED BY <2>1, <2>4, <2>7, <2>15, <2>16, <2>17, <2>18, StepKeeps
<1> QED BY <1>2, <1>3 DEF PatchCurrent
(***************************************************************************)
(* The INSERT of a report.                                                 *)
(***************************************************************************)

\* The rows that a session may have locked.
LEMMA LocksOf ==
  ASSUME IInv, NEW r \in Requests, NEW x \in Rows, lock[x] = r
  PROVE  \/ tx[r].pc = "start" /\ Scanned(r, x)
         \/ tx[r].pc \in {"insert", "locking"} /\ IsOutdated(r, x)
         \/ /\ tx[r].pc = "locking" /\ ToLockSims(r)
            /\ \/ x = tx[r].target
               \/ x \in Sims /\ \E i \in 1..Place(r) : Mine(r).sims[i] = x
<1>1. SessionOK(r) /\ SessionRecord(tx[r])
  BY DEF IInv, SessionOK
<1>2. tx[r].pc \in PCs
  BY <1>1 DEF SessionRecord
<1>3. CASE tx[r].pc = "insert"
  BY <1>1, <1>3 DEF SessionOK, Inserting
<1>4. CASE tx[r].pc = "locking"
  <2>1. Locking(r) /\ Mine(r) \in Row
    BY <1>1, <1>4 DEF SessionOK, Locking, TargetOK
  <2>2. CASE ToLockReport(r)
    BY <1>4, <2>2 DEF ToLockReport
  <2>3. CASE ToLockSims(r)
    <3>1. Mine(r).sims \in Seq(Sims) /\ Len(tx[r].todo) \in Nat
      BY <2>1, <2>3 DEF Row, ToLockSims
    <3>2. \A i \in 1..Place(r) : Mine(r).sims[i] \in Sims
      <4> DEFINE sims == Mine(r).sims
                 n == Len(sims)
                 k == Len(tx[r].todo)
      <4>1. Place(r) = n - k /\ n \in Nat /\ k \in Nat
        BY <3>1 DEF Place
      <4> HIDE DEF n, k, sims
      <4>2. \A i \in 1..Place(r) : i \in 1..n
        BY <4>1
      <4>3. \A i \in 1..n : sims[i] \in Sims
        BY <3>1 DEF n, sims
      <4> QED BY <4>2, <4>3 DEF sims
    <3> QED BY <1>4, <2>3, <3>2 DEF ToLockSims
  <2> QED BY <2>1, <2>2, <2>3 DEF Locking
<1> QED BY <1>1, <1>2, <1>3, <1>4 DEF SessionOK, PCs

\* A report that a session works on has an id that was handed out.
LEMMA TargetBelow ==
  ASSUME IInv, NEW r \in Requests, tx[r].pc = "locking"
  PROVE  tx[r].target < nextId /\ tx[r].target \notin Sims
<1>1. Loaded(r) /\ Locking(r) /\ RowsOK
  BY DEF IInv, SessionOK
<1> QED BY <1>1 DEF Loaded, Locking, TargetOK, RowsOK

\* So has every report that is locked.
LEMMA LocksBelow ==
  ASSUME IInv, NEW r \in Requests, NEW x \in Rows \ Sims, lock[x] = r
  PROVE  x < nextId
<1>1. IsOutdated(r, x) => x \in DOMAIN db \ Sims
  BY DEF IsOutdated
<1>2. IsOutdated(r, x) => x < nextId
  BY <1>1 DEF IInv, RowsOK
<1>3. tx[r].pc = "locking" => tx[r].target < nextId
  BY TargetBelow
<1>4. ~Scanned(r, x)
  BY DEF Scanned, Simulations
<1> QED BY <1>2, <1>3, <1>4, LocksOf

\* A row as INSERTed is well formed, and pending.
LEMMA NewRowOK ==
  ASSUME NEW num \in Nat, NEW ver \in Nat, NEW sims \in Seq(Sims)
  PROVE  LET row == NewRow(num, ver, sims)
         IN /\ row \in Row /\ RowOK(row) /\ row.num = num /\ row.ver = ver /\ row.sims = sims
            /\ row.status = "pending" /\ row.output = NoOutput /\ row.run = NoRun /\ row.kind = "none"
BY DEF NewRow, Row, RowOK, Formed, Mirrors, Statuses

\* The INSERT of _create_report_output.
LEMMA InsertKeeps == ASSUME IInv, NEW q \in Requests, Insert(q) PROVE IInv'
<1> DEFINE t == tx[q]
           c == call[q]
           row == NewRow(0, c.ver, t.todo)
           s == [t EXCEPT !.pc = "locking", !.target = nextId, !.mine = With(@, nextId, row)]
<1>1. /\ t.pc = "insert" /\ tx' = [tx EXCEPT ![q] = s]
      /\ lock' = [lock EXCEPT ![nextId] = q] /\ nextId' = nextId + 1 /\ db' = db /\ call' = call
  BY Zenon DEF Insert
<1>2. t.snap # <<>> => Past(t.snap)
  BY <1>1 DEF IInv, SessionOK
<1>3. Loaded(q) /\ Inserting(q) /\ c.op \in {"get", "post", "patch"} /\ SessionRecord(t)
  BY <1>1 DEF IInv, SessionOK
<1>4. /\ RowsOK /\ nextId \in Nat \ {0} /\ call \in Calls
      /\ nextId + Cardinality(ToInsert) <= FirstNewId + Cardinality(Requests)
  BY DEF IInv, IdsLeft
<1>5. c \in Call /\ c.report \notin Sims /\ c.ver \in Nat
  BY <1>4, CallIs
<1>6. /\ s.pc = "locking" /\ s.target = nextId /\ s.todo = t.todo /\ s.snap = t.snap /\ s.base = t.base
      /\ s.mine = With(t.mine, nextId, row) /\ SessionRecord(s) /\ s.late = t.late
  <2> DEFINE mine == With(t.mine, nextId, row)
  <2>1. t \in [pc: PCs, snap: {t.snap}, base: {t.base}, mine: {t.mine}, target: {t.target}, todo: {t.todo},
               answer: {t.answer}, late: {t.late}]
    BY <1>3 DEF SessionRecord
  <2>2. s = [t EXCEPT !.pc = "locking", !.target = nextId, !.mine = mine]
    BY <2>1
  <2> HIDE DEF mine, s
  <2>3. /\ s.pc = "locking" /\ s.target = nextId /\ s.todo = t.todo /\ s.snap = t.snap /\ s.base = t.base
        /\ s.mine = mine /\ s.late = t.late
        /\ s \in [pc: {"locking"}, snap: {t.snap}, base: {t.base}, mine: {mine}, target: {nextId},
                  todo: {t.todo}, answer: {t.answer}, late: {t.late}]
    BY <2>1, <2>2
  <2> QED BY <2>3 DEF SessionRecord, PCs, mine
<1> HIDE DEF s
<1>7. tx'[q] = s /\ \A r \in Requests \ {q} : tx'[r] = tx[r]
  BY <1>1, OwnSession DEF IInv
<1>0. s.late = 0 /\ \A x \in Rows : x \in Overtaken => x \in Overtaken'
  <2>1. t.pc # "ended" /\ t.late = 0
    BY <1>1 DEF IInv, SessionOK
  <2> QED BY <1>1, <1>6, <2>1, GoesOn
<1>8. nextId \in ReportIds /\ nextId \notin Sims /\ nextId \in Rows
  <2>1. q \in ToInsert /\ ToInsert \subseteq Requests
    BY <1>1 DEF ToInsert
  <2>2. /\ IsFiniteSet(Requests) /\ IsFiniteSet(ToInsert) /\ FirstNewId \in Nat /\ Sims \intersect Nat = {}
    BY <2>1, FS_Subset, ReportsAssumption DEF ReportsAssumption
  <2>3. Cardinality(ToInsert) # 0
    BY <2>1, <2>2, FS_EmptySet
  <2>4. Cardinality(ToInsert) \in Nat /\ Cardinality(Requests) \in Nat
    BY <2>2, FS_CardinalityType
  <2> QED BY <1>4, <2>2, <2>3, <2>4 DEF ReportIds, Rows
<1>9. IdsLeft'
  <2>1. ToInsert' = ToInsert \ {q} /\ q \in ToInsert
    BY <1>1, <1>6, <1>7 DEF ToInsert
  <2>2. IsFiniteSet(Requests) /\ FirstNewId \in Nat
    BY ReportsAssumption DEF ReportsAssumption
  <2>3. IsFiniteSet(ToInsert)
    BY <2>2, FS_Subset DEF ToInsert
  <2>4. Cardinality(ToInsert') = Cardinality(ToInsert) - 1 /\ Cardinality(ToInsert) \in Nat
        /\ Cardinality(Requests) \in Nat
    BY <2>1, <2>2, <2>3, FS_RemoveElement, FS_CardinalityType
  <2>5. Cardinality(ToInsert)' = Cardinality(ToInsert')
    OBVIOUS
  <2> QED BY <1>1, <1>4, <2>2, <2>4, <2>5 DEF IdsLeft
<1>10. \A x \in DOMAIN t.base : x \in DOMAIN db \ Sims /\ x < nextId /\ IsOutdated(q, x)
  <2>1. \A x \in DOMAIN t.base : IsOutdated(q, x)
    BY <1>3 DEF Inserting
  <2>2. \A x \in DOMAIN t.base : x \in DOMAIN db \ Sims
    BY <1>5, <2>1 DEF IsOutdated
  <2> QED BY <1>4, <2>1, <2>2 DEF RowsOK
<1>11. nextId \notin DOMAIN t.base /\ nextId \notin DOMAIN db
  BY <1>4, <1>8, <1>10 DEF RowsOK
<1>12. /\ t.todo \in Seq(Sims) /\ Range(t.todo) \subseteq DOMAIN db /\ t.mine = t.base
       /\ c.op = "patch" => c.report \in DOMAIN t.base
       /\ \A x \in Rows : lock[x] = q => IsOutdated(q, x)
  BY <1>3 DEF Inserting
<1>13. row \in Row /\ row.ver = c.ver /\ row.sims = t.todo
  <2>1. 0 \in Nat /\ c.ver \in Nat /\ t.todo \in Seq(Sims)
    BY <1>5, <1>12
  <2> QED BY <2>1, NewRowOK
<1> HIDE DEF row
<1>14. /\ DOMAIN s.mine = DOMAIN t.base \union {nextId} /\ s.mine[nextId] = row
       /\ \A x \in DOMAIN t.base : s.mine[x] = t.base[x]
  BY <1>6, <1>11, <1>12 DEF With
<1>15. Mine(q)' = row /\ ~Own(q)'
  BY <1>1, <1>6, <1>7, <1>11, <1>12, <1>14 DEF Mine, Own
<1>16. /\ lock' \in [Rows -> Requests \union {NoOne}]
       /\ \A x \in Rows : lock'[x] = q => x = nextId \/ IsOutdated(q, x)
       /\ \A r \in Requests \ {q} : \A x \in Rows : lock'[x] = r <=> lock[x] = r
  <2>1. \A r \in Requests : lock[nextId] # r
    BY <1>4, <1>8, LocksBelow
  <2> QED BY <1>1, <1>8, <1>12, <2>1 DEF IInv
<1>17. \A x : IsOutdated(q, x) => IsOutdated(q, x)'
  BY <1>1 DEF IsOutdated
<1>18. tx'[q].snap # <<>> => Past(tx[q].snap)'
  BY <1>1, <1>2, <1>6, <1>7 DEF Past
<1>19. Loaded(q)'
  <2>1. \A x \in DOMAIN s.base \ Sims :
           x \in DOMAIN db /\ Since(s.base[x], db[x]) /\ (x \in Overtaken' \/ Mirrors(s.base[x]))
    BY <1>0, <1>3, <1>4, <1>6 DEF Loaded, RowsOK
  <2>2. DOMAIN s.base \intersect Sims = {}
    BY <1>6, <1>10
  <2> QED BY <1>1, <1>7, <2>1, <2>2 DEF Loaded
<1>20. TargetOK(q)'
  BY <1>1, <1>4, <1>6, <1>7, <1>8, <1>11, <1>12, <1>13, <1>15 DEF TargetOK, row, ReportIds
<1>21. ToLockSims(q)'
  <2>1. Place(q)' = 0
    BY <1>6, <1>7, <1>12, <1>13, <1>15 DEF Place
  <2>2. \A x \in Rows : lock'[x] = q => x = tx'[q].target \/ IsOutdated(q, x)'
    BY <1>6, <1>7, <1>16, <1>17
  <2> QED BY <1>6, <1>7, <1>11, <1>12, <1>13, <1>15, <2>1, <2>2 DEF ToLockSims
<1>22. Locking(q)'
  <2>1. \A x \in DOMAIN s.base \ (Sims \union {s.target}) : s.mine[x] = s.base[x] /\ IsOutdated(q, x)'
    BY <1>6, <1>10, <1>14, <1>17
  <2> QED BY <1>1, <1>6, <1>7, <1>8, <1>12, <1>14, <1>20, <1>21, <2>1 DEF Locking
<1>23. SessionOK(q)'
  BY <1>0, <1>1, <1>3, <1>6, <1>7, <1>18, <1>19, <1>22 DEF SessionOK, SessionRecord
<1>24. RowsOK' /\ \A r \in Requests \ {q} : Meanwhile(r)
  BY <1>0, <1>1, <1>4, <1>7, <1>16, NothingWritten
<1>25. \A r \in Requests \ {q} : tx[r].pc = "locking" => tx[r].target # s.target
  BY <1>4, <1>6, TargetBelow
<1> QED BY <1>1, <1>9, <1>16, <1>23, <1>24, <1>25, StepKeeps
(***************************************************************************)
(* The FOR UPDATE reads.                                                   *)
(***************************************************************************)

\* The simulations of the report that a session works on exist.
LEMMA SimsStored ==
  ASSUME IInv, NEW q \in Requests, tx[q].pc = "locking"
  PROVE  /\ Mine(q) \in Row /\ Mine(q).sims \in Seq(Sims) /\ Range(Mine(q).sims) \subseteq DOMAIN db
<1> DEFINE x == tx[q].target
<1>1. Loaded(q) /\ TargetOK(q) /\ RowsOK /\ x \notin Sims /\ Valid(call[q]) /\ call[q] \in Call
  BY CallIs DEF IInv, SessionOK, Locking
<1>2. Mine(q) \in Row /\ Mine(q).sims \in Seq(Sims)
  BY <1>1 DEF TargetOK, Row
<1>3. CASE x \in DOMAIN tx[q].base
  <2>1. x \in DOMAIN db /\ tx[q].base[x].sims = db[x].sims /\ db[x] \in Row
    BY <1>1, <1>3 DEF Loaded, Since, Formed
  <2>2. Mine(q).sims = db[x].sims
    BY <1>1, <1>3, <2>1, UpdatedRow DEF TargetOK
  <2> QED BY <1>1, <1>2, <2>1, <2>2 DEF RowsOK
<1>4. CASE x \notin DOMAIN tx[q].base
  BY <1>1, <1>2, <1>4 DEF TargetOK
<1> QED BY <1>2, <1>3, <1>4

\* The values with which a simulation is brought up to date: its record's, with the
\* run of the session's snapshot.
LEMMA LoadsSim ==
  ASSUME NEW now, RowOK(now), NEW run \in Run \union {NoRun},
         Untouched(now) => run \in {now.run, NoRun},
         NEW base, base = [now EXCEPT !.run = run]
  PROVE  /\ base \in Row /\ base = [now EXCEPT !.run = base.run]
         /\ base.run # NoRun /\ now.output = Legacy => base = now
         /\ now.run = NoRun => base.run = NoRun
<1>1. now \in Row
  BY DEF RowOK, Formed
<1>2. base \in Row /\ base.run = run
  BY <1>1 DEF Row
<1>3. run = now.run => base = now
  BY <1>1 DEF Row
<1> QED BY <1>2, <1>3 DEF Untouched

\* _lock_report_output and the locks of the simulations.
LEMMA LockKeeps == ASSUME IInv, NEW q \in Requests, Lock(q) PROVE IInv'
<1> DEFINE t == tx[q]
           x == Head(t.todo)
           snap == IF x \in Sims /\ t.snap = <<>> THEN db ELSE t.snap
           run == IF x \in DOMAIN snap THEN snap[x].run ELSE NoRun
           base == IF x \in DOMAIN t.mine THEN t.base ELSE With(t.base, x, [db[x] EXCEPT !.run = run])
           mine == IF x \in DOMAIN t.mine THEN t.mine[x] ELSE base[x]
           upToDate == IF x \in Sims THEN SyncedSim(mine) ELSE mine
           s == [t EXCEPT !.todo = Tail(@), !.snap = snap, !.base = base, !.mine = With(@, x, upToDate)]
<1>1. /\ t.pc = "locking" /\ t.todo # <<>> /\ lock[x] \in {NoOne, q}
      /\ tx' = [tx EXCEPT ![q] = s] /\ lock' = [lock EXCEPT ![x] = q]
      /\ db' = db /\ nextId' = nextId /\ call' = call
  BY Zenon DEF Lock
<1>2. /\ SessionRecord(t) /\ Loaded(q) /\ Locking(q) /\ call[q].op \in {"get", "post", "patch"}
      /\ RowsOK /\ nextId \in Nat
  BY <1>1 DEF IInv, SessionOK, IdsLeft
<1>3. t.snap # <<>> => Past(t.snap)
  BY <1>1 DEF IInv, SessionOK
<1>4. /\ s.pc = "locking" /\ s.target = t.target /\ s.todo = Tail(t.todo) /\ s.snap = snap /\ s.base = base
      /\ s.mine = With(t.mine, x, upToDate) /\ SessionRecord(s) /\ s.late = t.late
  <2> DEFINE all == With(t.mine, x, upToDate)
             rest == Tail(t.todo)
  <2>1. t \in [pc: PCs, snap: {t.snap}, base: {t.base}, mine: {t.mine}, target: {t.target}, todo: {t.todo},
               answer: {t.answer}, late: {t.late}]
    BY <1>2 DEF SessionRecord
  <2>2. s = [t EXCEPT !.todo = rest, !.snap = snap, !.base = base, !.mine = all]
    OBVIOUS
  <2> HIDE DEF all, rest, s, snap, base
  <2>3. /\ s.pc = t.pc /\ s.target = t.target /\ s.todo = rest /\ s.snap = snap /\ s.base = base
        /\ s.mine = all /\ s.late = t.late
        /\ s \in [pc: PCs, snap: {snap}, base: {base}, mine: {all}, target: {t.target},
                  todo: {rest}, answer: {t.answer}, late: {t.late}]
    BY <2>1, <2>2
  <2> QED BY <1>1, <2>3 DEF SessionRecord, all, rest
<1> HIDE DEF s
<1>5. tx'[q] = s /\ \A r \in Requests \ {q} : tx'[r] = tx[r]
  BY <1>1, OwnSession DEF IInv
<1>0. s.late = 0 /\ \A y \in Rows : y \in Overtaken => y \in Overtaken'
  <2>1. t.pc # "ended" /\ t.late = 0
    BY <1>1 DEF IInv, SessionOK
  <2> QED BY <1>1, <1>4, <2>1, GoesOn
<1>6. Mine(q).sims \in Seq(Sims) /\ Range(Mine(q).sims) \subseteq DOMAIN db
  BY <1>1, SimsStored
<1>7. /\ t.target \in DOMAIN t.mine \ Sims /\ DOMAIN t.mine = DOMAIN t.base \union {t.target}
      /\ TargetOK(q)
  BY <1>2 DEF Locking
\* What is locked.
<1>8. \/ ToLockReport(q) /\ x = t.target /\ s.todo = Mine(q).sims
      \/ /\ ToLockSims(q) /\ x \in Sims /\ Place(q) + 1 \in 1..Len(Mine(q).sims)
         /\ x = Mine(q).sims[Place(q) + 1]
  <2>1. CASE ToLockReport(q)
    <3> DEFINE sims == Mine(q).sims
               first == t.target
    <3>1. t.todo = <<first>> \o sims /\ sims \in Seq(Sims)
      BY <1>6, <2>1 DEF ToLockReport
    <3> HIDE DEF sims, first
    <3>2. Head(<<first>> \o sims) = first /\ Tail(<<first>> \o sims) = sims
      BY <3>1
    <3> QED BY <1>4, <2>1, <3>1, <3>2 DEF sims, first
  <2>2. CASE ToLockSims(q)
    <3>1. /\ t.todo \in Seq(Sims) /\ Len(t.todo) <= Len(Mine(q).sims)
          /\ \A i \in 1..Len(t.todo) : t.todo[i] = Mine(q).sims[Place(q) + i]
      BY <2>2 DEF ToLockSims
    <3>2. Len(t.todo) \in Nat /\ Len(t.todo) >= 1 /\ x = t.todo[1] /\ x \in Sims
      BY <1>1, <3>1
    <3>3. Place(q) = Len(Mine(q).sims) - Len(t.todo) /\ Len(Mine(q).sims) \in Nat
      BY <1>6 DEF Place
    <3>4. Place(q) + 1 \in 1..Len(Mine(q).sims)
      <4> DEFINE a == Len(Mine(q).sims)
                 b == Len(t.todo)
      <4>1. Place(q) = a - b /\ a \in Nat /\ b \in Nat /\ b >= 1 /\ b <= a
        BY <3>1, <3>2, <3>3
      <4> HIDE DEF a, b
      <4> QED BY ONLY <4>1 DEF a
    <3>5. t.todo[1] = Mine(q).sims[Place(q) + 1]
      <4>1. 1 \in 1..Len(t.todo)
        BY <3>2
      <4> QED BY ONLY <3>1, <4>1, Zenon
    <3> QED BY <2>2, <3>2, <3>4, <3>5
  <2> QED BY <1>2, <2>1, <2>2 DEF Locking
<1>9. x \in DOMAIN db /\ x \in Rows /\ (x \notin Sims => x = t.target /\ x \in DOMAIN t.base)
  <2>1. x \in Sims => x \in Range(Mine(q).sims)
    BY <1>6, <1>7, <1>8 DEF Range
  <2>2. ToLockReport(q) => t.target \in DOMAIN t.base \ Sims
    BY <1>7 DEF ToLockReport
  <2>3. t.target \in DOMAIN t.base \ Sims => t.target \in DOMAIN db
    BY <1>2 DEF Loaded
  <2>4. x \in Sims => x \in DOMAIN db
    BY <1>6, <2>1
  <2> QED BY <1>2, <1>7, <1>8, <2>2, <2>3, <2>4 DEF RowsOK
<1>10. /\ lock' \in [Rows -> Requests \union {NoOne}] /\ lock'[x] = q
       /\ \A y \in Rows : lock'[y] = q => y = x \/ lock[y] = q
       /\ \A y \in Rows : lock[y] = q => lock'[y] = q
       /\ \A r \in Requests \ {q} : \A y \in Rows : lock'[y] = r <=> lock[y] = r
  <2>1. NoOne \notin Requests
    BY ReportsAssumption DEF ReportsAssumption
  <2> QED BY <1>1, <1>9, <2>1 DEF IInv
\* What the session holds afterwards.
<1>11. /\ DOMAIN s.mine = DOMAIN t.mine \union {x} /\ s.mine[x] = upToDate
       /\ \A y \in DOMAIN t.mine \ {x} : s.mine[y] = t.mine[y]
  <2> HIDE DEF upToDate, x, t
  <2> QED BY <1>4 DEF With
<1>12. /\ x \in DOMAIN t.mine => s.base = t.base
       /\ x \notin DOMAIN t.mine =>
            /\ DOMAIN s.base = DOMAIN t.base \union {x} /\ s.base[x] = [db[x] EXCEPT !.run = run]
            /\ \A y \in DOMAIN t.base \ {x} : s.base[y] = t.base[y]
  <2> HIDE DEF run, x, t
  <2> QED BY <1>4 DEF With
<1>13. /\ t.target \in DOMAIN s.base <=> t.target \in DOMAIN t.base
       /\ t.target \in DOMAIN t.base => s.base[t.target] = t.base[t.target]
       /\ s.mine[t.target] = t.mine[t.target]
  <2>1. x = t.target => upToDate = t.mine[t.target]
    BY <1>7
  <2> HIDE DEF upToDate
  <2> QED BY <1>7, <1>9, <1>11, <1>12, <2>1
<1>14. Mine(q)' = Mine(q) /\ Own(q)' = Own(q)
  BY <1>1, <1>4, <1>5, <1>13 DEF Mine, Own
<1>15. /\ tx'[q].snap # <<>> => Past(tx[q].snap)'
       /\ x \in Sims => Past(snap)
  <2>1. Past(db)
    BY <1>2 DEF Past, RowsOK
  <2>2. snap # <<>> => Past(snap)
    BY <1>3, <2>1
  <2>3. x \in Sims => Past(snap)
    BY <1>3, <2>1
  <2> HIDE DEF snap
  <2> QED BY <1>1, <1>4, <1>5, <2>2, <2>3 DEF Past
<1>16. ASSUME NEW y \in Sims, y = x PROVE LoadedSim(q, y)'
  <2>0. y \in DOMAIN db /\ lock'[y] = q
    BY <1>9, <1>10, <1>16
  <2>1. CASE y \in DOMAIN t.mine
    <3>1. y \in DOMAIN t.base /\ LoadedSim(q, y)
      BY <1>2, <1>7, <1>16, <2>1 DEF Loaded
    <3>2. s.base[y] = t.base[y] /\ t.mine[y] = SyncedSim(t.base[y]) /\ t.base[y] \in Row
      BY <1>12, <1>16, <2>1, <3>1 DEF LoadedSim
    <3>3. t.base[y].status = db[y].status /\ db[y].status # "running"
      BY <1>2, <2>0, <3>1 DEF LoadedSim, RowsOK, Formed, Row
    <3>4. s.mine[y] = SyncedSim(t.mine[y])
      BY <1>11, <1>16, <2>1
    <3>5. s.mine[y] = SyncedSim(s.base[y])
      BY <3>2, <3>3, <3>4, SyncedSimTwice
    <3> HIDE DEF x
    <3> QED BY <1>1, <1>5, <2>0, <3>1, <3>2, <3>5 DEF LoadedSim
  <2>2. CASE y \notin DOMAIN t.mine
    <3>1. Past(snap) /\ RowOK(db[y]) /\ s.base[y] = [db[y] EXCEPT !.run = run]
      BY <1>2, <1>12, <1>15, <1>16, <2>0, <2>2 DEF RowsOK, RowOK
    <3>2. run \in Run \union {NoRun} /\ (Untouched(db[y]) => run \in {db[y].run, NoRun})
      <4> HIDE DEF snap
      <4>1. y \in DOMAIN snap => snap[y] \in Row /\ (Untouched(db[y]) => snap[y] = db[y])
        BY <3>1 DEF Past
      <4> QED BY <1>16, <4>1 DEF Row
    <3>3. s.mine[y] = SyncedSim(s.base[y])
      BY <1>4, <1>11, <1>16, <2>2
    <3> HIDE DEF run, x
    <3>4. /\ s.base[y] \in Row /\ s.base[y] = [db[y] EXCEPT !.run = s.base[y].run]
          /\ s.base[y].run # NoRun /\ db[y].output = Legacy => s.base[y] = db[y]
          /\ db[y].run = NoRun => s.base[y].run = NoRun
      <4> DEFINE b == s.base[y]
                 now == db[y]
      <4>1. RowOK(now) /\ b = [now EXCEPT !.run = run] /\ run \in Run \union {NoRun}
            /\ (Untouched(now) => run \in {now.run, NoRun})
        BY <3>1, <3>2
      <4> HIDE DEF b, now
      <4>2. /\ b \in Row /\ b = [now EXCEPT !.run = b.run]
            /\ b.run # NoRun /\ now.output = Legacy => b = now
            /\ now.run = NoRun => b.run = NoRun
        BY ONLY <4>1, LoadsSim
      <4> QED BY <4>2 DEF b, now
    <3> QED BY <1>1, <1>5, <2>0, <3>3, <3>4 DEF LoadedSim
  <2> QED BY <2>1, <2>2
<1> HIDE DEF upToDate, mine, base, run, snap
<1>17. Loaded(q)'
  <2>1. ASSUME NEW y \in DOMAIN s.base \ Sims
        PROVE  y \in DOMAIN db /\ Since(s.base[y], db[y]) /\ (y \in Overtaken' \/ Mirrors(s.base[y]))
    <3>1. y \in DOMAIN t.base /\ s.base[y] = t.base[y]
      BY <1>7, <1>9, <1>12, <2>1
    <3>2. y \in DOMAIN db /\ Since(s.base[y], db[y]) /\ (y \in Overtaken \/ Mirrors(s.base[y]))
      BY <1>2, <2>1, <3>1 DEF Loaded
    <3> QED BY <1>0, <1>2, <3>2 DEF RowsOK
  <2>2. ASSUME NEW y \in DOMAIN s.base \intersect Sims PROVE LoadedSim(q, y)'
    <3>1. CASE y = x
      BY <1>16, <2>2, <3>1
    <3>2. CASE y # x
      <4>1. y \in DOMAIN t.base /\ s.base[y] = t.base[y] /\ y \in DOMAIN t.mine /\ s.mine[y] = t.mine[y]
        BY <1>7, <1>11, <1>12, <2>2, <3>2
      <4>2. LoadedSim(q, y)
        BY <1>2, <2>2, <4>1 DEF Loaded
      <4>3. y \in Rows /\ lock'[y] = q
        BY <1>2, <1>10, <4>2 DEF LoadedSim, RowsOK
      <4> QED BY <1>1, <1>5, <4>1, <4>2, <4>3 DEF LoadedSim
    <3> QED BY <3>1, <3>2
  <2> QED BY <1>1, <1>5, <2>1, <2>2 DEF Loaded
<1>18. TargetOK(q)'
  BY <1>1, <1>4, <1>5, <1>7, <1>13, <1>14 DEF TargetOK, ReportIds
<1>19. \A y : IsOutdated(q, y) => IsOutdated(q, y)'
  BY <1>1 DEF IsOutdated
<1>20. ToLockSims(q)'
  <2>1. ASSUME ToLockReport(q), x = t.target, s.todo = Mine(q).sims PROVE ToLockSims(q)'
    <3>1. Place(q)' = 0
      BY <1>5, <1>6, <1>14, <2>1 DEF Place
    <3>2. \A y \in Rows : lock'[y] = q => y = t.target \/ IsOutdated(q, y)'
      BY <1>10, <1>19, <2>1 DEF ToLockReport
    <3> QED BY <1>4, <1>5, <1>6, <1>10, <1>14, <2>1, <3>1, <3>2 DEF ToLockSims
  <2>2. ASSUME ToLockSims(q), x \in Sims, Place(q) + 1 \in 1..Len(Mine(q).sims),
               x = Mine(q).sims[Place(q) + 1]
        PROVE  ToLockSims(q)'
    <3>1. /\ t.todo \in Seq(Sims) /\ Len(t.todo) <= Len(Mine(q).sims)
          /\ \A i \in 1..Len(t.todo) : t.todo[i] = Mine(q).sims[Place(q) + i]
          /\ \A i \in 1..Place(q) : lock[Mine(q).sims[i]] = q
          /\ t.target \in DOMAIN t.base => lock[t.target] = q
          /\ \A y \in Rows : lock[y] = q =>
                (\E i \in 1..Place(q) : Mine(q).sims[i] = y) \/ y = t.target \/ IsOutdated(q, y)
      BY <2>2 DEF ToLockSims
    <3>2. /\ s.todo \in Seq(Sims) /\ Len(s.todo) = Len(t.todo) - 1 /\ Len(t.todo) \in Nat /\ Len(t.todo) >= 1
          /\ \A i \in 1..Len(s.todo) : s.todo[i] = t.todo[i + 1]
      BY <1>1, <1>4, <3>1
    <3>3. Place(q) = Len(Mine(q).sims) - Len(t.todo) /\ Len(Mine(q).sims) \in Nat
      BY <1>6 DEF Place
    <3>4. Place(q)' = Place(q) + 1 /\ Place(q) \in Nat
      <4>1. Place(q)' = Len(Mine(q).sims) - Len(s.todo)
        BY <1>5, <1>14 DEF Place
      <4> QED BY <3>1, <3>2, <3>3, <4>1
    <3>5. \A i \in 1..Len(s.todo) : s.todo[i] = Mine(q).sims[Place(q) + 1 + i]
      <4> SUFFICES ASSUME NEW i \in 1..Len(s.todo) PROVE s.todo[i] = Mine(q).sims[Place(q) + 1 + i]
        OBVIOUS
      <4>1. i + 1 \in 1..Len(t.todo) /\ s.todo[i] = t.todo[i + 1]
        BY <3>2
      <4>2. t.todo[i + 1] = Mine(q).sims[Place(q) + (i + 1)]
        BY <3>1, <4>1
      <4>3. Place(q) + (i + 1) = Place(q) + 1 + i
        BY <3>2, <3>4
      <4> QED BY <4>1, <4>2, <4>3
    <3>6. \A i \in 1..(Place(q) + 1) : lock'[Mine(q).sims[i]] = q
      <4> SUFFICES ASSUME NEW i \in 1..(Place(q) + 1) PROVE lock'[Mine(q).sims[i]] = q
        OBVIOUS
      <4>1. CASE i = Place(q) + 1
        BY <1>10, <2>2, <4>1
      <4>2. CASE i \in 1..Place(q)
        <5>1. Mine(q).sims[i] \in Sims
          BY <1>6, <2>2, <3>4, <4>2
        <5>2. Mine(q).sims[i] \in Rows
          BY <5>1 DEF Rows
        <5> QED BY <1>10, <3>1, <4>2, <5>2
      <4> QED BY <3>4, <4>1, <4>2
    <3>7. t.target \in DOMAIN s.base => lock'[t.target] = q
      <4>1. t.target \in DOMAIN t.base => t.target \in Rows
        BY <1>2, <1>7 DEF Loaded, RowsOK
      <4> QED BY <1>10, <1>13, <3>1, <4>1
    <3>8. \A y \in Rows : lock'[y] = q =>
             (\E i \in 1..(Place(q) + 1) : Mine(q).sims[i] = y) \/ y = t.target \/ IsOutdated(q, y)'
      <4> SUFFICES ASSUME NEW y \in Rows, lock'[y] = q
                   PROVE  (\E i \in 1..(Place(q) + 1) : Mine(q).sims[i] = y) \/ y = t.target \/ IsOutdated(q, y)'
        OBVIOUS
      <4>1. CASE y = x
        BY <2>2, <3>4, <4>1
      <4>2. CASE lock[y] = q
        <5>1. (\E i \in 1..Place(q) : Mine(q).sims[i] = y) => \E i \in 1..(Place(q) + 1) : Mine(q).sims[i] = y
          BY <3>4
        <5> QED BY <1>19, <3>1, <4>2, <5>1
      <4> QED BY <1>10, <4>1, <4>2
    <3>9. Len(s.todo) <= Len(Mine(q).sims)
      BY <3>1, <3>2, <3>3
    <3> QED BY <1>4, <1>5, <1>14, <3>2, <3>4, <3>5, <3>6, <3>7, <3>8, <3>9 DEF ToLockSims
  <2> QED BY <1>8, <2>1, <2>2
<1>21. Locking(q)'
  <2>1. \A y \in DOMAIN t.base \ (Sims \union {t.target}) : t.mine[y] = t.base[y] /\ IsOutdated(q, y)
    BY <1>2 DEF Locking
  <2>2. ASSUME NEW y \in DOMAIN s.base \ (Sims \union {t.target})
        PROVE  s.mine[y] = s.base[y] /\ IsOutdated(q, y)'
    <3>1. y # x /\ y \in DOMAIN t.base
      BY <1>9, <1>12, <2>2
    <3>2. s.mine[y] = t.mine[y] /\ s.base[y] = t.base[y]
      BY <1>7, <1>11, <1>12, <3>1
    <3> QED BY <1>19, <2>1, <2>2, <3>1, <3>2
  <2>3. DOMAIN s.mine = DOMAIN s.base \union {t.target} /\ DOMAIN t.base \subseteq DOMAIN s.base
    BY <1>7, <1>11, <1>12
  <2>4. call[q].op = "patch" /\ ~Own(q) => call[q].report \in DOMAIN s.base
    BY <1>2, <2>3 DEF Locking
  <2> QED BY <1>1, <1>4, <1>5, <1>7, <1>14, <1>18, <1>20, <2>2, <2>3, <2>4 DEF Locking
<1>22. SessionOK(q)'
  BY <1>0, <1>1, <1>2, <1>4, <1>5, <1>15, <1>17, <1>21 DEF SessionOK, SessionRecord
<1>23. IdsLeft'
  BY <1>1, <1>4, <1>5, IdsKept
<1>24. nextId' \in Nat /\ nextId <= nextId'
  BY <1>1, <1>2
<1>25. RowsOK' /\ \A r \in Requests \ {q} : Meanwhile(r)
  BY <1>0, <1>1, <1>5, <1>10, <1>24, NothingWritten
<1>26. ASSUME NEW r \in Requests \ {q}, tx[r].pc = "locking", tx[r].target = s.target
       PROVE  s.target \in DOMAIN s.base /\ s.target \in DOMAIN tx[r].base
  BY <1>1, <1>4, <1>13, <1>26 DEF IInv, InsertedApart
<1> QED BY <1>1, <1>10, <1>22, <1>23, <1>25, <1>26, StepKeeps
(***************************************************************************)
(* The COMMIT of a report.                                                 *)
(***************************************************************************)

\* The report after the first dual write, as the session has it.
TargetOnce(q) == Synced(Mine(q))

\* What the session has loaded of it, and what the database has; of a report that it
\* INSERTs, what it INSERTs.
TargetBase(q) == IF tx[q].target \in DOMAIN db THEN tx[q].base[tx[q].target] ELSE TargetOnce(q)
TargetDb(q) == IF tx[q].target \in DOMAIN db THEN db[tx[q].target] ELSE TargetOnce(q)

\* The report after the flush of the first dual write, as the session has it for the
\* second, and after that one's flush.
Once(q) == Flushed(TargetDb(q), TargetBase(q), TargetOnce(q))
Again(q, restamps) == Reread(TargetBase(q), TargetOnce(q), Once(q), restamps)
Twice(q, restamps) ==
    Flushed(Once(q), Again(q, restamps), Synced(Updated(Again(q, restamps), call[q])))
Final(q, restamps) == IF Redirected(q) THEN Twice(q, restamps) ELSE Once(q)

\* The first dual write writes to the run of a report that has another result by now.
Overtakes(q, restamps) ==
    /\ Redirected(q) /\ WritesRun(TargetBase(q), TargetOnce(q), restamps)
    /\ Result(TargetBase(q)) # Result(TargetDb(q))

\* What the request makes of the report, its run apart.
TargetNow(q) == IF Redirected(q) THEN Updated(TargetOnce(q), call[q]) ELSE TargetOnce(q)

\* The session's report for the second dual write differs in its run only.
LEMMA RereadRow ==
  ASSUME NEW base, NEW row \in Row, row.run # NoRun, NEW now \in Row, now.run # NoRun,
         NEW restamps \in BOOLEAN
  PROVE  LET again == Reread(base, row, now, restamps)
         IN /\ again \in Row /\ again.run # NoRun
            /\ again.num = row.num /\ again.ver = row.ver /\ again.sims = row.sims
            /\ again.status = row.status /\ again.output = row.output /\ again.error = row.error
            /\ again.kind = row.kind /\ Result(again) = Result(row)
            /\ Formed(row) => Formed(again)
            /\ again.run = IF WritesRun(base, row, restamps) THEN now.run ELSE row.run
<1> DEFINE run == IF WritesRun(base, row, restamps) THEN now.run ELSE row.run
<1>1. run \in Run \union {NoRun} /\ run # NoRun
  BY DEF Row
<1>2. Reread(base, row, now, restamps) = [row EXCEPT !.run = run]
  BY DEF Reread
<1> HIDE DEF run
<1>3. LET again == [row EXCEPT !.run = run]
      IN /\ again \in Row /\ again.run = run
         /\ again.num = row.num /\ again.ver = row.ver /\ again.sims = row.sims
         /\ again.status = row.status /\ again.output = row.output /\ again.error = row.error
         /\ again.kind = row.kind
  BY <1>1 DEF Row
<1> QED BY <1>1, <1>2, <1>3 DEF run, Result, Formed

\* An update that is accepted, and its dual write.
LEMMA SyncedUpdate ==
  ASSUME NEW row \in Row, Formed(row), row.run # NoRun, NEW c \in Call, Valid(c), Accepts(row, c)
  PROVE  LET new == Synced(Updated(row, c))
         IN /\ new \in Row /\ Formed(new) /\ new.run # NoRun
            /\ new.sims = row.sims /\ new.ver = row.ver
            /\ new.kind = IF Kind(row.sims) = "none" THEN row.kind ELSE Kind(row.sims)
            /\ row.output # NoOutput => new.output # NoOutput
            /\ new.status = "complete" => new.output # NoOutput \/ new.status = row.status
            /\ Result(new) = Result(Updated(row, c))
            /\ Mirrors(row) => Mirrors(new)
<1> DEFINE up == Updated(row, c)
<1>1. /\ up \in Row /\ up.ver = row.ver /\ up.sims = row.sims /\ up.kind = row.kind /\ up.run = row.run
      /\ up.status = IF c.status = "keep" THEN row.status ELSE c.status
      /\ row.output # NoOutput => up.output # NoOutput
      /\ up.status = "complete" => up.output # NoOutput \/ up.status = row.status
  BY UpdatedRow
<1>2. Accepts(row, c) => (c.status = "running" => RunningAllowed(row))
  BY DEF Accepts
<1> HIDE DEF up
<1>3. ASSUME Mirrors(row), up.status = "running" PROVE RunningAllowed(up)
  <2>1. RunningAllowed(row)
    BY <1>1, <1>2, <1>3, MirroredRunning
  <2> QED BY <1>1, <2>1 DEF RunningAllowed
<1>4. Mirrors(row) => Mirrors(Synced(up))
  BY <1>1, <1>3, SyncedOK
<1>5. /\ Synced(up) \in Row /\ Synced(up).ver = up.ver /\ Synced(up).sims = up.sims
      /\ Synced(up).status = up.status /\ Synced(up).output = up.output /\ Synced(up).run # NoRun
      /\ Synced(up).kind = IF Kind(up.sims) = "none" THEN up.kind ELSE Kind(up.sims)
      /\ Result(Synced(up)) = Result(up) /\ (Formed(up) => Formed(Synced(up)))
  BY <1>1, SyncedRow
<1>6. Formed(up)
  BY <1>1 DEF Formed
<1> QED BY <1>1, <1>4, <1>5, <1>6 DEF up

\* A run that was not changed under the session and is not written is its record's: the
\* two flushes of a redirected update leave what one would, and the run apart the same.
LEMMA SecondWrite ==
  ASSUME NEW base, NEW now, Since(base, now),
         NEW once \in Row, Formed(once), once.run # NoRun,
         once.sims = base.sims, once.ver = base.ver, Result(once) = Result(base),
         once.kind = IF Kind(base.sims) = "none" THEN base.kind ELSE Kind(base.sims),
         base.run = NoRun => now.run = NoRun,
         now.status = "complete" => now.output # NoOutput,
         NEW c \in Call, Valid(c), NEW restamps \in BOOLEAN,
         NEW first, first = Flushed(now, base, once),
         NEW again, again = Reread(base, once, first, restamps), Accepts(again, c)
  PROVE  LET second == Flushed(first, again, Synced(Updated(again, c)))
             up == Updated(once, c)
         IN /\ Since(now, second) /\ second.run # NoRun /\ second.kind = once.kind
            /\ second.status = IF up.status = base.status THEN now.status ELSE up.status
            /\ second.output = IF up.output = base.output THEN now.output ELSE up.output
            /\ second.status = "complete" => second.output # NoOutput
            /\ Mirrors(base) /\ Mirrors(now) /\ Mirrors(once)
               /\ ~(WritesRun(base, once, restamps) /\ Result(base) # Result(now)) => Mirrors(second)
<1> DEFINE up == Updated(once, c)
           new == Synced(Updated(again, c))
           second == Flushed(first, again, new)
<1>1. base \in Row /\ now \in Row /\ now.sims = base.sims /\ now.ver = base.ver
  BY DEF Since, Formed
<1>2. once.status = base.status /\ once.output = base.output /\ once.error = base.error
  BY DEF Result
<1>3. /\ Since(now, first) /\ first.run # NoRun /\ first.kind = once.kind
      /\ first.status = now.status /\ first.output = now.output /\ first.error = now.error
      /\ first.status = "complete" => first.output # NoOutput
      /\ Mirrors(base) /\ Mirrors(now) /\ Mirrors(once) => Mirrors(first)
  <2>1. base.output # NoOutput => once.output # NoOutput
    BY <1>2
  <2>2. once.status = "complete" => once.output # NoOutput \/ once.status = base.status
    BY <1>2
  <2> QED BY <1>2, <2>1, <2>2, FlushReport
<1>4. first \in Row /\ first.sims = once.sims /\ first.ver = once.ver
  BY <1>1, <1>3 DEF Since, Formed
<1>5. /\ again \in Row /\ again.run # NoRun /\ Formed(again)
      /\ again.ver = once.ver /\ again.sims = once.sims /\ again.kind = once.kind
      /\ again.status = once.status /\ again.output = once.output /\ again.error = once.error
      /\ again.run = IF WritesRun(base, once, restamps) THEN first.run ELSE once.run
  BY <1>3, <1>4, RereadRow
<1>6. Since(again, first)
  <2>1. Formed(first) /\ (base.output # NoOutput => first.output # NoOutput)
    BY <1>3 DEF Since
  <2> QED BY <1>2, <1>3, <1>4, <1>5, <2>1 DEF Since
<1>7. /\ new \in Row /\ Formed(new) /\ new.run # NoRun /\ new.sims = again.sims /\ new.ver = again.ver
      /\ new.kind = IF Kind(again.sims) = "none" THEN again.kind ELSE Kind(again.sims)
      /\ again.output # NoOutput => new.output # NoOutput
      /\ new.status = "complete" => new.output # NoOutput \/ new.status = again.status
      /\ Result(new) = Result(Updated(again, c))
      /\ Mirrors(again) => Mirrors(new)
  BY <1>5, SyncedUpdate
<1>8. /\ Updated(again, c).status = up.status /\ Updated(again, c).output = up.output
  BY <1>5, UpdatedRow
<1>9. new.status = up.status /\ new.output = up.output
  BY <1>7, <1>8 DEF Result
<1> HIDE DEF new, up
<1>10. /\ Since(first, second) /\ second.run # NoRun /\ second.kind = new.kind
       /\ second.status = IF new.status = again.status THEN first.status ELSE new.status
       /\ second.output = IF new.output = again.output THEN first.output ELSE new.output
       /\ second.status = "complete" => second.output # NoOutput
       /\ Mirrors(again) /\ Mirrors(first) /\ Mirrors(new) => Mirrors(second)
  BY <1>3, <1>5, <1>6, <1>7, FlushReport
<1> HIDE DEF second
<1>11. Since(now, second)
  BY <1>3, <1>10, SinceTrans
<1>12. new.kind = once.kind
  BY <1>5, <1>7
<1>13. ASSUME Mirrors(base), Mirrors(now), Mirrors(once),
              ~(WritesRun(base, once, restamps) /\ Result(base) # Result(now))
       PROVE  Mirrors(second)
  <2>1. Mirrors(first)
    BY <1>3, <1>13
  <2>2. Mirrors(again)
    <3>1. CASE WritesRun(base, once, restamps)
      <4>1. again.run = first.run /\ Result(now) = Result(base)
        BY <1>5, <1>13, <3>1
      <4>2. first.run = Result(first)
        BY <1>3, <2>1 DEF Mirrors
      <4>3. Result(first) = Result(again)
        BY <1>2, <1>3, <1>5, <4>1 DEF Result
      <4> QED BY <4>1, <4>2, <4>3 DEF Mirrors
    <3>2. CASE ~WritesRun(base, once, restamps)
      <4>1. again.run = once.run /\ once.run = Result(once)
        BY <1>5, <1>13, <3>2 DEF Mirrors
      <4> QED BY <1>5, <4>1 DEF Mirrors, Result
    <3> QED BY <3>1, <3>2
  <2> QED BY <1>7, <1>10, <2>1, <2>2
<1> QED BY <1>2, <1>3, <1>5, <1>9, <1>10, <1>11, <1>12, <1>13 DEF new, up, second

\* What a session writes to its report, whose values it has loaded and updated.
LEMMA OnceValue ==
  ASSUME IInv, NEW q \in Requests, tx[q].pc = "locking"
  PROVE  LET once == TargetOnce(q)
             mine == Mine(q)
         IN /\ once \in Row /\ Formed(once) /\ once.run # NoRun
            /\ once.sims = mine.sims /\ once.ver = mine.ver
            /\ once.status = mine.status /\ once.output = mine.output /\ Result(once) = Result(mine)
            /\ once.kind = IF Kind(mine.sims) = "none" THEN mine.kind ELSE Kind(mine.sims)
            /\ tx[q].target \notin Overtaken => Mirrors(once)
<1> DEFINE mine == Mine(q)
           c == call[q]
           x == tx[q].target
<1>1. Loaded(q) /\ TargetOK(q) /\ RowsOK /\ x \notin Sims /\ Valid(c) /\ c \in Call
  BY CallIs DEF IInv, SessionOK, Locking
<1>2. mine \in Row
  BY <1>1 DEF TargetOK
<1>3. Formed(mine) /\ (x \notin Overtaken => (mine.status = "running" => RunningAllowed(mine)))
  <2>1. CASE Own(q)
    <3> DEFINE old == db[x]
    <3>1. Accepts(old, c) /\ mine = Updated(old, c) /\ Formed(old) /\ (x \notin Overtaken => Mirrors(old))
      BY <1>1, <2>1 DEF TargetOK, Loaded, RowsOK
    <3> HIDE DEF old, x
    <3>2. old \in Row /\ (x \notin Overtaken => (old.status = "running" => RunningAllowed(old)))
      BY <3>1, MirroredRunning DEF Formed
    <3>3. /\ mine.run = old.run /\ mine.status = IF c.status = "keep" THEN old.status ELSE c.status
          /\ mine.kind = old.kind /\ mine.sims = old.sims
      BY <1>1, <3>1, <3>2, UpdatedRow
    <3> QED BY <1>2, <3>1, <3>2, <3>3 DEF Accepts, RunningAllowed, Formed
  <2>2. CASE ~Own(q) /\ x \in DOMAIN tx[q].base
    <3>1. Formed(mine) /\ (x \notin Overtaken => Mirrors(mine))
      BY <1>1, <2>2 DEF TargetOK, Loaded, Since
    <3> QED BY <1>2, <3>1, MirroredRunning
  <2>3. CASE ~Own(q) /\ x \notin DOMAIN tx[q].base
    <3>1. mine = NewRow(0, c.ver, mine.sims) /\ 0 \in Nat /\ c.ver \in Nat /\ mine.sims \in Seq(Sims)
      BY <1>1, <1>2, <2>3 DEF TargetOK, Call, Row
    <3> DEFINE sims == mine.sims
               ver == c.ver
    <3>2. mine = NewRow(0, ver, sims) /\ 0 \in Nat /\ ver \in Nat /\ sims \in Seq(Sims)
      BY <3>1
    <3> HIDE DEF mine, sims, ver
    <3>3. mine.status = "pending" /\ RowOK(mine)
      BY ONLY <3>2, NewRowOK
    <3> QED BY <3>3 DEF RowOK
  <2> QED BY <2>1, <2>2, <2>3
<1> HIDE DEF mine, x
<1>4. x \notin Overtaken => Mirrors(Synced(mine))
  BY <1>2, <1>3, SyncedOK
<1> QED BY <1>2, <1>3, <1>4, SyncedRow DEF TargetOnce, mine, x

\* What the session has of its report and what the database has.
LEMMA TargetKnown ==
  ASSUME IInv, NEW q \in Requests, tx[q].pc = "locking", tx[q].todo = <<>>
  PROVE  LET x == tx[q].target
             base == TargetBase(q)
             now == TargetDb(q)
             once == TargetOnce(q)
         IN /\ x \in DOMAIN db <=> x \in DOMAIN tx[q].base
            /\ x \in DOMAIN db => lock[x] = q
            /\ x \notin DOMAIN db => /\ x \in ReportIds /\ Range(once.sims) \subseteq DOMAIN db
                                     /\ once.status = "pending"
            /\ Since(base, now) /\ (now.status = "complete" => now.output # NoOutput)
            /\ once.sims = base.sims /\ once.ver = base.ver
            /\ once.kind = IF Kind(base.sims) = "none" THEN base.kind ELSE Kind(base.sims)
            /\ base.output # NoOutput => once.output # NoOutput
            /\ once.status = "complete" => once.output # NoOutput \/ once.status = base.status
            /\ ~Own(q) => Result(once) = Result(base)
            /\ x \notin Overtaken => Mirrors(base) /\ Mirrors(now)
<1> DEFINE x == tx[q].target
           mine == Mine(q)
           once == TargetOnce(q)
           c == call[q]
           t == tx[q]
<1>1. Loaded(q) /\ Locking(q) /\ TargetOK(q) /\ RowsOK /\ x \notin Sims /\ c \in Call /\ Valid(c)
  BY CallIs DEF IInv, SessionOK, Locking
<1>2. /\ once \in Row /\ Formed(once) /\ once.sims = mine.sims /\ once.ver = mine.ver
      /\ once.status = mine.status /\ once.output = mine.output /\ Result(once) = Result(mine)
      /\ once.kind = IF Kind(mine.sims) = "none" THEN mine.kind ELSE Kind(mine.sims)
      /\ x \notin Overtaken => Mirrors(once)
  BY OnceValue
<1>3. x \in DOMAIN db <=> x \in DOMAIN t.base
  BY <1>1 DEF Loaded, TargetOK
<1> HIDE DEF once
<1>4. CASE x \in DOMAIN db
  <2> DEFINE base == t.base[x]
             old == db[x]
  <2>1. /\ Since(base, old) /\ (old.status = "complete" => old.output # NoOutput)
        /\ x \notin Overtaken => Mirrors(base) /\ Mirrors(old)
    BY <1>1, <1>3, <1>4 DEF Loaded, RowsOK
  <2>2. lock[x] = q
    <3>1. ASSUME ToLockReport(q) PROVE FALSE
      <4> DEFINE sims == Mine(q).sims
      <4>1. t.todo = <<x>> \o sims /\ sims \in Seq(Sims)
        BY <1>1, <3>1 DEF ToLockReport, TargetOK, Row
      <4> HIDE DEF sims
      <4>2. Len(<<x>> \o sims) = 1 + Len(sims) /\ Len(sims) \in Nat
        BY <4>1
      <4> QED BY <4>1, <4>2
    <3>2. ToLockSims(q)
      BY <1>1, <3>1 DEF Locking
    <3> QED BY <1>3, <1>4, <3>2 DEF ToLockSims
  <2>3. /\ mine.sims = base.sims /\ mine.ver = base.ver /\ mine.kind = base.kind
        /\ base.output # NoOutput => mine.output # NoOutput
        /\ mine.status = "complete" => mine.output # NoOutput \/ mine.status = base.status
        /\ ~Own(q) => mine = base
    <3>1. CASE Own(q)
      <4>1. base = old /\ mine = Updated(base, c) /\ base \in Row
        BY <1>1, <2>1, <3>1 DEF TargetOK, Since, Formed
      <4> HIDE DEF base, old, mine
      <4> QED BY <1>1, <3>1, <4>1, UpdatedRow
    <3>2. CASE ~Own(q)
      BY <1>1, <1>3, <1>4, <3>2 DEF TargetOK
    <3> QED BY <3>1, <3>2
  <2>4. TargetBase(q) = base /\ TargetDb(q) = old
    BY <1>4 DEF TargetBase, TargetDb
  <2> HIDE DEF mine, base, old
  <2> QED BY <1>2, <1>3, <1>4, <2>1, <2>2, <2>3, <2>4 DEF once
<1>5. CASE x \notin DOMAIN db
  <2>1. /\ x \in ReportIds /\ mine = NewRow(0, c.ver, mine.sims) /\ Range(mine.sims) \subseteq DOMAIN db
        /\ 0 \in Nat /\ c.ver \in Nat /\ mine.sims \in Seq(Sims)
    BY <1>1, <1>3, <1>5 DEF TargetOK, Row, Call
  <2>2. mine.status = "pending"
    <3> DEFINE sims == mine.sims
               ver == c.ver
    <3>1. mine = NewRow(0, ver, sims) /\ 0 \in Nat /\ ver \in Nat /\ sims \in Seq(Sims)
      BY <2>1
    <3> HIDE DEF mine, sims, ver
    <3> QED BY ONLY <3>1, NewRowOK
  <2>3. TargetBase(q) = once /\ TargetDb(q) = once
    BY <1>5 DEF TargetBase, TargetDb, once
  <2>4. once.kind = IF Kind(once.sims) = "none" THEN once.kind ELSE Kind(once.sims)
    BY <1>2
  <2>5. Since(once, once) /\ once.status = "pending" /\ Range(once.sims) \subseteq DOMAIN db
    BY <1>2, <2>1, <2>2, SinceSelf
  <2>6. x \notin Overtaken => Mirrors(once)
    BY <1>2
  <2> HIDE DEF mine, x
  <2> QED BY <1>3, <1>5, <2>1, <2>3, <2>4, <2>5, <2>6 DEF once, x
<1> QED BY <1>4, <1>5

\* A report as a COMMIT leaves it, for any of its two ways.
LEMMA FinalReport ==
  ASSUME IInv, NEW q \in Requests, tx[q].pc = "locking", tx[q].todo = <<>>,
         NEW restamps \in BOOLEAN, Redirected(q) => Accepts(Again(q, restamps), call[q]),
         TargetBase(q).run = NoRun => TargetDb(q).run = NoRun
  PROVE  LET base == TargetBase(q)
             old == TargetDb(q)
             new == Final(q, restamps)
         IN /\ Since(old, new) /\ new.run # NoRun /\ new.kind = TargetOnce(q).kind
            /\ new.status = IF TargetNow(q).status = base.status THEN old.status ELSE TargetNow(q).status
            /\ new.output = IF TargetNow(q).output = base.output THEN old.output ELSE TargetNow(q).output
            /\ new.status = "complete" => new.output # NoOutput
            /\ tx[q].target \notin Overtaken /\ ~Overtakes(q, restamps) => Mirrors(new)
<1> DEFINE base == TargetBase(q)
           old == TargetDb(q)
           once == TargetOnce(q)
           c == call[q]
           x == tx[q].target
<1>1. c \in Call /\ Valid(c)
  BY CallIs DEF IInv
<1>2. once \in Row /\ Formed(once) /\ once.run # NoRun /\ (x \notin Overtaken => Mirrors(once))
  BY OnceValue
<1>3. /\ Since(base, old) /\ (old.status = "complete" => old.output # NoOutput)
      /\ once.sims = base.sims /\ once.ver = base.ver
      /\ once.kind = IF Kind(base.sims) = "none" THEN base.kind ELSE Kind(base.sims)
      /\ base.output # NoOutput => once.output # NoOutput
      /\ once.status = "complete" => once.output # NoOutput \/ once.status = base.status
      /\ ~Own(q) => Result(once) = Result(base)
      /\ x \notin Overtaken => Mirrors(base) /\ Mirrors(old)
  BY TargetKnown
<1>4. CASE Redirected(q)
  <2>1. ~Own(q)
    BY <1>4 DEF Redirected, Own
  <2>2. /\ Once(q) = Flushed(old, base, once) /\ Again(q, restamps) = Reread(base, once, Once(q), restamps)
        /\ Final(q, restamps) = Flushed(Once(q), Again(q, restamps), Synced(Updated(Again(q, restamps), c)))
        /\ TargetNow(q) = Updated(once, c)
        /\ Overtakes(q, restamps) <=> WritesRun(base, once, restamps) /\ Result(base) # Result(old)
    BY <1>4 DEF Once, Again, Twice, Final, TargetNow, Overtakes
  <2>3. Accepts(Again(q, restamps), c) /\ (base.run = NoRun => old.run = NoRun) /\ Result(once) = Result(base)
    BY <1>3, <1>4, <2>1
  <2> HIDE DEF base, old, once, c, x
  <2> QED BY <1>1, <1>2, <1>3, <2>2, <2>3, SecondWrite DEF base, old, once, x
<1>5. CASE ~Redirected(q)
  <2>1. /\ Final(q, restamps) = Flushed(old, base, once) /\ TargetNow(q) = once
    BY <1>5 DEF Once, Final, TargetNow
  <2>2. base.run = NoRun => old.run = NoRun
    OBVIOUS
  <2> HIDE DEF base, old, once, c, x
  <2> QED BY <1>2, <1>3, <2>1, <2>2, FlushReport DEF base, old, once, x
<1> QED BY <1>4, <1>5

\* The rows that the COMMIT writes.
Finishes(q) == Finish(q) \/ FinishRedirected(q)

LEMMA Committed ==
  ASSUME IInv, NEW q \in Requests, Finishes(q), tx'[q].answer = "ok"
  PROVE  LET t == tx[q]
             x == t.target
         IN /\ t.pc = "locking" /\ t.todo = <<>> /\ t.late = 0
            /\ DOMAIN db' = DOMAIN db \union {x} /\ db' = [y \in DOMAIN db' |-> db'[y]]
            /\ TargetBase(q).run = NoRun => TargetDb(q).run = NoRun
            /\ \E restamps \in BOOLEAN :
                  /\ Redirected(q) => Accepts(Again(q, restamps), call[q])
                  /\ db'[x] = Final(q, restamps)
                  /\ Leave(q, "ok", IF Overtakes(q, restamps) THEN x ELSE 0)
            /\ \A y \in DOMAIN db \ {x} :
                  \/ db'[y] = db[y]
                  \/ /\ y \in DOMAIN t.base \intersect Sims
                     /\ db'[y] = Flushed(db[y], t.base[y], SyncedSim(t.base[y]))
                     /\ t.base[y].run = NoRun => db[y].run = NoRun
<1> DEFINE t == tx[q]
           x == t.target
           c == call[q]
           mine == [t.mine EXCEPT ![x] = Synced(@)]
           rows == Merged(t.base, mine)
           base == IF x \in DOMAIN db THEN t.base[x] ELSE mine[x]
           row(restamps) == Reread(base, mine[x], rows[x], restamps)
           late(restamps) == /\ WritesRun(base, mine[x], restamps) /\ x \in DOMAIN db
                             /\ Result(base) # Result(db[x])
<1>1. t.pc = "locking" /\ t.todo = <<>>
  BY DEF Finishes, Finish, FinishRedirected
<1>2. t.late = 0 /\ Loaded(q) /\ Locking(q) /\ RowsOK
  BY <1>1 DEF IInv, SessionOK
<1>3. \A answer, at : Leave(q, answer, at) => tx'[q].answer = answer
  BY <1>2, Ending
<1>4. \A answer : Rollback(q, answer) => answer = "ok"
  BY <1>3 DEF Rollback, End
<1>5. /\ ~Clash(t.base, mine)
      /\ \E restamps \in BOOLEAN :
            \/ /\ ~Redirected(q) /\ Leave(q, "ok", 0) /\ db' = Over(rows, db)
            \/ /\ Redirected(q) /\ Accepts(row(restamps), c)
               /\ db' = Over([rows EXCEPT ![x] = Flushed(@, row(restamps), Synced(Updated(row(restamps), c)))], db)
               /\ Leave(q, "ok", IF late(restamps) THEN x ELSE 0)
  <2>1. CASE Finish(q)
    <3>1. ~Clash(t.base, mine) /\ ~Redirected(q) /\ db' = Over(rows, db) /\ End(q, "ok")
      BY <1>4, <2>1, Zenon DEF Finish
    <3>2. TRUE \in BOOLEAN
      OBVIOUS
    <3> QED BY <3>1, <3>2, Zenon DEF End
  <2>2. CASE FinishRedirected(q)
    BY <1>4, <2>2, Zenon DEF FinishRedirected
  <2> QED BY <2>1, <2>2 DEF Finishes
<1>6. /\ x \in DOMAIN t.mine \ Sims /\ DOMAIN t.mine = DOMAIN t.base \union {x}
      /\ \A y \in DOMAIN t.base \ (Sims \union {x}) : t.mine[y] = t.base[y]
      /\ x \notin DOMAIN t.base => x \notin DOMAIN db
  BY <1>2 DEF Locking, TargetOK
<1>7. \A y \in DOMAIN t.base : y \in DOMAIN db
  BY <1>2 DEF Loaded, LoadedSim
<1>8. DOMAIN mine = DOMAIN t.mine /\ mine[x] = TargetOnce(q) /\ \A y \in DOMAIN t.mine \ {x} : mine[y] = t.mine[y]
  BY <1>6 DEF TargetOnce, Mine
<1> HIDE DEF mine
<1>9. /\ DOMAIN rows = DOMAIN mine
      /\ \A y \in DOMAIN mine : rows[y] = IF y \in DOMAIN db THEN Flushed(db[y], t.base[y], mine[y]) ELSE mine[y]
  BY DEF Merged
<1> HIDE DEF rows
<1>10. base = TargetBase(q) /\ rows[x] = Once(q)
  <2>1. base = TargetBase(q)
    BY <1>8 DEF TargetBase
  <2>2. CASE x \in DOMAIN db
    BY <1>6, <1>8, <1>9, <2>1, <2>2 DEF Once, TargetDb
  <2>3. CASE x \notin DOMAIN db
    <3>1. rows[x] = TargetOnce(q) /\ TargetBase(q) = TargetOnce(q) /\ TargetDb(q) = TargetOnce(q)
      BY <1>6, <1>8, <1>9, <2>3 DEF TargetBase, TargetDb
    <3>2. TargetOnce(q) \in Row
      BY <1>1, OnceValue
    <3> QED BY <2>1, <3>1, <3>2, FlushedSame DEF Once
  <2> QED BY <2>1, <2>2, <2>3
<1>11. \A restamps \in BOOLEAN :
          /\ row(restamps) = Again(q, restamps)
          /\ Redirected(q) => (late(restamps) <=> Overtakes(q, restamps))
  <2> SUFFICES ASSUME NEW restamps \in BOOLEAN
               PROVE  /\ row(restamps) = Again(q, restamps)
                      /\ Redirected(q) => (late(restamps) <=> Overtakes(q, restamps))
    OBVIOUS
  <2>1. row(restamps) = Again(q, restamps)
    BY <1>8, <1>10 DEF Again
  <2>2. x \in DOMAIN db => TargetDb(q) = db[x]
    BY DEF TargetDb
  <2>3. x \notin DOMAIN db => TargetDb(q) = TargetBase(q)
    BY DEF TargetDb, TargetBase
  <2> HIDE DEF base, x
  <2> QED BY <1>8, <1>10, <2>1, <2>2, <2>3 DEF Overtakes
<1> HIDE DEF row, late, base
<1>12. PICK restamps \in BOOLEAN :
          /\ Redirected(q) => Accepts(Again(q, restamps), c)
          /\ Leave(q, "ok", IF Overtakes(q, restamps) THEN x ELSE 0)
          /\ \/ ~Redirected(q) /\ db' = Over(rows, db)
             \/ Redirected(q) /\ db' = Over([rows EXCEPT ![x] = Twice(q, restamps)], db)
  <2>1. ASSUME ~Redirected(q), Leave(q, "ok", 0), db' = Over(rows, db)
        PROVE  /\ Leave(q, "ok", IF Overtakes(q, TRUE) THEN x ELSE 0)
               /\ ~Redirected(q) /\ db' = Over(rows, db)
    BY <2>1, Zenon DEF Overtakes
  <2>2. ASSUME NEW restamps \in BOOLEAN, Redirected(q), Accepts(row(restamps), c),
               db' = Over([rows EXCEPT ![x] = Flushed(@, row(restamps), Synced(Updated(row(restamps), c)))], db),
               Leave(q, "ok", IF late(restamps) THEN x ELSE 0)
        PROVE  /\ Accepts(Again(q, restamps), c)
               /\ Leave(q, "ok", IF Overtakes(q, restamps) THEN x ELSE 0)
               /\ db' = Over([rows EXCEPT ![x] = Twice(q, restamps)], db)
    <3>1. row(restamps) = Again(q, restamps) /\ (late(restamps) <=> Overtakes(q, restamps))
      BY <1>11, <2>2
    <3>2. (IF late(restamps) THEN x ELSE 0) = (IF Overtakes(q, restamps) THEN x ELSE 0)
      BY <3>1
    <3>3. Leave(q, "ok", IF Overtakes(q, restamps) THEN x ELSE 0)
      BY <2>2, <3>2, Zenon
    <3>4. Flushed(rows[x], row(restamps), Synced(Updated(row(restamps), c))) = Twice(q, restamps)
      BY <1>10, <3>1 DEF Twice
    <3>5. [rows EXCEPT ![x] = Flushed(@, row(restamps), Synced(Updated(row(restamps), c)))]
             = [rows EXCEPT ![x] = Twice(q, restamps)]
      BY <3>4, Zenon
    <3> QED BY <2>2, <3>1, <3>3, <3>5
  <2>3. TRUE \in BOOLEAN
    OBVIOUS
  <2> QED BY <1>5, <2>1, <2>2, <2>3, Zenon
<1> DEFINE all == IF Redirected(q) THEN [rows EXCEPT ![x] = Twice(q, restamps)] ELSE rows
<1>13. /\ DOMAIN all = DOMAIN mine /\ all[x] = Final(q, restamps)
       /\ \A y \in DOMAIN mine \ {x} : all[y] = rows[y]
  BY <1>6, <1>8, <1>9, <1>10 DEF Final
<1>14. db' = Over(all, db)
  BY <1>12
<1> HIDE DEF all
<1>15. /\ DOMAIN db' = DOMAIN mine \union DOMAIN db /\ db' = [y \in DOMAIN db' |-> db'[y]]
       /\ \A y \in DOMAIN mine : db'[y] = all[y]
       /\ \A y \in DOMAIN db \ DOMAIN mine : db'[y] = db[y]
  BY <1>13, <1>14 DEF Over
<1>16. \A y \in DOMAIN t.base : mine[y].run # NoRun /\ t.base[y].run = NoRun => db[y].run = NoRun
  BY <1>5 DEF Clash
<1>17. DOMAIN db' = DOMAIN db \union {x}
  BY <1>6, <1>7, <1>8, <1>15
<1>18. db'[x] = Final(q, restamps)
  BY <1>6, <1>8, <1>13, <1>15
<1>19. TargetBase(q).run = NoRun => TargetDb(q).run = NoRun
  <2>1. TargetOnce(q).run # NoRun
    BY <1>1, OnceValue
  <2>2. x \in DOMAIN db => x \in DOMAIN t.base
    BY <1>6
  <2> QED BY <1>8, <1>16, <2>1, <2>2 DEF TargetBase, TargetDb
<1>20. ASSUME NEW y \in DOMAIN db \ {x}, db'[y] # db[y]
       PROVE  /\ y \in DOMAIN t.base \intersect Sims
              /\ db'[y] = Flushed(db[y], t.base[y], SyncedSim(t.base[y]))
              /\ t.base[y].run = NoRun => db[y].run = NoRun
  <2>1. y \in DOMAIN mine /\ y \in DOMAIN t.base /\ mine[y] = t.mine[y]
    BY <1>6, <1>8, <1>15, <1>20
  <2>2. db'[y] = Flushed(db[y], t.base[y], t.mine[y])
    BY <1>9, <1>13, <1>15, <1>20, <2>1
  <2>3. y \in Sims
    <3>1. ASSUME y \notin Sims PROVE FALSE
      <4>1. t.mine[y] = t.base[y] /\ db[y] \in Row
        BY <1>2, <1>6, <1>20, <2>1, <3>1 DEF RowsOK
      <4> QED BY <1>20, <2>2, <4>1, FlushedSame
    <3> QED BY <3>1
  <2>4. LoadedSim(q, y)
    BY <1>2, <2>1, <2>3 DEF Loaded
  <2>5. t.mine[y] = SyncedSim(t.base[y]) /\ t.base[y] \in Row /\ t.base[y].status = db[y].status
    BY <1>2, <2>4 DEF LoadedSim, RowsOK, Row
  <2>6. t.mine[y].run # NoRun
    <3>1. db[y].status # "running"
      BY <1>2, <1>20, <2>3 DEF RowsOK
    <3>2. t.mine[y] \in Row /\ t.mine[y].run = Result(t.mine[y])
      BY <2>5, <3>1, SyncedSimRow
    <3> QED BY <3>2, ResultIsRun
  <2> QED BY <1>16, <2>1, <2>2, <2>3, <2>5, <2>6
<1>21. \E r \in BOOLEAN :
          /\ Redirected(q) => Accepts(Again(q, r), c)
          /\ db'[x] = Final(q, r) /\ Leave(q, "ok", IF Overtakes(q, r) THEN x ELSE 0)
  BY <1>12, <1>18, Zenon
<1> QED BY <1>1, <1>2, <1>15, <1>17, <1>19, <1>20, <1>21

\* A report as a COMMIT leaves it.
LEMMA CommittedReport ==
  ASSUME IInv, NEW q \in Requests, Finishes(q), tx'[q].answer = "ok"
  PROVE  LET x == tx[q].target
             base == TargetBase(q)
             old == TargetDb(q)
             new == db'[x]
         IN /\ x \in DOMAIN db <=> x \in DOMAIN tx[q].base
            /\ x \in DOMAIN db => lock[x] = q
            /\ x \notin DOMAIN db => x \in ReportIds /\ Range(new.sims) \subseteq DOMAIN db
            /\ Since(old, new) /\ new.run # NoRun /\ new.kind = TargetOnce(q).kind
            /\ new.status = IF TargetNow(q).status = base.status THEN old.status ELSE TargetNow(q).status
            /\ new.output = IF TargetNow(q).output = base.output THEN old.output ELSE TargetNow(q).output
            /\ new.status = "complete" => new.output # NoOutput
            /\ Mirrors(new) \/ x \in Overtaken'
<1> DEFINE x == tx[q].target
           base == TargetBase(q)
           old == TargetDb(q)
           new == db'[x]
<1>1. tx[q].pc = "locking" /\ tx[q].todo = <<>> /\ tx[q].late = 0 /\ (base.run = NoRun => old.run = NoRun)
  BY Committed
<1>2. PICK restamps \in BOOLEAN :
          /\ Redirected(q) => Accepts(Again(q, restamps), call[q])
          /\ new = Final(q, restamps)
          /\ Leave(q, "ok", IF Overtakes(q, restamps) THEN x ELSE 0)
  BY Committed
<1>3. /\ Since(old, new) /\ new.run # NoRun /\ new.kind = TargetOnce(q).kind
      /\ new.status = IF TargetNow(q).status = base.status THEN old.status ELSE TargetNow(q).status
      /\ new.output = IF TargetNow(q).output = base.output THEN old.output ELSE TargetNow(q).output
      /\ new.status = "complete" => new.output # NoOutput
      /\ x \notin Overtaken /\ ~Overtakes(q, restamps) => Mirrors(new)
  BY <1>1, <1>2, FinalReport
<1>4. /\ x \in DOMAIN db <=> x \in DOMAIN tx[q].base
      /\ x \in DOMAIN db => lock[x] = q
      /\ x \notin DOMAIN db => x \in ReportIds /\ Range(TargetOnce(q).sims) \subseteq DOMAIN db
  BY <1>1, TargetKnown
<1>5. new.sims = TargetOnce(q).sims
  <2>1. new.sims = old.sims
    BY <1>3 DEF Since
  <2>2. old.sims = base.sims /\ TargetOnce(q).sims = base.sims
    BY <1>1, TargetKnown DEF Since
  <2> QED BY <2>1, <2>2
<1>6. x \in Overtaken => x \in Overtaken'
  <2>1. x \in Rows
    BY <1>4 DEF IInv, RowsOK, Rows
  <2> HIDE DEF x
  <2> QED BY <1>1, <1>2, <2>1, Ending
<1>7. Overtakes(q, restamps) => x \in Overtaken'
  <2>1. tx'[q].late = IF Overtakes(q, restamps) THEN x ELSE 0
    BY <1>1, <1>2, Ending
  <2> QED BY <2>1 DEF Overtaken
<1> HIDE DEF x, base, old, new
<1> QED BY <1>3, <1>4, <1>5, <1>6, <1>7 DEF x, base, old, new

\* What a step that writes rows keeps of them.
Writes ==
    /\ nextId' = nextId /\ DOMAIN db \subseteq DOMAIN db' /\ DOMAIN db' \subseteq Rows
    /\ db' = [x \in DOMAIN db' |-> db'[x]]
    /\ \A x \in Rows : x \in Overtaken => x \in Overtaken'
    /\ \A x \in DOMAIN db \ Sims : Since(db[x], db'[x])
    /\ \A s \in DOMAIN db \intersect Sims :
          \/ db'[s] = db[s]
          \/ /\ RowOK(db'[s]) /\ db'[s].run # NoRun /\ db'[s].output # Legacy
             /\ db'[s].num = db[s].num /\ db'[s].sims = db[s].sims /\ db'[s].status # "running"
    /\ \A x \in DOMAIN db' \ Sims :
          /\ db'[x].status = "complete" => db'[x].output # NoOutput
          /\ Mirrors(db'[x]) \/ x \in Overtaken'
    /\ \A x \in DOMAIN db' \ DOMAIN db :
          /\ Formed(db'[x]) /\ Range(db'[x].sims) \subseteq DOMAIN db'
          /\ x \in Sims => /\ Mirrors(db'[x]) /\ db'[x].status # "running"
                           /\ DOMAIN db' = DOMAIN db \union {x}
                           /\ db'[x].num = Cardinality(Simulations(db)) + 1
          /\ x \notin Sims => x < nextId

\* The simulations stay numbered: a new one gets the next number.
LEMMA StaysNumbered ==
  ASSUME IInv, Writes
  PROVE  Numbered' /\ SameOrder
<1> DEFINE N == Cardinality(Simulations(db))
<1>1. /\ Numbered /\ DOMAIN db \subseteq DOMAIN db' /\ db \in [DOMAIN db -> Row]
  BY DEF IInv, RowsOK, Writes
<1>2. IsFiniteSet(Simulations(db)) /\ N \in Nat
  <2>1. IsFiniteSet(Sims) /\ Simulations(db) \subseteq Sims
    BY ReportsAssumption DEF ReportsAssumption, Simulations
  <2> QED BY <2>1, FS_Subset, FS_CardinalityType
<1>3. \A s \in Simulations(db) : db'[s].num = db[s].num /\ db[s].num \in 1..N
  BY <1>1 DEF Writes, Numbered, Simulations
<1>4. CASE Simulations(db') = Simulations(db)
  <2>1. SameOrder
    BY <1>3, <1>4 DEF SameOrder, Simulations
  <2> QED BY <1>1, <1>3, <1>4, <2>1 DEF Numbered
<1>5. CASE Simulations(db') # Simulations(db)
  <2>1. PICK s \in Simulations(db') : s \notin Simulations(db)
    BY <1>1, <1>5 DEF Simulations
  <2>2. s \in Sims /\ s \in DOMAIN db' \ DOMAIN db
    BY <2>1 DEF Simulations
  <2>3. DOMAIN db' = DOMAIN db \union {s} /\ db'[s].num = N + 1
    BY <2>2 DEF Writes
  <2>4. Simulations(db') = Simulations(db) \union {s}
    BY <2>2, <2>3 DEF Simulations
  <2>5. Cardinality(Simulations(db')) = N + 1
    BY <1>2, <2>1, <2>4, FS_AddElement
  <2> HIDE DEF N
  <2>6. SameOrder
    <3>1. ASSUME NEW o \in Simulations(db') \ DOMAIN db PROVE o = s
      BY <2>4, <3>1 DEF Simulations
    <3> QED BY <1>2, <1>3, <2>3, <3>1 DEF SameOrder
  <2>7. ASSUME NEW a \in Simulations(db'), NEW b \in Simulations(db')
        PROVE  db'[a].num \in 1..(N + 1) /\ (db'[a].num = db'[b].num => a = b)
    <3>1. \A o \in Simulations(db) : db'[o].num \in 1..N /\ db'[o].num # N + 1
      BY <1>2, <1>3
    <3>2. a \in Simulations(db) /\ b \in Simulations(db) => (db'[a].num = db'[b].num => a = b)
      BY <1>1, <1>3 DEF Numbered
    <3> QED BY <1>2, <2>3, <2>4, <3>1, <3>2
  <2> QED BY <2>5, <2>6, <2>7 DEF Numbered
<1> QED BY <1>4, <1>5

\* The rows are well formed after it.
LEMMA WrittenRows == ASSUME IInv, Writes PROVE RowsOK'
<1>1. RowsOK
  BY DEF IInv
<1>2. ASSUME NEW x \in DOMAIN db' PROVE Formed(db'[x]) /\ Range(db'[x].sims) \subseteq DOMAIN db'
  <2>1. CASE x \in DOMAIN db \ Sims
    <3>1. Formed(db'[x]) /\ db'[x].sims = db[x].sims
      BY <2>1 DEF Writes, Since
    <3> QED BY <1>1, <2>1, <3>1 DEF RowsOK, Writes
  <2>2. CASE x \in DOMAIN db \intersect Sims
    <3>1. Formed(db'[x]) /\ db'[x].sims = db[x].sims
      BY <1>1, <2>2 DEF Writes, RowsOK, RowOK
    <3> QED BY <1>1, <2>2, <3>1 DEF RowsOK, Writes
  <2>3. CASE x \notin DOMAIN db
    BY <1>2, <2>3 DEF Writes
  <2> QED BY <2>1, <2>2, <2>3
<1>3. DOMAIN db' \subseteq Rows /\ db' \in [DOMAIN db' -> Row]
  <2>1. \A x \in DOMAIN db' : db'[x] \in Row
    BY <1>2 DEF Formed
  <2> QED BY <2>1 DEF Writes
<1>4. \A x \in DOMAIN db' \ Sims : x < nextId' /\ (db'[x].status = "complete" => db'[x].output # NoOutput)
  BY <1>1 DEF Writes, RowsOK
<1>5. \A s \in DOMAIN db' \intersect Sims : db'[s].status # "running"
  BY <1>1 DEF Writes, RowsOK
<1>6. ASSUME NEW x \in DOMAIN db', x \in Sims \/ x \notin Overtaken' PROVE Mirrors(db'[x])
  <2>1. CASE x \notin Sims
    BY <1>6, <2>1 DEF Writes
  <2>2. CASE x \in Sims \intersect DOMAIN db
    BY <1>1, <2>2 DEF Writes, RowsOK, RowOK
  <2>3. CASE x \in Sims \ DOMAIN db
    BY <1>6, <2>3 DEF Writes
  <2> QED BY <2>1, <2>2, <2>3
<1>7. Numbered'
  BY StaysNumbered
<1> QED BY <1>2, <1>3, <1>4, <1>5, <1>6, <1>7 DEF RowsOK

\* Another request meets it as one of the steps it allows for.
LEMMA WrittenMeanwhile ==
  ASSUME IInv, Writes, call' = call, NEW r \in Requests, tx'[r] = tx[r],
         \A x \in Rows : lock'[x] = r <=> lock[x] = r,
         \A x \in DOMAIN db : lock[x] = r => db'[x] = db[x],
         tx[r].pc = "locking" /\ tx[r].target \notin DOMAIN tx[r].base => tx[r].target \notin DOMAIN db'
  PROVE  Meanwhile(r)
<1>1. nextId' \in Nat /\ nextId <= nextId'
  BY DEF IInv, IdsLeft, Writes
<1>2. \A s \in DOMAIN db \intersect Sims : Untouched(db'[s]) => db'[s] = db[s]
  BY DEF Writes, Untouched
<1>3. SameOrder
  BY StaysNumbered
<1> QED BY <1>1, <1>2, <1>3 DEF Meanwhile, Writes

\* The COMMIT of a report.
LEMMA FinishKeeps == ASSUME IInv, NEW q \in Requests, Finishes(q) PROVE IInv'
<1>0. tx[q].pc = "locking" /\ tx[q].late = 0
  <2>1. tx[q].pc = "locking"
    BY DEF Finishes, Finish, FinishRedirected
  <2> QED BY <2>1 DEF IInv, SessionOK
<1>1. CASE \E answer : Rollback(q, answer)
  BY <1>0, <1>1, RollbackKeeps
<1>2. CASE tx'[q].answer = "ok"
  <2> DEFINE t == tx[q]
             x == t.target
  <2>0. PICK late : Leave(q, "ok", late)
    <3>1. \E restamps \in BOOLEAN : Leave(q, "ok", IF Overtakes(q, restamps) THEN x ELSE 0)
      BY <1>2, Committed
    <3> QED BY <3>1
  <2> DEFINE new == Ended("ok", late)
  <2>1. /\ SessionOK(q)' /\ IdsLeft' /\ call' = call /\ nextId' = nextId
        /\ lock' \in [Rows -> Requests \union {NoOne}] /\ tx' = [tx EXCEPT ![q] = new]
        /\ \A r \in Requests \ {q} : tx'[r] = tx[r] /\ \A y \in Rows : lock'[y] = r <=> lock[y] = r
        /\ \A y \in Rows : y \in Overtaken => y \in Overtaken'
        /\ new.pc = "ended"
    BY <1>0, <2>0, Ending
  <2>2. /\ t.pc = "locking" /\ t.todo = <<>>
        /\ DOMAIN db' = DOMAIN db \union {x} /\ db' = [y \in DOMAIN db' |-> db'[y]]
        /\ \A y \in DOMAIN db \ {x} :
              \/ db'[y] = db[y]
              \/ /\ y \in DOMAIN t.base \intersect Sims
                 /\ db'[y] = Flushed(db[y], t.base[y], SyncedSim(t.base[y]))
                 /\ t.base[y].run = NoRun => db[y].run = NoRun
    BY <1>2, Committed
  <2>3. /\ x \in DOMAIN db => x \in DOMAIN t.base /\ Since(db[x], db'[x]) /\ lock[x] = q
        /\ x \notin DOMAIN db => x \in ReportIds /\ Formed(db'[x]) /\ Range(db'[x].sims) \subseteq DOMAIN db
        /\ db'[x].status = "complete" => db'[x].output # NoOutput
        /\ Mirrors(db'[x]) \/ x \in Overtaken'
    <3>1. x \in DOMAIN db => TargetDb(q) = db[x]
      BY DEF TargetDb
    <3>2. Since(TargetDb(q), db'[x]) => Formed(db'[x])
      BY DEF Since
    <3> QED BY <1>2, <3>1, <3>2, CommittedReport
  <2>4. RowsOK /\ Loaded(q) /\ Locking(q) /\ nextId \in Nat
    BY <2>2 DEF IInv, SessionOK, IdsLeft
  <2>5. x < nextId /\ x \notin Sims
    BY <2>2, TargetBelow
  <2>6. ASSUME NEW y \in DOMAIN db \ {x}, db'[y] # db[y]
        PROVE  /\ y \in Sims /\ lock[y] = q
               /\ RowOK(db'[y]) /\ db'[y].run # NoRun /\ db'[y].output # Legacy
               /\ db'[y].num = db[y].num /\ db'[y].sims = db[y].sims /\ db'[y].status # "running"
    <3>1. /\ y \in DOMAIN t.base \intersect Sims
          /\ db'[y] = Flushed(db[y], t.base[y], SyncedSim(t.base[y]))
          /\ t.base[y].run = NoRun => db[y].run = NoRun
      BY <2>2, <2>6
    <3>2. LoadedSim(q, y)
      BY <2>4, <3>1 DEF Loaded
    <3>3. /\ t.base[y] \in Row /\ t.base[y] = [db[y] EXCEPT !.run = t.base[y].run]
          /\ t.base[y].run # NoRun /\ db[y].output = Legacy => t.base[y] = db[y]
          /\ t.base[y].run = NoRun <=> db[y].run = NoRun
          /\ RowOK(db[y]) /\ db[y].status # "running" /\ lock[y] = q
      BY <2>4, <3>1, <3>2 DEF LoadedSim, RowsOK, RowOK
    <3> DEFINE base == t.base[y]
               now == db[y]
    <3> HIDE DEF base, now
    <3>4. /\ base \in Row /\ base = [now EXCEPT !.run = base.run]
          /\ base.run # NoRun /\ now.output = Legacy => base = now
          /\ base.run = NoRun <=> now.run = NoRun
          /\ RowOK(now) /\ now.status # "running"
      BY <3>3 DEF base, now
    <3>5. LET row == Flushed(now, base, SyncedSim(base))
          IN /\ RowOK(row) /\ row.run # NoRun /\ row.output # Legacy
             /\ row.num = now.num /\ row.sims = now.sims /\ row.status # "running"
      BY ONLY <3>4, FlushSim
    <3> QED BY <3>1, <3>3, <3>5 DEF base, now
  <2>7. Writes
    <3>1. DOMAIN db' \subseteq Rows
      BY <2>2, <2>3, <2>4 DEF RowsOK, Rows
    <3>2. \A y \in DOMAIN db \ Sims : Since(db[y], db'[y])
      <4> SUFFICES ASSUME NEW y \in DOMAIN db \ Sims PROVE Since(db[y], db'[y])
        OBVIOUS
      <4>1. CASE y = x
        BY <2>3, <4>1
      <4>2. CASE y # x
        <5>1. db'[y] = db[y]
          BY <2>6, <4>2
        <5> QED BY <2>4, <5>1, SinceSelf DEF RowsOK
      <4> QED BY <4>1, <4>2
    <3>3. \A s \in DOMAIN db \intersect Sims :
             \/ db'[s] = db[s]
             \/ /\ RowOK(db'[s]) /\ db'[s].run # NoRun /\ db'[s].output # Legacy
                /\ db'[s].num = db[s].num /\ db'[s].sims = db[s].sims /\ db'[s].status # "running"
      BY <2>5, <2>6
    <3>4. \A y \in DOMAIN db' \ Sims : /\ db'[y].status = "complete" => db'[y].output # NoOutput
                                       /\ Mirrors(db'[y]) \/ y \in Overtaken'
      <4> SUFFICES ASSUME NEW y \in DOMAIN db' \ Sims
                   PROVE  /\ db'[y].status = "complete" => db'[y].output # NoOutput
                          /\ Mirrors(db'[y]) \/ y \in Overtaken'
        OBVIOUS
      <4>1. CASE y = x
        BY <2>3, <4>1
      <4>2. CASE y # x
        <5>1. y \in DOMAIN db /\ db'[y] = db[y] /\ y \in Rows
          BY <2>2, <2>4, <2>6, <4>2 DEF RowsOK
        <5> QED BY <2>1, <2>4, <5>1 DEF RowsOK
      <4> QED BY <4>1, <4>2
    <3>5. \A y \in DOMAIN db' \ DOMAIN db :
             /\ Formed(db'[y]) /\ Range(db'[y].sims) \subseteq DOMAIN db' /\ y \notin Sims
             /\ y \notin Sims => y < nextId
      BY <2>2, <2>3, <2>5
    <3> QED BY <2>1, <2>2, <3>1, <3>2, <3>3, <3>4, <3>5 DEF Writes
  <2>8. RowsOK'
    BY <2>7, WrittenRows
  <2>9. ASSUME NEW r \in Requests \ {q} PROVE Meanwhile(r)
    <3>1. \A y \in DOMAIN db : lock[y] = r => db'[y] = db[y]
      BY <2>3, <2>6
    <3>2. tx[r].pc = "locking" /\ tx[r].target \notin DOMAIN tx[r].base => tx[r].target \notin DOMAIN db'
      <4> SUFFICES ASSUME tx[r].pc = "locking", tx[r].target \notin DOMAIN tx[r].base
                   PROVE  tx[r].target \notin DOMAIN db'
        OBVIOUS
      <4>1. tx[r].target # x
        BY <2>2 DEF IInv, InsertedApart
      <4>2. tx[r].target \notin DOMAIN db
        BY DEF IInv, SessionOK, Locking, TargetOK
      <4> QED BY <2>2, <4>1, <4>2
    <3> QED BY <2>1, <2>7, <3>1, <3>2, WrittenMeanwhile
  <2> HIDE DEF new
  <2> QED BY <2>1, <2>8, <2>9, StepKeeps
<1>3. (\E answer : Rollback(q, answer)) \/ tx'[q].answer = "ok"
  <2>1. \A at : Leave(q, "ok", at) => tx'[q].answer = "ok"
    BY <1>0, Ending
  <2>2. CASE Finish(q)
    BY <2>1, <2>2 DEF Finish, End
  <2>3. CASE FinishRedirected(q)
    BY <2>1, <2>3 DEF FinishRedirected
  <2> QED BY <2>2, <2>3 DEF Finishes
<1> QED BY <1>1, <1>2, <1>3

\* A simulation's record as its routes leave it, and nothing else written.
LEMMA SimWritten ==
  ASSUME IInv, NEW q \in Requests, tx[q].late = 0, End(q, "ok"),
         NEW s \in Sims, s \in DOMAIN db => lock[s] \in {NoOne, q},
         NEW row \in Row, RowOK(row), row.run # NoRun, row.output # Legacy, row.status # "running",
         Range(row.sims) \subseteq DOMAIN db,
         s \in DOMAIN db => row.sims = db[s].sims /\ row.num = db[s].num,
         s \notin DOMAIN db => row.num = Cardinality(Simulations(db)) + 1,
         db' = With(db, s, row)
  PROVE  IInv'
<1> DEFINE new == Ended("ok", 0)
<1>1. /\ SessionOK(q)' /\ IdsLeft' /\ call' = call /\ nextId' = nextId
      /\ lock' \in [Rows -> Requests \union {NoOne}] /\ tx' = [tx EXCEPT ![q] = new]
      /\ \A r \in Requests \ {q} : tx'[r] = tx[r] /\ \A y \in Rows : lock'[y] = r <=> lock[y] = r
      /\ \A y \in Rows : y \in Overtaken => y \in Overtaken'
      /\ new.pc = "ended"
  BY Ending DEF End
<1> HIDE DEF new
<1>2. RowsOK
  BY DEF IInv
<1>3. /\ DOMAIN db' = DOMAIN db \union {s} /\ db' = [y \in DOMAIN db' |-> db'[y]]
      /\ db'[s] = row /\ \A y \in DOMAIN db \ {s} : db'[y] = db[y]
  BY DEF With
<1>4. Writes
  <2>1. DOMAIN db' \subseteq Rows
    BY <1>2, <1>3 DEF RowsOK, Rows
  <2>2. \A y \in DOMAIN db \ Sims : Since(db[y], db'[y])
    BY <1>2, <1>3, SinceSelf DEF RowsOK
  <2>3. \A y \in DOMAIN db \intersect Sims :
           \/ db'[y] = db[y]
           \/ /\ RowOK(db'[y]) /\ db'[y].run # NoRun /\ db'[y].output # Legacy
              /\ db'[y].num = db[y].num /\ db'[y].sims = db[y].sims /\ db'[y].status # "running"
    BY <1>3
  <2>4. \A y \in DOMAIN db' \ Sims : /\ db'[y].status = "complete" => db'[y].output # NoOutput
                                     /\ Mirrors(db'[y]) \/ y \in Overtaken'
    <3> SUFFICES ASSUME NEW y \in DOMAIN db' \ Sims
                 PROVE  /\ db'[y].status = "complete" => db'[y].output # NoOutput
                        /\ Mirrors(db'[y]) \/ y \in Overtaken'
      OBVIOUS
    <3>1. y \in DOMAIN db /\ db'[y] = db[y] /\ y \in Rows
      BY <1>2, <1>3 DEF RowsOK
    <3> QED BY <1>1, <1>2, <3>1 DEF RowsOK
  <2>5. \A y \in DOMAIN db' \ DOMAIN db :
           /\ Formed(db'[y]) /\ Range(db'[y].sims) \subseteq DOMAIN db'
           /\ Mirrors(db'[y]) /\ db'[y].status # "running"
           /\ DOMAIN db' = DOMAIN db \union {y}
           /\ db'[y].num = Cardinality(Simulations(db)) + 1
           /\ y \in Sims
    BY <1>3 DEF RowOK
  <2> QED BY <1>1, <1>3, <2>1, <2>2, <2>3, <2>4, <2>5 DEF Writes
<1>5. RowsOK'
  BY <1>4, WrittenRows
<1>6. ASSUME NEW r \in Requests \ {q} PROVE Meanwhile(r)
  <2>1. \A y \in DOMAIN db : lock[y] = r => db'[y] = db[y]
    <3>1. NoOne \notin Requests
      BY ReportsAssumption DEF ReportsAssumption
    <3> QED BY <1>3, <3>1
  <2>2. tx[r].pc = "locking" /\ tx[r].target \notin DOMAIN tx[r].base => tx[r].target \notin DOMAIN db'
    BY <1>3 DEF IInv, SessionOK, Locking, TargetOK
  <2> QED BY <1>1, <1>4, <2>1, <2>2, WrittenMeanwhile
<1> QED BY <1>1, <1>5, <1>6, StepKeeps

\* update_simulation.
LEMMA PatchSimulationKeeps == ASSUME IInv, NEW q \in Requests, PatchSimulation(q) PROVE IInv'
<1> DEFINE c == call[q]
           s == c.sim
           up == Updated(db[s], c)
           row == SyncedSim(up)
<1>0. tx[q].late = 0
  BY Beginning DEF PatchSimulation
<1>1. CASE \E answer : Rollback(q, answer)
  BY <1>0, <1>1, RollbackKeeps
<1>2. CASE s \in DOMAIN db /\ db' = [db EXCEPT ![s] = row] /\ End(q, "ok") /\ lock[s] = NoOne /\ c.op = "simpatch"
  <2>1. c \in Call /\ Valid(c) /\ s \in Sims /\ c.status # "running"
    BY <1>2, CallIs DEF IInv, Call, Valid
  <2>2. /\ db[s] \in Row /\ RowOK(db[s]) /\ db[s].status # "running" /\ Range(db[s].sims) \subseteq DOMAIN db
        /\ db \in [DOMAIN db -> Row]
    BY <1>2, <2>1 DEF IInv, RowsOK, RowOK
  <2>3. /\ up \in Row /\ up.num = db[s].num /\ up.sims = db[s].sims /\ up.kind = db[s].kind
        /\ up.status = IF c.status = "keep" THEN db[s].status ELSE c.status
    BY <2>1, <2>2, UpdatedRow
  <2>4. db' = With(db, s, row)
    BY <1>2, <2>2 DEF With
  <2> HIDE DEF up
  <2>5. up.status # "running"
    BY <2>1, <2>2, <2>3
  <2>6. Formed(up)
    BY <2>2, <2>3 DEF RowOK, Formed
  <2>7. /\ row \in Row /\ row.num = up.num /\ row.sims = up.sims /\ row.run = Result(row) /\ row.status # "running"
        /\ row.output # Legacy /\ RowOK(row)
    BY <2>3, <2>5, <2>6, SyncedSimRow
  <2> HIDE DEF row, s
  <2>8. row.run # NoRun
    BY <2>7, ResultIsRun
  <2> QED BY <1>0, <1>2, <2>1, <2>2, <2>3, <2>4, <2>7, <2>8, SimWritten
<1> QED BY <1>1, <1>2 DEF PatchSimulation

\* The scan of get_or_create_simulation locks one more row.
LEMMA ScanKeeps == ASSUME IInv, NEW q \in Requests, Scan(q) PROVE IInv'
<1> DEFINE new == NoSession
<1>1. /\ tx[q].pc = "start" /\ call[q].op = "simpost"
      /\ db' = db /\ nextId' = nextId /\ call' = call /\ tx' = tx
  BY DEF Scan
<1>2. PICK s \in NextToScan(q) : lock[s] = NoOne /\ lock' = [lock EXCEPT ![s] = q]
  BY DEF Scan
<1>3. /\ s \in Simulations(db) /\ lock[s] # q /\ s \in Rows
      /\ \A o \in Simulations(db) : lock[o] # q => db[s].num <= db[o].num
  BY <1>2 DEF NextToScan, ToScan, Simulations, Rows
<1>4. tx[q] = new /\ new.pc = "start" /\ \A x \in Rows : lock[x] = q => Scanned(q, x)
  BY <1>1 DEF IInv, SessionOK, NoSession
<1>5. NoOne \notin Requests /\ Simulations(db) \subseteq Rows
  BY ReportsAssumption DEF ReportsAssumption, Simulations, Rows
<1>6. /\ lock' \in [Rows -> Requests \union {NoOne}] /\ lock'[s] = q
      /\ \A x \in Rows \ {s} : lock'[x] = lock[x]
      /\ \A r \in Requests \ {q} : \A x \in Rows : lock'[x] = r <=> lock[x] = r
  BY <1>2, <1>3, <1>5 DEF IInv
<1>7. \A o \in Simulations(db) : db[o].num \in Nat
  BY DEF IInv, RowsOK, Numbered
<1>8. \A x \in Rows : lock'[x] = q => Scanned(q, x)'
  <2> SUFFICES ASSUME NEW x \in Rows, lock'[x] = q
               PROVE  /\ x \in Simulations(db)
                      /\ \A o \in Simulations(db) : db[o].num < db[x].num => lock'[o] = q
    BY <1>1 DEF Scanned, Simulations
  <2>1. CASE x = s
    <3>1. ASSUME NEW o \in Simulations(db), db[o].num < db[s].num PROVE lock'[o] = q
      <4>1. o \in Rows /\ ~(db[s].num <= db[o].num)
        BY <1>3, <1>5, <1>7, <3>1
      <4> QED BY <1>3, <1>6, <4>1
    <3> QED BY <1>3, <2>1, <3>1
  <2>2. CASE x # s
    <3>1. Scanned(q, x)
      BY <1>4, <1>6, <2>2
    <3> QED BY <1>5, <1>6, <3>1 DEF Scanned
  <2> QED BY <2>1, <2>2
<1>9. tx' = [tx EXCEPT ![q] = new]
  BY <1>1, <1>4 DEF IInv
<1>10. \A x \in Rows : x \in Overtaken => x \in Overtaken'
  BY <1>1 DEF Overtaken
<1>11. nextId' \in Nat /\ nextId <= nextId'
  BY <1>1 DEF IInv, IdsLeft
<1>12. RowsOK' /\ \A r \in Requests \ {q} : Meanwhile(r)
  BY <1>1, <1>6, <1>10, <1>11, NothingWritten
<1>13. SessionOK(q)'
  <2>1. SessionOK(q)
    BY DEF IInv
  <2>2. tx[q].pc # "ended" /\ tx[q].pc # "insert" /\ tx[q].pc # "locking"
    BY <1>1
  <2>3. SessionRecord(tx[q])' <=> SessionRecord(tx[q])
    BY <1>1 DEF SessionRecord
  <2> QED BY <1>1, <1>8, <2>1, <2>2, <2>3 DEF SessionOK
<1>14. IdsLeft'
  BY <1>1, IdsKept
<1> HIDE DEF new
<1> QED BY <1>1, <1>4, <1>6, <1>9, <1>12, <1>13, <1>14, StepKeeps

\* get_or_create_simulation after the scan.
LEMMA PostSimulationKeeps == ASSUME IInv, NEW q \in Requests, PostSimulation(q) PROVE IInv'
<1> DEFINE c == call[q]
           s == c.sim
           num == Cardinality(Simulations(db)) + 1
           old == IF s \in DOMAIN db THEN db[s] ELSE NewRow(num, 0, <<>>)
           row == SyncedSim(old)
<1>1. End(q, "ok") /\ db' = With(db, s, row) /\ ToScan(q) = {}
  BY DEF PostSimulation
<1>2. s \in Sims
  BY CallIs DEF IInv, Call
<1>3. tx[q].late = 0
  BY Beginning DEF PostSimulation
<1>4. s \in DOMAIN db => lock[s] = q
  BY <1>1, <1>2 DEF ToScan, Simulations
<1>5. num \in Nat
  <2>1. IsFiniteSet(Sims) /\ Simulations(db) \subseteq Sims
    BY ReportsAssumption DEF ReportsAssumption, Simulations
  <2>2. Cardinality(Simulations(db)) \in Nat
    BY <2>1, FS_Subset, FS_CardinalityType
  <2> QED BY <2>2
<1>6. /\ old \in Row /\ RowOK(old) /\ old.status # "running" /\ Range(old.sims) \subseteq DOMAIN db
      /\ s \in DOMAIN db => old.sims = db[s].sims /\ old.num = db[s].num
      /\ s \notin DOMAIN db => old.num = num
  <2>1. CASE s \in DOMAIN db
    BY <1>2, <2>1 DEF IInv, RowsOK, RowOK
  <2>2. CASE s \notin DOMAIN db
    <3> DEFINE sims == <<>>
    <3>1. num \in Nat /\ 0 \in Nat /\ sims \in Seq(Sims) /\ Range(sims) = {}
      BY <1>5 DEF Range
    <3>2. old = NewRow(num, 0, sims)
      BY <2>2
    <3> HIDE DEF old, sims, num
    <3>3. old \in Row /\ RowOK(old) /\ old.num = num /\ old.sims = sims /\ old.status = "pending"
      BY ONLY <3>1, <3>2, NewRowOK
    <3> QED BY <2>2, <3>1, <3>3
  <2> QED BY <2>1, <2>2
<1> HIDE DEF old
<1>7. /\ row \in Row /\ row.num = old.num /\ row.sims = old.sims /\ row.run = Result(row)
      /\ row.status # "running" /\ row.output # Legacy /\ RowOK(row)
  BY <1>6, SyncedSimRow DEF RowOK
<1> HIDE DEF row, s
<1>8. row.run # NoRun
  BY <1>7, ResultIsRun
<1> QED BY <1>1, <1>2, <1>3, <1>4, <1>6, <1>7, <1>8, SimWritten

\* A request that waits for a row is at its start or at its locks.
LEMMA WaitingPc ==
  ASSUME NEW q \in Requests, Blocker(q) \in Requests
  PROVE  tx[q].pc \in {"start", "locking"}
<1>1. NoOne \notin Requests
  BY ReportsAssumption DEF ReportsAssumption
<1> QED BY <1>1 DEF Blocker

\* A circle of waits is broken: its victim is rolled back.
LEMMA VictimKeeps == ASSUME IInv, NEW q \in Requests, Victim(q) PROVE IInv'
<1>1. Rollback(q, "error")
  BY DEF Victim
<1>2. Blocker(q) \in Requests
  BY DEF Victim, Circles
<1>3. tx[q].late = 0
  BY <1>2, WaitingPc DEF IInv, SessionOK
<1> QED BY <1>1, <1>3, RollbackKeeps

\* The report, or a simulation it needs, is missing.
LEMMA OpenMissingKeeps == ASSUME IInv, NEW q \in Requests, OpenMissing(q) PROVE IInv'
BY RollbackKeeps, Beginning DEF OpenMissing

\* Every step keeps the invariant.
LEMMA NextKeeps == ASSUME IInv, [Next \/ Rest]_vars PROVE IInv'
<1>1. ASSUME NEW q \in Requests, Open(q) PROVE IInv'
  BY <1>1, OpenKeeps
<1>2. ASSUME NEW q \in Requests, OpenMissing(q) PROVE IInv'
  BY <1>2, OpenMissingKeeps
<1>3. ASSUME NEW q \in Requests, PatchCurrent(q) PROVE IInv'
  BY <1>3, PatchCurrentKeeps
<1>4. ASSUME NEW q \in Requests, PatchOutdated(q) PROVE IInv'
  BY <1>4, PatchOutdatedKeeps
<1>5. ASSUME NEW q \in Requests, Insert(q) PROVE IInv'
  BY <1>5, InsertKeeps
<1>6. ASSUME NEW q \in Requests, Lock(q) PROVE IInv'
  BY <1>6, LockKeeps
<1>7. ASSUME NEW q \in Requests, Finish(q) \/ FinishRedirected(q) PROVE IInv'
  BY <1>7, FinishKeeps DEF Finishes
<1>8. ASSUME NEW q \in Requests, PatchSimulation(q) PROVE IInv'
  BY <1>8, PatchSimulationKeeps
<1>9. ASSUME NEW q \in Requests, Scan(q) PROVE IInv'
  BY <1>9, ScanKeeps
<1>10. ASSUME NEW q \in Requests, PostSimulation(q) PROVE IInv'
  BY <1>10, PostSimulationKeeps
<1>11. ASSUME NEW q \in Requests, Victim(q) PROVE IInv'
  BY <1>11, VictimKeeps
<1>12. CASE UNCHANGED vars
  <2>1. db' = db /\ nextId' = nextId /\ lock' = lock /\ call' = call /\ tx' = tx
    BY <1>12 DEF vars
  <2>2. nextId' \in Nat /\ nextId <= nextId' /\ \A x \in Rows : x \in Overtaken => x \in Overtaken'
    BY <2>1 DEF IInv, IdsLeft, Overtaken
  <2>3. RowsOK' /\ \A r \in Requests : Meanwhile(r)
    BY <2>1, <2>2, NothingWritten
  <2>4. IdsLeft' /\ InsertedApart'
    BY <2>1 DEF IInv, IdsLeft, ToInsert, InsertedApart
  <2>5. ASSUME NEW r \in Requests PROVE SessionOK(r)'
    BY <2>3, Undisturbed
  <2> QED BY <2>1, <2>3, <2>4, <2>5 DEF IInv
<1> QED BY <1>1, <1>2, <1>3, <1>4, <1>5, <1>6, <1>7, <1>8, <1>9, <1>10, <1>11, <1>12 DEF Next, Rest

\* Every content that the database may start with satisfies it.
LEMMA InitOK == Init => IInv
<1> SUFFICES ASSUME Init PROVE IInv
  OBVIOUS
<1>1. /\ db \in Stored /\ nextId = FirstNewId /\ lock = [x \in Rows |-> NoOne] /\ call \in Calls
      /\ tx = [q \in Requests |-> NoSession]
  BY DEF Init
<1>2. /\ Storable(db) /\ FirstNewId \in Nat \ {0} /\ IsFiniteSet(Requests) /\ NoOne \notin Requests
      /\ Sims \intersect Nat = {}
  BY <1>1, ReportsAssumption DEF ReportsAssumption
<1>3. Cardinality(Requests) \in Nat
  BY <1>2, FS_CardinalityType
<1>4. RowsOK
  <2>1. /\ DOMAIN db \subseteq 1..(FirstNewId - 1) \union Sims /\ db \in [DOMAIN db -> Row]
        /\ \A x \in DOMAIN db :
              /\ db[x].run # NoRun => db[x].run = Result(db[x])
              /\ Range(db[x].sims) \subseteq DOMAIN db
              /\ db[x].kind # "none" => Kind(db[x].sims) \in {"none", db[x].kind}
              /\ IF x \in Sims THEN db[x].status # "running"
                 ELSE db[x].status = "complete" => db[x].output # NoOutput
        /\ Numbered
    BY <1>2 DEF Storable, Numbered
  <2>2. DOMAIN db \subseteq Rows
    <3> DEFINE n == Cardinality(Requests)
    <3> HIDE DEF n
    <3>1. 1..(FirstNewId - 1) \subseteq 1..(FirstNewId + n - 1)
      BY <1>2, <1>3 DEF n
    <3> QED BY <2>1, <3>1 DEF Rows, ReportIds, n
  <2>3. \A x \in DOMAIN db : Formed(db[x]) /\ Mirrors(db[x])
    BY <2>1 DEF Formed, Mirrors
  <2>4. \A x \in DOMAIN db \ Sims : x < nextId
    BY <1>1, <1>2, <2>1
  <2> QED BY <2>1, <2>2, <2>3, <2>4 DEF RowsOK
<1>5. IdsLeft
  <2>1. ToInsert = Requests
    BY <1>1 DEF ToInsert, NoSession
  <2> QED BY <1>1, <1>2, <1>3, <2>1 DEF IdsLeft
<1>6. ASSUME NEW q \in Requests PROVE SessionOK(q)
  <2>1. tx[q] = NoSession /\ NoSession.pc = "start" /\ NoSession.late = 0 /\ SessionRecord(NoSession)
    BY <1>1 DEF NoSession, SessionRecord, PCs
  <2>2. \A x \in Rows : lock[x] # q
    BY <1>1, <1>2
  <2> QED BY <2>1, <2>2 DEF SessionOK
<1>7. InsertedApart
  BY <1>1 DEF InsertedApart, NoSession
<1> QED BY <1>1, <1>4, <1>5, <1>6, <1>7 DEF IInv

\* Type correctness, and what sessions know: rows are well formed, and all but overtaken
\* ones repeated by their runs, at every commit; what a session has loaded is what the
\* database has or an earlier state of it; and its locks are those of the dual write's
\* order, or of the scan's, so far.
THEOREM SessionsAgreeWithRows == Spec => []IInv
BY InitOK, NextKeeps, PTL DEF Spec

\* RunMirrorsRecord: however updates interleave, a committed run has its record's result,
\* unless an update under an outdated id wrote over a state of it that it had not loaded.
THEOREM RunsMirrorTheirRecords == Spec => []RunMirrorsRecord
<1>1. IInv => RunMirrorsRecord
  BY DEF IInv, RowsOK, Mirrors, RunMirrorsRecord
<1> QED BY <1>1, SessionsAgreeWithRows, PTL

(***************************************************************************)
(* Finished reports.                                                       *)
(***************************************************************************)

\* What an update under an outdated id makes of a report has been judged, its run apart.
LEMMA RedirectedValue ==
  ASSUME IInv, NEW q \in Requests, tx[q].pc = "locking", tx[q].todo = <<>>,
         TargetBase(q).run = NoRun => TargetDb(q).run = NoRun,
         Redirected(q), NEW restamps \in BOOLEAN, Accepts(Again(q, restamps), call[q])
  PROVE  /\ TargetNow(q).kind = TargetOnce(q).kind /\ ~Unsound(TargetNow(q))
         /\ TargetNow(q).status = "running" /\ TargetOnce(q).status # "running" =>
               /\ call[q].status = "running"
               /\ IF WritesRun(TargetBase(q), TargetOnce(q), restamps) THEN Once(q).run.status \in Live
                  ELSE TargetOnce(q).run.status \in Live
         /\ Once(q).status = IF TargetOnce(q).status = TargetBase(q).status THEN TargetDb(q).status
                             ELSE TargetOnce(q).status
         /\ tx[q].target \notin Overtaken =>
               /\ TargetOnce(q).run = Result(TargetOnce(q)) /\ Once(q).run = Result(Once(q))
<1> DEFINE base == TargetBase(q)
           old == TargetDb(q)
           once == TargetOnce(q)
           first == Once(q)
           again == Again(q, restamps)
           now == TargetNow(q)
           c == call[q]
           x == tx[q].target
<1>1. c \in Call /\ Valid(c)
  BY CallIs DEF IInv
<1>2. once \in Row /\ once.run # NoRun /\ (x \notin Overtaken => Mirrors(once))
  BY OnceValue
<1>3. /\ Since(base, old) /\ (old.status = "complete" => old.output # NoOutput)
      /\ once.sims = base.sims /\ once.ver = base.ver
      /\ once.kind = IF Kind(base.sims) = "none" THEN base.kind ELSE Kind(base.sims)
      /\ base.output # NoOutput => once.output # NoOutput
      /\ once.status = "complete" => once.output # NoOutput \/ once.status = base.status
      /\ x \notin Overtaken => Mirrors(base) /\ Mirrors(old)
  BY TargetKnown
<1>4. /\ first = Flushed(old, base, once) /\ again = Reread(base, once, first, restamps)
      /\ now = Updated(once, c) /\ (base.run = NoRun => old.run = NoRun)
  BY DEF Once, Again, TargetNow
<1>5. Accepts(again, c)
  OBVIOUS
<1> HIDE DEF base, old, once, first, again, now, c, x
<1>6. /\ Since(old, first) /\ first.run # NoRun
      /\ first.status = IF once.status = base.status THEN old.status ELSE once.status
      /\ Mirrors(base) /\ Mirrors(old) /\ Mirrors(once) => Mirrors(first)
  BY <1>2, <1>3, <1>4, FlushReport
<1>7. first \in Row
  BY <1>6 DEF Since, Formed
<1>8. /\ again \in Row /\ again.run # NoRun /\ again.kind = once.kind
      /\ again.status = once.status /\ again.output = once.output
      /\ again.run = IF WritesRun(base, once, restamps) THEN first.run ELSE once.run
  BY <1>2, <1>4, <1>6, <1>7, RereadRow
<1> DEFINE up == Updated(again, c)
<1>9. /\ up.status = now.status /\ up.output = now.output /\ up.kind = now.kind /\ now.kind = once.kind
      /\ now.status = IF c.status = "keep" THEN once.status ELSE c.status
  BY <1>1, <1>2, <1>4, <1>8, UpdatedRow
<1>10. ~Unsound(up) /\ (c.status = "running" => RunningAllowed(again))
  BY <1>5 DEF Accepts
<1> HIDE DEF up
<1>11. ~Unsound(now)
  BY <1>9, <1>10 DEF Unsound
<1>12. ASSUME now.status = "running", once.status # "running"
       PROVE  /\ c.status = "running"
              /\ IF WritesRun(base, once, restamps) THEN first.run.status \in Live ELSE once.run.status \in Live
  BY <1>8, <1>9, <1>10, <1>12 DEF RunningAllowed
<1>13. x \notin Overtaken => once.run = Result(once) /\ first.run = Result(first)
  BY <1>2, <1>3, <1>6 DEF Mirrors
<1> QED BY <1>6, <1>9, <1>11, <1>12, <1>13 DEF base, old, once, first, now, c, x

\* FinishedReportsAreKept, of one step.
ReportKept(x) ==
    /\ db[x].status = "complete" =>
          /\ db'[x].output # NoOutput
          /\ db'[x].status = "running" => db[x].run = NoRun \/ StaleUpdate(x) \/ x \in Overtaken
    /\ ~Unsound(db[x]) /\ Unsound(db'[x]) => db[x].kind = "none" \/ StaleUpdate(x)
ReportsKept ==
    /\ \A x \in DOMAIN db \ Sims : ReportKept(x)
    /\ \A x \in (DOMAIN db') \ (DOMAIN db) : ~Unsound(db'[x])

\* A report that a step does not write.
LEMMA UnwrittenKept ==
  ASSUME IInv, NEW x \in DOMAIN db \ Sims, db'[x] = db[x]
  PROVE  ReportKept(x)
<1>1. db[x].status = "complete" => db[x].output # NoOutput
  BY DEF IInv, RowsOK
<1> QED BY <1>1 DEF ReportKept

\* The report that a COMMIT writes.
LEMMA CommittedIsKept ==
  ASSUME IInv, NEW q \in Requests, Finishes(q), tx'[q].answer = "ok", tx[q].target \in DOMAIN db
  PROVE  ReportKept(tx[q].target)
<1> DEFINE x == tx[q].target
           base == tx[q].base[x]
           old == db[x]
           new == db'[x]
           now == TargetNow(q)
           once == TargetOnce(q)
           mine == Mine(q)
           c == call[q]
<1>1. /\ tx[q].pc = "locking" /\ tx[q].todo = <<>> /\ (TargetBase(q).run = NoRun => TargetDb(q).run = NoRun)
      /\ \E restamps \in BOOLEAN : Redirected(q) => Accepts(Again(q, restamps), c)
  BY Committed
<1>2. Loaded(q) /\ TargetOK(q) /\ RowsOK /\ x \notin Sims /\ c \in Call /\ Valid(c)
  BY <1>1, CallIs DEF IInv, SessionOK, Locking
<1>3. TargetBase(q) = base /\ TargetDb(q) = old
  BY DEF TargetBase, TargetDb
<1>4. /\ x \in DOMAIN tx[q].base /\ Since(old, new) /\ new.kind = once.kind
      /\ new.status = IF now.status = base.status THEN old.status ELSE now.status
      /\ new.output = IF now.output = base.output THEN old.output ELSE now.output
  BY <1>3, CommittedReport
<1>5. /\ Since(base, old) /\ (old.status = "complete" => old.output # NoOutput)
      /\ x \notin Overtaken => Mirrors(old)
  BY <1>2, <1>4 DEF Loaded, RowsOK
<1>6. ~Own(q) => mine = base
  BY <1>2, <1>4 DEF TargetOK
<1>7. Own(q) => base = old /\ Accepts(old, c) /\ mine = Updated(old, c)
  BY <1>2 DEF TargetOK
<1>8. once.status = mine.status /\ once.output = mine.output
  BY <1>1, OnceValue
<1>9. ~Redirected(q) => now = once
  BY DEF TargetNow
<1>10. Redirected(q) =>
          /\ now.kind = once.kind /\ ~Unsound(now)
          /\ x \notin Overtaken /\ now.status = "running" /\ once.status # "running"
             /\ once.status = base.status /\ base.status = old.status => old.status \in Live
  <2> SUFFICES ASSUME Redirected(q)
               PROVE  /\ now.kind = once.kind /\ ~Unsound(now)
                      /\ x \notin Overtaken /\ now.status = "running" /\ once.status # "running"
                         /\ once.status = base.status /\ base.status = old.status => old.status \in Live
    OBVIOUS
  <2>1. PICK restamps \in BOOLEAN : Accepts(Again(q, restamps), c)
    BY <1>1
  <2> DEFINE first == Once(q)
             writes == WritesRun(base, once, restamps)
  <2>2. /\ now.kind = once.kind /\ ~Unsound(now)
        /\ now.status = "running" /\ once.status # "running" =>
              IF writes THEN first.run.status \in Live ELSE once.run.status \in Live
        /\ first.status = IF once.status = base.status THEN old.status ELSE once.status
        /\ x \notin Overtaken => once.run = Result(once) /\ first.run = Result(first)
    BY <1>1, <1>3, <2>1, RedirectedValue
  <2> HIDE DEF first, writes, now, once, base, old, x
  <2>3. ASSUME x \notin Overtaken, now.status = "running", once.status # "running",
               once.status = base.status, base.status = old.status
        PROVE  old.status \in Live
    <3>1. once.run.status = old.status /\ first.run.status = old.status
      BY <2>2, <2>3 DEF Result
    <3> QED BY <2>2, <2>3, <3>1
  <2> QED BY <2>2, <2>3
<1>11. Redirected(q) /\ Result(base) # Result(old) => StaleUpdate(x)
  BY DEF StaleUpdate
<1>12. Redirected(q) => ~Own(q)
  BY DEF Redirected, Own
<1> HIDE DEF base, old, new, now, once, mine, c, x
<1>13. old.status = "complete" => new.output # NoOutput
  BY <1>4, <1>5 DEF Since
<1>14. ASSUME old.status = "complete", new.status = "running", old.run # NoRun, x \notin Overtaken
       PROVE  Redirected(q) /\ Result(base) # Result(old)
  <2>1. now.status = "running" /\ base.status # "running"
    BY <1>4, <1>14
  <2>2. CASE Own(q)
    <3>1. old \in Row /\ old.run = Result(old)
      BY <1>5, <1>14 DEF Since, Formed, Mirrors
    <3>2. mine.status = IF c.status = "keep" THEN old.status ELSE c.status
      BY <1>2, <1>7, <2>2, <3>1, UpdatedRow
    <3>3. c.status = "running"
      BY <1>8, <1>9, <1>12, <1>14, <2>1, <2>2, <3>2
    <3>4. old.run.status \in Live
      BY <1>7, <1>14, <2>2, <3>3 DEF Accepts, RunningAllowed
    <3> QED BY <1>14, <3>1, <3>4 DEF Result, Live
  <2>3. CASE ~Own(q) /\ ~Redirected(q)
    BY <1>6, <1>8, <1>9, <2>1, <2>3
  <2>4. CASE Redirected(q) /\ Result(base) = Result(old)
    <3>1. base.status = "complete"
      BY <1>14, <2>4 DEF Result
    <3>2. once.status = base.status
      BY <1>6, <1>8, <1>12, <2>4
    <3> QED BY <1>10, <1>14, <2>1, <2>4, <3>1, <3>2 DEF Live
  <2> QED BY <2>2, <2>3, <2>4
<1>15. ASSUME ~Unsound(old), Unsound(new), old.kind # "none"
       PROVE  Redirected(q) /\ Result(base) # Result(old)
  <2>1. old.kind = "economy" /\ new.status = "complete" /\ new.output = Uncertified
    BY <1>4, <1>15 DEF Since, Unsound
  <2>2. ~(old.status = "complete" /\ old.output = Uncertified)
    BY <1>15, <2>1 DEF Unsound
  <2>3. CASE Own(q)
    <3>1. old \in Row
      BY <1>5 DEF Since, Formed
    <3>2. mine.kind = old.kind /\ ~Unsound(mine)
      BY <1>2, <1>7, <2>3, <3>1, UpdatedRow DEF Accepts
    <3>3. mine.status = "complete" /\ mine.output = Uncertified
      BY <1>4, <1>7, <1>8, <1>9, <1>12, <2>1, <2>3
    <3> QED BY <2>1, <3>2, <3>3 DEF Unsound
  <2>4. CASE ~Own(q) /\ ~Redirected(q)
    BY <1>4, <1>6, <1>8, <1>9, <2>1, <2>2, <2>4
  <2>5. CASE Redirected(q) /\ Result(base) = Result(old)
    <3>1. base.status = old.status /\ base.output = old.output
      BY <2>5 DEF Result
    <3>2. now.status = "complete" /\ now.output = Uncertified
      BY <1>4, <2>1, <3>1
    <3>3. now.kind = "economy"
      BY <1>4, <1>10, <1>15, <2>5 DEF Unsound
    <3> QED BY <1>10, <2>5, <3>2, <3>3 DEF Unsound
  <2> QED BY <2>3, <2>4, <2>5
<1>16. ReportKept(x)
  BY <1>11, <1>13, <1>14, <1>15 DEF ReportKept, old, new
<1> QED BY <1>16 DEF x

\* A report that a COMMIT stores.
LEMMA StoredIsSound ==
  ASSUME IInv, NEW q \in Requests, Finishes(q), tx'[q].answer = "ok", tx[q].target \notin DOMAIN db
  PROVE  ~Unsound(db'[tx[q].target])
<1> DEFINE new == db'[tx[q].target]
           now == TargetNow(q)
           once == TargetOnce(q)
<1>1. /\ tx[q].pc = "locking" /\ tx[q].todo = <<>> /\ (TargetBase(q).run = NoRun => TargetDb(q).run = NoRun)
      /\ \E restamps \in BOOLEAN : Redirected(q) => Accepts(Again(q, restamps), call[q])
  BY Committed
<1>2. TargetBase(q) = once /\ TargetDb(q) = once
  BY DEF TargetBase, TargetDb
<1>3. new.kind = once.kind /\ new.status = now.status /\ new.output = now.output
  <2>1. /\ new.kind = once.kind
        /\ new.status = IF now.status = once.status THEN once.status ELSE now.status
        /\ new.output = IF now.output = once.output THEN once.output ELSE now.output
    BY <1>2, CommittedReport
  <2> HIDE DEF new, now, once
  <2> QED BY <2>1
<1>4. CASE Redirected(q)
  <2>1. now.kind = once.kind /\ ~Unsound(now)
    BY <1>1, <1>4, RedirectedValue
  <2> HIDE DEF new, now, once
  <2>2. ~Unsound(new)
    BY <1>3, <2>1 DEF Unsound
  <2> QED BY <2>2 DEF new
<1>5. CASE ~Redirected(q)
  <2>1. once.status = "pending"
    BY <1>1, TargetKnown
  <2>2. now = once
    BY <1>5 DEF TargetNow
  <2> HIDE DEF new, now, once
  <2>3. ~Unsound(new)
    BY <1>3, <2>1, <2>2 DEF Unsound
  <2> QED BY <2>3 DEF new
<1> QED BY <1>4, <1>5

\* The COMMIT of a report.
LEMMA FinishKeepsReports == ASSUME IInv, NEW q \in Requests, Finishes(q) PROVE ReportsKept
<1>0. tx[q].late = 0
  <2>1. tx[q].pc = "locking"
    BY DEF Finishes, Finish, FinishRedirected
  <2> QED BY <2>1 DEF IInv, SessionOK
<1>1. CASE \E answer : Rollback(q, answer)
  BY <1>1, UnwrittenKept DEF Rollback, ReportsKept
<1>2. CASE \E late : Leave(q, "ok", late)
  <2>1. tx'[q].answer = "ok"
    BY <1>0, <1>2, Ending
  <2>2. /\ DOMAIN db' = DOMAIN db \union {tx[q].target}
        /\ \A y \in DOMAIN db \ {tx[q].target} : db'[y] = db[y] \/ y \in Sims
    BY <2>1, Committed
  <2>3. \A x \in DOMAIN db \ Sims : ReportKept(x)
    BY <2>1, <2>2, UnwrittenKept, CommittedIsKept
  <2>4. \A x \in (DOMAIN db') \ (DOMAIN db) : ~Unsound(db'[x])
    BY <2>1, <2>2, StoredIsSound
  <2> QED BY <2>3, <2>4 DEF ReportsKept
<1>3. (\E answer : Rollback(q, answer)) \/ \E late : Leave(q, "ok", late)
  <2>1. CASE Finish(q)
    BY <2>1 DEF Finish, End
  <2>2. CASE FinishRedirected(q)
    BY <2>2 DEF FinishRedirected
  <2> QED BY <2>1, <2>2 DEF Finishes
<1> QED BY <1>1, <1>2, <1>3

\* The routes of simulations.
LEMMA SimulationsKeepReports ==
  ASSUME IInv, NEW q \in Requests, PatchSimulation(q) \/ PostSimulation(q)
  PROVE  ReportsKept
<1> DEFINE s == call[q].sim
<1>1. s \in Sims
  BY CallIs DEF IInv, Call
<1>2. CASE PatchSimulation(q)
  <2>1. DOMAIN db' = DOMAIN db /\ \A y \in DOMAIN db \ {s} : db'[y] = db[y]
    BY <1>2 DEF PatchSimulation, Rollback
  <2> QED BY <1>1, <2>1, UnwrittenKept DEF ReportsKept
<1>3. CASE PostSimulation(q)
  <2> DEFINE num == Cardinality(Simulations(db)) + 1
             row == IF s \in DOMAIN db THEN db[s] ELSE NewRow(num, 0, <<>>)
  <2>1. db' = With(db, s, SyncedSim(row))
    BY <1>3 DEF PostSimulation
  <2>2. DOMAIN db' = DOMAIN db \union {s} /\ db'[s] = SyncedSim(row) /\ \A y \in DOMAIN db \ {s} : db'[y] = db[y]
    BY <2>1 DEF With
  <2>3. ASSUME s \notin DOMAIN db PROVE ~Unsound(db'[s])
    <3> DEFINE sims == <<>>
    <3>0. num \in Nat
      <4>1. IsFiniteSet(Sims) /\ Simulations(db) \subseteq Sims
        BY ReportsAssumption DEF ReportsAssumption, Simulations
      <4>2. Cardinality(Simulations(db)) \in Nat
        BY <4>1, FS_Subset, FS_CardinalityType
      <4> QED BY <4>2
    <3>1. num \in Nat /\ 0 \in Nat /\ sims \in Seq(Sims)
      BY <3>0
    <3>2. row = NewRow(num, 0, sims)
      BY <2>3
    <3> HIDE DEF row, sims, num
    <3>3. row \in Row /\ row.status = "pending" /\ row.output = NoOutput
      BY ONLY <3>1, <3>2, NewRowOK
    <3>4. NoOutput # Legacy
      BY ReportsAssumption DEF ReportsAssumption
    <3>5. Result(SyncedSim(row)) = Result(row)
      BY <3>3, <3>4, SyncedSimRow
    <3> QED BY <2>2, <3>3, <3>5 DEF Result, Unsound
  <2>4. \A x \in DOMAIN db \ Sims : ReportKept(x)
    BY <1>1, <2>2, UnwrittenKept
  <2> HIDE DEF s, row
  <2> QED BY <2>2, <2>3, <2>4 DEF ReportsKept
<1> QED BY <1>2, <1>3

\* FinishedReportsAreKept: complete reports keep an output, do not return to running and
\* do not lose their provenance, but for the updates and the records it names.
THEOREM FinishedReportsStay == Spec => FinishedReportsAreKept
<1>1. ASSUME IInv, [Next \/ Rest]_vars PROVE [ReportsKept]_vars
  <2>1. ASSUME db' = db PROVE ReportsKept
    BY <1>1, <2>1, UnwrittenKept DEF ReportsKept
  <2>2. ASSUME NEW q \in Requests,
               Open(q) \/ OpenMissing(q) \/ PatchCurrent(q) \/ PatchOutdated(q) \/ Insert(q) \/ Lock(q)
               \/ Scan(q) \/ Victim(q)
        PROVE  db' = db
    BY <2>2, Zenon DEF Open, OpenMissing, PatchCurrent, PatchOutdated, Insert, Lock, Scan, Victim, Rollback
  <2> QED BY <1>1, <2>1, <2>2, FinishKeepsReports, SimulationsKeepReports DEF Next, Rest, vars, Finishes
<1>2. IInv /\ [Next \/ Rest]_vars => [ReportsKept]_vars
  BY <1>1
<1> QED
  BY <1>2, SessionsAgreeWithRows, PTL DEF Spec, FinishedReportsAreKept, ReportsKept, ReportKept

(***************************************************************************)
(* The order of the locks.                                                 *)
(***************************************************************************)

\* What a session that works on a report locks next.
LEMMA NextToLock ==
  ASSUME IInv, NEW q \in Requests, tx[q].pc = "locking", tx[q].todo # <<>>
  PROVE  LET t == tx[q]
             h == Head(t.todo)
         IN /\ h \in Rows /\ Len(t.todo) \in Nat /\ Len(Mine(q).sims) \in Nat
            /\ \/ /\ h = t.target /\ h \notin Sims /\ h \in DOMAIN db /\ db[h].ver = call[q].ver
                  /\ Len(t.todo) = 1 + Len(Mine(q).sims)
               \/ /\ ToLockSims(q) /\ h \in Sims
                  /\ Len(t.todo) \in 1..Len(Mine(q).sims) /\ h = Mine(q).sims[Place(q) + 1]
<1> DEFINE t == tx[q]
           sims == Mine(q).sims
           h == Head(t.todo)
<1>1. Loaded(q) /\ Locking(q) /\ TargetOK(q) /\ RowsOK /\ t.target \notin Sims
  BY DEF IInv, SessionOK, Locking
<1>2. sims \in Seq(Sims) /\ Len(sims) \in Nat
  BY SimsStored
<1>3. CASE ToLockReport(q)
  <2>1. t.todo = <<t.target>> \o sims /\ t.target \in DOMAIN t.base /\ ~Own(q)
    BY <1>3 DEF ToLockReport
  <2>2. t.target \in DOMAIN db /\ Since(t.base[t.target], db[t.target]) /\ Mine(q) = t.base[t.target]
    BY <1>1, <2>1 DEF Loaded, TargetOK
  <2>3. db[t.target].ver = call[q].ver
    BY <1>1, <2>2 DEF Since, TargetOK
  <2> DEFINE x == t.target
  <2>4. t.todo = <<x>> \o sims
    BY <2>1
  <2> HIDE DEF sims, x
  <2>5. Len(<<x>> \o sims) = 1 + Len(sims) /\ Head(<<x>> \o sims) = x
    BY <1>2
  <2>6. x \in Rows
    BY <1>1, <2>2 DEF RowsOK, x
  <2>7. Len(t.todo) = 1 + Len(sims) /\ Head(t.todo) = x
    BY <2>4, <2>5
  <2>8. x = t.target /\ x \notin Sims /\ x \in DOMAIN db /\ db[x].ver = call[q].ver
    BY <1>1, <2>2, <2>3 DEF x
  <2>9. Len(t.todo) \in Nat
    BY <1>2, <2>7
  <2>10. /\ h \in Rows /\ Len(t.todo) \in Nat /\ Len(sims) \in Nat
         /\ h = t.target /\ h \notin Sims /\ h \in DOMAIN db /\ db[h].ver = call[q].ver
         /\ Len(t.todo) = 1 + Len(sims)
    BY <1>2, <2>6, <2>7, <2>8, <2>9
  <2> QED BY <2>10, Zenon DEF sims
<1>4. CASE ToLockSims(q)
  <2>1. /\ t.todo \in Seq(Sims) /\ Len(t.todo) <= Len(sims)
        /\ \A i \in 1..Len(t.todo) : t.todo[i] = sims[Place(q) + i]
    BY <1>4 DEF ToLockSims
  <2>2. Len(t.todo) \in Nat /\ Len(t.todo) # 0 /\ h = t.todo[1] /\ h \in Sims
    BY <2>1
  <2> HIDE DEF sims
  <2>3. 1 \in 1..Len(t.todo) /\ Len(t.todo) \in 1..Len(sims)
    BY <1>2, <2>1, <2>2
  <2>4. h = sims[Place(q) + 1]
    BY <2>1, <2>2, <2>3
  <2> QED BY <1>2, <1>4, <2>2, <2>3, <2>4 DEF Rows, sims
<1> QED BY <1>1, <1>3, <1>4 DEF Locking

\* The row that a request which works on a report or scans asks for next.
Want(q) == IF tx[q].pc = "locking" THEN Head(tx[q].todo) ELSE CHOOSE s \in NextToScan(q) : TRUE

\* A request that waits for another.
LEMMA Waits ==
  ASSUME IInv, NEW q \in Requests, NEW b \in Requests, Blocker(q) = b
  PROVE  /\ b # q /\ tx[q].pc \in {"start", "locking"}
         /\ tx[q].pc = "locking" => tx[q].todo # <<>> /\ lock[Want(q)] = b
         /\ tx[q].pc = "start" /\ call[q].op = "simpost" => NextToScan(q) # {} /\ lock[Want(q)] = b
         /\ \E x \in Rows : lock[x] = b
<1> DEFINE c == call[q]
           scanned == NextToScan(q)
           holder == CASE tx[q].pc = "locking" /\ tx[q].todo # <<>> -> lock[Head(tx[q].todo)]
                       [] tx[q].pc = "start" /\ c.op = "patch" /\ Known(q) -> lock[c.report]
                       [] tx[q].pc = "start" /\ c.op = "simpatch" -> lock[c.sim]
                       [] tx[q].pc = "start" /\ c.op = "simpost" /\ scanned # {} -> lock[CHOOSE s \in scanned : TRUE]
                       [] OTHER -> NoOne
<1>1. NoOne \notin Requests
  BY ReportsAssumption DEF ReportsAssumption
<1>2. b = holder /\ b # q
  BY <1>1 DEF Blocker
<1>3. c \in Call /\ DOMAIN db \subseteq Rows
  BY CallIs DEF IInv, RowsOK
<1>4. CASE tx[q].pc = "locking" /\ tx[q].todo # <<>>
  <2>1. b = lock[Head(tx[q].todo)]
    BY <1>2, <1>4
  <2>2. Head(tx[q].todo) \in Rows
    BY <1>4, NextToLock
  <2> QED BY <1>2, <1>4, <2>1, <2>2 DEF Want
<1>5. CASE tx[q].pc = "start" /\ c.op = "patch" /\ Known(q)
  <2>1. b = lock[c.report] /\ c.report \in DOMAIN db
    BY <1>2, <1>5 DEF Known
  <2> QED BY <1>2, <1>3, <1>5, <2>1
<1>6. CASE tx[q].pc = "start" /\ c.op = "simpatch"
  <2>1. b = lock[c.sim] /\ c.sim \in Rows
    BY <1>2, <1>3, <1>6 DEF Call, Rows
  <2> QED BY <1>2, <1>6, <2>1
<1>7. CASE tx[q].pc = "start" /\ c.op = "simpost" /\ scanned # {}
  <2>1. b = lock[CHOOSE s \in scanned : TRUE]
    BY <1>2, <1>7
  <2>2. (CHOOSE s \in scanned : TRUE) \in Rows
    BY <1>7 DEF NextToScan, ToScan, Simulations, Rows
  <2>3. Want(q) = CHOOSE s \in scanned : TRUE
    BY <1>7 DEF Want
  <2> QED BY <1>2, <1>7, <2>1, <2>2, <2>3
<1>8. CASE /\ ~(tx[q].pc = "locking" /\ tx[q].todo # <<>>)
           /\ ~(tx[q].pc = "start" /\ c.op = "patch" /\ Known(q))
           /\ ~(tx[q].pc = "start" /\ c.op = "simpatch")
           /\ ~(tx[q].pc = "start" /\ c.op = "simpost" /\ scanned # {})
  BY <1>1, <1>2, <1>8
<1> QED BY <1>4, <1>5, <1>6, <1>7, <1>8

\* Of two requests that work on reports of the same simulations, of one build, the one
\* that waits for the other has more to lock.
LEMMA WaitsForAhead ==
  ASSUME IInv, NEW q \in Requests, NEW b \in Requests, Blocker(q) = b,
         tx[q].pc = "locking", tx[b].pc = "locking",
         call[q].ver = call[b].ver, Mine(q).sims = Mine(b).sims
  PROVE  Len(tx[b].todo) < Len(tx[q].todo)
<1> DEFINE h == Head(tx[q].todo)
           sims == Mine(q).sims
           n == Len(sims)
           mine == Len(tx[q].todo)
           other == Len(tx[b].todo)
<1>1. b # q /\ tx[q].todo # <<>> /\ lock[h] = b
  BY Waits DEF Want
<1>2. /\ h \in Rows /\ mine \in Nat /\ n \in Nat
      /\ \/ /\ h = tx[q].target /\ h \notin Sims /\ h \in DOMAIN db /\ db[h].ver = call[q].ver
            /\ mine = 1 + n
         \/ /\ ToLockSims(q) /\ h \in Sims /\ mine \in 1..n /\ h = sims[Place(q) + 1]
  BY <1>1, NextToLock
<1>3. \/ IsOutdated(b, h)
      \/ /\ ToLockSims(b)
         /\ h = tx[b].target \/ (h \in Sims /\ \E i \in 1..Place(b) : Mine(b).sims[i] = h)
  BY <1>1, <1>2, LocksOf
<1>4. ~IsOutdated(b, h)
  BY <1>2, CallIs DEF IsOutdated, IInv
<1>5. tx[b].target \notin Sims
  BY TargetBelow
<1>6. other \in Nat /\ other <= n /\ Place(q) = n - mine /\ Place(b) = n - other
  <2>1. Len(tx[b].todo) \in Nat /\ Len(tx[b].todo) <= Len(Mine(b).sims)
    BY <1>3, <1>4 DEF ToLockSims
  <2> QED BY <2>1 DEF Place
<1>7. CASE h \notin Sims
  <2>1. mine = 1 + n
    BY <1>2, <1>7
  <2> HIDE DEF n, mine, other
  <2>2. other < mine
    BY <1>2, <1>6, <2>1
  <2> QED BY <2>2 DEF mine, other
<1>8. CASE h \in Sims
  <2>1. PICK i \in 1..Place(b) : sims[i] = h
    BY <1>3, <1>4, <1>5, <1>8
  <2>2. ToLockSims(q) /\ mine \in 1..n
    BY <1>2, <1>8
  <2>3. ~(i \in 1..Place(q))
    <3>1. ASSUME i \in 1..Place(q) PROVE lock[sims[i]] = q
      BY <2>2, <3>1 DEF ToLockSims
    <3> QED BY <1>1, <2>1, <3>1
  <2> HIDE DEF n, mine, other
  <2>4. other < mine
    BY <1>2, <1>6, <2>1, <2>3
  <2> QED BY <2>4 DEF mine, other
<1> QED BY <1>7, <1>8

\* Every member of a circle waits for another one and holds a row: it works on a report
\* or scans.
LEMMA InCircle ==
  ASSUME IInv, NEW S \in Circles, NEW q \in S
  PROVE  /\ q \in Requests /\ \E b \in S : Blocker(q) = b /\ lock[Want(q)] = b /\ b # q
         /\ \/ tx[q].pc = "start" /\ call[q].op = "simpost" /\ NextToScan(q) # {}
            \/ tx[q].pc = "locking" /\ call[q].op # "simpost" /\ tx[q].todo # <<>>
<1>1. S \subseteq Requests /\ {Blocker(p) : p \in S} = S
  BY DEF Circles
<1>2. PICK p \in S : Blocker(p) = q
  BY <1>1
<1>3. PICK x \in Rows : lock[x] = q
  BY <1>1, <1>2, Waits
<1>4. tx[q].pc \in {"insert", "locking"} \/ (tx[q].pc = "start" /\ call[q].op = "simpost")
  BY <1>1, <1>3, LocksOf DEF Scanned
<1>5. PICK b \in S : Blocker(q) = b
  BY <1>1
<1>6. /\ b # q /\ tx[q].pc \in {"start", "locking"}
      /\ tx[q].pc = "locking" => tx[q].todo # <<>> /\ lock[Want(q)] = b
      /\ tx[q].pc = "start" /\ call[q].op = "simpost" => NextToScan(q) # {} /\ lock[Want(q)] = b
  BY <1>1, <1>5, Waits
<1>7. tx[q].pc = "locking" => call[q].op # "simpost"
  BY <1>1 DEF IInv, SessionOK
<1> QED BY <1>1, <1>4, <1>5, <1>6, <1>7

\* Requests that work on reports of the same simulations, of one build, are in no circle.
LEMMA SameSimulations ==
  ASSUME IInv, NEW S \in Circles, \A q \in S : call[q].op # "simpost",
         \A q, r \in S : call[q].ver = call[r].ver /\ Mine(q).sims = Mine(r).sims
  PROVE  FALSE
<1>1. S # {}
  BY DEF Circles
<1>2. \A q \in S : q \in Requests /\ tx[q].pc = "locking" /\ tx[q].todo # <<>>
  BY InCircle
<1> DEFINE T == {Len(tx[q].todo) : q \in S}
<1>3. \A q \in S : Len(tx[q].todo) \in Nat
  BY <1>2, NextToLock
<1>4. T \in SUBSET Nat /\ T # {}
  BY <1>1, <1>3
<1>5. PICK n \in T : \A m \in T : n <= m
  <2> HIDE DEF T
  <2> QED BY <1>4, Least
<1>6. PICK q \in S : n = Len(tx[q].todo)
  OBVIOUS
<1>7. PICK b \in S : Blocker(q) = b
  BY InCircle
<1>8. Len(tx[b].todo) < Len(tx[q].todo)
  BY <1>2, <1>7, WaitsForAhead
<1>9. Len(tx[q].todo) <= Len(tx[b].todo)
  BY <1>5, <1>6
<1> QED BY <1>3, <1>8, <1>9

\* What a request asks for comes after what it holds, in the order of the simulations'
\* ids; a report comes before them all.
Rank(q) == IF Want(q) \in Sims THEN db[Want(q)].num ELSE 0

LEMMA Wants ==
  ASSUME IInv, NEW S \in Circles, NEW q \in S
  PROVE  /\ Want(q) \in Sims => Want(q) \in Simulations(db)
         /\ Want(q) \notin Sims => /\ tx[q].pc = "locking" /\ Want(q) = tx[q].target
                                   /\ Want(q) \in DOMAIN db /\ db[Want(q)].ver = call[q].ver
         /\ Want(q) \in Rows /\ Rank(q) \in 0..Cardinality(Simulations(db))
         /\ Want(q) \in Sims => Rank(q) # 0
<1> DEFINE N == Cardinality(Simulations(db))
           w == Want(q)
<1>1. N \in Nat
  <2>1. IsFiniteSet(Sims) /\ Simulations(db) \subseteq Sims
    BY ReportsAssumption DEF ReportsAssumption, Simulations
  <2> QED BY <2>1, FS_Subset, FS_CardinalityType
<1>2. \/ /\ w \in Simulations(db) /\ w \in Sims
      \/ /\ w \notin Sims /\ tx[q].pc = "locking" /\ w = tx[q].target /\ w \in Rows
         /\ w \in DOMAIN db /\ db[w].ver = call[q].ver
  <2>1. CASE tx[q].pc = "start" /\ call[q].op = "simpost" /\ NextToScan(q) # {}
    <3>1. w = CHOOSE s \in NextToScan(q) : TRUE
      BY <2>1 DEF Want
    <3>2. w \in NextToScan(q)
      BY <2>1, <3>1
    <3> HIDE DEF w
    <3> QED BY <3>2 DEF NextToScan, ToScan, Simulations
  <2>2. CASE tx[q].pc = "locking" /\ tx[q].todo # <<>>
    <3>1. w = Head(tx[q].todo) /\ q \in Requests
      BY <2>2, InCircle DEF Want
    <3>2. \/ /\ w = tx[q].target /\ w \notin Sims /\ w \in DOMAIN db /\ db[w].ver = call[q].ver /\ w \in Rows
          \/ /\ w \in Sims /\ Len(tx[q].todo) \in 1..Len(Mine(q).sims) /\ w = Mine(q).sims[Place(q) + 1]
             /\ Len(tx[q].todo) \in Nat /\ Len(Mine(q).sims) \in Nat
      BY <2>2, <3>1, NextToLock
    <3>3. Mine(q).sims \in Seq(Sims) /\ Range(Mine(q).sims) \subseteq DOMAIN db
      BY <2>2, <3>1, SimsStored
    <3>4. ASSUME w \in Sims PROVE w \in DOMAIN db
      <4> DEFINE n == Len(Mine(q).sims)
                 k == Len(tx[q].todo)
      <4>1. DOMAIN Mine(q).sims = 1..n /\ Place(q) = n - k
        BY <3>3 DEF Place
      <4>2. n \in Nat /\ k \in Nat /\ k \in 1..n /\ w = Mine(q).sims[Place(q) + 1]
        BY <3>2, <3>4
      <4> HIDE DEF n, k, w
      <4>3. Place(q) + 1 \in DOMAIN Mine(q).sims
        BY <4>1, <4>2
      <4> QED BY <3>3, <4>2, <4>3 DEF Range
    <3> QED BY <2>2, <3>2, <3>4 DEF Simulations
  <2> QED BY <2>1, <2>2, InCircle
<1>3. Numbered
  BY DEF IInv, RowsOK
<1> HIDE DEF w
<1>4. w \in Sims => db[w].num \in 1..N
  BY <1>2, <1>3 DEF Numbered
<1>5. Rank(q) = IF w \in Sims THEN db[w].num ELSE 0
  BY DEF Rank, w
<1>6. w \in Rows
  BY <1>2 DEF Rows
<1> HIDE DEF N
<1>7. Rank(q) \in 0..N /\ (w \in Sims => Rank(q) # 0)
  BY <1>1, <1>4, <1>5
<1> QED BY <1>2, <1>6, <1>7 DEF w, N

\* Who takes the simulations in the order of their ids waits only for those further on.
LEMMA WaitsForHigher ==
  ASSUME IInv, NEW S \in Circles, NEW q \in S, NEW b \in S, Blocker(q) = b,
         call[q].op # "simpost" /\ call[b].op # "simpost" => call[q].ver = call[b].ver,
         call[b].op # "simpost" => Ascends(b)
  PROVE  Rank(q) < Rank(b)
<1> DEFINE w == Want(q)
           v == Want(b)
<1>1. q \in Requests /\ b \in Requests /\ lock[w] = b /\ lock[v] # b
  BY InCircle
<1>2. /\ w \in Sims => w \in Simulations(db)
      /\ w \notin Sims => tx[q].pc = "locking" /\ w \in DOMAIN db /\ db[w].ver = call[q].ver
      /\ w \in Rows /\ Rank(q) \in Nat
  BY Wants
<1>3. /\ v \in Sims => v \in Simulations(db)
      /\ v \notin Sims => tx[b].pc = "locking" /\ v = tx[b].target
      /\ Rank(b) \in Nat /\ (v \in Sims => Rank(b) # 0)
  BY Wants
<1>4. Rank(q) = (IF w \in Sims THEN db[w].num ELSE 0) /\ Rank(b) = IF v \in Sims THEN db[v].num ELSE 0
  BY DEF Rank
<1>5. \A s, o \in Simulations(db) : db[s].num \in Nat /\ (db[s].num = db[o].num => s = o)
  BY DEF IInv, RowsOK, Numbered
<1>6. CASE tx[b].pc = "start" /\ call[b].op = "simpost" /\ NextToScan(b) # {}
  <2>1. Scanned(b, w)
    BY <1>1, <1>2, <1>6, LocksOf
  <2>2. v \in NextToScan(b)
    BY <1>6 DEF Want
  <2>3. v \in Simulations(db) /\ v \in Sims /\ w \in Simulations(db) /\ w \in Sims
    BY <2>1, <2>2 DEF Scanned, NextToScan, ToScan, Simulations
  <2> HIDE DEF w, v
  <2>4. ~(db[v].num < db[w].num) /\ v # w
    BY <1>1, <2>1, <2>3 DEF Scanned
  <2> QED BY <1>4, <1>5, <2>3, <2>4
<1>7. CASE tx[b].pc = "locking" /\ call[b].op # "simpost" /\ tx[b].todo # <<>>
  <2> DEFINE sims == Mine(b).sims
             i == Place(b) + 1
  <2>1. \/ IsOutdated(b, w)
        \/ /\ ToLockSims(b)
           /\ w = tx[b].target \/ (w \in Sims /\ \E j \in 1..Place(b) : sims[j] = w)
    BY <1>1, <1>2, <1>7, LocksOf
  <2>2. ~IsOutdated(b, w)
    <3>1. ASSUME IsOutdated(b, w) PROVE FALSE
      <4>1. w \notin Sims /\ db[w].ver # call[b].ver
        BY <1>1, <3>1, CallIs DEF IsOutdated, IInv
      <4>2. tx[q].pc = "locking" /\ db[w].ver = call[q].ver
        BY <1>2, <4>1
      <4>3. call[q].op # "simpost"
        BY <1>1, <4>2 DEF IInv, SessionOK
      <4> QED BY <1>7, <4>1, <4>2, <4>3
    <3> QED BY <3>1
  <2>3. /\ ToLockSims(b) /\ v \in Sims /\ v = sims[i] /\ Len(tx[b].todo) \in 1..Len(sims)
        /\ Len(sims) \in Nat /\ Len(tx[b].todo) \in Nat
    <3>1. v = Head(tx[b].todo)
      BY <1>7 DEF Want
    <3>2. ToLockSims(b) /\ Len(tx[b].todo) <= Len(sims)
      BY <2>1, <2>2 DEF ToLockSims
    <3>3. /\ Len(tx[b].todo) \in Nat /\ Len(sims) \in Nat
          /\ \/ Len(tx[b].todo) = 1 + Len(sims)
             \/ v \in Sims /\ Len(tx[b].todo) \in 1..Len(sims) /\ v = sims[i]
      BY <1>1, <1>7, <3>1, NextToLock
    <3> HIDE DEF v, sims, i
    <3> QED BY <3>2, <3>3
  <2>4. CASE w \notin Sims
    BY <1>3, <1>4, <2>3, <2>4
  <2>5. CASE w \in Sims
    <3>1. tx[b].target \notin Sims
      BY <1>1, <1>7, TargetBelow
    <3>2. PICK j \in 1..Place(b) : sims[j] = w
      BY <2>1, <2>2, <2>5, <3>1
    <3>3. sims \in Seq(Sims)
      BY <1>1, <1>7, SimsStored
    <3>4. j \in DOMAIN sims /\ i \in DOMAIN sims /\ j < i
      <4> DEFINE n == Len(sims)
                 k == Len(tx[b].todo)
      <4>1. DOMAIN sims = 1..n /\ Place(b) = n - k /\ n \in Nat /\ k \in Nat /\ k \in 1..n
        BY <2>3, <3>3 DEF Place
      <4> HIDE DEF n, k, sims
      <4> QED BY <3>2, <4>1
    <3>5. db[w].num <= db[v].num
      <4>1. \A m, k \in DOMAIN sims : m < k => db[sims[m]].num <= db[sims[k]].num
        BY <1>7 DEF Ascends, SimsOf, Mine
      <4> HIDE DEF sims, i
      <4> QED BY <2>3, <3>2, <3>4, <4>1
    <3>6. w # v
      BY <1>1
    <3> HIDE DEF w, v
    <3> QED BY <1>2, <1>3, <1>4, <1>5, <2>3, <2>5, <3>5, <3>6
  <2> QED BY <2>4, <2>5
<1> QED BY <1>6, <1>7, InCircle

\* So they are in no circle.
LEMMA AscendingLocks ==
  ASSUME IInv, NEW S \in Circles,
         \A q, r \in S : call[q].op # "simpost" /\ call[r].op # "simpost" => call[q].ver = call[r].ver,
         \A q \in S : call[q].op # "simpost" => Ascends(q)
  PROVE  FALSE
<1> DEFINE N == Cardinality(Simulations(db))
           T == {N - Rank(q) : q \in S}
<1>1. S # {}
  BY DEF Circles
<1>2. N \in Nat
  <2>1. IsFiniteSet(Sims) /\ Simulations(db) \subseteq Sims
    BY ReportsAssumption DEF ReportsAssumption, Simulations
  <2> QED BY <2>1, FS_Subset, FS_CardinalityType
<1>3. \A q \in S : Rank(q) \in 0..N
  BY Wants
<1> HIDE DEF N
<1>4. T \in SUBSET Nat /\ T # {}
  BY <1>1, <1>2, <1>3
<1>5. PICK n \in T : \A m \in T : n <= m
  <2> HIDE DEF T
  <2> QED BY <1>4, Least
<1>6. PICK q \in S : n = N - Rank(q)
  OBVIOUS
<1>7. PICK b \in S : Blocker(q) = b
  BY InCircle
<1>8. Rank(q) < Rank(b)
  BY <1>7, WaitsForHigher
<1>9. N - Rank(q) <= N - Rank(b)
  BY <1>5, <1>6
<1> QED BY <1>2, <1>3, <1>8, <1>9

\* WaitsAreOrdered: transactions of one build never wait in a circle, unless a report
\* names its simulations against the order of their ids and another transaction of the
\* circle takes them otherwise.
THEOREM LocksAreOrdered == Spec => []WaitsAreOrdered
<1>1. ASSUME IInv, NEW S \in Circles,
             \A q, r \in S : call[q].op # "simpost" /\ call[r].op # "simpost" => call[q].ver = call[r].ver
      PROVE  \E q \in S : /\ call[q].op # "simpost" /\ ~Ascends(q)
                          /\ \E r \in S : call[r].op # "simpost" => SimsOf(q) # SimsOf(r)
  <2> SUFFICES ASSUME \A q \in S : \/ call[q].op = "simpost" \/ Ascends(q)
                                   \/ \A r \in S : call[r].op # "simpost" /\ SimsOf(q) = SimsOf(r)
               PROVE  FALSE
    OBVIOUS
  <2>1. CASE \A q \in S : call[q].op # "simpost" => Ascends(q)
    BY <1>1, <2>1, AscendingLocks
  <2>2. CASE \E q \in S : call[q].op # "simpost" /\ ~Ascends(q)
    <3>1. \A r \in S : call[r].op # "simpost"
      BY <2>2
    <3>2. \A q, r \in S : Mine(q).sims = Mine(r).sims
      BY <2>2 DEF SimsOf, Mine
    <3> QED BY <1>1, <3>1, <3>2, SameSimulations
  <2> QED BY <2>1, <2>2
<1>2. IInv => WaitsAreOrdered
  BY <1>1, Zenon DEF WaitsAreOrdered
<1> QED BY <1>2, SessionsAgreeWithRows, PTL
================================================================================
