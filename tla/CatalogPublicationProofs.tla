----------------------- MODULE CatalogPublicationProofs -----------------------
(***************************************************************************)
(* Proofs, for any countries, versions and seed jobs, that pruning keeps   *)
(* the versions that are to be kept, whatever requests read meanwhile.     *)
(***************************************************************************)
EXTENDS CatalogReads, FiniteSetTheorems, TLAPS

(***************************************************************************)
(* The invariant.                                                          *)
(***************************************************************************)

\* A stored row has all the data its format gives it, or none.
Row == [stored: BOOLEAN, data: SUBSET Data, pruned: BOOLEAN, created: Nat, published: Nat]

RowOK(row, v) ==
  /\ row \in Row
  /\ ~row.stored => row = Absent
  /\ row.stored => row.data = IF row.pruned THEN {} ELSE DataOf(v)

RowsOK ==
  /\ catalog \in [Countries -> [Versions -> Row]]
  /\ \A c \in Countries : /\ \A v \in Versions : RowOK(catalog[c][v], v)
                          /\ IsFiniteSet(Stored(c))

Jobs == {"idle", "begun", "committed", "pruning"}

\* What a seed job chose to prune is checked again, so nothing is asked of it.
JobOK(job) ==
  /\ job \in [pc: Jobs, version: Nat, start: Nat, todo: {job.todo}]
  /\ job.pc # "idle" => job.version \in Versions

JobsOK ==
  /\ seed = [s \in Seeders |-> seed[s]]
  /\ \A s \in Seeders : JobOK(seed[s])
  /\ clock \in Nat /\ failed \in Nat /\ manual \in BOOLEAN /\ serving \in Versions

Busy(s) == seed[s].pc # "idle"
Begun(s) == seed[s].pc = "begun"
Past(s) == seed[s].pc \in {"committed", "pruning"}

\* Every transaction starts at a time of its own, which it records as that of its
\* version's publication.
TimesDiffer ==
  /\ \A c \in Countries, v \in Versions : catalog[c][v].published <= clock
  /\ \A s \in Seeders : seed[s].start <= clock
  /\ \A s, t \in Seeders : Busy(s) /\ Busy(t) /\ s # t => seed[s].start # seed[t].start
  /\ \A c \in Countries : \A v, w \in Stored(c) : v # w => catalog[c][v].published # catalog[c][w].published
  /\ \A s \in Seeders, c \in Countries : Busy(s) =>
        \A v \in Stored(c) : catalog[c][v].published = seed[s].start => v = seed[s].version /\ Past(s)
  /\ \A s \in Seeders, c \in Countries : Past(s) => seed[s].version \in Stored(c)

\* Of two jobs that overlap nothing is more recent than both, and the later one's
\* publication stands until the other's is recorded.
TwoJobs ==
  \A s, t \in Seeders, c \in Countries : s # t /\ Busy(s) /\ Busy(t) =>
     /\ \A v \in Stored(c) : catalog[c][v].published <= seed[s].start \/ catalog[c][v].published <= seed[t].start
     /\ Past(s) /\ Begun(t) /\ seed[t].start < seed[s].start =>
           catalog[c][seed[s].version].published = seed[s].start

\* The versions published after v.
Later(c, v) == {w \in Stored(c) : catalog[c][w].published > catalog[c][v].published}

Enough(S) == Cardinality(S) >= KeptOthers

\* A pruned version has enough more recent ones, also without one that a job which
\* began earlier is about to record an older time for.
PrunedAreOld ==
  \A c \in Countries : \A v \in Stored(c) : catalog[c][v].pruned =>
     /\ Enough(Later(c, v))
     /\ \A t \in Seeders : Begun(t) /\ catalog[c][v].published > seed[t].start =>
           Enough(Later(c, v) \ {seed[t].version})

\* Releases publish one after the other, so at most one version is more recent than the
\* serving one for each that was not promoted.
ReleasesInOrder ==
  ~manual =>
     /\ \A s \in Seeders \ {Release} : ~Busy(s)
     /\ \A c \in Countries :
           /\ Begun(Release) => \A v \in Stored(c) : catalog[c][v].published < seed[Release].start
           /\ ~Past(Release) => Cardinality(Later(c, serving)) <= failed
           /\ Past(Release) =>
                 /\ Cardinality(Later(c, serving) \ {seed[Release].version}) <= failed
                 /\ Later(c, seed[Release].version) = {}
                 /\ ~catalog[c][seed[Release].version].pruned
           /\ failed < KeptOthers => ~catalog[c][serving].pruned

ServingIsStored == \A c \in Countries : serving \in Stored(c)

PubTypes == RowsOK /\ JobsOK

PubInv ==
  /\ PubTypes
  /\ TimesDiffer
  /\ OneByHand => TwoJobs /\ PrunedAreOld
  /\ ServingIsStored
  /\ ReleasesInOrder

----------------------------------------------------------------------------
(***************************************************************************)
(* Sets of versions.                                                       *)
(***************************************************************************)

\* What is enough stays enough when versions are added (the count in
\* catalog_versions_to_prune).
LEMMA MoreIsEnough ==
  ASSUME NEW S, NEW T, IsFiniteSet(T), S \subseteq T, Enough(S)
  PROVE  Enough(T)
<1>1. /\ IsFiniteSet(S) /\ Cardinality(S) <= Cardinality(T)
  BY FS_Subset
<1>2. Cardinality(S) \in Nat /\ Cardinality(T) \in Nat
  BY <1>1, FS_CardinalityType
<1> QED BY <1>1, <1>2, CatalogAssumption DEF Enough, CatalogAssumption

\* Leaving one version out lowers the count by one at most, and by one when it is
\* counted.
LEMMA OneFewer ==
  ASSUME NEW S, NEW x, IsFiniteSet(S)
  PROVE  /\ IsFiniteSet(S \ {x})
         /\ Cardinality(S \ {x}) \in Nat /\ Cardinality(S) \in Nat
         /\ Cardinality(S) <= Cardinality(S \ {x}) + 1
         /\ Cardinality(S \ {x}) <= Cardinality(S)
         /\ x \in S => Cardinality(S) = Cardinality(S \ {x}) + 1
<1>1. IsFiniteSet(S \ {x}) /\ Cardinality(S \ {x}) = IF x \in S THEN Cardinality(S) - 1 ELSE Cardinality(S)
  BY FS_RemoveElement
<1>2. Cardinality(S \ {x}) \in Nat /\ Cardinality(S) \in Nat
  BY <1>1, FS_CardinalityType
<1> QED BY <1>1, <1>2

\* The versions stored after v are finitely many (Stored, PublishedBefore).
LEMMA LaterIsFinite ==
  ASSUME PubTypes, NEW c \in Countries, NEW v
  PROVE  IsFiniteSet(Later(c, v))
<1>1. Later(c, v) \subseteq Stored(c)
  BY DEF Later
<1>2. IsFiniteSet(Stored(c))
  BY DEF PubTypes, RowsOK
<1> QED BY <1>1, <1>2, FS_Subset

\* The times of publication of stored versions differ, so the order of
\* publication_order is that of the times.
LEMMA OrderIsByTime ==
  ASSUME PubTypes, TimesDiffer, NEW c \in Countries, NEW v \in Stored(c), NEW w \in Stored(c)
  PROVE  PublishedBefore(c, v, w) <=> w \in Later(c, v)
<1>1. /\ v \in Versions /\ w \in Versions /\ v \in Nat /\ w \in Nat
      /\ catalog[c][v].published \in Nat /\ catalog[c][w].published \in Nat
      /\ catalog[c][v].created \in Nat /\ catalog[c][w].created \in Nat
  BY CatalogAssumption DEF Stored, PubTypes, RowsOK, Row, CatalogAssumption
<1>2. v # w => catalog[c][v].published # catalog[c][w].published
  BY DEF TimesDiffer
<1> QED BY <1>1, <1>2 DEF PublishedBefore, Later

\* What catalog_versions_to_prune chooses has enough more recent versions besides the
\* installed one.
LEMMA ChosenAreOld ==
  ASSUME PubTypes, TimesDiffer, NEW c \in Countries, NEW i, NEW v \in ToPrune(c, i)
  PROVE  /\ v \in Stored(c) /\ v # i
         /\ ~catalog[c][v].pruned
         /\ Enough(Later(c, v) \ {i})
<1>1. /\ v \in Stored(c) \ {i} /\ ~catalog[c][v].pruned
      /\ Cardinality({w \in Stored(c) \ {i} : PublishedBefore(c, v, w)}) >= KeptOthers
  BY DEF ToPrune
<1>2. {w \in Stored(c) \ {i} : PublishedBefore(c, v, w)} = Later(c, v) \ {i}
  BY <1>1, OrderIsByTime DEF Later
<1> QED BY <1>1, <1>2 DEF Enough

----------------------------------------------------------------------------
(***************************************************************************)
(* What the steps do to the rows and the jobs.                             *)
(***************************************************************************)

\* The row that publishing a version leaves: whole, unpruned, at its new time
\* (publish_new_country, restore_pruned_catalog_versions, record_catalog_publication).
LEMMA PublishedRow ==
  ASSUME NEW row, NEW v \in Versions, RowOK(row, v), NEW start \in Nat
  PROVE  LET new == Published(row, v, start)
         IN RowOK(new, v) /\ new.stored /\ ~new.pruned /\ new.published = start
<1> DEFINE base == PublishNew(Restore(row), start)
<1>1. /\ base \in Row /\ base.stored /\ ~base.pruned
      /\ base.data \in {{"values"}, DataOf(v)}
  <2>1. CASE ~row.stored
    BY <2>1 DEF RowOK, Row, PublishNew, Restore, InsertParameterValues, Absent, Data
  <2>2. CASE row.stored /\ row.pruned
    BY <2>2 DEF RowOK, Row, PublishNew, Restore, InsertParameterValues, Data
  <2>3. CASE row.stored /\ ~row.pruned
    BY <2>3 DEF RowOK, Row, PublishNew, Restore
  <2> QED BY <2>1, <2>2, <2>3 DEF RowOK, Row
<1> HIDE DEF base
<1> DEFINE new == RecordPublication(WriteSearchFile(WriteParameterTree(base, v), v), start)
<1>2. /\ new \in Row /\ new.stored /\ ~new.pruned /\ new.published = start
      /\ new.data = DataOf(v)
  BY <1>1 DEF Row, RecordPublication, WriteSearchFile, WriteParameterTree, DataOf, Data
<1>3. new = Published(row, v, start)
  BY DEF Published, base
<1> HIDE DEF new
<1> QED BY <1>2, <1>3 DEF RowOK

\* Publishing writes one version's row in each country and moves the job on
\* (publish_catalog).
LEMMA PublishEffect ==
  ASSUME PubTypes, NEW s \in Seeders, PublishCatalog(s)
  PROVE  LET v == seed[s].version
         IN /\ Begun(s) /\ v \in Versions
            /\ \A c \in Countries :
                 /\ \A w \in Versions : w # v => catalog'[c][w] = catalog[c][w]
                 /\ RowOK(catalog'[c][v], v)
                 /\ catalog'[c][v].stored /\ ~catalog'[c][v].pruned
                 /\ catalog'[c][v].published = seed[s].start
                 /\ Stored(c)' = Stored(c) \cup {v}
            /\ RowsOK'
            /\ \A t \in Seeders : /\ seed'[t].version = seed[t].version /\ seed'[t].start = seed[t].start
                                  /\ t # s => seed'[t] = seed[t]
            /\ seed'[s].pc = "committed"
            /\ UNCHANGED <<clock, serving, failed, manual>>
<1> DEFINE v == seed[s].version
<1>1. /\ Begun(s) /\ v \in Versions /\ seed[s].start \in Nat
  BY DEF PublishCatalog, Begun, PubTypes, JobsOK, JobOK
<1>2. ASSUME NEW c \in Countries
      PROVE  /\ catalog'[c] = [catalog[c] EXCEPT ![v] = Published(catalog[c][v], v, seed[s].start)]
             /\ catalog[c] \in [Versions -> Row]
             /\ RowOK(catalog[c][v], v)
  BY <1>1 DEF PublishCatalog, PubTypes, RowsOK
<1>3. ASSUME NEW c \in Countries
      PROVE  /\ \A w \in Versions : w # v => catalog'[c][w] = catalog[c][w]
             /\ RowOK(catalog'[c][v], v)
             /\ catalog'[c][v].stored /\ ~catalog'[c][v].pruned
             /\ catalog'[c][v].published = seed[s].start
             /\ catalog'[c] \in [Versions -> Row]
  <2> DEFINE new == Published(catalog[c][v], v, seed[s].start)
  <2>0. RowOK(catalog[c][v], v) /\ v \in Versions /\ seed[s].start \in Nat
    BY <1>1, <1>2
  <2>1. RowOK(new, v) /\ new.stored /\ ~new.pruned /\ new.published = seed[s].start
    BY <2>0, PublishedRow, Zenon
  <2>2. new \in Row
    BY <2>1 DEF RowOK
  <2>3. catalog'[c] = [catalog[c] EXCEPT ![v] = new]
    BY <1>2, Zenon
  <2>4. catalog[c] \in [Versions -> Row] /\ v \in Versions
    BY <1>1, <1>2
  <2> HIDE DEF new, v
  <2>5. catalog'[c][v] = new /\ catalog'[c] \in [Versions -> Row]
    BY <2>2, <2>3, <2>4
  <2>6. \A w \in Versions : w # v => catalog'[c][w] = catalog[c][w]
    BY <2>3, <2>4
  <2> QED BY <2>1, <2>5, <2>6
<1>4. ASSUME NEW c \in Countries
      PROVE  Stored(c)' = Stored(c) \cup {v}
  BY <1>1, <1>3 DEF Stored
<1>5. RowsOK'
  <2>1. catalog' \in [Countries -> [Versions -> Row]]
    BY <1>3 DEF PublishCatalog
  <2>2. ASSUME NEW c \in Countries
        PROVE  IsFiniteSet(Stored(c))'
    <3>1. IsFiniteSet(Stored(c))
      BY DEF PubTypes, RowsOK
    <3>2. IsFiniteSet(Stored(c) \cup {v})
      BY <3>1, FS_AddElement
    <3> QED BY <1>4, <3>2
  <2>3. ASSUME NEW c \in Countries, NEW w \in Versions
        PROVE  RowOK(catalog'[c][w], w)
    BY <1>3 DEF PubTypes, RowsOK
  <2> QED BY <2>1, <2>2, <2>3 DEF RowsOK
<1>6. /\ \A t \in Seeders : /\ seed'[t].version = seed[t].version /\ seed'[t].start = seed[t].start
                            /\ t # s => seed'[t] = seed[t]
      /\ seed'[s].pc = "committed"
      /\ UNCHANGED <<clock, serving, failed, manual>>
  <2>1. seed = [t \in Seeders |-> seed[t]] /\ seed' = [seed EXCEPT ![s].pc = "committed"]
    BY DEF PublishCatalog, PubTypes, JobsOK
  <2>2. \A t \in Seeders : t # s => seed'[t] = seed[t]
    BY <2>1
  <2>3. seed'[s] = [seed[s] EXCEPT !.pc = "committed"]
    BY <2>1
  <2>4. JobOK(seed[s])
    BY DEF PubTypes, JobsOK
  <2>5. seed'[s].pc = "committed" /\ seed'[s].version = seed[s].version /\ seed'[s].start = seed[s].start
    BY <2>3, <2>4 DEF JobOK
  <2>6. UNCHANGED <<clock, serving, failed, manual>>
    BY DEF PublishCatalog
  <2> QED BY <2>2, <2>5, <2>6
<1> QED BY <1>1, <1>3, <1>4, <1>5, <1>6

\* A pruned row has lost its data and nothing else (prune_catalog_version).
LEMMA PrunedRow ==
  ASSUME NEW row \in Row
  PROVE  /\ Pruned(row) \in Row
         /\ Pruned(row).stored = row.stored /\ Pruned(row).published = row.published
         /\ Pruned(row).pruned /\ Pruned(row).data = {}
BY DEF Pruned, Row, Data

\* Pruning marks at most one version that is still chosen under the lock
\* (_prune_if_still_chosen).
LEMMA PruneEffect ==
  ASSUME PubTypes, NEW s \in Seeders, PruneIfStillChosen(s)
  PROVE  /\ seed[s].pc = "pruning"
         /\ \A c \in Countries, v \in Versions :
              \/ catalog'[c][v] = catalog[c][v]
              \/ v \in ToPrune(c, seed[s].version) /\ catalog'[c][v] = Pruned(catalog[c][v])
         /\ catalog' \in [Countries -> [Versions -> Row]]
<1>1. seed[s].pc = "pruning"
  BY DEF PruneIfStillChosen
<1>2. PICK c0, v0 :
        catalog' = IF v0 \in ToPrune(c0, seed[s].version)
                   THEN [catalog EXCEPT ![c0][v0] = Pruned(@)]
                   ELSE catalog
  BY DEF PruneIfStillChosen, StillChosen
<1>3. catalog \in [Countries -> [Versions -> Row]]
  BY DEF PubTypes, RowsOK
<1>4. \A c \in Countries, v \in Versions : Pruned(catalog[c][v]) \in Row
  BY <1>3, PrunedRow
<1>5. CASE catalog' = [catalog EXCEPT ![c0][v0] = Pruned(@)] /\ v0 \in ToPrune(c0, seed[s].version)
  <2>1. ASSUME NEW c \in Countries, NEW v \in Versions
        PROVE  catalog'[c][v] = IF c = c0 /\ v = v0 THEN Pruned(catalog[c][v]) ELSE catalog[c][v]
    BY <1>3, <1>5
  <2>2. catalog' \in [Countries -> [Versions -> Row]]
    BY <1>3, <1>4, <1>5
  <2> QED BY <1>1, <1>5, <2>1, <2>2
<1> QED BY <1>1, <1>2, <1>3, <1>5

\* So the stored versions and their times stay, and what is pruned is old.
LEMMA PruneKeepsOrder ==
  ASSUME PubTypes, TimesDiffer, NEW s \in Seeders, PruneIfStillChosen(s)
  PROVE  /\ RowsOK'
         /\ \A c \in Countries : Stored(c)' = Stored(c)
         /\ \A c \in Countries, v \in Versions :
              /\ catalog'[c][v].published = catalog[c][v].published
              /\ catalog'[c][v].pruned # catalog[c][v].pruned
                   => v \in Stored(c) /\ v # seed[s].version /\ Enough(Later(c, v) \ {seed[s].version})
<1>1. ASSUME NEW c \in Countries, NEW v \in Versions
      PROVE  /\ catalog'[c][v].stored = catalog[c][v].stored
             /\ catalog'[c][v].published = catalog[c][v].published
             /\ catalog'[c][v].pruned # catalog[c][v].pruned
                   => v \in Stored(c) /\ v # seed[s].version /\ Enough(Later(c, v) \ {seed[s].version})
             /\ RowOK(catalog'[c][v], v)
  <2>0. RowOK(catalog[c][v], v)
    BY DEF PubTypes, RowsOK
  <2>1. CASE catalog'[c][v] = catalog[c][v]
    BY <2>0, <2>1
  <2>2. CASE v \in ToPrune(c, seed[s].version) /\ catalog'[c][v] = Pruned(catalog[c][v])
    <3>1. v \in Stored(c) /\ v # seed[s].version /\ Enough(Later(c, v) \ {seed[s].version})
      BY <2>2, ChosenAreOld
    <3>2. catalog[c][v].stored
      BY <3>1 DEF Stored
    <3>3. /\ Pruned(catalog[c][v]).stored = catalog[c][v].stored
          /\ Pruned(catalog[c][v]).published = catalog[c][v].published
          /\ RowOK(Pruned(catalog[c][v]), v)
      BY <2>0, <3>2, PrunedRow DEF RowOK
    <3> QED BY <2>2, <3>1, <3>3
  <2> QED BY <2>1, <2>2, PruneEffect
<1>2. ASSUME NEW c \in Countries
      PROVE  Stored(c)' = Stored(c)
  BY <1>1 DEF Stored
<1>3. RowsOK'
  BY <1>1, <1>2, PruneEffect DEF RowsOK, PubTypes
<1> QED BY <1>1, <1>2, <1>3

\* A seed job changes; the others do not (seed-v2-database.yml).
LEMMA JobChanges ==
  ASSUME PubTypes, NEW s \in Seeders, NEW job, JobOK(job),
         seed' = [t \in Seeders |-> seed'[t]],
         \A t \in Seeders : t # s => seed'[t] = seed[t],
         seed'[s] = job
  PROVE  \A t \in Seeders : JobOK(seed'[t])
BY DEF PubTypes, JobsOK

\* What a job's later steps leave as it is.
SameJobs ==
  \A t \in Seeders :
    /\ seed'[t].version = seed[t].version /\ seed'[t].start = seed[t].start
    /\ Begun(t)' = Begun(t) /\ Past(t)' = Past(t) /\ Busy(t)' = Busy(t)

\* A job that chooses, prunes or fails to prune goes on; only versions that are old
\* enough become pruned (_prune_older_versions).
LEMMA PruningEffect ==
  ASSUME PubTypes, TimesDiffer, NEW s \in Seeders,
         ChooseOlderVersions(s) \/ PruneIfStillChosen(s) \/ PruneFails(s)
  PROVE  /\ PubTypes' /\ SameJobs /\ Past(s)
         /\ UNCHANGED <<clock, serving, failed, manual>>
         /\ \A c \in Countries : Stored(c)' = Stored(c)
         /\ \A c \in Countries, v \in Versions :
              /\ catalog'[c][v].published = catalog[c][v].published
              /\ catalog'[c][v].pruned # catalog[c][v].pruned
                   => v \in Stored(c) /\ v # seed[s].version /\ Enough(Later(c, v) \ {seed[s].version})
<1>1. UNCHANGED <<clock, serving, failed, manual>>
  BY DEF ChooseOlderVersions, PruneIfStillChosen, PruneFails
<1>2. PICK job : /\ JobOK(job) /\ job.pc \in {"committed", "pruning"}
                 /\ job.version = seed[s].version /\ job.start = seed[s].start
                 /\ seed' = [t \in Seeders |-> IF t = s THEN job ELSE seed[t]]
  <2>0. JobOK(seed[s]) /\ seed = [t \in Seeders |-> seed[t]]
    BY DEF PubTypes, JobsOK
  <2>1. CASE ChooseOlderVersions(s)
    <3>1. PICK todo : seed' = [seed EXCEPT ![s].pc = "pruning", ![s].todo = todo]
      BY <2>1 DEF ChooseOlderVersions
    <3> DEFINE job == [seed[s] EXCEPT !.pc = "pruning", !.todo = todo]
    <3>2. /\ JobOK(job) /\ job.pc \in {"committed", "pruning"}
          /\ job.version = seed[s].version /\ job.start = seed[s].start
      BY <2>0, <2>1 DEF JobOK, Jobs, ChooseOlderVersions
    <3>3. seed' = [t \in Seeders |-> IF t = s THEN job ELSE seed[t]]
      BY <2>0, <3>1
    <3> QED BY <3>2, <3>3
  <2>2. CASE PruneIfStillChosen(s) \/ PruneFails(s)
    <3> DEFINE job == [seed[s] EXCEPT !.todo = Tail(@)]
    <3>1. seed[s].pc = "pruning" /\ seed' = [seed EXCEPT ![s].todo = Tail(@)]
      BY <2>2 DEF PruneIfStillChosen, PruneFails
    <3>2. /\ JobOK(job) /\ job.pc \in {"committed", "pruning"}
          /\ job.version = seed[s].version /\ job.start = seed[s].start
      BY <2>0, <3>1 DEF JobOK, Jobs
    <3>3. seed' = [t \in Seeders |-> IF t = s THEN job ELSE seed[t]]
      BY <2>0, <3>1
    <3> QED BY <3>2, <3>3
  <2> QED BY <2>1, <2>2
<1>3. /\ seed' = [t \in Seeders |-> seed'[t]] /\ seed'[s] = job
      /\ \A t \in Seeders : t # s => seed'[t] = seed[t]
  BY <1>2
<1>4. \A t \in Seeders : JobOK(seed'[t])
  BY <1>2, <1>3, JobChanges
<1>5. JobsOK'
  BY <1>1, <1>3, <1>4 DEF JobsOK, PubTypes
<1>6. Past(s)
  BY DEF Past, ChooseOlderVersions, PruneIfStillChosen, PruneFails
<1>7. SameJobs
  <2> SUFFICES ASSUME NEW t \in Seeders
               PROVE  /\ seed'[t].version = seed[t].version /\ seed'[t].start = seed[t].start
                      /\ Begun(t)' = Begun(t) /\ Past(t)' = Past(t) /\ Busy(t)' = Busy(t)
    BY DEF SameJobs
  <2>1. CASE t = s
    BY <1>2, <1>3, <1>6, <2>1 DEF Begun, Past, Busy
  <2>2. CASE t # s
    BY <1>3, <2>2 DEF Begun, Past, Busy
  <2> QED BY <2>1, <2>2
<1>8. /\ RowsOK'
      /\ \A c \in Countries : Stored(c)' = Stored(c)
      /\ \A c \in Countries, v \in Versions :
           /\ catalog'[c][v].published = catalog[c][v].published
           /\ catalog'[c][v].pruned # catalog[c][v].pruned
                => v \in Stored(c) /\ v # seed[s].version /\ Enough(Later(c, v) \ {seed[s].version})
  <2>1. CASE PruneIfStillChosen(s)
    BY <2>1, PruneKeepsOrder
  <2>2. CASE ChooseOlderVersions(s) \/ PruneFails(s)
    <3>1. catalog' = catalog
      BY <2>2 DEF ChooseOlderVersions, PruneFails
    <3>2. \A c \in Countries : Stored(c)' = Stored(c)
      BY <3>1 DEF Stored
    <3>3. RowsOK'
      BY <3>1, <3>2 DEF PubTypes, RowsOK
    <3> QED BY <3>1, <3>2, <3>3
  <2> QED BY <2>1, <2>2
<1> QED BY <1>1, <1>5, <1>6, <1>7, <1>8 DEF PubTypes

\* A job ends: it fails, its release is promoted or put back, or its run is over.
LEMMA EndEffect ==
  ASSUME PubTypes, TimesDiffer, NEW s \in Seeders,
         \/ SeedFails(s) \/ ManualEnds(s)
         \/ s = Release /\ (Promote \/ PromotionFails)
  PROVE  /\ UNCHANGED <<catalog, clock, manual>> /\ Busy(s)
         /\ seed' = [t \in Seeders |-> seed'[t]]
         /\ \A t \in Seeders : JobOK(seed'[t])
         /\ \A t \in Seeders : t # s => seed'[t] = seed[t]
         /\ ~Busy(s)' /\ ~Begun(s)' /\ ~Past(s)' /\ seed'[s].start = 0
<1>1. UNCHANGED <<catalog, clock, manual>> /\ Busy(s)
  BY DEF SeedFails, ManualEnds, Promote, PromotionFails, Busy
<1>2. seed = [t \in Seeders |-> seed[t]] /\ seed' = [seed EXCEPT ![s] = NoJob]
  BY DEF PubTypes, JobsOK, SeedFails, ManualEnds, Promote, PromotionFails
<1>3. /\ seed' = [t \in Seeders |-> seed'[t]]
      /\ \A t \in Seeders : t # s => seed'[t] = seed[t]
      /\ seed'[s] = NoJob
  BY <1>2
<1>4. JobOK(NoJob)
  BY DEF JobOK, NoJob, Jobs
<1>5. \A t \in Seeders : JobOK(seed'[t])
  BY <1>3, <1>4, JobChanges
<1>6. ~Busy(s)' /\ ~Begun(s)' /\ ~Past(s)' /\ seed'[s].start = 0
  BY <1>3 DEF NoJob, Busy, Begun, Past
<1> QED BY <1>1, <1>3, <1>5, <1>6

\* A job begins with a later time than any before (record_catalog_publication records
\* its transaction's start).
LEMMA BeginEffect ==
  ASSUME PubTypes, TimesDiffer, NEW s \in Seeders, NEW v \in Versions, Begin(s, v)
  PROVE  /\ PubTypes'
         /\ UNCHANGED <<catalog, serving, failed>>
         /\ clock' = clock + 1 /\ manual' = (manual \/ s # Release)
         /\ ~Busy(s) /\ Begun(s)' /\ seed'[s].version = v /\ seed'[s].start = clock + 1
         /\ ~Past(s)' /\ Busy(s)'
         /\ \A t \in Seeders : t # s => seed'[t] = seed[t]
<1>1. /\ UNCHANGED <<catalog, serving, failed>>
      /\ clock' = clock + 1 /\ manual' = (manual \/ s # Release) /\ ~Busy(s)
  BY DEF Begin, Busy
<1> DEFINE job == [NoJob EXCEPT !.pc = "begun", !.version = v, !.start = clock + 1]
<1>2. seed = [t \in Seeders |-> seed[t]] /\ seed' = [seed EXCEPT ![s] = job]
  BY DEF PubTypes, JobsOK, Begin
<1>3. /\ seed' = [t \in Seeders |-> seed'[t]]
      /\ \A t \in Seeders : t # s => seed'[t] = seed[t]
      /\ seed'[s] = job
  BY <1>2
<1>4. JobOK(job) /\ job.pc = "begun" /\ job.version = v /\ job.start = clock + 1
  <2>1. v \in Nat /\ clock + 1 \in Nat
    BY CatalogAssumption DEF PubTypes, JobsOK, CatalogAssumption
  <2>2. JobOK(NoJob)
    BY DEF JobOK, NoJob, Jobs
  <2> QED BY <2>1, <2>2 DEF JobOK, Jobs
<1>5. \A t \in Seeders : JobOK(seed'[t])
  BY <1>3, <1>4, JobChanges
<1>6. JobsOK'
  BY <1>1, <1>3, <1>5 DEF JobsOK, PubTypes
<1>7. RowsOK'
  <2>1. \A c \in Countries : Stored(c)' = Stored(c)
    BY <1>1 DEF Stored
  <2> QED BY <1>1, <2>1 DEF RowsOK, PubTypes
<1>8. Begun(s)' /\ ~Past(s)' /\ Busy(s)' /\ seed'[s].version = v /\ seed'[s].start = clock + 1
  BY <1>3, <1>4 DEF Begun, Past, Busy
<1> QED BY <1>1, <1>3, <1>6, <1>7, <1>8 DEF PubTypes

----------------------------------------------------------------------------
(***************************************************************************)
(* Every step keeps the invariant.                                         *)
(***************************************************************************)

\* The versions stored after another, when the times stay.
LEMMA LaterStays ==
  ASSUME \A c \in Countries : Stored(c)' = Stored(c),
         \A c \in Countries, v \in Versions : catalog'[c][v].published = catalog[c][v].published
  PROVE  \A c \in Countries, v \in Versions : Later(c, v)' = Later(c, v)
BY DEF Later, Stored

\* With one job dispatched by hand, of two jobs one is any given job.
LEMMA OnlyTwo ==
  ASSUME OneByHand
  PROVE  \A s, t, u \in Seeders : s # t => u \in {s, t}
BY DEF OneByHand

\* What the invariant says of the jobs' times is in the naturals.
LEMMA TimesAreNaturals ==
  ASSUME PubTypes
  PROVE  /\ clock \in Nat
         /\ \A s \in Seeders : seed[s].start \in Nat
         /\ \A c \in Countries, v \in Versions : catalog[c][v].published \in Nat
BY DEF PubTypes, JobsOK, JobOK, RowsOK, Row

\* A job that begins has a later time than every other, so no version is more recent
\* and no order changes.
LEMMA BeginKeeps ==
  ASSUME PubInv, NEW s \in Seeders, NEW v \in Versions, Begin(s, v)
  PROVE  PubInv'
<1>1. PubTypes /\ TimesDiffer
  BY DEF PubInv
<1>2. /\ PubTypes'
      /\ UNCHANGED <<catalog, serving, failed>>
      /\ clock' = clock + 1 /\ manual' = (manual \/ s # Release)
      /\ ~Busy(s) /\ Begun(s)' /\ seed'[s].version = v /\ seed'[s].start = clock + 1
      /\ ~Past(s)' /\ Busy(s)'
      /\ \A t \in Seeders : t # s => seed'[t] = seed[t]
  BY <1>1, BeginEffect
<1>3. /\ \A c \in Countries : Stored(c)' = Stored(c)
      /\ \A c \in Countries : \A x \in Versions : Later(c, x)' = Later(c, x)
  BY <1>2 DEF Stored, Later
<1>4. /\ clock \in Nat
      /\ \A t \in Seeders : seed[t].start \in Nat /\ seed[t].start <= clock
      /\ \A c \in Countries, x \in Versions :
           catalog[c][x].published \in Nat /\ catalog[c][x].published <= clock
  BY <1>1, TimesAreNaturals DEF TimesDiffer
<1>5. \A t \in Seeders : t # s => Busy(t)' = Busy(t) /\ Begun(t)' = Begun(t) /\ Past(t)' = Past(t)
  BY <1>2 DEF Busy, Begun, Past
<1>6. \A c \in Countries : Stored(c) \subseteq Versions
  BY DEF Stored
<1>7. TimesDiffer'
  <2>1. \A c \in Countries, x \in Versions : catalog'[c][x].published <= clock'
    BY <1>2, <1>4
  <2>2. \A t \in Seeders : seed'[t].start <= clock'
    BY <1>2, <1>4
  <2>3. \A t, u \in Seeders : Busy(t)' /\ Busy(u)' /\ t # u => seed'[t].start # seed'[u].start
    <3> SUFFICES ASSUME NEW t \in Seeders, NEW u \in Seeders, Busy(t)', Busy(u)', t # u
                 PROVE  seed'[t].start # seed'[u].start
      OBVIOUS
    <3>1. CASE t = s
      BY <1>2, <1>4, <3>1
    <3>2. CASE u = s
      BY <1>2, <1>4, <3>2
    <3>3. CASE t # s /\ u # s
      BY <1>1, <1>2, <1>5, <3>3 DEF TimesDiffer
    <3> QED BY <3>1, <3>2, <3>3
  <2>4. \A c \in Countries : \A x, y \in Stored(c)' :
           x # y => catalog'[c][x].published # catalog'[c][y].published
    BY <1>1, <1>2, <1>3 DEF TimesDiffer
  <2>5. ASSUME NEW t \in Seeders, NEW c \in Countries, Busy(t)', NEW x \in Stored(c)',
               catalog'[c][x].published = seed'[t].start
        PROVE  x = seed'[t].version /\ Past(t)'
    <3>1. CASE t = s
      BY <1>2, <1>3, <1>4, <1>6, <2>5, <3>1
    <3>2. CASE t # s
      BY <1>1, <1>2, <1>3, <1>5, <2>5, <3>2 DEF TimesDiffer
    <3> QED BY <3>1, <3>2
  <2>6. \A t \in Seeders, c \in Countries : Past(t)' => seed'[t].version \in Stored(c)'
    BY <1>1, <1>2, <1>3, <1>5 DEF TimesDiffer
  <2> QED BY <2>1, <2>2, <2>3, <2>4, <2>5, <2>6 DEF TimesDiffer
<1>8. ASSUME OneByHand
      PROVE  TwoJobs' /\ PrunedAreOld'
  <2>1. TwoJobs /\ PrunedAreOld
    BY <1>8 DEF PubInv
  <2>2. ASSUME NEW a \in Seeders, NEW b \in Seeders, NEW c \in Countries, a # b, Busy(a)', Busy(b)'
        PROVE  /\ \A x \in Stored(c)' : \/ catalog'[c][x].published <= seed'[a].start
                                        \/ catalog'[c][x].published <= seed'[b].start
               /\ Past(a)' /\ Begun(b)' /\ seed'[b].start < seed'[a].start =>
                     catalog'[c][seed'[a].version].published = seed'[a].start
    <3>1. CASE a = s
      BY <1>2, <1>3, <1>4, <1>6, <3>1
    <3>2. CASE b = s
      BY <1>2, <1>3, <1>4, <1>6, <2>2, <3>2
    <3> QED BY <1>8, <2>2, <3>1, <3>2, OnlyTwo
  <2>3. ASSUME NEW c \in Countries, NEW x \in Stored(c)', catalog'[c][x].pruned
        PROVE  /\ Enough(Later(c, x)')
               /\ \A t \in Seeders : Begun(t)' /\ catalog'[c][x].published > seed'[t].start =>
                     Enough(Later(c, x)' \ {seed'[t].version})
    <3>1. x \in Stored(c) /\ x \in Versions /\ catalog[c][x].pruned /\ Later(c, x)' = Later(c, x)
      BY <1>2, <1>3, <1>6, <2>3
    <3>2. Enough(Later(c, x)')
      BY <2>1, <3>1 DEF PrunedAreOld
    <3>3. ASSUME NEW t \in Seeders, Begun(t)', catalog'[c][x].published > seed'[t].start
          PROVE  Enough(Later(c, x)' \ {seed'[t].version})
      <4>1. t # s
        BY <1>2, <1>4, <3>1, <3>3
      <4>2. Begun(t) /\ catalog[c][x].published > seed[t].start /\ seed'[t].version = seed[t].version
        BY <1>2, <1>5, <3>3, <4>1
      <4> QED BY <2>1, <3>1, <4>2 DEF PrunedAreOld
    <3> QED BY <3>2, <3>3
  <2>4. TwoJobs'
    BY <2>2 DEF TwoJobs
  <2>5. PrunedAreOld'
    BY <2>3 DEF PrunedAreOld, Enough
  <2> QED BY <2>4, <2>5
<1>9. ServingIsStored'
  BY <1>2, <1>3 DEF PubInv, ServingIsStored
<1>10. ReleasesInOrder'
  <2> SUFFICES ASSUME ~manual'
               PROVE  ReleasesInOrder'
    BY DEF ReleasesInOrder
  <2>1. s = Release /\ ~manual
    BY <1>2
  <2>2. /\ \A t \in Seeders \ {Release} : ~Busy(t)
        /\ \A c \in Countries : /\ ~Past(Release) => Cardinality(Later(c, serving)) <= failed
                                /\ failed < KeptOthers => ~catalog[c][serving].pruned
    BY <2>1 DEF PubInv, ReleasesInOrder
  <2>3. \A t \in Seeders \ {Release} : ~Busy(t)'
    BY <1>5, <2>1, <2>2
  <2>4. ~Past(Release)
    BY <1>2, <2>1 DEF Busy, Past
  <2>5. ASSUME NEW c \in Countries
        PROVE  /\ \A x \in Stored(c)' : catalog'[c][x].published < seed'[Release].start
               /\ Cardinality(Later(c, serving)') <= failed'
               /\ failed' < KeptOthers => ~catalog'[c][serving'].pruned
               /\ Later(c, serving)' = Later(c, serving)
    <3>1. serving \in Versions
      BY <1>1 DEF PubTypes, JobsOK
    <3> QED BY <1>2, <1>3, <1>4, <1>6, <2>1, <2>2, <2>4, <3>1
  <2> QED BY <1>2, <2>1, <2>3, <2>5 DEF ReleasesInOrder
<1> QED BY <1>2, <1>7, <1>8, <1>9, <1>10 DEF PubInv, OneByHand

\* What pruning marks has enough more recent versions, also without one that an
\* overlapping job is about to record an older time for: that job began first, and then
\* the pruning job's own version, which it leaves out of the count, is one more.
LEMMA PruningKeeps ==
  ASSUME PubInv, NEW s \in Seeders,
         ChooseOlderVersions(s) \/ PruneIfStillChosen(s) \/ PruneFails(s)
  PROVE  PubInv'
<1> DEFINE i == seed[s].version
<1>1. PubTypes /\ TimesDiffer
  BY DEF PubInv
<1>2. /\ PubTypes' /\ SameJobs /\ Past(s)
      /\ UNCHANGED <<clock, serving, failed, manual>>
      /\ \A c \in Countries : Stored(c)' = Stored(c)
      /\ \A c \in Countries, v \in Versions :
           /\ catalog'[c][v].published = catalog[c][v].published
           /\ catalog'[c][v].pruned # catalog[c][v].pruned
                => v \in Stored(c) /\ v # i /\ Enough(Later(c, v) \ {i})
  BY <1>1, PruningEffect
<1>3. \A c \in Countries, v \in Versions : Later(c, v)' = Later(c, v)
  BY <1>2, LaterStays
<1>4. \A t \in Seeders :
        /\ seed'[t].version = seed[t].version /\ seed'[t].start = seed[t].start
        /\ Begun(t)' = Begun(t) /\ Past(t)' = Past(t) /\ Busy(t)' = Busy(t)
  BY <1>2 DEF SameJobs
<1>5. \A c \in Countries : Stored(c) \subseteq Versions
  BY DEF Stored
<1>6. /\ \A t \in Seeders : seed[t].start \in Nat
      /\ \A c \in Countries, v \in Versions : catalog[c][v].published \in Nat
  BY <1>1, TimesAreNaturals
<1>6a. \A c \in Countries : /\ Stored(c)' = Stored(c)
                            /\ \A v \in Stored(c) : catalog'[c][v].published = catalog[c][v].published
  BY <1>2, <1>5
<1>7. TimesDiffer'
  <2>1. /\ \A c \in Countries, v \in Versions : catalog'[c][v].published <= clock'
        /\ \A t \in Seeders : seed'[t].start <= clock'
    BY <1>1, <1>2, <1>4 DEF TimesDiffer
  <2>2. \A t, u \in Seeders : Busy(t)' /\ Busy(u)' /\ t # u => seed'[t].start # seed'[u].start
    BY <1>1, <1>4 DEF TimesDiffer
  <2>3. \A c \in Countries : \A v, w \in Stored(c)' :
           v # w => catalog'[c][v].published # catalog'[c][w].published
    BY <1>1, <1>6a DEF TimesDiffer
  <2>4. \A t \in Seeders, c \in Countries : Busy(t)' =>
           \A v \in Stored(c)' : catalog'[c][v].published = seed'[t].start => v = seed'[t].version /\ Past(t)'
    BY <1>1, <1>4, <1>6a DEF TimesDiffer
  <2>5. \A t \in Seeders, c \in Countries : Past(t)' => seed'[t].version \in Stored(c)'
    BY <1>1, <1>2, <1>4 DEF TimesDiffer
  <2> QED BY <2>1, <2>2, <2>3, <2>4, <2>5 DEF TimesDiffer
<1>8. ASSUME OneByHand
      PROVE  TwoJobs' /\ PrunedAreOld'
  <2>1. TwoJobs /\ PrunedAreOld
    BY <1>8 DEF PubInv
  <2>2. ASSUME NEW a \in Seeders, NEW b \in Seeders, NEW c \in Countries, a # b, Busy(a)', Busy(b)'
        PROVE  /\ \A v \in Stored(c)' : \/ catalog'[c][v].published <= seed'[a].start
                                        \/ catalog'[c][v].published <= seed'[b].start
               /\ Past(a)' /\ Begun(b)' /\ seed'[b].start < seed'[a].start =>
                     catalog'[c][seed'[a].version].published = seed'[a].start
    <3>1. \A v \in Stored(c)' : \/ catalog'[c][v].published <= seed'[a].start
                                \/ catalog'[c][v].published <= seed'[b].start
      BY <1>4, <1>6a, <2>1, <2>2 DEF TwoJobs
    <3>2. ASSUME Past(a)', Begun(b)', seed'[b].start < seed'[a].start
          PROVE  catalog'[c][seed'[a].version].published = seed'[a].start
      <4>1. catalog[c][seed[a].version].published = seed[a].start
        BY <1>4, <2>1, <2>2, <3>2 DEF TwoJobs
      <4>2. seed[a].version \in Versions
        BY <1>1, <1>4, <1>5, <3>2 DEF TimesDiffer
      <4> QED BY <1>2, <1>4, <4>1, <4>2
    <3> QED BY <3>1, <3>2
  <2>3. ASSUME NEW c \in Countries, NEW v \in Stored(c)', catalog'[c][v].pruned
        PROVE  /\ Enough(Later(c, v)')
               /\ \A t \in Seeders : Begun(t)' /\ catalog'[c][v].published > seed'[t].start =>
                     Enough(Later(c, v)' \ {seed'[t].version})
    <3>1. v \in Stored(c) /\ v \in Versions /\ Later(c, v)' = Later(c, v)
      BY <1>2, <1>3, <1>5
    <3>2. CASE catalog[c][v].pruned
      <4>1. Enough(Later(c, v)')
        BY <2>1, <3>1, <3>2 DEF PrunedAreOld
      <4>2. \A t \in Seeders : Begun(t)' /\ catalog'[c][v].published > seed'[t].start =>
               Enough(Later(c, v)' \ {seed'[t].version})
        BY <1>2, <1>4, <2>1, <3>1, <3>2 DEF PrunedAreOld
      <4> QED BY <4>1, <4>2
    <3>3. CASE ~catalog[c][v].pruned
      <4>1. v # i /\ Enough(Later(c, v) \ {i})
        BY <1>2, <2>3, <3>1, <3>3
      <4>2. IsFiniteSet(Later(c, v))
        BY <1>1, LaterIsFinite
      <4>3. Enough(Later(c, v))
        BY <4>1, <4>2, MoreIsEnough
      <4>4. ASSUME NEW t \in Seeders, Begun(t), catalog[c][v].published > seed[t].start
            PROVE  Enough(Later(c, v) \ {seed[t].version})
        <5>1. CASE seed[t].version = i
          BY <4>1, <5>1
        <5>2. CASE seed[t].version # i
          <6>1. t # s /\ Busy(t) /\ Busy(s)
            BY <1>2, <4>4 DEF Past, Begun, Busy
          <6>2. catalog[c][v].published <= seed[s].start
            BY <1>6, <2>1, <3>1, <4>4, <6>1 DEF TwoJobs
          <6>3. seed[t].start < seed[s].start
            BY <1>6, <3>1, <4>4, <6>2
          <6>4. catalog[c][i].published = seed[s].start /\ i \in Stored(c)
            BY <1>1, <1>2, <2>1, <4>4, <6>1, <6>3 DEF TwoJobs, TimesDiffer
          <6>5. catalog[c][v].published # catalog[c][i].published
            BY <1>1, <3>1, <4>1, <6>4 DEF TimesDiffer
          <6>6. i \in Later(c, v)
            BY <1>5, <1>6, <3>1, <6>2, <6>4, <6>5 DEF Later
          <6>7. /\ Cardinality(Later(c, v)) = Cardinality(Later(c, v) \ {i}) + 1
                /\ Cardinality(Later(c, v)) \in Nat
                /\ Cardinality(Later(c, v) \ {i}) \in Nat
            BY <4>2, <6>6, OneFewer
          <6>8. /\ Cardinality(Later(c, v)) <= Cardinality(Later(c, v) \ {seed[t].version}) + 1
                /\ Cardinality(Later(c, v) \ {seed[t].version}) \in Nat
            BY <4>2, OneFewer
          <6> QED BY <4>1, <6>7, <6>8, CatalogAssumption DEF Enough, CatalogAssumption
        <5> QED BY <5>1, <5>2
      <4> QED BY <1>2, <1>4, <3>1, <4>3, <4>4
    <3> QED BY <3>2, <3>3
  <2>4. TwoJobs'
    BY <2>2 DEF TwoJobs
  <2>5. PrunedAreOld'
    BY <2>3 DEF PrunedAreOld, Enough
  <2> QED BY <2>4, <2>5
<1>9. ServingIsStored'
  BY <1>2 DEF PubInv, ServingIsStored
<1>10. ReleasesInOrder'
  <2> SUFFICES ASSUME ~manual'
               PROVE  ReleasesInOrder'
    BY DEF ReleasesInOrder
  <2>1. ~manual /\ ReleasesInOrder
    BY <1>2 DEF PubInv
  <2>2. s = Release
    BY <1>2, <2>1 DEF ReleasesInOrder, Busy, Past
  <2>3. Release \in Seeders /\ serving \in Versions /\ i \in Versions
    BY <1>1, <1>2, CatalogAssumption DEF CatalogAssumption, PubTypes, JobsOK, JobOK, Past
  <2>4. \A t \in Seeders \ {Release} : ~Busy(t)'
    BY <1>4, <2>1 DEF ReleasesInOrder
  <2>5. Past(Release)' /\ ~Begun(Release)'
    BY <1>2, <1>4, <2>2, <2>3 DEF Past, Begun
  <2>6. ASSUME NEW c \in Countries
        PROVE  /\ Cardinality((Later(c, serving) \ {seed[Release].version})') <= failed'
               /\ Later(c, seed[Release].version)' = {}
               /\ ~catalog'[c][seed'[Release].version].pruned
               /\ failed' < KeptOthers => ~catalog'[c][serving'].pruned
    <3>1. /\ Cardinality(Later(c, serving) \ {i}) <= failed
          /\ Later(c, i) = {}
          /\ ~catalog[c][i].pruned
          /\ failed < KeptOthers => ~catalog[c][serving].pruned
      BY <1>2, <2>1, <2>2 DEF ReleasesInOrder
    <3>2. Later(c, serving)' = Later(c, serving) /\ Later(c, i)' = Later(c, i) /\ i' = i /\ serving' = serving
      BY <1>2, <1>3, <1>4, <2>3
    <3>3. Later(c, serving') = Later(c, serving) /\ Later(c, i)' = {}
      BY <3>1, <3>2
    <3>4. ~catalog'[c][i].pruned
      BY <1>2, <2>3, <3>1
    <3>5. ASSUME failed < KeptOthers
          PROVE  ~catalog'[c][serving].pruned
      <4>1. IsFiniteSet(Later(c, serving))
        BY <1>1, LaterIsFinite
      <4>2. Cardinality(Later(c, serving) \ {i}) \in Nat
        BY <4>1, OneFewer
      <4>3. ~Enough(Later(c, serving) \ {i})
        BY <1>1, <3>1, <3>5, <4>2, CatalogAssumption DEF Enough, CatalogAssumption, PubTypes, JobsOK
      <4> QED BY <1>2, <2>3, <3>1, <3>5, <4>3
    <3> QED BY <1>2, <2>2, <3>1, <3>2, <3>3, <3>4, <3>5
  <2> QED BY <2>4, <2>5, <2>6 DEF ReleasesInOrder
<1> QED BY <1>2, <1>7, <1>8, <1>9, <1>10 DEF PubInv, OneByHand

\* Publishing puts one version after all those published at earlier times.  That can
\* move it before a pruned version only when the other job began later and has already
\* published, and then the pruned version's count did without it.
LEMMA PublishKeeps ==
  ASSUME PubInv, NEW s \in Seeders, PublishCatalog(s)
  PROVE  PubInv'
<1> DEFINE v == seed[s].version
           start == seed[s].start
<1>1. PubTypes /\ TimesDiffer
  BY DEF PubInv
<1>2. /\ Begun(s) /\ v \in Versions
      /\ \A c \in Countries :
           /\ \A w \in Versions : w # v => catalog'[c][w] = catalog[c][w]
           /\ catalog'[c][v].stored /\ ~catalog'[c][v].pruned
           /\ catalog'[c][v].published = start
           /\ Stored(c)' = Stored(c) \cup {v}
      /\ RowsOK'
      /\ \A t \in Seeders : /\ seed'[t].version = seed[t].version /\ seed'[t].start = seed[t].start
                            /\ t # s => seed'[t] = seed[t]
      /\ seed'[s].pc = "committed"
      /\ UNCHANGED <<clock, serving, failed, manual>>
  BY <1>1, PublishEffect
<1>3. /\ Past(s)' /\ ~Begun(s)' /\ Busy(s)' /\ Busy(s) /\ ~Past(s)
      /\ \A t \in Seeders : t # s => Busy(t)' = Busy(t) /\ Begun(t)' = Begun(t) /\ Past(t)' = Past(t)
  BY <1>2 DEF Past, Begun, Busy
<1>4. /\ clock \in Nat
      /\ \A t \in Seeders : seed[t].start \in Nat
      /\ \A c \in Countries, w \in Versions : catalog[c][w].published \in Nat
  BY <1>1, TimesAreNaturals
<1>5. \A c \in Countries : Stored(c) \subseteq Versions
  BY DEF Stored
<1>6. ASSUME NEW c \in Countries, NEW w \in Stored(c)', w # v
      PROVE  w \in Stored(c) /\ w \in Versions /\ catalog'[c][w] = catalog[c][w]
  BY <1>2, <1>5, <1>6
<1>7. \A c \in Countries : \A w \in Stored(c) : w # v => catalog[c][w].published # start
  BY <1>1, <1>3 DEF TimesDiffer
<1>8. JobsOK'
  <2>1. seed = [t \in Seeders |-> seed[t]] /\ seed' = [seed EXCEPT ![s].pc = "committed"] /\ JobOK(seed[s])
    BY <1>1 DEF PublishCatalog, PubTypes, JobsOK
  <2>2. seed'[s] = [seed[s] EXCEPT !.pc = "committed"] /\ seed' = [t \in Seeders |-> seed'[t]]
    BY <2>1
  <2>3. JobOK([seed[s] EXCEPT !.pc = "committed"])
    BY <1>2, <2>1 DEF JobOK, Jobs
  <2>4. \A t \in Seeders : JobOK(seed'[t])
    BY <1>1, <1>2, <2>2, <2>3, JobChanges
  <2> QED BY <1>1, <1>2, <2>2, <2>4 DEF JobsOK, PubTypes
<1>9. TimesDiffer'
  <2>1. \A c \in Countries, w \in Versions : catalog'[c][w].published <= clock'
    BY <1>1, <1>2 DEF TimesDiffer
  <2>2. \A t \in Seeders : seed'[t].start <= clock'
    BY <1>1, <1>2 DEF TimesDiffer
  <2>3. \A t, u \in Seeders : Busy(t)' /\ Busy(u)' /\ t # u => seed'[t].start # seed'[u].start
    BY <1>1, <1>2, <1>3 DEF TimesDiffer
  <2>4. ASSUME NEW c \in Countries, NEW x \in Stored(c)', NEW y \in Stored(c)', x # y
        PROVE  catalog'[c][x].published # catalog'[c][y].published
    <3>1. CASE x = v
      BY <1>2, <1>6, <1>7, <2>4, <3>1
    <3>2. CASE y = v
      BY <1>2, <1>6, <1>7, <2>4, <3>2
    <3>3. CASE x # v /\ y # v
      BY <1>1, <1>6, <2>4, <3>3 DEF TimesDiffer
    <3> QED BY <3>1, <3>2, <3>3
  <2>5. ASSUME NEW t \in Seeders, NEW c \in Countries, Busy(t)', NEW x \in Stored(c)',
               catalog'[c][x].published = seed'[t].start
        PROVE  x = seed'[t].version /\ Past(t)'
    <3>1. CASE t = s
      BY <1>2, <1>3, <1>6, <1>7, <2>5, <3>1
    <3>2. CASE t # s /\ x = v
      BY <1>1, <1>2, <1>3, <2>5, <3>2 DEF TimesDiffer
    <3>3. CASE t # s /\ x # v
      BY <1>1, <1>2, <1>3, <1>6, <2>5, <3>3 DEF TimesDiffer
    <3> QED BY <3>1, <3>2, <3>3
  <2>6. \A t \in Seeders, c \in Countries : Past(t)' => seed'[t].version \in Stored(c)'
    BY <1>1, <1>2, <1>3 DEF TimesDiffer
  <2> QED BY <2>1, <2>2, <2>3, <2>4, <2>5, <2>6 DEF TimesDiffer
<1>10. ASSUME NEW c \in Countries, NEW x \in Stored(c)', x # v
       PROVE  Later(c, x)' = (Later(c, x) \ {v}) \cup (IF start > catalog[c][x].published THEN {v} ELSE {})
  <2>1. catalog'[c][x] = catalog[c][x] /\ x \in Stored(c)
    BY <1>6, <1>10
  <2>2. ASSUME NEW w
        PROVE  w \in Later(c, x)' <=> w \in (Later(c, x) \ {v})
                                            \cup (IF start > catalog[c][x].published THEN {v} ELSE {})
    <3>1. CASE w = v
      BY <1>2, <2>1, <3>1 DEF Later
    <3>2. CASE w # v
      <4>1. w \in Stored(c)' <=> w \in Stored(c)
        BY <1>2, <3>2
      <4>2. w \in Stored(c) => catalog'[c][w] = catalog[c][w]
        BY <1>2, <1>5, <3>2
      <4> QED BY <2>1, <3>2, <4>1, <4>2 DEF Later
    <3> QED BY <3>1, <3>2
  <2> QED BY <2>2
<1>11. ASSUME OneByHand
       PROVE  TwoJobs' /\ PrunedAreOld'
  <2>1. TwoJobs /\ PrunedAreOld
    BY <1>11 DEF PubInv
  <2>2. ASSUME NEW a \in Seeders, NEW b \in Seeders, NEW c \in Countries, a # b, Busy(a)', Busy(b)'
        PROVE  /\ \A x \in Stored(c)' : \/ catalog'[c][x].published <= seed'[a].start
                                        \/ catalog'[c][x].published <= seed'[b].start
               /\ Past(a)' /\ Begun(b)' /\ seed'[b].start < seed'[a].start =>
                     catalog'[c][seed'[a].version].published = seed'[a].start
    <3>0. s \in {a, b} /\ Busy(a) /\ Busy(b)
      BY <1>3, <1>11, <2>2, OnlyTwo
    <3>1. ASSUME NEW x \in Stored(c)'
          PROVE  \/ catalog'[c][x].published <= seed'[a].start
                 \/ catalog'[c][x].published <= seed'[b].start
      <4>1. CASE x = v
        BY <1>2, <1>4, <3>0, <4>1
      <4>2. CASE x # v
        BY <1>2, <1>6, <2>1, <2>2, <3>0, <4>2 DEF TwoJobs
      <4> QED BY <4>1, <4>2
    <3>2. ASSUME Past(a)', Begun(b)', seed'[b].start < seed'[a].start
          PROVE  catalog'[c][seed'[a].version].published = seed'[a].start
      <4>1. a = s
        BY <1>3, <3>0, <3>2
      <4> QED BY <1>2, <4>1
    <3> QED BY <3>1, <3>2
  <2>3. ASSUME NEW c \in Countries, NEW x \in Stored(c)', catalog'[c][x].pruned
        PROVE  /\ Enough(Later(c, x)')
               /\ \A t \in Seeders : Begun(t)' /\ catalog'[c][x].published > seed'[t].start =>
                     Enough(Later(c, x)' \ {seed'[t].version})
    <3>1. x # v
      BY <1>2, <2>3
    <3>2. x \in Stored(c) /\ x \in Versions /\ catalog'[c][x] = catalog[c][x] /\ catalog[c][x].pruned
      BY <1>6, <2>3, <3>1
    <3>3. Later(c, x)' = (Later(c, x) \ {v}) \cup (IF start > catalog[c][x].published THEN {v} ELSE {})
      BY <1>10, <3>1
    <3>4. catalog[c][x].published \in Nat /\ start \in Nat /\ catalog[c][x].published # start
      BY <1>4, <1>7, <3>1, <3>2
    <3>5. IsFiniteSet(Later(c, x)')
      <4>1. IsFiniteSet(Later(c, x)) /\ IsFiniteSet(Later(c, x) \cup {v})
        BY <1>1, LaterIsFinite, FS_AddElement
      <4>2. Later(c, x)' \subseteq Later(c, x) \cup {v}
        BY <3>3
      <4> QED BY <4>1, <4>2, FS_Subset
    <3>6. Enough(Later(c, x)')
      <4>1. CASE start > catalog[c][x].published
        <5>1. Later(c, x) \subseteq Later(c, x)' /\ Enough(Later(c, x))
          BY <2>1, <3>2, <3>3, <4>1 DEF PrunedAreOld
        <5> QED BY <3>5, <5>1, MoreIsEnough
      <4>2. CASE catalog[c][x].published > start
        <5>1. Later(c, x)' = Later(c, x) \ {v}
          BY <3>3, <3>4, <4>2
        <5>2. Enough(Later(c, x) \ {v})
          BY <1>2, <2>1, <3>2, <4>2 DEF PrunedAreOld
        <5> QED BY <5>1, <5>2
      <4> QED BY <3>4, <4>1, <4>2
    <3>7. ASSUME NEW t \in Seeders, Begun(t)', catalog'[c][x].published > seed'[t].start
          PROVE  Enough(Later(c, x)' \ {seed'[t].version})
      <4>1. t # s /\ Begun(t) /\ Busy(t) /\ Busy(s) /\ catalog[c][x].published > seed[t].start
        BY <1>2, <1>3, <3>2, <3>7 DEF Begun, Busy
      <4>2. start > catalog[c][x].published
        BY <1>4, <2>1, <3>2, <3>4, <4>1 DEF TwoJobs
      <4>3. /\ Later(c, x) \ {seed[t].version} \subseteq Later(c, x)' \ {seed[t].version}
            /\ Enough(Later(c, x) \ {seed[t].version})
        BY <2>1, <3>2, <3>3, <4>1, <4>2 DEF PrunedAreOld
      <4>4. IsFiniteSet(Later(c, x)' \ {seed[t].version})
        BY <3>5, OneFewer
      <4>5. Enough(Later(c, x)' \ {seed[t].version})
        BY <4>3, <4>4, MoreIsEnough
      <4> QED BY <1>2, <4>5
    <3> QED BY <3>6, <3>7
  <2>4. TwoJobs'
    BY <2>2 DEF TwoJobs
  <2>5. PrunedAreOld'
    BY <2>3 DEF PrunedAreOld, Enough
  <2> QED BY <2>4, <2>5
<1>12. ServingIsStored'
  BY <1>2 DEF PubInv, ServingIsStored
<1>13. ReleasesInOrder'
  <2> SUFFICES ASSUME ~manual'
               PROVE  ReleasesInOrder'
    BY DEF ReleasesInOrder
  <2>1. ~manual /\ ReleasesInOrder
    BY <1>2 DEF PubInv
  <2>2. s = Release
    BY <1>3, <2>1 DEF ReleasesInOrder
  <2>3. \A t \in Seeders \ {Release} : ~Busy(t)'
    BY <1>3, <2>1, <2>2 DEF ReleasesInOrder
  <2>4. ASSUME NEW c \in Countries
        PROVE  /\ Cardinality(Later(c, serving)' \ {v}) <= failed
               /\ Later(c, v)' = {}
               /\ failed < KeptOthers => ~catalog'[c][serving].pruned
    <3>1. /\ \A w \in Stored(c) : catalog[c][w].published < start
          /\ Cardinality(Later(c, serving)) <= failed
          /\ failed < KeptOthers => ~catalog[c][serving].pruned
      BY <1>2, <1>3, <2>1, <2>2 DEF ReleasesInOrder
    <3>2. Later(c, v)' = {}
      <4> SUFFICES ASSUME NEW w \in Later(c, v)' PROVE FALSE
        OBVIOUS
      <4>1. w \in Stored(c)' /\ catalog'[c][w].published > start
        BY <1>2 DEF Later
      <4>2. w # v
        BY <1>2, <1>4, <4>1
      <4>3. w \in Stored(c) /\ w \in Versions /\ catalog'[c][w] = catalog[c][w]
        BY <1>6, <4>1, <4>2
      <4> QED BY <1>4, <3>1, <4>1, <4>3
    <3>3. Cardinality(Later(c, serving)' \ {v}) <= failed
      <4>1. CASE serving = v
        <5>1. Later(c, serving)' \ {v} = {}
          BY <1>2, <3>2, <4>1
        <5> QED BY <1>1, <5>1, FS_EmptySet DEF PubTypes, JobsOK
      <4>2. CASE serving # v
        <5>1. serving \in Stored(c) /\ serving \in Stored(c)'
          BY <1>2 DEF PubInv, ServingIsStored
        <5>2. Later(c, serving)' \ {v} = Later(c, serving) \ {v}
          BY <1>2, <1>10, <4>2, <5>1
        <5>3. IsFiniteSet(Later(c, serving))
          BY <1>1, LaterIsFinite
        <5>4. /\ Cardinality(Later(c, serving) \ {v}) <= Cardinality(Later(c, serving))
              /\ Cardinality(Later(c, serving) \ {v}) \in Nat /\ Cardinality(Later(c, serving)) \in Nat
          BY <5>3, OneFewer
        <5>5. Cardinality(Later(c, serving)) <= failed /\ failed \in Nat
          BY <1>1, <3>1 DEF PubTypes, JobsOK
        <5>6. Cardinality(Later(c, serving) \ {v}) <= failed
          BY <5>4, <5>5
        <5> QED BY <5>2, <5>6
      <4> QED BY <4>1, <4>2
    <3>4. failed < KeptOthers => ~catalog'[c][serving].pruned
      BY <1>1, <1>2, <3>1 DEF PubTypes, JobsOK
    <3> QED BY <3>2, <3>3, <3>4
  <2>5. Past(Release)' /\ ~Begun(Release)' /\ seed'[Release].version = v /\ serving' = serving /\ failed' = failed
    BY <1>2, <1>3, <2>2
  <2> QED BY <1>2, <2>3, <2>4, <2>5 DEF ReleasesInOrder
<1> QED BY <1>2, <1>8, <1>9, <1>11, <1>12, <1>13 DEF PubInv, OneByHand, PubTypes

\* A seed job's end leaves the catalog as it is.  A published release that is not
\* promoted counts as failed; one that is promoted is the most recent.
LEMMA EndKeeps ==
  ASSUME PubInv, NEW s \in Seeders,
         \/ SeedFails(s) \/ ManualEnds(s)
         \/ s = Release /\ (Promote \/ PromotionFails)
  PROVE  PubInv'
<1>1. PubTypes /\ TimesDiffer /\ ServingIsStored
  BY DEF PubInv
<1>2. /\ UNCHANGED <<catalog, clock, manual>> /\ Busy(s)
      /\ seed' = [t \in Seeders |-> seed'[t]]
      /\ \A t \in Seeders : JobOK(seed'[t])
      /\ \A t \in Seeders : t # s => seed'[t] = seed[t]
      /\ ~Busy(s)' /\ ~Begun(s)' /\ ~Past(s)' /\ seed'[s].start = 0
  BY <1>1, EndEffect
<1>3. /\ \A c \in Countries : Stored(c)' = Stored(c)
      /\ \A c \in Countries, v \in Versions : Later(c, v)' = Later(c, v)
  BY <1>2 DEF Stored, Later
<1>4. \A t \in Seeders : t # s => /\ Busy(t)' = Busy(t) /\ Begun(t)' = Begun(t) /\ Past(t)' = Past(t)
                                  /\ seed'[t] = seed[t]
  BY <1>2 DEF Busy, Begun, Past
\* What the end is to the release.
<1>5. \/ Past(s) /\ s = Release /\ serving' = seed[Release].version /\ failed' = 0
      \/ Past(s) /\ s = Release /\ serving' = serving /\ failed' = failed + 1
      \/ (s = Release => Begun(s)) /\ serving' = serving /\ failed' = failed
  <2>1. Busy(s) => Begun(s) \/ Past(s)
    BY <1>1 DEF PubTypes, JobsOK, JobOK, Jobs, Busy, Begun, Past
  <2>2. CASE SeedFails(s)
    BY <1>2, <2>1, <2>2 DEF SeedFails, Begun
  <2>3. CASE ManualEnds(s)
    BY <2>3 DEF ManualEnds
  <2>4. CASE s = Release /\ (Promote \/ PromotionFails)
    BY <2>4 DEF Promote, PromotionFails, Past
  <2> QED BY <2>2, <2>3, <2>4
<1>6. failed \in Nat /\ serving \in Versions
  BY <1>1 DEF PubTypes, JobsOK
<1>7. Past(s) => seed[s].version \in Versions
  BY <1>1 DEF PubTypes, JobsOK, JobOK, Past
<1>8. PubTypes'
  <2>1. failed' \in Nat /\ serving' \in Versions
    BY <1>5, <1>6, <1>7
  <2>2. JobsOK'
    BY <1>1, <1>2, <2>1 DEF PubTypes, JobsOK
  <2>3. RowsOK'
    BY <1>1, <1>2, <1>3 DEF PubTypes, RowsOK
  <2> QED BY <2>2, <2>3 DEF PubTypes
<1>9. TimesDiffer'
  <2>1. clock \in Nat
    BY <1>1, TimesAreNaturals
  <2>2. \A c \in Countries, v \in Versions : catalog'[c][v].published <= clock'
    BY <1>1, <1>2 DEF TimesDiffer
  <2>3. \A t \in Seeders : seed'[t].start <= clock'
    BY <1>1, <1>2, <2>1 DEF TimesDiffer
  <2>4. \A t, u \in Seeders : Busy(t)' /\ Busy(u)' /\ t # u => seed'[t].start # seed'[u].start
    BY <1>1, <1>2, <1>4 DEF TimesDiffer
  <2>5. \A c \in Countries : \A v, w \in Stored(c)' :
           v # w => catalog'[c][v].published # catalog'[c][w].published
    BY <1>1, <1>2, <1>3 DEF TimesDiffer
  <2>6. \A t \in Seeders, c \in Countries : Busy(t)' =>
           \A v \in Stored(c)' : catalog'[c][v].published = seed'[t].start => v = seed'[t].version /\ Past(t)'
    BY <1>1, <1>2, <1>3, <1>4 DEF TimesDiffer
  <2>7. \A t \in Seeders, c \in Countries : Past(t)' => seed'[t].version \in Stored(c)'
    BY <1>1, <1>2, <1>3, <1>4 DEF TimesDiffer
  <2> QED BY <2>2, <2>3, <2>4, <2>5, <2>6, <2>7 DEF TimesDiffer
<1>10. ASSUME OneByHand
       PROVE  TwoJobs' /\ PrunedAreOld'
  <2>1. TwoJobs /\ PrunedAreOld
    BY <1>10 DEF PubInv
  <2>2. TwoJobs'
    BY <1>2, <1>10, OnlyTwo DEF TwoJobs
  <2>3. ASSUME NEW c \in Countries, NEW v \in Stored(c)', catalog'[c][v].pruned
        PROVE  /\ Enough(Later(c, v)')
               /\ \A t \in Seeders : Begun(t)' /\ catalog'[c][v].published > seed'[t].start =>
                     Enough(Later(c, v)' \ {seed'[t].version})
    <3>1. v \in Stored(c) /\ catalog[c][v].pruned /\ Later(c, v)' = Later(c, v)
      BY <1>2, <1>3, <2>3 DEF Stored
    <3>2. \A t \in Seeders : Begun(t)' => t # s /\ Begun(t) /\ seed'[t] = seed[t]
      BY <1>2, <1>4
    <3> QED BY <1>2, <2>1, <3>1, <3>2 DEF PrunedAreOld
  <2>4. PrunedAreOld'
    BY <2>3 DEF PrunedAreOld, Enough
  <2> QED BY <2>2, <2>4
<1>11. ServingIsStored'
  BY <1>1, <1>3, <1>5, CatalogAssumption DEF ServingIsStored, TimesDiffer, CatalogAssumption
<1>12. ReleasesInOrder'
  <2> SUFFICES ASSUME ~manual'
               PROVE  ReleasesInOrder'
    BY DEF ReleasesInOrder
  <2>1. ~manual /\ ReleasesInOrder
    BY <1>2 DEF PubInv
  <2>2. s = Release
    BY <1>2, <2>1 DEF ReleasesInOrder
  <2>3. \A t \in Seeders \ {Release} : ~Busy(t)'
    BY <1>4, <2>1, <2>2 DEF ReleasesInOrder
  <2>4. ~Past(Release)' /\ ~Begun(Release)'
    BY <1>2, <2>2
  <2>5. ASSUME NEW c \in Countries
        PROVE  /\ Cardinality(Later(c, serving')) <= failed'
               /\ failed' < KeptOthers => ~catalog[c][serving'].pruned
    <3>1. CASE Past(s) /\ serving' = seed[Release].version /\ failed' = 0
      <4>1. Later(c, serving') = {} /\ ~catalog[c][serving'].pruned
        BY <2>1, <2>2, <3>1 DEF ReleasesInOrder
      <4> QED BY <3>1, <4>1, FS_EmptySet
    <3>2. CASE Past(s) /\ serving' = serving /\ failed' = failed + 1
      <4> DEFINE S == Later(c, serving)
                 x == seed[Release].version
      <4>1. /\ Cardinality(S \ {x}) <= failed
            /\ failed < KeptOthers => ~catalog[c][serving].pruned
        BY <2>1, <2>2, <3>2 DEF ReleasesInOrder
      <4>2. IsFiniteSet(S)
        BY <1>1, LaterIsFinite
      <4>3. /\ Cardinality(S \ {x}) \in Nat /\ Cardinality(S) \in Nat
            /\ Cardinality(S) <= Cardinality(S \ {x}) + 1
        BY <4>2, OneFewer
      <4> HIDE DEF S, x
      <4>4. Cardinality(S) <= failed + 1
        BY <1>6, <4>1, <4>3
      <4>5. failed + 1 < KeptOthers => ~catalog[c][serving].pruned
        BY <1>6, <4>1, CatalogAssumption DEF CatalogAssumption
      <4> QED BY <3>2, <4>4, <4>5 DEF S
    <3>3. CASE Begun(s) /\ serving' = serving /\ failed' = failed
      <4>1. ~Past(Release)
        BY <2>2, <3>3 DEF Past, Begun
      <4> QED BY <2>1, <3>3, <4>1 DEF ReleasesInOrder
    <3> QED BY <1>5, <2>2, <3>1, <3>2, <3>3
  <2>6. \A c \in Countries : Later(c, serving)' = Later(c, serving')
    BY <1>2 DEF Later, Stored
  <2> QED BY <1>2, <2>3, <2>4, <2>5, <2>6 DEF ReleasesInOrder
<1> QED BY <1>8, <1>9, <1>10, <1>11, <1>12 DEF PubInv, OneByHand

\* Nothing else writes what a seed job reads (the requests of CatalogReads only read).
LEMMA OthersKeep ==
  ASSUME PubInv, UNCHANGED pubVars
  PROVE  PubInv'
<1>1. UNCHANGED <<catalog, clock, seed, serving, failed, manual>>
  BY DEF pubVars
<1>2. \A c : Stored(c)' = Stored(c) /\ \A v : Later(c, v)' = Later(c, v)
  BY <1>1 DEF Stored, Later
<1>3. \A t : Busy(t)' = Busy(t) /\ Begun(t)' = Begun(t) /\ Past(t)' = Past(t)
  BY <1>1 DEF Busy, Begun, Past
<1>4. PubTypes' = PubTypes
  BY <1>1, <1>2 DEF PubTypes, RowsOK, JobsOK
<1>5. TimesDiffer' = TimesDiffer
  BY <1>1, <1>2, <1>3 DEF TimesDiffer
<1>6. TwoJobs' = TwoJobs /\ PrunedAreOld' = PrunedAreOld
  BY <1>1, <1>2, <1>3 DEF TwoJobs, PrunedAreOld, Enough
<1>7. ServingIsStored' = ServingIsStored
  BY <1>1, <1>2 DEF ServingIsStored
<1>8. ReleasesInOrder' = ReleasesInOrder
  BY <1>1, <1>2, <1>3 DEF ReleasesInOrder
<1> QED BY <1>4, <1>5, <1>6, <1>7, <1>8 DEF PubInv, OneByHand

----------------------------------------------------------------------------
(***************************************************************************)
(* The first catalog.                                                      *)
(***************************************************************************)

\* The versions from the i-th on of those published before are as many as there are
\* places: no version is published twice (catalog_versions_to_prune's input).
LEMMA PlacesAreDistinct ==
  ASSUME NEW i \in Int, i >= 1, i <= Len(FirstStored) + 1
  PROVE  LET S == {FirstStored[j] : j \in i..Len(FirstStored)}
         IN IsFiniteSet(S) /\ Cardinality(S) = Len(FirstStored) - i + 1
<1> DEFINE n == Len(FirstStored)
           P == i..n
           S == {FirstStored[j] : j \in P}
           f == [j \in P |-> FirstStored[j]]
<1>1. n \in Nat /\ DOMAIN FirstStored = 1..n /\ P \subseteq 1..n
  BY CatalogAssumption DEF CatalogAssumption
<1>2. IsFiniteSet(P) /\ Cardinality(P) = n - i + 1
  <2>1. IsFiniteSet(P) /\ Cardinality(P) = IF i > n THEN 0 ELSE n - i + 1
    <3>1. i \in Int /\ n \in Int
      BY <1>1
    <3> HIDE DEF n
    <3> QED BY <3>1, FS_Interval
  <2> QED BY <1>1, <2>1
<1>3. \A a, b \in P : FirstStored[a] = FirstStored[b] => a = b
  BY <1>1, CatalogAssumption DEF CatalogAssumption, IsInjective
<1> HIDE DEF P, n
<1>4. f \in Bijection(P, S)
  BY <1>3 DEF Bijection, Injection, Surjection, IsInjective
<1>5. ExistsBijection(P, S)
  BY <1>4 DEF ExistsBijection
<1>6. IsFiniteSet(S) /\ Cardinality(S) = Cardinality(P)
  BY <1>2, <1>5, FS_Bijection
<1> QED BY <1>2, <1>6 DEF P, n

\* The catalog at first: what releases one after the other have left.
LEMMA InitPublication ==
  ASSUME CatalogInit
  PROVE  PubInv
<1> DEFINE F == FirstStored
           n == Len(FirstStored)
<1>1. /\ n \in Nat /\ n >= 1 /\ DOMAIN F = 1..n /\ \A i \in 1..n : F[i] \in Versions
      /\ \A a, b \in 1..n : F[a] = F[b] => a = b
      /\ KeptOthers \in Nat /\ KeptOthers > 0
      /\ Range(F) = {F[i] : i \in 1..n}
  BY CatalogAssumption DEF CatalogAssumption, IsInjective, Range
<1>2. \A s \in Seeders : seed[s] = NoJob
  BY DEF CatalogInit
<1>3. \A s \in Seeders : ~Busy(s) /\ ~Begun(s) /\ ~Past(s) /\ JobOK(seed[s]) /\ seed[s].start = 0
  BY <1>2 DEF Busy, Begun, Past, NoJob, JobOK, Jobs
<1>4. /\ clock = n /\ failed = 0 /\ manual = FALSE /\ serving = F[n] /\ seed = [s \in Seeders |-> NoJob]
  BY DEF CatalogInit, Last
<1> DEFINE Place(v) == CHOOSE i \in DOMAIN F : F[i] = v
           old == {F[i] : i \in {j \in DOMAIN F : j >= n - KeptOthers}}
           First(v) == [stored |-> TRUE, data |-> IF v \in old THEN DataOf(v) ELSE {},
                        pruned |-> v \notin old, created |-> Place(v), published |-> Place(v)]
<1>5. catalog = [c \in Countries |-> [v \in Versions |-> IF v \in Range(F) THEN First(v) ELSE Absent]]
  BY DEF CatalogInit
<1> HIDE DEF F, n
<1>6. ASSUME NEW i \in 1..n
      PROVE  Place(F[i]) = i /\ (F[i] \in old <=> i >= n - KeptOthers)
  BY <1>1
<1>7. ASSUME NEW i \in 1..n
      PROVE  /\ First(F[i]).stored /\ First(F[i]).published = i
             /\ First(F[i]).pruned <=> i < n - KeptOthers
             /\ RowOK(First(F[i]), F[i])
  <2>1. i \in Nat /\ DataOf(F[i]) \in SUBSET Data /\ n - KeptOthers \in Int
    BY <1>1 DEF DataOf, Data
  <2>2. First(F[i]) = [stored |-> TRUE, data |-> IF F[i] \in old THEN DataOf(F[i]) ELSE {},
                       pruned |-> F[i] \notin old, created |-> i, published |-> i]
    BY <1>6
  <2>3. F[i] \in old <=> i >= n - KeptOthers
    BY <1>6
  <2> HIDE DEF First, old
  <2>4. CASE i >= n - KeptOthers
    <3>1. First(F[i]) = [stored |-> TRUE, data |-> DataOf(F[i]), pruned |-> FALSE, created |-> i, published |-> i]
      BY <2>2, <2>3, <2>4
    <3> QED BY <2>1, <2>4, <3>1 DEF RowOK, Row
  <2>5. CASE ~(i >= n - KeptOthers)
    <3>1. First(F[i]) = [stored |-> TRUE, data |-> {}, pruned |-> TRUE, created |-> i, published |-> i]
      BY <2>2, <2>3, <2>5
    <3> QED BY <2>1, <2>5, <3>1 DEF RowOK, Row
  <2> QED BY <2>4, <2>5
<1>8. RowOK(Absent, 0) /\ ~Absent.stored /\ Absent.published = 0 /\ \A v : RowOK(Absent, v)
  BY DEF RowOK, Row, Absent
<1> HIDE DEF First, old, Place
<1>9. ASSUME NEW c \in Countries
      PROVE  /\ catalog[c] = [v \in Versions |-> IF v \in Range(F) THEN First(v) ELSE Absent]
             /\ \A v \in Versions : RowOK(catalog[c][v], v)
             /\ Stored(c) = Range(F)
             /\ \A i \in 1..n : catalog[c][F[i]] = First(F[i])
             /\ \A v \in Versions : catalog[c][v].published \in 0..n
  <2>1. catalog[c] = [v \in Versions |-> IF v \in Range(F) THEN First(v) ELSE Absent]
    BY <1>5
  <2>2. \A i \in 1..n : catalog[c][F[i]] = First(F[i])
    BY <1>1, <2>1
  <2>3. ASSUME NEW v \in Versions
        PROVE  /\ RowOK(catalog[c][v], v) /\ catalog[c][v].published \in 0..n
               /\ catalog[c][v].stored <=> v \in Range(F)
    <3>1. CASE v \in Range(F)
      <4>1. PICK i \in 1..n : v = F[i]
        BY <1>1, <3>1
      <4>2. catalog[c][v] = First(F[i])
        BY <2>2, <4>1
      <4>3. First(F[i]).published \in 0..n /\ First(F[i]).stored /\ RowOK(First(F[i]), F[i])
        BY <1>1, <1>7
      <4> QED BY <3>1, <4>1, <4>2, <4>3
    <3>2. CASE v \notin Range(F)
      <4>1. catalog[c][v] = Absent
        BY <2>1, <3>2
      <4> QED BY <1>1, <1>8, <3>2, <4>1
    <3> QED BY <3>1, <3>2
  <2>4. Range(F) \subseteq Versions
    BY <1>1
  <2>5. Stored(c) = Range(F)
    BY <2>3, <2>4 DEF Stored
  <2> QED BY <2>1, <2>2, <2>3, <2>5
<1>9a. \A c \in Countries : \A v \in Stored(c) : \E i \in 1..n : v = F[i]
  <2> SUFFICES ASSUME NEW c \in Countries, NEW v \in Stored(c) PROVE \E i \in 1..n : v = F[i]
    OBVIOUS
  <2>1. v \in Range(F)
    BY <1>9
  <2>2. v \in {F[i] : i \in 1..n}
    BY <1>1, <2>1
  <2> QED BY <2>2
<1>9b. \A c \in Countries, i \in 1..n :
        /\ F[i] \in Stored(c) /\ catalog[c][F[i]].published = i
        /\ catalog[c][F[i]].pruned <=> i < n - KeptOthers
  <2> SUFFICES ASSUME NEW c \in Countries, NEW i \in 1..n
               PROVE  /\ F[i] \in Stored(c) /\ catalog[c][F[i]].published = i
                      /\ catalog[c][F[i]].pruned <=> i < n - KeptOthers
    OBVIOUS
  <2>1. catalog[c][F[i]] = First(F[i]) /\ Stored(c) = Range(F)
    BY <1>9
  <2>2. F[i] \in Range(F)
    BY <1>1
  <2>3. First(F[i]).published = i /\ (First(F[i]).pruned <=> i < n - KeptOthers)
    BY <1>7
  <2> QED BY <2>1, <2>2, <2>3
<1>9c. \A c \in Countries, v \in Versions : catalog[c][v].published \in 0..n
  BY <1>9
<1>10. ASSUME NEW c \in Countries, NEW i \in 1..n
       PROVE  Cardinality(Later(c, F[i])) = n - i
  <2>1. Later(c, F[i]) = {F[j] : j \in (i + 1)..n}
    <3>1. ASSUME NEW w
          PROVE  w \in Later(c, F[i]) <=> w \in {F[j] : j \in (i + 1)..n}
      <4>1. ASSUME w \in Later(c, F[i])
            PROVE  w \in {F[j] : j \in (i + 1)..n}
        <5>1. w \in Stored(c) /\ catalog[c][w].published > catalog[c][F[i]].published
          BY <4>1 DEF Later
        <5>2. PICK j \in 1..n : w = F[j]
          BY <1>9a, <5>1
        <5>3. j > i
          BY <1>9b, <5>1, <5>2
        <5> QED BY <1>1, <5>2, <5>3
      <4>2. ASSUME NEW j \in (i + 1)..n, w = F[j]
            PROVE  w \in Later(c, F[i])
        <5>1. j \in 1..n /\ j > i
          BY <1>1
        <5> QED BY <1>9b, <4>2, <5>1 DEF Later
      <4> QED BY <4>1, <4>2
    <3> QED BY <3>1
  <2>2. i + 1 \in Int /\ i + 1 >= 1 /\ i + 1 <= n + 1 /\ n - (i + 1) + 1 = n - i
    BY <1>1
  <2>3. Cardinality({FirstStored[j] : j \in (i + 1)..Len(FirstStored)}) = Len(FirstStored) - (i + 1) + 1
    BY <2>2, PlacesAreDistinct DEF n
  <2> QED BY <2>1, <2>2, <2>3 DEF F, n
<1>11. PubTypes
  <2>1. \A c \in Countries : IsFiniteSet(Stored(c))
    <3>1. IsFiniteSet({FirstStored[j] : j \in 1..Len(FirstStored)})
      <4>1. 1 \in Int /\ 1 >= 1 /\ 1 <= Len(FirstStored) + 1
        BY <1>1 DEF n
      <4> QED BY ONLY <4>1, PlacesAreDistinct, Zenon
    <3>2. IsFiniteSet({F[i] : i \in 1..n})
      BY <3>1 DEF F, n
    <3> QED BY <1>1, <1>9, <3>2
  <2>2. catalog \in [Countries -> [Versions -> Row]]
    <3>1. catalog = [c \in Countries |-> catalog[c]]
      BY <1>5
    <3>2. \A c \in Countries : catalog[c] = [v \in Versions |-> catalog[c][v]]
      BY <1>9
    <3>3. \A c \in Countries, v \in Versions : catalog[c][v] \in Row
      BY <1>9 DEF RowOK
    <3> QED BY <3>1, <3>2, <3>3
  <2>3. JobsOK
    <3>1. \A s \in Seeders : JobOK(seed[s])
      BY <1>3
    <3>2. seed = [s \in Seeders |-> seed[s]]
      BY <1>4
    <3>3. n \in 1..n
      BY <1>1
    <3>4. serving \in Versions
      BY <1>1, <1>4, <3>3
    <3> QED BY <1>1, <1>4, <3>1, <3>2, <3>4 DEF JobsOK
  <2> QED BY <1>9, <2>1, <2>2, <2>3 DEF PubTypes, RowsOK
<1>12. TimesDiffer
  <2>1. ASSUME NEW c \in Countries, NEW v \in Stored(c), NEW w \in Stored(c), v # w
        PROVE  catalog[c][v].published # catalog[c][w].published
    <3>1. PICK i \in 1..n, j \in 1..n : v = F[i] /\ w = F[j]
      BY <1>9a
    <3> QED BY <1>9b, <2>1, <3>1
  <2> QED BY <1>1, <1>3, <1>4, <1>9c, <2>1 DEF TimesDiffer
<1>13. TwoJobs
  BY <1>3 DEF TwoJobs
<1>14. PrunedAreOld
  <2> SUFFICES ASSUME NEW c \in Countries, NEW v \in Stored(c), catalog[c][v].pruned
               PROVE  Enough(Later(c, v))
    BY <1>3 DEF PrunedAreOld
  <2>1. PICK i \in 1..n : v = F[i]
    BY <1>9a
  <2>2. i < n - KeptOthers
    BY <1>9b, <2>1
  <2>3. Cardinality(Later(c, v)) = n - i
    BY <1>10, <2>1
  <2> QED BY <1>1, <2>2, <2>3 DEF Enough
<1>15. n \in 1..n /\ serving \in Versions
  BY <1>1, <1>4
<1>16. ServingIsStored
  BY <1>4, <1>9b, <1>15 DEF ServingIsStored
<1>17. ReleasesInOrder
  <2>1. \A c \in Countries : Cardinality(Later(c, serving)) <= failed
    BY <1>1, <1>4, <1>10, <1>15
  <2>2. \A c \in Countries : ~catalog[c][serving].pruned
    BY <1>1, <1>4, <1>9b, <1>15
  <2> QED BY <1>3, <2>1, <2>2, CatalogAssumption DEF ReleasesInOrder, CatalogAssumption
<1> QED BY <1>11, <1>12, <1>13, <1>14, <1>16, <1>17 DEF PubInv

----------------------------------------------------------------------------
(***************************************************************************)
(* The theorems.                                                           *)
(***************************************************************************)

\* A step of a seed job or a release.
LEMMA PublicationKeeps ==
  ASSUME PubInv, Publication
  PROVE  PubInv'
<1>0. Release \in Seeders
  BY CatalogAssumption DEF CatalogAssumption
<1>1. CASE \E s \in Seeders, v \in Versions : Begin(s, v)
  BY <1>1, BeginKeeps
<1>2. ASSUME NEW s \in Seeders,
             \/ PublishCatalog(s) \/ ChooseOlderVersions(s) \/ PruneIfStillChosen(s)
             \/ PruneFails(s) \/ SeedFails(s) \/ ManualEnds(s)
      PROVE  PubInv'
  <2>1. CASE PublishCatalog(s)
    BY <2>1, PublishKeeps
  <2>2. CASE ChooseOlderVersions(s) \/ PruneIfStillChosen(s) \/ PruneFails(s)
    BY <2>2, PruningKeeps
  <2>3. CASE SeedFails(s) \/ ManualEnds(s)
    BY <2>3, EndKeeps
  <2> QED BY <1>2, <2>1, <2>2, <2>3
<1>3. CASE Promote \/ PromotionFails
  BY <1>0, <1>3, EndKeeps
<1> QED BY <1>1, <1>2, <1>3 DEF Publication

\* The invariant holds however jobs and requests interleave.
THEOREM PublicationInductive == Spec => []PubInv
<1>1. Init => PubInv
  BY InitPublication DEF Init
<1>2. ASSUME PubInv, [Next]_vars
      PROVE  PubInv'
  <2>1. CASE Publication
    BY <1>2, <2>1, PublicationKeeps
  <2>2. CASE UNCHANGED pubVars
    BY <1>2, <2>2, OthersKeep
  <2> QED BY <1>2, <2>1, <2>2 DEF Next, vars
<1> QED BY <1>1, <1>2, PTL DEF Spec

\* RecentVersionsAreKept: a release's seed job and another one never prune between them
\* a version that is among the most recent when both have written (ToPrune, checked
\* again by _prune_if_still_chosen).
THEOREM RecentVersionsAreKept == Spec => []RecentAreKept
<1>1. PubInv => RecentAreKept
  <2> SUFFICES ASSUME PubInv, OneByHand, NEW c \in Countries, NEW v \in Stored(c),
                      Cardinality({w \in Stored(c) : PublishedBefore(c, v, w)}) < KeptOthers
               PROVE  Whole(c, v)
    BY DEF RecentAreKept
  <2>1. PubTypes /\ TimesDiffer /\ PrunedAreOld
    BY DEF PubInv
  <2>2. {w \in Stored(c) : PublishedBefore(c, v, w)} = Later(c, v)
    BY <2>1, OrderIsByTime DEF Later
  <2>3. Cardinality(Later(c, v)) \in Nat
    BY <2>1, LaterIsFinite, FS_CardinalityType
  <2>4. Cardinality(Later(c, v)) < KeptOthers
    BY <2>2, Zenon
  <2>4a. ~Enough(Later(c, v))
    BY <2>3, <2>4, CatalogAssumption DEF Enough, CatalogAssumption
  <2>5. ~catalog[c][v].pruned
    BY <2>1, <2>4a DEF PrunedAreOld
  <2>6. v \in Versions /\ RowOK(catalog[c][v], v) /\ catalog[c][v].stored
    BY <2>1 DEF Stored, PubTypes, RowsOK
  <2> QED BY <2>5, <2>6 DEF RowOK, Whole
<1> QED BY <1>1, PublicationInductive, PTL

\* ServingVersionIsKept: releases alone never prune the version that serves, while
\* fewer of them have failed since the last promotion than versions are kept.
THEOREM ServingVersionIsKept == Spec => []ServingIsKept
<1>1. PubInv => ServingIsKept
  <2> SUFFICES ASSUME PubInv, failed < KeptOthers, ~manual, NEW c \in Countries
               PROVE  Whole(c, serving)
    BY DEF ServingIsKept
  <2>1. ~catalog[c][serving].pruned
    BY DEF PubInv, ReleasesInOrder
  <2>2. serving \in Versions /\ RowOK(catalog[c][serving], serving) /\ catalog[c][serving].stored
    BY DEF PubInv, ServingIsStored, Stored, PubTypes, RowsOK
  <2> QED BY <2>1, <2>2 DEF RowOK, Whole
<1> QED BY <1>1, PublicationInductive, PTL
===============================================================================
