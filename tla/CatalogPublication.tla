------------------------- MODULE CatalogPublication -------------------------
(***************************************************************************)
(* How the versions of the v2 metadata catalog come to be stored, pruned   *)
(* and restored (policyengine_api/data/v2/catalog).  A seed job extracts   *)
(* the catalog of the PolicyEngine.py version it installed and publishes   *)
(* it for every country in one transaction under an advisory lock; once    *)
(* that has committed it prunes older versions, each in a transaction of   *)
(* its own.  The release workflow seeds, then deploys, then promotes; one  *)
(* release runs at a time (push.yml's concurrency group), but a seed job   *)
(* can also be dispatched by hand and then overlaps a release.             *)
(*                                                                         *)
(* A transaction that holds the lock is one step: nothing it writes is     *)
(* seen before it commits, and everyone else who writes these rows waits   *)
(* for the lock.  Rows are abstracted to which of the three kinds of       *)
(* package-derived data a version has.                                     *)
(***************************************************************************)
EXTENDS Integers, FiniteSets, Sequences, SequencesExt

CONSTANTS
  Countries,     \* the models, one per country
  Versions,      \* PolicyEngine.py versions: numbers, in the order of their text
  Format2,       \* the versions stored with catalog format 2 (tree and search file)
  FirstStored,   \* a sequence: the versions published before, in that order
  Seeders,       \* the seed jobs that may run at once: Release and the manual ones
  Release,       \* the release workflow's seed job
  KeptOthers,    \* KEPT_OTHER_CATALOG_VERSIONS
  PrunedPerRun,  \* MAX_CATALOG_VERSIONS_PRUNED_PER_RUN
  Budgets        \* bounds on a behaviour, of which Init picks one: the seed jobs of
                 \* each seeder, the versions they publish and the routes asked

ASSUME CatalogAssumption ==
  /\ Versions \subseteq Nat \ {0} /\ Format2 \subseteq Versions
  /\ Versions \ Format2 \subseteq Range(FirstStored)
  /\ FirstStored \in Seq(Versions) /\ FirstStored # <<>> /\ IsInjective(FirstStored)
  /\ Release \in Seeders
  /\ KeptOthers \in Nat \ {0} /\ PrunedPerRun \in Nat
  /\ Budgets \subseteq [seeds : [Seeders -> Nat], versions : SUBSET Versions, routes : SUBSET STRING]

VARIABLES
  catalog,   \* country -> version -> its stored row and data
  clock,     \* the database's clock, which each transaction's start advances
  seed,      \* seeder -> its job
  serving,   \* the PolicyEngine.py version of the serving revision
  failed,    \* history: published releases since the last promotion, none promoted
  manual,    \* history: a seed job has been dispatched by hand
  budget     \* what may still start

pubVars == <<catalog, clock, seed, serving, failed, manual, budget>>

----------------------------------------------------------------------------
(***************************************************************************)
(* Stored versions                                                         *)
(***************************************************************************)

Data == {"values", "tree", "file"}

\* The rows publishing a version writes: a version stored before catalog
\* format 2 gets neither a tree nor a search file.
DataOf(v) == IF v \in Format2 THEN Data ELSE {"values"}

Absent == [stored |-> FALSE, data |-> {}, pruned |-> FALSE, created |-> 0, published |-> 0]

Stored(c) == {v \in Versions : catalog[c][v].stored}

\* StoredCatalogVersion.publication_order: by last publication, then creation,
\* then version text.
PublishedBefore(c, v, w) ==
  LET a == catalog[c][v]
      b == catalog[c][w]
  IN \/ a.published < b.published
     \/ a.published = b.published /\ a.created < b.created
     \/ a.published = b.published /\ a.created = b.created /\ v < w

\* Mutant: one version fewer is kept.
ToPrune_KeepsOneFewer(c, installed) ==
  LET others == Stored(c) \ {installed}
  IN {v \in others :
        /\ ~catalog[c][v].pruned
        /\ Cardinality({w \in others : PublishedBefore(c, v, w)}) >= KeptOthers - 1}

\* catalog_versions_to_prune, for one country: neither the installed version
\* nor one of the KeptOthers most recently published others.
ToPrune(c, installed) ==
  LET others == Stored(c) \ {installed}
  IN {v \in others :
        /\ ~catalog[c][v].pruned
        /\ Cardinality({w \in others : PublishedBefore(c, v, w)}) >= KeptOthers}

\* catalog_versions_to_prune_now: at most PrunedPerRun over all countries, the
\* oldest created first, then by country and version.
ToPruneNow(installed) ==
  LET chosen == {x \in Countries \X Versions : x[2] \in ToPrune(x[1], installed)}
      Older(x, y) == catalog[x[1]][x[2]].created < catalog[y[1]][y[2]].created
      orders == {s \in SetToSeqs(chosen) :
                   \A i, j \in DOMAIN s : i < j => ~Older(s[j], s[i])}
      ordered == CHOOSE s \in orders : TRUE
  IN SubSeq(ordered, 1, IF Len(ordered) < PrunedPerRun THEN Len(ordered) ELSE PrunedPerRun)

----------------------------------------------------------------------------
(***************************************************************************)
(* Publishing                                                              *)
(***************************************************************************)

NoJob == [pc |-> "idle", version |-> 0, start |-> 0, todo |-> <<>>]

CatalogInit ==
  LET Place(v) == CHOOSE i \in DOMAIN FirstStored : FirstStored[i] = v
      kept == {FirstStored[i] : i \in {j \in DOMAIN FirstStored :
                                         j >= Len(FirstStored) - KeptOthers}}
      Row(v) == [stored |-> TRUE, data |-> IF v \in kept THEN DataOf(v) ELSE {},
                 pruned |-> v \notin kept, created |-> Place(v), published |-> Place(v)]
  IN /\ catalog = [c \in Countries |->
                     [v \in Versions |-> IF v \in Range(FirstStored) THEN Row(v) ELSE Absent]]
     /\ clock = Len(FirstStored)
     /\ seed = [s \in Seeders |-> NoJob]
     /\ serving = Last(FirstStored)
     /\ failed = 0
     /\ budget \in Budgets
     /\ manual = FALSE

\* A seed job begins its publication transaction, whose start is the time it
\* records, before it has the publication lock.
Begin(s, v) ==
  /\ seed[s].pc = "idle" /\ budget.seeds[s] > 0 /\ v \in budget.versions
  /\ clock' = clock + 1
  /\ seed' = [seed EXCEPT ![s] = [NoJob EXCEPT !.pc = "begun", !.version = v, !.start = clock + 1]]
  /\ budget' = [budget EXCEPT !.seeds[s] = @ - 1]
  /\ manual' = (manual \/ s # Release)
  /\ UNCHANGED <<catalog, serving, failed>>

\* The staged catalog's values are inserted for the stored parameters.
InsertParameterValues(row) == [row EXCEPT !.data = @ \cup {"values"}]

\* restore_pruned_catalog_versions: a pruned version gets its values back and
\* its marker is cleared.
Restore(row) ==
  IF row.stored /\ row.pruned
  THEN [InsertParameterValues(row) EXCEPT !.pruned = FALSE]
  ELSE row

\* assert_country_matches: a stored version has exactly the staged rows.
Matches(row) == row.stored => "values" \in row.data

\* publish_new_country: a version that is not stored is inserted.
PublishNew(row, start) ==
  IF row.stored
  THEN row
  ELSE InsertParameterValues([Absent EXCEPT !.stored = TRUE, !.created = start])

\* A version of catalog format 2 gets a tree and a search file if it has none.
WriteParameterTree(row, v) ==
  IF v \in Format2 THEN [row EXCEPT !.data = @ \cup {"tree"}] ELSE row
WriteSearchFile(row, v) ==
  IF v \in Format2 THEN [row EXCEPT !.data = @ \cup {"file"}] ELSE row

\* record_catalog_publication: the transaction's start time.
RecordPublication(row, start) == [row EXCEPT !.published = start]

Published(row, v, start) ==
  LET stored == PublishNew(Restore(row), start)
      written == WriteSearchFile(WriteParameterTree(stored, v), v)
  IN RecordPublication(written, start)

\* publish_catalog's transaction: every country's version, or nothing.
PublishCatalog(s) ==
  LET v == seed[s].version
  IN /\ seed[s].pc = "begun"
     /\ \A c \in Countries : Matches(Restore(catalog[c][v]))
     /\ catalog' = [c \in Countries |->
                      [catalog[c] EXCEPT ![v] = Published(@, v, seed[s].start)]]
     /\ seed' = [seed EXCEPT ![s].pc = "committed"]
     /\ UNCHANGED <<clock, serving, failed, manual, budget>>

\* _prune_older_versions chooses from versions read without the lock; when
\* that read fails nothing is pruned.
ChooseOlderVersions(s) ==
  /\ seed[s].pc = "committed"
  /\ \E todo \in {ToPruneNow(seed[s].version), <<>>} :
       seed' = [seed EXCEPT ![s].pc = "pruning", ![s].todo = todo]
  /\ UNCHANGED <<catalog, clock, serving, failed, manual, budget>>

\* prune_catalog_version: the marker and the three deletes.
Pruned(row) == [row EXCEPT !.pruned = TRUE, !.data = {}]

\* Mutant: the choice made without the lock stands.
StillChosen_Before(c, v, installed) == TRUE

\* _prune_if_still_chosen: chosen again under the lock.
StillChosen(c, v, installed) == v \in ToPrune(c, installed)

PruneIfStillChosen(s) ==
  /\ seed[s].pc = "pruning" /\ seed[s].todo # <<>>
  /\ LET c == Head(seed[s].todo)[1]
         v == Head(seed[s].todo)[2]
     IN catalog' = IF StillChosen(c, v, seed[s].version)
                   THEN [catalog EXCEPT ![c][v] = Pruned(@)]
                   ELSE catalog
  /\ seed' = [seed EXCEPT ![s].todo = Tail(@)]
  /\ UNCHANGED <<clock, serving, failed, manual, budget>>

\* An exception rolls that version's transaction back and is only recorded.
PruneFails(s) ==
  /\ seed[s].pc = "pruning" /\ seed[s].todo # <<>>
  /\ seed' = [seed EXCEPT ![s].todo = Tail(@)]
  /\ UNCHANGED <<catalog, clock, serving, failed, manual, budget>>

\* The job fails (the revision or a stored version is not the expected one, a
\* statement raises), is cancelled or runs out of its time: before the commit
\* nothing is stored; after it the publication stays and is not promoted.
SeedFails(s) ==
  /\ seed[s].pc # "idle"
  /\ seed' = [seed EXCEPT ![s] = NoJob]
  /\ failed' = IF s = Release /\ seed[s].pc # "begun" THEN failed + 1 ELSE failed
  /\ UNCHANGED <<catalog, clock, serving, manual, budget>>

\* The release is deployed and promoted: its revision serves.
Promote ==
  /\ seed[Release].pc = "pruning" /\ seed[Release].todo = <<>>
  /\ serving' = seed[Release].version
  /\ failed' = 0
  /\ seed' = [seed EXCEPT ![Release] = NoJob]
  /\ UNCHANGED <<catalog, clock, manual, budget>>

\* Promotion fails: the previous revision is put back.
PromotionFails ==
  /\ seed[Release].pc = "pruning" /\ seed[Release].todo = <<>>
  /\ failed' = failed + 1
  /\ seed' = [seed EXCEPT ![Release] = NoJob]
  /\ UNCHANGED <<catalog, clock, serving, manual, budget>>

ManualEnds(s) ==
  /\ s # Release
  /\ seed[s].pc = "pruning" /\ seed[s].todo = <<>>
  /\ seed' = [seed EXCEPT ![s] = NoJob]
  /\ UNCHANGED <<catalog, clock, serving, failed, manual, budget>>

Publication ==
  \/ \E s \in Seeders, v \in Versions : Begin(s, v)
  \/ \E s \in Seeders :
       \/ PublishCatalog(s) \/ ChooseOlderVersions(s) \/ PruneIfStillChosen(s)
       \/ PruneFails(s) \/ SeedFails(s) \/ ManualEnds(s)
  \/ Promote \/ PromotionFails

----------------------------------------------------------------------------
(***************************************************************************)
(* Properties                                                              *)
(***************************************************************************)

\* A version is whole: not marked as pruned, and with all its format gives it.
Whole(c, v) == ~catalog[c][v].pruned /\ catalog[c][v].data = DataOf(v)

\* ServingIsKept: while releases alone publish and fewer releases than the
\* versions kept besides the installed one published since the last promotion
\* without being promoted, the version the serving revision runs keeps its data,
\* through the next release's pruning too.
ServingIsKept ==
  (failed < KeptOthers /\ ~manual)
    => \A c \in Countries : Whole(c, serving)

\* One job dispatched by hand may overlap a release's, but not another such job.
OneByHand == \E s \in Seeders : Seeders = {Release, s}

\* RecentAreKept: however a release's seed job and another one overlap, the most
\* recently published versions of a country, as many as are kept besides the
\* installed one, have their data: neither prunes what the other has just
\* published or restored.  Among three jobs that overlap one can record an older
\* time than the version already has, and a version pruned meanwhile is then
\* among the most recent again (README).
RecentAreKept ==
  OneByHand =>
    \A c \in Countries : \A v \in Stored(c) :
      Cardinality({w \in Stored(c) : PublishedBefore(c, v, w)}) < KeptOthers => Whole(c, v)
=============================================================================
