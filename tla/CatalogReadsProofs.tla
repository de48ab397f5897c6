-------------------------- MODULE CatalogReadsProofs --------------------------
(***************************************************************************)
(* Proofs, for any requests, routes and cache, that what the v2 metadata   *)
(* routes answer was true of the version during the request, and that no   *)
(* request waits for a response nobody builds.                             *)
(***************************************************************************)
EXTENDS CatalogPublicationProofs, SequenceTheorems

(***************************************************************************)
(* The invariant.                                                          *)
(***************************************************************************)

Conditions == {"absent", "pruned", "whole"}
PCs == {"idle", "look", "join", "again", "waiting", "select", "recheck", "query", "read",
        "verify", "written", "serialize", "done"}
BuildPCs == PCs \ {"idle", "look", "join", "waiting", "done"}

InProgress(q) == q.pc \notin {"idle", "done"}
Keys == Asked \cup {Running}

RequestOK(q) ==
  /\ q \in [pc: PCs, route: Routes, c: {q.c}, key: Versions \cup {Running}, matches: BOOLEAN,
            revalidates: BOOLEAN, found: BOOLEAN, answer: {q.answer}, seen: SUBSET Conditions]
  /\ q.pc # "idle" => q.c \in Countries
  /\ InProgress(q) => q.key \in Keys

\* What is to be true of an answer about version v, by what was seen.
Tells(answer, route, v, seen) ==
  /\ answer = "pruned" => "pruned" \in seen
  /\ answer = "absent" => "absent" \in seen
  /\ answer = "rows" /\ ReadsPrunedData(route) => "whole" \in seen
  /\ answer = "missing" => {"pruned", "whole"} \subseteq seen
  /\ answer = "unavailable" /\ Needs(route) \subseteq DataOf(v) => {"pruned", "whole"} \subseteq seen

Answers(q) ==
  q.pc = "done" => q.key \in Versions /\ Tells(q.answer, q.route, q.key, q.seen)

\* What a request q of version v has seen and found, by where it is.
NeedsNoRows(q) == q.route \in CatalogVariables \cup CatalogParameters /\ ~q.matches

Sees(cat, v, q) == InProgress(q) => Condition(cat, q.c, v) \in q.seen

FoundRows(q) == InProgress(q) /\ q.found /\ ReadsPrunedData(q.route) => "whole" \in q.seen

\* Only selections of stored versions are used.
Selected(cat, v, q) == q.pc \in {"read", "verify", "written", "serialize"} => cat[q.c][v].stored

\* A read that found nothing where the version's format has data saw it pruned.
Missed(v, q) ==
  q.pc \in {"verify", "written", "serialize"} /\ q.matches /\ ~q.found =>
    ReadsPrunedData(q.route) /\ (Needs(q.route) \subseteq DataOf(v) => "pruned" \in q.seen)

\* A read that found nothing it needed was confirmed by an unmarked version.
Confirmed(q) ==
  q.pc \in {"written", "serialize"} /\ ReadsPrunedData(q.route) /\ ~q.found /\ ~NeedsNoRows(q)
    => "whole" \in q.seen

\* An empty level of the tree is answered only if the version has a tree.
HasTree(v, q) ==
  /\ q.pc = "written" => q.route \in TreeRoutes /\ ~q.found
  /\ q.pc = "serialize" /\ q.route \in TreeRoutes /\ ~q.found => "tree" \in DataOf(v)

\* A search file is always asked for with rows that exist.
FileMatches(q) == InProgress(q) /\ q.route \in SearchFileRoutes => q.matches

\* Only the two whole-version routes share a response.
SharesBody(q) == q.pc \in {"look", "join", "again", "waiting"} => q.route \in WholeVersion

\* What holds wherever a request in progress is, and what depends on where.
SoFarOK(cat, v, q) == RequestOK(q) /\ Answers(q) /\ Sees(cat, v, q) /\ FoundRows(q) /\ FileMatches(q)
StageOK(cat, v, q) == Selected(cat, v, q) /\ Missed(v, q) /\ Confirmed(q) /\ HasTree(v, q) /\ SharesBody(q)

ReadOK(cat, v, q) == SoFarOK(cat, v, q) /\ StageOK(cat, v, q)

ReadsOK == /\ req = [r \in Requests |-> req[r]]
           /\ \A r \in Requests : ReadOK(catalog, VersionOf(req[r]), req[r])

\* Only stored versions are selected, and they stay stored.
KeptOK ==
  /\ runs \in Versions /\ \A c \in Countries : runs \in Stored(c)
  /\ kept = [k \in Countries \X Keys |-> kept[k]]
  /\ \A c \in Countries, key \in Keys : kept[<<c, key>>] # "none" =>
        (IF key = Running THEN runs ELSE key) \in Stored(c)

\* A kept body tells what its build saw.
Body == [key: WholeVersion \X Countries \X Versions, body: {"rows", "missing", "empty"}, seen: SUBSET Conditions]
TrueBodies == {b \in Body : \A v \in Versions : Tells(b.body, b.key[1], v, b.seen)}
CacheOK == cache \in Seq(TrueBodies)

ReadInv == PubInv /\ ReadsOK /\ KeptOK /\ CacheOK /\ WaitersHaveABuild

----------------------------------------------------------------------------
(***************************************************************************)
(* Routes, versions and answers.                                           *)
(***************************************************************************)

\* What the routes read that pruning deletes (the routers and their services).
LEMMA RouteFacts ==
  ASSUME NEW route \in Routes
  PROVE  /\ Needs(route) \in {{}, {"values"}, {"tree"}, {"file"}}
         /\ Needs(route) = {"tree"} <=> route \in TreeRoutes
         /\ Needs(route) = {"file"} <=> route \in SearchFileRoutes
         /\ route \in WholeVersion => route \notin TreeRoutes \cup SearchFileRoutes
         /\ route \in CatalogVariables \cup CatalogParameters
              => route \notin TreeRoutes \cup SearchFileRoutes
         /\ ReadsPrunedData(route) <=> Needs(route) # {}
BY DEF Routes, ModelRouter, ParameterRouter, GeographyRouter, CatalogRouter, WholeVersion,
       ModelRoutes, VariableRoutes, ParameterRoutes, DatasetRoutes, RegionRoutes, ValueRoutes,
       CatalogParameters, TreeRoutes, SearchFileRoutes, ModelCatalog, CatalogVariables,
       Needs, ReadsPrunedData

\* An answer that was true stays true when more has been seen.
LEMMA TellsMore ==
  ASSUME NEW answer, NEW route, NEW v, NEW seen, NEW more, seen \subseteq more,
         Tells(answer, route, v, seen)
  PROVE  Tells(answer, route, v, more)
BY DEF Tells

\* What a reader can find of a version: a row that is stored has all its data or none.
LEMMA ConditionFacts ==
  ASSUME PubTypes, NEW c \in Countries, NEW v \in Versions
  PROVE  LET row == catalog[c][v]
             condition == Condition(catalog, c, v)
         IN /\ condition \in Conditions
            /\ ~row.stored => condition = "absent" /\ ~row.pruned
            /\ row.pruned => row.stored /\ condition = "pruned" /\ row.data = {}
            /\ row.stored /\ ~row.pruned => condition = "whole" /\ row.data = DataOf(v)
            /\ row.data # {} => condition = "whole" /\ row.stored /\ row.data = DataOf(v)
            /\ "values" \in DataOf(v)
<1> DEFINE row == catalog[c][v]
<1>1. RowOK(row, v)
  BY DEF PubTypes, RowsOK
<1>2. "values" \in DataOf(v)
  BY DEF DataOf, Data
<1>3. /\ ~row.stored => row = Absent
      /\ row.stored => row.data = IF row.pruned THEN {} ELSE DataOf(v)
      /\ row.stored \in BOOLEAN /\ row.pruned \in BOOLEAN
  BY <1>1 DEF RowOK, Row
<1>4. Absent.data = {} /\ ~Absent.pruned
  BY DEF Absent
<1>5. Condition(catalog, c, v) = IF ~row.stored THEN "absent" ELSE IF row.data = {} THEN "pruned" ELSE "whole"
  BY <1>3 DEF Condition
<1> HIDE DEF row
<1> QED BY <1>2, <1>3, <1>4, <1>5 DEF Conditions, row

\* A request in progress names a version (resolve_metadata_catalog).
LEMMA VersionIsOne ==
  ASSUME KeptOK, NEW q, RequestOK(q), InProgress(q)
  PROVE  VersionOf(q) \in Versions
BY ReadsAssumption DEF KeptOK, RequestOK, InProgress, Keys, VersionOf, ReadsAssumption

\* The answer a request ends with.
LEMMA DoneIsOK ==
  ASSUME KeptOK, NEW q, RequestOK(q), InProgress(q), NEW answer, NEW seen \in SUBSET Conditions,
         Tells(answer, q.route, VersionOf(q), seen), NEW cat, NEW v
  PROVE  LET end == Done(q, answer, seen)
         IN ReadOK(cat, v, end) /\ end.pc = "done" /\ end.key = VersionOf(q)
<1> DEFINE end == Done(q, answer, seen)
<1>1. VersionOf(q) \in Versions
  BY VersionIsOne
<1>2. /\ end.pc = "done" /\ end.route = q.route /\ end.c = q.c /\ end.key = VersionOf(q)
      /\ end.matches = FALSE /\ end.revalidates = FALSE /\ end.found = FALSE
      /\ end.answer = answer /\ end.seen = seen
  BY DEF Done, Idle
<1>3. RequestOK(end)
  <2>1. Idle \in [pc: PCs, route: Routes, c: {Idle.c}, key: Versions \cup {Running}, matches: BOOLEAN,
                  revalidates: BOOLEAN, found: BOOLEAN, answer: {Idle.answer}, seen: SUBSET Conditions]
    BY DEF Idle, PCs, Routes, ModelRouter, ModelRoutes
  <2>2. q.route \in Routes /\ q.c \in Countries
    BY DEF RequestOK, InProgress
  <2>3. end \in [pc: PCs, route: Routes, c: {q.c}, key: Versions \cup {Running}, matches: BOOLEAN,
                 revalidates: BOOLEAN, found: BOOLEAN, answer: {answer}, seen: SUBSET Conditions]
    BY <1>1, <2>1, <2>2 DEF Done, PCs
  <2> HIDE DEF end
  <2> QED BY <1>2, <2>2, <2>3 DEF RequestOK, InProgress
<1> HIDE DEF end
<1>4. Answers(end)
  BY <1>1, <1>2 DEF Answers
<1>5. SoFarOK(cat, v, end)
  BY <1>2, <1>3, <1>4 DEF SoFarOK, Sees, FoundRows, FileMatches, InProgress
<1>6. StageOK(cat, v, end)
  BY <1>2 DEF StageOK, Selected, Missed, Confirmed, HasTree, SharesBody
<1> QED BY <1>2, <1>5, <1>6 DEF ReadOK, end

\* A request that goes on keeps what it has seen and found.
LEMMA GoesOn ==
  ASSUME NEW cat, NEW v, NEW q, SoFarOK(cat, v, q), InProgress(q), NEW pc \in PCs \ {"idle", "done"}
  PROVE  LET next == [q EXCEPT !.pc = pc]
         IN /\ SoFarOK(cat, v, next) /\ InProgress(next)
            /\ next.pc = pc /\ next.route = q.route /\ next.c = q.c /\ next.key = q.key
            /\ next.matches = q.matches /\ next.found = q.found /\ next.seen = q.seen
<1> DEFINE next == [q EXCEPT !.pc = pc]
<1>1. /\ next.pc = pc /\ next.route = q.route /\ next.c = q.c /\ next.key = q.key
      /\ next.matches = q.matches /\ next.found = q.found /\ next.seen = q.seen
      /\ next.answer = q.answer
  BY DEF SoFarOK, RequestOK
<1>2. next \in [pc: PCs, route: Routes, c: {q.c}, key: Versions \cup {Running}, matches: BOOLEAN,
                revalidates: BOOLEAN, found: BOOLEAN, answer: {q.answer}, seen: SUBSET Conditions]
  BY DEF SoFarOK, RequestOK
<1> HIDE DEF next
<1>3. RequestOK(next) /\ InProgress(next)
  BY <1>1, <1>2 DEF SoFarOK, RequestOK, InProgress
<1> QED BY <1>1, <1>3 DEF SoFarOK, Answers, Sees, FoundRows, FileMatches, InProgress, next

----------------------------------------------------------------------------
(***************************************************************************)
(* The response cache.                                                     *)
(***************************************************************************)

\* A kept body is the one of its key (MetadataResponseCache._stored).
LEMMA KeptBodyIsTrue ==
  ASSUME CacheOK, NEW key \in KeptBodies
  PROVE  /\ IndexOf(key) \in 1..Len(cache) /\ IndexOf(key) \in DOMAIN cache
         /\ KeptBody(key) \in TrueBodies /\ KeptBody(key).key = key
<1>1. cache \in Seq(TrueBodies) /\ DOMAIN cache = 1..Len(cache)
  BY DEF CacheOK
<1>2. \E i \in DOMAIN cache : cache[i].key = key
  BY DEF KeptBodies
<1>3. IndexOf(key) \in DOMAIN cache /\ cache[IndexOf(key)].key = key
  BY <1>2 DEF IndexOf
<1> QED BY <1>1, <1>3, ElementOfSeq DEF KeptBody

\* Looking a body up makes it the most recently used.
LEMMA TouchedIsOK ==
  ASSUME CacheOK, NEW key \in KeptBodies
  PROVE  /\ Touched(key) \in Seq(TrueBodies)
         /\ Len(Touched(key)) > 0
         /\ Touched(key)[Len(Touched(key))] = KeptBody(key)
<1> DEFINE i == IndexOf(key)
<1>1. cache \in Seq(TrueBodies) /\ i \in 1..Len(cache) /\ KeptBody(key) \in TrueBodies /\ Len(cache) \in Nat
  BY KeptBodyIsTrue DEF CacheOK
<1> HIDE DEF i
<1>2. SubSeq(cache, 1, i - 1) \in Seq(TrueBodies) /\ SubSeq(cache, i + 1, Len(cache)) \in Seq(TrueBodies)
  BY <1>1, SubSeqProperties
<1>3. RemoveAt(cache, i) \in Seq(TrueBodies)
  BY <1>2, ConcatProperties DEF RemoveAt
<1> QED BY <1>1, <1>3, AppendProperties DEF Touched, i

\* The body of a build that ends (MetadataResponseCache._keep).
NewBody(q, body) == [key |-> BodyKey(q), body |-> body, seen |-> q.seen]

\* Keeping a body leaves the cache true, with the answer's body as the last one.
LEMMA KeepIsOK ==
  ASSUME CacheOK, NEW q, NEW body, NewBody(q, body) \in TrueBodies
  PROVE  LET new == Keep(q, body)
         IN /\ new \in Seq(TrueBodies)
            /\ new[Len(new)] \in TrueBodies
            /\ new[Len(new)].key = BodyKey(q)
<1> DEFINE key == BodyKey(q)
           with == IF key \in KeptBodies THEN Touched(key) ELSE Append(cache, NewBody(q, body))
<1>1. /\ with \in Seq(TrueBodies) /\ Len(with) > 0
      /\ with[Len(with)] \in TrueBodies /\ with[Len(with)].key = key
  <2>1. CASE key \in KeptBodies
    BY <2>1, TouchedIsOK, KeptBodyIsTrue
  <2>2. CASE key \notin KeptBodies
    <3>1. NewBody(q, body).key = key
      BY DEF NewBody
    <3> HIDE DEF key
    <3>2. cache \in Seq(TrueBodies) /\ with = Append(cache, NewBody(q, body))
      BY <2>2 DEF CacheOK
    <3> QED BY <3>1, <3>2, AppendProperties
  <2> QED BY <2>1, <2>2
<1>2. Keep(q, body) = IF Len(with) > Capacity THEN Tail(with) ELSE with
  BY DEF Keep, NewBody
<1> HIDE DEF with, key
<1>3. CASE Len(with) > Capacity
  <2>1. Keep(q, body) = Tail(with) /\ Len(with) \in Nat /\ Len(with) > 1
    BY <1>1, <1>2, <1>3, LenProperties, ReadsAssumption DEF ReadsAssumption
  <2>2. with # <<>>
    BY <2>1
  <2>3. /\ Tail(with) \in Seq(TrueBodies) /\ Len(Tail(with)) = Len(with) - 1
        /\ \A j \in 1..Len(Tail(with)) : Tail(with)[j] = with[j + 1]
    BY <1>1, <2>2, HeadTailProperties
  <2>4. Tail(with)[Len(Tail(with))] = with[Len(with)]
    BY <2>1, <2>3
  <2> QED BY <1>1, <2>1, <2>3, <2>4 DEF key
<1>4. CASE ~(Len(with) > Capacity)
  BY <1>1, <1>2, <1>4 DEF key
<1> QED BY <1>3, <1>4

----------------------------------------------------------------------------
(***************************************************************************)
(* One request goes on, or ends and answers those that wait for it.        *)
(***************************************************************************)

\* A request that is building the response of its key.
Building(q) == q.pc \notin {"idle", "look", "join", "waiting", "done"}

\* Waiting requests keep their builder while no builder stops without them.
LEMMA WaitersStay ==
  ASSUME WaitersHaveABuild, NEW r \in Requests,
         \A w \in Requests : w # r =>
            req'[w] = req[w] \/ (req[w].pc = "waiting" /\ req'[w].pc # "waiting"),
         \/ Building(req[r]) => Building(req'[r]) /\ Key(req'[r]) = Key(req[r])
         \/ \A w \in Requests : req'[w].pc = "waiting" => Key(req'[w]) # Key(req[r]),
         req'[r].pc = "waiting" => Key(req'[r]) = Key(req[r]) /\ BuildUnderWay(req[r]) /\ ~Building(req[r])
  PROVE  WaitersHaveABuild'
<1> SUFFICES ASSUME NEW w \in Requests, req'[w].pc = "waiting"
             PROVE  \E u \in Requests : Key(req'[u]) = Key(req'[w]) /\ Building(req'[u])
  BY DEF WaitersHaveABuild, BuildUnderWay, Building
<1>1. PICK u \in Requests : Key(req[u]) = Key(req'[w]) /\ Building(req[u])
  <2>1. CASE w = r
    BY <2>1 DEF BuildUnderWay, Building
  <2>2. CASE w # r
    <3>1. req'[w] = req[w]
      BY <2>2
    <3> QED BY <3>1 DEF WaitersHaveABuild, BuildUnderWay, Building
  <2> QED BY <2>1, <2>2
<1>2. CASE u = r
  BY <1>1, <1>2
<1>3. CASE u # r
  <2>1. req'[u] = req[u]
    BY <1>1, <1>3 DEF Building
  <2> QED BY <1>1, <2>1
<1> QED BY <1>2, <1>3

\* A request that takes a step of its own leaves the others as they are.
LEMMA OneGoesOn ==
  ASSUME ReadsOK, WaitersHaveABuild, UNCHANGED <<catalog, runs>>, NEW r \in Requests, NEW next,
         req' = [req EXCEPT ![r] = next],
         ReadOK(catalog, VersionOf(next), next),
         Building(req[r]) => Building(next) /\ Key(next) = Key(req[r]),
         next.pc = "waiting" => Key(next) = Key(req[r]) /\ BuildUnderWay(req[r]) /\ ~Building(req[r])
  PROVE  ReadsOK' /\ WaitersHaveABuild'
<1>1. req = [w \in Requests |-> req[w]]
  BY DEF ReadsOK
<1>2. /\ req' = [w \in Requests |-> req'[w]] /\ req'[r] = next
      /\ \A w \in Requests : w # r => req'[w] = req[w]
  BY <1>1
<1>3. \A w \in Requests : ReadOK(catalog', VersionOf(req[w])', req'[w])
  <2> SUFFICES ASSUME NEW w \in Requests PROVE ReadOK(catalog', VersionOf(req[w])', req'[w])
    OBVIOUS
  <2>1. CASE w = r
    <3>1. VersionOf(req[w])' = VersionOf(next)
      BY <1>2, <2>1 DEF VersionOf
    <3> QED BY <1>2, <2>1, <3>1
  <2>2. CASE w # r
    <3>1. req'[w] = req[w] /\ VersionOf(req[w])' = VersionOf(req[w])
      BY <1>2, <2>2 DEF VersionOf
    <3>2. ReadOK(catalog, VersionOf(req[w]), req[w])
      BY DEF ReadsOK
    <3> QED BY <3>1, <3>2
  <2> QED BY <2>1, <2>2
<1>4. ReadsOK'
  BY <1>2, <1>3 DEF ReadsOK
<1>5. WaitersHaveABuild'
  BY <1>2, WaitersStay
<1> QED BY <1>4, <1>5

\* Go: only where the request is changes.
LEMMA GoKeeps ==
  ASSUME ReadsOK, WaitersHaveABuild, UNCHANGED <<catalog, runs>>, NEW r \in Requests,
         NEW pc \in PCs \ {"idle", "done"}, InProgress(req[r]), Go(r, pc),
         StageOK(catalog, VersionOf(req[r]), [req[r] EXCEPT !.pc = pc]),
         pc = "waiting" => BuildUnderWay(req[r]) /\ ~Building(req[r]),
         pc \in {"look", "join", "waiting"} => ~Building(req[r])
  PROVE  ReadsOK' /\ WaitersHaveABuild'
<1> DEFINE q == req[r]
           next == [q EXCEPT !.pc = pc]
<1>1. SoFarOK(catalog, VersionOf(q), q)
  BY DEF ReadsOK, ReadOK
<1>2. /\ SoFarOK(catalog, VersionOf(q), next)
      /\ next.pc = pc /\ next.route = q.route /\ next.c = q.c /\ next.key = q.key
  BY <1>1, GoesOn
<1>3. req' = [req EXCEPT ![r] = next]
  BY DEF Go
<1>4. StageOK(catalog, VersionOf(q), next)
  OBVIOUS
<1> HIDE DEF next
<1>5. VersionOf(next) = VersionOf(q) /\ Key(next) = Key(q)
  BY <1>2 DEF VersionOf, Key
<1>6. ReadOK(catalog, VersionOf(next), next)
  BY <1>2, <1>4, <1>5 DEF ReadOK
<1>7. Building(q) => Building(next)
  BY <1>2 DEF Building
<1> QED BY <1>2, <1>3, <1>5, <1>6, <1>7, OneGoesOn

\* The requests that wait for r's build are of its route, country and version.
LEMMA WaitersAskTheSame ==
  ASSUME ReadsOK, NEW r \in Requests, NEW w \in Waiting(req[r])
  PROVE  /\ w \in Requests /\ req[w].pc = "waiting" /\ InProgress(req[w])
         /\ req[w].route = req[r].route /\ req[w].c = req[r].c /\ req[w].key = req[r].key
         /\ VersionOf(req[w]) = VersionOf(req[r])
BY DEF Waiting, Key, VersionOf, InProgress

\* A request that builds tells those that wait for it, and there are no others.
LEMMA BuildersAreTold ==
  ASSUME ReadsOK, NEW r \in Requests, Building(req[r]), NEW w \in Requests,
         req[w].pc = "waiting", Key(req[w]) = Key(req[r])
  PROVE  Builds(r) /\ w \in Waiting(req[r])
<1>1. req[w].route \in WholeVersion
  BY DEF ReadsOK, ReadOK, StageOK, SharesBody
<1>2. req[r].route = req[w].route
  BY DEF Key
<1> QED BY <1>1, <1>2 DEF Builds, Building, Waiting

\* An answer goes to the request and to those that wait for its build
\* (MetadataResponseCache.get_or_build).
LEMMA AnsweredKeeps ==
  ASSUME ReadsOK, KeptOK, WaitersHaveABuild, UNCHANGED <<catalog, runs>>, NEW r \in Requests,
         InProgress(req[r]), NEW answer, NEW seen \in SUBSET Conditions,
         Tells(answer, req[r].route, VersionOf(req[r]), seen),
         req' = Answered(r, answer, seen)
  PROVE  ReadsOK' /\ WaitersHaveABuild'
<1>1. /\ req' = [w \in Requests |-> req'[w]]
      /\ req'[r] = Done(req[r], answer, seen)
      /\ \A w \in Requests : w # r =>
            req'[w] = IF Builds(r) /\ w \in Waiting(req[r])
                      THEN Done(req[w], answer, req[w].seen \cup seen)
                      ELSE req[w]
  BY DEF Answered
<1>2. \A w \in Requests : RequestOK(req[w]) /\ req[w].seen \in SUBSET Conditions
  BY DEF ReadsOK, ReadOK, SoFarOK, RequestOK
<1>3. ReadOK(catalog', VersionOf(req[r])', req'[r]) /\ req'[r].pc = "done"
  BY <1>1, <1>2, DoneIsOK
<1>4. ASSUME NEW w \in Requests, w # r, Builds(r), w \in Waiting(req[r])
      PROVE  ReadOK(catalog', VersionOf(req[w])', req'[w]) /\ req'[w].pc = "done"
  <2>1. /\ InProgress(req[w]) /\ req[w].route = req[r].route
        /\ VersionOf(req[w]) = VersionOf(req[r])
    BY <1>4, WaitersAskTheSame
  <2>2. req[w].seen \cup seen \in SUBSET Conditions
    BY <1>2
  <2>3. Tells(answer, req[w].route, VersionOf(req[w]), req[w].seen \cup seen)
    BY <2>1, TellsMore
  <2>4. req'[w] = Done(req[w], answer, req[w].seen \cup seen)
    BY <1>1, <1>4
  <2>5. RequestOK(req[w])
    BY <1>2
  <2> QED BY <2>1, <2>2, <2>3, <2>4, <2>5, DoneIsOK
<1>5. ASSUME NEW w \in Requests, w # r, ~(Builds(r) /\ w \in Waiting(req[r]))
      PROVE  ReadOK(catalog', VersionOf(req[w])', req'[w]) /\ req'[w] = req[w]
  <2>1. req'[w] = req[w]
    BY <1>1, <1>5
  <2>2. VersionOf(req[w])' = VersionOf(req[w])
    BY <2>1 DEF VersionOf
  <2>3. ReadOK(catalog, VersionOf(req[w]), req[w])
    BY DEF ReadsOK
  <2> QED BY <2>1, <2>2, <2>3
<1>6. ReadsOK'
  BY <1>1, <1>3, <1>4, <1>5 DEF ReadsOK
<1>7. WaitersHaveABuild'
  <2>1. \A w \in Requests : w # r =>
            req'[w] = req[w] \/ (req[w].pc = "waiting" /\ req'[w].pc # "waiting")
    BY <1>4, <1>5, WaitersAskTheSame
  <2>2. ASSUME Building(req[r]), NEW w \in Requests, req'[w].pc = "waiting"
        PROVE  Key(req'[w]) # Key(req[r])
    <3>1. w # r /\ ~(Builds(r) /\ w \in Waiting(req[r])) /\ req'[w] = req[w]
      BY <1>3, <1>4, <1>5, <2>2
    <3> QED BY <2>2, <3>1, BuildersAreTold
  <2>3. req'[r].pc # "waiting"
    BY <1>3
  <2> QED BY <2>1, <2>2, <2>3, WaitersStay
<1> QED BY <1>6, <1>7

----------------------------------------------------------------------------
(***************************************************************************)
(* The steps of a request.                                                 *)
(***************************************************************************)

\* What a step of a request starts from.
Before(r) == PubTypes /\ ReadsOK /\ KeptOK /\ CacheOK /\ WaitersHaveABuild

\* What the invariant says of one request.
LEMMA OneRequest ==
  ASSUME PubTypes, ReadsOK, KeptOK, NEW r \in Requests, InProgress(req[r])
  PROVE  LET q == req[r]
             v == VersionOf(q)
         IN /\ SoFarOK(catalog, v, q) /\ StageOK(catalog, v, q) /\ RequestOK(q)
            /\ q.c \in Countries /\ v \in Versions /\ q.route \in Routes /\ q.key \in Keys
            /\ q.seen \in SUBSET Conditions /\ q.found \in BOOLEAN /\ q.matches \in BOOLEAN
            /\ Condition(catalog, q.c, v) \in q.seen
<1>1. ReadOK(catalog, VersionOf(req[r]), req[r])
  BY DEF ReadsOK
<1>2. RequestOK(req[r])
  BY <1>1 DEF ReadOK, SoFarOK
<1>3. VersionOf(req[r]) \in Versions
  BY <1>2, VersionIsOne
<1>4. /\ req[r].c \in Countries /\ req[r].route \in Routes /\ req[r].key \in Keys
      /\ req[r].seen \in SUBSET Conditions /\ req[r].found \in BOOLEAN /\ req[r].matches \in BOOLEAN
  BY <1>2 DEF RequestOK, InProgress
<1> QED BY <1>1, <1>2, <1>3, <1>4 DEF ReadOK, SoFarOK, Sees

\* An answer of the request's own (every early return of the services).
LEMMA AnswerKeeps ==
  ASSUME PubTypes, ReadsOK, KeptOK, WaitersHaveABuild, UNCHANGED <<catalog, runs>>, NEW r \in Requests,
         InProgress(req[r]), NEW answer, Answer(r, answer),
         Tells(answer, req[r].route, VersionOf(req[r]), req[r].seen)
  PROVE  ReadsOK' /\ WaitersHaveABuild' /\ cache' = cache
<1>1. req' = Answered(r, answer, req[r].seen) /\ cache' = cache
  BY DEF Answer
<1>2. req[r].seen \in SUBSET Conditions
  BY OneRequest
<1> QED BY <1>1, <1>2, AnsweredKeeps

\* An answer from a kept body is what its build saw (get_or_build).
LEMMA BodyKeeps ==
  ASSUME PubTypes, ReadsOK, KeptOK, CacheOK, WaitersHaveABuild, UNCHANGED <<catalog, runs>>,
         NEW r \in Requests, InProgress(req[r]), IsStored(req[r]), AnswerFromBody(r)
  PROVE  ReadsOK' /\ WaitersHaveABuild' /\ CacheOK'
<1> DEFINE key == BodyKey(req[r])
           b == KeptBody(key)
           seen == req[r].seen \cup b.seen
<1>1. key \in KeptBodies
  BY DEF IsStored
<1>2. b \in TrueBodies /\ b.key = key /\ Touched(key) \in Seq(TrueBodies)
  BY <1>1, KeptBodyIsTrue, TouchedIsOK
<1>3. cache' = Touched(b.key) /\ req' = Answered(r, b.body, seen)
  BY DEF AnswerFromBody
<1>4. CacheOK'
  BY <1>2, <1>3 DEF CacheOK
<1>5. req[r].seen \in SUBSET Conditions /\ VersionOf(req[r]) \in Versions
  BY OneRequest
<1>6. key[1] = req[r].route
  BY DEF BodyKey
<1> HIDE DEF b, key
<1>7. b.seen \in SUBSET Conditions /\ Tells(b.body, req[r].route, VersionOf(req[r]), b.seen)
  BY <1>2, <1>5, <1>6 DEF TrueBodies, Body
<1>8. seen \in SUBSET Conditions /\ b.seen \subseteq seen
  BY <1>5, <1>7
<1>9. Tells(b.body, req[r].route, VersionOf(req[r]), seen)
  BY <1>7, <1>8, TellsMore
<1> HIDE DEF seen
<1> QED BY <1>3, <1>4, <1>8, <1>9, AnsweredKeeps

\* A stage with nothing to show (before the route's own statement is run).
LEMMA EarlyStage ==
  ASSUME NEW cat, NEW v, NEW q, q.pc \in {"look", "join", "again", "waiting", "select", "recheck", "query", "read"},
         q.pc = "read" => cat[q.c][v].stored,
         q.pc \in {"look", "join", "again", "waiting"} => q.route \in WholeVersion
  PROVE  StageOK(cat, v, q)
BY DEF StageOK, Selected, Missed, Confirmed, HasTree, SharesBody

\* A step before the route's own statement.
LEMMA EarlyGo ==
  ASSUME PubTypes, ReadsOK, KeptOK, WaitersHaveABuild, UNCHANGED <<catalog, runs>>, NEW r \in Requests,
         InProgress(req[r]), Go(r, req'[r].pc),
         req'[r].pc \in {"look", "join", "again", "waiting", "select", "recheck", "query", "read"},
         req'[r].pc = "read" => catalog[req[r].c][VersionOf(req[r])].stored,
         req'[r].pc \in {"look", "join", "again", "waiting"} => req[r].route \in WholeVersion,
         req'[r].pc = "waiting" => BuildUnderWay(req[r]) /\ ~Building(req[r]),
         req'[r].pc \in {"look", "join", "waiting"} => ~Building(req[r])
  PROVE  ReadsOK' /\ WaitersHaveABuild'
<1> DEFINE pc == req'[r].pc
           next == [req[r] EXCEPT !.pc = pc]
<1>1. pc \in PCs \ {"idle", "done"}
  BY DEF PCs
<1>2. SoFarOK(catalog, VersionOf(req[r]), req[r])
  BY OneRequest
<1>3. next.pc = pc /\ next.c = req[r].c /\ next.route = req[r].route
  BY <1>1, <1>2, GoesOn
<1> HIDE DEF pc, next
<1>4. StageOK(catalog, VersionOf(req[r]), next)
  BY <1>3, EarlyStage DEF pc
<1> QED BY <1>1, <1>4, GoKeeps DEF pc, next

\* Where Go takes a request.
LEMMA GoesThere ==
  ASSUME ReadsOK, NEW r \in Requests, NEW pc, Go(r, pc)
  PROVE  req'[r].pc = pc
<1>1. req = [w \in Requests |-> req[w]] /\ RequestOK(req[r])
  BY DEF ReadsOK, ReadOK, SoFarOK
<1>2. req'[r] = [req[r] EXCEPT !.pc = pc]
  BY <1>1 DEF Go
<1> QED BY <1>1, <1>2 DEF RequestOK

\* What every step of a request leaves as it is.
Quiet == UNCHANGED <<catalog, runs>>

\* Both looks at the kept responses (v2/metadata_response_cache.py get_or_build).
LEMMA LookKeeps ==
  ASSUME PubTypes, ReadsOK, KeptOK, CacheOK, WaitersHaveABuild, Quiet, NEW r \in Requests,
         Look(r) \/ LookAgain(r)
  PROVE  ReadsOK' /\ WaitersHaveABuild' /\ CacheOK' /\ UNCHANGED kept
<1>0. UNCHANGED <<catalog, runs>>
  BY DEF Quiet
<1>1. InProgress(req[r]) /\ UNCHANGED kept
  BY DEF Look, LookAgain, InProgress
<1>2. CASE IsStored(req[r])
  <2>1. AnswerFromBody(r)
    BY <1>2 DEF Look, LookAgain
  <2> QED BY <1>0, <1>1, <1>2, <2>1, BodyKeeps
<1>3. CASE ~IsStored(req[r])
  <2>1. UNCHANGED cache
    BY <1>3 DEF Look, LookAgain
  <2>2. CASE Look(r)
    <3>1. Go(r, "join") /\ req[r].pc = "look"
      BY <1>3, <2>2 DEF Look
    <3>2. req'[r].pc = "join"
      BY <3>1, GoesThere
    <3>3. req[r].route \in WholeVersion
      BY <3>1, <1>1, OneRequest DEF StageOK, SharesBody
    <3>4. ~Building(req[r])
      BY <3>1 DEF Building
    <3> QED BY <1>0, <1>1, <2>1, <3>1, <3>2, <3>3, <3>4, EarlyGo DEF CacheOK
  <2>3. CASE LookAgain(r)
    <3>1. Go(r, "select")
      BY <1>3, <2>3 DEF LookAgain
    <3>2. req'[r].pc = "select"
      BY <3>1, GoesThere
    <3> QED BY <1>0, <1>1, <2>1, <3>1, <3>2, EarlyGo DEF CacheOK
  <2> QED BY <2>2, <2>3
<1> QED BY <1>2, <1>3

\* A request waits only for a build under way (get_or_build's future).
LEMMA JoinKeeps ==
  ASSUME PubTypes, ReadsOK, KeptOK, CacheOK, WaitersHaveABuild, Quiet, NEW r \in Requests, Join(r)
  PROVE  ReadsOK' /\ WaitersHaveABuild' /\ CacheOK' /\ UNCHANGED kept
<1>0. UNCHANGED <<catalog, runs>>
  BY DEF Quiet
<1>1. InProgress(req[r]) /\ UNCHANGED <<kept, cache>> /\ req[r].pc = "join" /\ ~Building(req[r])
  BY DEF Join, InProgress, Building
<1> DEFINE pc == IF BuildUnderWay(req[r]) THEN "waiting" ELSE "again"
<1>2. Go(r, pc)
  BY DEF Join
<1>3. req'[r].pc = pc
  BY <1>2, GoesThere
<1>4. req[r].route \in WholeVersion
  BY <1>1, OneRequest DEF StageOK, SharesBody
<1>5. pc \in {"waiting", "again"} /\ (pc = "waiting" => BuildUnderWay(req[r]))
  OBVIOUS
<1> HIDE DEF pc
<1>6. Go(r, req'[r].pc)
  BY <1>2, <1>3
<1> QED BY <1>0, <1>1, <1>3, <1>4, <1>5, <1>6, EarlyGo DEF CacheOK

\* Only a selection of a stored version is used (MetadataCatalogSelection.select).
LEMMA SelectKeeps ==
  ASSUME PubTypes, ReadsOK, KeptOK, CacheOK, WaitersHaveABuild, Quiet, NEW r \in Requests, Select(r)
  PROVE  ReadsOK' /\ WaitersHaveABuild' /\ CacheOK' /\ UNCHANGED kept
<1>0. UNCHANGED <<catalog, runs>>
  BY DEF Quiet
<1>1. InProgress(req[r]) /\ UNCHANGED <<kept, cache>>
  BY DEF Select, InProgress
<1> DEFINE k == kept[SelectionKey(req[r])]
<1>2. \/ Go(r, "query") \/ Go(r, "recheck")
      \/ Go(r, "read") /\ k # "none"
  BY DEF Select
<1>3. PICK pc \in {"query", "recheck", "read"} : Go(r, pc) /\ (pc = "read" => k # "none")
  BY <1>2
<1>4. req'[r].pc = pc
  BY <1>3, GoesThere
<1>5. k # "none" => catalog[req[r].c][VersionOf(req[r])].stored
  <2>1. req[r].c \in Countries /\ req[r].key \in Keys
    BY <1>1, OneRequest
  <2>2. k # "none" => VersionOf(req[r]) \in Stored(req[r].c)
    BY <2>1 DEF KeptOK, SelectionKey, VersionOf
  <2> QED BY <2>2 DEF Stored
<1>6. Go(r, req'[r].pc)
  BY <1>3, <1>4
<1> HIDE DEF k
<1> QED BY <1>0, <1>1, <1>3, <1>4, <1>5, <1>6, EarlyGo DEF CacheOK

\* 503 for a pruned version only when its marker was read (require_unpruned, select).
LEMMA RecheckKeeps ==
  ASSUME PubTypes, ReadsOK, KeptOK, CacheOK, WaitersHaveABuild, Quiet, NEW r \in Requests, Recheck(r)
  PROVE  ReadsOK' /\ WaitersHaveABuild' /\ CacheOK' /\ UNCHANGED kept
<1>0. UNCHANGED <<catalog, runs>>
  BY DEF Quiet
<1>1. InProgress(req[r]) /\ UNCHANGED kept
  BY DEF Recheck, InProgress
<1>2. CASE Marked(req[r])
  <2>1. Answer(r, "pruned")
    BY <1>2 DEF Recheck
  <2>2. "pruned" \in req[r].seen
    BY <1>1, <1>2, OneRequest, ConditionFacts DEF Marked
  <2>3. Tells("pruned", req[r].route, VersionOf(req[r]), req[r].seen)
    BY <2>2 DEF Tells
  <2> QED BY <1>0, <1>1, <2>1, <2>3, AnswerKeeps DEF CacheOK
<1>3. CASE ~Marked(req[r])
  <2>1. Go(r, "query") /\ UNCHANGED cache
    BY <1>3 DEF Recheck
  <2>2. req'[r].pc = "query"
    BY <2>1, GoesThere
  <2> QED BY <1>0, <1>1, <2>1, <2>2, EarlyGo DEF CacheOK
<1> QED BY <1>2, <1>3

\* Only a version that is found is selected and kept (read_metadata_catalog).
LEMMA QueryKeeps ==
  ASSUME PubTypes, ReadsOK, KeptOK, CacheOK, WaitersHaveABuild, Quiet, NEW r \in Requests, Query(r)
  PROVE  ReadsOK' /\ WaitersHaveABuild' /\ CacheOK' /\ KeptOK'
<1>0. UNCHANGED <<catalog, runs>>
  BY DEF Quiet
<1>1. InProgress(req[r])
  BY DEF Query, InProgress
<1> DEFINE q == req[r]
           row == catalog[q.c][VersionOf(q)]
<1>2. /\ q.c \in Countries /\ VersionOf(q) \in Versions /\ q.key \in Keys
      /\ Condition(catalog, q.c, VersionOf(q)) \in q.seen
  BY <1>1, OneRequest
<1>3. KeptOK'
  <2>1. \A c \in Countries : Stored(c)' = Stored(c)
    BY <1>0 DEF Stored
  <2>2. kept' = IF row.stored
                THEN [kept EXCEPT ![<<q.c, q.key>>] = IF row.pruned THEN "pruned" ELSE "clear"]
                ELSE kept
    BY DEF Query, SelectionKey
  <2>3. row.stored => VersionOf(q) \in Stored(q.c)
    BY <1>2 DEF Stored
  <2>4. /\ kept = [k \in Countries \X Keys |-> kept[k]] /\ runs \in Versions /\ \A c \in Countries : runs \in Stored(c)
        /\ \A c \in Countries, key \in Keys : kept[<<c, key>>] # "none" =>
              (IF key = Running THEN runs ELSE key) \in Stored(c)
    BY DEF KeptOK
  <2>5. VersionOf(q) = IF q.key = Running THEN runs ELSE q.key
    BY DEF VersionOf
  <2> HIDE DEF q, row
  <2>6. kept' = [k \in Countries \X Keys |-> kept'[k]]
    BY <2>2, <2>4
  <2>7. ASSUME NEW c \in Countries, NEW key \in Keys, kept'[<<c, key>>] # "none"
        PROVE  (IF key = Running THEN runs ELSE key) \in Stored(c)
    <3>1. CASE kept'[<<c, key>>] = kept[<<c, key>>]
      BY <2>4, <2>7, <3>1
    <3>2. CASE kept'[<<c, key>>] # kept[<<c, key>>]
      <4>1. row.stored /\ <<c, key>> = <<q.c, q.key>>
        BY <2>2, <2>4, <3>2
      <4>2. c = q.c /\ key = q.key
        BY <4>1
      <4> QED BY <2>3, <2>5, <4>1, <4>2
    <3> QED BY <3>1, <3>2
  <2> QED BY <1>0, <2>1, <2>4, <2>6, <2>7 DEF KeptOK
<1>4. CASE ~row.stored /\ Answer(r, "absent")
  <2>1. "absent" \in q.seen
    BY <1>2, <1>4, ConditionFacts
  <2>2. Tells("absent", q.route, VersionOf(q), q.seen)
    BY <2>1 DEF Tells
  <2> QED BY <1>0, <1>1, <1>3, <1>4, <2>2, AnswerKeeps DEF CacheOK
<1>5. CASE row.stored /\ row.pruned /\ Answer(r, "pruned")
  <2>1. "pruned" \in q.seen
    BY <1>2, <1>5, ConditionFacts
  <2>2. Tells("pruned", q.route, VersionOf(q), q.seen)
    BY <2>1 DEF Tells
  <2> QED BY <1>0, <1>1, <1>3, <1>5, <2>2, AnswerKeeps DEF CacheOK
<1>6. CASE row.stored /\ Go(r, "read") /\ UNCHANGED cache
  <2>1. req'[r].pc = "read"
    BY <1>6, GoesThere
  <2> QED BY <1>0, <1>1, <1>3, <1>6, <2>1, EarlyGo DEF CacheOK
<1> QED BY <1>4, <1>5, <1>6 DEF Query

\* The route's own statement (the readers of data/v2/catalog).
LEMMA ReadKeeps ==
  ASSUME PubTypes, ReadsOK, KeptOK, CacheOK, WaitersHaveABuild, Quiet, NEW r \in Requests, Read(r)
  PROVE  ReadsOK' /\ WaitersHaveABuild' /\ CacheOK' /\ UNCHANGED kept
<1>0. UNCHANGED <<catalog, runs>>
  BY DEF Quiet
<1>1. req[r].pc = "read" /\ InProgress(req[r]) /\ Building(req[r]) /\ UNCHANGED <<kept, cache>>
  BY DEF Read, InProgress, Building
<1> DEFINE q == req[r]
           v == VersionOf(q)
           row == catalog[q.c][v]
           pc == IF ReadsPrunedData(q.route) THEN "verify" ELSE "serialize"
           found == q.matches /\ Needs(q.route) \subseteq row.data
           next == [q EXCEPT !.pc = pc, !.found = found]
<1>2. /\ SoFarOK(catalog, v, q) /\ StageOK(catalog, v, q) /\ RequestOK(q)
      /\ q.c \in Countries /\ v \in Versions /\ q.route \in Routes
      /\ q.matches \in BOOLEAN /\ Condition(catalog, q.c, v) \in q.seen
  BY <1>1, OneRequest
<1>3. req = [w \in Requests |-> req[w]]
  BY DEF ReadsOK
<1>4. req' = [req EXCEPT ![r] = next]
  BY <1>3 DEF Read
<1>5. /\ next.pc = pc /\ next.route = q.route /\ next.c = q.c /\ next.key = q.key
      /\ next.matches = q.matches /\ next.found = found /\ next.seen = q.seen
      /\ next.answer = q.answer
  BY <1>2 DEF RequestOK
<1>6. next \in [pc: PCs, route: Routes, c: {q.c}, key: Versions \cup {Running}, matches: BOOLEAN,
                revalidates: BOOLEAN, found: BOOLEAN, answer: {q.answer}, seen: SUBSET Conditions]
  <2>1. pc \in PCs /\ found \in BOOLEAN
    BY <1>2 DEF PCs
  <2> HIDE DEF pc, found
  <2> QED BY <1>2, <2>1 DEF RequestOK
<1> HIDE DEF next
<1>7. pc \in {"verify", "serialize"} /\ (pc = "verify" <=> ReadsPrunedData(q.route))
  OBVIOUS
<1>8. RequestOK(next) /\ InProgress(next)
  BY <1>1, <1>2, <1>5, <1>6, <1>7 DEF RequestOK, InProgress
\* What was found shows how the version is.
<1>9. /\ found /\ ReadsPrunedData(q.route) => "whole" \in q.seen
      /\ q.matches /\ ~found =>
            ReadsPrunedData(q.route) /\ (Needs(q.route) \subseteq DataOf(v) => "pruned" \in q.seen)
  <2>1. row.stored
    BY <1>1, <1>2 DEF StageOK, Selected
  <2>2. /\ row.data # {} => "whole" \in q.seen
        /\ row.pruned => "pruned" \in q.seen
        /\ ~row.pruned => row.data = DataOf(v)
    BY <1>2, <2>1, ConditionFacts
  <2>3. ReadsPrunedData(q.route) <=> Needs(q.route) # {}
    BY <1>2, RouteFacts
  <2> HIDE DEF row, v, q
  <2> QED BY <2>2, <2>3
<1> HIDE DEF found, pc
<1>10. SoFarOK(catalog, v, next)
  BY <1>1, <1>2, <1>5, <1>8, <1>9 DEF SoFarOK, Answers, Sees, FoundRows, FileMatches, InProgress
<1>11. StageOK(catalog, v, next)
  <2>1. Selected(catalog, v, next) /\ Missed(v, next) /\ SharesBody(next)
    BY <1>1, <1>2, <1>5, <1>7, <1>9 DEF StageOK, Selected, Missed, SharesBody
  <2>2. Confirmed(next)
    BY <1>5, <1>7 DEF Confirmed
  <2>3. HasTree(v, next)
    <3>1. q.route \in TreeRoutes => ReadsPrunedData(q.route)
      BY <1>2, RouteFacts
    <3> QED BY <1>5, <1>7, <3>1 DEF HasTree
  <2> QED BY <2>1, <2>2, <2>3 DEF StageOK
<1>12. VersionOf(next) = v /\ Key(next) = Key(q)
  BY <1>5 DEF VersionOf, Key
<1>13. ReadOK(catalog, VersionOf(next), next)
  BY <1>10, <1>11, <1>12 DEF ReadOK
<1>14. Building(next) /\ next.pc # "waiting"
  BY <1>5, <1>7 DEF Building
<1>15. ReadsOK' /\ WaitersHaveABuild'
  BY <1>0, <1>4, <1>12, <1>13, <1>14, OneGoesOn
<1> QED BY <1>1, <1>15 DEF CacheOK

\* A read that found nothing reads the marker again (require_unpruned).
LEMMA VerifyKeeps ==
  ASSUME PubTypes, ReadsOK, KeptOK, CacheOK, WaitersHaveABuild, Quiet, NEW r \in Requests, Verify(r)
  PROVE  ReadsOK' /\ WaitersHaveABuild' /\ CacheOK' /\ UNCHANGED kept
<1>0. UNCHANGED <<catalog, runs>>
  BY DEF Quiet
<1>1. req[r].pc = "verify" /\ InProgress(req[r]) /\ UNCHANGED kept
  BY DEF Verify, InProgress
<1> DEFINE q == req[r]
           v == VersionOf(q)
           pc == IF q.route \in TreeRoutes /\ ~q.found THEN "written" ELSE "serialize"
           next == [q EXCEPT !.pc = pc]
<1>2. /\ SoFarOK(catalog, v, q) /\ StageOK(catalog, v, q)
      /\ q.c \in Countries /\ v \in Versions /\ q.route \in Routes
      /\ q.found \in BOOLEAN /\ Condition(catalog, q.c, v) \in q.seen
  BY <1>1, OneRequest
<1>3. CASE ~RequireUnpruned(q)
  <2>1. Answer(r, "pruned") /\ Marked(q)
    BY <1>3 DEF Verify, RequireUnpruned
  <2>2. "pruned" \in q.seen
    BY <1>2, <2>1, ConditionFacts DEF Marked
  <2>3. Tells("pruned", q.route, v, q.seen)
    BY <2>2 DEF Tells
  <2> QED BY <1>0, <1>1, <2>1, <2>3, AnswerKeeps DEF CacheOK
<1>4. CASE RequireUnpruned(q)
  <2>1. Go(r, pc) /\ UNCHANGED cache
    BY <1>4 DEF Verify
  <2>2. /\ pc \in {"written", "serialize"} /\ (pc = "written" <=> q.route \in TreeRoutes /\ ~q.found)
        /\ pc \in PCs \ {"idle", "done"}
    BY DEF PCs
  <2>3. /\ next.pc = pc /\ next.route = q.route /\ next.c = q.c
        /\ next.matches = q.matches /\ next.found = q.found /\ next.seen = q.seen
    BY <1>1, <1>2, <2>2, GoesOn
  <2>4. ~q.found /\ ~NeedsNoRows(q) => "whole" \in q.seen
    <3>1. catalog[q.c][v].stored
      BY <1>1, <1>2 DEF StageOK, Selected
    <3>2. ~q.found /\ ~NeedsNoRows(q) => ~catalog[q.c][v].pruned
      BY <1>4 DEF RequireUnpruned, RowsFound, NeedsNoRows, Marked
    <3> QED BY <1>2, <3>1, <3>2, ConditionFacts
  <2> HIDE DEF next, pc
  <2>5. Selected(catalog, v, next) /\ Missed(v, next) /\ SharesBody(next)
    BY <1>1, <1>2, <2>2, <2>3 DEF StageOK, Selected, Missed, SharesBody
  <2>6. Confirmed(next)
    BY <2>2, <2>3, <2>4 DEF Confirmed, NeedsNoRows
  <2>7. HasTree(v, next)
    BY <2>2, <2>3 DEF HasTree
  <2>8. StageOK(catalog, v, next)
    BY <2>5, <2>6, <2>7 DEF StageOK
  <2>9. ReadsOK' /\ WaitersHaveABuild'
    BY <1>0, <1>1, <2>1, <2>2, <2>8, GoKeeps DEF next
  <2> QED BY <1>1, <2>1, <2>9 DEF CacheOK
<1> QED BY <1>3, <1>4

\* An empty level of the tree is told from a version without one
\* (read_parameter_tree_written).
LEMMA WrittenKeeps ==
  ASSUME PubTypes, ReadsOK, KeptOK, CacheOK, WaitersHaveABuild, Quiet, NEW r \in Requests, Written(r)
  PROVE  ReadsOK' /\ WaitersHaveABuild' /\ CacheOK' /\ UNCHANGED kept
<1>0. UNCHANGED <<catalog, runs>>
  BY DEF Quiet
<1>1. req[r].pc = "written" /\ InProgress(req[r]) /\ UNCHANGED kept
  BY DEF Written, InProgress
<1> DEFINE q == req[r]
           v == VersionOf(q)
           row == catalog[q.c][v]
           next == [q EXCEPT !.pc = "serialize"]
<1>2. /\ SoFarOK(catalog, v, q) /\ StageOK(catalog, v, q)
      /\ q.c \in Countries /\ v \in Versions /\ q.route \in Routes
      /\ Condition(catalog, q.c, v) \in q.seen
  BY <1>1, OneRequest
<1>3. row.stored
  BY <1>1, <1>2 DEF StageOK, Selected
<1>4. /\ row.data # {} => row.data = DataOf(v)
      /\ row.pruned => "pruned" \in q.seen
      /\ ~row.pruned => row.data = DataOf(v)
  BY <1>2, <1>3, ConditionFacts
<1>5. q.route \in TreeRoutes /\ ~q.found
  BY <1>1, <1>2 DEF StageOK, HasTree
<1>6. Needs(q.route) = {"tree"} /\ ReadsPrunedData(q.route) /\ q.route \notin CatalogVariables \cup CatalogParameters
  BY <1>2, <1>5, RouteFacts
<1>7. "whole" \in q.seen
  BY <1>1, <1>2, <1>5, <1>6 DEF StageOK, Confirmed, NeedsNoRows
<1>8. CASE "tree" \in row.data
  <2>1. Go(r, "serialize") /\ UNCHANGED cache
    BY <1>8 DEF Written
  <2>2. "serialize" \in PCs \ {"idle", "done"}
    BY DEF PCs
  <2>3. /\ next.pc = "serialize" /\ next.route = q.route /\ next.c = q.c
        /\ next.matches = q.matches /\ next.found = q.found /\ next.seen = q.seen
    BY <1>1, <1>2, <2>2, GoesOn
  <2>4. "tree" \in DataOf(v)
    BY <1>4, <1>8
  <2> HIDE DEF next
  <2>5. StageOK(catalog, v, next)
    BY <1>1, <1>2, <1>7, <2>3, <2>4 DEF StageOK, Selected, Missed, Confirmed, HasTree, SharesBody
  <2>6. ReadsOK' /\ WaitersHaveABuild'
    BY <1>0, <1>1, <2>1, <2>2, <2>5, GoKeeps DEF next
  <2> QED BY <1>1, <2>1, <2>6 DEF CacheOK
<1>9. CASE "tree" \notin row.data
  <2>1. Answer(r, "unavailable")
    BY <1>9 DEF Written
  <2>2. Needs(q.route) \subseteq DataOf(v) => "pruned" \in q.seen
    BY <1>4, <1>6, <1>9
  <2>3. Tells("unavailable", q.route, v, q.seen)
    BY <1>7, <2>2 DEF Tells
  <2> QED BY <1>0, <1>1, <2>1, <2>3, AnswerKeeps DEF CacheOK
<1> QED BY <1>8, <1>9

\* What a result holds is true of what was seen (the services' "missing" is the version's
\* data pruned before the read and restored before the marker was read again).
LEMMA ResultIsTrue ==
  ASSUME PubTypes, ReadsOK, KeptOK, NEW r \in Requests, req[r].pc = "serialize"
  PROVE  LET q == req[r]
         IN Tells(Result(q), q.route, VersionOf(q), q.seen)
<1> DEFINE q == req[r]
           v == VersionOf(q)
<1>1. InProgress(q)
  BY DEF InProgress
<1>2. /\ SoFarOK(catalog, v, q) /\ StageOK(catalog, v, q)
      /\ q.c \in Countries /\ v \in Versions /\ q.route \in Routes
      /\ q.found \in BOOLEAN /\ q.matches \in BOOLEAN
  BY <1>1, OneRequest
<1>3. "values" \in DataOf(v)
  BY DEF DataOf, Data
<1>4. CASE q.found
  <2>1. ReadsPrunedData(q.route) => "whole" \in q.seen
    BY <1>1, <1>2, <1>4 DEF SoFarOK, FoundRows
  <2> QED BY <1>4, <2>1 DEF Result, Tells
<1>5. CASE ~q.found /\ q.matches
  <2>1. ReadsPrunedData(q.route) /\ (Needs(q.route) \subseteq DataOf(v) => "pruned" \in q.seen)
    BY <1>2, <1>5 DEF StageOK, Missed
  <2>2. "whole" \in q.seen
    BY <1>2, <1>5, <2>1 DEF StageOK, Confirmed, NeedsNoRows
  <2>3. CASE q.route \in SearchFileRoutes
    <3>1. Result(q) = "unavailable"
      BY <1>5, <2>3 DEF Result
    <3> QED BY <2>1, <2>2, <3>1 DEF Tells
  <2>4. CASE q.route \notin SearchFileRoutes
    <3>1. Result(q) = "missing"
      BY <1>5, <2>4 DEF Result
    <3>2. q.route \in TreeRoutes => "tree" \in DataOf(v)
      BY <1>2, <1>5 DEF StageOK, HasTree
    <3>3. Needs(q.route) \subseteq DataOf(v)
      BY <1>2, <1>3, <2>4, <3>2, RouteFacts
    <3> QED BY <2>1, <2>2, <3>1, <3>3 DEF Tells
  <2> QED BY <2>3, <2>4
<1>6. CASE ~q.found /\ ~q.matches
  <2>1. q.route \notin SearchFileRoutes
    BY <1>1, <1>2, <1>6 DEF SoFarOK, FileMatches
  <2> QED BY <1>6, <2>1 DEF Result, Tells
<1> QED BY <1>2, <1>4, <1>5, <1>6

\* A build's body is kept as it was built (MetadataResponseCache._keep).
LEMMA BuiltBodyIsTrue ==
  ASSUME PubTypes, ReadsOK, KeptOK, NEW r \in Requests, req[r].pc = "serialize", Builds(r)
  PROVE  NewBody(req[r], Result(req[r])) \in TrueBodies
<1> DEFINE q == req[r]
           b == NewBody(q, Result(q))
<1>1. InProgress(q) /\ q.route \in WholeVersion
  BY DEF InProgress, Builds
<1>2. /\ q.c \in Countries /\ VersionOf(q) \in Versions /\ q.route \in Routes
      /\ q.seen \in SUBSET Conditions
  BY <1>1, OneRequest
<1>3. Tells(Result(q), q.route, VersionOf(q), q.seen)
  BY ResultIsTrue
<1>4. q.route \notin SearchFileRoutes
  BY <1>1, <1>2, RouteFacts
<1>5. Result(q) \in {"rows", "missing", "empty"}
  BY <1>4 DEF Result
<1>6. b.body = Result(q) /\ b.seen = q.seen /\ b.key = <<q.route, q.c, VersionOf(q)>> /\ b.key[1] = q.route
  BY DEF NewBody, BodyKey
<1>7. b \in Body
  BY <1>1, <1>2, <1>5 DEF Body, NewBody, BodyKey
<1>8. \A v \in Versions : Tells(Result(q), q.route, v, q.seen)
  BY <1>3, <1>5 DEF Tells
<1> HIDE DEF b
<1>9. b \in TrueBodies
  BY <1>6, <1>7, <1>8 DEF TrueBodies
<1> QED BY <1>9 DEF b

\* The answer, from the body kept first, or a revalidating request's second read.
LEMMA SerializeKeeps ==
  ASSUME PubTypes, ReadsOK, KeptOK, CacheOK, WaitersHaveABuild, Quiet, NEW r \in Requests, Serialize(r)
  PROVE  ReadsOK' /\ WaitersHaveABuild' /\ CacheOK' /\ UNCHANGED kept
<1>0. UNCHANGED <<catalog, runs>>
  BY DEF Quiet
<1>1. req[r].pc = "serialize" /\ InProgress(req[r]) /\ Building(req[r]) /\ UNCHANGED kept
  BY DEF Serialize, InProgress, Building
<1> DEFINE q == req[r]
           v == VersionOf(q)
<1>2. /\ SoFarOK(catalog, v, q) /\ StageOK(catalog, v, q) /\ RequestOK(q)
      /\ q.c \in Countries /\ v \in Versions /\ q.route \in Routes
      /\ q.seen \in SUBSET Conditions
  BY <1>1, OneRequest
<1>3. Tells(Result(q), q.route, v, q.seen)
  BY <1>1, ResultIsTrue
<1>4. CASE Succeed(r, Result(q)) /\ ~Builds(r)
  <2>1. Answer(r, Result(q))
    BY <1>4 DEF Succeed
  <2> QED BY <1>0, <1>1, <1>3, <2>1, AnswerKeeps DEF CacheOK
<1>5. CASE Succeed(r, Result(q)) /\ Builds(r)
  <2> DEFINE b == cache'[Len(cache')]
             seen == q.seen \cup b.seen
  <2>1. cache' = Keep(q, Result(q)) /\ req' = Answered(r, b.body, seen)
    BY <1>5 DEF Succeed
  <2>2. NewBody(q, Result(q)) \in TrueBodies
    BY <1>1, <1>5, BuiltBodyIsTrue
  <2>3. cache' \in Seq(TrueBodies) /\ b \in TrueBodies /\ b.key = BodyKey(q)
    BY <2>1, <2>2, KeepIsOK
  <2>4. CacheOK'
    BY <2>3 DEF CacheOK
  <2>5. BodyKey(q)[1] = q.route
    BY DEF BodyKey
  <2> HIDE DEF b
  <2>6. b.seen \in SUBSET Conditions /\ Tells(b.body, q.route, v, b.seen)
    BY <1>2, <2>3, <2>5 DEF TrueBodies, Body
  <2>7. seen \in SUBSET Conditions /\ b.seen \subseteq seen
    BY <1>2, <2>6
  <2>8. Tells(b.body, q.route, v, seen)
    BY <2>6, <2>7, TellsMore
  <2> HIDE DEF seen
  <2>9. ReadsOK' /\ WaitersHaveABuild'
    BY <1>0, <1>1, <2>1, <2>7, <2>8, AnsweredKeeps
  <2> QED BY <1>1, <2>4, <2>9
<1>6. CASE /\ req' = [req EXCEPT ![r].pc = "select", ![r].revalidates = FALSE]
           /\ UNCHANGED cache
  <2> DEFINE next == [q EXCEPT !.pc = "select", !.revalidates = FALSE]
  <2>1. req = [w \in Requests |-> req[w]]
    BY DEF ReadsOK
  <2>2. req' = [req EXCEPT ![r] = next]
    BY <1>6, <2>1
  <2>3. /\ next.pc = "select" /\ next.route = q.route /\ next.c = q.c /\ next.key = q.key
        /\ next.matches = q.matches /\ next.found = q.found /\ next.seen = q.seen
        /\ next.answer = q.answer
    BY <1>2 DEF RequestOK
  <2>4. next \in [pc: PCs, route: Routes, c: {q.c}, key: Versions \cup {Running}, matches: BOOLEAN,
                  revalidates: BOOLEAN, found: BOOLEAN, answer: {q.answer}, seen: SUBSET Conditions]
    BY <1>2 DEF RequestOK, PCs
  <2> HIDE DEF next
  <2>5. RequestOK(next) /\ InProgress(next)
    BY <1>1, <1>2, <2>3, <2>4 DEF RequestOK, InProgress
  <2>6. SoFarOK(catalog, v, next)
    BY <1>1, <1>2, <2>3, <2>5 DEF SoFarOK, Answers, Sees, FoundRows, FileMatches, InProgress
  <2>7. StageOK(catalog, v, next)
    BY <2>3, EarlyStage
  <2>8. VersionOf(next) = v /\ Key(next) = Key(q) /\ Building(next)
    BY <2>3 DEF VersionOf, Key, Building
  <2>9. ReadOK(catalog, VersionOf(next), next) /\ next.pc # "waiting"
    BY <2>3, <2>6, <2>7, <2>8 DEF ReadOK
  <2>10. ReadsOK' /\ WaitersHaveABuild'
    BY <1>0, <2>2, <2>8, <2>9, OneGoesOn
  <2> QED BY <1>1, <1>6, <2>10 DEF CacheOK
<1> QED BY <1>4, <1>5, <1>6 DEF Serialize

\* A failed statement answers 500, also to those that wait (get_or_build's finally).
LEMMA ReadFailsKeeps ==
  ASSUME PubTypes, ReadsOK, KeptOK, CacheOK, WaitersHaveABuild, Quiet, NEW r \in Requests, ReadFails(r)
  PROVE  ReadsOK' /\ WaitersHaveABuild' /\ CacheOK' /\ UNCHANGED kept
<1>0. UNCHANGED <<catalog, runs>>
  BY DEF Quiet
<1>1. InProgress(req[r]) /\ Answer(r, "error") /\ UNCHANGED kept
  BY DEF ReadFails, InProgress
<1>2. Tells("error", req[r].route, VersionOf(req[r]), req[r].seen)
  BY DEF Tells
<1> QED BY <1>0, <1>1, <1>2, AnswerKeeps DEF CacheOK

\* A build that raises sends those that wait for it back to the start.
LEMMA BuildRaisesKeeps ==
  ASSUME PubTypes, ReadsOK, KeptOK, CacheOK, WaitersHaveABuild, Quiet, NEW r \in Requests, BuildRaises(r)
  PROVE  ReadsOK' /\ WaitersHaveABuild' /\ CacheOK' /\ UNCHANGED kept
<1>0. UNCHANGED <<catalog, runs, kept, cache>> /\ InProgress(req[r]) /\ req[r].route \in WholeVersion /\ Builds(r)
  BY DEF Quiet, BuildRaises, InProgress, Builds
<1>1. /\ req' = [w \in Requests |-> req'[w]]
      /\ req'[r] = Done(req[r], "error", req[r].seen)
      /\ \A w \in Requests : w # r =>
            req'[w] = IF w \in Waiting(req[r]) THEN [req[w] EXCEPT !.pc = "look"] ELSE req[w]
  BY DEF BuildRaises
<1>2. ReadOK(catalog', VersionOf(req[r])', req'[r]) /\ req'[r].pc = "done"
  <2>1. RequestOK(req[r]) /\ req[r].seen \in SUBSET Conditions
    BY <1>0, OneRequest
  <2>2. Tells("error", req[r].route, VersionOf(req[r]), req[r].seen)
    BY DEF Tells
  <2> QED BY <1>0, <1>1, <2>1, <2>2, DoneIsOK
<1>3. ASSUME NEW w \in Requests, w # r, w \in Waiting(req[r])
      PROVE  ReadOK(catalog', VersionOf(req[w])', req'[w]) /\ req'[w].pc = "look"
  <2> DEFINE next == [req[w] EXCEPT !.pc = "look"]
  <2>1. InProgress(req[w]) /\ req[w].route \in WholeVersion
    BY <1>0, <1>3, WaitersAskTheSame
  <2>2. SoFarOK(catalog, VersionOf(req[w]), req[w]) /\ "look" \in PCs \ {"idle", "done"}
    BY <2>1, OneRequest DEF PCs
  <2>3. /\ SoFarOK(catalog, VersionOf(req[w]), next) /\ next.pc = "look" /\ next.route = req[w].route
        /\ next.key = req[w].key
    BY <2>1, <2>2, GoesOn
  <2>4. req'[w] = next
    BY <1>1, <1>3
  <2> HIDE DEF next
  <2>5. StageOK(catalog, VersionOf(req[w]), next)
    BY <2>1, <2>3, EarlyStage
  <2>6. VersionOf(req[w])' = VersionOf(req[w])
    BY <1>0, <2>3, <2>4 DEF VersionOf
  <2> QED BY <1>0, <2>3, <2>4, <2>5, <2>6 DEF ReadOK
<1>4. ASSUME NEW w \in Requests, w # r, w \notin Waiting(req[r])
      PROVE  ReadOK(catalog', VersionOf(req[w])', req'[w]) /\ req'[w] = req[w]
  <2>1. req'[w] = req[w]
    BY <1>1, <1>4
  <2>2. VersionOf(req[w])' = VersionOf(req[w])
    BY <1>0, <2>1 DEF VersionOf
  <2>3. ReadOK(catalog, VersionOf(req[w]), req[w])
    BY DEF ReadsOK
  <2> QED BY <1>0, <2>1, <2>2, <2>3
<1>5. ReadsOK'
  BY <1>1, <1>2, <1>3, <1>4 DEF ReadsOK
<1>6. WaitersHaveABuild'
  <2>1. \A w \in Requests : w # r =>
            req'[w] = req[w] \/ (req[w].pc = "waiting" /\ req'[w].pc # "waiting")
    BY <1>3, <1>4, WaitersAskTheSame
  <2>2. ASSUME Building(req[r]), NEW w \in Requests, req'[w].pc = "waiting"
        PROVE  Key(req'[w]) # Key(req[r])
    <3>1. w # r /\ w \notin Waiting(req[r]) /\ req'[w] = req[w]
      BY <1>2, <1>3, <1>4, <2>2
    <3> QED BY <2>2, <3>1, BuildersAreTold
  <2>3. req'[r].pc # "waiting"
    BY <1>2
  <2> QED BY <2>1, <2>2, <2>3, WaitersStay
<1> QED BY <1>0, <1>5, <1>6 DEF CacheOK

\* A request arrives with rows that exist or not (the routers' parameters).
LEMMA ArriveKeeps ==
  ASSUME PubTypes, ReadsOK, KeptOK, CacheOK, WaitersHaveABuild, Quiet, NEW r \in Requests, Arrive(r)
  PROVE  ReadsOK' /\ WaitersHaveABuild' /\ CacheOK' /\ UNCHANGED kept
<1>0. UNCHANGED <<catalog, runs, kept, cache>> /\ ~Building(req[r])
  BY DEF Quiet, Arrive, Building
<1>1. PICK route \in Routes \cap budget.routes, c \in Countries, key \in Asked \cup {Running},
           matches \in BOOLEAN, revalidates \in BOOLEAN :
        LET v == IF key = Running THEN runs ELSE key
        IN /\ (~ReadsPrunedData(route) \/ route \in SearchFileRoutes) => matches
           /\ route \in CatalogVariables => (matches <=> v \notin NoParts)
           /\ revalidates => route \in SearchFileRoutes
           /\ req' = [req EXCEPT ![r] =
                [Idle EXCEPT !.pc = IF route \in WholeVersion THEN "look" ELSE "select",
                             !.route = route, !.c = c, !.key = key, !.matches = matches,
                             !.revalidates = revalidates,
                             !.seen = {Condition(catalog, c, v)}]]
  BY Zenon DEF Arrive
<1>1a. route \in Routes /\ key \in Keys
  BY DEF Keys
<1> DEFINE v == IF key = Running THEN runs ELSE key
           pc == IF route \in WholeVersion THEN "look" ELSE "select"
           condition == Condition(catalog, c, v)
           next == [Idle EXCEPT !.pc = pc, !.route = route, !.c = c, !.key = key, !.matches = matches,
                                !.revalidates = revalidates, !.seen = {condition}]
<1>2. v \in Versions
  BY <1>1a, ReadsAssumption DEF Keys, KeptOK, ReadsAssumption
<1>3. condition \in Conditions
  BY <1>2, ConditionFacts
<1>4. req' = [req EXCEPT ![r] = next]
  BY <1>1
<1>5. pc \in {"look", "select"} /\ (pc = "look" => route \in WholeVersion)
  OBVIOUS
<1> HIDE DEF v, pc, condition
<1>6. /\ next.pc = pc /\ next.route = route /\ next.c = c /\ next.key = key /\ next.matches = matches
      /\ next.found = FALSE /\ next.seen = {condition} /\ next.answer = "none"
  BY DEF Idle
<1>7. next \in [pc: PCs, route: Routes, c: {c}, key: Versions \cup {Running}, matches: BOOLEAN,
                revalidates: BOOLEAN, found: BOOLEAN, answer: {"none"}, seen: SUBSET Conditions]
  <2>1. Idle \in [pc: PCs, route: Routes, c: {Idle.c}, key: Versions \cup {Running}, matches: BOOLEAN,
                  revalidates: BOOLEAN, found: BOOLEAN, answer: {"none"}, seen: SUBSET Conditions]
    BY DEF Idle, PCs, Routes, ModelRouter, ModelRoutes
  <2>2. pc \in PCs /\ key \in Versions \cup {Running} /\ {condition} \in SUBSET Conditions
    BY <1>1a, <1>3, <1>5, ReadsAssumption DEF PCs, Keys, ReadsAssumption
  <2> QED BY <1>1a, <2>1, <2>2
<1> HIDE DEF next
<1>8. RequestOK(next) /\ InProgress(next)
  BY <1>1a, <1>5, <1>6, <1>7 DEF RequestOK, InProgress
<1>9. VersionOf(next) = v
  BY <1>6 DEF VersionOf, v
<1>10. SoFarOK(catalog, v, next)
  <2>1. Answers(next) /\ Sees(catalog, v, next) /\ FoundRows(next) /\ FileMatches(next)
    BY <1>1, <1>1a, <1>5, <1>6 DEF Answers, Sees, FoundRows, FileMatches, condition
  <2> QED BY <1>8, <2>1 DEF SoFarOK
<1>11. StageOK(catalog, v, next)
  BY <1>5, <1>6, EarlyStage
<1>12. ReadOK(catalog, VersionOf(next), next) /\ next.pc # "waiting"
  BY <1>5, <1>6, <1>9, <1>10, <1>11 DEF ReadOK
<1>13. ReadsOK' /\ WaitersHaveABuild'
  BY <1>0, <1>4, <1>12, OneGoesOn
<1> QED BY <1>0, <1>13 DEF CacheOK

\* When only the request changes, the selections kept are of stored versions still.
LEMMA KeptStays ==
  ASSUME KeptOK, UNCHANGED <<catalog, runs, kept>>
  PROVE  KeptOK'
<1>1. \A c \in Countries : Stored(c)' = Stored(c)
  BY DEF Stored
<1> QED BY <1>1 DEF KeptOK

\* Every step of a request keeps the invariant.
LEMMA StepKeeps ==
  ASSUME ReadInv, NEW r \in Requests, Step(r), UNCHANGED pubVars
  PROVE  ReadInv'
<1>1. PubInv /\ PubTypes /\ ReadsOK /\ KeptOK /\ CacheOK /\ WaitersHaveABuild
  BY DEF ReadInv, PubInv
<1>2. PubInv'
  BY <1>1, OthersKeep
<1>3. UNCHANGED <<catalog, runs>> /\ Quiet
  BY DEF Quiet, pubVars, Step, Arrive, Look, Join, LookAgain, BuildRaises, ReadFails, Select,
         Recheck, Query, Read, Verify, Written, Serialize
<1>4. CASE Query(r)
  BY <1>1, <1>2, <1>3, <1>4, QueryKeeps DEF ReadInv
<1>5. CASE ~Query(r)
  <2>1. ReadsOK' /\ WaitersHaveABuild' /\ CacheOK' /\ UNCHANGED kept
    <3>1. CASE Arrive(r)
      BY <1>1, <1>3, <3>1, ArriveKeeps
    <3>2. CASE Look(r) \/ LookAgain(r)
      BY <1>1, <1>3, <3>2, LookKeeps
    <3>3. CASE Join(r)
      BY <1>1, <1>3, <3>3, JoinKeeps
    <3>4. CASE BuildRaises(r)
      BY <1>1, <1>3, <3>4, BuildRaisesKeeps
    <3>5. CASE ReadFails(r)
      BY <1>1, <1>3, <3>5, ReadFailsKeeps
    <3>6. CASE Select(r)
      BY <1>1, <1>3, <3>6, SelectKeeps
    <3>7. CASE Recheck(r)
      BY <1>1, <1>3, <3>7, RecheckKeeps
    <3>8. CASE Read(r)
      BY <1>1, <1>3, <3>8, ReadKeeps
    <3>9. CASE Verify(r)
      BY <1>1, <1>3, <3>9, VerifyKeeps
    <3>10. CASE Written(r)
      BY <1>1, <1>3, <3>10, WrittenKeeps
    <3>11. CASE Serialize(r)
      BY <1>1, <1>3, <3>11, SerializeKeeps
    <3> QED BY <1>5, <3>1, <3>2, <3>3, <3>4, <3>5, <3>6, <3>7, <3>8, <3>9, <3>10, <3>11 DEF Step
  <2>2. KeptOK'
    BY <1>1, <1>3, <2>1, KeptStays
  <2> QED BY <1>2, <2>1, <2>2 DEF ReadInv
<1> QED BY <1>4, <1>5

----------------------------------------------------------------------------
(***************************************************************************)
(* Publications and restarts.                                              *)
(***************************************************************************)

\* A stored version stays stored (nothing deletes a catalog version's row).
LEMMA StoredStays ==
  ASSUME PubInv, Publication
  PROVE  \A c \in Countries : Stored(c) \subseteq Stored(c)'
<1>1. PubTypes /\ TimesDiffer
  BY DEF PubInv
<1>2. CASE catalog' = catalog
  BY <1>2 DEF Stored
<1>3. ASSUME NEW s \in Seeders, PublishCatalog(s)
      PROVE  \A c \in Countries : Stored(c) \subseteq Stored(c)'
  BY <1>1, <1>3, PublishEffect
<1>4. ASSUME NEW s \in Seeders, PruneIfStillChosen(s)
      PROVE  \A c \in Countries : Stored(c) \subseteq Stored(c)'
  BY <1>1, <1>4, PruneKeepsOrder
<1>5. \/ catalog' = catalog
      \/ \E s \in Seeders : PublishCatalog(s)
      \/ \E s \in Seeders : PruneIfStillChosen(s)
  BY DEF Publication, Begin, ChooseOlderVersions, PruneFails, SeedFails, ManualEnds, Promote, PromotionFails
<1> QED BY <1>2, <1>3, <1>4, <1>5

\* A publication's commit changes what the requests in progress can see, and nothing
\* that they have.
LEMMA CommitKeeps ==
  ASSUME ReadInv, Publication, Witness, UNCHANGED <<runs, kept, cache, known>>
  PROVE  ReadInv'
<1>1. PubInv /\ PubTypes /\ ReadsOK /\ KeptOK /\ CacheOK /\ WaitersHaveABuild
  BY DEF ReadInv, PubInv
<1>2. PubInv' /\ PubTypes'
  BY <1>1, PublicationKeeps DEF PubInv
<1>3. \A c \in Countries : Stored(c) \subseteq Stored(c)'
  BY <1>1, StoredStays
<1>4. KeptOK'
  BY <1>1, <1>3 DEF KeptOK
<1>5. CacheOK'
  BY <1>1 DEF CacheOK
<1>6. /\ req' = [w \in Requests |-> req'[w]]
      /\ \A w \in Requests : req'[w] =
            IF InProgress(req[w])
            THEN [req[w] EXCEPT !.seen = @ \cup {Condition(catalog', req[w].c, VersionOf(req[w]))}]
            ELSE req[w]
  BY DEF Witness, InProgress
<1>7. ASSUME NEW w \in Requests
      PROVE  /\ ReadOK(catalog', VersionOf(req[w])', req'[w])
             /\ req'[w].pc = req[w].pc /\ Key(req'[w]) = Key(req[w])
  <2>0. ReadOK(catalog, VersionOf(req[w]), req[w])
    BY <1>1 DEF ReadsOK
  <2>1. CASE ~InProgress(req[w])
    <3>1. req'[w] = req[w]
      BY <1>6, <2>1
    <3>2. SoFarOK(catalog', VersionOf(req[w])', req[w])
      BY <2>0, <2>1 DEF ReadOK, SoFarOK, Sees, FoundRows, FileMatches
    <3>3. StageOK(catalog', VersionOf(req[w])', req[w])
      BY <2>1 DEF StageOK, Selected, Missed, Confirmed, HasTree, SharesBody, InProgress
    <3> QED BY <3>1, <3>2, <3>3 DEF ReadOK
  <2>2. CASE InProgress(req[w])
    <3> DEFINE q == req[w]
               v == VersionOf(q)
               condition == Condition(catalog', q.c, v)
               next == [q EXCEPT !.seen = @ \cup {condition}]
    <3>1. /\ SoFarOK(catalog, v, q) /\ StageOK(catalog, v, q) /\ RequestOK(q)
          /\ q.c \in Countries /\ v \in Versions
      BY <1>1, <2>2, OneRequest
    <3>2. condition \in Conditions
      BY DEF Condition, Conditions
    <3>3. req'[w] = next
      BY <1>6, <2>2
    <3>4. /\ next.pc = q.pc /\ next.route = q.route /\ next.c = q.c /\ next.key = q.key
          /\ next.matches = q.matches /\ next.found = q.found /\ next.seen = q.seen \cup {condition}
          /\ next.answer = q.answer
      BY <3>1 DEF RequestOK
    <3>5. next \in [pc: PCs, route: Routes, c: {q.c}, key: Versions \cup {Running}, matches: BOOLEAN,
                    revalidates: BOOLEAN, found: BOOLEAN, answer: {q.answer}, seen: SUBSET Conditions]
      <4> HIDE DEF condition
      <4> QED BY <3>1, <3>2 DEF RequestOK
    <3>6. catalog[q.c][v].stored => catalog'[q.c][v].stored
      BY <1>3, <3>1 DEF Stored
    <3> HIDE DEF next
    <3>7. RequestOK(next) /\ InProgress(next)
      BY <2>2, <3>1, <3>4, <3>5 DEF RequestOK, InProgress
    <3>8. SoFarOK(catalog', v, next)
      BY <2>2, <3>1, <3>4, <3>7 DEF SoFarOK, Answers, Sees, FoundRows, FileMatches, InProgress
    <3>9. StageOK(catalog', v, next)
      BY <3>1, <3>4, <3>6 DEF StageOK, Selected, Missed, Confirmed, HasTree, SharesBody, NeedsNoRows
    <3>10. VersionOf(req[w])' = v
      BY <3>3, <3>4 DEF VersionOf
    <3>11. Key(next) = Key(q)
      BY <3>4 DEF Key
    <3> QED BY <3>3, <3>4, <3>8, <3>9, <3>10, <3>11 DEF ReadOK
  <2> QED BY <2>1, <2>2
<1>8. ReadsOK'
  BY <1>6, <1>7 DEF ReadsOK
<1>9. WaitersHaveABuild'
  BY <1>1, <1>7 DEF WaitersHaveABuild, BuildUnderWay
<1> QED BY <1>2, <1>4, <1>5, <1>8, <1>9 DEF ReadInv

\* A restarted process has kept nothing, and its requests have ended.
LEMMA RestartKeeps ==
  ASSUME ReadInv, Restart, UNCHANGED pubVars
  PROVE  ReadInv'
<1>1. PubInv /\ PubTypes /\ ReadsOK /\ KeptOK /\ CacheOK /\ WaitersHaveABuild
  BY DEF ReadInv, PubInv
<1>2. PubInv'
  BY <1>1, OthersKeep
<1>3. /\ UNCHANGED <<catalog, req>> /\ runs' = serving /\ cache' = <<>>
      /\ kept' = [k \in DOMAIN kept |-> "none"]
      /\ \A r \in Requests : ~InProgress(req[r])
  BY DEF Restart, pubVars, InProgress
<1>4. KeptOK'
  <2>1. \A c \in Countries : Stored(c)' = Stored(c)
    BY <1>3 DEF Stored
  <2>2. serving \in Versions /\ \A c \in Countries : serving \in Stored(c)
    BY <1>1 DEF PubTypes, JobsOK, PubInv, ServingIsStored
  <2>3. kept' = [k \in Countries \X Keys |-> "none"]
    BY <1>1, <1>3 DEF KeptOK
  <2>4. /\ kept' = [k \in Countries \X Keys |-> kept'[k]]
        /\ \A c \in Countries, key \in Keys : kept'[<<c, key>>] = "none"
    BY <2>3
  <2> QED BY <1>3, <2>1, <2>2, <2>4 DEF KeptOK
<1>5. CacheOK'
  BY <1>3 DEF CacheOK
<1>6. ReadsOK'
  <2> SUFFICES ASSUME NEW w \in Requests PROVE ReadOK(catalog', VersionOf(req[w])', req[w])
    BY <1>1, <1>3 DEF ReadsOK
  <2>1. ReadOK(catalog, VersionOf(req[w]), req[w]) /\ ~InProgress(req[w])
    BY <1>1, <1>3 DEF ReadsOK
  <2>2. SoFarOK(catalog', VersionOf(req[w])', req[w])
    BY <2>1 DEF ReadOK, SoFarOK, Sees, FoundRows, FileMatches
  <2>3. StageOK(catalog', VersionOf(req[w])', req[w])
    BY <2>1 DEF StageOK, Selected, Missed, Confirmed, HasTree, SharesBody, InProgress
  <2> QED BY <2>2, <2>3 DEF ReadOK
<1>7. WaitersHaveABuild'
  BY <1>3 DEF WaitersHaveABuild, InProgress
<1> QED BY <1>2, <1>4, <1>5, <1>6, <1>7 DEF ReadInv

----------------------------------------------------------------------------
(***************************************************************************)
(* The theorems.                                                           *)
(***************************************************************************)

\* A process starts with nothing kept and no requests.
LEMMA InitReads ==
  ASSUME Init
  PROVE  ReadInv
<1>1. PubInv
  BY InitPublication DEF Init
<1>2. /\ runs = serving /\ kept = [k \in Countries \X Keys |-> "none"] /\ cache = <<>>
      /\ req = [r \in Requests |-> Idle]
  BY DEF Init, ReadsInit, Keys
<1>3. KeptOK
  <2>1. serving \in Versions /\ \A c \in Countries : serving \in Stored(c)
    BY <1>1 DEF PubTypes, JobsOK, PubInv, ServingIsStored
  <2> QED BY <1>2, <2>1 DEF KeptOK
<1>4. CacheOK
  BY <1>2 DEF CacheOK
<1>5. ReadsOK
  <2>1. Idle.pc = "idle"
    BY DEF Idle
  <2>2. RequestOK(Idle)
    BY <2>1 DEF RequestOK, InProgress, Idle, PCs, Routes, ModelRouter, ModelRoutes
  <2>3. \A v : SoFarOK(catalog, v, Idle)
    BY <2>1, <2>2 DEF SoFarOK, Answers, Sees, FoundRows, FileMatches, InProgress
  <2>4. \A v : StageOK(catalog, v, Idle)
    BY <2>1 DEF StageOK, Selected, Missed, Confirmed, HasTree, SharesBody
  <2>5. \A r \in Requests : req[r] = Idle
    BY <1>2
  <2> QED BY <1>2, <2>3, <2>4, <2>5 DEF ReadsOK, ReadOK
<1>6. WaitersHaveABuild
  BY <1>2 DEF WaitersHaveABuild, Idle
<1> QED BY <1>1, <1>3, <1>4, <1>5, <1>6 DEF ReadInv

\* When nothing changes the invariant holds still.
LEMMA StutterKeeps ==
  ASSUME ReadInv, UNCHANGED vars
  PROVE  ReadInv'
<1>1. UNCHANGED pubVars /\ UNCHANGED <<catalog, runs, kept, cache, known, req>>
  BY DEF vars, pubVars, readVars
<1>2. PubInv'
  BY <1>1, OthersKeep DEF ReadInv
<1>3. KeptOK'
  BY <1>1, KeptStays DEF ReadInv
<1>4. \A r : VersionOf(req[r])' = VersionOf(req[r])
  BY <1>1 DEF VersionOf
<1>5. ReadsOK'
  BY <1>1, <1>4 DEF ReadInv, ReadsOK
<1>6. CacheOK' /\ WaitersHaveABuild'
  BY <1>1 DEF ReadInv, CacheOK, WaitersHaveABuild, BuildUnderWay
<1> QED BY <1>2, <1>3, <1>5, <1>6 DEF ReadInv

\* The invariant holds of every interleaving of requests, publications and restarts.
THEOREM ReadsInductive == Spec => []ReadInv
<1>1. Init => ReadInv
  BY InitReads
<1>2. ASSUME ReadInv, [Next]_vars
      PROVE  ReadInv'
  BY <1>2, CommitKeeps, StepKeeps, RestartKeeps, StutterKeeps DEF Next
<1> QED BY <1>1, <1>2, PTL DEF Spec

\* ReadsAnswerTruly: whatever commits between a request's statements, and whatever the
\* two stores of its process have kept, its answer was true during the request or the
\* build it comes from.
THEOREM ReadsAnswerTruly == Spec => []AnswersAreTrue
<1>1. ReadInv => AnswersAreTrue
  <2> SUFFICES ASSUME ReadInv, NEW r \in Requests, req[r].pc = "done"
               PROVE  CASE req[r].answer = "pruned" -> "pruned" \in req[r].seen
                        [] req[r].answer = "absent" -> "absent" \in req[r].seen
                        [] req[r].answer = "rows" -> ReadsPrunedData(req[r].route) => "whole" \in req[r].seen
                        [] req[r].answer = "missing" -> {"pruned", "whole"} \subseteq req[r].seen
                        [] req[r].answer = "unavailable" ->
                             Needs(req[r].route) \subseteq DataOf(VersionOf(req[r]))
                               => {"pruned", "whole"} \subseteq req[r].seen
                        [] OTHER -> TRUE
    BY DEF AnswersAreTrue
  <2> DEFINE q == req[r]
  <2>1. q.key \in Versions /\ Tells(q.answer, q.route, q.key, q.seen)
    BY DEF ReadInv, ReadsOK, ReadOK, SoFarOK, Answers
  <2>2. VersionOf(q) = q.key
    BY <2>1, CatalogAssumption DEF VersionOf, Running, CatalogAssumption
  <2> QED BY <2>1, <2>2 DEF Tells
<1> QED BY <1>1, ReadsInductive, PTL

\* NobodyWaitsAlone: a request that waits for a response has a request that builds it,
\* through failed reads, errors and revalidations.
THEOREM NobodyWaitsAlone == Spec => []WaitersHaveABuild
<1>1. ReadInv => WaitersHaveABuild
  BY DEF ReadInv
<1> QED BY <1>1, ReadsInductive, PTL
===============================================================================
