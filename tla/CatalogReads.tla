---------------------------- MODULE CatalogReads ----------------------------
(***************************************************************************)
(* The v2 metadata routes of one API process while catalog versions are    *)
(* published, pruned and restored (CatalogPublication).  A request reads   *)
(* in autocommit mode, one statement a step, so publications and prunings  *)
(* commit between its statements.  Requests of a process share two stores: *)
(* the selections it made (SelectedCatalogStore), whose pruning marker may *)
(* be out of date either way, and the whole-version bodies it built        *)
(* (MetadataResponseCache), where requests wait for a build under way.     *)
(***************************************************************************)
EXTENDS CatalogPublication

CONSTANTS
  Requests,  \* the requests of a behaviour
  Asked,     \* the versions requests may name
  NoParts,   \* the versions where no variable takes its parts from a parameter
  Capacity   \* the most bodies the response cache keeps

ASSUME ReadsAssumption ==
  /\ Asked \subseteq Versions /\ NoParts \subseteq Versions
  /\ Capacity \in Nat \ {0}

VARIABLES
  runs,   \* the PolicyEngine.py version the process runs
  kept,   \* SelectedCatalogStore: key -> the marker of the selection kept
  cache,  \* MetadataResponseCache._responses, least recently used first
  known,  \* MetadataResponseCache._running_versions: the routes and countries in it
  req     \* request -> where it is, what it has read and what it saw

readVars == <<runs, kept, cache, known, req>>
vars == <<pubVars, readVars>>

\* A version of None in a query means the running version; it is no version's number.
Running == 0

(***************************************************************************)
(* The routes.  Those of the first five sets read only rows that pruning   *)
(* keeps; the others need data it deletes.  The bodies of the two          *)
(* whole-version routes are kept.                                          *)
(***************************************************************************)
ModelRoutes == {"models", "model-versions"}
VariableRoutes == {"variables"}
ParameterRoutes == {"parameters"}
DatasetRoutes == {"datasets"}
RegionRoutes == {"regions", "economy-options"}
ValueRoutes == {"parameter-values"}
CatalogParameters == {"catalog-parameters"}
TreeRoutes == {"parameter-children"}
SearchFileRoutes == {"search-file"}
ModelCatalog == {"model-catalog"}
CatalogVariables == {"catalog-variables"}

WholeVersion == ModelCatalog \cup CatalogVariables

ModelRouter == ModelRoutes \cup VariableRoutes
ParameterRouter == ParameterRoutes \cup ValueRoutes \cup TreeRoutes \cup SearchFileRoutes
GeographyRouter == DatasetRoutes \cup RegionRoutes
CatalogRouter == WholeVersion \cup CatalogParameters
Routes == ModelRouter \cup ParameterRouter \cup GeographyRouter \cup CatalogRouter

\* The data a route reads that pruning deletes.
Needs(route) ==
  CASE route \in ValueRoutes \cup CatalogParameters \cup CatalogVariables -> {"values"}
    [] route \in TreeRoutes -> {"tree"}
    [] route \in SearchFileRoutes -> {"file"}
    [] OTHER -> {}
ReadsPrunedData(route) == Needs(route) # {}

VersionOf(q) == IF q.key = Running THEN runs ELSE q.key

\* What a version is to a reader.
Condition(cat, c, v) ==
  CASE ~cat[c][v].stored -> "absent"
    [] cat[c][v].stored /\ cat[c][v].data = {} -> "pruned"
    [] OTHER -> "whole"

Idle == [pc |-> "idle", route |-> "models", c |-> CHOOSE c \in Countries : TRUE, key |-> Running,
         matches |-> FALSE, revalidates |-> FALSE, found |-> FALSE,
         answer |-> "none", seen |-> {}]

ReadsInit ==
  /\ runs = serving
  /\ kept = [k \in Countries \X (Asked \cup {Running}) |-> "none"]
  /\ cache = <<>>
  /\ known = {}
  /\ req = [r \in Requests |-> Idle]

Init == CatalogInit /\ ReadsInit

----------------------------------------------------------------------------
(***************************************************************************)
(* The response cache                                                      *)
(***************************************************************************)

BodyKey(q) == <<q.route, q.c, VersionOf(q)>>
KeptBodies == {cache[i].key : i \in DOMAIN cache}
IndexOf(key) == CHOOSE i \in DOMAIN cache : cache[i].key = key
KeptBody(key) == cache[IndexOf(key)]

\* MetadataResponseCache._stored: without a version only once a body of the
\* running version has been kept for the route and country.
IsStored(q) ==
  /\ q.key = Running => <<q.route, q.c>> \in known
  /\ BodyKey(q) \in KeptBodies

Touched(key) == Append(RemoveAt(cache, IndexOf(key)), KeptBody(key))

\* MetadataResponseCache._keep: the body kept first stays; the least recently
\* used bodies beyond the capacity go.
Keep(q, body) ==
  LET key == BodyKey(q)
      with == IF key \in KeptBodies THEN Touched(key)
              ELSE Append(cache, [key |-> key, body |-> body, seen |-> q.seen])
  IN IF Len(with) > Capacity THEN Tail(with) ELSE with

\* The request that builds for its key, and those that wait for it.
Key(q) == <<q.route, q.c, q.key>>
Builds(r) == req[r].route \in WholeVersion /\ req[r].pc # "look"
Waiting(q) == {w \in Requests : req[w].pc = "waiting" /\ Key(req[w]) = Key(q)}

Done(q, answer, seen) ==
  [Idle EXCEPT !.pc = "done", !.route = q.route, !.c = q.c, !.key = VersionOf(q),
               !.answer = answer, !.seen = seen]

\* Mutant: a build that ends tells only its own request.
Answered_Alone(r, answer, seen) ==
  [req EXCEPT ![r] = Done(req[r], answer, seen)]

\* A request's answer; a builder's goes to the requests waiting for it, and
\* it saw what they are told.
Answered(r, answer, seen) ==
  [w \in Requests |->
     IF w = r THEN Done(req[r], answer, seen)
     ELSE IF Builds(r) /\ w \in Waiting(req[r])
          THEN Done(req[w], answer, req[w].seen \cup seen)
          ELSE req[w]]

Answer(r, answer) ==
  /\ req' = Answered(r, answer, req[r].seen)
  /\ UNCHANGED <<cache, known>>

\* A successful read: the two whole-version routes keep its body.
Succeed(r, body) ==
  IF ~Builds(r)
  THEN Answer(r, body)
  ELSE /\ cache' = Keep(req[r], body)
       /\ known' = IF req[r].key = Running THEN known \cup {<<req[r].route, req[r].c>>} ELSE known
       /\ LET b == cache'[Len(cache')]
          IN req' = Answered(r, b.body, req[r].seen \cup b.seen)

----------------------------------------------------------------------------
(***************************************************************************)
(* A request                                                               *)
(***************************************************************************)

Go(r, pc) == req' = [req EXCEPT ![r].pc = pc]

\* A request for a route, a country and a version, of rows that exist in the
\* version or not; a search-file request may revalidate a copy.
Arrive(r) ==
  /\ req[r].pc = "idle"
  /\ \E route \in Routes \cap budget.routes, c \in Countries, key \in Asked \cup {Running},
        matches \in BOOLEAN, revalidates \in BOOLEAN :
       LET v == IF key = Running THEN runs ELSE key
       IN /\ (~ReadsPrunedData(route) \/ route \in SearchFileRoutes) => matches
          /\ route \in CatalogVariables => (matches <=> v \notin NoParts)
          /\ revalidates => route \in SearchFileRoutes
          /\ req' = [req EXCEPT ![r] =
               [Idle EXCEPT !.pc = IF route \in WholeVersion THEN "look" ELSE "select",
                            !.route = route, !.c = c, !.key = key, !.matches = matches,
                            !.revalidates = revalidates,
                            !.seen = {Condition(catalog, c, v)}]]
  /\ UNCHANGED <<runs, kept, cache, known>>

AnswerFromBody(r) ==
  LET b == KeptBody(BodyKey(req[r]))
  IN /\ cache' = Touched(b.key)
     /\ req' = Answered(r, b.body, req[r].seen \cup b.seen)
     /\ UNCHANGED known

\* get_or_build looks for a kept body first.
Look(r) ==
  /\ req[r].pc = "look"
  /\ IF IsStored(req[r]) THEN AnswerFromBody(r) ELSE Go(r, "join") /\ UNCHANGED <<cache, known>>
  /\ UNCHANGED <<runs, kept>>

\* It then waits for the build under way for its key, or begins one.
BuildUnderWay(q) ==
  \E w \in Requests : Key(req[w]) = Key(q)
                      /\ req[w].pc \notin {"idle", "look", "join", "waiting", "done"}

Join(r) ==
  /\ req[r].pc = "join"
  /\ Go(r, IF BuildUnderWay(req[r]) THEN "waiting" ELSE "again")
  /\ UNCHANGED <<runs, kept, cache, known>>

\* A builder looks again: a build may have ended since it looked.
LookAgain(r) ==
  /\ req[r].pc = "again"
  /\ IF IsStored(req[r]) THEN AnswerFromBody(r) ELSE Go(r, "select") /\ UNCHANGED <<cache, known>>
  /\ UNCHANGED <<runs, kept>>

\* Serializing the result raises: the request answers 500, and the requests
\* waiting for its build start over.
BuildRaises(r) ==
  /\ req[r].pc = "serialize" /\ Builds(r)
  /\ req' = [w \in Requests |->
               IF w = r THEN Done(req[r], "error", req[r].seen)
               ELSE IF w \in Waiting(req[r]) THEN [req[w] EXCEPT !.pc = "look"] ELSE req[w]]
  /\ UNCHANGED <<runs, kept, cache, known>>

\* A statement fails, or no connection is to be had: 500, which is not kept.
ReadFails(r) ==
  /\ req[r].pc \in {"recheck", "query", "read", "verify", "written"}
  /\ Answer(r, "error")
  /\ UNCHANGED <<runs, kept>>

SelectionKey(q) == <<q.c, q.key>>

\* MetadataCatalogSelection.select: a kept selection is used as it is, unless
\* it is marked as pruned and the route reads what pruning deletes.
UseKept(q) == kept[SelectionKey(q)] = "clear" \/ ~ReadsPrunedData(q.route)

Select(r) ==
  LET q == req[r]
      k == kept[SelectionKey(q)]
  IN /\ q.pc = "select"
     /\ IF k = "none" THEN Go(r, "query")
        ELSE IF UseKept(q) THEN Go(r, "read")
        ELSE Go(r, "recheck")
     /\ UNCHANGED <<runs, kept, cache, known>>

Marked(q) == catalog[q.c][VersionOf(q)].pruned

\* The marker of a kept selection is read again before it is believed.
Recheck(r) ==
  /\ req[r].pc = "recheck"
  /\ IF Marked(req[r]) THEN Answer(r, "pruned") ELSE Go(r, "query") /\ UNCHANGED <<cache, known>>
  /\ UNCHANGED <<runs, kept>>

\* read_metadata_catalog: only a version that is found is kept.
Query(r) ==
  LET q == req[r]
      row == catalog[q.c][VersionOf(q)]
  IN /\ q.pc = "query"
     /\ kept' = IF row.stored
                THEN [kept EXCEPT ![SelectionKey(q)] = IF row.pruned THEN "pruned" ELSE "clear"]
                ELSE kept
     /\ \/ ~row.stored /\ Answer(r, "absent")
        \/ row.stored /\ row.pruned /\ ReadsPrunedData(q.route) /\ Answer(r, "pruned")
        \/ /\ row.stored /\ ~(row.pruned /\ ReadsPrunedData(q.route))
           /\ Go(r, "read")
           /\ UNCHANGED <<cache, known>>
     /\ UNCHANGED runs

\* The route's own statement.
Read(r) ==
  LET q == req[r]
  IN /\ q.pc = "read"
     /\ req' = [req EXCEPT ![r].pc = IF ReadsPrunedData(q.route) THEN "verify" ELSE "serialize",
                           ![r].found = q.matches
                             /\ Needs(q.route) \subseteq catalog[q.c][VersionOf(q)].data]
     /\ UNCHANGED <<runs, kept, cache, known>>

\* What the caller counts as having found rows: it needs none when no variable
\* takes its parts from a parameter, or no name asked is a parameter's.
RowsFound(q) == q.found \/ (q.route \in CatalogVariables \cup CatalogParameters /\ ~q.matches)

\* Mutant: the marker of the kept selection is believed.
RequireUnpruned_Believed(q) == TRUE

\* MetadataCatalogSelection.require_unpruned: only a read that found nothing
\* reads the marker again.
RequireUnpruned(q) == RowsFound(q) \/ ~Marked(q)

Verify(r) ==
  LET q == req[r]
  IN /\ q.pc = "verify"
     /\ IF ~RequireUnpruned(q) THEN Answer(r, "pruned")
        ELSE /\ Go(r, IF q.route \in TreeRoutes /\ ~q.found THEN "written" ELSE "serialize")
             /\ UNCHANGED <<cache, known>>
     /\ UNCHANGED <<runs, kept>>

\* An empty level of the tree: read_parameter_tree_written tells an empty
\* level from a version without a tree.
Written(r) ==
  LET q == req[r]
  IN /\ q.pc = "written"
     /\ IF "tree" \in catalog[q.c][VersionOf(q)].data
        THEN Go(r, "serialize") /\ UNCHANGED <<cache, known>>
        ELSE Answer(r, "unavailable")
     /\ UNCHANGED <<runs, kept>>

\* What the result holds, by what was to be found.
Result(q) == IF q.found THEN "rows"
             ELSE IF q.route \in SearchFileRoutes THEN "unavailable"
             ELSE IF q.matches THEN "missing" ELSE "empty"

\* The answer.  A request that revalidates a search file has read its hash;
\* when its copy is another one it selects again and reads the file.
Serialize(r) ==
  LET q == req[r]
  IN /\ q.pc = "serialize"
     /\ \/ Succeed(r, Result(q))
        \/ /\ q.revalidates /\ q.found
           /\ req' = [req EXCEPT ![r].pc = "select", ![r].revalidates = FALSE]
           /\ UNCHANGED <<cache, known>>
     /\ UNCHANGED <<runs, kept>>

\* Once its requests have ended the process is replaced by one of the serving
\* revision, which has kept nothing.
Restart ==
  /\ \A r \in Requests : req[r].pc \in {"idle", "done"}
  /\ runs' = serving
  /\ kept' = [k \in DOMAIN kept |-> "none"]
  /\ cache' = <<>>
  /\ known' = {}
  /\ UNCHANGED req

Step(r) == Arrive(r) \/ Look(r) \/ Join(r) \/ LookAgain(r) \/ BuildRaises(r) \/ ReadFails(r) \/ Select(r)
           \/ Recheck(r) \/ Query(r) \/ Read(r) \/ Verify(r) \/ Written(r) \/ Serialize(r)

----------------------------------------------------------------------------
\* A publication changes what the requests in progress can have seen.
Witness == req' = [r \in Requests |->
             IF req[r].pc \in {"idle", "done"} THEN req[r]
             ELSE [req[r] EXCEPT !.seen = @ \cup {Condition(catalog', req[r].c, VersionOf(req[r]))}]]

Next ==
  \/ Publication /\ Witness /\ UNCHANGED <<runs, kept, cache, known>>
  \/ \E r \in Requests : Step(r) /\ UNCHANGED pubVars
  \/ Restart /\ UNCHANGED pubVars

Spec == Init /\ [][Next]_vars

----------------------------------------------------------------------------
(***************************************************************************)
(* Properties                                                              *)
(***************************************************************************)

\* AnswersAreTrue: an answer describes the version as it was at some time of
\* the request, or of the build the answer comes from: 503 for a pruned version
\* only if it was pruned, its rows only if it had them, and rows missing, or
\* data unavailable that the version's format has, only if it was both.
AnswersAreTrue ==
  \A r \in Requests : req[r].pc = "done" =>
    CASE req[r].answer = "pruned" -> "pruned" \in req[r].seen
      [] req[r].answer = "absent" -> "absent" \in req[r].seen
      [] req[r].answer = "rows" -> ReadsPrunedData(req[r].route) => "whole" \in req[r].seen
      [] req[r].answer = "missing" -> {"pruned", "whole"} \subseteq req[r].seen
      [] req[r].answer = "unavailable" ->
           Needs(req[r].route) \subseteq DataOf(VersionOf(req[r]))
             => {"pruned", "whole"} \subseteq req[r].seen
      [] OTHER -> TRUE

\* WaitersHaveABuild: a request waits only while another request is building
\* the response it waits for, through failed reads, raised errors and retries,
\* so no request waits for ever.
WaitersHaveABuild ==
  \A r \in Requests : req[r].pc = "waiting" => BuildUnderWay(req[r])

\* The statement that does not hold: a body kept for the process's life was not
\* built from pruned rows.  A version pruned before the read and restored before
\* require_unpruned reads the marker again leaves a body without its values (README).
KeptBodiesAreWhole == \A i \in DOMAIN cache : cache[i].body # "missing"
=============================================================================
