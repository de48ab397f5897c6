-------------------------- MODULE HouseholdMirror --------------------------
(***************************************************************************)
(* How a v1 household is copied into v2: routes/household_routes.py and    *)
(* services/household_service.py store it in Cloud SQL with a create event *)
(* in one transaction; services/household_mirroring.py then copies it,     *)
(* holding the event's row lock, in a Supabase transaction of its own      *)
(* (services/v2/households), and marks the event processed. The two        *)
(* commits are separate. A failed copy leaves the event pending for an     *)
(* operator's run of scripts/process_v1_household_mirror_event.py.         *)
(* Native v2 households are created in the same table.                     *)
(*                                                                         *)
(* Every SQL statement is one step. A document is a v1 household JSON and  *)
(* a content a canonical v2 document: its SHA-256 stands for it, so two    *)
(* contents never collide. A v1 household never changes, so neither does   *)
(* its fingerprint.                                                        *)
(***************************************************************************)
EXTENDS FiniteSets

CONSTANTS
    Posts,        \* v1 POST requests
    Operators,    \* runs of the event-processing script
    Natives,      \* v2 POST requests
    Houses,       \* the v1 household ids
    Documents,    \* v1 household documents
    Contents,     \* canonical v2 contents
    Translate,    \* translate_legacy_household and its canonical form
    Rows,         \* the v2 household ids
    NoOne, NoHouse, NoDocument, NoContent, NoRow,
    Faults        \* which of the events of FaultKinds may happen

FaultKinds == {"error",     \* a statement, or the process, fails
               "lost",      \* a v2 commit is done but its reply is lost
               "v1lost"}    \* the v1 connection drops during the v2 transaction

Workers == Posts \union Operators \union Natives

ASSUME ConstantsAssumption ==
    /\ Posts \intersect Operators = {} /\ Natives \intersect (Posts \union Operators) = {}
    /\ NoOne \notin Workers /\ NoHouse \notin Houses /\ NoDocument \notin Documents
    /\ NoContent \notin Contents /\ NoRow \notin Rows
    /\ Translate \in [Documents -> Contents \union {NoContent}]
    /\ Faults \subseteq FaultKinds

VARIABLES
    \* Cloud SQL
    house,    \* document of each v1 household
    event,    \* its create event: none, pending or processed
    lock,     \* who holds the event's row lock
    \* Supabase, as committed
    row,      \* content of each v2 household
    map,      \* legacy_household_mappings: the v2 household of each v1 household
    native,   \* v2 households that a v2 POST asked for
    \* each worker's own variables
    pc,       \* the statement it executes next, or how it ended
    target,   \* the v1 household it copies
    content,  \* the v2 content it stores
    saw,      \* the mapping it found at first
    found,    \* the v2 household of its content
    mine,     \* whether it inserted that household, uncommitted
    mapped    \* whether it inserted the mapping, uncommitted

v1 == <<house, event, lock>>
v2 == <<row, map, native>>
local == <<pc, target, content, saw, found, mine, mapped>>
vars == <<v1, v2, local>>

PC == {"start", "lock", "readmapping", "insert", "mapping", "commit", "mark",
       "copied", "failed", "done"}

\* A worker that has ended holds no lock and no uncommitted row.
Ended == {"start", "copied", "failed", "done"}

\* The tables hold documents, contents and keys of their own kinds, and a worker
\* only inserts into v2 what its translation produced.
TypeOK ==
    /\ house \in [Houses -> Documents \union {NoDocument}]
    /\ event \in [Houses -> {"none", "pending", "processed"}]
    /\ lock \in [Houses -> Workers \union {NoOne}]
    /\ row \in [Rows -> Contents \union {NoContent}]
    /\ map \in [Houses -> Rows \union {NoRow}]
    /\ native \subseteq Rows
    /\ pc \in [Workers -> PC]
    /\ target \in [Workers -> Houses \union {NoHouse}]
    /\ content \in [Workers -> Contents \union {NoContent}]
    /\ saw \in [Workers -> Rows \union {NoRow}]
    /\ found \in [Workers -> Rows \union {NoRow}]
    /\ mine \in [Workers -> BOOLEAN]
    /\ mapped \in [Workers -> BOOLEAN]

Init ==
    /\ house = [h \in Houses |-> NoDocument]
    /\ event = [h \in Houses |-> "none"]
    /\ lock = [h \in Houses |-> NoOne]
    /\ row = [r \in Rows |-> NoContent]
    /\ map = [h \in Houses |-> NoRow]
    /\ native = {}
    /\ pc = [w \in Workers |-> "start"]
    /\ target = [w \in Workers |-> NoHouse]
    /\ content = [w \in Workers |-> NoContent]
    /\ saw = [w \in Workers |-> NoRow]
    /\ found = [w \in Workers |-> NoRow]
    /\ mine = [w \in Workers |-> FALSE]
    /\ mapped = [w \in Workers |-> FALSE]

Goto(w, next) ==
    /\ pc' = [pc EXCEPT ![w] = next]
    /\ UNCHANGED <<target, content, saw, found, mine, mapped>>

\* Leaving the with blocks: both sessions end, and with them the event's lock.
Unlock(w) == lock' = [h \in Houses |-> IF lock[h] = w THEN NoOne ELSE lock[h]]

\* The worker ends, and what it has not committed is rolled back.
End(w, how) ==
    /\ pc' = [pc EXCEPT ![w] = how]
    /\ mine' = [mine EXCEPT ![w] = FALSE]
    /\ mapped' = [mapped EXCEPT ![w] = FALSE]
    /\ Unlock(w)
    /\ UNCHANGED <<target, content, saw, found>>

(***************************************************************************)
(* Starting.                                                               *)
(***************************************************************************)

\* post_household and create_household: the household, and its event when the
\* write source is dual_write, are committed together.
CreateHousehold(w, h, d) ==
    /\ w \in Posts /\ pc[w] = "start"
    /\ house[h] = NoDocument
    /\ house' = [house EXCEPT ![h] = d]
    /\ target' = [target EXCEPT ![w] = h]
    /\ \/ /\ event' = [event EXCEPT ![h] = "pending"]
          /\ pc' = [pc EXCEPT ![w] = "lock"]
       \/ /\ pc' = [pc EXCEPT ![w] = "done"]
          /\ UNCHANGED event
    /\ UNCHANGED <<lock, v2, content, saw, found, mine, mapped>>

\* The script is run for a household an operator names.
StartOperator(w, h) ==
    /\ w \in Operators /\ pc[w] = "start"
    /\ target' = [target EXCEPT ![w] = h]
    /\ pc' = [pc EXCEPT ![w] = "lock"]
    /\ UNCHANGED <<v1, v2, content, saw, found, mine, mapped>>

\* V2HouseholdService.create_household normalizes before its transaction opens.
StartNative(w, c) ==
    /\ w \in Natives /\ pc[w] = "start"
    /\ content' = [content EXCEPT ![w] = c]
    /\ pc' = [pc EXCEPT ![w] = "insert"]
    /\ UNCHANGED <<v1, v2, target, saw, found, mine, mapped>>

(***************************************************************************)
(* process_mirror_event, and mirror_legacy_household_in_session in it.     *)
(***************************************************************************)

\* Mutant: marks the event before its copy is made.
LockEventMarksFirst(w) ==
    LET h == target[w] IN
    /\ pc[w] = "lock"
    /\ event[h] # "none" /\ lock[h] = NoOne
    /\ w \in Operators => event[h] = "pending"
    /\ lock' = [lock EXCEPT ![h] = w]
    /\ event' = [event EXCEPT ![h] = "processed"]
    /\ Goto(w, "readmapping")
    /\ UNCHANGED <<house, v2>>

\* Mutant: refuses a processed event without ending the transaction.
LockEventKeepsLock(w) ==
    LET h == target[w] IN
    /\ pc[w] = "lock"
    /\ event[h] # "none" /\ lock[h] = NoOne
    /\ lock' = [lock EXCEPT ![h] = w]
    /\ Goto(w, IF w \in Operators /\ event[h] = "processed" THEN "failed" ELSE "readmapping")
    /\ UNCHANGED <<house, event, v2>>

\* Select the event FOR UPDATE. A missing one raises, and so does a processed
\* one in the operator's run (require_pending).
LockEvent(w) ==
    LET h == target[w] IN
    /\ pc[w] = "lock"
    /\ \/ /\ event[h] # "none" /\ lock[h] = NoOne
          /\ w \in Operators => event[h] = "pending"
          /\ lock' = [lock EXCEPT ![h] = w]
          /\ Goto(w, "readmapping")
       \/ /\ \/ event[h] = "none"
             \/ w \in Operators /\ event[h] = "processed" /\ lock[h] = NoOne
          /\ End(w, "failed")
    /\ UNCHANGED <<house, event, v2>>

\* Another transaction has selected the mapping of w's household FOR UPDATE.
MappingLocked(w) ==
    \E o \in Workers \ {w} : target[o] = target[w] /\ saw[o] # NoRow
                             /\ pc[o] \in {"insert", "mapping", "commit"}

\* Mutant: stores the v1 document as it is.
ReadMappingUntranslated(w) ==
    /\ pc[w] = "readmapping" /\ ~MappingLocked(w)
    /\ pc' = [pc EXCEPT ![w] = "insert"]
    /\ content' = [content EXCEPT ![w] = house[target[w]]]
    /\ saw' = [saw EXCEPT ![w] = map[target[w]]]
    /\ UNCHANGED <<v1, v2, target, found, mine, mapped>>

\* Select the mapping FOR UPDATE, and translate the event's snapshot; a document
\* that cannot be translated exactly raises.
ReadMapping(w) ==
    LET c == Translate[house[target[w]]] IN
    /\ pc[w] = "readmapping" /\ ~MappingLocked(w)
    /\ \/ /\ c # NoContent
          /\ pc' = [pc EXCEPT ![w] = "insert"]
          /\ content' = [content EXCEPT ![w] = c]
          /\ saw' = [saw EXCEPT ![w] = map[target[w]]]
          /\ UNCHANGED <<lock, target, found, mine, mapped>>
       \/ c = NoContent /\ End(w, "failed")
    /\ UNCHANGED <<house, event, v2>>

\* The rows no transaction has used.
FreshRows == {r \in Rows : row[r] = NoContent /\ \A o \in Workers : mine[o] => found[o] # r}

\* Where a worker goes once it knows the household of its content: a mapping it
\* had found must name it.
Found(w, r, inserted) ==
    \/ /\ saw[w] \in {NoRow, r}
       /\ pc' = [pc EXCEPT ![w] = IF w \in Natives \/ saw[w] = r THEN "commit" ELSE "mapping"]
       /\ found' = [found EXCEPT ![w] = r]
       /\ mine' = [mine EXCEPT ![w] = inserted]
       /\ UNCHANGED <<lock, target, content, saw, mapped>>
    \/ /\ saw[w] \notin {NoRow, r}
       /\ End(w, "failed")

\* Mutant: looks the content up, then inserts it.
InsertHouseholdUnchecked(w) ==
    /\ pc[w] = "insert"
    /\ \/ \E r \in Rows : row[r] = content[w] /\ Found(w, r, FALSE)
       \/ /\ \A r \in Rows : row[r] # content[w]
          /\ \E r \in FreshRows : Found(w, r, TRUE)
    /\ UNCHANGED <<house, event, v2>>

\* Mutant: commits the household before the mapping is inserted.
InsertHouseholdCommits(w) ==
    /\ pc[w] = "insert"
    /\ \/ /\ \E r \in Rows : row[r] = content[w] /\ Found(w, r, FALSE)
          /\ UNCHANGED row
       \/ /\ \A r \in Rows : row[r] # content[w]
          /\ \E r \in FreshRows : /\ Found(w, r, FALSE)
                                  /\ row' = [row EXCEPT ![r] = content[w]]
    /\ UNCHANGED <<house, event, map, native>>

\* create_normalized_household: INSERT ... ON CONFLICT DO NOTHING, which waits
\* for an uncommitted row of the same content, then the row that was in the way.
InsertHousehold(w) ==
    /\ pc[w] = "insert"
    /\ \A o \in Workers \ {w} : mine[o] => content[o] # content[w]
    /\ \/ \E r \in Rows : row[r] = content[w] /\ Found(w, r, FALSE)
       \/ /\ \A r \in Rows : row[r] # content[w]
          /\ \E r \in FreshRows : Found(w, r, TRUE)
    /\ UNCHANGED <<house, event, v2>>

\* create_legacy_household_mapping: INSERT ... ON CONFLICT DO NOTHING, which
\* waits for an uncommitted mapping. The mapping in the way must name the same
\* v2 household.
InsertMapping(w) ==
    LET r == map[target[w]] IN
    /\ pc[w] = "mapping"
    /\ \A o \in Workers \ {w} : mapped[o] => target[o] # target[w]
    /\ \/ /\ r = NoRow
          /\ pc' = [pc EXCEPT ![w] = "commit"]
          /\ mapped' = [mapped EXCEPT ![w] = TRUE]
          /\ UNCHANGED <<lock, target, content, saw, found, mine>>
       \/ r = found[w] /\ Goto(w, "commit") /\ UNCHANGED lock
       \/ r \notin {NoRow, found[w]} /\ End(w, "failed")
    /\ UNCHANGED <<house, event, v2>>

\* What a commit of w's v2 transaction writes.
Commit(w) ==
    /\ row' = IF mine[w] THEN [row EXCEPT ![found[w]] = content[w]] ELSE row
    /\ map' = IF mapped[w] THEN [map EXCEPT ![target[w]] = found[w]] ELSE map
    /\ native' = IF w \in Natives THEN native \union {found[w]} ELSE native

\* The v2 transaction commits. A lost reply raises, and the v1 transaction is
\* rolled back with the event still pending.
CommitV2(w) ==
    /\ pc[w] = "commit"
    /\ Commit(w)
    /\ \/ /\ w \notin Natives
          /\ pc' = [pc EXCEPT ![w] = "mark"]
          /\ mine' = [mine EXCEPT ![w] = FALSE]
          /\ mapped' = [mapped EXCEPT ![w] = FALSE]
          /\ UNCHANGED <<lock, target, content, saw, found>>
       \/ w \in Natives /\ End(w, "done")
       \/ "lost" \in Faults /\ End(w, "failed")
    /\ UNCHANGED <<house, event>>

\* processed_at is set and the v1 transaction commits - unless its connection,
\* and the event's lock with it, was lost.
MarkProcessed(w) ==
    LET h == target[w] IN
    /\ pc[w] = "mark"
    /\ \/ /\ lock[h] = w
          /\ event' = [event EXCEPT ![h] = "processed"]
          /\ End(w, "copied")
       \/ /\ lock[h] # w
          /\ UNCHANGED event
          /\ End(w, "failed")
    /\ UNCHANGED <<house, v2>>

(***************************************************************************)
(* Failures.                                                               *)
(***************************************************************************)

\* Mutant: a failed copy puts its event back to pending.
FailReopensEvent(w) ==
    /\ "error" \in Faults
    /\ pc[w] \in {"readmapping", "insert", "mapping", "commit", "mark"} /\ w \notin Natives
    /\ event' = [event EXCEPT ![target[w]] = "pending"]
    /\ End(w, "failed")
    /\ UNCHANGED <<house, v2>>

\* A statement raises or times out, or the process dies: both transactions are
\* rolled back.
Fail(w) ==
    /\ "error" \in Faults
    /\ pc[w] \notin Ended
    /\ End(w, "failed")
    /\ UNCHANGED <<house, event, v2>>

\* The v1 connection drops; the v2 transaction goes on.
LoseLock(h) ==
    /\ "v1lost" \in Faults
    /\ lock[h] # NoOne
    /\ lock' = [lock EXCEPT ![h] = NoOne]
    /\ UNCHANGED <<house, event, v2, local>>

Start(w) ==
    \/ \E h \in Houses : StartOperator(w, h) \/ \E d \in Documents : CreateHousehold(w, h, d)
    \/ \E c \in Contents : StartNative(w, c)

Step(w) ==
    \/ LockEvent(w) \/ ReadMapping(w) \/ InsertHousehold(w) \/ InsertMapping(w)
    \/ CommitV2(w) \/ MarkProcessed(w)

Next ==
    \/ \E w \in Workers : Start(w) \/ Step(w) \/ Fail(w)
    \/ \E h \in Houses : LoseLock(h)

Spec == Init /\ [][Next]_vars

(***************************************************************************)
(* Properties.                                                             *)
(***************************************************************************)

\* Household h has its copy: the v2 household of its own translation.
Copied(h) ==
    /\ map[h] # NoRow
    /\ row[map[h]] = Translate[house[h]]
    /\ row[map[h]] # NoContent

\* An event is marked processed only once the v2 transaction has committed the
\* household's own copy, whatever fails between the two commits and whoever
\* else copies the same household after a lost row lock.
ProcessedIsCopied == \A h \in Houses : event[h] = "processed" => Copied(h)

\* Two v1 households, a replay and a native v2 POST that store the same content
\* share one v2 household ("deduplicated by content hash", services.py).
OneRowPerContent ==
    \A r, s \in Rows : row[r] # NoContent /\ row[r] = row[s] => r = s

\* Copying is all or nothing: every v2 household is some v1 household's copy or
\* was asked for by a v2 POST; none is left behind by a copy that failed.
NoOrphanRow ==
    \A r \in Rows : row[r] # NoContent => r \in native \/ \E h \in Houses : map[h] = r

\* A mapping and the v2 household it names never change once committed, and a
\* processed event never becomes pending again, under any replay.
CopiesAreFinal ==
    [][/\ \A h \in Houses : map[h] # NoRow => map'[h] = map[h]
       /\ \A r \in Rows : row[r] # NoContent => row'[r] = row[r]
       /\ \A h \in Houses : event[h] = "processed" => event'[h] = "processed"]_vars

\* Each worker executes its next statement unless it waits for a lock.
FairSpec == Spec /\ \A w \in Workers : WF_vars(Step(w))

\* Nobody waits forever: the event's lock and the waits of the two inserts for
\* uncommitted rows never form a cycle, so every copy ends.
CopiesEnd == \A w \in Workers : pc[w] \notin Ended ~> pc[w] \in Ended
=============================================================================
