----------------------- MODULE HouseholdMirrorProofs -----------------------
(***************************************************************************)
(* Proofs, for any numbers of workers, households, documents and faults,   *)
(* of the safety properties of HouseholdMirror.                            *)
(***************************************************************************)
EXTENDS HouseholdMirror, TLAPS

(***************************************************************************)
(* The inductive invariant.                                                *)
(***************************************************************************)

\* Where a worker's v2 transaction is open.
InTransaction == {"insert", "mapping", "commit"}

\* An event is recorded with its household, and a copying worker has a household.
EventsHaveHouses ==
    /\ \A h \in Houses : event[h] # "none" => house[h] # NoDocument
    /\ \A w \in Workers :
           /\ pc[w] \in {"lock", "readmapping", "mapping", "mark"} => w \notin Natives
           /\ pc[w] \notin Ended /\ w \notin Natives => target[w] \in Houses
           /\ pc[w] \notin Ended \union {"lock"} /\ w \notin Natives =>
                  house[target[w]] # NoDocument

\* A transaction stores the translation of its household.
StoresTranslation ==
    \A w \in Workers : pc[w] \in InTransaction =>
        /\ content[w] # NoContent
        /\ w \notin Natives => content[w] = Translate[house[target[w]]]

\* An uncommitted household is fresh, and the only one with its content.
InsertedOnce ==
    \A w \in Workers : mine[w] =>
        /\ pc[w] \in {"mapping", "commit"}
        /\ row[found[w]] = NoContent
        /\ \A r \in Rows : row[r] # content[w]
        /\ \A o \in Workers \ {w} :
               mine[o] => content[o] # content[w] /\ found[o] # found[w]

\* A transaction past its first insert knows the household of its content.
FoundContent ==
    \A w \in Workers : pc[w] \in {"mapping", "commit"} =>
        /\ found[w] \in Rows
        /\ ~mine[w] => row[found[w]] = content[w]

\* An uncommitted mapping is the only one of its household.
MappedOnce ==
    \A w \in Workers : mapped[w] =>
        /\ pc[w] = "commit" /\ w \notin Natives
        /\ map[target[w]] = NoRow
        /\ \A o \in Workers \ {w} : mapped[o] => target[o] # target[w]

\* A mapping that a transaction found is still there, and one that is about to
\* commit has inserted its mapping or found it.
SawMapping ==
    \A w \in Workers :
        /\ pc[w] \in InTransaction /\ w \in Natives => saw[w] = NoRow
        /\ pc[w] \in InTransaction /\ saw[w] # NoRow => map[target[w]] = saw[w]
        /\ pc[w] = "commit" /\ w \notin Natives /\ ~mapped[w] =>
               map[target[w]] = found[w]

\* Every mapping names its household's copy.
MappingsAreCopies ==
    \A h \in Houses : map[h] # NoRow => house[h] # NoDocument /\ Copied(h)

\* A worker marks an event processed after the copy was committed.
MarksCopies == \A w \in Workers : pc[w] = "mark" => map[target[w]] # NoRow

\* A native POST that has not started has no mapping, and a start has nothing
\* uncommitted.
StartsClean ==
    \A w \in Workers :
        /\ pc[w] = "start" => saw[w] = NoRow
        /\ w \in Natives => pc[w] \in {"start", "insert", "commit", "failed", "done"}

IInv ==
    /\ TypeOK
    /\ EventsHaveHouses
    /\ StoresTranslation
    /\ InsertedOnce
    /\ FoundContent
    /\ MappedOnce
    /\ SawMapping
    /\ MappingsAreCopies
    /\ MarksCopies
    /\ StartsClean
    /\ ProcessedIsCopied
    /\ OneRowPerContent
    /\ NoOrphanRow

\* A worker that ends without committing anything changes no table.
LEMMA EndStep ==
  ASSUME IInv, NEW w \in Workers, NEW how \in {"failed", "done"}, End(w, how),
         UNCHANGED <<house, event, v2>>
  PROVE  IInv'
<1>1. TypeOK'
  BY ConstantsAssumption DEF IInv, TypeOK, PC, End, Unlock, v2
<1>2. EventsHaveHouses'
  BY ConstantsAssumption DEF IInv, TypeOK, EventsHaveHouses, Ended, PC, End,
    Unlock, v2
<1>3. StoresTranslation'
  BY ConstantsAssumption DEF IInv, TypeOK, StoresTranslation, EventsHaveHouses,
    InTransaction, Ended, PC, End, Unlock, v2
<1>4. InsertedOnce'
  BY ConstantsAssumption DEF IInv, TypeOK, InsertedOnce, FoundContent, PC, End,
    Unlock, v2
<1>5. FoundContent'
  BY ConstantsAssumption DEF IInv, TypeOK, FoundContent, InsertedOnce, PC, End,
    Unlock, v2
<1>6. MappedOnce'
  BY ConstantsAssumption DEF IInv, TypeOK, MappedOnce, PC, End, Unlock, v2
<1>7. SawMapping'
  BY ConstantsAssumption DEF IInv, TypeOK, SawMapping, MappedOnce,
    InTransaction, PC, End, Unlock, v2
<1>8. MappingsAreCopies'
  BY ConstantsAssumption DEF IInv, TypeOK, MappingsAreCopies, EventsHaveHouses,
    Copied, Ended, PC, End, Unlock, v2
<1>9. MarksCopies'
  BY ConstantsAssumption DEF IInv, TypeOK, MarksCopies, EventsHaveHouses,
    Ended, PC, End, Unlock, v2
<1>10. StartsClean'
  BY ConstantsAssumption DEF IInv, TypeOK, StartsClean, PC, End, Unlock, v2
<1>11. ProcessedIsCopied'
  BY ConstantsAssumption DEF IInv, TypeOK, ProcessedIsCopied, EventsHaveHouses,
    Copied, Ended, PC, End, Unlock, v2
<1>12. OneRowPerContent'
  BY ConstantsAssumption DEF IInv, TypeOK, OneRowPerContent, PC, End, Unlock,
    v2
<1>13. NoOrphanRow'
  BY ConstantsAssumption DEF IInv, TypeOK, NoOrphanRow, PC, End, Unlock, v2
<1> QED
  BY <1>1, <1>2, <1>3, <1>4, <1>5, <1>6, <1>7, <1>8, <1>9, <1>10, <1>11, <1>12,
     <1>13
  DEF IInv

\* Storing a household, and starting an operator's run or a native POST.
LEMMA StartStep ==
  ASSUME IInv, NEW w \in Workers, Start(w)
  PROVE  IInv'
<1>1. TypeOK'
  BY ConstantsAssumption DEF IInv, TypeOK, PC, Start, CreateHousehold,
    StartOperator, StartNative, v1, v2, Workers
<1>2. EventsHaveHouses'
  BY ConstantsAssumption DEF IInv, TypeOK, EventsHaveHouses, Ended, PC, Start,
    CreateHousehold, StartOperator, StartNative, v1, v2, Workers
<1>3. StoresTranslation'
  BY ConstantsAssumption DEF IInv, TypeOK, StoresTranslation, EventsHaveHouses,
    InTransaction, Ended, PC, Start, CreateHousehold, StartOperator,
    StartNative, v1, v2, Workers
<1>4. InsertedOnce'
  BY ConstantsAssumption DEF IInv, TypeOK, InsertedOnce, FoundContent, PC,
    Start, CreateHousehold, StartOperator, StartNative, v1, v2, Workers
<1>5. FoundContent'
  BY ConstantsAssumption DEF IInv, TypeOK, FoundContent, InsertedOnce, PC,
    Start, CreateHousehold, StartOperator, StartNative, v1, v2, Workers
<1>6. MappedOnce'
  BY ConstantsAssumption DEF IInv, TypeOK, MappedOnce, PC, Start,
    CreateHousehold, StartOperator, StartNative, v1, v2, Workers
<1>7. SawMapping'
  BY ConstantsAssumption DEF IInv, TypeOK, SawMapping, StartsClean,
    InTransaction, PC, Start, CreateHousehold, StartOperator, StartNative, v1,
    v2, Workers
<1>8. MappingsAreCopies'
  BY ConstantsAssumption DEF IInv, TypeOK, MappingsAreCopies, EventsHaveHouses,
    Copied, Ended, PC, Start, CreateHousehold, StartOperator, StartNative, v1,
    v2, Workers
<1>9. MarksCopies'
  BY ConstantsAssumption DEF IInv, TypeOK, MarksCopies, EventsHaveHouses,
    Ended, PC, Start, CreateHousehold, StartOperator, StartNative, v1, v2,
    Workers
<1>10. StartsClean'
  BY ConstantsAssumption DEF IInv, TypeOK, StartsClean, PC, Start,
    CreateHousehold, StartOperator, StartNative, v1, v2, Workers
<1>11. ProcessedIsCopied'
  BY ConstantsAssumption DEF IInv, TypeOK, ProcessedIsCopied, EventsHaveHouses,
    Copied, Ended, PC, Start, CreateHousehold, StartOperator, StartNative, v1,
    v2, Workers
<1>12. OneRowPerContent'
  BY ConstantsAssumption DEF IInv, TypeOK, OneRowPerContent, PC, Start,
    CreateHousehold, StartOperator, StartNative, v1, v2, Workers
<1>13. NoOrphanRow'
  BY ConstantsAssumption DEF IInv, TypeOK, NoOrphanRow, PC, Start,
    CreateHousehold, StartOperator, StartNative, v1, v2, Workers
<1> QED
  BY <1>1, <1>2, <1>3, <1>4, <1>5, <1>6, <1>7, <1>8, <1>9, <1>10, <1>11, <1>12,
     <1>13
  DEF IInv

\* Taking the event's row lock.
LEMMA LockStep ==
  ASSUME IInv, NEW w \in Workers, LockEvent(w), ~End(w, "failed")
  PROVE  IInv'
<1>1. TypeOK'
  BY ConstantsAssumption DEF IInv, TypeOK, PC, LockEvent, Goto, v2
<1>2. EventsHaveHouses'
  BY ConstantsAssumption DEF IInv, TypeOK, EventsHaveHouses, Ended, PC,
    LockEvent, Goto, v2
<1>3. StoresTranslation'
  BY ConstantsAssumption DEF IInv, TypeOK, StoresTranslation, EventsHaveHouses,
    InTransaction, Ended, PC, LockEvent, Goto, v2
<1>4. InsertedOnce'
  BY ConstantsAssumption DEF IInv, TypeOK, InsertedOnce, FoundContent, PC,
    LockEvent, Goto, v2
<1>5. FoundContent'
  BY ConstantsAssumption DEF IInv, TypeOK, FoundContent, InsertedOnce, PC,
    LockEvent, Goto, v2
<1>6. MappedOnce'
  BY ConstantsAssumption DEF IInv, TypeOK, MappedOnce, PC, LockEvent, Goto, v2
<1>7. SawMapping'
  BY ConstantsAssumption DEF IInv, TypeOK, SawMapping, MappedOnce,
    InTransaction, PC, LockEvent, Goto, v2
<1>8. MappingsAreCopies'
  BY ConstantsAssumption DEF IInv, TypeOK, MappingsAreCopies, EventsHaveHouses,
    Copied, Ended, PC, LockEvent, Goto, v2
<1>9. MarksCopies'
  BY ConstantsAssumption DEF IInv, TypeOK, MarksCopies, EventsHaveHouses,
    Ended, PC, LockEvent, Goto, v2
<1>10. StartsClean'
  BY ConstantsAssumption DEF IInv, TypeOK, StartsClean, PC, LockEvent, Goto, v2
<1>11. ProcessedIsCopied'
  BY ConstantsAssumption DEF IInv, TypeOK, ProcessedIsCopied, EventsHaveHouses,
    Copied, Ended, PC, LockEvent, Goto, v2
<1>12. OneRowPerContent'
  BY ConstantsAssumption DEF IInv, TypeOK, OneRowPerContent, PC, LockEvent,
    Goto, v2
<1>13. NoOrphanRow'
  BY ConstantsAssumption DEF IInv, TypeOK, NoOrphanRow, PC, LockEvent, Goto, v2
<1> QED
  BY <1>1, <1>2, <1>3, <1>4, <1>5, <1>6, <1>7, <1>8, <1>9, <1>10, <1>11, <1>12,
     <1>13
  DEF IInv

\* Reading the mapping and translating the document.
LEMMA ReadStep ==
  ASSUME IInv, NEW w \in Workers, ReadMapping(w), ~End(w, "failed")
  PROVE  IInv'
<1>1. TypeOK'
  BY ConstantsAssumption DEF IInv, TypeOK, EventsHaveHouses, Ended, PC,
    ReadMapping, v2
<1>2. EventsHaveHouses'
  BY ConstantsAssumption DEF IInv, TypeOK, EventsHaveHouses, Ended, PC,
    ReadMapping, v2
<1>3. StoresTranslation'
  BY ConstantsAssumption DEF IInv, TypeOK, StoresTranslation, EventsHaveHouses,
    InTransaction, Ended, PC, ReadMapping, v2
<1>4. InsertedOnce'
  BY ConstantsAssumption DEF IInv, TypeOK, InsertedOnce, FoundContent, PC,
    ReadMapping, v2
<1>5. FoundContent'
  BY ConstantsAssumption DEF IInv, TypeOK, FoundContent, InsertedOnce, PC,
    ReadMapping, v2
<1>6. MappedOnce'
  BY ConstantsAssumption DEF IInv, TypeOK, MappedOnce, PC, ReadMapping, v2
<1>7. SawMapping'
  BY ConstantsAssumption DEF IInv, TypeOK, SawMapping, EventsHaveHouses,
    InTransaction, Ended, PC, ReadMapping, v2
<1>8. MappingsAreCopies'
  BY ConstantsAssumption DEF IInv, TypeOK, MappingsAreCopies, EventsHaveHouses,
    Copied, Ended, PC, ReadMapping, v2
<1>9. MarksCopies'
  BY ConstantsAssumption DEF IInv, TypeOK, MarksCopies, EventsHaveHouses,
    Ended, PC, ReadMapping, v2
<1>10. StartsClean'
  BY ConstantsAssumption DEF IInv, TypeOK, StartsClean, PC, ReadMapping, v2
<1>11. ProcessedIsCopied'
  BY ConstantsAssumption DEF IInv, TypeOK, ProcessedIsCopied, EventsHaveHouses,
    Copied, Ended, PC, ReadMapping, v2
<1>12. OneRowPerContent'
  BY ConstantsAssumption DEF IInv, TypeOK, OneRowPerContent, PC, ReadMapping,
    v2
<1>13. NoOrphanRow'
  BY ConstantsAssumption DEF IInv, TypeOK, NoOrphanRow, PC, ReadMapping, v2
<1> QED
  BY <1>1, <1>2, <1>3, <1>4, <1>5, <1>6, <1>7, <1>8, <1>9, <1>10, <1>11, <1>12,
     <1>13
  DEF IInv

\* Inserting the household, or finding it.
LEMMA InsertStep ==
  ASSUME IInv, NEW w \in Workers, InsertHousehold(w), ~End(w, "failed")
  PROVE  IInv'
<1>1. TypeOK'
  <2>1. PICK r \in Rows, inserted \in BOOLEAN : Found(w, r, inserted)
    BY DEF InsertHousehold, FreshRows
  <2>2. /\ pc' \in [Workers -> PC] /\ found' \in [Workers -> Rows \union {NoRow}]
        /\ UNCHANGED <<v1, v2, target, content, saw, mapped>>
    BY <2>1 DEF IInv, TypeOK, PC, InsertHousehold, Found, v1, v2
  <2>3. mine' \in [Workers -> BOOLEAN]
    BY <2>1 DEF IInv, TypeOK, Found
  <2> QED
    BY <2>2, <2>3 DEF IInv, TypeOK, v1, v2
<1>2. EventsHaveHouses'
  BY ConstantsAssumption DEF IInv, TypeOK, EventsHaveHouses, Ended, PC,
    InsertHousehold, Found, FreshRows, v2
<1>3. StoresTranslation'
  BY ConstantsAssumption DEF IInv, TypeOK, StoresTranslation, EventsHaveHouses,
    InTransaction, Ended, PC, InsertHousehold, Found, FreshRows, v2
<1>4. InsertedOnce'
  BY ConstantsAssumption DEF IInv, TypeOK, InsertedOnce, FoundContent, PC,
    InsertHousehold, Found, FreshRows, v2
<1>5. FoundContent'
  BY ConstantsAssumption DEF IInv, TypeOK, FoundContent, InsertedOnce, PC,
    InsertHousehold, Found, FreshRows, v2
<1>6. MappedOnce'
  BY ConstantsAssumption DEF IInv, TypeOK, MappedOnce, PC, InsertHousehold,
    Found, FreshRows, v2
<1>7. SawMapping'
  BY ConstantsAssumption DEF IInv, TypeOK, SawMapping, MappedOnce,
    InTransaction, PC, InsertHousehold, Found, FreshRows, v2
<1>8. MappingsAreCopies'
  BY ConstantsAssumption DEF IInv, TypeOK, MappingsAreCopies, EventsHaveHouses,
    Copied, Ended, PC, InsertHousehold, Found, FreshRows, v2
<1>9. MarksCopies'
  BY ConstantsAssumption DEF IInv, TypeOK, MarksCopies, EventsHaveHouses,
    Ended, PC, InsertHousehold, Found, FreshRows, v2
<1>10. StartsClean'
  BY ConstantsAssumption DEF IInv, TypeOK, StartsClean, PC, InsertHousehold,
    Found, FreshRows, v2
<1>11. ProcessedIsCopied'
  BY ConstantsAssumption DEF IInv, TypeOK, ProcessedIsCopied, EventsHaveHouses,
    Copied, Ended, PC, InsertHousehold, Found, FreshRows, v2
<1>12. OneRowPerContent'
  BY ConstantsAssumption DEF IInv, TypeOK, OneRowPerContent, PC,
    InsertHousehold, Found, FreshRows, v2
<1>13. NoOrphanRow'
  BY ConstantsAssumption DEF IInv, TypeOK, NoOrphanRow, PC, InsertHousehold,
    Found, FreshRows, v2
<1> QED
  BY <1>1, <1>2, <1>3, <1>4, <1>5, <1>6, <1>7, <1>8, <1>9, <1>10, <1>11, <1>12,
     <1>13
  DEF IInv

\* Inserting the mapping, or finding it.
LEMMA MappingStep ==
  ASSUME IInv, NEW w \in Workers, InsertMapping(w), ~End(w, "failed")
  PROVE  IInv'
<1>1. TypeOK'
  BY ConstantsAssumption DEF IInv, TypeOK, PC, InsertMapping, Goto, v2
<1>2. EventsHaveHouses'
  BY ConstantsAssumption DEF IInv, TypeOK, EventsHaveHouses, Ended, PC,
    InsertMapping, Goto, v2
<1>3. StoresTranslation'
  BY ConstantsAssumption DEF IInv, TypeOK, StoresTranslation, EventsHaveHouses,
    InTransaction, Ended, PC, InsertMapping, Goto, v2
<1>4. InsertedOnce'
  BY ConstantsAssumption DEF IInv, TypeOK, InsertedOnce, FoundContent, PC,
    InsertMapping, Goto, v2
<1>5. FoundContent'
  BY ConstantsAssumption DEF IInv, TypeOK, FoundContent, InsertedOnce, PC,
    InsertMapping, Goto, v2
<1>6. MappedOnce'
  BY ConstantsAssumption DEF IInv, TypeOK, MappedOnce, EventsHaveHouses, Ended,
    PC, InsertMapping, Goto, v2
<1>7. SawMapping'
  BY ConstantsAssumption DEF IInv, TypeOK, SawMapping, MappedOnce,
    InTransaction, PC, InsertMapping, Goto, v2
<1>8. MappingsAreCopies'
  BY ConstantsAssumption DEF IInv, TypeOK, MappingsAreCopies, EventsHaveHouses,
    Copied, Ended, PC, InsertMapping, Goto, v2
<1>9. MarksCopies'
  BY ConstantsAssumption DEF IInv, TypeOK, MarksCopies, EventsHaveHouses,
    Ended, PC, InsertMapping, Goto, v2
<1>10. StartsClean'
  BY ConstantsAssumption DEF IInv, TypeOK, StartsClean, PC, InsertMapping,
    Goto, v2
<1>11. ProcessedIsCopied'
  BY ConstantsAssumption DEF IInv, TypeOK, ProcessedIsCopied, EventsHaveHouses,
    Copied, Ended, PC, InsertMapping, Goto, v2
<1>12. OneRowPerContent'
  BY ConstantsAssumption DEF IInv, TypeOK, OneRowPerContent, PC, InsertMapping,
    Goto, v2
<1>13. NoOrphanRow'
  BY ConstantsAssumption DEF IInv, TypeOK, NoOrphanRow, PC, InsertMapping,
    Goto, v2
<1> QED
  BY <1>1, <1>2, <1>3, <1>4, <1>5, <1>6, <1>7, <1>8, <1>9, <1>10, <1>11, <1>12,
     <1>13
  DEF IInv

\* Committing the v2 transaction, whether or not its reply arrives.
LEMMA CommitStep ==
  ASSUME IInv, NEW w \in Workers, CommitV2(w)
  PROVE  IInv'
<1>1. TypeOK'
  <2>0. found[w] \in Rows
    BY DEF IInv, FoundContent, CommitV2
  <2>1. /\ row' \in [Rows -> Contents \union {NoContent}]
        /\ map' \in [Houses -> Rows \union {NoRow}] /\ native' \subseteq Rows
    BY <2>0, Zenon DEF IInv, TypeOK, CommitV2, Commit
  <2>2. /\ pc' \in [Workers -> PC] /\ lock' \in [Houses -> Workers \union {NoOne}]
        /\ UNCHANGED <<house, event, target, content, saw, found>>
    BY DEF IInv, TypeOK, PC, CommitV2, End, Unlock
  <2>3. mine' \in [Workers -> BOOLEAN] /\ mapped' \in [Workers -> BOOLEAN]
    BY DEF IInv, TypeOK, CommitV2, End
  <2> QED
    BY <2>1, <2>2, <2>3 DEF IInv, TypeOK
<1>2. EventsHaveHouses'
  BY ConstantsAssumption DEF IInv, TypeOK, EventsHaveHouses, Ended, PC,
    CommitV2, Commit, End, Unlock
<1>3. StoresTranslation'
  BY ConstantsAssumption DEF IInv, TypeOK, StoresTranslation, EventsHaveHouses,
    InTransaction, Ended, PC, CommitV2, Commit, End, Unlock
<1>4. InsertedOnce'
  BY ConstantsAssumption DEF IInv, TypeOK, InsertedOnce, FoundContent, PC,
    CommitV2, Commit, End, Unlock
<1>5. FoundContent'
  BY ConstantsAssumption DEF IInv, TypeOK, FoundContent, InsertedOnce,
    StoresTranslation, InTransaction, PC, CommitV2, Commit, End, Unlock
<1>6. MappedOnce'
  BY ConstantsAssumption DEF IInv, TypeOK, MappedOnce, PC, CommitV2, Commit,
    End, Unlock
<1>7. SawMapping'
  BY ConstantsAssumption DEF IInv, TypeOK, SawMapping, MappedOnce,
    EventsHaveHouses, StartsClean, FoundContent, InTransaction, Ended, PC,
    CommitV2, Commit, End, Unlock
<1>8. MappingsAreCopies'
  BY ConstantsAssumption DEF IInv, TypeOK, MappingsAreCopies, EventsHaveHouses,
    InsertedOnce, FoundContent, MappedOnce, StoresTranslation, Copied, Ended,
    InTransaction, PC, CommitV2, Commit, End, Unlock
<1>9. MarksCopies'
  BY ConstantsAssumption DEF IInv, TypeOK, MarksCopies, EventsHaveHouses,
    FoundContent, SawMapping, MappedOnce, Ended, InTransaction, PC, CommitV2,
    Commit, End, Unlock
<1>10. StartsClean'
  BY ConstantsAssumption DEF IInv, TypeOK, StartsClean, PC, CommitV2, Commit,
    End, Unlock
<1>11. ProcessedIsCopied'
  BY ConstantsAssumption DEF IInv, TypeOK, ProcessedIsCopied, InsertedOnce,
    FoundContent, MappedOnce, StoresTranslation, Copied, InTransaction, PC,
    CommitV2, Commit, End, Unlock
<1>12. OneRowPerContent'
  BY ConstantsAssumption DEF IInv, TypeOK, OneRowPerContent, InsertedOnce,
    FoundContent, PC, CommitV2, Commit, End, Unlock
<1>13. NoOrphanRow'
  BY ConstantsAssumption DEF IInv, TypeOK, NoOrphanRow, EventsHaveHouses,
    InsertedOnce, FoundContent, MappedOnce, SawMapping, MappingsAreCopies,
    Ended, InTransaction, Copied, PC, CommitV2, Commit, End, Unlock
<1> QED
  BY <1>1, <1>2, <1>3, <1>4, <1>5, <1>6, <1>7, <1>8, <1>9, <1>10, <1>11, <1>12,
     <1>13
  DEF IInv

\* Marking the event processed.
LEMMA MarkStep ==
  ASSUME IInv, NEW w \in Workers, MarkProcessed(w), ~End(w, "failed")
  PROVE  IInv'
<1>1. TypeOK'
  <2>1. /\ pc' \in [Workers -> PC] /\ lock' \in [Houses -> Workers \union {NoOne}]
        /\ event' \in [Houses -> {"none", "pending", "processed"}]
        /\ UNCHANGED <<house, v2, target, content, saw, found>>
    BY DEF IInv, TypeOK, PC, MarkProcessed, End, Unlock
  <2>2. mine' \in [Workers -> BOOLEAN] /\ mapped' \in [Workers -> BOOLEAN]
    BY DEF IInv, TypeOK, MarkProcessed, End
  <2> QED
    BY <2>1, <2>2 DEF IInv, TypeOK, v2
<1>2. EventsHaveHouses'
  BY ConstantsAssumption DEF IInv, TypeOK, EventsHaveHouses, Ended, PC,
    MarkProcessed, End, Unlock, v2
<1>3. StoresTranslation'
  BY ConstantsAssumption DEF IInv, TypeOK, StoresTranslation, EventsHaveHouses,
    InTransaction, Ended, PC, MarkProcessed, End, Unlock, v2
<1>4. InsertedOnce'
  BY ConstantsAssumption DEF IInv, TypeOK, InsertedOnce, FoundContent, PC,
    MarkProcessed, End, Unlock, v2
<1>5. FoundContent'
  BY ConstantsAssumption DEF IInv, TypeOK, FoundContent, InsertedOnce, PC,
    MarkProcessed, End, Unlock, v2
<1>6. MappedOnce'
  BY ConstantsAssumption DEF IInv, TypeOK, MappedOnce, PC, MarkProcessed, End,
    Unlock, v2
<1>7. SawMapping'
  BY ConstantsAssumption DEF IInv, TypeOK, SawMapping, MappedOnce,
    InTransaction, PC, MarkProcessed, End, Unlock, v2
<1>8. MappingsAreCopies'
  BY ConstantsAssumption DEF IInv, TypeOK, MappingsAreCopies, EventsHaveHouses,
    Copied, Ended, PC, MarkProcessed, End, Unlock, v2
<1>9. MarksCopies'
  BY ConstantsAssumption DEF IInv, TypeOK, MarksCopies, EventsHaveHouses,
    Ended, PC, MarkProcessed, End, Unlock, v2
<1>10. StartsClean'
  BY ConstantsAssumption DEF IInv, TypeOK, StartsClean, PC, MarkProcessed, End,
    Unlock, v2
<1>11. ProcessedIsCopied'
  BY ConstantsAssumption DEF IInv, TypeOK, ProcessedIsCopied, MarksCopies,
    MappingsAreCopies, Copied, PC, MarkProcessed, End, Unlock, v2
<1>12. OneRowPerContent'
  BY ConstantsAssumption DEF IInv, TypeOK, OneRowPerContent, PC, MarkProcessed,
    End, Unlock, v2
<1>13. NoOrphanRow'
  BY ConstantsAssumption DEF IInv, TypeOK, NoOrphanRow, PC, MarkProcessed, End,
    Unlock, v2
<1> QED
  BY <1>1, <1>2, <1>3, <1>4, <1>5, <1>6, <1>7, <1>8, <1>9, <1>10, <1>11, <1>12,
     <1>13
  DEF IInv

\* Losing the event's row lock.
LEMMA LoseStep ==
  ASSUME IInv, NEW h \in Houses, LoseLock(h)
  PROVE  IInv'
<1>1. TypeOK'
  BY ConstantsAssumption DEF IInv, TypeOK, PC, LoseLock, v2, local
<1>2. EventsHaveHouses'
  BY ConstantsAssumption DEF IInv, TypeOK, EventsHaveHouses, Ended, PC,
    LoseLock, v2, local
<1>3. StoresTranslation'
  BY ConstantsAssumption DEF IInv, TypeOK, StoresTranslation, EventsHaveHouses,
    InTransaction, Ended, PC, LoseLock, v2, local
<1>4. InsertedOnce'
  BY ConstantsAssumption DEF IInv, TypeOK, InsertedOnce, FoundContent, PC,
    LoseLock, v2, local
<1>5. FoundContent'
  BY ConstantsAssumption DEF IInv, TypeOK, FoundContent, InsertedOnce, PC,
    LoseLock, v2, local
<1>6. MappedOnce'
  BY ConstantsAssumption DEF IInv, TypeOK, MappedOnce, PC, LoseLock, v2, local
<1>7. SawMapping'
  BY ConstantsAssumption DEF IInv, TypeOK, SawMapping, MappedOnce,
    InTransaction, PC, LoseLock, v2, local
<1>8. MappingsAreCopies'
  BY ConstantsAssumption DEF IInv, TypeOK, MappingsAreCopies, EventsHaveHouses,
    Copied, Ended, PC, LoseLock, v2, local
<1>9. MarksCopies'
  BY ConstantsAssumption DEF IInv, TypeOK, MarksCopies, EventsHaveHouses,
    Ended, PC, LoseLock, v2, local
<1>10. StartsClean'
  BY ConstantsAssumption DEF IInv, TypeOK, StartsClean, PC, LoseLock, v2, local
<1>11. ProcessedIsCopied'
  BY ConstantsAssumption DEF IInv, TypeOK, ProcessedIsCopied, EventsHaveHouses,
    Copied, Ended, PC, LoseLock, v2, local
<1>12. OneRowPerContent'
  BY ConstantsAssumption DEF IInv, TypeOK, OneRowPerContent, PC, LoseLock, v2,
    local
<1>13. NoOrphanRow'
  BY ConstantsAssumption DEF IInv, TypeOK, NoOrphanRow, PC, LoseLock, v2, local
<1> QED
  BY <1>1, <1>2, <1>3, <1>4, <1>5, <1>6, <1>7, <1>8, <1>9, <1>10, <1>11, <1>12,
     <1>13
  DEF IInv

\* The tables start empty and no worker has begun, so the invariant holds.
LEMMA InitIInv == Init => IInv
<1> SUFFICES ASSUME Init PROVE IInv
  OBVIOUS
<1>1. TypeOK
  BY DEF Init, TypeOK, PC
<1> QED
  BY <1>1, ConstantsAssumption
  DEF Init, IInv, EventsHaveHouses, StoresTranslation, InsertedOnce, FoundContent,
      MappedOnce, SawMapping, MappingsAreCopies, MarksCopies, StartsClean,
      ProcessedIsCopied, OneRowPerContent, NoOrphanRow, Ended, InTransaction

\* A step that ends a worker as failed, whichever statement raised, writes nothing.
LEMMA FailedSteps ==
  ASSUME TypeOK, NEW w \in Workers, Fail(w) \/ (Step(w) /\ ~CommitV2(w)), End(w, "failed")
  PROVE  UNCHANGED <<house, event, v2>>
  BY DEF Fail, Step, LockEvent, ReadMapping, InsertHousehold, InsertMapping,
         MarkProcessed, End, TypeOK

\* The invariant is inductive.
LEMMA IInvStep == IInv /\ [Next]_vars => IInv'
<1> SUFFICES ASSUME IInv, [Next]_vars PROVE IInv'
  OBVIOUS
<1>1. ASSUME NEW w \in Workers, Start(w) PROVE IInv'
  BY <1>1, StartStep
<1>2. ASSUME NEW w \in Workers, CommitV2(w) PROVE IInv'
  BY <1>2, CommitStep
<1>3. ASSUME NEW w \in Workers, Step(w), ~CommitV2(w) PROVE IInv'
  <2>1. CASE End(w, "failed")
    BY <1>3, <2>1, FailedSteps, EndStep DEF IInv
  <2>2. CASE ~End(w, "failed")
    BY <1>3, <2>2, LockStep, ReadStep, InsertStep, MappingStep, MarkStep DEF Step
  <2> QED
    BY <2>1, <2>2
<1>4. ASSUME NEW w \in Workers, Fail(w) PROVE IInv'
  BY <1>4, EndStep DEF Fail
<1>5. ASSUME NEW h \in Houses, LoseLock(h) PROVE IInv'
  BY <1>5, LoseStep
<1>6. CASE UNCHANGED vars
  BY <1>6 DEF vars, v1, v2, local, IInv, TypeOK, EventsHaveHouses, StoresTranslation,
              InsertedOnce, FoundContent, MappedOnce, SawMapping, MappingsAreCopies,
              MarksCopies, StartsClean, ProcessedIsCopied, OneRowPerContent,
              NoOrphanRow, Copied
<1> QED
  BY <1>1, <1>2, <1>3, <1>4, <1>5, <1>6 DEF Next

\* The invariant holds in every reachable state.
LEMMA Inductive == Spec => []IInv
  BY InitIInv, IInvStep, PTL DEF Spec

(***************************************************************************)
(* The theorems.                                                           *)
(***************************************************************************)

\* The tables and every worker's variables keep their types: what a worker
\* inserts into v2 is a translated content, never a v1 document.
THEOREM TypeCorrect == Spec => []TypeOK
<1>1. IInv => TypeOK
  BY DEF IInv
<1> QED
  BY <1>1, Inductive, PTL

\* process_mirror_event marks an event only after its household's copy was
\* committed to v2, for any number of copies, failures and lost v1 connections.
THEOREM MarksAreTrue == Spec => []ProcessedIsCopied
<1>1. IInv => ProcessedIsCopied
  BY DEF IInv
<1> QED
  BY <1>1, Inductive, PTL

\* The v2 households are deduplicated: no content is stored twice, though
\* concurrent transactions cannot see each other's inserts.
THEOREM ContentsAreUnique == Spec => []OneRowPerContent
<1>1. IInv => OneRowPerContent
  BY DEF IInv
<1> QED
  BY <1>1, Inductive, PTL

\* A copy that fails at any statement leaves no v2 household behind.
THEOREM CopiesAreAtomic == Spec => []NoOrphanRow
<1>1. IInv => NoOrphanRow
  BY DEF IInv
<1> QED
  BY <1>1, Inductive, PTL

\* Committed copies are permanent: replays by later requests and operators never
\* repoint a mapping, rewrite a v2 household or reopen a processed event.
THEOREM ReplaysChangeNothing == Spec => CopiesAreFinal
<1> DEFINE Kept == /\ \A h \in Houses : map[h] # NoRow => map'[h] = map[h]
                   /\ \A r \in Rows : row[r] # NoContent => row'[r] = row[r]
                   /\ \A h \in Houses : event[h] = "processed" => event'[h] = "processed"
<1>1. ASSUME IInv, [Next]_vars PROVE Kept
  <2>1. ASSUME NEW w \in Workers, CommitV2(w) PROVE Kept
    BY <1>1, <2>1 DEF IInv, TypeOK, InsertedOnce, FoundContent, MappedOnce, CommitV2, Commit
  <2>2. ASSUME NEW w \in Workers, MarkProcessed(w) PROVE Kept
    BY <1>1, <2>2 DEF IInv, TypeOK, MarkProcessed, v2
  <2>3. ASSUME NEW w \in Workers, Start(w) PROVE Kept
    BY <1>1, <2>3
    DEF IInv, TypeOK, EventsHaveHouses, Start, CreateHousehold, StartOperator, StartNative,
        v1, v2
  <2>4. ASSUME NEW w \in Workers,
               LockEvent(w) \/ ReadMapping(w) \/ InsertHousehold(w) \/ InsertMapping(w) \/ Fail(w)
        PROVE  Kept
    BY <2>4 DEF LockEvent, ReadMapping, InsertHousehold, InsertMapping, Fail, v2
  <2>5. ASSUME NEW h \in Houses, LoseLock(h) PROVE Kept
    BY <2>5 DEF LoseLock, v2
  <2>6. CASE UNCHANGED vars
    BY <2>6 DEF vars, v1, v2
  <2> QED
    BY <1>1, <2>1, <2>2, <2>3, <2>4, <2>5, <2>6 DEF Next, Step
<1>2. [Next]_vars /\ IInv => [Kept]_vars
  BY <1>1
<1> QED
  BY <1>2, Inductive, PTL DEF Spec, CopiesAreFinal
=============================================================================
