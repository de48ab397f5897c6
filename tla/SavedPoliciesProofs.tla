------------------------- MODULE SavedPoliciesProofs -------------------------
(***************************************************************************)
(* Proofs, for any sets of requests, policies, saved policies, releases    *)
(* and translations and any faults, of the safety properties of            *)
(* SavedPolicies and of the policy copies it rests on.                     *)
(***************************************************************************)
EXTENDS SavedPolicies, TLAPS

(***************************************************************************)
(* Copies of policies. A transaction carries a translation of the v1       *)
(* policy it copies; once past the mapping it either has the mapping       *)
(* inserted, and is alone in that, or carries the content that is mapped.  *)
(***************************************************************************)
Translations(q) == {Translate[<<q.document, r>>] : r \in Releases}

\* The calls of a transaction that has the reform policy's copy, and all the
\* calls of one that copies a policy.
HasCopied == {"copied", "insertuser", "readassoc", "insertassoc", "commit"}
Copying == {"readmapping", "insertpolicy", "insertmapping"} \union HasCopied

CallsOfKind ==
    /\ \A w \in Natives : pc[w] \in {"start", "nativeinsert", "nativecommit", "done"}
    /\ \A w \in Posts : pc[w] \in PolicyPC \ {"nativeinsert", "nativecommit"}
    /\ \A w \in Savers : pc[w] \in SaverPC \union {"start", "readmapping", "insertpolicy",
                                       "insertmapping", "copied", "done"}

\* What each transaction carries about its policy.
PolicyCarried ==
    \A w \in Workers :
        /\ pc[w] \in {"lookup", "insert"} => request[w] \in Policies
        /\ pc[w] \in Copying => target[w] \in PolicyIds /\ policy[target[w]] # NoPolicy
        /\ pc[w] \in Copying \ {"readmapping"} =>
               content[w] \in Contents /\ content[w] \in Translations(policy[target[w]])
        /\ pc[w] \in {"nativeinsert", "nativecommit"} => content[w] \in Contents

\* What it has inserted and not committed.
Uncommitted ==
    \A w \in Workers :
        /\ pc[w] \in {"insertmapping"} \union HasCopied =>
               content[w] \in stored \union mine[w]
        /\ mine[w] # {} => pc[w] \in {"insertmapping", "nativecommit"} \union HasCopied
        /\ pc[w] = "nativecommit" => mine[w] \subseteq {content[w]}
        /\ pc[w] \in Copying => mine[w] \subseteq Translations(policy[target[w]])

MappingIsExclusive ==
    \A w \in Workers :
        /\ mapped[w] => pc[w] \in HasCopied /\ map[target[w]] = NoContent
        /\ pc[w] \in HasCopied /\ ~mapped[w] => map[target[w]] = content[w]
        /\ mapped[w] => \A o \in Workers : mapped[o] /\ target[o] = target[w] => o = w

MapIsTrue ==
    \A i \in PolicyIds : map[i] # NoContent =>
        policy[i] # NoPolicy /\ map[i] \in stored /\ map[i] \in Translations(policy[i])

PolicyInv ==
    /\ CallsOfKind
    /\ PolicyCarried
    /\ Uncommitted
    /\ MappingIsExclusive
    /\ MapIsTrue
    /\ OrphansLostARace

(***************************************************************************)
(* Saved policies and their events.                                        *)
(***************************************************************************)

\* Events are numbered without gaps, and while every label is set with one, a
\* revision that does not relabel has the label of the one before.
EventsFollowRevisions ==
    \A s \in SavedIds :
        /\ saved[s] = NoSaved => \A n \in Revisions : event[s][n] = "none"
        /\ saved[s] # NoSaved =>
            /\ saved[s].rev >= 1
            /\ \A n \in Revisions : event[s][n] = "none" <=> n > saved[s].rev
            /\ s \notin unrecorded =>
                /\ snapshot[s][saved[s].rev].label = saved[s].label
                /\ \A n \in 1..saved[s].rev :
                      n > 1 /\ ~snapshot[s][n].relabels =>
                          snapshot[s][n].label = snapshot[s][n - 1].label

\* A copy is that of a saved policy, at one of its revisions.
CopyMatchesSource ==
    \A s \in SavedIds : copy[s] # NoCopy =>
        /\ saved[s] # NoSaved /\ copy[s].last <= saved[s].rev
        /\ map[saved[s].reform] # NoContent /\ copy[s].policy = map[saved[s].reform]
        /\ userMap[saved[s].user] # NoOne /\ copy[s].user = userMap[saved[s].user]
        /\ copy[s].print = snapshot[s][copy[s].last].label
        /\ s \notin unrecorded => copy[s].name = snapshot[s][copy[s].last].label

(***************************************************************************)
(* What a saver carries from one call to the next.                         *)
(***************************************************************************)
Resolved == {"readassoc", "insertassoc", "commit"}

\* Its revision is one of the saved policy's; all before it are processed.
Place(w) ==
    /\ pc[w] \in Copying \union {"mark", "next"} =>
           /\ sid[w] \in SavedIds /\ saved[sid[w]] # NoSaved
           /\ through[w] \in 1..saved[sid[w]].rev
    /\ pc[w] \in Copying \union {"mark"} =>
           /\ rev[w] \in 1..through[w]
           /\ \A m \in 1..(rev[w] - 1) : event[sid[w]][m] = "processed"
    /\ pc[w] \in Copying => target[w] = saved[sid[w]].reform
    /\ pc[w] = "mark" => Current(w) # NoCopy /\ Current(w).last >= rev[w]
    /\ pc[w] = "insertassoc" => rev[w] = 1

SaverPlace == \A w \in Savers : Place(w)

\* Its user: it has inserted one, and is alone in that, or has the mapped one.
SaverUser ==
    \A w \in Savers :
        /\ pc[w] \notin Resolved => tx[w] = EmptyTx
        /\ pc[w] \in Resolved /\ tx[w].newUser =>
               /\ tx[w].owner = w /\ userMap[UserOf(w)] = NoOne
               /\ \A o \in Savers : tx[o].newUser /\ UserOf(o) = UserOf(w) => o = w
        /\ pc[w] \in Resolved /\ ~tx[w].newUser =>
               tx[w].owner = userMap[UserOf(w)] /\ tx[w].owner # NoOne

\* Copy c after revision n with snapshot e is applied to it.
Moved(c, n, e) ==
    [c EXCEPT !.last = n, !.print = e.label, !.name = IF e.relabels THEN e.label ELSE c.name]

\* What transaction t is about to commit of revision n, with snapshot e, is right
\* for the copy c as it stands: a first copy, nothing, or the next revision.
Fits(t, c, n, e) ==
    \/ t.newAssoc /\ t.write = NoCopy /\ n = 1 /\ c = NoCopy
    \/ ~t.newAssoc /\ t.write = NoCopy /\ c # NoCopy /\ c.last >= n
    \/ /\ ~t.newAssoc /\ t.seesCopy /\ t.write = Moved(c, n, e)
       /\ c # NoCopy /\ n = c.last + 1

\* Its association.
SaverAssociation ==
    \A w \in Savers :
        /\ pc[w] \in {"readassoc", "insertassoc"} =>
               tx[w].write = NoCopy /\ ~tx[w].newAssoc /\ ~tx[w].seesCopy
        /\ pc[w] = "commit" => Fits(tx[w], copy[sid[w]], rev[w], snapshot[sid[w]][rev[w]])

\* At most one transaction inserts a saved policy's association, and at most one
\* has locked it.
SaversExclude ==
    \A w, o \in Savers : sid[o] = sid[w] /\ o # w =>
        ~(tx[w].newAssoc /\ tx[o].newAssoc) /\ ~(tx[w].seesCopy /\ tx[o].seesCopy)

\* Every v2 user and association is one that is mapped to.
NoLeftovers ==
    /\ users = {userMap[u] : u \in Users} \ {NoOne}
    /\ assocs = {copy[s].assoc : s \in {t \in SavedIds : copy[t] # NoCopy}}

SaverInv ==
    /\ EventsFollowRevisions
    /\ CopyMatchesSource
    /\ ProcessedIsCopied
    /\ NoLeftovers
    /\ SaverPlace
    /\ SaverUser
    /\ SaverAssociation
    /\ SaversExclude
    /\ NoConflict

IInv == TypeOK /\ PolicyInv /\ SaverInv

(***************************************************************************)
(* The steps that copy policies keep PolicyInv, whoever takes them.        *)
(***************************************************************************)
PolicyTypes ==
    /\ policy \in [PolicyIds -> Policies \union {NoPolicy}]
    /\ published \subseteq Releases /\ stored \subseteq Contents /\ native \subseteq Contents
    /\ map \in [PolicyIds -> Contents \union {NoContent}]
    /\ pc \in [Workers -> PolicyPC \union SaverPC]
    /\ request \in [Workers -> Policies \union {NoPolicy}]
    /\ target \in [Workers -> PolicyIds \union {NoId}]
    /\ content \in [Workers -> Contents \union {NoContent}]
    /\ sees \in [Workers -> BOOLEAN] /\ mapped \in [Workers -> BOOLEAN]
    /\ mine \in [Workers -> SUBSET Contents]

PolicyOK == PolicyTypes /\ PolicyInv

\* Nothing is copied yet.
LEMMA InitPolicy == Init => PolicyOK
  BY ConstantsAssumption
  DEF Init, PolicyInit, PolicyOK, PolicyTypes, PolicyPC, SaverPC, PolicyInv, CallsOfKind, PolicyCarried,
      Uncommitted, MappingIsExclusive, MapIsTrue, OrphansLostARace, Copying, HasCopied, Workers

\* A transaction that ends, committed or not, leaves nothing of its own.
LEMMA EndTransactionOK ==
  ASSUME PolicyOK, NEW w \in Workers, NEW next, next \in {"done", "next", "mark", "conflict"},
         w \notin Savers => next = "done",
         EndTransaction(w, next), UNCHANGED <<tables, request>>,
         target' = target \/ \E i \in PolicyIds \union {NoId} : target' = [target EXCEPT ![w] = i]
  PROVE  PolicyOK'
<1> USE DEF PolicyOK, PolicyTypes, PolicyInv, EndTransaction, tables
<1>1. PolicyTypes'
  BY DEF PolicyPC, SaverPC
<1>2. CallsOfKind'
  BY ConstantsAssumption DEF CallsOfKind, SaverPC, PolicyPC, Workers
<1>3. PolicyCarried'
  BY DEF PolicyCarried, Copying, HasCopied
<1>4. Uncommitted'
  BY DEF Uncommitted, Copying, HasCopied
<1>5. MappingIsExclusive'
  BY DEF MappingIsExclusive, HasCopied
<1>6. MapIsTrue'
  BY DEF MapIsTrue
<1>7. OrphansLostARace'
  BY DEF OrphansLostARace
<1> QED
  BY <1>1, <1>2, <1>3, <1>4, <1>5, <1>6, <1>7

\* A commit publishes what was inserted: the mapping, which nobody else has
\* inserted, and the v2 policies, all translations of what is now mapped.
LEMMA CommitPolicyOK ==
  ASSUME PolicyOK, NEW w \in Workers, pc[w] \in HasCopied,
         NEW next, next \in {"done", "mark"}, w \notin Savers => next = "done",
         CommitPolicy(w), EndTransaction(w, next), UNCHANGED <<policy, published, native, request>>,
         target' = target \/ target' = [target EXCEPT ![w] = NoId]
  PROVE  PolicyOK'
<1> USE DEF PolicyOK, PolicyTypes, PolicyInv, EndTransaction, CommitPolicy
<1>0. /\ target[w] \in PolicyIds /\ policy[target[w]] # NoPolicy
      /\ content[w] \in Contents /\ content[w] \in stored'
      /\ map'[target[w]] = content[w]
      /\ \A i \in PolicyIds : map[i] # NoContent => map'[i] = map[i]
      /\ \A i \in PolicyIds : i # target[w] => map'[i] = map[i]
  BY DEF PolicyCarried, Uncommitted, MappingIsExclusive, Copying
<1>1. PolicyTypes'
  BY <1>0 DEF PolicyPC, SaverPC
<1>2. CallsOfKind'
  BY ConstantsAssumption DEF CallsOfKind, SaverPC, PolicyPC, Workers
<1>3. PolicyCarried'
  BY DEF PolicyCarried, Copying, HasCopied
<1>4. Uncommitted'
  BY DEF Uncommitted, Copying, HasCopied
<1>5. MappingIsExclusive'
  BY <1>0, ConstantsAssumption DEF MappingIsExclusive, PolicyCarried, Copying, HasCopied
<1>6. MapIsTrue'
  <2> SUFFICES ASSUME NEW i \in PolicyIds, map'[i] # NoContent
               PROVE  policy[i] # NoPolicy /\ map'[i] \in stored' /\ map'[i] \in Translations(policy[i])
    BY DEF MapIsTrue
  <2>1. CASE i = target[w]
    <3>1. content[w] \in Translations(policy[target[w]])
      BY DEF PolicyCarried, Copying, HasCopied
    <3> QED
      BY <1>0, <2>1, <3>1
  <2>2. CASE i # target[w]
    BY <1>0, <2>2 DEF MapIsTrue
  <2> QED
    BY <2>1, <2>2
<1>7. OrphansLostARace'
  <2> SUFFICES ASSUME NEW c \in stored' \ native'
               PROVE  \E i \in PolicyIds : /\ map'[i] # NoContent
                                           /\ \E r \in Releases : Translate[<<policy[i].document, r>>] = c
    BY DEF OrphansLostARace
  <2>1. CASE c \in stored
    <3>1. PICK i \in PolicyIds :
             map[i] # NoContent /\ \E r \in Releases : Translate[<<policy[i].document, r>>] = c
      BY <2>1 DEF OrphansLostARace
    <3> QED
      BY <1>0, <3>1
  <2>2. CASE c \in mine[w]
    <3>1. c \in Translations(policy[target[w]])
      BY <2>2 DEF Uncommitted, Copying
    <3> QED
      BY <1>0, <3>1, ConstantsAssumption DEF Translations
  <2> QED
    BY <2>1, <2>2
<1> QED
  BY <1>1, <1>2, <1>3, <1>4, <1>5, <1>6, <1>7

\* A POST finds the policy it was sent, or inserts it where nothing is stored:
\* no policy that anyone copies changes.
LEMMA SetPolicyOK ==
  ASSUME PolicyOK, NEW w \in Workers, w \notin Savers,
         (\E d \in Documents, l \in PolicyLabels : StartPost(w, d, l)) \/ LookUp(w) \/ InsertLegacy(w)
  PROVE  PolicyOK'
<1> USE DEF PolicyOK, PolicyTypes, PolicyInv, Goto, copyVars, tables
<1>0. w \in Posts
  BY DEF StartPost, LookUp, InsertLegacy, CallsOfKind, Workers
<1>1. ASSUME NEW d \in Documents, NEW l \in PolicyLabels, StartPost(w, d, l)
      PROVE  PolicyOK'
  <2>1. PolicyTypes'
    BY <1>1 DEF StartPost, PolicyPC, Policies
  <2>2. CallsOfKind' /\ PolicyCarried'
    BY <1>0, <1>1, ConstantsAssumption
    DEF StartPost, CallsOfKind, PolicyCarried, PolicyPC, Policies, Copying, HasCopied, Workers
  <2>3. Uncommitted' /\ MappingIsExclusive'
    BY <1>1 DEF StartPost, Uncommitted, MappingIsExclusive, Copying, HasCopied
  <2>4. MapIsTrue' /\ OrphansLostARace'
    BY <1>1 DEF StartPost, MapIsTrue, OrphansLostARace
  <2> QED
    BY <2>1, <2>2, <2>3, <2>4
<1>2. CASE LookUp(w)
  <2>0. \A i \in Matches(request[w]) : i \in PolicyIds /\ policy[i] # NoPolicy
    <3>1. request[w] \in Policies
      BY <1>2 DEF LookUp, PolicyCarried
    <3>2. [request[w] EXCEPT !.label = SoughtLabel(request[w].label)] \in Policies
      BY <3>1, ConstantsAssumption DEF Policies, SoughtLabel
    <3> QED
      BY <3>2, ConstantsAssumption DEF Matches, Policies
  <2>1. PolicyTypes'
    BY <1>2, <2>0 DEF LookUp, PolicyPC
  <2>2. CallsOfKind' /\ PolicyCarried'
    BY <1>0, <1>2, <2>0, ConstantsAssumption
    DEF LookUp, CallsOfKind, PolicyCarried, PolicyPC, Copying, HasCopied, Workers
  <2>3. Uncommitted' /\ MappingIsExclusive'
    BY <1>2 DEF LookUp, Uncommitted, MappingIsExclusive, Copying, HasCopied
  <2>4. MapIsTrue' /\ OrphansLostARace'
    BY <1>2 DEF LookUp, MapIsTrue, OrphansLostARace
  <2> QED
    BY <2>1, <2>2, <2>3, <2>4
<1>3. CASE InsertLegacy(w)
  <2>0. /\ request[w] \in Policies /\ request[w] # NoPolicy
        /\ \A i \in PolicyIds : policy[i] # NoPolicy => policy'[i] = policy[i]
        /\ target'[w] \in PolicyIds /\ policy'[target'[w]] # NoPolicy
        /\ \A o \in Workers : o # w => target'[o] = target[o]
    BY <1>3, ConstantsAssumption DEF InsertLegacy, PolicyCarried, Policies
  <2>1. PolicyTypes'
    BY <1>3, <2>0 DEF InsertLegacy, PolicyPC
  <2>2. CallsOfKind'
    BY <1>0, <1>3, ConstantsAssumption DEF InsertLegacy, CallsOfKind, PolicyPC, Workers
  <2>3. PolicyCarried'
    BY <1>3, <2>0 DEF InsertLegacy, PolicyCarried, Copying, HasCopied
  <2>4. Uncommitted'
    BY <1>3, <2>0 DEF InsertLegacy, Uncommitted, PolicyCarried, Copying, HasCopied
  <2>5. MappingIsExclusive'
    BY <1>3 DEF InsertLegacy, MappingIsExclusive, HasCopied
  <2>6. MapIsTrue'
    BY <1>3, <2>0 DEF InsertLegacy, MapIsTrue
  <2>7. OrphansLostARace'
    <3>1. \A i \in PolicyIds : map[i] # NoContent => policy'[i] = policy[i]
      BY <2>0 DEF MapIsTrue
    <3> QED
      <4>1. OrphansLostARace /\ UNCHANGED <<stored, native, map>>
        BY <1>3 DEF InsertLegacy
      <4> HIDE DEF PolicyOK, PolicyTypes, PolicyInv
      <4> QED
        BY <3>1, <4>1 DEF OrphansLostARace
  <2> QED
    BY <2>1, <2>2, <2>3, <2>4, <2>5, <2>6, <2>7
<1> QED
  BY <1>1, <1>2, <1>3

\* What an instance translates a policy to is a translation of it.
LEMMA TranslationTyped ==
  ASSUME PolicyTypes, NEW w, NEW i \in PolicyIds, policy[i] # NoPolicy,
         Translation(w, i) # NoContent
  PROVE  Translation(w, i) \in Contents /\ Translation(w, i) \in Translations(policy[i])
<1>1. Release[w] \in Releases /\ policy[i].document \in Documents
  BY DEF PolicyTypes, Translation, Policies
<1>2. Translation(w, i) = Translate[<<policy[i].document, Release[w]>>]
  BY DEF Translation
<1> QED
  BY <1>1, <1>2, ConstantsAssumption DEF Translations

\* The statements of mirror_legacy_policy_in_session.
LEMMA CopyPolicyOK ==
  ASSUME PolicyOK, NEW w \in Workers, CopyPolicy(w)
  PROVE  PolicyOK'
<1> USE DEF PolicyOK, PolicyTypes, PolicyInv, copyVars, tables
<1>0. w \in Posts \union Savers
  BY ConstantsAssumption DEF CopyPolicy, ReadPolicyMapping, InsertCopy, InsertMapping, CallsOfKind, Workers
<1>1. CASE ReadPolicyMapping(w)
  <2> DEFINE i == target[w]
  <2>0. pc[w] = "readmapping" /\ i \in PolicyIds /\ policy[i] # NoPolicy /\ mine[w] = {} /\ ~mapped[w]
    BY <1>1 DEF ReadPolicyMapping, PolicyCarried, Uncommitted, MappingIsExclusive, Copying, HasCopied
  <2>1. CASE EndTransaction(w, "done")
    BY <1>1, <2>1, EndTransactionOK DEF ReadPolicyMapping
  <2>2. CASE ~EndTransaction(w, "done")
    <3>0. /\ pc' = [pc EXCEPT ![w] = pc'[w]] /\ content' = [content EXCEPT ![w] = content'[w]]
          /\ UNCHANGED <<mine, mapped, tables, request, target>>
          /\ sees' \in [Workers -> BOOLEAN]
          /\ content'[w] \in Contents /\ content'[w] \in Translations(policy[i])
          /\ \/ pc'[w] = "copied" /\ content'[w] = map[i] /\ map[i] \in stored
             \/ pc'[w] = "insertpolicy"
      <4>1. CASE map[i] # NoContent
        BY <1>1, <2>0, <2>2, <4>1 DEF ReadPolicyMapping, MapIsTrue
      <4>2. CASE map[i] = NoContent
        <5>1. Translation(w, i) # NoContent
          BY <1>1, <2>2, <4>2 DEF ReadPolicyMapping
        <5> QED
          BY <1>1, <2>0, <2>2, <4>2, <5>1, TranslationTyped DEF ReadPolicyMapping
      <4> QED
        BY <4>1, <4>2
    <3>1. PolicyTypes'
      BY <3>0 DEF PolicyPC
    <3>2. CallsOfKind'
      BY <1>0, <3>0, ConstantsAssumption DEF CallsOfKind, PolicyPC, Workers
    <3>3. PolicyCarried'
      BY <2>0, <3>0 DEF PolicyCarried, Copying, HasCopied
    <3>4. Uncommitted'
      BY <2>0, <3>0 DEF Uncommitted, Copying, HasCopied
    <3>5. MappingIsExclusive'
      BY <2>0, <3>0 DEF MappingIsExclusive, HasCopied
    <3>6. MapIsTrue' /\ OrphansLostARace'
      BY <3>0 DEF MapIsTrue, OrphansLostARace
    <3> QED
      BY <3>1, <3>2, <3>3, <3>4, <3>5, <3>6
  <2> QED
    BY <2>1, <2>2
<1>2. CASE InsertCopy(w)
  <2>0. /\ pc[w] = "insertpolicy" /\ content[w] \in Contents /\ ~mapped[w]
        /\ content[w] \in Translations(policy[target[w]])
        /\ content[w] \in stored \union mine'[w] /\ mine'[w] \subseteq {content[w]}
    BY <1>2 DEF InsertCopy, InsertPolicy, PolicyCarried, MappingIsExclusive, Copying, HasCopied
  <2> USE <1>2 DEF InsertCopy, InsertPolicy
  <2>1. PolicyTypes'
    BY <2>0 DEF PolicyPC
  <2>2. CallsOfKind'
    BY <1>0, ConstantsAssumption DEF CallsOfKind, PolicyPC, Workers
  <2>3. PolicyCarried'
    BY <2>0 DEF PolicyCarried, Copying, HasCopied
  <2>4. Uncommitted'
    BY <2>0 DEF Uncommitted, Copying, HasCopied
  <2>5. MappingIsExclusive'
    BY <2>0 DEF MappingIsExclusive, HasCopied
  <2>6. MapIsTrue' /\ OrphansLostARace'
    BY DEF MapIsTrue, OrphansLostARace
  <2> QED
    BY <2>1, <2>2, <2>3, <2>4, <2>5, <2>6
<1>3. CASE InsertMapping(w)
  <2>0. /\ pc[w] = "insertmapping" /\ target[w] \in PolicyIds /\ policy[target[w]] # NoPolicy /\ ~mapped[w]
        /\ content[w] \in stored \union mine[w]
        /\ \A o \in Workers : o # w /\ mapped[o] => target[o] # target[w]
    BY <1>3 DEF InsertMapping, PolicyWaits, PolicyCarried, Uncommitted, MappingIsExclusive, Copying, HasCopied
  <2>00. /\ content'[w] \in Contents /\ content'[w] \in Translations(policy[target[w]])
         /\ content'[w] \in stored \union mine[w]
         /\ content' = [content EXCEPT ![w] = content'[w]]
    BY <1>3, <2>0, ConstantsAssumption DEF InsertMapping, PolicyCarried, MapIsTrue, Copying, HasCopied
  <2> USE <1>3 DEF InsertMapping
  <2>1. PolicyTypes'
    BY <2>00 DEF PolicyPC
  <2>2. CallsOfKind'
    BY <1>0, ConstantsAssumption DEF CallsOfKind, PolicyPC, Workers
  <2>3. PolicyCarried'
    BY <2>0, <2>00 DEF PolicyCarried, Copying, HasCopied
  <2>4. Uncommitted'
    BY <2>0, <2>00 DEF Uncommitted, Copying, HasCopied
  <2>5. MappingIsExclusive'
    BY <2>0, <2>00 DEF MappingIsExclusive, HasCopied
  <2>6. MapIsTrue' /\ OrphansLostARace'
    <3>1. MapIsTrue /\ OrphansLostARace /\ UNCHANGED <<policy, stored, native, map>>
      OBVIOUS
    <3> HIDE <1>3 DEF PolicyOK, PolicyTypes, PolicyInv, InsertMapping
    <3> QED
      BY <3>1 DEF MapIsTrue, OrphansLostARace
  <2> QED
    BY <2>1, <2>2, <2>3, <2>4, <2>5, <2>6
<1> QED
  BY <1>1, <1>2, <1>3 DEF CopyPolicy

\* A v2 POST stores one policy, which it asked for.
LEMMA NativeOK ==
  ASSUME PolicyOK, NEW w \in Workers,
         (\E c \in Contents : StartNative(w, c)) \/ InsertNative(w) \/ CommitNative(w)
  PROVE  PolicyOK'
<1> USE DEF PolicyOK, PolicyTypes, PolicyInv, copyVars, tables
<1>0. w \in Natives
  BY ConstantsAssumption DEF StartNative, InsertNative, CommitNative, CallsOfKind, Workers, SaverPC
<1>1. ASSUME NEW c \in Contents, StartNative(w, c)
      PROVE  PolicyOK'
  <2> USE <1>1 DEF StartNative
  <2>1. PolicyTypes' /\ CallsOfKind'
    BY <1>0, ConstantsAssumption DEF CallsOfKind, PolicyPC, Workers
  <2>2. PolicyCarried' /\ Uncommitted' /\ MappingIsExclusive'
    BY DEF PolicyCarried, Uncommitted, MappingIsExclusive, Copying, HasCopied
  <2>3. MapIsTrue' /\ OrphansLostARace'
    BY DEF MapIsTrue, OrphansLostARace
  <2> QED
    BY <2>1, <2>2, <2>3
<1>2. CASE InsertNative(w)
  <2> USE <1>2 DEF InsertNative, InsertPolicy
  <2>1. PolicyTypes' /\ CallsOfKind'
    BY <1>0, ConstantsAssumption DEF PolicyCarried, CallsOfKind, PolicyPC, Workers
  <2>2. PolicyCarried' /\ MappingIsExclusive'
    BY DEF PolicyCarried, MappingIsExclusive, Copying, HasCopied
  <2>3. Uncommitted'
    BY DEF Uncommitted, Copying, HasCopied
  <2>4. MapIsTrue' /\ OrphansLostARace'
    BY DEF MapIsTrue, OrphansLostARace
  <2> QED
    BY <2>1, <2>2, <2>3, <2>4
<1>3. CASE CommitNative(w)
  <2> USE <1>3 DEF CommitNative, EndTransaction
  <2>0. mine[w] \subseteq {content[w]} /\ content[w] \in Contents
    BY DEF Uncommitted, PolicyCarried
  <2>1. PolicyTypes' /\ CallsOfKind'
    BY <1>0, <2>0, ConstantsAssumption DEF CallsOfKind, PolicyPC, Workers
  <2>2. PolicyCarried' /\ MappingIsExclusive'
    BY DEF PolicyCarried, MappingIsExclusive, Copying, HasCopied
  <2>3. Uncommitted'
    BY DEF Uncommitted, Copying, HasCopied
  <2>4. MapIsTrue'
    BY DEF MapIsTrue
  <2>5. OrphansLostARace'
    <3>1. stored' \ native' \subseteq stored \ native
      BY <2>0
    <3> QED
      BY <3>1 DEF OrphansLostARace
  <2> QED
    BY <2>1, <2>2, <2>3, <2>4, <2>5
<1> QED
  BY <1>1, <1>2, <1>3

\* A step that changes none of its variables keeps it.
LEMMA PolicyFrame ==
  ASSUME PolicyOK, UNCHANGED policyVars
  PROVE  PolicyOK'
<1> USE DEF PolicyOK, PolicyTypes, PolicyInv, policyVars, copyVars, tables
<1>1. PolicyTypes' /\ CallsOfKind'
  BY DEF CallsOfKind
<1>2. PolicyCarried' /\ Uncommitted' /\ MappingIsExclusive'
  BY DEF PolicyCarried, Uncommitted, MappingIsExclusive
<1>3. MapIsTrue' /\ OrphansLostARace'
  BY DEF MapIsTrue, OrphansLostARace
<1> QED
  BY <1>1, <1>2, <1>3

\* Publishing a catalog changes what policies translate to from now on, not what
\* is a translation of them.
LEMMA PublishOK ==
  ASSUME PolicyOK, NEW r \in Releases, Publish(r)
  PROVE  PolicyOK'
  BY DEF Publish, PolicyOK, PolicyTypes, PolicyInv, copyVars, CallsOfKind, PolicyCarried, Uncommitted,
         MappingIsExclusive, MapIsTrue, OrphansLostARace

\* A saver's calls outside mirror_legacy_policy_in_session keep the policy it
\* copies, or choose one that is stored.
LEMMA SaverMoveOK ==
  ASSUME PolicyOK, NEW w \in Savers, NEW next,
         UNCHANGED <<tables, request, copyVars>>, pc' = [pc EXCEPT ![w] = next],
         \/ pc[w] = "start" /\ next \in {"next", "done"} /\ target' = target
         \/ pc[w] \in HasCopied /\ next \in HasCopied /\ target' = target
         \/ /\ pc[w] = "next" /\ next = "readmapping"
            /\ \E i \in PolicyIds : policy[i] # NoPolicy /\ target' = [target EXCEPT ![w] = i]
  PROVE  PolicyOK'
<1> USE DEF PolicyOK, PolicyTypes, PolicyInv, copyVars, tables
<1>0. w \in Workers
  BY DEF Workers
<1>1. PolicyTypes' /\ CallsOfKind'
  BY <1>0, ConstantsAssumption DEF CallsOfKind, PolicyPC, SaverPC, HasCopied, Workers
<1>2. PolicyCarried'
  BY <1>0 DEF PolicyCarried, Copying, HasCopied
<1>3. Uncommitted'
  BY <1>0 DEF Uncommitted, Copying, HasCopied
<1>4. MappingIsExclusive'
  BY <1>0 DEF MappingIsExclusive, HasCopied
<1>5. MapIsTrue' /\ OrphansLostARace'
  BY DEF MapIsTrue, OrphansLostARace
<1> QED
  BY <1>1, <1>2, <1>3, <1>4, <1>5

(***************************************************************************)
(* The statements of a saver.                                              *)
(***************************************************************************)
SavedTypes ==
    /\ saved \in [SavedIds -> Saved \union {NoSaved}]
    /\ event \in [SavedIds -> [Revisions -> {"none", "pending", "processed"}]]
    /\ snapshot \in [SavedIds -> [Revisions -> [label: Labels, relabels: BOOLEAN]]]
    /\ unrecorded \subseteq SavedIds
    /\ users \subseteq Workers /\ assocs \subseteq Workers
    /\ userMap \in [Users -> Workers \union {NoOne}]
    /\ copy \in [SavedIds -> Copy \union {NoCopy}]
    /\ sid \in [Savers -> SavedIds \union {NoSaved}]
    /\ through \in [Savers -> 0..MaxRevision] /\ rev \in [Savers -> 0..MaxRevision]
    /\ did \in [Savers -> BOOLEAN] /\ holds \in [Savers -> BOOLEAN]
    /\ tx \in [Savers -> Tx]

\* The two halves of the type invariant.
LEMMA Types == TypeOK <=> PolicyTypes /\ SavedTypes
  BY DEF TypeOK, PolicyTypes, SavedTypes

\* The types hold in the next state when they hold of both halves there.
LEMMA TypesNext == PolicyTypes' /\ SavedTypes' => TypeOK'
  BY DEF TypeOK, PolicyTypes, SavedTypes

SaverOK == SavedTypes /\ SaverInv

\* Every step of the system keeps PolicyOK.
LEMMA PolicyNext ==
  ASSUME PolicyOK, SaverOK, [Next]_vars
  PROVE  PolicyOK'
<1> USE DEF SaverOK
<1>w. Savers \subseteq Workers /\ Posts \subseteq Workers /\ Natives \subseteq Workers
      /\ \A w \in Posts \union Natives : w \notin Savers
  BY ConstantsAssumption DEF Workers
<1>1. ASSUME NEW w \in Posts \union Natives, StartPolicy(w) \/ PolicyStep(w) \/ FailPolicy(w)
      PROVE  PolicyOK'
  <2>1. CASE FailPolicy(w)
    BY <1>w, <2>1, EndTransactionOK DEF FailPolicy
  <2>2. CASE CommitCopy(w)
    BY <1>w, <2>2, CommitPolicyOK DEF CommitCopy, HasCopied
  <2> QED
    BY <1>w, <1>1, <2>1, <2>2, SetPolicyOK, CopyPolicyOK, NativeOK DEF StartPolicy, PolicyStep
<1>2. ASSUME NEW r \in Releases, Publish(r)
      PROVE  PolicyOK'
  BY <1>2, PublishOK
<1>3. ASSUME NEW w \in Savers, StartSaver(w)
      PROVE  PolicyOK'
  <2>1. UNCHANGED <<tables, request, copyVars>> /\ target' = target
    BY <1>3 DEF StartSaver, Save, Update, Record, RelabelUnrecorded
  <2>2. /\ pc[w] = "start"
        /\ pc' = [pc EXCEPT ![w] = "next"] \/ pc' = [pc EXCEPT ![w] = "done"]
    BY <1>3 DEF StartSaver, Save, Update, Record, RelabelUnrecorded
  <2> QED
    BY <2>1, <2>2, SaverMoveOK
<1>4. ASSUME NEW w \in Savers, NEW how \in {"done", "conflict"}, EndSaver(w, how),
             UNCHANGED <<tables, request>>
      PROVE  PolicyOK'
  BY <1>w, <1>4, EndTransactionOK DEF EndSaver, EndBoth
<1>5. ASSUME NEW w \in Savers, LockNext(w)
      PROVE  PolicyOK'
  <2>1. ASSUME NEW n, CopyEvent(w, n)
        PROVE  PolicyOK'
    <3>1. saved[sid[w]].reform \in PolicyIds
      BY <1>5 DEF LockNext, SavedTypes, Saved, SaverInv, SaverPlace, Place
    <3> QED
      BY <1>4, <1>5, <2>1, <3>1, SaverMoveOK DEF CopyEvent, Goto, LockNext, tables
  <2> QED
    BY <1>4, <1>5, <2>1 DEF LockNext, tables
<1>6. ASSUME NEW w \in Savers, ReadUser(w) \/ InsertUser(w) \/ ReadAssociation(w) \/ InsertAssociation(w)
      PROVE  PolicyOK'
  <2>1. ASSUME NEW t, NEW next \in HasCopied, pc[w] \in HasCopied, SetTx(w, t, next)
        PROVE  PolicyOK'
    BY <2>1, SaverMoveOK DEF SetTx, tables
  <2>2. ASSUME NEW t, pc[w] \in HasCopied, ApplyRevision(w, t)
        PROVE  PolicyOK'
    BY <1>4, <2>1, <2>2 DEF ApplyRevision, HasCopied, tables
  <2> QED
    BY <1>6, <2>1, <2>2 DEF ReadUser, InsertUser, ReadAssociation, InsertAssociation, HasCopied
<1>7. ASSUME NEW w \in Savers, CommitSaved(w)
      PROVE  PolicyOK'
  BY <1>w, <1>7, CommitPolicyOK DEF CommitSaved, EndSaver, EndBoth, HasCopied
<1>8. ASSUME NEW w \in Savers, MarkProcessed(w)
      PROVE  PolicyOK'
  <2>1. CASE EndSaver(w, "done")
    BY <1>4, <1>8, <2>1 DEF MarkProcessed, tables
  <2>2. CASE EndBoth(w, "next") /\ target' = target
    BY <1>w, <1>8, <2>2, EndTransactionOK DEF MarkProcessed, EndBoth, tables
  <2> QED
    BY <1>8, <2>1, <2>2 DEF MarkProcessed
<1>9. ASSUME NEW w \in Savers, FailSaver(w) \/ LoseEventLock(w)
      PROVE  PolicyOK'
  <2>1. CASE FailSaver(w)
    BY <1>4, <2>1 DEF FailSaver, tables
  <2>2. CASE LoseEventLock(w)
    BY <2>2, PolicyFrame DEF LoseEventLock
  <2> QED
    BY <1>9, <2>1, <2>2
<1>10. CASE UNCHANGED vars
  BY <1>10, PolicyFrame DEF vars
<1>11. ASSUME NEW w \in Savers, CopyReform(w)
      PROVE  PolicyOK'
  BY <1>w, <1>11, CopyPolicyOK DEF CopyReform
<1> QED
  BY <1>1, <1>2, <1>3, <1>5, <1>6, <1>7, <1>8, <1>9, <1>10, <1>11 DEF Next, SaverStep

\* A mapping, once committed, stays: the only statement that writes one is the
\* commit of a transaction that found none and inserted it alone.
MapKept == \A i \in PolicyIds : map[i] # NoContent => map'[i] = map[i]

\* A committed mapping is never replaced.
LEMMA MapIsKept ==
  ASSUME PolicyOK, [Next]_vars
  PROVE  MapKept
<1>1. ASSUME NEW w \in Workers, CommitPolicy(w)
      PROVE  MapKept
  BY <1>1 DEF CommitPolicy, MapKept, PolicyOK, PolicyTypes, PolicyInv, MappingIsExclusive
<1>2. CASE UNCHANGED map
  BY <1>2 DEF MapKept
<1>3. ASSUME NEW w \in Posts \union Natives, StartPolicy(w) \/ PolicyStep(w) \/ FailPolicy(w)
      PROVE  CommitPolicy(w) \/ UNCHANGED map
  BY <1>3 DEF StartPolicy, StartPost, StartNative, PolicyStep, FailPolicy, LookUp, InsertLegacy,
     CopyPolicy, ReadPolicyMapping, InsertCopy, InsertMapping, InsertPolicy, CommitCopy, InsertNative,
     CommitNative, tables
<1>4. ASSUME NEW w \in Savers, StartSaver(w) \/ CopyReform(w) \/ FailSaver(w) \/ LoseEventLock(w)
      PROVE  UNCHANGED map
  BY <1>4 DEF StartSaver, Save, Update, Record, RelabelUnrecorded, CopyReform, CopyPolicy,
     ReadPolicyMapping, InsertCopy, InsertMapping, InsertPolicy, FailSaver, LoseEventLock, tables, policyVars
<1>5. ASSUME NEW w \in Savers, SaverStep(w)
      PROVE  CommitPolicy(w) \/ UNCHANGED map
  BY <1>5 DEF SaverStep, LockNext, CopyEvent, ReadUser, InsertUser, ReadAssociation, InsertAssociation,
     ApplyRevision, SetTx, CommitSaved, MarkProcessed, tables
<1>6. ASSUME NEW r \in Releases, Publish(r)
      PROVE  UNCHANGED map
  BY <1>6 DEF Publish
<1>7. CASE UNCHANGED vars
  BY <1>7, <1>2 DEF vars, policyVars, tables
<1> QED
  BY <1>1, <1>2, <1>3, <1>4, <1>5, <1>6, <1>7 DEF Next, Workers

\* Nothing is saved yet.
LEMMA InitSaver == Init => SaverOK
<1> SUFFICES ASSUME Init
             PROVE  SaverOK
  OBVIOUS
<1> USE ConstantsAssumption, SavedAssumption DEF Init, PolicyInit
<1>1. SavedTypes
  BY DEF SavedTypes, Tx, EmptyTx, Revisions
<1>2. EventsFollowRevisions /\ CopyMatchesSource /\ ProcessedIsCopied
  BY DEF EventsFollowRevisions, CopyMatchesSource, ProcessedIsCopied
<1>3. NoLeftovers
  BY DEF NoLeftovers
<1>4. SaverPlace /\ SaverUser /\ SaverAssociation /\ SaversExclude /\ NoConflict
  BY DEF SaverPlace, Place, SaverUser, SaverAssociation, SaversExclude, NoConflict, EmptyTx, Copying, HasCopied, Resolved, Workers
<1> QED
  BY <1>1, <1>2, <1>3, <1>4 DEF SaverOK, SaverInv

\* A step that writes no table of saved policies or of their copies keeps what
\* holds of the tables.
LEMMA TablesFrame ==
  ASSUME SaverOK, UNCHANGED <<sourceVars, copiedVars>>, MapKept
  PROVE  EventsFollowRevisions' /\ CopyMatchesSource' /\ ProcessedIsCopied' /\ NoLeftovers'
<1> USE DEF SaverOK, SaverInv, SavedTypes, sourceVars, copiedVars
<1>1. EventsFollowRevisions'
  BY DEF EventsFollowRevisions
<1>2. CopyMatchesSource'
  BY DEF CopyMatchesSource, MapKept, Saved
<1>3. ProcessedIsCopied' /\ NoLeftovers'
  BY DEF ProcessedIsCopied, NoLeftovers
<1> QED
  BY <1>1, <1>2, <1>3

\* A step of another kind of request leaves every saver where it was.
LEMMA OthersOK ==
  ASSUME SaverOK, MapKept, UNCHANGED <<sourceVars, copiedVars, sid, through, rev, did, tx>>,
         holds' \in [Savers -> BOOLEAN],
         \A w \in Savers : pc'[w] = pc[w] /\ target'[w] = target[w]
  PROVE  SaverOK'
<1>1. SavedTypes'
  <2>1. SavedTypes /\ UNCHANGED <<saved, event, snapshot, unrecorded, users, userMap, assocs, copy>>
    BY DEF SaverOK, sourceVars, copiedVars
  <2> QED
    BY ONLY <2>1, holds' \in [Savers -> BOOLEAN], UNCHANGED <<sid, through, rev, did, tx>> DEF SavedTypes
<1> USE DEF SaverOK, SaverInv, SavedTypes, sourceVars, copiedVars
<1>2. SaverPlace'
  <2>1. SaverPlace /\ UNCHANGED <<saved, event, copy, sid, through, rev>>
    OBVIOUS
  <2> HIDE DEF SaverOK, SaverInv, SavedTypes
  <2> QED
    BY <2>1 DEF SaverPlace, Place, Current
<1>3. SaverUser'
  BY DEF SaverUser, UserOf
<1>4. SaverAssociation' /\ SaversExclude'
  BY DEF SaverAssociation, SaversExclude
<1>5. NoConflict'
  BY DEF NoConflict
<1> QED
  BY TablesFrame, <1>1, <1>2, <1>3, <1>4, <1>5

\* A request that ends leaves nothing of its own.
LEMMA EndSaverOK ==
  ASSUME PolicyOK, SaverOK, MapKept, NEW w \in Savers, EndSaver(w, "done"),
         UNCHANGED <<sourceVars, copiedVars>>
  PROVE  SaverOK'
<1> USE DEF SaverOK, SaverInv, SavedTypes, PolicyOK, PolicyTypes, sourceVars, copiedVars, EndSaver, EndBoth,
            EndTransaction, Workers
<1>1. SavedTypes'
  BY SavedAssumption DEF Tx, EmptyTx
<1>2. SaverPlace'
  BY DEF SaverPlace, Place, Current, Copying, HasCopied
<1>3. SaverUser'
  BY DEF SaverUser, UserOf, EmptyTx, Resolved
<1>4. SaverAssociation' /\ SaversExclude'
  BY DEF SaverAssociation, SaversExclude, EmptyTx
<1>5. NoConflict'
  BY DEF NoConflict
<1> QED
  BY TablesFrame, <1>1, <1>2, <1>3, <1>4, <1>5

\* Copying the reform policy touches nothing else of the saver's transaction.
LEMMA CopyReformOK ==
  ASSUME PolicyOK, SaverOK, MapKept, NEW w \in Savers, CopyReform(w)
  PROVE  SaverOK'
<1> USE DEF SaverOK, SaverInv, SavedTypes, PolicyOK, PolicyTypes, sourceVars, copiedVars, Workers
<1>0. /\ pc[w] \in {"readmapping", "insertpolicy", "insertmapping"}
      /\ pc' = [pc EXCEPT ![w] = pc'[w]]
      /\ pc'[w] \in {"copied", "insertpolicy", "insertmapping", "done"}
      /\ holds' \in [Savers -> BOOLEAN]
      /\ UNCHANGED <<sourceVars, copiedVars, sid, through, rev, did, tx, target>>
  BY DEF CopyReform, CopyPolicy, ReadPolicyMapping, InsertCopy, InsertMapping, InsertPolicy, EndTransaction
<1>1. SavedTypes'
  BY <1>0
<1>2. SaverPlace'
  BY <1>0 DEF SaverPlace, Place, Current, Copying, HasCopied
<1>3. SaverUser'
  BY <1>0 DEF SaverUser, UserOf, Resolved
<1>4. SaverAssociation' /\ SaversExclude'
  BY <1>0 DEF SaverAssociation, SaversExclude
<1>5. NoConflict'
  BY <1>0 DEF NoConflict
<1> QED
  BY <1>0, TablesFrame, <1>1, <1>2, <1>3, <1>4, <1>5

\* What a transaction has of its user changes with the users and their mappings
\* only, not with the revisions of the saved policy.
LEMMA UserFrame ==
  ASSUME SaverUser, UNCHANGED <<tx, userMap>>,
         \A o \in Savers : pc'[o] \in Resolved <=> pc[o] \in Resolved,
         \A o \in Savers : pc[o] \in Resolved => UserOf(o)' = UserOf(o)
  PROVE  SaverUser'
<1>1. \A o \in Savers : tx[o].newUser => UserOf(o)' = UserOf(o)
  BY DEF SaverUser, EmptyTx
<1>2. ASSUME NEW o \in Savers, pc'[o] \in Resolved
      PROVE  /\ tx'[o].newUser => /\ tx'[o].owner = o /\ userMap'[UserOf(o)'] = NoOne
                                  /\ \A q \in Savers : tx'[q].newUser /\ UserOf(q)' = UserOf(o)' => q = o
             /\ ~tx'[o].newUser => tx'[o].owner = userMap'[UserOf(o)'] /\ tx'[o].owner # NoOne
  BY <1>1, <1>2 DEF SaverUser
<1>3. \A o \in Savers : pc'[o] \notin Resolved => tx'[o] = EmptyTx
  BY DEF SaverUser
<1> QED
  BY <1>2, <1>3 DEF SaverUser

\* A saver keeps its place while its saved policy gains revisions, its events are
\* processed and its copy advances.
LEMMA PlaceFrame ==
  ASSUME NEW o \in Savers, Place(o), SavedTypes, SavedTypes',
         pc'[o] = pc[o], sid'[o] = sid[o], through'[o] = through[o], rev'[o] = rev[o],
         target'[o] = target[o],
         pc[o] \in Copying \union {"mark", "next"} =>
             /\ saved'[sid[o]] # NoSaved /\ saved'[sid[o]].rev >= saved[sid[o]].rev
             /\ saved'[sid[o]].reform = saved[sid[o]].reform
             /\ \A m \in 1..through[o] : event[sid[o]][m] = "processed" => event'[sid[o]][m] = "processed",
         pc[o] = "mark" /\ copy[sid[o]] # NoCopy =>
             copy'[sid[o]] # NoCopy /\ copy'[sid[o]].last >= copy[sid[o]].last
  PROVE  Place(o)'
<1>1. pc[o] \in Copying \union {"mark", "next"} =>
          saved[sid[o]].rev \in Nat /\ saved'[sid[o]].rev \in Nat /\ through[o] \in Nat /\ rev[o] \in Nat
  BY DEF Place, SavedTypes, Saved
<1>2. pc[o] \in Copying \union {"mark", "next"} =>
          /\ sid'[o] \in SavedIds /\ saved'[sid'[o]] # NoSaved
          /\ through'[o] \in 1..saved'[sid'[o]].rev
  BY <1>1 DEF Place
<1>3. pc[o] \in Copying \union {"mark"} =>
          /\ rev'[o] \in 1..through'[o]
          /\ \A m \in 1..(rev'[o] - 1) : event'[sid'[o]][m] = "processed"
  BY <1>1 DEF Place
<1>4. pc[o] = "mark" => Current(o)' # NoCopy /\ Current(o)'.last >= rev'[o]
  <2>1. ASSUME pc[o] = "mark"
        PROVE  copy[sid[o]].last \in Int /\ copy'[sid[o]].last \in Int
    BY <2>1 DEF Place, Current, SavedTypes, Copy, Revisions
  <2> QED
    BY <1>1, <2>1 DEF Place, Current
<1> QED
  BY <1>2, <1>3, <1>4 DEF Place, Copying, HasCopied

\* The next revision of a saved policy, or the first of a new one, disturbs no
\* revision that is being copied.
LEMMA RecordOK ==
  ASSUME PolicyOK, SaverOK, MapKept, NEW w \in Savers, pc[w] = "start",
         NEW s \in SavedIds, NEW row \in Saved, NEW relabels \in BOOLEAN, Record(w, s, row, relabels),
         \/ saved[s] = NoSaved /\ row.rev = 0
         \/ /\ saved[s] # NoSaved /\ row.rev = saved[s].rev
            /\ row.reform = saved[s].reform /\ row.user = saved[s].user
            /\ relabels \/ row.label = saved[s].label
  PROVE  SaverOK'
<1> DEFINE n == row.rev + 1
<1> USE SavedAssumption
    DEF SaverOK, SaverInv, SavedTypes, PolicyOK, PolicyTypes, copiedVars, Workers
<1>t. n \in Revisions /\ row.rev \in Nat /\ [row EXCEPT !.rev = n] \in Saved
  <2>1. n \in Revisions
    BY DEF Record
  <2>2. row.rev \in Nat /\ n \in 0..MaxRevision
    BY <2>1 DEF Saved, Revisions
  <2> QED
    BY <2>1, <2>2 DEF Saved
<1>0. /\ n \in Revisions /\ row.rev \in Nat
      /\ saved' = [saved EXCEPT ![s] = [row EXCEPT !.rev = n]]
      /\ event' = [event EXCEPT ![s] = [event[s] EXCEPT ![n] = "pending"]]
      /\ snapshot' = [snapshot EXCEPT ![s] = [snapshot[s] EXCEPT ![n] = [label |-> row.label, relabels |-> relabels]]]
      /\ [row EXCEPT !.rev = n] \in Saved
      /\ UNCHANGED <<unrecorded, users, userMap, assocs, copy, map, tx, rev, target>>
  BY <1>t DEF Record, tables
<1>00. /\ saved'[s] # NoSaved /\ saved'[s].rev = n
       /\ saved[s] # NoSaved => saved'[s].reform = saved[s].reform /\ saved'[s].user = saved[s].user
       /\ saved[s] # NoSaved => saved[s].rev = row.rev
       /\ \A t \in SavedIds : t # s => saved'[t] = saved[t] /\ event'[t] = event[t] /\ snapshot'[t] = snapshot[t]
       /\ \A m \in Revisions : m # n => event'[s][m] = event[s][m] /\ snapshot'[s][m] = snapshot[s][m]
       /\ saved'[s].label = row.label /\ snapshot'[s][n].label = row.label
       /\ snapshot'[s][n].relabels = relabels /\ event'[s][n] = "pending"
  <2>1. /\ saved'[s] = [row EXCEPT !.rev = n] /\ saved'[s] # NoSaved
        /\ saved'[s].rev = n /\ saved'[s].label = row.label
        /\ saved'[s].reform = row.reform /\ saved'[s].user = row.user
    BY <1>0 DEF Saved
  <2>2. /\ event'[s] = [event[s] EXCEPT ![n] = "pending"]
        /\ snapshot'[s] = [snapshot[s] EXCEPT ![n] = [label |-> row.label, relabels |-> relabels]]
        /\ event[s] \in [Revisions -> {"none", "pending", "processed"}]
        /\ snapshot[s] \in [Revisions -> [label: Labels, relabels: BOOLEAN]]
    BY <1>0
  <2>3. \A t \in SavedIds : t # s => saved'[t] = saved[t] /\ event'[t] = event[t] /\ snapshot'[t] = snapshot[t]
    BY <1>0
  <2> HIDE DEF SaverOK, SaverInv, SavedTypes, PolicyOK, PolicyTypes
  <2>4. /\ \A m \in Revisions : m # n => event'[s][m] = event[s][m] /\ snapshot'[s][m] = snapshot[s][m]
        /\ event'[s][n] = "pending" /\ snapshot'[s][n] = [label |-> row.label, relabels |-> relabels]
    BY <1>0, <2>2
  <2> QED
    BY <2>1, <2>3, <2>4
<1>000. /\ UNCHANGED did
        /\ holds' = holds
        /\ sid' = [sid EXCEPT ![w] = s] /\ through' = [through EXCEPT ![w] = n]
        /\ pc' = [pc EXCEPT ![w] = "next"]
  BY DEF Record
<1>1. SavedTypes'
  <2>1. /\ [event[s] EXCEPT ![n] = "pending"] \in [Revisions -> {"none", "pending", "processed"}]
        /\ [snapshot[s] EXCEPT ![n] = [label |-> row.label, relabels |-> relabels]]
              \in [Revisions -> [label: Labels, relabels: BOOLEAN]]
    BY <1>0 DEF Saved
  <2>2. /\ saved' \in [SavedIds -> Saved \union {NoSaved}]
        /\ event' \in [SavedIds -> [Revisions -> {"none", "pending", "processed"}]]
        /\ snapshot' \in [SavedIds -> [Revisions -> [label: Labels, relabels: BOOLEAN]]]
    BY <1>0, <2>1
  <2>3. /\ sid' \in [Savers -> SavedIds \union {NoSaved}]
        /\ through' \in [Savers -> 0..MaxRevision]
    BY <1>0, <1>000 DEF Revisions
  <2> QED
    BY <1>0, <1>000, <2>2, <2>3
<1>2. EventsFollowRevisions'
  <2> SUFFICES ASSUME NEW t \in SavedIds, saved'[t] # NoSaved
               PROVE  /\ saved'[t].rev >= 1
                      /\ \A m \in Revisions : event'[t][m] = "none" <=> m > saved'[t].rev
                      /\ t \notin unrecorded =>
                            /\ snapshot'[t][saved'[t].rev].label = saved'[t].label
                            /\ \A m \in 1..saved'[t].rev :
                                  m > 1 /\ ~snapshot'[t][m].relabels =>
                                      snapshot'[t][m].label = snapshot'[t][m - 1].label
    BY <1>0, <1>00 DEF EventsFollowRevisions
  <2>1. CASE t # s
    BY <1>00, <2>1 DEF EventsFollowRevisions
  <2>2. CASE t = s
    <3>1. \A m \in Revisions : event'[s][m] = "none" <=> m > n
      BY <1>0, <1>00 DEF EventsFollowRevisions, Revisions
    <3>2. ASSUME s \notin unrecorded, NEW m \in 1..n, m > 1, ~snapshot'[s][m].relabels
          PROVE  snapshot'[s][m].label = snapshot'[s][m - 1].label
      <4>1. m \in Revisions /\ m - 1 \in Revisions /\ m - 1 # n /\ saved[s] # NoSaved
        BY <1>0, <1>00, <3>2 DEF Revisions
      <4>2. CASE m = n
        BY <1>0, <1>00, <3>2, <4>1, <4>2 DEF EventsFollowRevisions
      <4>3. CASE m # n
        <5>1. snapshot'[s][m] = snapshot[s][m] /\ snapshot'[s][m - 1] = snapshot[s][m - 1]
          BY <1>00, <4>1, <4>3
        <5>2. m \in 1..saved[s].rev
          <6>1. saved[s].rev = row.rev /\ row.rev \in Nat
            BY <1>0, <1>00, <4>1
          <6> HIDE DEF SaverOK, SaverInv, SavedTypes, PolicyOK, PolicyTypes
          <6> QED
            BY <3>2, <4>3, <6>1
        <5> QED
          BY <3>2, <4>1, <5>1, <5>2 DEF EventsFollowRevisions
      <4> QED
        BY <4>2, <4>3
    <3> QED
      BY <1>0, <1>00, <2>2, <3>1, <3>2
  <2> QED
    BY <2>1, <2>2
<1>3. CopyMatchesSource'
  <2> SUFFICES ASSUME NEW t \in SavedIds, copy[t] # NoCopy
               PROVE  /\ saved'[t] # NoSaved /\ copy[t].last <= saved'[t].rev
                      /\ saved'[t].reform = saved[t].reform /\ saved'[t].user = saved[t].user
                      /\ snapshot'[t][copy[t].last] = snapshot[t][copy[t].last]
    BY <1>0 DEF CopyMatchesSource
  <2>1. saved[t] # NoSaved /\ copy[t].last \in Revisions /\ copy[t].last <= saved[t].rev /\ saved[t].rev \in Nat
    BY DEF CopyMatchesSource, Copy, Saved
  <2>2. CASE t = s
    BY <1>0, <1>00, <2>1, <2>2 DEF Revisions
  <2>3. CASE t # s
    BY <1>00, <2>1, <2>3
  <2> QED
    BY <2>2, <2>3
<1>4. ProcessedIsCopied' /\ NoLeftovers'
  BY <1>0, <1>00 DEF ProcessedIsCopied, NoLeftovers
<1>5. SaverPlace'
  <2>1. ASSUME NEW o \in Savers, o # w, pc[o] \in Copying \union {"mark", "next"}
        PROVE  /\ saved'[sid[o]] # NoSaved /\ saved'[sid[o]].rev >= saved[sid[o]].rev
               /\ saved'[sid[o]].reform = saved[sid[o]].reform
               /\ \A m \in 1..through[o] : event'[sid[o]][m] = event[sid[o]][m]
    BY <1>0, <1>00, <2>1 DEF SaverPlace, Place, Saved, Revisions
  <2>2. ASSUME NEW o \in Savers, o # w
        PROVE  Place(o)'
    <3>1. Place(o) /\ SavedTypes /\ SavedTypes'
      BY <1>1 DEF SaverPlace
    <3>2. /\ pc'[o] = pc[o] /\ sid'[o] = sid[o] /\ through'[o] = through[o] /\ rev'[o] = rev[o]
          /\ target'[o] = target[o] /\ copy' = copy
      BY <1>0, <1>000, <2>2
    <3>3. ASSUME pc[o] \in Copying \union {"mark", "next"}
          PROVE  /\ saved'[sid[o]] # NoSaved /\ saved'[sid[o]].rev >= saved[sid[o]].rev
                 /\ saved'[sid[o]].reform = saved[sid[o]].reform
                 /\ \A m \in 1..through[o] : event[sid[o]][m] = "processed" => event'[sid[o]][m] = "processed"
      BY <1>0, <2>1, <2>2, <3>3
    <3>4. copy[sid[o]] # NoCopy /\ pc[o] = "mark" => copy'[sid[o]].last >= copy[sid[o]].last
      BY <3>1, <3>2 DEF Copy, Revisions, Place
    <3> HIDE DEF SaverOK, SaverInv, SavedTypes, PolicyOK, PolicyTypes
    <3> QED
      BY <3>1, <3>2, <3>3, <3>4, PlaceFrame
  <2>3. Place(w)'
    BY <1>0, <1>00, <1>000 DEF Place, Copying, HasCopied, Revisions
  <2> QED
    BY <2>2, <2>3 DEF SaverPlace
<1>6. SaverUser'
  <2>1. ASSUME NEW o \in Savers, pc[o] \in Resolved
        PROVE  UserOf(o)' = UserOf(o)
    <3>1. o # w /\ sid'[o] = sid[o]
      BY <1>000, <2>1 DEF Resolved
    <3>2. sid[o] \in SavedIds /\ saved[sid[o]] # NoSaved
      BY <2>1 DEF SaverPlace, Place, Resolved, Copying, HasCopied
    <3>3. saved'[sid[o]].user = saved[sid[o]].user
      BY <1>00, <3>2
    <3> QED
      BY <3>1, <3>3 DEF UserOf
  <2>2. \A o \in Savers : pc'[o] \in Resolved <=> pc[o] \in Resolved
    BY <1>000 DEF Resolved
  <2> QED
    BY <1>0, <2>1, <2>2, UserFrame
<1>7. SaverAssociation' /\ SaversExclude'
  <2>1. ASSUME NEW o \in Savers, pc[o] = "commit"
        PROVE  snapshot'[sid[o]][rev[o]] = snapshot[sid[o]][rev[o]]
    BY <1>0, <1>00, <2>1 DEF SaverPlace, Place, Saved, Revisions, Copying, HasCopied
  <2>2. tx[w] = EmptyTx
    BY DEF SaverUser, Resolved
  <2> QED
    BY <1>0, <1>000, <2>1, <2>2 DEF SaverAssociation, SaversExclude, EmptyTx
<1>8. NoConflict'
  BY <1>000 DEF NoConflict
<1> QED
  BY <1>1, <1>2, <1>3, <1>4, <1>5, <1>6, <1>7, <1>8

\* The label of a saved policy may change without an event.
LEMMA RelabelOK ==
  ASSUME PolicyOK, SaverOK, MapKept, NEW w \in Savers, NEW s \in SavedIds, NEW l \in Labels,
         RelabelUnrecorded(w, s, l)
  PROVE  SaverOK'
<1> USE SavedAssumption
    DEF SaverOK, SaverInv, SavedTypes, PolicyOK, PolicyTypes, copiedVars, saverVars, Workers
<1>0. /\ pc[w] = "start" /\ pc' = [pc EXCEPT ![w] = "done"]
      /\ UNCHANGED <<event, snapshot, users, userMap, assocs, copy, sid, through, rev, did, holds, tx, target, map>>
      /\ unrecorded' = unrecorded \union {s}
  BY DEF RelabelUnrecorded, tables
<1>00. /\ saved' \in [SavedIds -> Saved \union {NoSaved}]
       /\ \A t \in SavedIds : /\ saved'[t] = NoSaved <=> saved[t] = NoSaved
                              /\ saved'[t].rev = saved[t].rev /\ saved'[t].reform = saved[t].reform
                              /\ saved'[t].user = saved[t].user
                              /\ t # s => saved'[t] = saved[t]
  <2>1. saved[s] \in Saved /\ saved' = [saved EXCEPT ![s] = [saved[s] EXCEPT !.label = l]]
    BY DEF RelabelUnrecorded
  <2>2. [saved[s] EXCEPT !.label = l] \in Saved
    BY <2>1 DEF Saved
  <2> QED
    BY <2>1, <2>2 DEF Saved
<1>1. SavedTypes'
  BY <1>0, <1>00
<1>2. EventsFollowRevisions'
  BY <1>0, <1>00 DEF EventsFollowRevisions
<1>3. CopyMatchesSource'
  BY <1>0, <1>00 DEF CopyMatchesSource
<1>4. ProcessedIsCopied' /\ NoLeftovers'
  BY <1>0 DEF ProcessedIsCopied, NoLeftovers
<1>5. SaverPlace'
  <2>1. ASSUME NEW o \in Savers, pc[o] \in Copying \union {"mark", "next"}
        PROVE  /\ saved'[sid[o]] # NoSaved /\ saved'[sid[o]].rev = saved[sid[o]].rev
               /\ saved'[sid[o]].reform = saved[sid[o]].reform
               /\ saved[sid[o]].rev \in Nat
    BY <1>00, <2>1 DEF SaverPlace, Place, Saved
  <2>2. ASSUME NEW o \in Savers, o # w
        PROVE  Place(o)'
    <3>1. Place(o) /\ SavedTypes /\ SavedTypes'
      BY <1>1 DEF SaverPlace
    <3>2. /\ pc'[o] = pc[o] /\ sid'[o] = sid[o] /\ through'[o] = through[o] /\ rev'[o] = rev[o]
          /\ target'[o] = target[o] /\ copy' = copy
      BY <1>0, <2>2
    <3>3. ASSUME pc[o] \in Copying \union {"mark", "next"}
          PROVE  /\ saved'[sid[o]] # NoSaved /\ saved'[sid[o]].rev >= saved[sid[o]].rev
                 /\ saved'[sid[o]].reform = saved[sid[o]].reform
                 /\ \A m \in 1..through[o] : event[sid[o]][m] = "processed" => event'[sid[o]][m] = "processed"
      BY <1>0, <2>1, <2>2, <3>3
    <3>4. copy[sid[o]] # NoCopy /\ pc[o] = "mark" => copy'[sid[o]].last >= copy[sid[o]].last
      BY <3>1, <3>2 DEF Copy, Revisions, Place
    <3> HIDE DEF SaverOK, SaverInv, SavedTypes, PolicyOK, PolicyTypes
    <3> QED
      BY <3>1, <3>2, <3>3, <3>4, PlaceFrame
  <2>3. Place(w)'
    BY <1>0 DEF Place, Copying, HasCopied
  <2> QED
    BY <2>2, <2>3 DEF SaverPlace
<1>6. SaverUser'
  <2>1. \A o \in Savers : pc[o] \in Resolved => sid[o] \in SavedIds
    BY DEF SaverPlace, Place, Resolved, Copying, HasCopied
  <2>2. \A o \in Savers : pc[o] \in Resolved => UserOf(o)' = UserOf(o)
    BY <1>0, <1>00, <2>1 DEF UserOf
  <2>3. \A o \in Savers : pc'[o] \in Resolved <=> pc[o] \in Resolved
    BY <1>0 DEF Resolved
  <2> QED
    BY <1>0, <2>2, <2>3, UserFrame
<1>7. SaverAssociation' /\ SaversExclude'
  BY <1>0 DEF SaverAssociation, SaversExclude
<1>8. NoConflict'
  BY <1>0 DEF NoConflict
<1> QED
  BY <1>1, <1>2, <1>3, <1>4, <1>5, <1>6, <1>7, <1>8

\* Writes to saved policies.
LEMMA StartSaverOK ==
  ASSUME PolicyOK, SaverOK, MapKept, NEW w \in Savers, StartSaver(w)
  PROVE  SaverOK'
<1>1. ASSUME NEW row \in Saved, Save(w, row)
      PROVE  SaverOK'
  <2>1. ASSUME NEW s \in SavedIds, saved[s] # NoSaved, Record(w, s, saved[s], FALSE)
        PROVE  SaverOK'
    BY <1>1, <2>1, RecordOK DEF Save, SaverOK, SavedTypes
  <2>2. ASSUME NEW s \in SavedIds, saved[s] = NoSaved, Record(w, s, row, FALSE)
        PROVE  SaverOK'
    BY <1>1, <2>2, RecordOK DEF Save
  <2> QED
    BY <1>1, <2>1, <2>2 DEF Save
<1>2. ASSUME NEW s \in SavedIds, Update(w, s)
      PROVE  SaverOK'
  <2>0. saved[s] \in Saved /\ saved[s] # NoSaved /\ pc[w] = "start"
    BY <1>2 DEF Update, SaverOK, SavedTypes
  <2>1. ASSUME NEW l \in Labels, Record(w, s, [saved[s] EXCEPT !.label = l], TRUE)
        PROVE  SaverOK'
    <3>1. /\ [saved[s] EXCEPT !.label = l] \in Saved
          /\ [saved[s] EXCEPT !.label = l].rev = saved[s].rev
          /\ [saved[s] EXCEPT !.label = l].reform = saved[s].reform
          /\ [saved[s] EXCEPT !.label = l].user = saved[s].user
      BY <2>0 DEF Saved
    <3> QED
      BY <2>0, <2>1, <3>1, RecordOK
  <2>2. CASE Record(w, s, saved[s], FALSE)
    BY <2>0, <2>2, RecordOK
  <2> QED
    BY <1>2, <2>1, <2>2 DEF Update
<1> QED
  BY <1>1, <1>2, RelabelOK DEF StartSaver

\* When no saved policy, event or copy changes, the other savers keep their place.
LEMMA OthersPlace ==
  ASSUME SaverPlace, UNCHANGED <<sourceVars, copiedVars>>, NEW w \in Savers,
         \A o \in Savers \ {w} : /\ pc'[o] = pc[o] /\ sid'[o] = sid[o] /\ through'[o] = through[o]
                                 /\ rev'[o] = rev[o] /\ target'[o] = target[o],
         Place(w)'
  PROVE  SaverPlace'
<1>1. ASSUME NEW o \in Savers, o # w
      PROVE  Place(o)'
  BY <1>1 DEF SaverPlace, Place, Current, sourceVars, copiedVars
<1> QED
  BY <1>1 DEF SaverPlace

\* The event a saver takes up has only processed ones before it: it is the oldest
\* pending one, or none is pending.
LEMMA CopyEventOK ==
  ASSUME PolicyOK, SaverOK, MapKept, NEW w \in Savers, pc[w] = "next",
         NEW n \in 1..through[w], \A m \in 1..(n - 1) : event[sid[w]][m] # "pending", CopyEvent(w, n)
  PROVE  SaverOK'
<1>1. CASE EndSaver(w, "done")
  BY <1>1, EndSaverOK DEF CopyEvent
<1>2. CASE ~EndSaver(w, "done")
  <2> USE DEF SaverOK, SaverInv, SavedTypes, PolicyOK, PolicyTypes, Workers
  <2>0. /\ pc' = [pc EXCEPT ![w] = "readmapping"] /\ rev' = [rev EXCEPT ![w] = n]
        /\ holds' = [holds EXCEPT ![w] = TRUE] /\ target' = [target EXCEPT ![w] = saved[sid[w]].reform]
        /\ UNCHANGED <<sourceVars, copiedVars, sid, through, did, tx>>
    BY <1>2 DEF CopyEvent, Goto
  <2>00. /\ sid[w] \in SavedIds /\ saved[sid[w]] # NoSaved /\ through[w] \in 1..saved[sid[w]].rev
         /\ saved[sid[w]].rev \in 0..MaxRevision /\ saved[sid[w]].reform \in PolicyIds
    BY DEF SaverPlace, Place, Saved
  <2>000. n \in Nat /\ n <= MaxRevision /\ through[w] \in Nat /\ MaxRevision \in Nat /\ n >= 1
    BY <2>00, SavedAssumption
  <2>1. SavedTypes'
    <3>1. n \in 0..MaxRevision
      BY <2>000
    <3> QED
      BY <2>0, <3>1 DEF sourceVars, copiedVars
  <2>2. SaverPlace'
    <3>1. ASSUME NEW m \in 1..(n - 1)
          PROVE  event[sid[w]][m] = "processed"
      <4>1. m \in Revisions /\ m <= saved[sid[w]].rev
        BY <2>00, <2>000 DEF Revisions
      <4>2. event[sid[w]][m] # "none"
        BY <2>00, <4>1 DEF EventsFollowRevisions
      <4> QED
        BY <2>00, <4>1, <4>2
    <3>2. Place(w)'
      BY <2>0, <2>00, <2>000, <3>1 DEF Place, Copying, HasCopied, sourceVars, copiedVars
    <3> QED
      BY <2>0, <3>2, OthersPlace
  <2>3. SaverUser'
    BY <2>0 DEF SaverUser, UserOf, Resolved, sourceVars, copiedVars
  <2>4. SaverAssociation' /\ SaversExclude'
    BY <2>0 DEF SaverAssociation, SaversExclude, sourceVars, copiedVars
  <2>5. NoConflict'
    BY <2>0 DEF NoConflict
  <2> QED
    BY <2>0, TablesFrame, <2>1, <2>2, <2>3, <2>4, <2>5
<1> QED
  BY <1>1, <1>2

\* The loop of process_pending_mirror_events.
LEMMA LockNextOK ==
  ASSUME PolicyOK, SaverOK, MapKept, NEW w \in Savers, LockNext(w)
  PROVE  SaverOK'
<1>0. /\ pc[w] = "next" /\ through[w] \in Nat /\ through[w] >= 1
  BY DEF LockNext, SaverOK, SaverInv, SavedTypes, SaverPlace, Place, Saved
<1>1. ASSUME NEW n \in Pending(w), \A m \in Pending(w) : n <= m, CopyEvent(w, n)
      PROVE  SaverOK'
  <2>1. n \in 1..through[w]
    BY DEF Pending
  <2>2. \A m \in 1..(n - 1) : event[sid[w]][m] # "pending"
    BY <1>0, <1>1, <2>1 DEF Pending
  <2> QED
    BY <1>0, <1>1, <2>1, <2>2, CopyEventOK
<1>2. CASE Pending(w) = {} /\ CopyEvent(w, through[w])
  <2>1. through[w] \in 1..through[w]
    BY <1>0
  <2>2. \A m \in 1..(through[w] - 1) : event[sid[w]][m] # "pending"
    BY <1>0, <1>2 DEF Pending
  <2> QED
    BY <1>0, <1>2, <2>1, <2>2, CopyEventOK
<1>3. CASE EndSaver(w, "done") /\ UNCHANGED <<sourceVars, copiedVars>>
  BY <1>3, EndSaverOK
<1> QED
  BY <1>1, <1>2, <1>3 DEF LockNext, ToCopy

\* A saver's v2 transaction moves on with t as what it has done so far.
LEMMA SetTxOK ==
  ASSUME PolicyOK, SaverOK, MapKept, NEW w \in Savers, pc[w] \in HasCopied,
         NEW t \in Tx, NEW next \in HasCopied \ {"copied"}, SetTx(w, t, next),
         next \notin Resolved => t = EmptyTx,
         next = "insertassoc" => rev[w] = 1,
         next \in Resolved /\ t.newUser =>
             /\ t.owner = w /\ userMap[UserOf(w)] = NoOne
             /\ \A o \in Savers : tx[o].newUser /\ UserOf(o) = UserOf(w) => o = w,
         next \in Resolved /\ ~t.newUser => t.owner = userMap[UserOf(w)] /\ t.owner # NoOne,
         next \in {"readassoc", "insertassoc"} => t.write = NoCopy /\ ~t.newAssoc /\ ~t.seesCopy,
         next = "commit" => Fits(t, copy[sid[w]], rev[w], snapshot[sid[w]][rev[w]]),
         \A o \in Savers \ {w} : sid[o] = sid[w] =>
             ~(t.newAssoc /\ tx[o].newAssoc) /\ ~(t.seesCopy /\ tx[o].seesCopy)
  PROVE  SaverOK'
<1> USE DEF SaverOK, SaverInv, SavedTypes, PolicyOK, PolicyTypes, Workers
<1>0. /\ pc' = [pc EXCEPT ![w] = next] /\ tx' = [tx EXCEPT ![w] = t]
      /\ UNCHANGED <<sourceVars, copiedVars, sid, through, rev, did, holds, target>>
  BY DEF SetTx
<1>1. SavedTypes'
  BY <1>0 DEF sourceVars, copiedVars
<1>2. SaverPlace'
  <2>1. Place(w)'
    BY <1>0 DEF SaverPlace, Place, Copying, HasCopied, sourceVars, copiedVars
  <2> QED
    BY <1>0, <2>1, OthersPlace
<1>3. SaverUser'
  <2>1. \A o \in Savers : UserOf(o)' = UserOf(o)
    BY <1>0 DEF UserOf, sourceVars
  <2>2. userMap' = userMap
    BY <1>0 DEF copiedVars
  <2>3. ASSUME NEW o \in Savers, o # w, pc[o] \in Resolved
        PROVE  /\ tx[o].newUser => /\ tx[o].owner = o /\ userMap[UserOf(o)] = NoOne
                                   /\ \A q \in Savers : tx'[q].newUser /\ UserOf(q) = UserOf(o) => q = o
               /\ ~tx[o].newUser => tx[o].owner = userMap[UserOf(o)] /\ tx[o].owner # NoOne
    <3>1. next \notin Resolved => ~t.newUser
      BY DEF EmptyTx
    <3> QED
      BY <1>0, <2>3, <3>1 DEF SaverUser
  <2>4. next \in Resolved /\ t.newUser => \A q \in Savers : tx'[q].newUser /\ UserOf(q) = UserOf(w) => q = w
    BY <1>0
  <2> QED
    BY <1>0, <2>1, <2>2, <2>3, <2>4 DEF SaverUser
<1>4. SaverAssociation'
  BY <1>0 DEF SaverAssociation, sourceVars, copiedVars, HasCopied
<1>5. SaversExclude'
  BY <1>0 DEF SaversExclude
<1>6. NoConflict'
  BY <1>0 DEF NoConflict, HasCopied
<1> QED
  BY <1>0, TablesFrame, <1>1, <1>2, <1>3, <1>4, <1>5, <1>6

\* resolve_legacy_user_id finds the user that is mapped or inserts one alone.
LEMMA ResolveUserOK ==
  ASSUME PolicyOK, SaverOK, MapKept, NEW w \in Savers, ReadUser(w) \/ InsertUser(w)
  PROVE  SaverOK'
<1> DEFINE u == UserOf(w)
<1>0. /\ pc[w] \in HasCopied /\ pc[w] \notin Resolved /\ tx[w] = EmptyTx
      /\ EmptyTx \in Tx /\ w \in Workers
      /\ u \in Users /\ userMap[u] \in Workers \union {NoOne}
  BY SavedAssumption
  DEF ReadUser, InsertUser, SaverOK, SaverInv, SaverUser, SaverPlace, Place, SavedTypes, UserOf, Saved,
      HasCopied, Copying, Resolved, Workers, Tx, EmptyTx
<1>00. EmptyTx.write = NoCopy /\ ~EmptyTx.newAssoc /\ ~EmptyTx.seesCopy /\ ~EmptyTx.newUser
  BY DEF EmptyTx
<1>1. ASSUME userMap[u] # NoOne, SetTx(w, [tx[w] EXCEPT !.owner = userMap[u], !.seesUser = TRUE], "readassoc")
      PROVE  SaverOK'
  <2> DEFINE t == [tx[w] EXCEPT !.owner = userMap[u], !.seesUser = TRUE]
  <2>1. /\ t \in Tx /\ t.owner = userMap[u] /\ ~t.newUser
        /\ t.write = NoCopy /\ ~t.newAssoc /\ ~t.seesCopy
    <3>1. t \in Tx
      BY <1>0 DEF Tx
    <3>2. t.owner = userMap[u] /\ t.newUser = tx[w].newUser /\ t.write = tx[w].write
          /\ t.newAssoc = tx[w].newAssoc /\ t.seesCopy = tx[w].seesCopy
      BY <1>0 DEF Tx
    <3> QED
      BY <1>0, <1>00, <3>1, <3>2
  <2> HIDE DEF t
  <2>2. "readassoc" \in HasCopied \ {"copied"} /\ "readassoc" \in Resolved
    BY DEF HasCopied, Resolved
  <2>3. SetTx(w, t, "readassoc")
    BY <1>1 DEF t
  <2> QED
    BY <1>0, <1>1, <2>1, <2>2, <2>3, SetTxOK
<1>2. CASE SetTx(w, tx[w], "insertuser")
  <2>1. "insertuser" \in HasCopied \ {"copied"} /\ "insertuser" \notin Resolved
    BY DEF HasCopied, Resolved
  <2> QED
    BY <1>0, <1>00, <1>2, <2>1, SetTxOK
<1>3. ASSUME InsertUser(w)
      PROVE  SaverOK'
  <2> DEFINE t == [tx[w] EXCEPT !.newUser = (userMap[u] = NoOne),
                                !.owner = IF userMap[u] = NoOne THEN w ELSE userMap[u]]
  <2>1. /\ t \in Tx /\ t.owner = (IF userMap[u] = NoOne THEN w ELSE userMap[u])
        /\ t.newUser = (userMap[u] = NoOne)
        /\ t.write = NoCopy /\ ~t.newAssoc /\ ~t.seesCopy
    <3>1. t \in Tx
      BY <1>0 DEF Tx
    <3>2. t.owner = (IF userMap[u] = NoOne THEN w ELSE userMap[u]) /\ t.newUser = (userMap[u] = NoOne)
          /\ t.write = tx[w].write /\ t.newAssoc = tx[w].newAssoc /\ t.seesCopy = tx[w].seesCopy
      BY <1>0 DEF Tx
    <3> QED
      BY <1>0, <1>00, <3>1, <3>2
  <2>2. SetTx(w, t, "readassoc") /\ \A o \in Savers \ {w} : tx[o].newUser => UserOf(o) # u
    BY <1>3 DEF InsertUser, WaitsForNobody, SaverWaits
  <2> HIDE DEF t
  <2>3. "readassoc" \in HasCopied \ {"copied"} /\ "readassoc" \in Resolved
    BY DEF HasCopied, Resolved
  <2> QED
    BY <1>0, <2>1, <2>2, <2>3, SetTxOK
<1> QED
  BY <1>1, <1>2, <1>3 DEF ReadUser

\* validate_existing_legacy_user_policy_mapping finds the policy and the user it
\* carries in the copy, and its revision not past the next one.
LEMMA VerdictIsTrue ==
  ASSUME PolicyOK, SaverOK, NEW w \in Savers, pc[w] \in {"readassoc", "insertassoc"},
         Current(w) # NoCopy, NEW t, t.owner = tx[w].owner
  PROVE  /\ Verdict(w, t) # "conflict"
         /\ Verdict(w, t) \in {"stale", "replay"} => Current(w).last >= rev[w]
         /\ Verdict(w, t) = "update" => rev[w] = Current(w).last + 1
<1> DEFINE c == Current(w)
           s == sid[w]
<1> USE DEF SaverOK, SaverInv, Current
<1>1. /\ s \in SavedIds /\ saved[s] # NoSaved /\ target[w] = saved[s].reform /\ w \in Workers
      /\ rev[w] \in 1..through[w] /\ through[w] \in 1..saved[s].rev /\ saved[s].rev \in 0..MaxRevision
      /\ \A m \in 1..(rev[w] - 1) : event[s][m] = "processed"
  BY DEF SaverPlace, Place, Copying, HasCopied, SavedTypes, Saved, Workers
<1>2. c \in Copy /\ c.last \in Revisions
  BY <1>1 DEF SavedTypes, Copy
<1>3. c.policy = content[w]
  <2>1. map[target[w]] # NoContent /\ c.policy = map[target[w]]
    BY <1>1 DEF CopyMatchesSource
  <2> QED
    BY <1>1, <2>1 DEF PolicyOK, PolicyInv, MappingIsExclusive, HasCopied
<1>4. c.user = t.owner
  <2>1. userMap[UserOf(w)] # NoOne /\ c.user = userMap[UserOf(w)]
    BY <1>1 DEF CopyMatchesSource, UserOf
  <2> QED
    BY <2>1 DEF SaverUser, Resolved
<1>5. rev[w] <= c.last + 1
  <2>1. CASE rev[w] = 1
    BY <1>2, <2>1 DEF Revisions
  <2>2. CASE rev[w] > 1
    <3>1. rev[w] - 1 \in 1..(rev[w] - 1) /\ rev[w] - 1 \in Revisions
      BY <1>1, <2>2, SavedAssumption DEF Revisions
    <3>2. c.last >= rev[w] - 1
      BY <1>1, <3>1 DEF ProcessedIsCopied
    <3> QED
      BY <1>1, <1>2, <3>2 DEF Revisions
  <2> QED
    BY <1>1, <2>1, <2>2
<1>6. rev[w] = c.last => c.print = Label(w)
  BY <1>1 DEF CopyMatchesSource, Label
<1>7. rev[w] \in Int /\ c.last \in Int
  BY <1>1, <1>2 DEF Revisions
<1> QED
  BY <1>3, <1>4, <1>5, <1>6, <1>7 DEF Verdict

\* Applying a revision to an existing copy, by a transaction t that has locked it
\* or whose revision the copy has already passed.
LEMMA ApplyRevisionOK ==
  ASSUME PolicyOK, SaverOK, MapKept, NEW w \in Savers, pc[w] \in {"readassoc", "insertassoc"},
         Current(w) # NoCopy, NEW t \in Tx, ApplyRevision(w, t),
         t.owner = tx[w].owner, t.newUser = tx[w].newUser, t.newAssoc = tx[w].newAssoc,
         t.write = tx[w].write, t.seesCopy \/ rev[w] = 1,
         \A o \in Savers \ {w} : sid[o] = sid[w] => ~(t.seesCopy /\ tx[o].seesCopy)
  PROVE  SaverOK'
<1> DEFINE c == Current(w)
           e == snapshot[sid[w]][rev[w]]
<1>0. /\ pc[w] \in HasCopied /\ pc[w] \in Resolved /\ "commit" \in HasCopied \ {"copied"} /\ "commit" \in Resolved
      /\ ~t.newAssoc /\ t.write = NoCopy
  BY DEF HasCopied, Resolved, SaverOK, SaverInv, SaverAssociation
<1>00. /\ t.newUser => /\ t.owner = w /\ userMap[UserOf(w)] = NoOne
                       /\ \A o \in Savers : tx[o].newUser /\ UserOf(o) = UserOf(w) => o = w
       /\ ~t.newUser => t.owner = userMap[UserOf(w)] /\ t.owner # NoOne
  BY <1>0 DEF SaverOK, SaverInv, SaverUser
<1>1. CASE Verdict(w, t) \in {"stale", "replay"} /\ SetTx(w, t, "commit")
  <2>1. Fits(t, copy[sid[w]], rev[w], snapshot[sid[w]][rev[w]])
    BY <1>0, <1>1, VerdictIsTrue DEF Fits, Current
  <2> QED
    BY <1>0, <1>00, <1>1, <2>1, SetTxOK
<1>2. CASE /\ Verdict(w, t) = "update"
           /\ SetTx(w, [t EXCEPT !.write = [c EXCEPT !.last = rev[w], !.print = Label(w),
                             !.name = IF Renames(w) THEN Label(w) ELSE c.name]], "commit")
  <2> DEFINE x == [c EXCEPT !.last = rev[w], !.print = Label(w),
                             !.name = IF Renames(w) THEN Label(w) ELSE c.name]
             v == [t EXCEPT !.write = x]
  <2>1. /\ sid[w] \in SavedIds /\ c \in Copy /\ rev[w] \in Revisions /\ Label(w) \in Labels
    BY SavedAssumption
    DEF SaverOK, SaverInv, SavedTypes, SaverPlace, Place, Current, Label, Copying, HasCopied, Revisions
  <2>2. rev[w] = c.last + 1
    BY <1>2, VerdictIsTrue
  <2>3. t.seesCopy
    BY <2>1, <2>2 DEF Copy, Revisions
  <2>4. x = Moved(c, rev[w], e) /\ x \in Copy
    BY <2>1 DEF Moved, Renames, Label, Copy, Current
  <2>5. v \in Tx /\ v.write = x
    BY <2>4 DEF Tx
  <2>6. /\ v.owner = t.owner /\ v.newUser = t.newUser /\ v.newAssoc = t.newAssoc /\ v.seesCopy = t.seesCopy
    BY DEF Tx
  <2>7. SetTx(w, v, "commit")
    BY <1>2
  <2> HIDE DEF v, x
  <2>8. Fits(v, copy[sid[w]], rev[w], snapshot[sid[w]][rev[w]])
    BY <1>0, <2>2, <2>3, <2>4, <2>5, <2>6 DEF Fits, Current
  <2> QED
    BY <1>0, <1>00, <2>5, <2>6, <2>7, <2>8, SetTxOK
<1>3. Verdict(w, t) # "conflict"
  BY VerdictIsTrue
<1> QED
  BY <1>1, <1>2, <1>3 DEF ApplyRevision

\* persist_legacy_user_policy_mapping.
LEMMA AssociateOK ==
  ASSUME PolicyOK, SaverOK, MapKept, NEW w \in Savers, ReadAssociation(w) \/ InsertAssociation(w)
  PROVE  SaverOK'
<1>0. /\ pc[w] \in {"readassoc", "insertassoc"} /\ pc[w] \in HasCopied /\ pc[w] \in Resolved /\ tx[w] \in Tx
      /\ tx[w].write = NoCopy /\ ~tx[w].newAssoc /\ ~tx[w].seesCopy
      /\ sid[w] \in SavedIds /\ copy[sid[w]] \in Copy \union {NoCopy} /\ rev[w] \in Nat /\ rev[w] >= 1
  BY DEF ReadAssociation, InsertAssociation, SaverOK, SaverInv, SavedTypes, SaverAssociation, SaverPlace, Place,
     Copying, HasCopied, Resolved
<1>00. /\ tx[w].newUser => /\ tx[w].owner = w /\ userMap[UserOf(w)] = NoOne
                           /\ \A o \in Savers : tx[o].newUser /\ UserOf(o) = UserOf(w) => o = w
       /\ ~tx[w].newUser => tx[w].owner = userMap[UserOf(w)] /\ tx[w].owner # NoOne
  BY <1>0 DEF SaverOK, SaverInv, SaverUser
<1>1. ASSUME ReadAssociation(w), Current(w) # NoCopy
      PROVE  SaverOK'
  <2> DEFINE t == [tx[w] EXCEPT !.seesCopy = TRUE]
  <2>1. /\ t \in Tx /\ t.owner = tx[w].owner /\ t.newUser = tx[w].newUser /\ t.newAssoc = tx[w].newAssoc
        /\ t.write = tx[w].write /\ t.seesCopy = TRUE
    BY <1>0 DEF Tx
  <2>2. ApplyRevision(w, t) /\ \A o \in Savers \ {w} : tx[o].seesCopy => sid[o] # sid[w]
    BY <1>1 DEF ReadAssociation, WaitsForNobody, SaverWaits
  <2> HIDE DEF t
  <2> QED
    BY <1>0, <1>1, <2>1, <2>2, ApplyRevisionOK
<1>2. ASSUME ReadAssociation(w), Current(w) = NoCopy
      PROVE  SaverOK'
  <2>1. rev[w] = 1
    <3>1. \A n \in Revisions : event[sid[w]][n] # "processed"
      BY <1>0, <1>2 DEF SaverOK, SaverInv, ProcessedIsCopied, Current
    <3>2. \A m \in 1..(rev[w] - 1) : event[sid[w]][m] = "processed" /\ m \in Revisions
      <4>1. \A m \in 1..(rev[w] - 1) : event[sid[w]][m] = "processed"
        BY <1>0 DEF SaverOK, SaverInv, SaverPlace, Place, Copying
      <4>2. rev[w] \in 0..MaxRevision
        BY DEF SaverOK, SavedTypes
      <4> QED
        BY <1>0, <4>1, <4>2, SavedAssumption DEF Revisions
    <3>3. CASE rev[w] > 1
      <4>1. rev[w] - 1 \in 1..(rev[w] - 1)
        BY <1>0, <3>3
      <4> QED
        BY <3>1, <3>2, <4>1
    <3> QED
      BY <1>0, <3>3
  <2>2. SetTx(w, tx[w], "insertassoc")
    BY <1>2 DEF ReadAssociation
  <2>3. "insertassoc" \in HasCopied \ {"copied"} /\ "insertassoc" \in Resolved
    BY DEF HasCopied, Resolved
  <2> QED
    BY <1>0, <1>00, <2>1, <2>2, <2>3, SetTxOK
<1>3. ASSUME InsertAssociation(w)
      PROVE  SaverOK'
  <2>0. rev[w] = 1
    BY <1>3 DEF InsertAssociation, SaverOK, SaverInv, SaverPlace, Place
  <2>1. CASE Current(w) # NoCopy
    BY <1>0, <1>3, <2>0, <2>1, ApplyRevisionOK DEF InsertAssociation
  <2>2. CASE Current(w) = NoCopy
    <3> DEFINE t == [tx[w] EXCEPT !.newAssoc = TRUE]
    <3>1. /\ t \in Tx /\ t.owner = tx[w].owner /\ t.newUser = tx[w].newUser /\ t.newAssoc = TRUE
          /\ t.write = tx[w].write /\ t.seesCopy = tx[w].seesCopy
      BY <1>0 DEF Tx
    <3>2. SetTx(w, t, "commit") /\ \A o \in Savers \ {w} : tx[o].newAssoc => sid[o] # sid[w]
      BY <1>3, <2>2 DEF InsertAssociation, WaitsForNobody, SaverWaits
    <3> HIDE DEF t
    <3>3. Fits(t, copy[sid[w]], rev[w], snapshot[sid[w]][rev[w]])
      BY <1>0, <2>0, <2>2, <3>1 DEF Fits, Current
    <3>4. "commit" \in HasCopied \ {"copied"} /\ "commit" \in Resolved
      BY DEF HasCopied, Resolved
    <3> QED
      BY <1>0, <1>00, <3>1, <3>2, <3>3, <3>4, SetTxOK
  <2> QED
    BY <2>1, <2>2
<1> QED
  BY <1>1, <1>2, <1>3

\* A transaction that writes nothing fits a copy that stands at its revision or
\* past it.
LEMMA FitsWhenPast ==
  ASSUME NEW t, NEW c, NEW n, NEW e, ~t.newAssoc, t.write = NoCopy, c # NoCopy, c.last >= n
  PROVE  Fits(t, c, n, e)
  BY DEF Fits

\* The variables of a saver that ends a call keep their kinds.
LEMMA LocalsTyped ==
  ASSUME SavedTypes, NEW w \in Savers,
         sid' = sid \/ sid' = [sid EXCEPT ![w] = NoSaved],
         through' = through \/ through' = [through EXCEPT ![w] = 0],
         rev' = rev \/ rev' = [rev EXCEPT ![w] = 0],
         did' = did \/ \E b \in BOOLEAN : did' = [did EXCEPT ![w] = b],
         holds' = holds \/ holds' = [holds EXCEPT ![w] = FALSE]
  PROVE  /\ sid' \in [Savers -> SavedIds \union {NoSaved}] /\ through' \in [Savers -> 0..MaxRevision]
         /\ rev' \in [Savers -> 0..MaxRevision] /\ did' \in [Savers -> BOOLEAN] /\ holds' \in [Savers -> BOOLEAN]
<1>0. 0 \in 0..MaxRevision
  BY SavedAssumption
<1>1. through' \in [Savers -> 0..MaxRevision] /\ rev' \in [Savers -> 0..MaxRevision]
  <2>1. through \in [Savers -> 0..MaxRevision] /\ rev \in [Savers -> 0..MaxRevision]
    BY DEF SavedTypes
  <2>2. through' \in [Savers -> 0..MaxRevision]
    BY <1>0, <2>1
  <2>3. rev' \in [Savers -> 0..MaxRevision]
    BY <1>0, <2>1
  <2> QED
    BY <2>2, <2>3
<1>2. sid' \in [Savers -> SavedIds \union {NoSaved}]
  BY DEF SavedTypes
<1>3. did' \in [Savers -> BOOLEAN]
  BY DEF SavedTypes
<1>4. holds' \in [Savers -> BOOLEAN]
  BY DEF SavedTypes
<1> QED
  BY <1>1, <1>2, <1>3, <1>4

\* The commit writes the copy that its revision is right for. A user and an
\* association are inserted by one transaction only, so nobody else's are lost.
LEMMA CommitSavedOK ==
  ASSUME PolicyOK, PolicyOK', SaverOK, MapKept, NEW w \in Savers, CommitSaved(w)
  PROVE  SaverOK'
<1> DEFINE s == sid[w]
           u == UserOf(w)
           e == snapshot[s][rev[w]]
<1>0. /\ pc[w] = "commit" /\ s \in SavedIds /\ saved[s] # NoSaved /\ saved[s] \in Saved /\ u \in Users
      /\ rev[w] \in Revisions /\ rev[w] <= saved[s].rev /\ w \in Workers /\ target[w] = saved[s].reform
      /\ e \in [label: Labels, relabels: BOOLEAN] /\ tx[w] \in Tx /\ saved[s].user = u
      /\ saved[s].reform \in PolicyIds
  <2>1. pc[w] = "commit" /\ pc[w] \in Copying
    BY DEF CommitSaved, Copying, HasCopied
  <2>2. /\ s \in SavedIds /\ saved[s] # NoSaved /\ target[w] = saved[s].reform
        /\ rev[w] \in 1..through[w] /\ through[w] \in 1..saved[s].rev
    BY <2>1 DEF SaverOK, SaverInv, SaverPlace, Place
  <2>3. saved[s] \in Saved /\ rev[w] \in 0..MaxRevision /\ tx[w] \in Tx
    BY <2>2 DEF SaverOK, SavedTypes
  <2>4. rev[w] \in Revisions /\ rev[w] <= saved[s].rev
    BY <2>2, <2>3, SavedAssumption DEF Revisions, Saved
  <2> QED
    BY <2>1, <2>2, <2>3, <2>4 DEF SaverOK, SavedTypes, Saved, UserOf, Workers
<1>f. Fits(tx[w], copy[s], rev[w], e)
  BY <1>0 DEF SaverOK, SaverInv, SaverAssociation
<1>m. map'[saved[s].reform] = content[w] /\ content[w] \in Contents
  BY <1>0 DEF CommitSaved, CommitPolicy, PolicyOK, PolicyTypes, PolicyInv, PolicyCarried, MappingIsExclusive,
     Copying, HasCopied
<1>u. /\ userMap' = [userMap EXCEPT ![u] = tx[w].owner]
      /\ users' = users \union {tx[w].owner} /\ tx[w].owner \in Workers /\ tx[w].owner # NoOne
      /\ userMap[u] \in {NoOne, tx[w].owner}
      /\ \A v \in Users : userMap[v] # NoOne => userMap'[v] = userMap[v]
  <2>1. /\ tx[w].newUser => tx[w].owner = w /\ userMap[u] = NoOne
        /\ ~tx[w].newUser => tx[w].owner = userMap[u] /\ tx[w].owner # NoOne
    BY <1>0 DEF SaverOK, SaverInv, SaverUser, Resolved
  <2>2. userMap \in [Users -> Workers \union {NoOne}] /\ users = {userMap[v] : v \in Users} \ {NoOne}
    BY DEF SaverOK, SaverInv, SavedTypes, NoLeftovers
  <2>3. CASE tx[w].newUser
    BY <1>0, <2>1, <2>2, <2>3, SavedAssumption DEF CommitSaved
  <2>4. CASE ~tx[w].newUser
    <3>1. userMap' = userMap /\ users' = users
      BY <2>4 DEF CommitSaved
    <3>2. [userMap EXCEPT ![u] = userMap[u]] = userMap
      BY <2>2
    <3> QED
      BY <1>0, <2>1, <2>2, <2>4, <3>1, <3>2
  <2> QED
    BY <2>3, <2>4
<1>c. /\ copy' = [copy EXCEPT ![s] = copy'[s]]
      /\ copy'[s] \in Copy /\ copy'[s] # NoCopy /\ copy'[s].last >= rev[w]
      /\ copy[s] # NoCopy => copy'[s].last >= copy[s].last /\ copy'[s].assoc = copy[s].assoc
                             /\ copy'[s].policy = copy[s].policy /\ copy'[s].user = copy[s].user
      /\ \/ copy'[s] = copy[s] /\ copy[s] # NoCopy /\ ~tx[w].newAssoc
         \/ copy'[s] = NewCopy(w) /\ copy[s] = NoCopy /\ tx[w].newAssoc
         \/ copy'[s] = Moved(copy[s], rev[w], e) /\ copy[s] # NoCopy /\ ~tx[w].newAssoc
            /\ rev[w] = copy[s].last + 1 /\ tx[w].seesCopy
  <2>1. copy \in [SavedIds -> Copy \union {NoCopy}] /\ (copy[s] # NoCopy => copy[s] \in Copy)
    BY <1>0 DEF SaverOK, SavedTypes
  <2>2. CASE tx[w].newAssoc /\ tx[w].write = NoCopy /\ copy[s] = NoCopy
    <3>1. copy' = [copy EXCEPT ![s] = NewCopy(w)]
      BY <2>2 DEF CommitSaved
    <3>2. NewCopy(w) \in Copy /\ NewCopy(w).last = rev[w]
      BY <1>0, <1>m, <1>u DEF NewCopy, Copy, Label
    <3> QED
      <4>1. copy'[s] = NewCopy(w) /\ copy' = [copy EXCEPT ![s] = copy'[s]]
        BY <1>0, <2>1, <3>1
      <4>2. rev[w] >= rev[w]
        BY <1>0 DEF Revisions
      <4> QED
        BY <2>2, <3>2, <4>1, <4>2, SavedAssumption
  <2>3. CASE ~tx[w].newAssoc /\ tx[w].write = NoCopy /\ copy[s] # NoCopy /\ copy[s].last >= rev[w]
    <3>1. copy' = copy
      BY <2>3 DEF CommitSaved
    <3>2. copy = [copy EXCEPT ![s] = copy[s]]
      BY <2>1
    <3> QED
      BY <1>0, <2>1, <2>3, <3>1, <3>2 DEF Copy, Revisions
  <2>4. CASE /\ ~tx[w].newAssoc /\ tx[w].seesCopy /\ tx[w].write = Moved(copy[s], rev[w], e)
             /\ copy[s] # NoCopy /\ rev[w] = copy[s].last + 1
    <3>1. /\ Moved(copy[s], rev[w], e) \in Copy /\ Moved(copy[s], rev[w], e).last = rev[w]
          /\ Moved(copy[s], rev[w], e).assoc = copy[s].assoc
          /\ Moved(copy[s], rev[w], e).policy = copy[s].policy /\ Moved(copy[s], rev[w], e).user = copy[s].user
      BY <1>0, <2>1, <2>4 DEF Moved, Copy
    <3>2. copy' = [copy EXCEPT ![s] = Moved(copy[s], rev[w], e)]
      BY <2>4, <3>1, SavedAssumption DEF CommitSaved
    <3>3. copy[s].last \in Int /\ rev[w] \in Int
      BY <1>0, <2>1, <2>4 DEF Copy, Revisions
    <3> QED
      <4>1. copy'[s] = Moved(copy[s], rev[w], e) /\ copy' = [copy EXCEPT ![s] = copy'[s]]
        BY <1>0, <2>1, <3>2
      <4>2. rev[w] >= rev[w] /\ rev[w] >= copy[s].last
        BY <2>4, <3>3
      <4> QED
        BY <2>4, <3>1, <4>1, <4>2, SavedAssumption
  <2> QED
    BY <1>f, <2>2, <2>3, <2>4 DEF Fits
<1>l. /\ pc' = [pc EXCEPT ![w] = pc'[w]] /\ pc'[w] \in {"mark", "done"}
      /\ tx' = [tx EXCEPT ![w] = EmptyTx]
      /\ \A o \in Savers \ {w} : /\ sid'[o] = sid[o] /\ through'[o] = through[o] /\ rev'[o] = rev[o]
                                 /\ target'[o] = target[o] /\ pc'[o] = pc[o]
      /\ pc'[w] = "mark" => sid' = sid /\ through' = through /\ rev' = rev
      /\ UNCHANGED <<saved, event, snapshot, unrecorded>>
  BY DEF CommitSaved, EndSaver, EndBoth, EndTransaction, sourceVars, SaverOK, SavedTypes, PolicyOK, PolicyTypes,
     Workers
<1> HIDE DEF s, u, e
<1>1. SavedTypes'
  <2>1. /\ sid' \in [Savers -> SavedIds \union {NoSaved}] /\ through' \in [Savers -> 0..MaxRevision]
        /\ rev' \in [Savers -> 0..MaxRevision] /\ did' \in [Savers -> BOOLEAN] /\ holds' \in [Savers -> BOOLEAN]
    <3>1. sid' = sid \/ sid' = [sid EXCEPT ![w] = NoSaved]
      BY DEF CommitSaved, EndSaver
    <3>2. through' = through \/ through' = [through EXCEPT ![w] = 0]
      BY DEF CommitSaved, EndSaver
    <3>3. rev' = rev \/ rev' = [rev EXCEPT ![w] = 0]
      BY DEF CommitSaved, EndSaver
    <3>4. did' = did \/ did' = [did EXCEPT ![w] = FALSE]
      BY DEF CommitSaved, EndSaver
    <3>5. holds' = holds \/ holds' = [holds EXCEPT ![w] = FALSE]
      BY DEF CommitSaved, EndSaver, EndBoth
    <3> QED
      BY <3>1, <3>2, <3>3, <3>4, <3>5, LocalsTyped DEF SaverOK
  <2>2. tx' \in [Savers -> Tx]
    <3>1. EmptyTx \in Tx
      BY DEF Tx, EmptyTx
    <3> QED
      BY <1>l, <3>1 DEF SaverOK, SavedTypes
  <2>3. users' \subseteq Workers /\ userMap' \in [Users -> Workers \union {NoOne}]
    BY <1>u DEF SaverOK, SavedTypes
  <2>4. assocs' \subseteq Workers
    BY <1>0 DEF CommitSaved, SaverOK, SavedTypes
  <2>5. copy' \in [SavedIds -> Copy \union {NoCopy}]
    BY <1>0, <1>c DEF SaverOK, SavedTypes
  <2> QED
    BY <1>l, <2>1, <2>2, <2>3, <2>4, <2>5 DEF SaverOK, SavedTypes
<1>2. EventsFollowRevisions'
  BY <1>l DEF SaverOK, SaverInv, EventsFollowRevisions
<1>k. \A t \in SavedIds : t # s => copy'[t] = copy[t]
  BY <1>c DEF SaverOK, SavedTypes
<1>3. CopyMatchesSource'
  <2> SUFFICES ASSUME NEW t \in SavedIds, copy'[t] # NoCopy
               PROVE  /\ saved[t] # NoSaved /\ copy'[t].last <= saved[t].rev
                      /\ map'[saved[t].reform] # NoContent /\ copy'[t].policy = map'[saved[t].reform]
                      /\ userMap'[saved[t].user] # NoOne /\ copy'[t].user = userMap'[saved[t].user]
                      /\ copy'[t].print = snapshot[t][copy'[t].last].label
                      /\ t \notin unrecorded => copy'[t].name = snapshot[t][copy'[t].last].label
    BY <1>l DEF CopyMatchesSource
  <2>0. ASSUME copy[t] # NoCopy
        PROVE  /\ saved[t] # NoSaved /\ copy[t].last <= saved[t].rev
               /\ map'[saved[t].reform] # NoContent /\ copy[t].policy = map'[saved[t].reform]
               /\ userMap'[saved[t].user] # NoOne /\ copy[t].user = userMap'[saved[t].user]
               /\ copy[t].print = snapshot[t][copy[t].last].label
               /\ t \notin unrecorded => copy[t].name = snapshot[t][copy[t].last].label
    <3>1. saved[t] # NoSaved /\ saved[t].reform \in PolicyIds /\ saved[t].user \in Users
      BY <2>0 DEF SaverOK, SaverInv, SavedTypes, CopyMatchesSource, Saved
    <3>2. map'[saved[t].reform] = map[saved[t].reform] /\ userMap'[saved[t].user] = userMap[saved[t].user]
      BY <1>u, <2>0, <3>1 DEF SaverOK, SaverInv, CopyMatchesSource, MapKept
    <3> QED
      BY <2>0, <3>2 DEF SaverOK, SaverInv, CopyMatchesSource
  <2>1. CASE t # s
    BY <1>k, <2>0, <2>1
  <2>2. CASE t = s /\ copy'[s] = copy[s] /\ copy[s] # NoCopy
    BY <2>0, <2>2
  <2>3. CASE t = s /\ copy'[s] = NewCopy(w)
    <3>1. /\ NewCopy(w).policy = content[w] /\ NewCopy(w).user = tx[w].owner /\ NewCopy(w).last = rev[w]
          /\ NewCopy(w).name = e.label /\ NewCopy(w).print = e.label
      BY DEF NewCopy, Label, e, s
    <3>2. userMap'[u] = tx[w].owner
      BY <1>0, <1>u DEF SaverOK, SavedTypes
    <3> QED
      BY <1>0, <1>m, <1>u, <2>3, <3>1, <3>2, ConstantsAssumption DEF e
  <2>4. CASE t = s /\ copy'[s] = Moved(copy[s], rev[w], e) /\ copy[s] # NoCopy /\ rev[w] = copy[s].last + 1
    <3>0. copy[s] \in Copy /\ copy[s].last \in Revisions
      BY <1>0, <2>4 DEF SaverOK, SavedTypes, Copy
    <3>1. /\ copy'[s].policy = copy[s].policy /\ copy'[s].user = copy[s].user /\ copy'[s].last = rev[w]
          /\ copy'[s].print = e.label /\ copy'[s].name = (IF e.relabels THEN e.label ELSE copy[s].name)
      BY <2>4, <3>0 DEF Moved, Copy
    <3>2. s \notin unrecorded /\ ~e.relabels => copy[s].name = e.label
      <4>1. ASSUME s \notin unrecorded, ~e.relabels
            PROVE  e.label = snapshot[s][rev[w] - 1].label
        <5>1. rev[w] \in 1..saved[s].rev /\ rev[w] > 1
          BY <1>0, <2>4, <3>0 DEF Revisions, Saved
        <5> QED
          BY <1>0, <4>1, <5>1 DEF SaverOK, SaverInv, EventsFollowRevisions, e
      <4>2. rev[w] - 1 = copy[s].last
        BY <2>4, <3>0 DEF Revisions
      <4> QED
        BY <2>0, <2>4, <4>1, <4>2
    <3> QED
      BY <1>0, <2>0, <2>4, <3>1, <3>2 DEF e
  <2> QED
    BY <1>c, <2>1, <2>2, <2>3, <2>4
<1>4. ProcessedIsCopied'
  <2> SUFFICES ASSUME NEW t \in SavedIds, NEW n \in Revisions, event[t][n] = "processed"
               PROVE  copy'[t] # NoCopy /\ copy'[t].last >= n
    BY <1>l DEF ProcessedIsCopied
  <2>1. copy[t] # NoCopy /\ copy[t].last >= n
    BY DEF SaverOK, SaverInv, ProcessedIsCopied
  <2>2. CASE t = s
    <3>1. copy'[s] \in Copy /\ copy[s] \in Copy /\ copy'[s].last >= copy[s].last
      BY <1>0, <1>c, <2>1, <2>2 DEF SaverOK, SavedTypes
    <3>2. copy'[s].last \in Int /\ copy[s].last \in Int /\ n \in Int
      BY <3>1 DEF Copy, Revisions
    <3> QED
      BY <1>c, <2>1, <2>2, <3>1, <3>2
  <2>3. CASE t # s
    BY <1>k, <2>1, <2>3
  <2> QED
    BY <2>2, <2>3
<1>5. NoLeftovers'
  <2>1. users' = {userMap'[v] : v \in Users} \ {NoOne}
    <3>1. users = {userMap[v] : v \in Users} \ {NoOne} /\ userMap \in [Users -> Workers \union {NoOne}]
      BY DEF SaverOK, SaverInv, SavedTypes, NoLeftovers
    <3>2. userMap'[u] = tx[w].owner /\ \A v \in Users : v # u => userMap'[v] = userMap[v]
      BY <1>0, <1>u, <3>1
    <3> QED
      BY <1>0, <1>u, <3>1, <3>2
  <2>2. assocs' = {copy'[t].assoc : t \in {x \in SavedIds : copy'[x] # NoCopy}}
    <3>1. assocs = {copy[t].assoc : t \in {x \in SavedIds : copy[x] # NoCopy}}
      BY DEF SaverOK, SaverInv, NoLeftovers
    <3>2. CASE tx[w].newAssoc
      <4>1. assocs' = assocs \union {w} /\ copy'[s].assoc = w /\ copy'[s] # NoCopy /\ copy[s] = NoCopy
        BY <1>c, <3>2 DEF CommitSaved, NewCopy
      <4> QED
        BY <1>0, <1>k, <3>1, <4>1
    <3>3. CASE ~tx[w].newAssoc
      <4>1. assocs' = assocs /\ copy'[s] # NoCopy /\ copy[s] # NoCopy /\ copy'[s].assoc = copy[s].assoc
        BY <1>c, <3>3 DEF CommitSaved
      <4> QED
        BY <1>0, <1>k, <3>1, <4>1
    <3> QED
      BY <3>2, <3>3
  <2> QED
    BY <2>1, <2>2 DEF NoLeftovers
<1>6. SaverPlace'
  <2>1. ASSUME NEW o \in Savers, o # w
        PROVE  Place(o)'
    <3>1. Place(o) /\ SavedTypes
      BY DEF SaverOK, SaverInv, SaverPlace
    <3>2. ASSUME pc[o] \in Copying \union {"mark", "next"}
          PROVE  saved'[sid[o]] # NoSaved /\ saved'[sid[o]].rev >= saved[sid[o]].rev
      BY <1>l, <3>1, <3>2 DEF Place, SavedTypes, Saved
    <3>3. ASSUME pc[o] = "mark", copy[sid[o]] # NoCopy
          PROVE  copy'[sid[o]] # NoCopy /\ copy'[sid[o]].last >= copy[sid[o]].last
      <4>1. CASE sid[o] = s
        BY <1>c, <3>3, <4>1
      <4>2. CASE sid[o] # s
        <5>1. sid[o] \in SavedIds
          BY <3>1, <3>3 DEF Place
        <5>2. copy'[sid[o]] = copy[sid[o]] /\ copy[sid[o]] \in Copy
          BY <1>k, <3>1, <3>3, <4>2, <5>1 DEF SavedTypes
        <5> QED
          BY <3>3, <5>2 DEF Copy, Revisions
      <4> QED
        BY <4>1, <4>2
    <3> QED
      BY <1>1, <1>l, <2>1, <3>1, <3>2, <3>3, PlaceFrame
  <2>2. Place(w)'
    <3>1. CASE pc'[w] = "done"
      BY <3>1 DEF Place, Copying, HasCopied
    <3>2. CASE pc'[w] = "mark"
      <4>1. Place(w) /\ pc[w] \in Copying
        BY <1>0 DEF SaverOK, SaverInv, SaverPlace, Copying, HasCopied
      <4> QED
        BY <1>c, <1>l, <3>2, <4>1 DEF Place, Current, Copying, HasCopied, s
    <3> QED
      BY <1>l, <3>1, <3>2
  <2> QED
    BY <2>1, <2>2 DEF SaverPlace
<1>7. SaverUser'
  <2>0. tx'[w] = EmptyTx /\ ~tx'[w].newUser /\ pc'[w] \notin Resolved /\ \A o \in Savers : o # w => tx'[o] = tx[o]
    BY <1>l DEF SaverOK, SavedTypes, EmptyTx, Resolved
  <2>1. \A o \in Savers : o # w => UserOf(o)' = UserOf(o)
    BY <1>l DEF UserOf
  <2>2. ASSUME NEW o \in Savers, o # w, pc[o] \in Resolved
        PROVE  /\ tx[o].newUser => /\ tx[o].owner = o /\ userMap'[UserOf(o)] = NoOne
                                   /\ \A q \in Savers : tx'[q].newUser /\ UserOf(q)' = UserOf(o) => q = o
               /\ ~tx[o].newUser => tx[o].owner = userMap'[UserOf(o)] /\ tx[o].owner # NoOne
    <3>0. UserOf(o) \in Users /\ w \in Savers /\ pc[w] \in Resolved
      BY <1>0, <2>2 DEF SaverOK, SaverInv, SavedTypes, SaverPlace, Place, UserOf, Saved, Copying, HasCopied, Resolved
    <3>1. ASSUME ~tx[o].newUser
          PROVE  tx[o].owner = userMap'[UserOf(o)] /\ tx[o].owner # NoOne
      BY <1>u, <2>2, <3>0, <3>1 DEF SaverOK, SaverInv, SaverUser
    <3>2. ASSUME tx[o].newUser
          PROVE  /\ tx[o].owner = o /\ userMap'[UserOf(o)] = NoOne
                 /\ \A q \in Savers : tx'[q].newUser /\ UserOf(q)' = UserOf(o) => q = o
      <4>1. /\ tx[o].owner = o /\ userMap[UserOf(o)] = NoOne
            /\ \A q \in Savers : tx[q].newUser /\ UserOf(q) = UserOf(o) => q = o
        BY <2>2, <3>2 DEF SaverOK, SaverInv, SaverUser
      <4>2. UserOf(o) # u
        <5>1. ~tx[w].newUser => userMap[UserOf(w)] # NoOne
          BY <3>0 DEF SaverOK, SaverInv, SaverUser
        <5> QED
          BY <2>2, <4>1, <5>1 DEF u
      <4>3. userMap'[UserOf(o)] = NoOne
        BY <1>u, <3>0, <4>1, <4>2 DEF SaverOK, SavedTypes
      <4> QED
        BY <2>0, <2>1, <4>1, <4>3
    <3> QED
      BY <3>1, <3>2
  <2>3. \A o \in Savers : o # w => pc'[o] = pc[o] /\ (pc[o] \notin Resolved => tx[o] = EmptyTx)
    BY <1>l DEF SaverOK, SaverInv, SaverUser
  <2> QED
    BY <2>0, <2>1, <2>2, <2>3 DEF SaverUser
<1>8. SaverAssociation'
  <2>1. ASSUME NEW o \in Savers, o # w, pc[o] = "commit"
        PROVE  Fits(tx[o], copy'[sid[o]], rev[o], snapshot[sid[o]][rev[o]])
    <3>1. /\ Fits(tx[o], copy[sid[o]], rev[o], snapshot[sid[o]][rev[o]])
          /\ sid[o] \in SavedIds /\ rev[o] \in Nat
      BY <2>1 DEF SaverOK, SaverInv, SavedTypes, SaverAssociation, SaverPlace, Place, Copying, HasCopied
    <3>2. CASE sid[o] # s
      BY <1>k, <3>1, <3>2
    <3>3. CASE sid[o] = s
      <4>1. ~(tx[w].newAssoc /\ tx[o].newAssoc) /\ ~(tx[w].seesCopy /\ tx[o].seesCopy)
        BY <2>1, <3>3 DEF SaverOK, SaverInv, SaversExclude, s
      <4>2. CASE copy'[s] = copy[s]
        BY <3>1, <3>3, <4>2
      <4>3. CASE copy'[s] # copy[s]
        <5>1. (tx[w].newAssoc /\ copy[s] = NoCopy) \/ (tx[w].seesCopy /\ copy[s] # NoCopy)
          BY <1>c, <4>3
        <5>2. ~tx[o].newAssoc /\ tx[o].write = NoCopy /\ copy[s] # NoCopy /\ copy[s].last >= rev[o]
          BY <3>1, <3>3, <4>1, <5>1 DEF Fits
        <5>3. copy'[s].last >= rev[o]
          <6>1. copy'[s].last \in Int /\ copy[s].last \in Int
            BY <1>0, <1>c, <5>2 DEF SaverOK, SavedTypes, Copy, Revisions
          <6> QED
            BY <1>c, <3>1, <5>2, <6>1
        <5> QED
          <6>1. copy'[s] # NoCopy
            BY <1>c
          <6>2. Fits(tx[o], copy'[s], rev[o], snapshot[sid[o]][rev[o]])
            BY <5>2, <5>3, <6>1, FitsWhenPast
          <6> QED
            BY <3>3, <6>2
      <4> QED
        BY <4>2, <4>3
    <3> QED
      BY <3>2, <3>3
  <2>2. \A o \in Savers : o # w => tx'[o] = tx[o]
    BY <1>l DEF SaverOK, SavedTypes
  <2> QED
    BY <1>l, <2>1, <2>2 DEF SaverOK, SaverInv, SaverAssociation
<1>9. SaversExclude'
  BY <1>l DEF SaverOK, SaverInv, SavedTypes, SaversExclude, EmptyTx
<1>10. NoConflict'
  BY <1>l DEF SaverOK, SaverInv, NoConflict
<1> QED
  BY <1>1, <1>2, <1>3, <1>4, <1>5, <1>6, <1>7, <1>8, <1>9, <1>10 DEF SaverOK, SaverInv

\* An event is marked once its revision is in v2.
LEMMA MarkProcessedOK ==
  ASSUME PolicyOK, SaverOK, MapKept, NEW w \in Savers, MarkProcessed(w)
  PROVE  SaverOK'
<1>1. CASE ~holds[w] /\ EndSaver(w, "done") /\ UNCHANGED event
  BY <1>1, EndSaverOK DEF MarkProcessed, sourceVars
<1>2. CASE holds[w]
  <2> DEFINE s == sid[w]
  <2>0. /\ s \in SavedIds /\ saved[s] # NoSaved /\ rev[w] \in Revisions /\ rev[w] <= saved[s].rev
        /\ copy[s] # NoCopy /\ copy[s].last >= rev[w]
    <3>1. /\ pc[w] = "mark" /\ s \in SavedIds /\ saved[s] # NoSaved /\ saved[s] \in Saved
          /\ rev[w] \in 1..through[w] /\ through[w] \in 1..saved[s].rev
          /\ copy[s] # NoCopy /\ copy[s].last >= rev[w]
      BY DEF MarkProcessed, SaverOK, SaverInv, SavedTypes, SaverPlace, Place, Current
    <3> QED
      BY <3>1, SavedAssumption DEF Saved, Revisions
  <2>1. /\ event' = [event EXCEPT ![s] = [event[s] EXCEPT ![rev[w]] = "processed"]]
        /\ UNCHANGED <<saved, snapshot, unrecorded, users, userMap, assocs, copy, map>>
        /\ tx' = [tx EXCEPT ![w] = EmptyTx]
        /\ pc' = [pc EXCEPT ![w] = pc'[w]] /\ pc'[w] \in {"done", "next"}
        /\ \A o \in Savers \ {w} : /\ sid'[o] = sid[o] /\ through'[o] = through[o] /\ rev'[o] = rev[o]
                                   /\ target'[o] = target[o] /\ pc'[o] = pc[o]
        /\ pc'[w] = "next" => sid' = sid /\ through' = through
    BY <1>2 DEF MarkProcessed, EndSaver, EndBoth, EndTransaction, copiedVars, tables, SaverOK, SavedTypes, PolicyOK,
       PolicyTypes, Workers
  <2>2. /\ event' \in [SavedIds -> [Revisions -> {"none", "pending", "processed"}]]
        /\ \A t \in SavedIds, n \in Revisions :
              IF t = s /\ n = rev[w] THEN event'[t][n] = "processed" ELSE event'[t][n] = event[t][n]
        /\ event[s][rev[w]] # "none"
    <3>1. event \in [SavedIds -> [Revisions -> {"none", "pending", "processed"}]]
      BY DEF SaverOK, SavedTypes
    <3>2. event[s][rev[w]] # "none"
      BY <2>0, SavedAssumption DEF SaverOK, SaverInv, SavedTypes, Saved, EventsFollowRevisions, Revisions
    <3> QED
      BY <2>0, <2>1, <3>1, <3>2
  <2>t. tx[w] = EmptyTx /\ tx' = tx
    <3>1. tx[w] = EmptyTx
      BY DEF MarkProcessed, SaverOK, SaverInv, SaverUser, Resolved
    <3>2. tx \in [Savers -> Tx]
      BY DEF SaverOK, SavedTypes
    <3>3. tx' = [tx EXCEPT ![w] = tx[w]]
      BY <2>1, <3>1
    <3> QED
      BY <3>1, <3>2, <3>3
  <2> HIDE DEF s
  <2>3. SavedTypes'
    <3>1. /\ sid' \in [Savers -> SavedIds \union {NoSaved}] /\ through' \in [Savers -> 0..MaxRevision]
          /\ rev' \in [Savers -> 0..MaxRevision] /\ did' \in [Savers -> BOOLEAN] /\ holds' \in [Savers -> BOOLEAN]
      <4>1. sid' = sid \/ sid' = [sid EXCEPT ![w] = NoSaved]
        BY DEF MarkProcessed, EndSaver
      <4>2. through' = through \/ through' = [through EXCEPT ![w] = 0]
        BY DEF MarkProcessed, EndSaver
      <4>3. rev' = rev \/ rev' = [rev EXCEPT ![w] = 0]
        BY DEF MarkProcessed, EndSaver
      <4>4. \E b \in BOOLEAN : did' = [did EXCEPT ![w] = b]
        BY DEF MarkProcessed, EndSaver
      <4>5. holds' = [holds EXCEPT ![w] = FALSE]
        BY DEF MarkProcessed, EndSaver, EndBoth
      <4> QED
        BY <4>1, <4>2, <4>3, <4>4, <4>5, LocalsTyped DEF SaverOK
    <3> QED
      BY <2>1, <2>2, <2>t, <3>1 DEF SaverOK, SavedTypes
  <2>4. EventsFollowRevisions'
    <3>1. \A t \in SavedIds, n \in Revisions : event'[t][n] = "none" <=> event[t][n] = "none"
      BY <2>2
    <3> QED
      BY <2>1, <3>1 DEF SaverOK, SaverInv, EventsFollowRevisions
  <2>5. CopyMatchesSource' /\ NoLeftovers'
    BY <2>1 DEF SaverOK, SaverInv, CopyMatchesSource, NoLeftovers
  <2>6. ProcessedIsCopied'
    BY <2>0, <2>1, <2>2 DEF SaverOK, SaverInv, ProcessedIsCopied
  <2>7. SaverPlace'
    <3>1. ASSUME NEW o \in Savers, o # w
          PROVE  Place(o)'
      <4>1. Place(o) /\ SavedTypes
        BY DEF SaverOK, SaverInv, SaverPlace
      <4>2. ASSUME pc[o] \in Copying \union {"mark", "next"}
            PROVE  /\ saved'[sid[o]] # NoSaved /\ saved'[sid[o]].rev >= saved[sid[o]].rev
                   /\ \A m \in 1..through[o] : event[sid[o]][m] = "processed" => event'[sid[o]][m] = "processed"
        <5>1. sid[o] \in SavedIds /\ saved[sid[o]] # NoSaved /\ saved[sid[o]].rev \in 0..MaxRevision
              /\ through[o] \in 1..saved[sid[o]].rev
          BY <4>1, <4>2 DEF Place, SavedTypes, Saved
        <5>2. \A m \in 1..through[o] : m \in Revisions
          BY <5>1, SavedAssumption DEF Revisions
        <5> QED
          BY <2>1, <2>2, <5>1, <5>2
      <4>3. pc[o] = "mark" => copy'[sid[o]].last >= copy[sid[o]].last
        BY <2>1, <4>1 DEF Place, Current, SavedTypes, Copy, Revisions
      <4> QED
        BY <2>1, <2>3, <3>1, <4>1, <4>2, <4>3, PlaceFrame
    <3>2. Place(w)'
      BY <2>1 DEF SaverOK, SaverInv, SaverPlace, Place, MarkProcessed, Copying, HasCopied
    <3> QED
      BY <3>1, <3>2 DEF SaverPlace
  <2>8. SaverUser'
    <3>1. \A o \in Savers : pc'[o] \in Resolved <=> pc[o] \in Resolved
      BY <2>1 DEF MarkProcessed, Resolved
    <3>2. \A o \in Savers : pc[o] \in Resolved => UserOf(o)' = UserOf(o)
      BY <2>1 DEF MarkProcessed, Resolved, UserOf
    <3> QED
      BY <2>1, <2>t, <3>1, <3>2, UserFrame DEF SaverOK, SaverInv
  <2>9. SaverAssociation' /\ SaversExclude'
    BY <2>1, <2>t DEF SaverOK, SaverInv, SaverAssociation, SaversExclude, EmptyTx
  <2>10. NoConflict'
    BY <2>1 DEF SaverOK, SaverInv, NoConflict
  <2> QED
    BY <2>3, <2>4, <2>5, <2>6, <2>7, <2>8, <2>9, <2>10 DEF SaverOK, SaverInv
<1> QED
  BY <1>1, <1>2 DEF MarkProcessed

\* Every step of the system keeps SaverOK.
LEMMA SaverNext ==
  ASSUME PolicyOK, SaverOK, [Next]_vars
  PROVE  SaverOK'
<1>0. MapKept /\ PolicyOK'
  BY MapIsKept, PolicyNext
<1>1. ASSUME NEW w \in Posts \union Natives, StartPolicy(w) \/ PolicyStep(w) \/ FailPolicy(w),
             UNCHANGED <<sourceVars, copiedVars, saverVars>>
      PROVE  SaverOK'
  <2>1. \A o \in Savers : o \in Workers /\ o # w /\ w \in Workers
    BY ConstantsAssumption DEF Workers
  <2>2. \A o \in Savers : pc'[o] = pc[o] /\ target'[o] = target[o]
    BY <1>1, <2>1 DEF PolicyOK, PolicyTypes, StartPolicy, StartPost, StartNative, PolicyStep, FailPolicy, LookUp,
       InsertLegacy, CopyPolicy, ReadPolicyMapping, InsertCopy, InsertMapping, InsertPolicy, CommitCopy,
       InsertNative, CommitNative, Goto, EndTransaction
  <2> QED
    BY <1>0, <1>1, <2>2, OthersOK DEF saverVars, SaverOK, SavedTypes
<1>2. ASSUME NEW r \in Releases, Publish(r), UNCHANGED <<sourceVars, copiedVars, saverVars>>
      PROVE  SaverOK'
  BY <1>0, <1>2, OthersOK DEF Publish, saverVars, SaverOK, SavedTypes
<1>3. ASSUME NEW w \in Savers, FailSaver(w)
      PROVE  SaverOK'
  BY <1>0, <1>3, EndSaverOK DEF FailSaver
<1>4. ASSUME NEW w \in Savers, LoseEventLock(w)
      PROVE  SaverOK'
  BY <1>0, <1>4, OthersOK DEF LoseEventLock, policyVars, SaverOK, SavedTypes
<1>5. CASE UNCHANGED vars
  BY <1>0, <1>5, OthersOK DEF vars, policyVars, saverVars, SaverOK, SavedTypes
<1>6. ASSUME NEW w \in Savers, StartSaver(w) \/ CopyReform(w) \/ SaverStep(w)
      PROVE  SaverOK'
  BY <1>0, <1>6, StartSaverOK, CopyReformOK, LockNextOK, ResolveUserOK, AssociateOK, CommitSavedOK, MarkProcessedOK
  DEF SaverStep
<1> QED
  BY <1>1, <1>2, <1>3, <1>4, <1>5, <1>6 DEF Next

\* A copy only moves to the next revision: nothing else of it ever changes.
LEMMA CopyMoves ==
  ASSUME PolicyOK, SaverOK, [Next]_vars, NEW s \in SavedIds, copy[s] # NoCopy
  PROVE  /\ copy'[s].last \in {copy[s].last, copy[s].last + 1}
         /\ copy'[s] = [copy[s] EXCEPT !.last = copy'[s].last, !.name = copy'[s].name, !.print = copy'[s].print]
<1>0. copy \in [SavedIds -> Copy \union {NoCopy}] /\ copy[s] \in Copy
  BY DEF SaverOK, SavedTypes
<1>1. CASE copy'[s] = copy[s]
  BY <1>0, <1>1 DEF Copy
<1>2. ASSUME NEW w \in Savers, CommitSaved(w)
      PROVE  \/ copy'[s] = copy[s]
             \/ \E e : copy'[s] = Moved(copy[s], copy[s].last + 1, e)
  <2>1. Fits(tx[w], copy[sid[w]], rev[w], snapshot[sid[w]][rev[w]])
    BY <1>2 DEF CommitSaved, SaverOK, SaverInv, SaverAssociation
  <2>2. CASE sid[w] = s
    <3>1. CASE tx[w].write = NoCopy
      BY <1>2, <2>1, <2>2, <3>1 DEF CommitSaved, Fits
    <3>2. CASE tx[w].write # NoCopy
      BY <1>0, <1>2, <2>1, <2>2, <3>2 DEF CommitSaved, Fits
    <3> QED
      BY <3>1, <3>2
  <2>3. CASE sid[w] # s
    BY <1>0, <1>2, <2>3 DEF CommitSaved
  <2> QED
    BY <2>2, <2>3
<1>3. ASSUME NEW e, copy'[s] = Moved(copy[s], copy[s].last + 1, e)
      PROVE  /\ copy'[s].last \in {copy[s].last, copy[s].last + 1}
             /\ copy'[s] = [copy[s] EXCEPT !.last = copy'[s].last, !.name = copy'[s].name, !.print = copy'[s].print]
  <2>1. /\ DOMAIN copy[s] = {"assoc", "policy", "user", "name", "last", "print"}
        /\ copy[s] = [f \in DOMAIN copy[s] |-> copy[s][f]]
    BY <1>0 DEF Copy
  <2> QED
    BY <1>3, <2>1 DEF Moved
<1>4. ASSUME NEW w \in Savers, StartSaver(w) \/ CopyReform(w) \/ FailSaver(w) \/ LoseEventLock(w)
      PROVE  copy' = copy
  BY <1>4 DEF StartSaver, Save, Update, Record, RelabelUnrecorded, CopyReform, FailSaver, LoseEventLock, copiedVars
<1>5. ASSUME NEW w \in Savers, SaverStep(w), ~CommitSaved(w)
      PROVE  copy' = copy
  BY <1>5 DEF SaverStep, LockNext, CopyEvent, ReadUser, InsertUser, ReadAssociation, InsertAssociation,
     ApplyRevision, SetTx, MarkProcessed, copiedVars
<1>6. CASE UNCHANGED copy
  BY <1>1, <1>6
<1> QED
  BY <1>1, <1>2, <1>3, <1>4, <1>5, <1>6 DEF Next, SaverStep, vars, copiedVars

(***************************************************************************)
(* Waits. A transaction takes its locks and inserts its rows in one order, *)
(* and holds none before it came to it nor after it ended.                 *)
(***************************************************************************)

LocksInv ==
    /\ \A w \in Workers : sees[w] => pc[w] \in HasCopied
    /\ \A w \in Savers : holds[w] => pc[w] \in Copying \union {"mark"}

\* What a step leaves to the worker that takes it.
LocksOf(w) ==
    /\ sees[w] => pc[w] \in HasCopied
    /\ w \in Savers => (holds[w] => pc[w] \in Copying \union {"mark"})

\* A worker keeps its locks while another one steps.
LEMMA LocksFrame ==
  ASSUME PolicyTypes, SavedTypes, LocksInv, NEW w \in Workers, LocksOf(w)',
         pc' = [pc EXCEPT ![w] = pc'[w]], sees' = [sees EXCEPT ![w] = sees'[w]],
         \A o \in Savers \ {w} : holds'[o] = holds[o]
  PROVE  LocksInv'
  BY DEF LocksInv, LocksOf, PolicyTypes, SavedTypes, Workers

\* A POST's copy and a v2 POST.
LEMMA PolicyLocks ==
  ASSUME IInv, LocksInv, NEW w \in Posts \union Natives,
         StartPolicy(w) \/ PolicyStep(w) \/ FailPolicy(w), UNCHANGED saverVars
  PROVE  LocksInv'
<1>0. w \in Workers /\ w \notin Savers /\ PolicyTypes /\ SavedTypes
  BY ConstantsAssumption, Types DEF IInv, Workers
<1>1. LocksOf(w) /\ pc \in [Workers -> PolicyPC \union SaverPC] /\ sees \in [Workers -> BOOLEAN]
  BY <1>0 DEF LocksInv, LocksOf, PolicyTypes
<1>2. /\ pc' = [pc EXCEPT ![w] = pc'[w]] /\ sees' = [sees EXCEPT ![w] = sees'[w]]
      /\ sees'[w] => pc'[w] \in HasCopied
  <2>1. CASE StartPolicy(w)
    BY <1>0, <1>1, <2>1 DEF StartPolicy, StartPost, StartNative, Goto, copyVars, LocksOf, HasCopied
  <2>2. CASE LookUp(w) \/ InsertLegacy(w)
    BY <1>0, <1>1, <2>2 DEF LookUp, InsertLegacy, Goto, copyVars, LocksOf, HasCopied
  <2>3. CASE CopyPolicy(w)
    BY <1>0, <1>1, <2>3 DEF CopyPolicy, ReadPolicyMapping, InsertCopy, InsertPolicy, InsertMapping,
       EndTransaction, LocksOf, HasCopied
  <2>4. CASE CommitCopy(w) \/ InsertNative(w) \/ CommitNative(w) \/ FailPolicy(w)
    BY <1>0, <1>1, <2>4 DEF CommitCopy, InsertNative, InsertPolicy, CommitNative, FailPolicy,
       EndTransaction, LocksOf, HasCopied
  <2> QED
    BY <2>1, <2>2, <2>3, <2>4 DEF PolicyStep
<1> QED
  BY <1>0, <1>2, LocksFrame DEF LocksOf, saverVars

\* A saver that goes on to another statement of its v2 transaction, or ends it.
LEMMA SetTxLocks ==
  ASSUME IInv, LocksInv, NEW w \in Savers, pc[w] \in HasCopied, NEW t,
         NEW next \in HasCopied, SetTx(w, t, next)
  PROVE  LocksInv'
<1>0. w \in Workers /\ PolicyTypes /\ SavedTypes
  BY Types DEF IInv, Workers
<1>1. pc' = [pc EXCEPT ![w] = next] /\ sees' = sees /\ holds' = holds
  BY DEF SetTx, copyVars
<1> QED
  BY <1>0, <1>1, LocksFrame DEF LocksOf, PolicyTypes, SavedTypes, Copying

\* A saver that answers holds nothing.
LEMMA EndSaverLocks ==
  ASSUME IInv, LocksInv, NEW w \in Savers, NEW how, EndSaver(w, how)
  PROVE  LocksInv'
<1>0. w \in Workers /\ PolicyTypes /\ SavedTypes
  BY Types DEF IInv, Workers
<1>1. /\ pc' = [pc EXCEPT ![w] = how] /\ sees' = [sees EXCEPT ![w] = FALSE]
      /\ holds' = [holds EXCEPT ![w] = FALSE]
  BY DEF EndSaver, EndBoth, EndTransaction
<1> QED
  BY <1>0, <1>1, LocksFrame DEF LocksOf, PolicyTypes, SavedTypes

\* The steps of a saver.
LEMMA SaverLocks ==
  ASSUME IInv, LocksInv, NEW w \in Savers,
         StartSaver(w) \/ CopyReform(w) \/ SaverStep(w) \/ FailSaver(w) \/ LoseEventLock(w)
  PROVE  LocksInv'
<1>0. w \in Workers /\ PolicyTypes /\ SavedTypes
  BY Types DEF IInv, Workers
<1>1. LocksOf(w) /\ pc \in [Workers -> PolicyPC \union SaverPC] /\ sees \in [Workers -> BOOLEAN]
      /\ holds \in [Savers -> BOOLEAN]
  BY <1>0 DEF LocksInv, LocksOf, PolicyTypes, SavedTypes
<1>2. CASE StartSaver(w)
  <2>1. /\ pc[w] = "start" /\ UNCHANGED <<sees, holds>> /\ pc' = [pc EXCEPT ![w] = pc'[w]]
    BY <1>1, <1>2 DEF StartSaver, Save, Update, Record, RelabelUnrecorded, copyVars, saverVars
  <2>2. ~sees[w] /\ ~holds[w]
    BY <1>1, <2>1 DEF LocksOf, Copying, HasCopied
  <2> QED
    BY <1>0, <1>1, <2>1, <2>2, LocksFrame DEF LocksOf
<1>3. CASE CopyReform(w)
  <2>1. /\ pc' = [pc EXCEPT ![w] = pc'[w]] /\ sees' = [sees EXCEPT ![w] = sees'[w]]
        /\ sees'[w] => pc'[w] \in HasCopied
        /\ pc'[w] \in Copying \union {"done"}
    BY <1>0, <1>1, <1>3 DEF CopyReform, CopyPolicy, ReadPolicyMapping, InsertCopy, InsertPolicy, InsertMapping,
       EndTransaction, LocksOf, HasCopied, Copying
  <2>2. holds' = [holds EXCEPT ![w] = holds[w] /\ pc'[w] # "done"]
    BY <1>3 DEF CopyReform
  <2>3. \A o \in Savers \ {w} : holds'[o] = holds[o]
    BY <1>1, <2>2
  <2>4. holds'[w] => pc'[w] # "done"
    BY <1>1, <2>2
  <2> QED
    BY <1>0, <2>1, <2>3, <2>4, LocksFrame DEF LocksOf
<1>4. CASE LockNext(w)
  <2>1. ASSUME NEW n, CopyEvent(w, n), ~EndSaver(w, "done")
        PROVE  LocksInv'
    <3>1. /\ pc' = [pc EXCEPT ![w] = "readmapping"] /\ sees' = sees
          /\ holds' = [holds EXCEPT ![w] = TRUE]
      BY <2>1 DEF CopyEvent, Goto, copyVars
    <3>2. ~sees[w]
      BY <1>1, <1>4 DEF LockNext, LocksOf, HasCopied
    <3> QED
      BY <1>0, <1>1, <3>1, <3>2, LocksFrame DEF LocksOf, Copying
  <2> QED
    BY <1>4, <2>1, EndSaverLocks DEF LockNext
<1>5. CASE ReadUser(w) \/ InsertUser(w)
  <2>1. pc[w] \in HasCopied /\ "readassoc" \in HasCopied /\ "insertuser" \in HasCopied
    BY <1>5 DEF ReadUser, InsertUser, HasCopied
  <2> QED
    BY <1>5, <2>1, SetTxLocks DEF ReadUser, InsertUser
<1>6. CASE ReadAssociation(w) \/ InsertAssociation(w)
  <2>1. pc[w] \in HasCopied /\ "insertassoc" \in HasCopied /\ "commit" \in HasCopied
    BY <1>6 DEF ReadAssociation, InsertAssociation, HasCopied
  <2>2. ASSUME NEW t, ApplyRevision(w, t)
        PROVE  LocksInv'
    BY <2>1, <2>2, SetTxLocks, EndSaverLocks DEF ApplyRevision
  <2> QED
    BY <1>6, <2>1, <2>2, SetTxLocks DEF ReadAssociation, InsertAssociation
<1>7. CASE CommitSaved(w)
  <2>1. CASE EndSaver(w, "done")
    BY <2>1, EndSaverLocks
  <2>2. CASE EndTransaction(w, "mark") /\ UNCHANGED holds
    BY <1>0, <1>1, <2>2, LocksFrame DEF LocksOf, EndTransaction
  <2> QED
    BY <1>7, <2>1, <2>2 DEF CommitSaved
<1>8. CASE MarkProcessed(w)
  <2>1. CASE EndSaver(w, "done")
    BY <2>1, EndSaverLocks
  <2>2. CASE EndBoth(w, "next")
    BY <1>0, <1>1, <2>2, LocksFrame DEF LocksOf, EndBoth, EndTransaction
  <2> QED
    BY <1>8, <2>1, <2>2 DEF MarkProcessed
<1>9. CASE FailSaver(w)
  BY <1>9, EndSaverLocks DEF FailSaver
<1>10. CASE LoseEventLock(w)
  <2>1. UNCHANGED <<pc, sees>> /\ holds' = [holds EXCEPT ![w] = FALSE]
    BY <1>10 DEF LoseEventLock, policyVars, copyVars
  <2> QED
    BY <1>0, <1>1, <2>1, LocksFrame DEF LocksOf
<1> QED
  BY <1>2, <1>3, <1>4, <1>5, <1>6, <1>7, <1>8, <1>9, <1>10 DEF SaverStep

\* Every step of the system.
LEMMA LocksNext ==
  ASSUME IInv, LocksInv, [Next]_vars
  PROVE  LocksInv'
<1>1. ASSUME UNCHANGED <<pc, sees, holds>>
      PROVE  LocksInv'
  BY <1>1 DEF LocksInv
<1>2. CASE UNCHANGED vars
  BY <1>1, <1>2 DEF vars, policyVars, copyVars, saverVars
<1>3. ASSUME NEW r \in Releases, Publish(r), UNCHANGED saverVars
      PROVE  LocksInv'
  BY <1>1, <1>3 DEF Publish, copyVars, saverVars
<1> QED
  BY <1>2, <1>3, PolicyLocks, SaverLocks DEF Next

\* How far a transaction is in the order of the locks.
Stage(w) ==
    CASE pc[w] = "readmapping" -> 1
      [] pc[w] \in {"insertpolicy", "nativeinsert"} -> 2
      [] pc[w] = "insertmapping" -> 3
      [] pc[w] = "copied" -> 4
      [] pc[w] = "insertuser" -> 5
      [] pc[w] = "readassoc" -> 6
      [] pc[w] = "insertassoc" -> 7
      [] pc[w] \in {"commit", "nativecommit", "mark"} -> 8
      [] OTHER -> 0

\* What a statement waits for is held by a transaction that is further.
LEMMA WaitsForFurther ==
  ASSUME IInv, LocksInv, NEW w \in Workers, NEW o \in Workers, Waits(w, o)
  PROVE  o \in Unanswered /\ Stage(o) > Stage(w)
<1>0. PolicyInv /\ SaverInv /\ LocksOf(o)
  BY DEF IInv, LocksInv, LocksOf
<1>1. CASE PolicyWaits(w, o)
  <2>1. CASE pc[w] = "readmapping" /\ sees[o]
    <3>1. pc[o] \in HasCopied
      BY <1>0, <2>1 DEF LocksOf
    <3> QED
      BY <2>1, <3>1 DEF HasCopied, Stage, Unanswered, SaverEnded, Ended
  <2>2. CASE pc[w] \in {"insertpolicy", "nativeinsert"} /\ mine[o] # {}
    <3>1. pc[o] \in {"insertmapping", "nativecommit"} \union HasCopied
      BY <1>0, <2>2 DEF PolicyInv, Uncommitted
    <3> QED
      BY <2>2, <3>1 DEF HasCopied, Stage, Unanswered, SaverEnded, Ended
  <2>3. CASE pc[w] = "insertmapping" /\ mapped[o]
    <3>1. pc[o] \in HasCopied
      BY <1>0, <2>3 DEF PolicyInv, MappingIsExclusive
    <3> QED
      BY <2>3, <3>1 DEF HasCopied, Stage, Unanswered, SaverEnded, Ended
  <2> QED
    BY <1>1, <2>1, <2>2, <2>3 DEF PolicyWaits
<1>2. CASE w \in Savers /\ o \in Savers /\ SaverWaits(w, o)
  <2>1. CASE pc[w] = "next" /\ holds[o]
    <3>1. pc[o] \in Copying \union {"mark"}
      BY <1>0, <1>2, <2>1 DEF LocksOf
    <3> QED
      BY <2>1, <3>1 DEF Copying, HasCopied, Stage, Unanswered, SaverEnded, Ended
  <2>2. CASE pc[w] \in {"copied", "insertuser"} /\ (tx[o].seesUser \/ tx[o].newUser)
    <3>1. pc[o] \in Resolved
      BY <1>0, <1>2, <2>2 DEF SaverInv, SaverUser, EmptyTx
    <3> QED
      BY <2>2, <3>1 DEF Resolved, Stage, Unanswered, SaverEnded, Ended
  <2>3. CASE pc[w] \in {"readassoc", "insertassoc"} /\ (tx[o].seesCopy \/ tx[o].newAssoc)
    <3>1. pc[o] \in Resolved
      BY <1>0, <1>2, <2>3 DEF SaverInv, SaverUser, EmptyTx
    <3>2. pc[o] = "commit"
      BY <1>0, <1>2, <2>3, <3>1 DEF SaverInv, SaverAssociation, Resolved
    <3> QED
      BY <2>3, <3>2 DEF Stage, Unanswered, SaverEnded, Ended
  <2> QED
    BY <1>2, <2>1, <2>2, <2>3 DEF SaverWaits
<1> QED
  BY <1>1, <1>2 DEF Waits

\* Of any transactions there is one that is furthest.
LEMMA Furthest ==
  ASSUME NEW S, S # {}
  PROVE  \E w \in S : \A o \in S : ~(Stage(o) > Stage(w))
<1>1. \A w \in S : Stage(w) \in 0..8
  BY DEF Stage
<1> QED
  BY <1>1

(***************************************************************************)
(* The theorems.                                                           *)
(***************************************************************************)

\* The invariant that all of the properties follow from.
THEOREM Inductive == Spec => []IInv
<1>1. Init => IInv
  BY InitPolicy, InitSaver, Types DEF IInv, PolicyOK, SaverOK
<1>2. IInv /\ [Next]_vars => IInv'
  <2> SUFFICES ASSUME IInv, [Next]_vars
               PROVE  IInv'
    OBVIOUS
  <2>1. PolicyOK /\ SaverOK
    BY Types DEF IInv, PolicyOK, SaverOK
  <2>2. PolicyOK' /\ SaverOK'
    BY <2>1, PolicyNext, SaverNext
  <2> QED
    BY <2>2, TypesNext DEF IInv, PolicyOK, SaverOK
<1> QED
  BY <1>1, <1>2, PTL DEF Spec

\* The rows of both databases and every request's variables keep their kinds.
THEOREM TypeCorrect == Spec => []TypeOK
<1>1. IInv => TypeOK
  BY DEF IInv
<1> QED
  BY <1>1, Inductive, PTL

\* processed_at is set only on an event whose revision is in v2, though the two
\* commits are separate and either connection may be lost between them.
THEOREM ProcessedEventsAreCopied == Spec => []ProcessedIsCopied
<1>1. IInv => ProcessedIsCopied
  BY DEF IInv, SaverInv
<1> QED
  BY <1>1, Inductive, PTL

\* The association has the label of the revision its mapping stands at, however
\* often and in whatever order revisions are applied.
THEOREM NamesAreOfTheirRevision == Spec => []NameIsOfItsRevision
<1>1. IInv => NameIsOfItsRevision
  BY DEF IInv, SaverInv, CopyMatchesSource, NameIsOfItsRevision
<1> QED
  BY <1>1, Inductive, PTL

\* Losers of the insert races delete what they inserted: no transition user or
\* association is left that nothing maps to, and no policy but a lost race's.
THEOREM CopyingLeavesNothingBehind == Spec => []NothingLeftBehind
<1>1. IInv => NothingLeftBehind
  BY DEF IInv, PolicyInv, SaverInv, NoLeftovers, CopyMatchesSource, NothingLeftBehind
<1> QED
  BY <1>1, Inductive, PTL

\* validate_existing_legacy_user_policy_mapping never raises on a revision that
\* v1 committed.
THEOREM IntegrityChecksPass == Spec => []NoConflict
<1>1. IInv => NoConflict
  BY DEF IInv, SaverInv
<1> QED
  BY <1>1, Inductive, PTL

\* A v1 policy keeps its copy, and the copy of a saved policy moves forward one
\* revision at a time, keeping its policy, user and association.
THEOREM CopiesAdvance == Spec => CopyAdvances
<1> DEFINE Final == \A i \in PolicyIds : map'[i] # NoContent =>
                        /\ map'[i] \in stored'
                        /\ \E r \in Releases : Translate[<<policy'[i].document, r>>] = map'[i]
                        /\ map[i] \in {NoContent, map'[i]}
           Moves == \A s \in SavedIds : copy[s] # NoCopy =>
                        /\ copy'[s].last \in {copy[s].last, copy[s].last + 1}
                        /\ copy'[s] = [copy[s] EXCEPT !.last = copy'[s].last,
                                          !.name = copy'[s].name, !.print = copy'[s].print]
<1>1. IInv /\ IInv' /\ [Next]_vars => [Final]_policyVars
  <2> SUFFICES ASSUME IInv, MapIsTrue', [Next]_vars
               PROVE  Final
    BY DEF IInv, PolicyInv
  <2>1. MapKept
    BY MapIsKept, Types DEF IInv, PolicyOK
  <2> QED
    BY <2>1 DEF MapKept, MapIsTrue, Translations
<1>2. IInv /\ [Next]_vars => [Moves]_vars
  <2> SUFFICES ASSUME IInv, [Next]_vars
               PROVE  Moves
    OBVIOUS
  <2>1. PolicyOK /\ SaverOK
    BY Types DEF IInv, PolicyOK, SaverOK
  <2> QED
    BY <2>1, CopyMoves
<1> QED
  BY <1>1, <1>2, Inductive, PTL DEF Spec, CopyAdvances, CopyIsFinal

\* FOR UPDATE and INSERT ... ON CONFLICT never wait in a circle, nor for a lock
\* that nobody will release: of any open requests the furthest waits for none.
THEOREM WaitsEnd == Spec => []NoWaitCycle
<1>1. Init => LocksInv
  BY DEF Init, PolicyInit, LocksInv, Workers
<1>2. IInv /\ LocksInv => NoWaitCycle
  <2> SUFFICES ASSUME IInv, LocksInv, NEW S \in SUBSET Unanswered, S # {}
               PROVE  \E w \in S : \A o \in Workers : Waits(w, o) => o \in Unanswered \ S
    BY DEF NoWaitCycle
  <2>1. PICK w \in S : \A o \in S : ~(Stage(o) > Stage(w))
    BY Furthest
  <2>2. w \in Workers
    BY DEF Unanswered
  <2> QED
    BY <2>1, <2>2, WaitsForFurther
<1> QED
  BY <1>1, <1>2, Inductive, LocksNext, PTL DEF Spec
===============================================================================
