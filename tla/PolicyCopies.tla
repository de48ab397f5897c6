---------------------------- MODULE PolicyCopies ----------------------------
(***************************************************************************)
(* v1 policies and their v2 copies. routes/policy_routes.py and            *)
(* services/policy_service.py look a policy up in Cloud SQL and insert it  *)
(* when it is new; services/policy_mirroring.py then copies it into        *)
(* Supabase in one transaction (services/v2/policies). Nothing is retained *)
(* for a copy that fails: the next POST of the same policy copies it       *)
(* again. A saved policy's transaction copies its reform policy the same   *)
(* way (SavedPolicies), and v2 POSTs store policies in the same table.     *)
(*                                                                         *)
(* Every SQL statement is one step. A v1 document is a policy_json, its    *)
(* hash stands for it; a content is a canonical v2 policy document, which  *)
(* names the model version it is bound to. The v2 policy row is known by   *)
(* its content, on which the table has a unique constraint. A v1 policy    *)
(* never changes.                                                          *)
(***************************************************************************)
EXTENDS FiniteSets

CONSTANTS
    Posts,       \* v1 POST /policy requests
    Natives,     \* v2 POST /policies requests
    Savers,      \* saved-policy requests, which copy their reform policy
    PolicyIds,   \* v1 policy ids
    Documents,   \* v1 policy documents
    PolicyLabels,\* labels a client gives a policy
    EmptyLabel, NoLabel,
    Releases,    \* the PolicyEngine.py versions instances run
    Release,     \* the release of the instance that serves each request
    Contents,    \* canonical v2 contents
    Translate,   \* translate_legacy_policy under each release's catalog
    Certified,   \* the releases whose catalog is published at the start
    NoPolicy, NoId, NoContent,
    Faults       \* which of the events of FaultKinds may happen

FaultKinds == {"error",    \* a statement fails or the process dies
               "lost",     \* a v2 commit is done but its reply is lost
               "v1lost"}   \* the v1 connection drops during the v2 transaction

Workers == Posts \union Natives \union Savers

ASSUME ConstantsAssumption ==
    /\ Posts \intersect Natives = {} /\ Savers \intersect (Posts \union Natives) = {}
    /\ EmptyLabel # NoLabel /\ NoLabel \in PolicyLabels
    /\ NoId \notin PolicyIds /\ NoContent \notin Contents
    /\ NoPolicy \notin [document: Documents, label: PolicyLabels]
    /\ Translate \in [Documents \X Releases -> Contents \union {NoContent}]
    /\ Certified \subseteq Releases /\ Release \in [Posts \union Savers -> Releases]
    /\ Faults \subseteq FaultKinds

VARIABLES
    policy,     \* Cloud SQL: the v1 policy of each id
    published,  \* Supabase: releases whose catalog is published
    stored,     \* Supabase: contents with a committed v2 policy
    map,        \* Supabase: legacy_policy_mappings, the copy of each v1 policy
    native,     \* observed: contents a v2 POST asked for
    \* each worker's own variables
    pc,         \* the statement it executes next; "done" once it has answered
    request,    \* the policy it was sent
    target,     \* the v1 policy it copies
    content,    \* the v2 policy its copy ends up with
    sees,       \* whether it found the mapping, which it then holds locked
    mine,       \* the contents it inserted, uncommitted
    mapped      \* whether it inserted the mapping, uncommitted

tables == <<policy, published, stored, map, native>>
copyVars == <<content, sees, mine, mapped>>
policyVars == <<tables, pc, request, target, copyVars>>

PolicyPC == {"start", "lookup", "insert", "readmapping", "insertpolicy",
             "insertmapping", "copied", "nativeinsert", "nativecommit",
             "done"}
Ended == {"start", "done"}

Policies == [document: Documents, label: PolicyLabels]

\* Cloud SQL may hold policies from before they were copied.
PolicyInit ==
    /\ policy \in [PolicyIds -> Policies \union {NoPolicy}]
    /\ published = Certified
    /\ stored = {} /\ native = {}
    /\ map = [i \in PolicyIds |-> NoContent]
    /\ pc = [w \in Workers |-> "start"]
    /\ request = [w \in Workers |-> NoPolicy]
    /\ target = [w \in Workers |-> NoId]
    /\ content = [w \in Workers |-> NoContent]
    /\ sees = [w \in Workers |-> FALSE]
    /\ mine = [w \in Workers |-> {}]
    /\ mapped = [w \in Workers |-> FALSE]

Goto(w, next) ==
    /\ pc' = [pc EXCEPT ![w] = next]
    /\ UNCHANGED copyVars

\* The worker's v2 transaction is over: its locks are released, and what it has
\* not committed is rolled back.
EndTransaction(w, next) ==
    /\ pc' = [pc EXCEPT ![w] = next]
    /\ content' = [content EXCEPT ![w] = NoContent]
    /\ sees' = [sees EXCEPT ![w] = FALSE]
    /\ mine' = [mine EXCEPT ![w] = {}]
    /\ mapped' = [mapped EXCEPT ![w] = FALSE]

(***************************************************************************)
(* v1: set_policy.                                                         *)
(***************************************************************************)

\* The route parses the payload; the label may be missing.
StartPost(w, d, l) ==
    /\ w \in Posts /\ pc[w] = "start"
    /\ request' = [request EXCEPT ![w] = [document |-> d, label |-> l]]
    /\ Goto(w, "lookup")
    /\ UNCHANGED <<tables, target>>

\* _get_unique_policy_with_label is asked for "label or None".
SoughtLabel(l) == IF l = EmptyLabel THEN NoLabel ELSE l

\* The stored policies the lookup of a request matches; it takes any of them.
Matches(q) == {i \in PolicyIds : policy[i] = [q EXCEPT !.label = SoughtLabel(q.label)]}

\* _set_policy up to the insert. An existing policy is not checked again; a new
\* one must be readable by the model this instance runs (_check_policy_data).
\* Nothing is copied when the write source is not dual_write.
LookUp(w) ==
    /\ pc[w] = "lookup"
    /\ \/ \E i \in Matches(request[w]) :
             /\ target' = [target EXCEPT ![w] = i]
             /\ Goto(w, "readmapping") \/ Goto(w, "done")
       \/ /\ Matches(request[w]) = {}
          /\ Goto(w, "insert") \/ Goto(w, "done")
          /\ UNCHANGED target
    /\ UNCHANGED <<tables, request>>

\* The v1 transaction inserts the policy with the label as it was sent, and
\* commits; no constraint of the table makes a policy unique.
InsertLegacy(w) ==
    /\ pc[w] = "insert"
    /\ \E i \in PolicyIds :
          /\ policy[i] = NoPolicy
          /\ policy' = [policy EXCEPT ![i] = request[w]]
          /\ target' = [target EXCEPT ![w] = i]
    /\ Goto(w, "readmapping") \/ Goto(w, "done")
    /\ UNCHANGED <<published, stored, map, native, request>>

(***************************************************************************)
(* mirror_legacy_policy_in_session.                                        *)
(***************************************************************************)

\* What w's instance translates a v1 policy to: nothing when the running
\* catalog is not published or lacks a parameter.
Translation(w, i) ==
    IF Release[w] \in published THEN Translate[<<policy[i].document, Release[w]>>]
                                ELSE NoContent

\* Which transactions a statement waits for: one that holds the mapping of its
\* v1 policy locked, or inserted what it inserts and is not committed.
PolicyWaits(w, o) ==
    /\ o # w
    /\ \/ pc[w] = "readmapping" /\ sees[o] /\ target[o] = target[w]
       \/ pc[w] \in {"insertpolicy", "nativeinsert"} /\ content[w] \in mine[o]
       \/ pc[w] = "insertmapping" /\ mapped[o] /\ target[o] = target[w]

\* Select the mapping FOR UPDATE, which waits for whoever holds it. A policy that
\* has a copy is not translated again; otherwise it must translate.
ReadPolicyMapping(w) ==
    LET i == target[w] IN
    /\ pc[w] = "readmapping"
    /\ \A o \in Workers : ~PolicyWaits(w, o)
    /\ \/ /\ map[i] # NoContent
          /\ pc' = [pc EXCEPT ![w] = "copied"]
          /\ content' = [content EXCEPT ![w] = map[i]]
          /\ sees' = [sees EXCEPT ![w] = TRUE]
          /\ UNCHANGED <<mine, mapped>>
       \/ /\ map[i] = NoContent /\ Translation(w, i) # NoContent
          /\ pc' = [pc EXCEPT ![w] = "insertpolicy"]
          /\ content' = [content EXCEPT ![w] = Translation(w, i)]
          /\ UNCHANGED <<sees, mine, mapped>>
       \/ /\ map[i] = NoContent /\ Translation(w, i) = NoContent
          /\ EndTransaction(w, "done")
    /\ UNCHANGED <<tables, request, target>>

\* create_resolved_policy: INSERT ... ON CONFLICT DO NOTHING, which waits for an
\* uncommitted policy of the same content, then uses the one in the way.
InsertPolicy(w, next) ==
    /\ \A o \in Workers : ~PolicyWaits(w, o)
    /\ pc' = [pc EXCEPT ![w] = next]
    /\ mine' = [mine EXCEPT ![w] = {content[w]} \ stored]
    /\ UNCHANGED <<tables, request, target, content, sees, mapped>>

InsertCopy(w) == pc[w] = "insertpolicy" /\ InsertPolicy(w, "insertmapping")

\* Mutant: a copy that lost the race goes on with its own v2 policy.
InsertMappingKeepsOwn(w) ==
    LET i == target[w] IN
    /\ pc[w] = "insertmapping"
    /\ \A o \in Workers : ~PolicyWaits(w, o)
    /\ pc' = [pc EXCEPT ![w] = "copied"]
    /\ mapped' = [mapped EXCEPT ![w] = (map[i] = NoContent)]
    /\ UNCHANGED <<tables, request, target, content, sees, mine>>

\* create_legacy_policy_mapping: INSERT ... ON CONFLICT DO NOTHING, which waits
\* for an uncommitted mapping. A copy that lost the race takes the winner's v2
\* policy; the one it inserted itself is still committed.
InsertMapping(w) ==
    LET i == target[w] IN
    /\ pc[w] = "insertmapping"
    /\ \A o \in Workers : ~PolicyWaits(w, o)
    /\ pc' = [pc EXCEPT ![w] = "copied"]
    /\ IF map[i] = NoContent
       THEN mapped' = [mapped EXCEPT ![w] = TRUE] /\ UNCHANGED content
       ELSE content' = [content EXCEPT ![w] = map[i]] /\ UNCHANGED mapped
    /\ UNCHANGED <<tables, request, target, sees, mine>>

CopyPolicy(w) == ReadPolicyMapping(w) \/ InsertCopy(w) \/ InsertMapping(w)

\* What the commit of w's v2 transaction writes.
CommitPolicy(w) ==
    /\ stored' = stored \union mine[w]
    /\ map' = IF mapped[w] THEN [map EXCEPT ![target[w]] = content[w]] ELSE map

\* mirror_policy_after_commit: the copy commits. A lost reply is logged as a
\* failed copy; the v1 response is the same.
CommitCopy(w) ==
    /\ w \in Posts /\ pc[w] = "copied"
    /\ CommitPolicy(w)
    /\ EndTransaction(w, "done")
    /\ UNCHANGED <<policy, published, native, request, target>>

(***************************************************************************)
(* v2: V2PolicyService.create_policy.                                      *)
(***************************************************************************)

\* A client sends content of a release it names: it must be published, and the
\* content belong to it.
StartNative(w, c) ==
    /\ w \in Natives /\ pc[w] = "start"
    /\ \E r \in published, d \in Documents : Translate[<<d, r>>] = c
    /\ pc' = [pc EXCEPT ![w] = "nativeinsert"]
    /\ content' = [content EXCEPT ![w] = c]
    /\ UNCHANGED <<tables, request, target, sees, mine, mapped>>

InsertNative(w) == pc[w] = "nativeinsert" /\ InsertPolicy(w, "nativecommit")

CommitNative(w) ==
    /\ pc[w] = "nativecommit"
    /\ stored' = stored \union mine[w]
    /\ native' = native \union {content[w]}
    /\ EndTransaction(w, "done")
    /\ UNCHANGED <<policy, published, map, request, target>>

(***************************************************************************)
(* The environment.                                                        *)
(***************************************************************************)

\* A catalog is published.
Publish(r) ==
    /\ r \notin published
    /\ published' = published \union {r}
    /\ UNCHANGED <<policy, stored, map, native, pc, request, target, copyVars>>

\* A statement fails, or the process dies, in a v1 or v2 transaction.
FailPolicy(w) ==
    /\ "error" \in Faults
    /\ w \in Posts \union Natives /\ pc[w] \notin Ended
    /\ EndTransaction(w, "done")
    /\ UNCHANGED <<tables, request, target>>

StartPolicy(w) ==
    \/ \E d \in Documents, l \in PolicyLabels : StartPost(w, d, l)
    \/ \E c \in Contents : StartNative(w, c)

PolicyStep(w) ==
    \/ LookUp(w) \/ InsertLegacy(w) \/ CopyPolicy(w) \/ CommitCopy(w)
    \/ InsertNative(w) \/ CommitNative(w)

(***************************************************************************)
(* Properties.                                                             *)
(***************************************************************************)

\* A v2 policy that no v1 policy maps to and no v2 POST asked for is what a copy
\* that lost a race inserted, so the v1 policy has a copy of another release
\* (mirror_legacy_policy_in_session's last comment). Anything else would be left
\* behind by a failed copy.
OrphansLostARace ==
    \A c \in stored \ native :
        \E i \in PolicyIds :
            /\ map[i] # NoContent
            /\ \E r \in Releases : Translate[<<policy[i].document, r>>] = c

\* A v1 policy's copy is a v2 policy of its own content, committed with the
\* mapping, and is the copy for good: neither a new release nor a second copy of
\* the same policy moves it.
CopyIsFinal ==
    [][\A i \in PolicyIds : map'[i] # NoContent =>
          /\ map'[i] \in stored'
          /\ \E r \in Releases : Translate[<<policy'[i].document, r>>] = map'[i]
          /\ map[i] \in {NoContent, map'[i]}]_policyVars
=============================================================================
