---------------------------- MODULE SavedPolicies ----------------------------
(***************************************************************************)
(* v1 saved policies and their v2 copies, over the policies of             *)
(* PolicyCopies. services/user_policy_service.py gives every recorded      *)
(* write of a saved policy the next revision and retains it as an event in *)
(* the same Cloud SQL transaction. services/user_policy_mirroring.py then  *)
(* copies the pending revisions up to its own, oldest first: holding the   *)
(* event's row lock it copies the reform policy, the v1 user and the       *)
(* association in one Supabase transaction (services/v2/user_policies),    *)
(* then marks the event. The two commits are separate.                     *)
(*                                                                         *)
(* Of a saved policy's fields only the reform label is copied after the    *)
(* first revision; a revision's snapshot is its label and whether the      *)
(* write set it. A v2 user or association is known by the worker that      *)
(* inserted it.                                                            *)
(***************************************************************************)
EXTENDS PolicyCopies, Integers

CONSTANTS
    SavedIds,      \* v1 saved-policy ids
    Users,         \* v1 user ids
    Labels,        \* reform labels of saved policies
    MaxRevision,   \* bound on the revisions of one saved policy
    NoSaved, NoCopy, NoOne

Revisions == 1..MaxRevision
Saved == [reform: PolicyIds, user: Users, label: Labels, rev: 0..MaxRevision]
Copy == [assoc: Workers, policy: Contents, user: Workers, name: Labels,
         last: Revisions, print: Labels]

ASSUME SavedAssumption ==
    /\ MaxRevision \in Nat \ {0}
    /\ NoLabel \in Labels
    /\ NoOne \notin Workers /\ NoSaved \notin Saved /\ NoCopy \notin Copy

VARIABLES
    \* Cloud SQL
    saved,       \* reform, user, label and mirror_revision of each saved policy
    event,       \* its retained event of each revision: none, pending, processed
    snapshot,    \* the label in that event, and whether the write set it
    unrecorded,  \* observed: saved policies relabelled without an event
    \* Supabase
    users,       \* committed v2 users
    userMap,     \* legacy_user_mappings
    assocs,      \* committed associations
    copy,        \* legacy_user_policy_mappings with the association each names
    \* each saver's own variables
    sid,         \* the saved policy it wrote
    through,     \* the revision its write was given
    rev,         \* the revision it is copying
    did,         \* whether it has copied one
    holds,       \* whether it holds that event's row lock
    tx           \* its open v2 transaction

sourceVars == <<saved, event, snapshot, unrecorded>>
copiedVars == <<users, userMap, assocs, copy>>
saverVars == <<sid, through, rev, did, holds, tx>>
vars == <<policyVars, sourceVars, copiedVars, saverVars>>

SaverPC == {"next", "insertuser", "readassoc", "insertassoc", "commit", "mark",
            "conflict"}

\* owner is the v2 user it resolved; newUser, newAssoc say whether it inserted
\* one; seesUser, seesCopy whether it holds a mapping row locked; write is the
\* new state of an existing copy.
EmptyTx == [owner |-> NoOne, newUser |-> FALSE, seesUser |-> FALSE,
            newAssoc |-> FALSE, seesCopy |-> FALSE, write |-> NoCopy]

Tx == [owner: Workers \union {NoOne}, newUser: BOOLEAN, seesUser: BOOLEAN,
       newAssoc: BOOLEAN, seesCopy: BOOLEAN, write: Copy \union {NoCopy}]

\* The tables and every worker's variables hold values of their kinds: a v2
\* policy, user or association is named only once it was inserted.
TypeOK ==
    /\ policy \in [PolicyIds -> Policies \union {NoPolicy}]
    /\ published \subseteq Releases /\ stored \subseteq Contents /\ native \subseteq Contents
    /\ map \in [PolicyIds -> Contents \union {NoContent}]
    /\ pc \in [Workers -> PolicyPC \union SaverPC]
    /\ request \in [Workers -> Policies \union {NoPolicy}]
    /\ target \in [Workers -> PolicyIds \union {NoId}]
    /\ content \in [Workers -> Contents \union {NoContent}]
    /\ sees \in [Workers -> BOOLEAN] /\ mapped \in [Workers -> BOOLEAN]
    /\ mine \in [Workers -> SUBSET Contents]
    /\ saved \in [SavedIds -> Saved \union {NoSaved}]
    /\ event \in [SavedIds -> [Revisions -> {"none", "pending", "processed"}]]
    /\ snapshot \in [SavedIds -> [Revisions -> [label: Labels, relabels: BOOLEAN]]]
    /\ unrecorded \subseteq SavedIds
    /\ users \subseteq Workers /\ assocs \subseteq Workers
    /\ userMap \in [Users -> Workers \union {NoOne}]
    /\ copy \in [SavedIds -> Copy \union {NoCopy}]
    /\ sid \in [Savers -> SavedIds \union {NoSaved}]
    /\ through \in [Savers -> 0..MaxRevision] /\ rev \in [Savers -> 0..MaxRevision]
    /\ did \in [Savers -> BOOLEAN] /\ holds \in [Savers -> BOOLEAN]
    /\ tx \in [Savers -> Tx]

Init ==
    /\ PolicyInit
    /\ saved = [s \in SavedIds |-> NoSaved]
    /\ event = [s \in SavedIds |-> [n \in Revisions |-> "none"]]
    /\ snapshot = [s \in SavedIds |-> [n \in Revisions |->
                       [label |-> NoLabel, relabels |-> FALSE]]]
    /\ unrecorded = {} /\ users = {} /\ assocs = {}
    /\ userMap = [u \in Users |-> NoOne]
    /\ copy = [s \in SavedIds |-> NoCopy]
    /\ sid = [w \in Savers |-> NoSaved]
    /\ through = [w \in Savers |-> 0] /\ rev = [w \in Savers |-> 0]
    /\ did = [w \in Savers |-> FALSE] /\ holds = [w \in Savers |-> FALSE]
    /\ tx = [w \in Savers |-> EmptyTx]

(***************************************************************************)
(* v1 writes.                                                              *)
(***************************************************************************)

\* _record_mirror_event: the next revision and its event, in the transaction of
\* the write.
Record(w, s, row, relabels) ==
    LET n == row.rev + 1 IN
    /\ n \in Revisions
    /\ saved' = [saved EXCEPT ![s] = [row EXCEPT !.rev = n]]
    /\ event' = [event EXCEPT ![s][n] = "pending"]
    /\ snapshot' = [snapshot EXCEPT ![s][n] = [label |-> row.label, relabels |-> relabels]]
    /\ sid' = [sid EXCEPT ![w] = s]
    /\ through' = [through EXCEPT ![w] = n]
    /\ pc' = [pc EXCEPT ![w] = "next"]
    /\ UNCHANGED <<tables, request, target, copyVars, unrecorded,
                   copiedVars, rev, did, holds, tx>>

\* create_or_get_user_policy: the saved policy of the same identity fields is
\* locked and given a revision too.
Save(w, row) ==
    /\ w \in Savers /\ pc[w] = "start" /\ row.rev = 0
    /\ LET same == {s \in SavedIds : saved[s] # NoSaved /\ saved[s] = [row EXCEPT !.rev = saved[s].rev]}
       IN  \/ \E s \in same : Record(w, s, saved[s], FALSE)
           \/ /\ same = {}
              /\ \E s \in SavedIds : saved[s] = NoSaved /\ Record(w, s, row, FALSE)

\* update_user_policy, which may set the reform label or only other fields.
Update(w, s) ==
    /\ w \in Savers /\ pc[w] = "start" /\ saved[s] # NoSaved
    /\ \/ \E l \in Labels : Record(w, s, [saved[s] EXCEPT !.label = l], TRUE)
       \/ Record(w, s, saved[s], FALSE)

\* update_user_policy without record_mirror_event: the label changes and no
\* revision is made of it.
RelabelUnrecorded(w, s, l) ==
    /\ w \in Savers /\ pc[w] = "start" /\ saved[s] # NoSaved /\ saved[s].label # l
    /\ saved' = [saved EXCEPT ![s].label = l]
    /\ unrecorded' = unrecorded \union {s}
    /\ pc' = [pc EXCEPT ![w] = "done"]
    /\ UNCHANGED <<tables, request, target, copyVars, event, snapshot,
                   copiedVars, saverVars>>

(***************************************************************************)
(* process_pending_mirror_events.                                          *)
(***************************************************************************)

\* Both of w's transactions end.
EndBoth(w, next) ==
    /\ EndTransaction(w, next)
    /\ holds' = [holds EXCEPT ![w] = FALSE]
    /\ tx' = [tx EXCEPT ![w] = EmptyTx]

\* Mutant: the event's row lock outlives the request.
EndSaverKeepsLock(w, how) ==
    /\ EndTransaction(w, how)
    /\ tx' = [tx EXCEPT ![w] = EmptyTx]
    /\ UNCHANGED <<holds, sid, through, rev, did, target>>

\* The request answers or raises.
EndSaver(w, how) ==
    /\ EndBoth(w, how)
    /\ sid' = [sid EXCEPT ![w] = NoSaved]
    /\ through' = [through EXCEPT ![w] = 0]
    /\ rev' = [rev EXCEPT ![w] = 0]
    /\ did' = [did EXCEPT ![w] = FALSE]
    /\ target' = [target EXCEPT ![w] = NoId]

\* Revisions up to w's own that are not copied yet.
Pending(w) == {n \in 1..through[w] : event[sid[w]][n] = "pending"}

\* The one it copies next: the oldest of them or, when there is none and this
\* call has copied nothing, its own, which was copied by another.
ToCopy(w) ==
    IF Pending(w) # {} THEN {n \in Pending(w) : \A m \in Pending(w) : n <= m}
    ELSE IF did[w] THEN {} ELSE {through[w]}

UserOf(w) == saved[sid[w]].user

\* Which savers a statement waits for: one that holds the lock of the event, of
\* the user's mapping or of the saved policy's, or that has inserted the mapping
\* it inserts and is not committed.
SaverWaits(w, o) ==
    /\ o # w
    /\ \/ pc[w] = "next" /\ holds[o] /\ sid[o] = sid[w] /\ rev[o] \in ToCopy(w)
       \/ pc[w] = "copied" /\ tx[o].seesUser /\ UserOf(o) = UserOf(w)
       \/ pc[w] = "insertuser" /\ tx[o].newUser /\ UserOf(o) = UserOf(w)
       \/ pc[w] = "readassoc" /\ tx[o].seesCopy /\ sid[o] = sid[w]
       \/ pc[w] = "insertassoc" /\ tx[o].newAssoc /\ sid[o] = sid[w]

WaitsForNobody(w) == \A o \in Savers : ~SaverWaits(w, o)

\* Copy the event of revision n under its row lock; its reform policy is read
\* first, and a missing one raises.
CopyEvent(w, n) ==
    LET s == sid[w] IN
    /\ \/ /\ policy[saved[s].reform] # NoPolicy
          /\ rev' = [rev EXCEPT ![w] = n]
          /\ holds' = [holds EXCEPT ![w] = TRUE]
          /\ target' = [target EXCEPT ![w] = saved[s].reform]
          /\ Goto(w, "readmapping")
          /\ UNCHANGED <<sid, through, did, tx>>
       \/ /\ policy[saved[s].reform] = NoPolicy
          /\ EndSaver(w, "done")
    /\ UNCHANGED <<tables, request, sourceVars, copiedVars>>

\* Lock the event of the next revision, or answer when there is none.
LockNext(w) ==
    /\ pc[w] = "next"
    /\ WaitsForNobody(w)
    /\ \/ \E n \in ToCopy(w) : CopyEvent(w, n)
       \/ /\ ToCopy(w) = {}
          /\ EndSaver(w, "done")
          /\ UNCHANGED <<tables, request, sourceVars, copiedVars>>

(***************************************************************************)
(* mirror_legacy_user_policy_in_session, once the reform policy is copied. *)
(***************************************************************************)

SetTx(w, t, next) ==
    /\ tx' = [tx EXCEPT ![w] = t]
    /\ pc' = [pc EXCEPT ![w] = next]
    /\ UNCHANGED <<tables, request, target, copyVars, sourceVars, copiedVars,
                   sid, through, rev, did, holds>>

\* resolve_legacy_user_id: select the user's mapping FOR UPDATE.
ReadUser(w) ==
    LET u == UserOf(w) IN
    /\ w \in Savers /\ pc[w] = "copied"
    /\ WaitsForNobody(w)
    /\ \/ /\ userMap[u] # NoOne
          /\ SetTx(w, [tx[w] EXCEPT !.owner = userMap[u], !.seesUser = TRUE], "readassoc")
       \/ userMap[u] = NoOne /\ SetTx(w, tx[w], "insertuser")

\* Mutant: a transition user that lost the race is not deleted.
InsertUserKeepsLoser(w) ==
    LET u == UserOf(w) IN
    /\ pc[w] = "insertuser"
    /\ WaitsForNobody(w)
    /\ SetTx(w, [tx[w] EXCEPT !.newUser = TRUE,
                    !.owner = IF userMap[u] = NoOne THEN w ELSE userMap[u]], "readassoc")

\* The transition user and its mapping, INSERT ... ON CONFLICT DO NOTHING. The
\* loser of a race deletes its user and takes the winner's.
InsertUser(w) ==
    LET u == UserOf(w) IN
    /\ pc[w] = "insertuser"
    /\ WaitsForNobody(w)
    /\ SetTx(w, [tx[w] EXCEPT !.newUser = (userMap[u] = NoOne),
                    !.owner = IF userMap[u] = NoOne THEN w ELSE userMap[u]], "readassoc")

\* The revision w copies, and the copy as it stands.
Label(w) == snapshot[sid[w]][rev[w]].label
Current(w) == copy[sid[w]]

\* Mutant: a name that is set is kept.
RenamesOnce(w) == snapshot[sid[w]][rev[w]].relabels /\ Current(w).name = NoLabel

\* legacy_name_requires_update.
Renames(w) == snapshot[sid[w]][rev[w]].relabels /\ Current(w).name # Label(w)

\* Mutant: applies whatever is not the revision it stands at.
VerdictIgnoresOrder(w, t) == IF rev[w] = Current(w).last THEN "replay" ELSE "update"

\* validate_existing_legacy_user_policy_mapping: what a revision is to the copy. A
\* copy that another user or policy took over, a different replay and a gap are
\* integrity errors.
Verdict(w, t) ==
    LET c == Current(w) IN
    IF c.policy # content[w] \/ c.user # t.owner THEN "conflict"
    ELSE IF rev[w] < c.last THEN "stale"
    ELSE IF rev[w] = c.last THEN (IF c.print = Label(w) THEN "replay" ELSE "conflict")
    ELSE IF rev[w] = c.last + 1 THEN "update" ELSE "conflict"

\* apply_existing_legacy_user_policy_mapping: a stale or replayed revision
\* changes nothing; the next one moves the mapping and may rename the
\* association.
ApplyRevision(w, t) ==
    LET c == Current(w) IN
    \/ Verdict(w, t) \in {"stale", "replay"} /\ SetTx(w, t, "commit")
    \/ /\ Verdict(w, t) = "update"
       /\ SetTx(w, [t EXCEPT !.write = [c EXCEPT !.last = rev[w], !.print = Label(w),
                       !.name = IF Renames(w) THEN Label(w) ELSE c.name]], "commit")
    \/ /\ Verdict(w, t) = "conflict"
       /\ EndSaver(w, "conflict")
       /\ UNCHANGED <<tables, request, sourceVars, copiedVars>>

\* persist_legacy_user_policy_mapping: select the mapping FOR UPDATE.
ReadAssociation(w) ==
    /\ pc[w] = "readassoc"
    /\ WaitsForNobody(w)
    /\ \/ Current(w) # NoCopy /\ ApplyRevision(w, [tx[w] EXCEPT !.seesCopy = TRUE])
       \/ Current(w) = NoCopy /\ SetTx(w, tx[w], "insertassoc")

\* Insert the association and its mapping. The loser of a race deletes its
\* association and applies its revision to the winner's, which it does not lock.
InsertAssociation(w) ==
    /\ pc[w] = "insertassoc"
    /\ WaitsForNobody(w)
    /\ \/ Current(w) = NoCopy /\ SetTx(w, [tx[w] EXCEPT !.newAssoc = TRUE], "commit")
       \/ Current(w) # NoCopy /\ ApplyRevision(w, tx[w])

\* The copy a transaction that inserted the association commits: the projection
\* of its revision (project_legacy_user_policy).
NewCopy(w) ==
    [assoc |-> w, policy |-> content[w], user |-> tx[w].owner, name |-> Label(w),
     last |-> rev[w], print |-> Label(w)]

\* The v2 transaction commits; a lost reply raises, and the v1 transaction is
\* rolled back with the event still pending.
CommitSaved(w) ==
    LET s == sid[w] IN
    /\ pc[w] = "commit"
    /\ CommitPolicy(w)
    /\ users' = IF tx[w].newUser THEN users \union {w} ELSE users
    /\ userMap' = IF tx[w].newUser /\ tx[w].owner = w
                  THEN [userMap EXCEPT ![UserOf(w)] = w] ELSE userMap
    /\ assocs' = IF tx[w].newAssoc THEN assocs \union {w} ELSE assocs
    /\ copy' = IF tx[w].write # NoCopy THEN [copy EXCEPT ![s] = tx[w].write]
               ELSE IF tx[w].newAssoc THEN [copy EXCEPT ![s] = NewCopy(w)] ELSE copy
    /\ \/ /\ EndTransaction(w, "mark")
          /\ tx' = [tx EXCEPT ![w] = EmptyTx]
          /\ UNCHANGED <<target, sid, through, rev, did, holds>>
       \/ "lost" \in Faults /\ EndSaver(w, "done")
    /\ UNCHANGED <<policy, published, native, request, sourceVars>>

\* Mutant: marks its own request's event, not the one it copied.
MarkProcessedOwn(w) ==
    /\ pc[w] = "mark" /\ holds[w]
    /\ event' = [event EXCEPT ![sid[w]][through[w]] = "processed"]
    /\ EndSaver(w, "done")
    /\ UNCHANGED <<tables, request, saved, snapshot, unrecorded, copiedVars>>

\* processed_at is set and the v1 transaction commits, unless its connection was
\* lost. The loop ends with the request's own revision.
MarkProcessed(w) ==
    /\ pc[w] = "mark"
    /\ \/ /\ holds[w]
          /\ event' = [event EXCEPT ![sid[w]][rev[w]] = "processed"]
          /\ \/ rev[w] = through[w] /\ EndSaver(w, "done")
             \/ /\ rev[w] # through[w]
                /\ did' = [did EXCEPT ![w] = TRUE]
                /\ EndBoth(w, "next")
                /\ UNCHANGED <<target, sid, through, rev>>
       \/ ~holds[w] /\ EndSaver(w, "done") /\ UNCHANGED event
    /\ UNCHANGED <<tables, request, saved, snapshot, unrecorded, copiedVars>>

(***************************************************************************)
(* Failures.                                                               *)
(***************************************************************************)

SaverEnded == Ended \union {"conflict"}

\* A statement fails, or the process dies: both transactions are rolled back.
FailSaver(w) ==
    /\ "error" \in Faults
    /\ w \in Savers /\ pc[w] \notin SaverEnded
    /\ EndSaver(w, "done")
    /\ UNCHANGED <<tables, request, sourceVars, copiedVars>>

\* The v1 connection, and the event's lock with it, is lost; the v2 transaction
\* goes on.
LoseEventLock(w) ==
    /\ "v1lost" \in Faults
    /\ holds[w]
    /\ holds' = [holds EXCEPT ![w] = FALSE]
    /\ UNCHANGED <<policyVars, sourceVars, copiedVars, sid, through, rev, did, tx>>

StartSaver(w) ==
    \/ \E row \in Saved : Save(w, row)
    \/ \E s \in SavedIds : Update(w, s) \/ \E l \in Labels : RelabelUnrecorded(w, s, l)

SaverStep(w) ==
    \/ LockNext(w) \/ ReadUser(w) \/ InsertUser(w) \/ ReadAssociation(w)
    \/ InsertAssociation(w) \/ CommitSaved(w) \/ MarkProcessed(w)

\* A failed translation ends both transactions of a saver.
CopyReform(w) ==
    /\ CopyPolicy(w)
    /\ holds' = [holds EXCEPT ![w] = holds[w] /\ pc'[w] # "done"]
    /\ UNCHANGED <<sourceVars, copiedVars, sid, through, rev, did, tx>>

Next ==
    \/ /\ \/ \E w \in Posts \union Natives : StartPolicy(w) \/ PolicyStep(w) \/ FailPolicy(w)
          \/ \E r \in Releases : Publish(r)
       /\ UNCHANGED <<sourceVars, copiedVars, saverVars>>
    \/ \E w \in Savers :
          \/ StartSaver(w) \/ CopyReform(w) \/ SaverStep(w)
          \/ FailSaver(w) \/ LoseEventLock(w)

Spec == Init /\ [][Next]_vars

(***************************************************************************)
(* Properties.                                                             *)
(***************************************************************************)

\* A processed revision is in v2: its copy stands at that revision or a later
\* one, whatever failed between the two commits and whoever else copied.
ProcessedIsCopied ==
    \A s \in SavedIds, n \in Revisions :
        event[s][n] = "processed" => copy[s] # NoCopy /\ copy[s].last >= n

\* The association carries the label the saved policy had at the revision it
\* stands at, though revisions are applied twice, late, or by workers that lost
\* the event's lock - unless a label was set without an event.
NameIsOfItsRevision ==
    \A s \in SavedIds \ unrecorded :
        copy[s] # NoCopy =>
            /\ copy[s].name = snapshot[s][copy[s].last].label
            /\ copy[s].print = snapshot[s][copy[s].last].label

\* Copying leaves no policy, transition user or association behind that nothing
\* maps to, other than the policy of a copy that lost a race; and two saved
\* policies of one v1 user have one v2 user.
NothingLeftBehind ==
    /\ OrphansLostARace
    /\ users = {userMap[u] : u \in Users} \ {NoOne}
    /\ assocs = {copy[s].assoc : s \in {t \in SavedIds : copy[t] # NoCopy}}
    /\ \A s \in SavedIds : copy[s] # NoCopy => copy[s].user = userMap[saved[s].user]

\* The integrity checks of the copy (validators.py) never refuse a revision that
\* v1 committed: not a release change, a race or a lost lock makes them.
NoConflict == \A w \in Savers : pc[w] # "conflict"

\* A v1 policy keeps its copy. The copy of a saved policy never goes back to an
\* earlier revision, and its policy, user and association never change.
CopyAdvances ==
    /\ CopyIsFinal
    /\ [][\A s \in SavedIds : copy[s] # NoCopy =>
          /\ copy'[s].last \in {copy[s].last, copy[s].last + 1}
          /\ copy'[s] = [copy[s] EXCEPT !.last = copy'[s].last,
                            !.name = copy'[s].name, !.print = copy'[s].print]]_vars

Unanswered == {w \in Workers : pc[w] \notin SaverEnded}

Waits(w, o) == PolicyWaits(w, o) \/ (w \in Savers /\ o \in Savers /\ SaverWaits(w, o))

\* No cycle of waits among the event's lock, the mapping rows and the uncommitted
\* rows of the inserts, and no lock that outlives its request: of any requests
\* that have not answered one waits for none of the others, nor for one that has.
NoWaitCycle ==
    \A S \in (SUBSET Unanswered) \ {{}} :
        \E w \in S : \A o \in Workers : Waits(w, o) => o \in Unanswered \ S
=============================================================================
