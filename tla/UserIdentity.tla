---------------------------- MODULE UserIdentity ----------------------------
(***************************************************************************)
(* Finding, provisioning and converting the v2 user a request acts as      *)
(* (policyengine_api/services/v2/identity), inside the READ COMMITTED      *)
(* transaction of the request.                                             *)
(*                                                                         *)
(* A standard user is reached through a verified sign-in subject and the   *)
(* unique user_identities row; an unauthenticated user is the UUID a       *)
(* signed-out browser sends. The variables users, identities and assocs    *)
(* are the committed tables. What an open transaction wrote or locked is   *)
(* kept in its request's record and is applied by Commit; the last write   *)
(* of a transaction and its commit are one step.                           *)
(***************************************************************************)
EXTENDS FiniteSets

CONSTANTS
    Requests,     \* requests in flight; a row's id is the request inserting it
    Browsers,     \* browser UUIDs, which are the ids of unauthenticated users
    Subjects,     \* verified (issuer, subject) pairs
    Stored,       \* associations that may exist at the start,
    StoredKind,   \* and the kind of each
    Mirrored,     \* those of them the v1 saved-policy mirror maintains
    Calls,        \* what the requests ask for: functions to [verb, kind, browser, subject]
    NoUser, NoSubject, NoAssoc

UserIds == Browsers \union Requests
AssocIds == Stored \union Requests

Kinds == {"policy", "household", "simulation", "report"}

\* What the routes accept: with which verb, of what, under which credentials.
UserCall ==
    LET Route(verbs, kinds) == [verb: verbs, kind: kinds, browser: Browsers,
                                subject: Subjects \union {NoSubject}]
    IN  Route({"create", "get", "list", "patch", "delete"}, Kinds) \union Route({"shared"}, {"report"})
        \union Route({"get", "patch", "export", "close", "upgrade"}, {"account"})

VARIABLES
    users,        \* user_type of every committed row of users, or "none"
    identities,   \* the user of every committed user_identities row
    assocs,       \* the committed rows of the four association tables
    auth0,        \* the subjects that have an Auth0 user
    req           \* the requests and their open transactions

tables == <<users, identities, assocs>>
vars == <<tables, auth0, req>>

\* users, with its user_type, and user_identities, unique by subject.
UserType == {"unauthenticated", "standard"}
UserTable == [UserIds -> UserType \union {"none"}]
IdentityTable == [Subjects -> UserIds \union {NoUser}]

\* The association tables. links are the saved policies that a report names in
\* user_policy_id and baseline_user_policy_id. Names, descriptions and the
\* references to v1 and v2 artifacts are not tracked.
UserPolicyRow == [kind: {"policy"}, owner: UserIds, links: {{}}]
UserHouseholdRow == [kind: {"household"}, owner: UserIds, links: {{}}]
UserSimulationRow == [kind: {"simulation"}, owner: UserIds, links: {{}}]
UserReportRow == [kind: {"report"}, owner: UserIds, links: SUBSET AssocIds]
Association == UserPolicyRow \union UserHouseholdRow \union UserSimulationRow \union UserReportRow

ASSUME IdentityAssumption ==
    /\ Requests \intersect Browsers = {} /\ Requests \intersect Stored = {}
    /\ IsFiniteSet(Subjects) /\ NoSubject \notin Subjects
    /\ NoUser \notin UserIds /\ NoAssoc \notin Association \union AssocIds
    /\ StoredKind \in [Stored -> Kinds] /\ Mirrored \subseteq Stored
    /\ Calls \subseteq [Requests -> UserCall]

Owned(u) == {a \in AssocIds : assocs[a] # NoAssoc /\ assocs[a].owner = u}

(***************************************************************************)
(* Open transactions.                                                      *)
(***************************************************************************)

Open(q) == req[q].pc # "done"

\* A principal is a sign-in subject, or the browser when there is no token.
SignedIn(r) == req[r].subject # NoSubject

\* The row of subject s that update_user_identity_activity updated.
HoldsActivity(q, s) == req[q].seen /\ req[q].subject = s

\* Mutant: an upgrade reserves its subject while it holds the browser's row.
HoldsIdentity_Reserved(q, s) ==
    (req[q].made \/ req[q].seen \/ req[q].lock = "update") /\ req[q].subject = s

\* What an insert of the identity of subject s waits for: an uncommitted insert of it,
\* with that of its user, or an uncommitted update.
HoldsIdentity(q, s) == (req[q].made \/ req[q].seen) /\ req[q].subject = s

\* The uncommitted insert of an unauthenticated user.
HoldsInsert(q, b) == req[q].made /\ ~SignedIn(q) /\ req[q].browser = b

\* read_user(for_share=True) and read_unauthenticated_user_for_update.
HoldsShare(q, u) == req[q].lock = "share" /\ req[q].browser = u
HoldsUpdate(q, u) == req[q].lock = "update" /\ req[q].browser = u

\* The foreign key of the rows a merge moved: FOR KEY SHARE on their new owner.
HoldsOwnerKey(q, u) == req[q].pc = "remove" /\ req[q].moved # {} /\ req[q].owner = u

\* A DELETE of u's row that has not cascaded yet.
HoldsDelete(q, u) == req[q].pc = "cascade" /\ req[q].owner = u

\* What a SELECT FOR SHARE or a foreign key's check of u's row waits for.
HoldsAlone(q, u) == HoldsUpdate(q, u) \/ HoldsDelete(q, u)

\* What a DELETE or a SELECT FOR UPDATE of u's row waits for.
LockedBy(q, u) == HoldsShare(q, u) \/ HoldsAlone(q, u) \/ HoldsOwnerKey(q, u)
Locked(r, u) == \E q \in Requests \ {r} : LockedBy(q, u)

\* A row's foreign key to users: the check takes FOR KEY SHARE on the owner, so it
\* waits for a conversion and for a deletion, and fails when the owner is gone.
OwnerIsFree(r) == ~\E q \in Requests \ {r} : HoldsAlone(q, req[r].owner)

\* A row that a merge moved is locked until the merge commits.
HoldsRow(q, a) == a \in req[q].moved
ItemIsFree(r) == ~\E q \in Requests \ {r} : HoldsRow(q, req[r].item)

\* Signed-in requests acting as u. When u's account is closed meanwhile and its
\* browser starts over under the same UUID, they act as that browser's new user.
ActsAs(u) == {q \in Requests : SignedIn(q) /\ req[q].owner = u}

Goto(r, pc) == req' = [req EXCEPT ![r].pc = pc]

\* The transaction ends: its locks go and its answer is known.
Answer(r, outcome) ==
    req' = [req EXCEPT ![r] =
              [@ EXCEPT !.pc = "done", !.outcome = outcome, !.owner = NoUser, !.made = FALSE, !.seen = FALSE,
                        !.lock = "none", !.again = FALSE, !.item = NoAssoc, !.add = {},
                        !.drop = {}, !.moved = {}]]

\* An exception inside the session's begin(): everything is rolled back, and the
\* answer is the 4xx or 5xx of user_resource_operation.
Abort(r) == Answer(r, "refused") /\ UNCHANGED <<tables, auth0>>

\* The tables with the user and the identity that r's transaction inserted.
UsersOf(r) ==
    IF req[r].made
    THEN [users EXCEPT ![req[r].owner] = IF SignedIn(r) THEN "standard" ELSE "unauthenticated"]
    ELSE users
IdentitiesOf(r) ==
    IF req[r].made /\ SignedIn(r)
    THEN [identities EXCEPT ![req[r].subject] = req[r].owner]
    ELSE identities

Commit(r, outcome) ==
    /\ Answer(r, outcome)
    /\ users' = UsersOf(r) /\ identities' = IdentitiesOf(r)
    /\ UNCHANGED auth0

\* ON DELETE CASCADE of the owner and ON DELETE SET NULL of report links.
Without(rows, gone) ==
    [a \in AssocIds |->
        IF a \in gone THEN NoAssoc
        ELSE IF rows[a] = NoAssoc THEN NoAssoc
        ELSE [rows[a] EXCEPT !.links = @ \ gone]]

(***************************************************************************)
(* StandardAccountProvisioning.                                            *)
(***************************************************************************)

Resolved(r, u) == req' = [req EXCEPT ![r].owner = u, ![r].pc = "work"]

\* read_user_identity. The activity of the identity is due for a refresh every hour
\* and when the email changes.
ReadIdentity(r) ==
    LET u == identities[req[r].subject] IN
    /\ req[r].pc = "resolve" /\ SignedIn(r)
    /\ \/ u # NoUser /\ Resolved(r, u)
       \/ u # NoUser /\ req' = [req EXCEPT ![r].owner = u, ![r].pc = "refresh"]
       \/ u = NoUser /\ Goto(r, "provision")
    /\ UNCHANGED <<tables, auth0>>

\* update_user_identity_activity, whose row stays locked until the transaction ends:
\* it waits for another one's update, and a row that was deleted since it was read is
\* StaleDataError.
RefreshActivity(r) ==
    LET s == req[r].subject IN
    /\ req[r].pc = "refresh"
    /\ ~\E q \in Requests \ {r} : HoldsActivity(q, s)
    /\ \/ /\ identities[s] = req[r].owner
          /\ req' = [req EXCEPT ![r].seen = TRUE, ![r].pc = "work"]
          /\ UNCHANGED <<tables, auth0>>
       \/ identities[s] # req[r].owner /\ Abort(r)

\* Mutant: an identity that exists by now is replaced.
ProvisionUser_Replaces(r) ==
    /\ req[r].pc = "provision" /\ SignedIn(r)
    /\ ~\E q \in Requests \ {r} : HoldsIdentity(q, req[r].subject)
    /\ req' = [req EXCEPT ![r].owner = r, ![r].made = TRUE, ![r].pc = "work"]
    /\ UNCHANGED <<tables, auth0>>

\* The savepoint with create_provisioned_user and create_user_identity: the
\* insert of the identity waits for a write of it that is not committed. The loser rolls
\* its user back and reads again.
ProvisionUser(r) ==
    LET s == req[r].subject IN
    /\ req[r].pc = "provision" /\ SignedIn(r)
    /\ ~\E q \in Requests \ {r} : HoldsIdentity(q, s)
    /\ IF identities[s] = NoUser
       THEN req' = [req EXCEPT ![r].owner = r, ![r].made = TRUE, ![r].pc = "work"]
       ELSE Goto(r, "reread")
    /\ UNCHANGED <<tables, auth0>>

\* require_concurrent_identity: the winner's account may be deleted by now.
RereadIdentity(r) ==
    /\ req[r].pc = "reread"
    /\ \/ /\ identities[req[r].subject] # NoUser
          /\ Resolved(r, identities[req[r].subject])
          /\ UNCHANGED <<tables, auth0>>
       \/ /\ identities[req[r].subject] = NoUser
          /\ Abort(r)

(***************************************************************************)
(* UnauthenticatedAccountProvisioning.                                     *)
(***************************************************************************)

\* create_unauthenticated_user waits for an insert or a deletion of the same id that is
\* not committed, and inserts unless the row exists. reuses, for observation: the id
\* was that of an account some request still acts as.
InsertUnauthenticated(r) ==
    LET b == req[r].browser IN
    /\ req[r].pc = "resolve" /\ ~SignedIn(r) /\ req[r].verb \in {"create", "patch", "delete"}
    /\ ~\E q \in Requests \ {r} : HoldsInsert(q, b) \/ HoldsDelete(q, b)
    /\ req' = [req EXCEPT ![r].made = users[b] = "none", ![r].owner = b, ![r].pc = "share",
                          ![r].reuses = @ \/ (users[b] = "none" /\ ActsAs(b) # {})]
    /\ UNCHANGED <<tables, auth0>>

\* read_user(for_share=True) waits for a conversion or a deletion and then sees its result; a
\* standard user is refused, and a user deleted since the insert is inserted
\* once more.
ShareUnauthenticated(r) ==
    LET b == req[r].browser IN
    /\ req[r].pc = "share"
    /\ ~\E q \in Requests \ {r} : HoldsAlone(q, b)
    /\ \/ /\ req[r].made \/ users[b] = "unauthenticated"
          /\ req' = [req EXCEPT ![r].lock = "share", ![r].pc = "work"]
          /\ UNCHANGED <<tables, auth0>>
       \/ /\ ~req[r].made /\ users[b] = "none" /\ ~req[r].again
          /\ req' = [req EXCEPT ![r].again = TRUE, ![r].pc = "resolve"]
          /\ UNCHANGED <<tables, auth0>>
       \/ ~req[r].made /\ users[b] = "none" /\ req[r].again /\ Abort(r)
       \/ ~req[r].made /\ users[b] = "standard" /\ Abort(r)

\* find_in_session: reads neither provision nor lock, so the row may change
\* before the records are read. NoUser owns nothing.
FindUnauthenticated(r) ==
    LET b == req[r].browser IN
    /\ req[r].pc = "resolve" /\ ~SignedIn(r) /\ req[r].verb \in {"get", "list", "export", "close"}
    /\ \/ /\ users[b] # "standard"
          /\ Resolved(r, IF users[b] = "none" THEN NoUser ELSE b)
          /\ UNCHANGED <<tables, auth0>>
       \/ users[b] = "standard" /\ Abort(r)

Resolve(r) == ReadIdentity(r) \/ RefreshActivity(r) \/ ProvisionUser(r) \/ RereadIdentity(r)
              \/ InsertUnauthenticated(r) \/ ShareUnauthenticated(r) \/ FindUnauthenticated(r)

(***************************************************************************)
(* convert_unauthenticated_user_in_session, the transaction of an upgrade. *)
(***************************************************************************)

\* read_unauthenticated_user_for_update: a row of a writer that is not
\* committed is not seen, and so not waited for. inflight, for observation, are
\* the browser's writes that are past their provisioning.
LockForUpgrade(r) ==
    LET b == req[r].browser
        here == users[b] = "unauthenticated"
        writes == {q \in Requests \ {r} : HoldsInsert(q, b) \/ HoldsShare(q, b)}
    IN
    /\ req[r].pc = "upgrade"
    /\ here => ~Locked(r, b)
    /\ req' = [req EXCEPT ![r].pc = IF here THEN "find" ELSE "resolve",
                          ![r].lock = IF here THEN "update" ELSE "none",
                          ![r].outcome = IF here THEN "merged" ELSE "none",
                          ![r].inflight = writes]
    /\ UNCHANGED <<tables, auth0>>

FindForUpgrade(r) ==
    /\ req[r].pc = "find"
    /\ Goto(r, IF identities[req[r].subject] = NoUser THEN "identity" ELSE "resolve")
    /\ UNCHANGED <<tables, auth0>>

\* create_user_identity, and update_user_to_standard when it inserts: the user
\* keeps its id and so its associations. When another request won the identity,
\* the upgrade merges into its user.
ConvertInPlace(r) ==
    LET s == req[r].subject b == req[r].browser IN
    /\ req[r].pc = "identity"
    /\ ~\E q \in Requests \ {r} : HoldsIdentity(q, s)
    /\ \/ /\ identities[s] = NoUser
          /\ users' = [users EXCEPT ![b] = "standard"]
          /\ identities' = [identities EXCEPT ![s] = b]
          /\ Answer(r, "converted")
          /\ UNCHANGED <<assocs, auth0>>
       \/ /\ identities[s] # NoUser
          /\ Goto(r, "resolve")
          /\ UNCHANGED <<tables, auth0>>

\* Mutant: the reports stay with the browser's user.
ReassignedKinds_NoReports == {"policy", "household", "simulation"}

\* The tables reassign_user_associations updates, one statement each. The
\* owner's foreign key is checked for the rows that move.
ReassignedKinds == {"policy", "household", "simulation", "report"}

RowsToMove(r) == {a \in Owned(req[r].browser) : assocs[a].kind \in ReassignedKinds}

Reassign(r) ==
    LET rows == RowsToMove(r) IN
    /\ req[r].pc = "work" /\ req[r].verb = "upgrade" /\ req[r].outcome = "merged"
    /\ rows # {} => OwnerIsFree(r)
    /\ \/ /\ rows = {} \/ UsersOf(r)[req[r].owner] # "none"
          /\ req' = [req EXCEPT ![r].moved = rows, ![r].pc = "remove"]
          /\ UNCHANGED <<tables, auth0>>
       \/ /\ rows # {} /\ UsersOf(r)[req[r].owner] = "none"
          /\ Abort(r)

\* delete_unauthenticated_user, then require_account of the owner.
DeleteMerged(r) ==
    LET b == req[r].browser
        moved == [a \in AssocIds |-> IF a \in req[r].moved
                                     THEN [assocs[a] EXCEPT !.owner = req[r].owner]
                                     ELSE assocs[a]]
    IN
    /\ req[r].pc = "remove"
    /\ \/ /\ UsersOf(r)[req[r].owner] # "none"
          /\ users' = [UsersOf(r) EXCEPT ![b] = "none"]
          /\ identities' = IdentitiesOf(r)
          /\ assocs' = Without(moved, Owned(b) \ req[r].moved)
          /\ Answer(r, "merged")
          /\ UNCHANGED auth0
       \/ UsersOf(r)[req[r].owner] = "none" /\ Abort(r)

\* No unauthenticated user: the identity's user is resolved as on any request.
UpgradeNothing(r) ==
    /\ req[r].pc = "work" /\ req[r].verb = "upgrade" /\ req[r].outcome = "none"
    /\ \/ UsersOf(r)[req[r].owner] # "none" /\ Commit(r, "none") /\ UNCHANGED assocs
       \/ UsersOf(r)[req[r].owner] = "none" /\ Abort(r)

Convert(r) == LockForUpgrade(r) \/ FindForUpgrade(r) \/ ConvertInPlace(r)
              \/ Reassign(r) \/ DeleteMerged(r) \/ UpgradeNothing(r)
=============================================================================
