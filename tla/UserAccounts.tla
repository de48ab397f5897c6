---------------------------- MODULE UserAccounts ----------------------------
(***************************************************************************)
(* The account resource /v2/me (policyengine_api/services/v2/user_accounts *)
(* and libs/auth0_management.py) over UserIdentity and UserResources, and  *)
(* the requests of signed-out browsers and signed-in users interleaved.    *)
(***************************************************************************)
EXTENDS UserResources

CONSTANT Managed   \* whether the Auth0 Management API is configured

(***************************************************************************)
(* Operations.                                                             *)
(***************************************************************************)

\* The /v2/me handlers before their transactions: only a signed-in principal
\* edits its account, and an upgrade needs the token as well as the header.
OpenAccount(r) ==
    /\ req[r].pc = "start" /\ req[r].kind = "account"
    /\ \/ /\ req[r].verb \in {"patch", "upgrade"} => SignedIn(r)
          /\ Goto(r, CASE req[r].verb = "upgrade" -> "upgrade"
                       [] req[r].verb = "close" /\ SignedIn(r) -> "prepare"
                       [] OTHER -> "resolve")
          /\ UNCHANGED <<tables, auth0>>
       \/ Refuses(r) /\ Abort(r)
       \/ req[r].verb \in {"patch", "upgrade"} /\ ~SignedIn(r) /\ Abort(r)

\* get_account: a browser that saved nothing, and a user deleted since it was
\* resolved, are not found.
GetAccount(r) ==
    /\ At(r, "work", "get", "account")
    /\ \/ OwnerStands(r) /\ Commit(r, "ok") /\ UNCHANGED assocs
       \/ ~OwnerStands(r) /\ Abort(r)

\* update_account: the names and the country it writes are not tracked. Its UPDATE waits
\* for other locks on the user's row than that of a foreign key.
UpdateAccount(r) ==
    /\ At(r, "work", "patch", "account")
    /\ ~\E q \in Requests \ {r} : HoldsShare(q, req[r].owner) \/ HoldsAlone(q, req[r].owner)
    /\ \/ OwnerStands(r) /\ Commit(r, "ok") /\ UNCHANGED assocs
       \/ ~OwnerStands(r) /\ Abort(r)

\* export_account: without a user the export is empty.
ExportAccount(r) ==
    /\ At(r, "work", "export", "account")
    /\ \/ /\ req[r].owner # NoUser => OwnerStands(r)
          /\ Commit(r, "ok") /\ UNCHANGED assocs
       \/ /\ req[r].owner # NoUser /\ ~OwnerStands(r)
          /\ Abort(r)

\* Mutant: the statement matches the id only.
CloseUnauthenticated_AnyType(r) ==
    LET b == req[r].owner IN
    /\ At(r, "work", "close", "account") /\ ~SignedIn(r)
    /\ \/ b = NoUser /\ Abort(r)
       \/ /\ b # NoUser /\ ~Locked(r, b)
          /\ users' = [users EXCEPT ![b] = "none"]
          /\ identities' = [s \in Subjects |-> IF identities[s] = b THEN NoUser ELSE identities[s]]
          /\ assocs' = Without(assocs, Owned(b))
          /\ Answer(r, "ok")
          /\ UNCHANGED auth0

\* _delete_unauthenticated_account: the statement matches only a row that is
\* unauthenticated, after waiting for the transactions that hold it.
CloseUnauthenticated(r) ==
    LET b == req[r].owner IN
    /\ At(r, "work", "close", "account") /\ ~SignedIn(r)
    /\ \/ b = NoUser /\ Abort(r)
       \/ /\ b # NoUser /\ ~Locked(r, b)
          /\ IF users[b] = "unauthenticated"
             THEN /\ users' = [users EXCEPT ![b] = "none"]
                  /\ assocs' = Without(assocs, Owned(b))
             ELSE UNCHANGED <<users, assocs>>
          /\ Answer(r, "ok")
          /\ UNCHANGED <<identities, auth0>>

\* _prepared_auth0_user_deleter: when the Management API is configured, without its
\* token nothing is deleted.
PrepareDeletion(r) ==
    /\ req[r].pc = "prepare"
    /\ \/ Goto(r, "close") /\ UNCHANGED <<tables, auth0>>
       \/ Managed /\ Abort(r)

\* The commit; what is left to delete is Auth0's user, when it is managed here.
Closed(r) ==
    IF Managed THEN req' = [req EXCEPT ![r].owner = NoUser, ![r].pc = "auth0"] ELSE Answer(r, "ok")

FindForClose(r) ==
    /\ req[r].pc = "close"
    /\ req' = [req EXCEPT ![r].owner = identities[req[r].subject], ![r].pc = "work"]
    /\ UNCHANGED <<tables, auth0>>

\* delete_account_legacy_user_mappings and delete_account_user: the DELETE takes the
\* user's row before the rows that go with it. Without a user only Auth0's is deleted.
CloseStandard(r) ==
    LET u == req[r].owner IN
    /\ At(r, "work", "close", "account") /\ SignedIn(r)
    /\ ~Locked(r, u)
    /\ IF u # NoUser /\ users[u] # "none" THEN Goto(r, "cascade") ELSE Closed(r)
    /\ UNCHANGED <<tables, auth0>>

\* The cascade, which waits for the identities' rows, and the commit: the identities and
\* the associations go with the user.
Cascade(r) ==
    LET u == req[r].owner
        subjects == {s \in Subjects : identities[s] = u}
    IN  /\ req[r].pc = "cascade"
        /\ ~\E q \in Requests \ {r}, s \in subjects : HoldsActivity(q, s)
        /\ users' = [users EXCEPT ![u] = "none"]
        /\ identities' = [s \in Subjects |-> IF s \in subjects THEN NoUser ELSE identities[s]]
        /\ assocs' = Without(assocs, Owned(u))
        /\ Closed(r)
        /\ UNCHANGED auth0

\* delete_user of Auth0ManagementClient, after the commit: an absent Auth0 user
\* counts as deleted, a failure is answered 502 and may be retried.
DeleteAuth0User(r) ==
    /\ req[r].pc = "auth0"
    /\ \/ auth0' = auth0 \ {req[r].subject} /\ Answer(r, "ok") /\ UNCHANGED tables
       \/ Abort(r)

Account(r) == OpenAccount(r) \/ GetAccount(r) \/ UpdateAccount(r) \/ ExportAccount(r)
              \/ CloseUnauthenticated(r) \/ PrepareDeletion(r) \/ FindForClose(r)
              \/ CloseStandard(r) \/ Cascade(r) \/ DeleteAuth0User(r)

\* A lost connection, a stopped instance or a deadlock that PostgreSQL ends: the open
\* transaction rolls back.
RequestFails(r) == req[r].pc \notin {"start", "done"} /\ Abort(r)

(***************************************************************************)
(* Specification.                                                          *)
(***************************************************************************)

\* Every standard user has exactly one sign-in identity and an unauthenticated
\* one has none, whoever wins the races of first requests, conversions and
\* merges: the loser's user is rolled back with its savepoint.
AccountsMatchIdentities ==
    /\ \A s \in Subjects : identities[s] # NoUser => users[identities[s]] = "standard"
    /\ \A u \in UserIds :
          Cardinality({s \in Subjects : identities[s] = u}) = IF users[u] = "standard" THEN 1 ELSE 0

\* owner is the user the request acts as; made, whether its transaction inserted
\* that user; seen, whether it updated its identity's row; lock, what it holds on the
\* browser's row; again, whether this is its
\* second provisioning attempt; item, add, drop, the association it checked and
\* the links it changes; moved, the associations a merge reassigned.
NewRequest(c) ==
    [verb |-> c.verb, kind |-> c.kind, browser |-> c.browser, subject |-> c.subject,
     pc |-> "start", owner |-> NoUser, made |-> FALSE, seen |-> FALSE, lock |-> "none", again |-> FALSE,
     item |-> NoAssoc, add |-> {}, drop |-> {}, moved |-> {}, inflight |-> {},
     reuses |-> FALSE, outcome |-> "pending"]

\* At the start a browser may have saved work or have been converted into the
\* account of a subject; a report's links are policies of its owner.
Init ==
    /\ users \in {f \in UserTable : \A r \in Requests : f[r] = "none"}
    /\ identities \in [Subjects -> {a \in UserIds : users[a] = "standard"} \union {NoUser}]
    /\ AccountsMatchIdentities
    /\ \E owner \in [Stored -> UserIds \union {NoUser}] :
          /\ \A a \in Stored : owner[a] # NoUser => users[owner[a]] # "none"
          /\ \A a \in Mirrored : owner[a] # NoUser => users[owner[a]] = "standard"
          /\ assocs = [a \in AssocIds |->
                          IF a \notin Stored \/ owner[a] = NoUser THEN NoAssoc
                          ELSE [kind |-> StoredKind[a], owner |-> owner[a],
                                links |-> IF StoredKind[a] # "report" THEN {}
                                          ELSE {p \in Stored : owner[p] = owner[a]
                                                               /\ StoredKind[p] = "policy"}]]
    /\ auth0 = Subjects
    /\ \E call \in Calls : req = [r \in Requests |-> NewRequest(call[r])]

Step(r) == OpenResource(r) \/ Resolve(r) \/ Convert(r)
           \/ UserPolicies(r) \/ UserHouseholds(r) \/ UserSimulations(r) \/ UserReports(r)
           \/ Account(r)

Next == \E r \in Requests : Step(r) \/ RequestFails(r)

Spec == Init /\ [][Next]_vars

(***************************************************************************)
(* Properties.                                                             *)
(***************************************************************************)

Verbs == {"create", "get", "list", "patch", "delete", "shared", "export", "close", "upgrade"}
PCs == {"start", "resolve", "refresh", "provision", "reread", "share", "upgrade", "find", "identity",
        "work", "write", "remove", "prepare", "close", "cascade", "auth0", "done"}
Locks == {"none", "share", "update"}
Outcomes == {"pending", "none", "ok", "created", "merged", "converted", "refused"}

Request ==
    [verb: Verbs, kind: Kinds \union {"account"}, browser: Browsers, subject: Subjects \union {NoSubject},
     pc: PCs, owner: UserIds \union {NoUser}, made: BOOLEAN, seen: BOOLEAN, lock: Locks, again: BOOLEAN,
     item: AssocIds \union {NoAssoc}, add: SUBSET AssocIds, drop: SUBSET AssocIds,
     moved: SUBSET AssocIds, inflight: SUBSET Requests, reuses: BOOLEAN, outcome: Outcomes]

\* The tables and the requests hold values of their kinds.
TypeOK ==
    /\ users \in UserTable /\ identities \in IdentityTable
    /\ assocs \in [AssocIds -> Association \union {NoAssoc}]
    /\ auth0 \subseteq Subjects
    /\ req \in [Requests -> Request]

\* The user that the credential of r stands for. An upgrade presents both.
IsCredentialOf(r, u) ==
    \/ SignedIn(r) /\ identities[req[r].subject] = u /\ users[u] = "standard"
    \/ /\ req[r].browser = u /\ users[u] = "unauthenticated"
       /\ SignedIn(r) => req[r].verb = "upgrade"

Steps(r) == req'[r].pc # req[r].pc

\* No browser took the id of an account that was closed while a request was
\* open that acts as it; that request would then act as the browser's new user.
NoIdIsReused == \A r \in Requests : ~req[r].reuses

\* Saved work is changed only by a request whose credential stands for its
\* owner at that moment, and goes only when that request deletes this record or
\* closes the account: the type filter of delete_unauthenticated_user, the share
\* lock of a browser's write and the order of a merge's statements. A browser's
\* credential never creates, changes or deletes the work of a standard user.
WorkIsKept ==
    [][NoIdIsReused => \A a \in AssocIds : assocs'[a] # assocs[a] =>
          \E r \in Requests :
             /\ Steps(r)
             /\ \/ /\ assocs[a] = NoAssoc /\ a = r
                   /\ ~SignedIn(r) => users'[req[r].browser] = "unauthenticated"
                \/ /\ assocs[a] # NoAssoc /\ IsCredentialOf(r, assocs[a].owner)
                   /\ assocs'[a] = NoAssoc =>
                         \/ req[r].verb = "delete" /\ req[r].item = a
                         \/ req[r].verb = "close"]_vars

\* A report's user_policy_id and baseline_user_policy_id name saved policies of
\* the report's own owner, although they are checked before the report is
\* written and its owner may be merged, and the policies deleted, meanwhile.
LinksWithinOwner ==
    NoIdIsReused => \A a \in AssocIds : assocs[a] # NoAssoc =>
        /\ users[assocs[a].owner] # "none"
        /\ \A p \in assocs[a].links :
              /\ assocs[p] # NoAssoc /\ assocs[p].kind = "policy"
              /\ assocs[p].owner = assocs[a].owner

\* An upgrade that answers converted or merged leaves the browser no user, and
\* every record the browser had saved belongs to the account of the subject.
UpgradeMovesWork ==
    [][NoIdIsReused => \A r \in Requests :
          (Steps(r) /\ req[r].verb = "upgrade" /\ req'[r].outcome \in {"converted", "merged"}
           /\ req'[r].pc = "done") =>
             /\ users'[req[r].browser] # "unauthenticated"
             /\ \A a \in Owned(req[r].browser) :
                   assocs'[a] # NoAssoc /\ assocs'[a].owner = identities'[req[r].subject]]_vars

\* What r's next statement waits for, if q's transaction holds it: the unique key
\* of an insert that is not committed, the lock on a user's or an identity's row, or the
\* lock on a row that is moved.
Waits(r, q) ==
    LET s == req[r].subject
        b == req[r].browser
        u == req[r].owner
        at(pc, verbs) == req[r].pc = pc /\ req[r].verb \in verbs
    IN
    /\ q # r
    /\ \/ req[r].pc \in {"provision", "identity"} /\ HoldsIdentity(q, s)
       \/ req[r].pc = "refresh" /\ HoldsActivity(q, s)
       \/ at("resolve", {"create", "patch", "delete"}) /\ ~SignedIn(r) /\ (HoldsInsert(q, b) \/ HoldsDelete(q, b))
       \/ req[r].pc = "share" /\ HoldsAlone(q, b)
       \/ req[r].pc = "upgrade" /\ users[b] = "unauthenticated" /\ LockedBy(q, b)
       \/ at("work", {"upgrade"}) /\ req[r].outcome = "merged" /\ RowsToMove(r) # {} /\ HoldsAlone(q, u)
       \/ at("work", {"patch"}) /\ req[r].kind = "account" /\ (HoldsShare(q, u) \/ HoldsAlone(q, u))
       \/ at("work", {"close"}) /\ LockedBy(q, u)
       \/ req[r].pc = "cascade" /\ \E o \in Subjects : identities[o] = u /\ HoldsActivity(q, o)
       \/ at("write", {"create"}) /\ HoldsAlone(q, u)
       \/ at("write", {"patch", "delete"}) /\ HoldsRow(q, req[r].item)

\* c deletes an account: it has taken the user's row and waits for the identity's, which
\* r's transaction has refreshed; and r waits for the user's row.
MeetsDeletion(c, r) == req[c].pc = "cascade" /\ Waits(c, r) /\ Waits(r, c)

\* Requests never wait for each other in a circle, nor for a lock that outlives
\* its request: writes wait for conversions, conversions for writes, identities
\* and one another, deletions for all of them, but of any open requests one waits
\* for none of the others, nor for one that has answered. The one exception is a
\* deletion that meets a refreshed request of the same account.
NoWaitCycle ==
    \A S \in (SUBSET {r \in Requests : Open(r)}) \ {{}} :
        \/ \E r \in S : \A q \in Requests : Waits(r, q) => Open(q) /\ q \notin S
        \/ \E c, r \in S : MeetsDeletion(c, r)

\* A write of the browser that is in progress when an upgrade takes its lock is
\* waited for, so that its record moves too.
UpgradeWaitsForWrites ==
    \A r \in Requests : req[r].outcome \in {"converted", "merged", "none"} /\ ~Open(r) =>
        \A q \in req[r].inflight : ~Open(q)
=============================================================================
