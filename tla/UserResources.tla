---------------------------- MODULE UserResources ----------------------------
(***************************************************************************)
(* The saved policies, households, simulations and reports of a user: the  *)
(* /v2/user-* routes and policyengine_api/services/v2/user_policies,       *)
(* user_households, user_simulations and user_reports. Each operation      *)
(* resolves its owner from the credential (UserIdentity), checks what it   *)
(* names, and writes one association, in one transaction.                  *)
(***************************************************************************)
EXTENDS UserIdentity

(***************************************************************************)
(* Before the transaction.                                                 *)
(***************************************************************************)

\* authenticate_account_request: a bearer token takes precedence over the
\* browser's header. It may be invalid, a machine's, or not verifiable.
Refuses(r) == SignedIn(r)

\* require_legacy_reference: a write that names a v1 record checks it in a v1
\* transaction of its own, closed before the v2 transaction opens.
MissingReference(r) == req[r].verb \in {"create", "patch"}

OpenResource(r) ==
    /\ req[r].pc = "start" /\ req[r].kind # "account" /\ req[r].verb # "shared"
    /\ \/ Goto(r, "resolve") /\ UNCHANGED <<tables, auth0>>
       \/ (Refuses(r) \/ MissingReference(r)) /\ Abort(r)

(***************************************************************************)
(* Steps shared by the four resources.                                     *)
(***************************************************************************)

At(r, pc, verb, kind) == req[r].pc = pc /\ req[r].verb = verb /\ req[r].kind = kind

OwnerStands(r) == req[r].owner # NoUser /\ UsersOf(r)[req[r].owner] # "none"

\* read_owned_*: the row with this id whose user_id is the resolved owner.
IsOwned(r, a, kind) ==
    /\ req[r].owner # NoUser
    /\ assocs[a] # NoAssoc
    /\ assocs[a].owner = req[r].owner /\ assocs[a].kind = kind

ReadOwnedUserPolicy(r) == {a \in AssocIds : IsOwned(r, a, "policy")}
ReadOwnedUserHousehold(r) == {a \in AssocIds : IsOwned(r, a, "household")}
ReadOwnedUserSimulation(r) == {a \in AssocIds : IsOwned(r, a, "simulation")}
ReadOwnedUserReport(r) == {a \in AssocIds : IsOwned(r, a, "report")}

Checked(r, item, add, drop) ==
    /\ req' = [req EXCEPT ![r].item = item, ![r].add = add, ![r].drop = drop,
                          ![r].pc = "write"]
    /\ UNCHANGED <<tables, auth0>>

\* The insert and the commit. The links are foreign keys too.
Insert(r, kind) ==
    /\ OwnerIsFree(r)
    /\ \/ /\ OwnerStands(r) /\ \A p \in req[r].add : assocs[p] # NoAssoc
          /\ assocs' = [assocs EXCEPT ![r] = [kind |-> kind, owner |-> req[r].owner,
                                              links |-> req[r].add]]
          /\ Commit(r, "created")
       \/ /\ ~OwnerStands(r) \/ \E p \in req[r].add : assocs[p] = NoAssoc
          /\ Abort(r)

\* The update of a row that was read earlier in the transaction: a row that was
\* deleted since is StaleDataError.
Update(r) ==
    LET a == req[r].item IN
    /\ ItemIsFree(r)
    /\ \/ /\ assocs[a] # NoAssoc /\ \A p \in req[r].add : assocs[p] # NoAssoc
          /\ assocs' = [assocs EXCEPT ![a].links = (@ \ req[r].drop) \union req[r].add]
          /\ Commit(r, "ok")
       \/ /\ assocs[a] # NoAssoc /\ \E p \in req[r].add : assocs[p] = NoAssoc
          /\ Abort(r)
       \/ assocs[a] = NoAssoc /\ Abort(r)

\* session.delete of a row that was read earlier; deleting none is no error.
Delete(r) ==
    /\ ItemIsFree(r)
    /\ assocs' = Without(assocs, {req[r].item})
    /\ Commit(r, "ok")

\* get: another user's record and an absent one are both not found, and the
\* exception also rolls a first request's new user back. list commits it.
Get(r, kind, owned) ==
    /\ At(r, "work", "get", kind)
    /\ \/ owned # {} /\ Commit(r, "ok") /\ UNCHANGED assocs
       \/ Abort(r)

List(r, kind) ==
    /\ At(r, "work", "list", kind)
    /\ Commit(r, "ok") /\ UNCHANGED assocs

(***************************************************************************)
(* user_policies.                                                          *)
(***************************************************************************)

\* resolve_user_policy_reference: an explicit policy_id must exist in the
\* country and be the mirror's copy of legacy_policy_id when there is one.
PolicyReference == {"resolved", "missing", "conflict"}

CreateUserPolicy(r) ==
    \/ /\ At(r, "work", "create", "policy")
       /\ \E ref \in PolicyReference :
             IF ref = "resolved" THEN Checked(r, r, {}, {}) ELSE Abort(r)
    \/ At(r, "write", "create", "policy") /\ Insert(r, "policy")

GetUserPolicy(r) == Get(r, "policy", ReadOwnedUserPolicy(r))

ListUserPolicies(r) == List(r, "policy")

\* require_not_mirror_owned: rows of the v1 saved-policy mirror are refused.
PatchUserPolicy(r) ==
    \/ /\ At(r, "work", "patch", "policy")
       /\ \/ \E a \in ReadOwnedUserPolicy(r) \ Mirrored : Checked(r, a, {}, {})
          \/ ReadOwnedUserPolicy(r) \intersect Mirrored # {} /\ Abort(r)
          \/ Abort(r)
    \/ At(r, "write", "patch", "policy") /\ Update(r)

DeleteUserPolicy(r) ==
    \/ /\ At(r, "work", "delete", "policy")
       /\ \/ \E a \in ReadOwnedUserPolicy(r) \ Mirrored : Checked(r, a, {}, {})
          \/ ReadOwnedUserPolicy(r) \intersect Mirrored # {} /\ Abort(r)
          \/ Abort(r)
    \/ At(r, "write", "delete", "policy") /\ Delete(r)

(***************************************************************************)
(* user_households.                                                        *)
(***************************************************************************)

\* resolve_user_household_reference, likewise.
HouseholdReference == {"resolved", "missing", "conflict"}

CreateUserHousehold(r) ==
    \/ /\ At(r, "work", "create", "household")
       /\ \E ref \in HouseholdReference :
             IF ref = "resolved" THEN Checked(r, r, {}, {}) ELSE Abort(r)
    \/ At(r, "write", "create", "household") /\ Insert(r, "household")

GetUserHousehold(r) == Get(r, "household", ReadOwnedUserHousehold(r))

ListUserHouseholds(r) == List(r, "household")

PatchUserHousehold(r) ==
    \/ /\ At(r, "work", "patch", "household")
       /\ \/ \E a \in ReadOwnedUserHousehold(r) : Checked(r, a, {}, {})
          \/ Abort(r)
    \/ At(r, "write", "patch", "household") /\ Update(r)

DeleteUserHousehold(r) ==
    \/ /\ At(r, "work", "delete", "household")
       /\ \/ \E a \in ReadOwnedUserHousehold(r) : Checked(r, a, {}, {})
          \/ Abort(r)
    \/ At(r, "write", "delete", "household") /\ Delete(r)

(***************************************************************************)
(* user_simulations.                                                       *)
(***************************************************************************)

CreateUserSimulation(r) ==
    \/ At(r, "work", "create", "simulation") /\ Checked(r, r, {}, {})
    \/ At(r, "write", "create", "simulation") /\ Insert(r, "simulation")

GetUserSimulation(r) == Get(r, "simulation", ReadOwnedUserSimulation(r))

ListUserSimulations(r) == List(r, "simulation")

PatchUserSimulation(r) ==
    \/ /\ At(r, "work", "patch", "simulation")
       /\ \/ \E a \in ReadOwnedUserSimulation(r) : Checked(r, a, {}, {})
          \/ Abort(r)
    \/ At(r, "write", "patch", "simulation") /\ Update(r)

DeleteUserSimulation(r) ==
    \/ /\ At(r, "work", "delete", "simulation")
       /\ \/ \E a \in ReadOwnedUserSimulation(r) : Checked(r, a, {}, {})
          \/ Abort(r)
    \/ At(r, "write", "delete", "simulation") /\ Delete(r)

(***************************************************************************)
(* user_reports.                                                           *)
(***************************************************************************)

\* Mutant: any saved policy may be linked.
Linkable_Anyones(r) == {p \in AssocIds : assocs[p] # NoAssoc /\ assocs[p].kind = "policy"}

\* validate_linked_user_policy: a link names a saved policy of the owner.
Linkable(r) == ReadOwnedUserPolicy(r)

CreateUserReport(r) ==
    \/ /\ At(r, "work", "create", "report")
       /\ \/ \E links \in SUBSET Linkable(r) : Checked(r, r, links, {})
          \/ Abort(r)
    \/ At(r, "write", "create", "report") /\ Insert(r, "report")

GetUserReport(r) == Get(r, "report", ReadOwnedUserReport(r))

ListUserReports(r) == List(r, "report")

\* Only the columns whose value changes are written.
PatchUserReport(r) ==
    \/ /\ At(r, "work", "patch", "report")
       /\ \/ \E a \in ReadOwnedUserReport(r), links \in SUBSET Linkable(r) :
                Checked(r, a, links \ assocs[a].links, assocs[a].links \ links)
          \/ Abort(r)
    \/ At(r, "write", "patch", "report") /\ Update(r)

DeleteUserReport(r) ==
    \/ /\ At(r, "work", "delete", "report")
       /\ \/ \E a \in ReadOwnedUserReport(r) : Checked(r, a, {}, {})
          \/ Abort(r)
    \/ At(r, "write", "delete", "report") /\ Delete(r)

\* get_shared_user_report: anyone who holds the report's id, without a user.
GetSharedUserReport(r) ==
    /\ At(r, "start", "shared", "report")
    /\ Answer(r, IF \E a \in AssocIds : assocs[a] \in UserReportRow THEN "ok" ELSE "refused")
    /\ UNCHANGED <<tables, auth0>>

UserPolicies(r) == CreateUserPolicy(r) \/ GetUserPolicy(r) \/ ListUserPolicies(r)
                   \/ PatchUserPolicy(r) \/ DeleteUserPolicy(r)
UserHouseholds(r) == CreateUserHousehold(r) \/ GetUserHousehold(r) \/ ListUserHouseholds(r)
                     \/ PatchUserHousehold(r) \/ DeleteUserHousehold(r)
UserSimulations(r) == CreateUserSimulation(r) \/ GetUserSimulation(r) \/ ListUserSimulations(r)
                      \/ PatchUserSimulation(r) \/ DeleteUserSimulation(r)
UserReports(r) == CreateUserReport(r) \/ GetUserReport(r) \/ ListUserReports(r)
                  \/ PatchUserReport(r) \/ DeleteUserReport(r) \/ GetSharedUserReport(r)
=============================================================================
