-------------------------- MODULE UserAccountsProofs --------------------------
(***************************************************************************)
(* Proofs, for any sets of requests, browsers, sign-in subjects and saved  *)
(* records and whatever the requests ask for, of the safety properties of  *)
(* UserAccounts.                                                           *)
(***************************************************************************)
EXTENDS UserAccounts, FiniteSetTheorems, TLAPS

(***************************************************************************)
(* What a request's transaction holds at each of its calls.                *)
(***************************************************************************)

\* Outside of the part of its handler that touches saved work.
Outside == {"start", "upgrade", "prepare", "close", "auth0", "done"}

\* x is the record of request r.
Phase(x, r) ==
    /\ x.pc \in Outside \union {"find", "identity", "provision", "reread"} =>
           x.owner = NoUser /\ ~x.made
    /\ x.pc \notin {"refresh", "work", "write", "remove", "cascade"} /\ x.subject # NoSubject => x.owner = NoUser
    /\ x.subject = NoSubject => x.owner \in {NoUser, x.browser}
    /\ x.pc \in {"refresh", "write", "remove", "cascade"} => x.owner # NoUser
    /\ x.pc = "work" /\ x.subject # NoSubject /\ x.verb # "close" => x.owner # NoUser
    /\ x.pc \in {"provision", "refresh", "reread", "cascade"} => x.subject # NoSubject
    /\ x.seen => x.pc \in {"work", "write", "remove"} /\ x.subject # NoSubject /\ x.owner # NoUser
    /\ x.pc = "share" => x.subject = NoSubject /\ x.owner = x.browser
    /\ x.pc \in {"resolve", "refresh"} => ~x.made
    /\ x.pc = "upgrade" => x.subject # NoSubject /\ x.verb = "upgrade"
    /\ x.pc \in {"prepare", "close"} => x.subject # NoSubject /\ x.verb = "close"
    /\ x.pc = "cascade" => x.verb = "close"
    /\ x.kind = "account" /\ x.verb = "patch" /\ x.subject = NoSubject => x.pc \in {"start", "done"}
    /\ x.verb \in {"upgrade", "close"} => x.kind = "account"
    /\ x.made => x.verb # "close" /\ x.owner = IF x.subject # NoSubject THEN r ELSE x.browser
    /\ x.subject # NoSubject /\ x.verb = "close" =>
           x.pc \in {"start", "prepare", "close", "work", "cascade", "auth0", "done"} /\ ~x.seen

\* Its locks: a write of a browser shares the browser's row, an upgrade has it to
\* itself until it answers.
LockPhase(x) ==
    /\ x.lock = "share" => x.subject = NoSubject /\ x.pc \in {"work", "write"}
    /\ x.subject = NoSubject /\ x.pc \in {"work", "write"} /\ x.verb \in {"create", "patch", "delete"} =>
           x.lock = "share" /\ x.owner = x.browser
    /\ x.lock = "update" =>
           /\ x.subject # NoSubject /\ x.verb = "upgrade" /\ x.outcome = "merged"
           /\ x.pc \in {"find", "identity", "resolve", "refresh", "provision", "reread", "work", "remove"}
    /\ x.pc \in {"find", "identity", "remove"} => x.lock = "update"
    /\ x.outcome = "merged" /\ x.pc # "done" => x.lock = "update"
    /\ x.pc # "remove" => x.moved = {}

\* What it has checked: the links it adds, and the record it changes.
WritePhase(x, r) ==
    x.pc = "write" =>
        /\ x.verb \in {"create", "patch", "delete"} /\ x.kind \in Kinds
        /\ x.kind # "report" => x.add = {} /\ x.drop = {}
        /\ x.verb = "create" <=> x.item = r
        /\ x.item \in AssocIds

AtPhase(x, r) == Phase(x, r) /\ LockPhase(x) /\ WritePhase(x, r)

CallsHaveAPhase == \A r \in Requests : AtPhase(req[r], r)

(***************************************************************************)
(* Users, identities and the transactions that change them.                *)
(***************************************************************************)

\* AccountsMatchIdentities without its cardinalities.
OneIdentityIn(U, I) ==
    /\ \A s \in Subjects : I[s] # NoUser => U[I[s]] = "standard"
    /\ \A u \in UserIds : U[u] = "standard" => \E s \in Subjects : I[s] = u
    /\ \A s, t \in Subjects : I[s] # NoUser /\ I[s] = I[t] => s = t

OneIdentity == OneIdentityIn(users, identities)

\* Only a browser's user is unauthenticated, and a request inserts its user
\* when it commits.
UsersHaveAnOrigin ==
    /\ \A u \in UserIds : users[u] = "unauthenticated" => u \in Browsers
    /\ \A q \in Requests : users[q] # "none" => req[q].pc = "done"

\* What a transaction has inserted, updated or locked is as it left it.
HeldStandsIn(r, U, I) ==
    /\ req[r].made /\ SignedIn(r) => I[req[r].subject] = NoUser
    /\ req[r].made /\ ~SignedIn(r) => U[req[r].browser] = "none"
    /\ req[r].lock = "update" => U[req[r].browser] = "unauthenticated"
    /\ req[r].lock = "share" => req[r].made \/ U[req[r].browser] = "unauthenticated"
    /\ req[r].seen => I[req[r].subject] = req[r].owner
    /\ req[r].pc = "cascade" => U[req[r].owner] # "none"

HeldStands(r) == HeldStandsIn(r, users, identities)

WhatIsHeldStands == \A r \in Requests : HeldStands(r)

\* Unique keys and locks exclude each other.
Excludes(x, y) ==
    /\ x.made /\ y.made /\ x.subject = y.subject => x.subject = NoSubject /\ x.browser # y.browser
    /\ x.lock = "update" /\ y.lock # "none" => x.browser # y.browser
    /\ x.lock = "update" /\ y.pc = "remove" /\ y.moved # {} => y.owner # x.browser
    /\ x.pc = "cascade" /\ y.lock # "none" => y.browser # x.owner
    /\ x.pc = "cascade" /\ y.pc = "cascade" => y.owner # x.owner

TransactionsExclude == \A r, q \in Requests : q # r => Excludes(req[r], req[q])

\* The user a signed-in request acts as.
OwnerIsAnAccount(r) ==
    SignedIn(r) /\ req[r].owner # NoUser =>
        /\ req[r].lock = "update" => req[r].owner # req[r].browser
        /\ req[r].owner = r => req[r].made
        /\ req[r].owner \in Requests \ {r} => req[req[r].owner].pc = "done"

OwnersAreAccounts == \A r \in Requests : OwnerIsAnAccount(r)

\* It is the subject's, unless the account was closed since; its id is then nobody's
\* as long as no browser starts over under it.
IsTheSubjectsIn(r, U, I) ==
    SignedIn(r) /\ req[r].owner # NoUser =>
        /\ U[req[r].owner] # "unauthenticated"
        /\ I[req[r].subject] = req[r].owner \/ req[r].made \/ U[req[r].owner] = "none"

OwnerIsTheSubjects(r) ==
    /\ IsTheSubjectsIn(r, users, identities)
    /\ SignedIn(r) => \A q \in Requests : ~HoldsInsert(q, req[r].owner)

OwnersAreTheSubjects == NoIdIsReused => \A r \in Requests : OwnerIsTheSubjects(r)

UsersInv ==
    /\ CallsHaveAPhase
    /\ OneIdentity
    /\ UsersHaveAnOrigin
    /\ WhatIsHeldStands
    /\ TransactionsExclude
    /\ OwnersAreAccounts
    /\ OwnersAreTheSubjects

(***************************************************************************)
(* Saved work.                                                             *)
(***************************************************************************)

\* Records belong to users, and a request inserts its record when it commits.
\* Links name saved policies.
RecordsStand ==
    \A a \in AssocIds : assocs[a] # NoAssoc =>
        /\ users[assocs[a].owner] # "none"
        /\ a \in Requests => req[a].pc = "done"
        /\ \A p \in assocs[a].links : assocs[p] # NoAssoc /\ assocs[p].kind = "policy"

\* A merge moves all of the browser's records.
MergeIsComplete(r) == req[r].pc = "remove" => req[r].moved = Owned(req[r].browser)

MergesAreComplete == \A r \in Requests : MergeIsComplete(r)

\* What a write has checked is still so, or gone.
CheckStands(r) ==
    req[r].pc = "write" =>
        /\ \A p \in req[r].add :
              /\ p \in Requests => req[p].pc = "done"
              /\ assocs[p] # NoAssoc => assocs[p].kind = "policy"
        /\ req[r].item \in Requests \ {r} => req[req[r].item].pc = "done"
        /\ assocs[req[r].item] # NoAssoc => assocs[req[r].item].kind = req[r].kind

ChecksStand == \A r \in Requests : CheckStands(r)

\* It belongs to the user the request acts as, as a report's links belong to the
\* owner of the report, while no browser starts over under the id of a closed account.
WritesItsOwn(r) ==
    req[r].pc = "write" =>
        \A a \in req[r].add \union {req[r].item} : assocs[a] # NoAssoc => assocs[a].owner = req[r].owner

LinksAreOwn ==
    \A a \in AssocIds : assocs[a] # NoAssoc =>
        \A p \in assocs[a].links : assocs[p].owner = assocs[a].owner

WorkHasOneOwner == NoIdIsReused => LinksAreOwn /\ \A r \in Requests : WritesItsOwn(r)

RecordsInv ==
    /\ RecordsStand
    /\ MergesAreComplete
    /\ ChecksStand
    /\ WorkHasOneOwner

IInv == TypeOK /\ UsersInv /\ RecordsInv

(***************************************************************************)
(* Steps keep UsersInv.                                                    *)
(***************************************************************************)
UsersTypes == users \in UserTable /\ identities \in IdentityTable /\ req \in [Requests -> Request]

UsersOK == UsersTypes /\ UsersInv

\* The steps and the answers that the handlers name.
LEMMA Values ==
  /\ {"start", "resolve", "refresh", "provision", "reread", "share", "upgrade", "find", "identity", "work",
      "write", "remove", "prepare", "close", "cascade", "auth0", "done"} \subseteq PCs
  /\ {"none", "share", "update"} \subseteq Locks
  /\ {"none", "ok", "created", "merged", "converted", "refused"} \subseteq Outcomes
  BY DEF PCs, Locks, Outcomes

\* A step of r changes r's record, and not what r asks for.
StepOf(r) ==
    /\ req' = [req EXCEPT ![r] = req'[r]] /\ req'[r] \in Request
    /\ req'[r].verb = req[r].verb /\ req'[r].kind = req[r].kind
    /\ req'[r].browser = req[r].browser /\ req'[r].subject = req[r].subject
    /\ req[r].reuses => req'[r].reuses

\* It neither starts to write nor to remove.
GoesOn(r) == StepOf(r) /\ req'[r].pc \notin {"write", "remove"}

\* A transaction that ended has nothing.
Ended(x) == x.owner = NoUser /\ ~x.made /\ ~x.seen /\ x.lock = "none" /\ x.moved = {}

\* A step of a request leaves the records of the others.
LEMMA StepTypes ==
  ASSUME UsersTypes, NEW r \in Requests, StepOf(r)
  PROVE  /\ req' \in [Requests -> Request]
         /\ \A o \in Requests \ {r} : req'[o] = req[o]
         /\ NoIdIsReused' => NoIdIsReused
<1>1. req' \in [Requests -> Request] /\ \A o \in Requests \ {r} : req'[o] = req[o]
  BY DEF UsersTypes, StepOf
<1> QED
  BY <1>1 DEF StepOf, NoIdIsReused

\* The record that Answer leaves.
LEMMA AnswerType ==
  ASSUME NEW x \in Request, NEW outcome \in Outcomes, NEW done \in PCs, NEW none \in Locks
  PROVE  [x EXCEPT !.pc = done, !.outcome = outcome, !.owner = NoUser, !.made = FALSE, !.seen = FALSE,
                   !.lock = none, !.again = FALSE, !.item = NoAssoc, !.add = {},
                   !.drop = {}, !.moved = {}] \in Request
  BY DEF Request

\* Answering gives up all that the transaction holds.
LEMMA AnswerStep ==
  ASSUME UsersTypes, UsersInv, NEW r \in Requests, NEW outcome \in Outcomes, Answer(r, outcome)
  PROVE  /\ StepOf(r) /\ Ended(req'[r]) /\ AtPhase(req'[r], r)
         /\ req'[r].pc = "done" /\ req'[r].outcome = outcome /\ req'[r].reuses = req[r].reuses
<1>1. req[r] \in Request
  BY DEF UsersTypes
<1> DEFINE left(x) == [x EXCEPT !.pc = "done", !.outcome = outcome, !.owner = NoUser, !.made = FALSE, !.seen = FALSE,
                        !.lock = "none", !.again = FALSE, !.item = NoAssoc, !.add = {},
                        !.drop = {}, !.moved = {}]
<1>2. req'[r] = left(req[r]) /\ req' = [req EXCEPT ![r] = req'[r]]
  BY DEF Answer, UsersTypes
<1>3. "done" \in PCs /\ "none" \in Locks
  BY Values
<1>4. req'[r] \in Request
  <2>1. \A x \in Request : left(x) \in Request
    BY <1>3, AnswerType
  <2> QED
    BY <1>1, <1>2, <2>1
<1>5. /\ Ended(req'[r]) /\ req'[r].pc = "done" /\ req'[r].outcome = outcome
      /\ req'[r].verb = req[r].verb /\ req'[r].kind = req[r].kind
      /\ req'[r].browser = req[r].browser /\ req'[r].subject = req[r].subject
      /\ req'[r].reuses = req[r].reuses
  BY ONLY <1>1, <1>2 DEF Request, Ended
<1>6. StepOf(r)
  BY <1>2, <1>4, <1>5 DEF StepOf
<1>7. AtPhase(req'[r], r)
  <2>1. AtPhase(req[r], r)
    BY DEF UsersInv, CallsHaveAPhase
  <2>2. req'[r].verb \in {"upgrade", "close"} => req'[r].kind = "account"
    BY <1>5, <2>1 DEF AtPhase, Phase
  <2> QED
    BY <1>5, <2>2 DEF AtPhase, Phase, LockPhase, WritePhase, Ended, Outside
<1> QED
  BY <1>5, <1>6, <1>7

\* What each step has to show: the other requests keep their phases, and none of
\* them acts as the user that an open request is inserting.
LEMMA UsersStep ==
  ASSUME UsersOK, NEW r \in Requests, req[r].pc # "done", StepOf(r), AtPhase(req'[r], r),
         users' \in UserTable, identities' \in IdentityTable,
         OneIdentity', UsersHaveAnOrigin', WhatIsHeldStands', OwnersAreTheSubjects',
         OwnerIsAnAccount(r)',
         \A o \in Requests \ {r} : Excludes(req'[r], req[o]) /\ Excludes(req[o], req'[r])
  PROVE  UsersOK'
<1>1. UsersTypes /\ UsersInv
  BY DEF UsersOK
<1>2. /\ req' \in [Requests -> Request]
      /\ \A o \in Requests \ {r} : req'[o] = req[o]
  BY <1>1, StepTypes
<1>3. UsersTypes'
  BY <1>2 DEF UsersTypes
<1>4. CallsHaveAPhase'
  BY <1>1, <1>2 DEF UsersInv, CallsHaveAPhase
<1>5. TransactionsExclude'
  BY <1>1, <1>2 DEF UsersInv, TransactionsExclude
<1>6. OwnersAreAccounts'
  <2> SUFFICES ASSUME NEW o \in Requests \ {r}
               PROVE  OwnerIsAnAccount(o)'
    BY DEF OwnersAreAccounts
  <2>1. OwnerIsAnAccount(o)
    BY <1>1 DEF UsersInv, OwnersAreAccounts
  <2> QED
    BY <1>2, <2>1 DEF OwnerIsAnAccount, SignedIn
<1> QED
  BY <1>3, <1>4, <1>5, <1>6 DEF UsersOK, UsersInv

\* An open request's own user is not in the table.
LEMMA OpenUser ==
  ASSUME UsersOK, NEW r \in Requests, req[r].pc # "done"
  PROVE  users[r] = "none"
  BY DEF UsersOK, UsersInv, UsersHaveAnOrigin

\* A transaction that has refreshed an identity, or is about to, or that deletes an
\* account, acts as a signed-in user.
LEMMA HeldOwner ==
  ASSUME UsersOK, NEW o \in Requests, req[o].seen \/ req[o].pc \in {"refresh", "cascade"}
  PROVE  SignedIn(o) /\ req[o].subject \in Subjects /\ req[o].owner \in UserIds
<1>1. AtPhase(req[o], o) /\ req[o] \in Request
  BY DEF UsersOK, UsersInv, UsersTypes, CallsHaveAPhase
<1> QED
  BY <1>1 DEF AtPhase, Phase, SignedIn, Request

\* A step that leaves the users and identities: the other requests see only an
\* insert of the browser's user, which no open request acts as.
LEMMA SameUsers ==
  ASSUME UsersOK, NEW r \in Requests, req[r].pc # "done", StepOf(r), AtPhase(req'[r], r),
         users' = users, identities' = identities,
         HeldStands(r)', OwnerIsAnAccount(r)', NoIdIsReused' => OwnerIsTheSubjects(r)',
         \A o \in Requests \ {r} : Excludes(req'[r], req[o]) /\ Excludes(req[o], req'[r]),
         req'[r].made /\ req[r].subject = NoSubject =>
            req[r].made \/ (NoIdIsReused' => ActsAs(req[r].browser) = {})
  PROVE  UsersOK'
<1>1. UsersTypes /\ UsersInv
  BY DEF UsersOK
<1>2. /\ req' \in [Requests -> Request]
      /\ \A o \in Requests \ {r} : req'[o] = req[o]
      /\ NoIdIsReused' => NoIdIsReused
  BY <1>1, StepTypes
<1>3. OneIdentity'
  BY <1>1 DEF UsersInv, OneIdentity
<1>4. UsersHaveAnOrigin'
  BY <1>1, <1>2, OpenUser DEF UsersInv, UsersHaveAnOrigin
<1>5. WhatIsHeldStands'
  <2> SUFFICES ASSUME NEW o \in Requests \ {r}
               PROVE  HeldStands(o)'
    BY DEF WhatIsHeldStands
  <2>1. HeldStands(o)
    BY <1>1 DEF UsersInv, WhatIsHeldStands
  <2> QED
    BY <1>2, <2>1 DEF HeldStands, HeldStandsIn, SignedIn
<1>6. OwnersAreTheSubjects'
  <2> SUFFICES ASSUME NoIdIsReused', NEW o \in Requests \ {r}
               PROVE  OwnerIsTheSubjects(o)'
    BY DEF OwnersAreTheSubjects
  <2>1. OwnerIsTheSubjects(o)
    BY <1>1, <1>2 DEF UsersInv, OwnersAreTheSubjects
  <2>2. IsTheSubjectsIn(o, users, identities)'
    BY <1>2, <2>1 DEF OwnerIsTheSubjects, IsTheSubjectsIn, SignedIn
  <2>3. SignedIn(o) => ~HoldsInsert(r, req[o].owner)'
    <3> SUFFICES ASSUME SignedIn(o), req'[r].made, req[r].subject = NoSubject, req[r].browser = req[o].owner
                 PROVE  FALSE
      BY <1>2 DEF HoldsInsert, SignedIn, StepOf
    <3>1. CASE req[r].made
      BY <2>1, <3>1 DEF OwnerIsTheSubjects, HoldsInsert, SignedIn
    <3>2. CASE ActsAs(req[r].browser) = {}
      BY <3>2 DEF ActsAs
    <3> QED
      BY <3>1, <3>2
  <2>4. SignedIn(o) => \A q \in Requests \ {r} : ~HoldsInsert(q, req[o].owner)'
    BY <1>2, <2>1 DEF OwnerIsTheSubjects, HoldsInsert, SignedIn
  <2> QED
    BY <1>2, <2>2, <2>3, <2>4 DEF OwnerIsTheSubjects, SignedIn
<1> QED
  BY <1>1, <1>3, <1>4, <1>5, <1>6, UsersStep DEF UsersTypes

\* A step that only goes on: it keeps its user, its insert and its lock.
LEMMA PlainMove ==
  ASSUME UsersOK, NEW r \in Requests, req[r].pc # "done", StepOf(r), AtPhase(req'[r], r),
         users' = users, identities' = identities, req'[r].owner = req[r].owner,
         req'[r].made = req[r].made, req'[r].lock = req[r].lock,
         req'[r].seen => req[r].seen \/ identities[req[r].subject] = req[r].owner,
         req'[r].pc = "remove" /\ req'[r].moved # {} => OwnerIsFree(r),
         req'[r].pc = "cascade" => users[req[r].owner] # "none" /\ ~Locked(r, req[r].owner)
  PROVE  UsersOK'
<1>1. UsersTypes /\ UsersInv
  BY DEF UsersOK
<1>2. /\ req' \in [Requests -> Request]
      /\ \A o \in Requests \ {r} : req'[o] = req[o]
      /\ NoIdIsReused' => NoIdIsReused
  BY <1>1, StepTypes
<1>3. HeldStands(r)'
  BY <1>1 DEF UsersInv, WhatIsHeldStands, HeldStandsIn, HeldStands, SignedIn, StepOf
<1>4. OwnerIsAnAccount(r)'
  <2>1. OwnerIsAnAccount(r)
    BY <1>1 DEF UsersInv, OwnersAreAccounts
  <2> QED
    BY <1>2, <2>1 DEF OwnerIsAnAccount, SignedIn, StepOf
<1>5. NoIdIsReused' => OwnerIsTheSubjects(r)'
  <2> SUFFICES ASSUME NoIdIsReused'
               PROVE  OwnerIsTheSubjects(r)'
    OBVIOUS
  <2>1. OwnerIsTheSubjects(r)
    BY <1>1, <1>2 DEF UsersInv, OwnersAreTheSubjects
  <2>2. \A q \in Requests : \A b : HoldsInsert(q, b)' <=> HoldsInsert(q, b)
    BY <1>2 DEF HoldsInsert, SignedIn, StepOf
  <2> QED
    BY <2>1, <2>2 DEF OwnerIsTheSubjects, IsTheSubjectsIn, SignedIn, StepOf
<1>6. \A o \in Requests \ {r} : Excludes(req'[r], req[o]) /\ Excludes(req[o], req'[r])
  <2> TAKE o \in Requests \ {r}
  <2>1. Excludes(req[r], req[o]) /\ Excludes(req[o], req[r])
    BY <1>1 DEF UsersInv, TransactionsExclude
  <2>2. OwnerIsFree(r) => (req[o].lock = "update" => req[r].owner # req[o].browser)
    BY DEF OwnerIsFree, HoldsAlone, HoldsUpdate
  <2>3. req[o].lock \in {"none", "share", "update"}
    BY <1>1 DEF UsersTypes, Request, Locks
  <2>4. ~Locked(r, req[r].owner) => /\ req[o].lock # "none" => req[o].browser # req[r].owner
                                    /\ req[o].pc = "cascade" => req[o].owner # req[r].owner
    BY <2>3 DEF Locked, LockedBy, HoldsShare, HoldsAlone, HoldsUpdate, HoldsDelete
  <2> QED
    BY <2>1, <2>2, <2>4 DEF Excludes, StepOf
<1> QED
  BY <1>3, <1>4, <1>5, <1>6, SameUsers

\* The users and the identities after a transaction of r that ends are sound, and
\* leave what the other open transactions hold and the users they act as.
Sound(r, U, I) ==
    /\ U \in UserTable /\ I \in IdentityTable
    /\ OneIdentityIn(U, I)
    /\ \A u \in UserIds : U[u] = "unauthenticated" => u \in Browsers
    /\ \A o \in Requests \ {r} :
          /\ U[o] # "none" => req[o].pc = "done"
          /\ HeldStandsIn(o, U, I)
          /\ NoIdIsReused => IsTheSubjectsIn(o, U, I)

\* A transaction that ends keeps the invariant when the tables it leaves are sound.
LEMMA EndingStep ==
  ASSUME UsersOK, NEW r \in Requests, req[r].pc # "done", StepOf(r), Ended(req'[r]), AtPhase(req'[r], r),
         Sound(r, users', identities'), users'[r] # "none" => req'[r].pc = "done"
  PROVE  UsersOK'
<1>1. UsersTypes /\ UsersInv
  BY DEF UsersOK
<1>2. /\ req' \in [Requests -> Request]
      /\ \A o \in Requests \ {r} : req'[o] = req[o]
      /\ NoIdIsReused' => NoIdIsReused
  BY <1>1, StepTypes
<1>3. OneIdentity' /\ UsersHaveAnOrigin'
  BY <1>2 DEF Sound, OneIdentity, UsersHaveAnOrigin
<1>4. req'[r].pc # "cascade"
  BY DEF AtPhase, Phase, Ended
<1>5. WhatIsHeldStands'
  BY <1>2, <1>4 DEF Sound, WhatIsHeldStands, HeldStands, HeldStandsIn, SignedIn, Ended
<1>6. OwnersAreTheSubjects'
  <2> SUFFICES ASSUME NoIdIsReused', NEW o \in Requests
               PROVE  OwnerIsTheSubjects(o)'
    BY DEF OwnersAreTheSubjects
  <2>1. OwnerIsTheSubjects(o)
    BY <1>1, <1>2 DEF UsersInv, OwnersAreTheSubjects
  <2>2. CASE o = r
    <3>1. NoUser # req[r].browser /\ \A q \in Requests : NoUser # req[q].browser
      BY <1>1, IdentityAssumption DEF UsersTypes, Request, UserIds
    <3> QED
      BY <1>2, <2>2, <3>1 DEF OwnerIsTheSubjects, IsTheSubjectsIn, HoldsInsert, Ended
  <2>3. CASE o # r
    <3>1. IsTheSubjectsIn(o, users, identities)'
      BY <1>2, <2>3 DEF Sound, IsTheSubjectsIn, SignedIn
    <3> QED
      BY <1>2, <2>1, <2>3, <3>1 DEF OwnerIsTheSubjects, HoldsInsert, SignedIn, Ended
  <2> QED
    BY <2>2, <2>3
<1>7. OwnerIsAnAccount(r)'
  BY DEF OwnerIsAnAccount, Ended
<1>8. \A o \in Requests \ {r} : Excludes(req'[r], req[o]) /\ Excludes(req[o], req'[r])
  BY <1>4 DEF Excludes, Ended
<1> QED
  BY <1>3, <1>5, <1>6, <1>7, <1>8, UsersStep DEF Sound

\* What the transaction of r commits is sound.
LEMMA CommitIsSound ==
  ASSUME UsersOK, NEW r \in Requests, req[r].pc # "done"
  PROVE  Sound(r, UsersOf(r), IdentitiesOf(r)) /\ Sound(r, users, identities)
<1>1. UsersTypes /\ UsersInv
  BY DEF UsersOK
<1> DEFINE s == req[r].subject  b == req[r].browser
<1>2. /\ Requests \intersect Browsers = {} /\ Requests \subseteq UserIds /\ Browsers \subseteq UserIds
      /\ NoUser \notin UserIds
  BY IdentityAssumption DEF UserIds
<1>3. /\ \A o \in Requests : /\ req[o].subject \in Subjects \union {NoSubject} /\ req[o].browser \in Browsers
                             /\ req[o].owner \in UserIds \union {NoUser}
      /\ users \in [UserIds -> {"unauthenticated", "standard", "none"}]
      /\ identities \in [Subjects -> UserIds \union {NoUser}]
  BY <1>1 DEF UsersTypes, Request, UserTable, UserType, IdentityTable
<1>4. users[r] = "none"
  BY OpenUser
<1>5. OneIdentityIn(users, identities) /\ HeldStandsIn(r, users, identities)
  BY <1>1 DEF UsersInv, OneIdentity, WhatIsHeldStands, HeldStands
<1>6. ASSUME NEW o \in Requests \ {r}
      PROVE  /\ users[o] # "none" => req[o].pc = "done"
             /\ HeldStandsIn(o, users, identities)
             /\ NoIdIsReused => IsTheSubjectsIn(o, users, identities)
  BY <1>1 DEF UsersInv, UsersHaveAnOrigin, WhatIsHeldStands, HeldStands, OwnersAreTheSubjects, OwnerIsTheSubjects
<1>7. \A u \in UserIds : users[u] = "unauthenticated" => u \in Browsers
  BY <1>1 DEF UsersInv, UsersHaveAnOrigin
<1>8. Sound(r, users, identities)
  BY <1>1, <1>5, <1>6, <1>7 DEF Sound, UsersTypes
<1>9. CASE ~req[r].made
  BY <1>8, <1>9 DEF UsersOf, IdentitiesOf
<1>10. CASE req[r].made /\ SignedIn(r)
  <2> DEFINE U == [users EXCEPT ![r] = "standard"]  I == [identities EXCEPT ![s] = r]
  <2>1. req[r].owner = r
    BY <1>1, <1>10 DEF UsersInv, CallsHaveAPhase, AtPhase, Phase, SignedIn
  <2>2. UsersOf(r) = U /\ IdentitiesOf(r) = I
    BY <1>10, <2>1 DEF UsersOf, IdentitiesOf
  <2>3. s \in Subjects /\ identities[s] = NoUser
    BY <1>3, <1>5, <1>10 DEF HeldStandsIn, SignedIn
  <2>4. U \in UserTable /\ I \in IdentityTable
    BY <1>2, <1>3 DEF UserTable, UserType, IdentityTable
  <2>5. OneIdentityIn(U, I)
    BY <1>2, <1>3, <1>4, <1>5, <2>3 DEF OneIdentityIn
  <2>6. ASSUME NEW o \in Requests \ {r}
        PROVE  /\ U[o] # "none" => req[o].pc = "done"
               /\ HeldStandsIn(o, U, I)
               /\ NoIdIsReused => IsTheSubjectsIn(o, U, I)
    <3>1. Excludes(req[r], req[o]) /\ OwnerIsAnAccount(o)
      BY <1>1 DEF UsersInv, TransactionsExclude, OwnersAreAccounts
    <3>2. req[o].made /\ SignedIn(o) => req[o].subject # s
      BY <1>10, <3>1 DEF Excludes, SignedIn
    <3>3. HeldStandsIn(o, U, I)
      <4>1. req[o].seen \/ req[o].pc = "cascade" => req[o].subject \in Subjects /\ req[o].owner \in UserIds
        BY HeldOwner
      <4> QED
        BY <1>2, <1>3, <1>6, <2>3, <3>2, <4>1 DEF HeldStandsIn, SignedIn
    <3>4. SignedIn(o) => req[o].owner # r
      BY <1>2, <3>1 DEF OwnerIsAnAccount
    <3>5. NoIdIsReused => IsTheSubjectsIn(o, U, I)
      BY <1>2, <1>3, <1>6, <2>3, <3>4 DEF IsTheSubjectsIn, SignedIn
    <3> QED
      BY <1>2, <1>3, <1>6, <3>3, <3>5
  <2>7. \A u \in UserIds : U[u] = "unauthenticated" => u \in Browsers
    BY <1>3, <1>7
  <2> QED
    BY <1>8, <2>2, <2>4, <2>5, <2>6, <2>7 DEF Sound
<1>11. CASE req[r].made /\ ~SignedIn(r)
  <2> DEFINE U == [users EXCEPT ![b] = "unauthenticated"]
  <2>1. req[r].owner = b
    BY <1>1, <1>11 DEF UsersInv, CallsHaveAPhase, AtPhase, Phase, SignedIn
  <2>2. UsersOf(r) = U /\ IdentitiesOf(r) = identities
    BY <1>11, <2>1 DEF UsersOf, IdentitiesOf
  <2>3. b \in Browsers /\ users[b] = "none"
    BY <1>3, <1>5, <1>11 DEF HeldStandsIn
  <2>4. U \in UserTable
    BY <1>2, <1>3, <2>3 DEF UserTable, UserType
  <2>5. OneIdentityIn(U, identities)
    BY <1>2, <1>3, <1>5, <2>3 DEF OneIdentityIn
  <2>6. ASSUME NEW o \in Requests \ {r}
        PROVE  /\ U[o] # "none" => req[o].pc = "done"
               /\ HeldStandsIn(o, U, identities)
               /\ NoIdIsReused => IsTheSubjectsIn(o, U, identities)
    <3>1. Excludes(req[r], req[o])
      BY <1>1 DEF UsersInv, TransactionsExclude
    <3>2. req[o].made /\ ~SignedIn(o) => req[o].browser # b
      BY <1>11, <3>1 DEF Excludes, SignedIn
    <3>3. HeldStandsIn(o, U, identities)
      <4>1. req[o].pc = "cascade" => req[o].owner \in UserIds
        BY HeldOwner
      <4> QED
        BY <1>2, <1>3, <1>6, <2>3, <3>2, <4>1 DEF HeldStandsIn
    <3>4. NoIdIsReused /\ SignedIn(o) => req[o].owner # b
      BY <1>1, <1>11 DEF UsersInv, OwnersAreTheSubjects, OwnerIsTheSubjects, HoldsInsert
    <3>5. NoIdIsReused => IsTheSubjectsIn(o, U, identities)
      BY <1>2, <1>3, <1>6, <2>3, <3>4 DEF IsTheSubjectsIn
    <3> QED
      BY <1>2, <1>3, <1>6, <2>3, <3>3, <3>5
  <2>7. \A u \in UserIds : U[u] = "unauthenticated" => u \in Browsers
    BY <1>3, <1>7, <2>3
  <2> QED
    BY <1>1, <1>8, <2>2, <2>4, <2>5, <2>6, <2>7 DEF Sound, UsersTypes
<1> QED
  BY <1>9, <1>10, <1>11

\* Deleting a browser's user that no other transaction holds.
LEMMA RemovalIsSound ==
  ASSUME UsersOK, NEW r \in Requests, NEW U, NEW I, Sound(r, U, I), NEW b \in Browsers, U[b] # "standard",
         \A o \in Requests \ {r} : /\ req[o].browser = b => req[o].lock = "none"
                                   /\ req[o].pc = "cascade" => req[o].owner # b
  PROVE  Sound(r, [U EXCEPT ![b] = "none"], I)
<1> DEFINE V == [U EXCEPT ![b] = "none"]
<1>1. UsersTypes /\ b \in UserIds /\ NoUser \notin UserIds
  BY IdentityAssumption DEF UsersOK, UserIds
<1>2. /\ U \in [UserIds -> {"unauthenticated", "standard", "none"}]
      /\ I \in [Subjects -> UserIds \union {NoUser}]
      /\ \A o \in Requests : /\ req[o].browser \in UserIds /\ req[o].owner \in UserIds \union {NoUser}
                             /\ req[o].lock \in {"none", "share", "update"}
  BY <1>1 DEF Sound, UserTable, UserType, IdentityTable, UsersTypes, Request, Locks, UserIds
<1>3. V \in UserTable
  BY <1>2 DEF UserTable, UserType
<1>4. OneIdentityIn(V, I)
  BY <1>1, <1>2 DEF Sound, OneIdentityIn
<1>5. ASSUME NEW o \in Requests \ {r}
      PROVE  /\ V[o] # "none" => req[o].pc = "done"
             /\ HeldStandsIn(o, V, I)
             /\ NoIdIsReused => IsTheSubjectsIn(o, V, I)
  <2>1. o \in UserIds /\ (V[o] # "none" => req[o].pc = "done")
    BY <1>2 DEF Sound, UserIds
  <2>2. HeldStandsIn(o, V, I)
    <3>1. req[o].pc = "cascade" => req[o].owner \in UserIds
      BY HeldOwner
    <3>2. HeldStandsIn(o, U, I)
      BY DEF Sound
    <3>3. req[o].pc = "cascade" => V[req[o].owner] # "none"
      BY <1>2, <3>1, <3>2 DEF HeldStandsIn
    <3> QED
      BY <1>1, <1>2, <3>2, <3>3 DEF HeldStandsIn
  <2>3. NoIdIsReused => IsTheSubjectsIn(o, V, I)
    BY <1>1, <1>2 DEF Sound, IsTheSubjectsIn
  <2> QED
    BY <2>1, <2>2, <2>3
<1>6. \A u \in UserIds : V[u] = "unauthenticated" => u \in Browsers
  BY <1>2 DEF Sound
<1> QED
  BY <1>3, <1>4, <1>5, <1>6 DEF Sound

\* Deleting the user that an identity names, with its identities, when no other
\* transaction holds it.
LEMMA ClosingIsSound ==
  ASSUME UsersOK, NEW r \in Requests, req[r].pc # "done", NEW u \in UserIds,
         \A o \in Requests \ {r} :
            /\ req[o].browser = u => req[o].lock = "none"
            /\ req[o].pc = "cascade" => req[o].owner # u
            /\ \A s \in Subjects : identities[s] = u => ~HoldsActivity(o, s)
  PROVE  Sound(r, [users EXCEPT ![u] = "none"],
                  [s \in Subjects |-> IF identities[s] = u THEN NoUser ELSE identities[s]])
<1> DEFINE V == [users EXCEPT ![u] = "none"]
           J == [s \in Subjects |-> IF identities[s] = u THEN NoUser ELSE identities[s]]
<1>1. UsersTypes /\ NoUser \notin UserIds /\ Sound(r, users, identities)
  BY IdentityAssumption, CommitIsSound DEF UsersOK
<1>2. /\ users \in [UserIds -> {"unauthenticated", "standard", "none"}]
      /\ identities \in [Subjects -> UserIds \union {NoUser}]
      /\ \A o \in Requests : /\ req[o].browser \in UserIds /\ req[o].owner \in UserIds \union {NoUser}
                             /\ req[o].lock \in {"none", "share", "update"}
                             /\ req[o].subject \in Subjects \union {NoSubject}
  BY <1>1 DEF UserTable, UserType, IdentityTable, UsersTypes, Request, Locks, UserIds
<1>3. V \in UserTable /\ J \in IdentityTable
  BY <1>2 DEF UserTable, UserType, IdentityTable
<1>4. OneIdentityIn(V, J)
  BY <1>1, <1>2 DEF Sound, OneIdentityIn
<1>5. ASSUME NEW o \in Requests \ {r}
      PROVE  /\ V[o] # "none" => req[o].pc = "done"
             /\ HeldStandsIn(o, V, J)
             /\ NoIdIsReused => IsTheSubjectsIn(o, V, J)
  <2>1. o \in UserIds /\ (V[o] # "none" => req[o].pc = "done")
    BY <1>1, <1>2 DEF Sound, UserIds
  <2>2. HeldStandsIn(o, V, J)
    <3>1. req[o].seen \/ req[o].pc = "cascade" => req[o].subject \in Subjects /\ req[o].owner \in UserIds
      BY HeldOwner
    <3>2. HeldStandsIn(o, users, identities)
      BY <1>1 DEF Sound
    <3>3. req[o].seen => J[req[o].subject] = req[o].owner
      BY <3>1, <3>2 DEF HeldStandsIn, HoldsActivity
    <3>4. req[o].pc = "cascade" => V[req[o].owner] # "none"
      BY <1>2, <3>1, <3>2 DEF HeldStandsIn
    <3> QED
      BY <1>1, <1>2, <3>2, <3>3, <3>4 DEF HeldStandsIn, SignedIn
  <2>3. NoIdIsReused => IsTheSubjectsIn(o, V, J)
    BY <1>1, <1>2 DEF Sound, IsTheSubjectsIn, SignedIn
  <2> QED
    BY <2>1, <2>2, <2>3
<1>6. \A v \in UserIds : V[v] = "unauthenticated" => v \in Browsers
  BY <1>1, <1>2 DEF Sound
<1> QED
  BY <1>3, <1>4, <1>5, <1>6 DEF Sound

\* Converting the browser's user that the transaction has locked, when no other
\* transaction is inserting the subject's identity.
LEMMA ConversionIsSound ==
  ASSUME UsersOK, NEW r \in Requests, req[r].pc # "done", req[r].lock = "update",
         identities[req[r].subject] = NoUser,
         ~\E q \in Requests \ {r} : HoldsIdentity(q, req[r].subject)
  PROVE  Sound(r, [users EXCEPT ![req[r].browser] = "standard"],
                  [identities EXCEPT ![req[r].subject] = req[r].browser])
<1> DEFINE b == req[r].browser  s == req[r].subject
           V == [users EXCEPT ![b] = "standard"]
           J == [identities EXCEPT ![s] = b]
<1>1. UsersTypes /\ UsersInv /\ NoUser \notin UserIds /\ Sound(r, users, identities)
      /\ Requests \intersect Browsers = {}
  BY IdentityAssumption, CommitIsSound DEF UsersOK
<1>2. /\ users \in [UserIds -> {"unauthenticated", "standard", "none"}]
      /\ identities \in [Subjects -> UserIds \union {NoUser}]
      /\ \A o \in Requests : /\ req[o].browser \in UserIds /\ req[o].owner \in UserIds \union {NoUser}
                             /\ req[o].lock \in {"none", "share", "update"}
                             /\ req[o].subject \in Subjects \union {NoSubject}
  BY <1>1 DEF UserTable, UserType, IdentityTable, UsersTypes, Request, Locks, UserIds
<1>3. /\ users[b] = "unauthenticated" /\ b \in UserIds /\ b \in Browsers
      /\ s \in Subjects
  <2>1. users[b] = "unauthenticated"
    BY <1>1 DEF UsersInv, WhatIsHeldStands, HeldStands, HeldStandsIn
  <2>2. s # NoSubject
    BY <1>1 DEF UsersInv, CallsHaveAPhase, AtPhase, LockPhase
  <2> QED
    BY <1>1, <1>2, <2>1, <2>2 DEF Sound
<1>4. V \in UserTable /\ J \in IdentityTable
  BY <1>2, <1>3 DEF UserTable, UserType, IdentityTable
<1>5. OneIdentityIn(V, J)
  BY <1>1, <1>2, <1>3 DEF Sound, OneIdentityIn
<1>6. ASSUME NEW o \in Requests \ {r}
      PROVE  /\ V[o] # "none" => req[o].pc = "done"
             /\ HeldStandsIn(o, V, J)
             /\ NoIdIsReused => IsTheSubjectsIn(o, V, J)
  <2>1. o \in UserIds /\ o # b /\ (V[o] # "none" => req[o].pc = "done")
    BY <1>1, <1>2, <1>3 DEF Sound, UserIds
  <2>2. Excludes(req[r], req[o])
    BY <1>1 DEF UsersInv, TransactionsExclude
  <2>3. req[o].lock # "none" => req[o].browser # b
    BY <2>2 DEF Excludes
  <2>4. req[o].made => req[o].subject # s
    BY DEF HoldsIdentity
  <2>5. HeldStandsIn(o, V, J)
    <3>1. req[o].seen \/ req[o].pc = "cascade" => req[o].subject \in Subjects /\ req[o].owner \in UserIds
      BY HeldOwner
    <3>2. HeldStandsIn(o, users, identities)
      BY <1>1 DEF Sound
    <3>3. req[o].seen => J[req[o].subject] = req[o].owner
      BY <1>2, <3>1, <3>2 DEF HeldStandsIn, HoldsIdentity
    <3>4. req[o].pc = "cascade" => V[req[o].owner] # "none"
      BY <1>2, <1>3, <3>1, <3>2 DEF HeldStandsIn
    <3> QED
      BY <1>1, <1>2, <1>3, <2>3, <2>4, <3>2, <3>3, <3>4 DEF HeldStandsIn, SignedIn
  <2>6. NoIdIsReused => IsTheSubjectsIn(o, V, J)
    BY <1>1, <1>2, <1>3 DEF Sound, IsTheSubjectsIn, SignedIn
  <2> QED
    BY <2>1, <2>5, <2>6
<1>7. \A v \in UserIds : V[v] = "unauthenticated" => v \in Browsers
  BY <1>1, <1>2 DEF Sound
<1> QED
  BY <1>4, <1>5, <1>6, <1>7 DEF Sound

\* A transaction that ends without a change to the users.
LEMMA AnswerUsers ==
  ASSUME UsersOK, NEW r \in Requests, req[r].pc # "done", NEW outcome \in Outcomes,
         Answer(r, outcome), users' = users, identities' = identities
  PROVE  UsersOK' /\ GoesOn(r) /\ req'[r].pc = "done"
<1>1. StepOf(r) /\ Ended(req'[r]) /\ AtPhase(req'[r], r) /\ req'[r].pc = "done"
  BY AnswerStep DEF UsersOK
<1> QED
  BY <1>1, CommitIsSound, EndingStep DEF GoesOn

\* A transaction that rolls back.
LEMMA AbortUsers ==
  ASSUME UsersOK, NEW r \in Requests, req[r].pc # "done", Abort(r)
  PROVE  UsersOK' /\ GoesOn(r) /\ req'[r].pc = "done"
<1>1. "refused" \in Outcomes /\ Answer(r, "refused") /\ users' = users /\ identities' = identities
  BY Values DEF Abort, tables
<1> QED
  BY <1>1, AnswerUsers

\* A transaction that commits what it inserted.
LEMMA CommitUsers ==
  ASSUME UsersOK, NEW r \in Requests, req[r].pc # "done",
         NEW outcome \in Outcomes, Commit(r, outcome)
  PROVE  UsersOK' /\ GoesOn(r) /\ req'[r].pc = "done"
<1>1. StepOf(r) /\ Ended(req'[r]) /\ AtPhase(req'[r], r) /\ req'[r].pc = "done"
  BY AnswerStep DEF UsersOK, Commit
<1> QED
  BY <1>1, CommitIsSound, EndingStep DEF Commit, GoesOn

(***************************************************************************)
(* The steps inside a transaction.                                         *)
(***************************************************************************)

\* What a step keeps of the user that r acts as, and of what r holds.
KeepsUser(r) == /\ req'[r].owner = req[r].owner /\ req'[r].made = req[r].made /\ req'[r].seen = req[r].seen
                /\ req'[r].lock = req[r].lock /\ req'[r].moved = req[r].moved

\* What it keeps of its progress.
KeepsWork(r) == /\ req'[r].item = req[r].item /\ req'[r].add = req[r].add /\ req'[r].drop = req[r].drop
                /\ req'[r].outcome = req[r].outcome

\* The record that each kind of step leaves is a request's.
LEMMA MoveTypes ==
  ASSUME NEW x \in Request, NEW pc \in PCs, NEW owner \in UserIds \union {NoUser}, NEW flag \in BOOLEAN
  PROVE  /\ [x EXCEPT !.pc = pc] \in Request
         /\ [x EXCEPT !.owner = owner, !.pc = pc] \in Request
         /\ [x EXCEPT !.owner = owner, !.made = flag, !.pc = pc] \in Request
         /\ [x EXCEPT !.again = flag, !.pc = pc] \in Request
         /\ [x EXCEPT !.seen = flag, !.pc = pc] \in Request
         /\ \A lock \in Locks : [x EXCEPT !.lock = lock, !.pc = pc] \in Request
         /\ \A other \in BOOLEAN :
               [x EXCEPT !.made = flag, !.owner = owner, !.pc = pc, !.reuses = other] \in Request
         /\ \A lock \in Locks, outcome \in Outcomes, inflight \in SUBSET Requests :
               [x EXCEPT !.pc = pc, !.lock = lock, !.outcome = outcome, !.inflight = inflight] \in Request
         /\ \A moved \in SUBSET AssocIds : [x EXCEPT !.moved = moved, !.pc = pc] \in Request
         /\ \A item \in AssocIds \union {NoAssoc}, add, drop \in SUBSET AssocIds :
               [x EXCEPT !.item = item, !.add = add, !.drop = drop, !.pc = pc] \in Request
<1>1. [x EXCEPT !.pc = pc] \in Request
  BY DEF Request
<1>2. [x EXCEPT !.owner = owner, !.pc = pc] \in Request
  BY DEF Request
<1>3. [x EXCEPT !.owner = owner, !.made = flag, !.pc = pc] \in Request
  BY DEF Request
<1>4. [x EXCEPT !.again = flag, !.pc = pc] \in Request
  BY DEF Request
<1>5. /\ [x EXCEPT !.seen = flag, !.pc = pc] \in Request
      /\ \A lock \in Locks : [x EXCEPT !.lock = lock, !.pc = pc] \in Request
  BY DEF Request
<1>6. \A other \in BOOLEAN :
         [x EXCEPT !.made = flag, !.owner = owner, !.pc = pc, !.reuses = other] \in Request
  BY DEF Request
<1>7. \A lock \in Locks, outcome \in Outcomes, inflight \in SUBSET Requests :
         [x EXCEPT !.pc = pc, !.lock = lock, !.outcome = outcome, !.inflight = inflight] \in Request
  BY DEF Request
<1>8. \A moved \in SUBSET AssocIds : [x EXCEPT !.moved = moved, !.pc = pc] \in Request
  BY DEF Request
<1>9. \A item \in AssocIds \union {NoAssoc}, add, drop \in SUBSET AssocIds :
         [x EXCEPT !.item = item, !.add = add, !.drop = drop, !.pc = pc] \in Request
  BY DEF Request
<1> QED
  BY <1>1, <1>2, <1>3, <1>4, <1>5, <1>6, <1>7, <1>8, <1>9

\* Going on to another call.
LEMMA GotoStep ==
  ASSUME UsersTypes, NEW r \in Requests, NEW pc \in PCs, Goto(r, pc)
  PROVE  StepOf(r) /\ KeepsUser(r) /\ KeepsWork(r) /\ req'[r].pc = pc /\ req'[r].reuses = req[r].reuses
<1> DEFINE left == [req[r] EXCEPT !.pc = pc]
<1>1. req[r] \in Request /\ left \in Request
  BY MoveTypes DEF UsersTypes
<1>2. req'[r] = left /\ req' = [req EXCEPT ![r] = req'[r]]
  BY DEF UsersTypes, Goto
<1> QED
  BY ONLY <1>1, <1>2 DEF StepOf, KeepsUser, KeepsWork, Request

\* Finding the user to act as.
ActAs(r, owner, pc) == req' = [req EXCEPT ![r].owner = owner, ![r].pc = pc]

\* What that leaves.
LEMMA OwnerStep ==
  ASSUME UsersTypes, NEW r \in Requests, NEW pc \in PCs, NEW owner \in UserIds \union {NoUser},
         ActAs(r, owner, pc)
  PROVE  /\ StepOf(r) /\ KeepsWork(r) /\ req'[r].pc = pc /\ req'[r].owner = owner
         /\ req'[r].made = req[r].made /\ req'[r].seen = req[r].seen
         /\ req'[r].lock = req[r].lock /\ req'[r].moved = req[r].moved
         /\ req'[r].reuses = req[r].reuses
<1> DEFINE left == [req[r] EXCEPT !.owner = owner, !.pc = pc]
<1>1. req[r] \in Request /\ left \in Request
  BY MoveTypes DEF UsersTypes
<1>2. req'[r] = left /\ req' = [req EXCEPT ![r] = req'[r]]
  BY DEF UsersTypes, ActAs
<1> QED
  BY ONLY <1>1, <1>2 DEF StepOf, KeepsWork, Request

\* The record a write has checked.
LEMMA CheckedStep ==
  ASSUME UsersTypes, NEW r \in Requests, NEW item \in AssocIds, NEW add \in SUBSET AssocIds,
         NEW drop \in SUBSET AssocIds, Checked(r, item, add, drop)
  PROVE  /\ StepOf(r) /\ KeepsUser(r) /\ req'[r].pc = "write" /\ req'[r].outcome = req[r].outcome
         /\ req'[r].item = item /\ req'[r].add = add /\ req'[r].drop = drop
         /\ req'[r].reuses = req[r].reuses
<1> DEFINE left == [req[r] EXCEPT !.item = item, !.add = add, !.drop = drop, !.pc = "write"]
<1>1. req[r] \in Request /\ left \in Request
  <2>1. req[r] \in Request /\ "write" \in PCs
    BY Values DEF UsersTypes
  <2>2. \A x \in Request : [x EXCEPT !.item = item, !.add = add, !.drop = drop, !.pc = "write"] \in Request
    BY <2>1, MoveTypes
  <2> QED
    BY <2>1, <2>2
<1>2. req'[r] = left /\ req' = [req EXCEPT ![r] = req'[r]]
  BY DEF UsersTypes, Checked
<1> QED
  BY ONLY <1>1, <1>2 DEF StepOf, KeepsUser, Request

(***************************************************************************)
(* Each action keeps UsersInv.                                             *)
(***************************************************************************)

\* Finding the user of a signed-in request, of an upgrade and of the closing of
\* an account: it is the one the identity names, if any.
LEMMA IdentityIsOwner ==
  ASSUME UsersOK, NEW r \in Requests, req[r].pc # "done", NEW pc \in PCs, pc # "remove",
         StepOf(r), AtPhase(req'[r], r), users' = users, identities' = identities,
         req'[r].owner = identities[req[r].subject], SignedIn(r), ~req[r].made, req'[r].made = req[r].made,
         ~req'[r].seen, req'[r].lock = req[r].lock, req'[r].pc = pc, pc # "cascade"
  PROVE  UsersOK'
<1> DEFINE u == identities[req[r].subject]
<1>1. UsersTypes /\ UsersInv
  BY DEF UsersOK
<1>2. /\ req' \in [Requests -> Request]
      /\ \A o \in Requests \ {r} : req'[o] = req[o]
      /\ NoIdIsReused' => NoIdIsReused
      /\ Requests \intersect Browsers = {} /\ NoUser \notin UserIds
  BY <1>1, StepTypes, IdentityAssumption
<1>3. /\ u \in UserIds \union {NoUser} /\ req[r].browser \in Browsers /\ req[r].subject \in Subjects
      /\ \A o \in Requests : req[o].browser \in Browsers
  BY <1>1 DEF UsersTypes, Request, IdentityTable, SignedIn
<1>4. u # NoUser => users[u] = "standard"
  BY <1>1, <1>3 DEF UsersInv, OneIdentity, OneIdentityIn
<1>5. HeldStands(r)'
  BY <1>1 DEF UsersInv, WhatIsHeldStands, HeldStands, HeldStandsIn, SignedIn, StepOf
<1>6. OwnerIsAnAccount(r)'
  <2> SUFFICES ASSUME u # NoUser
               PROVE  /\ req[r].lock = "update" => u # req[r].browser
                      /\ u = r => FALSE
                      /\ u \in Requests \ {r} => req[u].pc = "done"
    BY <1>2, <1>3 DEF OwnerIsAnAccount, SignedIn, StepOf
  <2>1. req[r].lock = "update" => users[req[r].browser] = "unauthenticated"
    BY <1>1 DEF UsersInv, WhatIsHeldStands, HeldStands, HeldStandsIn
  <2>2. \A q \in Requests : users[q] # "none" => req[q].pc = "done"
    BY <1>1 DEF UsersInv, UsersHaveAnOrigin
  <2> QED
    BY <1>4, <2>1, <2>2
<1>7. NoIdIsReused' => OwnerIsTheSubjects(r)'
  <2>1. IsTheSubjectsIn(r, users, identities)'
    BY <1>4 DEF IsTheSubjectsIn, StepOf
  <2>2. \A q \in Requests : ~HoldsInsert(q, req[r].owner)'
    <3> SUFFICES ASSUME NEW q \in Requests, req[q].made, ~SignedIn(q), req[q].browser = u
                 PROVE  FALSE
      BY <1>2 DEF HoldsInsert, SignedIn, StepOf
    <3>1. users[req[q].browser] = "none"
      BY <1>1 DEF UsersInv, WhatIsHeldStands, HeldStands, HeldStandsIn
    <3> QED
      BY <1>2, <1>3, <1>4, <3>1 DEF UserIds
  <2> QED
    BY <2>1, <2>2 DEF OwnerIsTheSubjects
<1>8. \A o \in Requests \ {r} : Excludes(req'[r], req[o]) /\ Excludes(req[o], req'[r])
  <2> TAKE o \in Requests \ {r}
  <2>1. Excludes(req[r], req[o]) /\ Excludes(req[o], req[r])
    BY <1>1 DEF UsersInv, TransactionsExclude
  <2> QED
    BY <2>1 DEF Excludes, StepOf
<1> QED
  BY <1>5, <1>6, <1>7, <1>8, SameUsers

\* read_user_identity.
LEMMA ReadIdentityUsers ==
  ASSUME UsersOK, NEW r \in Requests, ReadIdentity(r)
  PROVE  UsersOK' /\ GoesOn(r)
<1>1. UsersTypes /\ AtPhase(req[r], r) /\ NoUser \notin UserIds
  BY IdentityAssumption DEF UsersOK, UsersInv, CallsHaveAPhase
<1>2. req[r].pc = "resolve" /\ SignedIn(r) /\ users' = users /\ identities' = identities
  BY DEF ReadIdentity, tables
<1>3. "work" \in PCs /\ "refresh" \in PCs /\ "provision" \in PCs
  BY Values
<1>4. CASE identities[req[r].subject] # NoUser
  <2>1. PICK pc \in {"work", "refresh"} : ActAs(r, identities[req[r].subject], pc)
    BY <1>4 DEF Resolved, ActAs, ReadIdentity
  <2>2. identities[req[r].subject] \in UserIds \union {NoUser}
    BY <1>1, <1>2 DEF UsersTypes, IdentityTable, Request, SignedIn
  <2>3. StepOf(r) /\ KeepsWork(r) /\ req'[r].pc = pc /\ req'[r].owner = identities[req[r].subject]
        /\ req'[r].made = req[r].made /\ req'[r].seen = req[r].seen
        /\ req'[r].lock = req[r].lock /\ req'[r].moved = req[r].moved
    BY <1>1, <1>3, <2>1, <2>2, OwnerStep
  <2>4. AtPhase(req'[r], r) /\ ~req[r].made /\ ~req'[r].seen
    BY <1>1, <1>2, <1>4, <2>3 DEF AtPhase, Phase, LockPhase, WritePhase, Outside, StepOf, KeepsWork, SignedIn
  <2> QED
    BY <1>2, <1>3, <2>3, <2>4, IdentityIsOwner DEF GoesOn
<1>5. CASE identities[req[r].subject] = NoUser
  <2>1. Goto(r, "provision")
    BY <1>5 DEF ReadIdentity
  <2>2. StepOf(r) /\ KeepsUser(r) /\ KeepsWork(r) /\ req'[r].pc = "provision"
    BY <1>1, <1>3, <2>1, GotoStep
  <2>3. AtPhase(req'[r], r)
    BY <1>1, <1>2, <2>2
    DEF AtPhase, Phase, LockPhase, WritePhase, Outside, StepOf, KeepsWork, KeepsUser, SignedIn
  <2> QED
    BY <1>2, <2>2, <2>3, PlainMove DEF KeepsUser, GoesOn
<1> QED
  BY <1>4, <1>5

\* update_user_identity_activity: the row still names the user, or the transaction fails.
LEMMA RefreshActivityUsers ==
  ASSUME UsersOK, NEW r \in Requests, RefreshActivity(r)
  PROVE  UsersOK' /\ GoesOn(r)
<1>1. UsersTypes /\ AtPhase(req[r], r) /\ req[r].pc = "refresh" /\ "work" \in PCs
  BY Values DEF UsersOK, UsersInv, CallsHaveAPhase, RefreshActivity
<1>2. CASE Abort(r)
  BY <1>1, <1>2, AbortUsers
<1>3. CASE /\ identities[req[r].subject] = req[r].owner
           /\ req' = [req EXCEPT ![r].seen = TRUE, ![r].pc = "work"]
           /\ UNCHANGED <<tables, auth0>>
  <2> DEFINE left == [req[r] EXCEPT !.seen = TRUE, !.pc = "work"]
  <2>1. req[r] \in Request /\ left \in Request
    BY <1>1, MoveTypes DEF UsersTypes
  <2>2. req'[r] = left /\ req' = [req EXCEPT ![r] = req'[r]]
    BY <1>1, <1>3 DEF UsersTypes
  <2>3. /\ StepOf(r) /\ KeepsWork(r) /\ req'[r].pc = "work" /\ req'[r].owner = req[r].owner
        /\ req'[r].made = req[r].made /\ req'[r].lock = req[r].lock /\ req'[r].moved = req[r].moved
    BY ONLY <2>1, <2>2 DEF StepOf, KeepsWork, Request
  <2>4. AtPhase(req'[r], r)
    BY <1>1, <2>3 DEF AtPhase, Phase, LockPhase, WritePhase, Outside, StepOf, KeepsWork
  <2>5. users' = users /\ identities' = identities
    BY <1>3 DEF tables
  <2> QED
    BY <1>1, <1>3, <2>3, <2>4, <2>5, PlainMove DEF GoesOn
<1> QED
  BY <1>2, <1>3 DEF RefreshActivity

\* create_provisioned_user.
LEMMA ProvisionUserUsers ==
  ASSUME UsersOK, NEW r \in Requests, ProvisionUser(r)
  PROVE  UsersOK' /\ GoesOn(r)
<1> DEFINE s == req[r].subject
<1>1. /\ UsersTypes /\ UsersInv /\ AtPhase(req[r], r) /\ NoUser \notin UserIds /\ r \in UserIds
      /\ Requests \intersect Browsers = {}
  BY IdentityAssumption DEF UsersOK, UsersInv, CallsHaveAPhase, UserIds
<1>2. /\ req[r].pc = "provision" /\ SignedIn(r) /\ users' = users /\ identities' = identities
      /\ ~\E q \in Requests \ {r} : HoldsIdentity(q, s)
  BY DEF ProvisionUser, tables
<1>3. "work" \in PCs /\ "reread" \in PCs
  BY Values
<1>4. CASE identities[s] = NoUser
  <2> DEFINE left == [req[r] EXCEPT !.owner = r, !.made = TRUE, !.pc = "work"]
  <2>1. req[r] \in Request /\ left \in Request
    BY <1>1, <1>3, MoveTypes DEF UsersTypes
  <2>2. req'[r] = left /\ req' = [req EXCEPT ![r] = req'[r]]
    BY <1>1, <1>4 DEF UsersTypes, ProvisionUser
  <2>3. /\ StepOf(r) /\ KeepsWork(r) /\ req'[r].pc = "work" /\ req'[r].owner = r /\ req'[r].made
        /\ req'[r].seen = req[r].seen /\ req'[r].lock = req[r].lock /\ req'[r].moved = req[r].moved /\ req'[r].reuses = req[r].reuses
    BY ONLY <2>1, <2>2 DEF StepOf, KeepsWork, Request
  <2>4. AtPhase(req'[r], r)
    BY <1>1, <1>2, <2>3 DEF AtPhase, Phase, LockPhase, WritePhase, Outside, StepOf, KeepsWork, SignedIn
  <2>5. users[r] = "none"
    BY <1>2, OpenUser
  <2>6. /\ req' \in [Requests -> Request]
        /\ \A o \in Requests \ {r} : req'[o] = req[o]
    BY <1>1, <2>3, StepTypes
  <2>7. \A o \in Requests : req[o].browser \in Browsers
    BY <1>1 DEF UsersTypes, Request
  <2>8. HeldStands(r)'
    <3>1. HeldStands(r) /\ ~req[r].seen
      BY <1>1, <1>2 DEF UsersInv, WhatIsHeldStands, AtPhase, Phase
    <3> QED
      BY <1>2, <1>4, <2>3, <3>1 DEF HeldStands, HeldStandsIn, SignedIn, StepOf
  <2>9. OwnerIsAnAccount(r)'
    BY <1>1, <2>3, <2>7 DEF OwnerIsAnAccount, StepOf
  <2>10. OwnerIsTheSubjects(r)'
    BY <1>1, <1>2, <2>3, <2>5, <2>6, <2>7 DEF OwnerIsTheSubjects, IsTheSubjectsIn, HoldsInsert, StepOf
  <2>11. \A o \in Requests \ {r} : Excludes(req'[r], req[o]) /\ Excludes(req[o], req'[r])
    <3> TAKE o \in Requests \ {r}
    <3>1. Excludes(req[r], req[o]) /\ Excludes(req[o], req[r])
      BY <1>1 DEF UsersInv, TransactionsExclude
    <3>2. req[o].made => req[o].subject # s
      BY <1>2 DEF HoldsIdentity
    <3> QED
      BY <2>3, <3>1, <3>2 DEF Excludes, StepOf
  <2> QED
    BY <1>2, <2>3, <2>4, <2>8, <2>9, <2>10, <2>11, SameUsers DEF SignedIn, GoesOn
<1>5. CASE identities[s] # NoUser
  <2>1. Goto(r, "reread")
    BY <1>5 DEF ProvisionUser
  <2>2. StepOf(r) /\ KeepsUser(r) /\ KeepsWork(r) /\ req'[r].pc = "reread"
    BY <1>1, <1>3, <2>1, GotoStep
  <2>3. AtPhase(req'[r], r)
    BY <1>1, <1>2, <2>2
    DEF AtPhase, Phase, LockPhase, WritePhase, Outside, StepOf, KeepsWork, KeepsUser, SignedIn
  <2> QED
    BY <1>2, <2>2, <2>3, PlainMove DEF KeepsUser, GoesOn
<1> QED
  BY <1>4, <1>5

\* require_concurrent_identity.
LEMMA RereadIdentityUsers ==
  ASSUME UsersOK, NEW r \in Requests, RereadIdentity(r)
  PROVE  UsersOK' /\ GoesOn(r)
<1>1. UsersTypes /\ AtPhase(req[r], r) /\ NoUser \notin UserIds
  BY IdentityAssumption DEF UsersOK, UsersInv, CallsHaveAPhase
<1>2. req[r].pc = "reread" /\ SignedIn(r) /\ "work" \in PCs
  BY <1>1, Values DEF RereadIdentity, AtPhase, Phase, SignedIn
<1>3. CASE Abort(r)
  BY <1>2, <1>3, AbortUsers
<1>4. CASE identities[req[r].subject] # NoUser /\ Resolved(r, identities[req[r].subject])
           /\ UNCHANGED <<tables, auth0>>
  <2>1. /\ identities[req[r].subject] \in UserIds \union {NoUser}
        /\ ActAs(r, identities[req[r].subject], "work")
        /\ users' = users /\ identities' = identities
    BY <1>1, <1>2, <1>4 DEF Resolved, ActAs, UsersTypes, IdentityTable, Request, SignedIn, tables
  <2>2. StepOf(r) /\ KeepsWork(r) /\ req'[r].pc = "work" /\ req'[r].owner = identities[req[r].subject]
        /\ req'[r].made = req[r].made /\ req'[r].seen = req[r].seen
        /\ req'[r].lock = req[r].lock /\ req'[r].moved = req[r].moved
    BY <1>1, <1>2, <2>1, OwnerStep
  <2>3. AtPhase(req'[r], r) /\ ~req[r].made /\ ~req'[r].seen
    BY <1>1, <1>2, <1>4, <2>2 DEF AtPhase, Phase, LockPhase, WritePhase, Outside, StepOf, KeepsWork, SignedIn
  <2> QED
    BY <1>2, <2>1, <2>2, <2>3, IdentityIsOwner DEF GoesOn
<1> QED
  BY <1>3, <1>4 DEF RereadIdentity

\* Inserting the browser's user.
Inserts(r, new, b, reuses) ==
    req' = [req EXCEPT ![r].made = new, ![r].owner = b, ![r].pc = "share", ![r].reuses = reuses]

\* What that leaves.
LEMMA InsertsStep ==
  ASSUME UsersTypes, NEW r \in Requests, NEW new \in BOOLEAN, NEW reuses \in BOOLEAN,
         NEW b \in UserIds, req[r].reuses => reuses, Inserts(r, new, b, reuses)
  PROVE  /\ StepOf(r) /\ KeepsWork(r) /\ req'[r].pc = "share" /\ req'[r].owner = b /\ req'[r].made = new
         /\ req'[r].seen = req[r].seen /\ req'[r].lock = req[r].lock /\ req'[r].moved = req[r].moved /\ req'[r].reuses = reuses
<1> DEFINE left == [req[r] EXCEPT !.made = new, !.owner = b, !.pc = "share", !.reuses = reuses]
<1>1. req[r] \in Request /\ left \in Request
  <2>1. req[r] \in Request /\ "share" \in PCs
    BY Values DEF UsersTypes
  <2> QED
    BY <2>1, MoveTypes
<1>2. req'[r] = left /\ req' = [req EXCEPT ![r] = req'[r]]
  BY DEF UsersTypes, Inserts
<1> QED
  BY ONLY <1>1, <1>2, req[r].reuses => reuses DEF StepOf, KeepsWork, Request

\* create_unauthenticated_user.
LEMMA InsertUnauthenticatedUsers ==
  ASSUME UsersOK, NEW r \in Requests, InsertUnauthenticated(r)
  PROVE  UsersOK' /\ GoesOn(r)
<1> DEFINE b == req[r].browser  new == users[b] = "none"
           reuses == req[r].reuses \/ (new /\ ActsAs(b) # {})
<1>1. /\ UsersTypes /\ UsersInv /\ AtPhase(req[r], r) /\ NoUser \notin UserIds
  BY IdentityAssumption DEF UsersOK, UsersInv, CallsHaveAPhase
<1>2. /\ req[r].pc = "resolve" /\ ~SignedIn(r) /\ users' = users /\ identities' = identities
      /\ req[r].verb \in {"create", "patch", "delete"}
      /\ \A q \in Requests \ {r} : ~HoldsInsert(q, b) /\ ~HoldsDelete(q, b)
  BY DEF InsertUnauthenticated, tables
<1>3. b \in UserIds /\ new \in BOOLEAN /\ reuses \in BOOLEAN /\ (req[r].reuses => reuses)
  BY <1>1 DEF UsersTypes, Request, UserIds
<1>4. Inserts(r, new, b, reuses)
  BY DEF InsertUnauthenticated, Inserts
<1>5. /\ StepOf(r) /\ KeepsWork(r) /\ req'[r].pc = "share" /\ req'[r].owner = b /\ req'[r].made = new
      /\ req'[r].seen = req[r].seen /\ req'[r].lock = req[r].lock /\ req'[r].moved = req[r].moved /\ req'[r].reuses = reuses
  <2> HIDE DEF new, reuses, b
  <2> QED
    BY <1>1, <1>3, <1>4, InsertsStep
<1>6. AtPhase(req'[r], r)
  BY <1>1, <1>2, <1>5 DEF AtPhase, Phase, LockPhase, WritePhase, Outside, StepOf, KeepsWork, SignedIn
<1>7. req[r].lock = "none"
  BY <1>1, <1>2 DEF AtPhase, LockPhase, SignedIn, UsersTypes, Request, Locks
<1>8. HeldStands(r)'
  BY <1>2, <1>5, <1>6, <1>7 DEF HeldStands, HeldStandsIn, SignedIn, StepOf, AtPhase, Phase
<1>9. OwnerIsAnAccount(r)' /\ OwnerIsTheSubjects(r)'
  BY <1>2, <1>5 DEF OwnerIsAnAccount, OwnerIsTheSubjects, IsTheSubjectsIn, SignedIn, StepOf
<1>10. \A o \in Requests \ {r} : Excludes(req'[r], req[o]) /\ Excludes(req[o], req'[r])
  <2> TAKE o \in Requests \ {r}
  <2>1. req[o].made /\ req[o].subject = NoSubject => req[o].browser # b
    BY <1>2 DEF HoldsInsert, SignedIn
  <2> QED
    BY <1>2, <1>5, <1>7, <2>1 DEF Excludes, StepOf, SignedIn
<1>11. req'[r].made => (NoIdIsReused' => ActsAs(b) = {})
  BY <1>5 DEF NoIdIsReused
<1> QED
  BY <1>2, <1>5, <1>6, <1>8, <1>9, <1>10, <1>11, SameUsers DEF GoesOn

\* read_user(for_share=True).
LEMMA ShareUnauthenticatedUsers ==
  ASSUME UsersOK, NEW r \in Requests, ShareUnauthenticated(r)
  PROVE  UsersOK' /\ GoesOn(r)
<1> DEFINE b == req[r].browser
<1>1. /\ UsersTypes /\ UsersInv /\ AtPhase(req[r], r) /\ NoUser \notin UserIds
  BY IdentityAssumption DEF UsersOK, UsersInv, CallsHaveAPhase
<1>2. /\ req[r].pc = "share" /\ ~SignedIn(r) /\ req[r].owner = b
      /\ \A q \in Requests \ {r} : ~HoldsAlone(q, b)
  BY <1>1 DEF ShareUnauthenticated, AtPhase, Phase, SignedIn
<1>3. "work" \in PCs /\ "resolve" \in PCs /\ "share" \in Locks
  BY Values
<1>4. CASE Abort(r)
  BY <1>2, <1>4, AbortUsers
<1>5. CASE /\ req[r].made \/ users[b] = "unauthenticated"
           /\ req' = [req EXCEPT ![r].lock = "share", ![r].pc = "work"]
           /\ UNCHANGED <<tables, auth0>>
  <2> DEFINE left == [req[r] EXCEPT !.lock = "share", !.pc = "work"]
  <2>1. req[r] \in Request /\ left \in Request
    BY <1>1, <1>3, MoveTypes DEF UsersTypes
  <2>2. req'[r] = left /\ req' = [req EXCEPT ![r] = req'[r]]
    BY <1>1, <1>5 DEF UsersTypes
  <2>3. /\ StepOf(r) /\ KeepsWork(r) /\ req'[r].pc = "work" /\ req'[r].owner = req[r].owner
        /\ req'[r].made = req[r].made /\ req'[r].seen = req[r].seen /\ req'[r].lock = "share" /\ req'[r].moved = req[r].moved
    BY ONLY <2>1, <2>2 DEF StepOf, KeepsWork, Request
  <2>4. AtPhase(req'[r], r)
    BY <1>1, <1>2, <2>3 DEF AtPhase, Phase, LockPhase, WritePhase, Outside, StepOf, KeepsWork, SignedIn
  <2>5. users' = users /\ identities' = identities
    BY <1>5 DEF tables
  <2>6. HeldStands(r)'
    <3>1. HeldStands(r)
      BY <1>1 DEF UsersInv, WhatIsHeldStands
    <3> QED
      BY <1>2, <1>5, <2>3, <2>4, <2>5, <3>1 DEF HeldStands, HeldStandsIn, SignedIn, StepOf, AtPhase, Phase
  <2>7. OwnerIsAnAccount(r)' /\ OwnerIsTheSubjects(r)'
    BY <1>2, <2>3 DEF OwnerIsAnAccount, OwnerIsTheSubjects, IsTheSubjectsIn, SignedIn, StepOf
  <2>8. \A o \in Requests \ {r} : Excludes(req'[r], req[o]) /\ Excludes(req[o], req'[r])
    <3> TAKE o \in Requests \ {r}
    <3>1. Excludes(req[r], req[o]) /\ Excludes(req[o], req[r])
      BY <1>1 DEF UsersInv, TransactionsExclude
    <3>2. /\ req[o].lock = "update" => req[o].browser # b
          /\ req[o].pc = "cascade" => req[o].owner # b
      BY <1>2 DEF HoldsAlone, HoldsUpdate, HoldsDelete
    <3> QED
      BY <2>3, <3>1, <3>2 DEF Excludes, StepOf
  <2>9. req[r].subject = NoSubject
    BY <1>2 DEF SignedIn
  <2> QED
    BY <1>2, <2>3, <2>4, <2>5, <2>6, <2>7, <2>8, SameUsers DEF GoesOn
<1>6. CASE /\ ~req[r].made
           /\ req' = [req EXCEPT ![r].again = TRUE, ![r].pc = "resolve"]
           /\ UNCHANGED <<tables, auth0>>
  <2> DEFINE left == [req[r] EXCEPT !.again = TRUE, !.pc = "resolve"]
  <2>1. req[r] \in Request /\ left \in Request
    BY <1>1, <1>3, MoveTypes DEF UsersTypes
  <2>2. req'[r] = left /\ req' = [req EXCEPT ![r] = req'[r]]
    BY <1>1, <1>6 DEF UsersTypes
  <2>3. /\ StepOf(r) /\ KeepsWork(r) /\ KeepsUser(r) /\ req'[r].pc = "resolve"
    BY ONLY <2>1, <2>2 DEF StepOf, KeepsWork, KeepsUser, Request
  <2>4. AtPhase(req'[r], r)
    BY <1>1, <1>2, <1>6, <2>3
    DEF AtPhase, Phase, LockPhase, WritePhase, Outside, StepOf, KeepsWork, KeepsUser, SignedIn
  <2> QED
    BY <1>2, <1>6, <2>3, <2>4, PlainMove DEF KeepsUser, tables, GoesOn
<1> QED
  BY <1>4, <1>5, <1>6 DEF ShareUnauthenticated

\* find_in_session.
LEMMA FindUnauthenticatedUsers ==
  ASSUME UsersOK, NEW r \in Requests, FindUnauthenticated(r)
  PROVE  UsersOK' /\ GoesOn(r)
<1> DEFINE b == req[r].browser  u == IF users[b] = "none" THEN NoUser ELSE b
<1>1. /\ UsersTypes /\ UsersInv /\ AtPhase(req[r], r) /\ NoUser \notin UserIds
  BY IdentityAssumption DEF UsersOK, UsersInv, CallsHaveAPhase
<1>2. /\ req[r].pc = "resolve" /\ ~SignedIn(r) /\ req[r].verb \in {"get", "list", "export", "close"}
      /\ "work" \in PCs
  BY Values DEF FindUnauthenticated
<1>3. CASE Abort(r)
  BY <1>2, <1>3, AbortUsers
<1>4. CASE Resolved(r, u) /\ UNCHANGED <<tables, auth0>>
  <2>1. u \in UserIds \union {NoUser} /\ ActAs(r, u, "work") /\ users' = users /\ identities' = identities
    BY <1>1, <1>4 DEF Resolved, ActAs, UsersTypes, Request, UserIds, tables
  <2>2. StepOf(r) /\ KeepsWork(r) /\ req'[r].pc = "work" /\ req'[r].owner = u
        /\ req'[r].made = req[r].made /\ req'[r].seen = req[r].seen /\ req'[r].lock = req[r].lock /\ req'[r].moved = req[r].moved
    BY <1>1, <1>2, <2>1, OwnerStep
  <2>3. AtPhase(req'[r], r) /\ ~req[r].made
    BY <1>1, <1>2, <2>2 DEF AtPhase, Phase, LockPhase, WritePhase, Outside, StepOf, KeepsWork, SignedIn
  <2>4. HeldStands(r)'
    <3>1. HeldStands(r) /\ ~req'[r].seen
      BY <1>1, <1>2, <2>2, <2>3 DEF UsersInv, WhatIsHeldStands, AtPhase, Phase, SignedIn, StepOf
    <3> QED
      BY <2>1, <2>2, <3>1 DEF HeldStands, HeldStandsIn, SignedIn, StepOf
  <2>5. OwnerIsAnAccount(r)' /\ OwnerIsTheSubjects(r)'
    BY <1>2, <2>2 DEF OwnerIsAnAccount, OwnerIsTheSubjects, IsTheSubjectsIn, SignedIn, StepOf
  <2>6. \A o \in Requests \ {r} : Excludes(req'[r], req[o]) /\ Excludes(req[o], req'[r])
    <3> TAKE o \in Requests \ {r}
    <3>1. Excludes(req[r], req[o]) /\ Excludes(req[o], req[r])
      BY <1>1 DEF UsersInv, TransactionsExclude
    <3> QED
      BY <2>2, <3>1 DEF Excludes, StepOf
  <2> QED
    BY <1>2, <2>1, <2>2, <2>3, <2>4, <2>5, <2>6, SameUsers DEF GoesOn
<1> QED
  BY <1>3, <1>4 DEF FindUnauthenticated

\* The steps of the two provisioning services.
LEMMA ResolveUsers ==
  ASSUME UsersOK, NEW r \in Requests, Resolve(r)
  PROVE  UsersOK' /\ GoesOn(r)
BY ReadIdentityUsers, RefreshActivityUsers, ProvisionUserUsers, RereadIdentityUsers,
   InsertUnauthenticatedUsers, ShareUnauthenticatedUsers, FindUnauthenticatedUsers DEF Resolve

\* A call that only goes on to the next one.
LEMMA GotoUsers ==
  ASSUME UsersOK, NEW r \in Requests, req[r].pc # "done", NEW pc \in PCs, pc \notin {"write", "remove", "cascade"},
         Goto(r, pc), UNCHANGED <<tables, auth0>>, AtPhase(req'[r], r)
  PROVE  UsersOK' /\ GoesOn(r)
<1>1. StepOf(r) /\ KeepsUser(r) /\ req'[r].pc = pc /\ users' = users /\ identities' = identities
  BY GotoStep DEF UsersOK, tables
<1> QED
  BY <1>1, PlainMove DEF KeepsUser, GoesOn

\* read_unauthenticated_user_for_update: the browser's row is locked by no other
\* transaction, and its key by no merge.
LEMMA LockForUpgradeUsers ==
  ASSUME UsersOK, NEW r \in Requests, LockForUpgrade(r)
  PROVE  UsersOK' /\ GoesOn(r)
<1> DEFINE b == req[r].browser
           here == users[b] = "unauthenticated"
           writes == {q \in Requests \ {r} : HoldsInsert(q, b) \/ HoldsShare(q, b)}
           pc == IF here THEN "find" ELSE "resolve"
           lock == IF here THEN "update" ELSE "none"
           outcome == IF here THEN "merged" ELSE "none"
           left == [req[r] EXCEPT !.pc = pc, !.lock = lock, !.outcome = outcome, !.inflight = writes]
<1>1. /\ UsersTypes /\ UsersInv /\ AtPhase(req[r], r)
  BY DEF UsersOK, UsersInv, CallsHaveAPhase
<1>2. /\ req[r].pc = "upgrade" /\ users' = users /\ identities' = identities
      /\ here => ~Locked(r, b)
  BY DEF LockForUpgrade, tables
<1>3. req[r] \in Request /\ left \in Request
  <2>1. pc \in PCs /\ lock \in Locks /\ outcome \in Outcomes /\ writes \in SUBSET Requests /\ req[r] \in Request
    BY <1>1, Values DEF UsersTypes
  <2> HIDE DEF pc, lock, outcome, writes
  <2> QED
    BY <2>1, MoveTypes
<1>4. req'[r] = left /\ req' = [req EXCEPT ![r] = req'[r]]
  BY <1>1 DEF UsersTypes, LockForUpgrade
<1>5. /\ StepOf(r) /\ req'[r].owner = req[r].owner /\ req'[r].made = req[r].made
      /\ req'[r].seen = req[r].seen /\ req'[r].moved = req[r].moved
      /\ req'[r].pc = pc /\ req'[r].lock = lock /\ req'[r].outcome = outcome
  <2> HIDE DEF pc, lock, outcome, writes
  <2> QED
    BY ONLY <1>3, <1>4 DEF StepOf, Request
<1>6. SignedIn(r) /\ req[r].verb = "upgrade" /\ req[r].owner = NoUser /\ ~req[r].made
  BY <1>1, <1>2 DEF AtPhase, Phase, SignedIn, Outside
<1>7. AtPhase(req'[r], r)
  BY <1>1, <1>2, <1>5, <1>6 DEF AtPhase, Phase, LockPhase, WritePhase, Outside, StepOf, SignedIn
<1>8. HeldStands(r)'
  BY <1>2, <1>5, <1>6, <1>7 DEF HeldStands, HeldStandsIn, SignedIn, StepOf, AtPhase, Phase
<1>9. OwnerIsAnAccount(r)'
  BY <1>5, <1>6 DEF OwnerIsAnAccount
<1>10. NoIdIsReused' => OwnerIsTheSubjects(r)'
  <2> SUFFICES ASSUME NEW q \in Requests, HoldsInsert(q, NoUser)'
               PROVE  FALSE
    BY <1>5, <1>6 DEF OwnerIsTheSubjects, IsTheSubjectsIn
  <2>1. req' \in [Requests -> Request]
    BY <1>1, <1>5, StepTypes
  <2> QED
    BY <2>1, IdentityAssumption DEF HoldsInsert, Request, UserIds
<1>11. \A o \in Requests \ {r} : Excludes(req'[r], req[o]) /\ Excludes(req[o], req'[r])
  <2> TAKE o \in Requests \ {r}
  <2>1. here => ~HoldsShare(o, b) /\ ~HoldsUpdate(o, b) /\ ~HoldsDelete(o, b) /\ ~HoldsOwnerKey(o, b)
    BY <1>2 DEF Locked, LockedBy, HoldsAlone
  <2>2. req[o].lock \in {"none", "share", "update"}
    BY <1>1 DEF UsersTypes, Request, Locks
  <2> QED
    BY <1>5, <1>6, <2>1, <2>2 DEF Excludes, StepOf, HoldsShare, HoldsUpdate, HoldsDelete, HoldsOwnerKey
<1> QED
  BY <1>2, <1>5, <1>6, <1>7, <1>8, <1>9, <1>10, <1>11, SameUsers DEF SignedIn, GoesOn

\* The statements of the conversion and of the merge.
LEMMA ConvertUsers ==
  ASSUME UsersOK, NEW r \in Requests, Convert(r)
  PROVE  /\ UsersOK' /\ StepOf(r) /\ req'[r].pc # "write"
         /\ req'[r].pc = "remove" =>
               /\ req'[r].moved = {a \in Owned(req[r].browser) : assocs[a].kind \in ReassignedKinds}
               /\ UNCHANGED tables
<1>1. /\ UsersTypes /\ UsersInv /\ AtPhase(req[r], r)
  BY DEF UsersOK, UsersInv, CallsHaveAPhase
<1>2. CASE LockForUpgrade(r)
  BY <1>2, LockForUpgradeUsers DEF GoesOn
<1>3. CASE FindForUpgrade(r)
  <2>1. PICK pc \in {"identity", "resolve"} : Goto(r, pc)
    BY <1>3 DEF FindForUpgrade
  <2>2. pc \in PCs /\ pc \notin {"write", "remove", "cascade"} /\ req[r].pc = "find" /\ UNCHANGED <<tables, auth0>>
    BY <1>3, Values DEF FindForUpgrade
  <2>3. StepOf(r) /\ KeepsUser(r) /\ KeepsWork(r) /\ req'[r].pc = pc
    BY <1>1, <2>1, <2>2, GotoStep
  <2>4. AtPhase(req'[r], r)
    BY <1>1, <2>2, <2>3 DEF AtPhase, Phase, LockPhase, WritePhase, Outside, StepOf, KeepsWork, KeepsUser
  <2> QED
    BY <2>1, <2>2, <2>4, GotoUsers DEF GoesOn
<1>4. CASE ConvertInPlace(r)
  <2>1. req[r].pc = "identity" /\ "resolve" \in PCs /\ "converted" \in Outcomes
    BY <1>4, Values DEF ConvertInPlace
  <2>4. ~\E q \in Requests \ {r} : HoldsIdentity(q, req[r].subject)
    BY <1>4 DEF ConvertInPlace
  <2>2. CASE Goto(r, "resolve") /\ UNCHANGED <<tables, auth0>>
    <3>1. StepOf(r) /\ KeepsUser(r) /\ KeepsWork(r) /\ req'[r].pc = "resolve"
      BY <1>1, <2>1, <2>2, GotoStep
    <3>2. AtPhase(req'[r], r)
      BY <1>1, <2>1, <3>1 DEF AtPhase, Phase, LockPhase, WritePhase, Outside, StepOf, KeepsWork, KeepsUser
    <3> QED
      BY <2>1, <2>2, <3>2, GotoUsers DEF GoesOn
  <2>3. CASE /\ identities[req[r].subject] = NoUser
             /\ users' = [users EXCEPT ![req[r].browser] = "standard"]
             /\ identities' = [identities EXCEPT ![req[r].subject] = req[r].browser]
             /\ Answer(r, "converted")
    <3>1. StepOf(r) /\ Ended(req'[r]) /\ AtPhase(req'[r], r) /\ req'[r].pc = "done"
      BY <1>1, <2>1, <2>3, AnswerStep
    <3>2. req[r].lock = "update"
      BY <1>1, <2>1 DEF AtPhase, LockPhase
    <3>3. Sound(r, users', identities')
      BY <2>1, <2>3, <2>4, <3>2, ConversionIsSound
    <3> QED
      BY <2>1, <3>1, <3>3, EndingStep
  <2> QED
    BY <1>4, <2>2, <2>3 DEF ConvertInPlace
<1>5. CASE Reassign(r)
  <2>1. req[r].pc = "work" /\ req[r].verb = "upgrade" /\ req[r].outcome = "merged" /\ "remove" \in PCs
    BY <1>5, Values DEF Reassign
  <2>2. CASE Abort(r)
    BY <2>1, <2>2, AbortUsers DEF GoesOn
  <2>3. ASSUME NEW rows \in SUBSET AssocIds, rows # {} => OwnerIsFree(r),
               req' = [req EXCEPT ![r].moved = rows, ![r].pc = "remove"], UNCHANGED <<tables, auth0>>
        PROVE  UsersOK' /\ StepOf(r) /\ req'[r].pc = "remove" /\ req'[r].moved = rows
    <3> DEFINE left == [req[r] EXCEPT !.moved = rows, !.pc = "remove"]
    <3>1. req[r] \in Request /\ left \in Request
      BY <1>1, <2>1, MoveTypes DEF UsersTypes
    <3>2. req'[r] = left /\ req' = [req EXCEPT ![r] = req'[r]]
      BY <1>1, <2>3 DEF UsersTypes
    <3>3. /\ StepOf(r) /\ KeepsWork(r) /\ req'[r].pc = "remove" /\ req'[r].owner = req[r].owner
          /\ req'[r].made = req[r].made /\ req'[r].seen = req[r].seen
          /\ req'[r].lock = req[r].lock /\ req'[r].moved = rows
      BY ONLY <3>1, <3>2 DEF StepOf, KeepsWork, Request
    <3>4. AtPhase(req'[r], r)
      BY <1>1, <2>1, <3>3 DEF AtPhase, Phase, LockPhase, WritePhase, Outside, StepOf, KeepsWork
    <3> QED
      BY <2>1, <2>3, <3>3, <3>4, PlainMove DEF tables
  <2>4. {a \in Owned(req[r].browser) : assocs[a].kind \in ReassignedKinds} \in SUBSET AssocIds
    BY DEF Owned
  <2> QED
    BY <1>5, <2>2, <2>3, <2>4 DEF Reassign, RowsToMove
<1>6. CASE DeleteMerged(r)
  <2> DEFINE b == req[r].browser
  <2>1. req[r].pc = "remove" /\ "merged" \in Outcomes
    BY <1>6, Values DEF DeleteMerged
  <2>2. CASE Abort(r)
    BY <2>1, <2>2, AbortUsers DEF GoesOn
  <2>3. CASE /\ users' = [UsersOf(r) EXCEPT ![b] = "none"] /\ identities' = IdentitiesOf(r)
             /\ Answer(r, "merged")
    <3>1. StepOf(r) /\ Ended(req'[r]) /\ AtPhase(req'[r], r) /\ req'[r].pc = "done"
      BY <1>1, <2>1, <2>3, AnswerStep
    <3>2. req[r].lock = "update" /\ b \in Browsers /\ SignedIn(r)
      BY <1>1, <2>1 DEF AtPhase, LockPhase, SignedIn, UsersTypes, Request
    <3>3. \A o \in Requests \ {r} : /\ req[o].browser = b => req[o].lock = "none"
                                    /\ req[o].pc = "cascade" => req[o].owner # b
      BY <1>1, <3>2 DEF UsersInv, TransactionsExclude, Excludes
    <3>4. UsersOf(r)[b] # "standard"
      <4>1. users[b] = "unauthenticated"
        BY <1>1, <3>2 DEF UsersInv, WhatIsHeldStands, HeldStands, HeldStandsIn
      <4>2. req[r].made => req[r].owner # b
        BY <1>1, <3>2, IdentityAssumption DEF AtPhase, Phase, SignedIn
      <4> QED
        BY <1>1, <3>2, <4>1, <4>2, IdentityAssumption DEF UsersOf, UsersTypes, UserTable, UserIds
    <3>5. Sound(r, users', identities')
      BY <2>1, <2>3, <3>2, <3>3, <3>4, CommitIsSound, RemovalIsSound
    <3> QED
      BY <2>1, <3>1, <3>5, EndingStep
  <2> QED
    BY <1>6, <2>2, <2>3 DEF DeleteMerged
<1>7. CASE UpgradeNothing(r)
  <2>1. req[r].pc = "work" /\ "none" \in Outcomes
    BY <1>7, Values DEF UpgradeNothing
  <2> QED
    BY <1>7, <2>1, AbortUsers, CommitUsers DEF UpgradeNothing, GoesOn
<1> QED
  BY <1>2, <1>3, <1>4, <1>5, <1>6, <1>7 DEF Convert

\* The handlers of /v2/me.
LEMMA AccountUsers ==
  ASSUME UsersOK, NEW r \in Requests, Account(r)
  PROVE  UsersOK' /\ GoesOn(r)
<1>1. /\ UsersTypes /\ UsersInv /\ AtPhase(req[r], r) /\ NoUser \notin UserIds
      /\ req[r].owner \in UserIds \union {NoUser} /\ req[r].browser \in Browsers
      /\ req[r].subject \in Subjects \union {NoSubject}
  BY IdentityAssumption DEF UsersOK, UsersInv, CallsHaveAPhase, UsersTypes, Request
<1>2. /\ "ok" \in Outcomes
      /\ "resolve" \in PCs /\ "upgrade" \in PCs /\ "prepare" \in PCs /\ "close" \in PCs
      /\ "work" \in PCs /\ "cascade" \in PCs /\ "auth0" \in PCs
  BY Values
<1>3. CASE OpenAccount(r)
  <2>1. req[r].pc = "start" /\ req[r].kind = "account"
    BY <1>3 DEF OpenAccount
  <2>2. CASE Abort(r)
    BY <2>1, <2>2, AbortUsers
  <2>3. CASE ~Abort(r)
    <3>1. req[r].verb \in {"patch", "upgrade"} => SignedIn(r)
      BY <1>3, <2>3 DEF OpenAccount
    <3>2. PICK pc \in {"upgrade", "prepare", "resolve"} :
             /\ Goto(r, pc) /\ UNCHANGED <<tables, auth0>>
             /\ pc = "upgrade" <=> req[r].verb = "upgrade"
             /\ pc = "prepare" <=> req[r].verb = "close" /\ SignedIn(r)
      BY <1>3, <2>3 DEF OpenAccount
    <3>3. pc \in PCs /\ pc \notin {"write", "remove", "cascade"}
      BY <1>2
    <3>4. StepOf(r) /\ KeepsUser(r) /\ KeepsWork(r) /\ req'[r].pc = pc
      BY <1>1, <3>2, <3>3, GotoStep
    <3>5. AtPhase(req'[r], r)
      BY <1>1, <2>1, <3>1, <3>2, <3>4
      DEF AtPhase, Phase, LockPhase, WritePhase, Outside, StepOf, KeepsWork, KeepsUser, SignedIn
    <3> QED
      BY <2>1, <3>2, <3>3, <3>5, GotoUsers
  <2> QED
    BY <2>2, <2>3
<1>4. CASE GetAccount(r) \/ UpdateAccount(r) \/ ExportAccount(r)
  <2>1. req[r].pc = "work" /\ (Abort(r) \/ Commit(r, "ok"))
    BY <1>4 DEF GetAccount, UpdateAccount, ExportAccount, At
  <2> QED
    BY <1>2, <2>1, AbortUsers, CommitUsers
<1>5. CASE CloseUnauthenticated(r)
  <2> DEFINE b == req[r].owner
  <2>1. req[r].pc = "work" /\ ~SignedIn(r)
    BY <1>5 DEF CloseUnauthenticated, At
  <2>2. CASE Abort(r)
    BY <2>1, <2>2, AbortUsers
  <2>3. CASE users' = users /\ identities' = identities /\ Answer(r, "ok")
    BY <1>2, <2>1, <2>3, AnswerUsers
  <2>4. CASE /\ b # NoUser /\ ~Locked(r, b) /\ users[b] = "unauthenticated"
             /\ users' = [users EXCEPT ![b] = "none"] /\ identities' = identities
             /\ Answer(r, "ok")
    <3>1. StepOf(r) /\ Ended(req'[r]) /\ AtPhase(req'[r], r) /\ req'[r].pc = "done"
      BY <1>1, <1>2, <2>4, AnswerStep
    <3>2. b \in Browsers /\ users[b] # "standard"
      BY <1>1, <2>1, <2>4 DEF AtPhase, Phase, SignedIn
    <3>3. \A o \in Requests \ {r} : /\ req[o].browser = b => req[o].lock = "none"
                                    /\ req[o].pc = "cascade" => req[o].owner # b
      BY <1>1, <2>4
      DEF Locked, LockedBy, HoldsShare, HoldsAlone, HoldsUpdate, HoldsDelete, UsersTypes, Request, Locks
    <3>4. Sound(r, users, identities)
      BY <2>1, CommitIsSound
    <3>5. Sound(r, users', identities')
      BY <2>4, <3>2, <3>3, <3>4, RemovalIsSound
    <3> QED
      BY <2>1, <3>1, <3>5, EndingStep DEF GoesOn
  <2> QED
    BY <1>5, <2>2, <2>3, <2>4 DEF CloseUnauthenticated
<1>6. CASE PrepareDeletion(r)
  <2>1. req[r].pc = "prepare"
    BY <1>6 DEF PrepareDeletion
  <2>2. CASE Abort(r)
    BY <2>1, <2>2, AbortUsers
  <2>3. CASE Goto(r, "close") /\ UNCHANGED <<tables, auth0>>
    <3>1. StepOf(r) /\ KeepsUser(r) /\ KeepsWork(r) /\ req'[r].pc = "close"
      BY <1>1, <1>2, <2>3, GotoStep
    <3>2. AtPhase(req'[r], r)
      BY <1>1, <2>1, <3>1
      DEF AtPhase, Phase, LockPhase, WritePhase, Outside, StepOf, KeepsWork, KeepsUser
    <3> QED
      BY <1>2, <2>1, <2>3, <3>2, GotoUsers
  <2> QED
    BY <1>6, <2>2, <2>3 DEF PrepareDeletion
<1>7. CASE FindForClose(r)
  <2> DEFINE u == identities[req[r].subject]
  <2>1. req[r].pc = "close" /\ SignedIn(r)
    BY <1>1, <1>7 DEF FindForClose, AtPhase, Phase, SignedIn
  <2>2. u \in UserIds \union {NoUser}
    BY <1>1, <2>1 DEF UsersTypes, IdentityTable, SignedIn
  <2>3. ActAs(r, u, "work") /\ users' = users /\ identities' = identities
    BY <1>7 DEF FindForClose, ActAs, tables
  <2>4. /\ StepOf(r) /\ KeepsWork(r) /\ req'[r].pc = "work" /\ req'[r].owner = u
        /\ req'[r].made = req[r].made /\ req'[r].seen = req[r].seen /\ req'[r].lock = req[r].lock /\ req'[r].moved = req[r].moved
    BY <1>1, <1>2, <2>2, <2>3, OwnerStep
  <2>5. AtPhase(req'[r], r) /\ ~req[r].made /\ ~req'[r].seen
    BY <1>1, <2>1, <2>4 DEF AtPhase, Phase, LockPhase, WritePhase, Outside, StepOf, KeepsWork, SignedIn
  <2> QED
    BY <1>2, <2>1, <2>3, <2>4, <2>5, IdentityIsOwner DEF GoesOn
<1>8. ASSUME req[r].pc \in {"work", "cascade"}, req[r].verb = "close", SignedIn(r), Closed(r)
      PROVE  /\ StepOf(r) /\ Ended(req'[r]) /\ AtPhase(req'[r], r) /\ req'[r].pc \in {"done", "auth0"}
  <2>1. CASE Answer(r, "ok")
    BY <1>1, <1>2, <2>1, AnswerStep
  <2>2. CASE ActAs(r, NoUser, "auth0")
    <3>1. /\ StepOf(r) /\ KeepsWork(r) /\ req'[r].pc = "auth0" /\ req'[r].owner = NoUser
          /\ req'[r].made = req[r].made /\ req'[r].seen = req[r].seen
          /\ req'[r].lock = req[r].lock /\ req'[r].moved = req[r].moved
      BY <1>1, <1>2, <2>2, OwnerStep
    <3>2. ~req[r].made /\ ~req[r].seen /\ req[r].lock = "none" /\ req[r].moved = {}
      BY <1>1, <1>8 DEF AtPhase, Phase, LockPhase, SignedIn, UsersTypes, Request, Locks
    <3>3. AtPhase(req'[r], r)
      BY <1>1, <1>8, <3>1, <3>2
      DEF AtPhase, Phase, LockPhase, WritePhase, Outside, StepOf, KeepsWork, SignedIn
    <3> QED
      BY <3>1, <3>2, <3>3 DEF Ended
  <2> QED
    BY <1>8, <2>1, <2>2 DEF Closed, ActAs
<1>9. CASE CloseStandard(r)
  <2> DEFINE u == req[r].owner
  <2>1. /\ req[r].pc = "work" /\ req[r].verb = "close" /\ SignedIn(r) /\ ~Locked(r, u)
        /\ users' = users /\ identities' = identities /\ UNCHANGED <<tables, auth0>>
    BY <1>9 DEF CloseStandard, At, tables
  <2>2. CASE Closed(r)
    <3>1. Sound(r, users, identities) /\ users[r] = "none"
      BY <2>1, CommitIsSound, OpenUser
    <3> QED
      BY <1>8, <2>1, <2>2, <3>1, EndingStep DEF GoesOn
  <2>3. CASE u # NoUser /\ users[u] # "none" /\ Goto(r, "cascade")
    <3>1. StepOf(r) /\ KeepsUser(r) /\ KeepsWork(r) /\ req'[r].pc = "cascade"
      BY <1>1, <1>2, <2>3, GotoStep
    <3>2. AtPhase(req'[r], r)
      BY <1>1, <2>1, <2>3, <3>1
      DEF AtPhase, Phase, LockPhase, WritePhase, Outside, StepOf, KeepsWork, KeepsUser, SignedIn
    <3> QED
      BY <2>1, <2>3, <3>1, <3>2, PlainMove DEF KeepsUser, GoesOn
  <2> QED
    BY <1>9, <2>2, <2>3 DEF CloseStandard
<1>10. CASE Cascade(r)
  <2> DEFINE u == req[r].owner
  <2>1. /\ req[r].pc = "cascade" /\ req[r].verb = "close" /\ SignedIn(r) /\ u \in UserIds /\ Closed(r)
        /\ users' = [users EXCEPT ![u] = "none"]
        /\ identities' = [s \in Subjects |-> IF identities[s] = u THEN NoUser ELSE identities[s]]
    BY <1>1, <1>10 DEF Cascade, AtPhase, Phase, SignedIn
  <2>2. \A o \in Requests \ {r} :
           /\ req[o].browser = u => req[o].lock = "none"
           /\ req[o].pc = "cascade" => req[o].owner # u
           /\ \A s \in Subjects : identities[s] = u => ~HoldsActivity(o, s)
    BY <1>1, <1>10, <2>1 DEF Cascade, UsersInv, TransactionsExclude, Excludes
  <2>3. Sound(r, users', identities')
    BY <2>1, <2>2, ClosingIsSound
  <2>4. users'[r] = "none"
    <3>1. users[r] = "none"
      BY <2>1, OpenUser
    <3> QED
      BY <1>1, <2>1, <3>1 DEF UsersTypes, UserTable, UserIds
  <2> QED
    BY <1>8, <2>1, <2>3, <2>4, EndingStep DEF GoesOn
<1>11. CASE DeleteAuth0User(r)
  <2>1. req[r].pc = "auth0"
    BY <1>11 DEF DeleteAuth0User
  <2>2. Abort(r) \/ (Answer(r, "ok") /\ users' = users /\ identities' = identities)
    BY <1>11 DEF DeleteAuth0User, tables
  <2> QED
    BY <1>2, <2>1, <2>2, AbortUsers, AnswerUsers
<1> QED
  BY <1>3, <1>4, <1>5, <1>6, <1>7, <1>9, <1>10, <1>11 DEF Account

(***************************************************************************)
(* The resources.                                                          *)
(***************************************************************************)

\* What the four resources' operations have in common: a record is checked,
\* then written and the transaction committed.
Checks(r, item, add, drop) ==
    /\ req[r].pc = "work" /\ req[r].kind \in Kinds
    /\ \/ req[r].verb = "create" /\ item = r
       \/ req[r].verb \in {"patch", "delete"} /\ IsOwned(r, item, req[r].kind)
    /\ add \subseteq ReadOwnedUserPolicy(r)
    /\ req[r].kind # "report" => add = {} /\ drop = {}
    /\ Checked(r, item, add, drop)

Writes(r) ==
    /\ req[r].pc = "write" /\ req[r].kind \in Kinds
    /\ \/ req[r].verb = "create" /\ Insert(r, req[r].kind)
       \/ req[r].verb = "patch" /\ Update(r)
       \/ req[r].verb = "delete" /\ Delete(r)

\* Reads end their transaction, or need none.
Ends(r) ==
    /\ req[r].pc \in {"start", "work"} /\ UNCHANGED assocs
    /\ \/ Abort(r)
       \/ Commit(r, "ok") /\ req[r].pc = "work"
       \/ Answer(r, "ok") /\ UNCHANGED <<tables, auth0>>

ResourceStep(r) ==
    \/ \E item \in AssocIds, add \in SUBSET AssocIds, drop \in SUBSET AssocIds : Checks(r, item, add, drop)
    \/ Writes(r)
    \/ Ends(r)

\* Three of them name no other record.
PlainSteps(r, kind) ==
    \/ At(r, "write", "create", kind) /\ Insert(r, kind)
    \/ At(r, "write", "patch", kind) /\ Update(r)
    \/ At(r, "write", "delete", kind) /\ Delete(r)
    \/ At(r, "work", "create", kind) /\ (Checked(r, r, {}, {}) \/ Abort(r))
    \/ /\ At(r, "work", "patch", kind) \/ At(r, "work", "delete", kind)
       /\ (\E a \in AssocIds : IsOwned(r, a, kind) /\ Checked(r, a, {}, {})) \/ Abort(r)
    \/ /\ At(r, "work", "get", kind) \/ At(r, "work", "list", kind)
       /\ (Commit(r, "ok") /\ UNCHANGED assocs) \/ Abort(r)

\* Their steps are the common ones.
LEMMA PlainForm ==
  ASSUME NEW r \in Requests, NEW kind \in Kinds, PlainSteps(r, kind)
  PROVE  ResourceStep(r)
<1>1. r \in AssocIds /\ {} \in SUBSET AssocIds /\ {} \subseteq ReadOwnedUserPolicy(r)
  BY DEF AssocIds
<1>2. Abort(r) => UNCHANGED assocs
  BY DEF Abort, tables
<1>3. CASE /\ At(r, "work", "create", kind) \/ At(r, "work", "patch", kind) \/ At(r, "work", "delete", kind)
              \/ At(r, "work", "get", kind) \/ At(r, "work", "list", kind)
           /\ Abort(r)
  BY <1>2, <1>3 DEF ResourceStep, Ends, At
<1>4. CASE At(r, "work", "create", kind) /\ Checked(r, r, {}, {})
  BY <1>1, <1>4 DEF ResourceStep, Checks, At
<1>5. CASE /\ At(r, "work", "patch", kind) \/ At(r, "work", "delete", kind)
           /\ \E a \in AssocIds : IsOwned(r, a, kind) /\ Checked(r, a, {}, {})
  BY <1>1, <1>5 DEF ResourceStep, Checks, At
<1>6. CASE (At(r, "work", "get", kind) \/ At(r, "work", "list", kind)) /\ Commit(r, "ok") /\ UNCHANGED assocs
  BY <1>6 DEF ResourceStep, Ends, At
<1>7. CASE At(r, "write", "create", kind) /\ Insert(r, kind)
  BY <1>7 DEF ResourceStep, Writes, At
<1>8. CASE At(r, "write", "patch", kind) /\ Update(r)
  BY <1>8 DEF ResourceStep, Writes, At
<1>9. CASE At(r, "write", "delete", kind) /\ Delete(r)
  BY <1>9 DEF ResourceStep, Writes, At
<1> QED
  BY <1>3, <1>4, <1>5, <1>6, <1>7, <1>8, <1>9 DEF PlainSteps

\* Saved policies.
LEMMA UserPoliciesForm ==
  ASSUME NEW r \in Requests, UserPolicies(r)
  PROVE  ResourceStep(r)
<1>1. PlainSteps(r, "policy")
  <2>1. CASE CreateUserPolicy(r)
    BY <2>1 DEF CreateUserPolicy, PlainSteps
  <2>2. CASE GetUserPolicy(r) \/ ListUserPolicies(r)
    BY <2>2 DEF GetUserPolicy, ListUserPolicies, Get, List, PlainSteps
  <2>3. CASE PatchUserPolicy(r)
    BY <2>3 DEF PatchUserPolicy, ReadOwnedUserPolicy, PlainSteps
  <2>4. CASE DeleteUserPolicy(r)
    BY <2>4 DEF DeleteUserPolicy, ReadOwnedUserPolicy, PlainSteps
  <2> QED
    BY <2>1, <2>2, <2>3, <2>4 DEF UserPolicies
<1> QED
  BY <1>1, PlainForm DEF Kinds

\* Saved households.
LEMMA UserHouseholdsForm ==
  ASSUME NEW r \in Requests, UserHouseholds(r)
  PROVE  ResourceStep(r)
<1>1. PlainSteps(r, "household")
  <2>1. CASE CreateUserHousehold(r)
    BY <2>1 DEF CreateUserHousehold, PlainSteps
  <2>2. CASE GetUserHousehold(r) \/ ListUserHouseholds(r)
    BY <2>2 DEF GetUserHousehold, ListUserHouseholds, Get, List, PlainSteps
  <2>3. CASE PatchUserHousehold(r) \/ DeleteUserHousehold(r)
    BY <2>3 DEF PatchUserHousehold, DeleteUserHousehold, ReadOwnedUserHousehold, PlainSteps
  <2> QED
    BY <2>1, <2>2, <2>3 DEF UserHouseholds
<1> QED
  BY <1>1, PlainForm DEF Kinds

\* Saved simulations.
LEMMA UserSimulationsForm ==
  ASSUME NEW r \in Requests, UserSimulations(r)
  PROVE  ResourceStep(r)
<1>1. PlainSteps(r, "simulation")
  <2>1. CASE CreateUserSimulation(r)
    BY <2>1 DEF CreateUserSimulation, PlainSteps
  <2>2. CASE GetUserSimulation(r) \/ ListUserSimulations(r)
    BY <2>2 DEF GetUserSimulation, ListUserSimulations, Get, List, PlainSteps
  <2>3. CASE PatchUserSimulation(r) \/ DeleteUserSimulation(r)
    BY <2>3 DEF PatchUserSimulation, DeleteUserSimulation, ReadOwnedUserSimulation, PlainSteps
  <2> QED
    BY <2>1, <2>2, <2>3 DEF UserSimulations
<1> QED
  BY <1>1, PlainForm DEF Kinds

\* Saved reports, whose links name saved policies of the same owner.
LEMMA UserReportsForm ==
  ASSUME assocs \in [AssocIds -> Association \union {NoAssoc}], NEW r \in Requests, UserReports(r)
  PROVE  ResourceStep(r)
<1>1. "report" \in Kinds /\ r \in AssocIds /\ {} \in SUBSET AssocIds /\ {} \subseteq ReadOwnedUserPolicy(r)
      /\ ReadOwnedUserPolicy(r) \subseteq AssocIds
  BY DEF Kinds, AssocIds, ReadOwnedUserPolicy
<1>2. Abort(r) => UNCHANGED assocs
  BY DEF Abort, tables
<1>3. CASE CreateUserReport(r)
  <2>1. CASE At(r, "write", "create", "report") /\ Insert(r, "report")
    BY <1>1, <2>1 DEF ResourceStep, Writes, At
  <2>2. CASE At(r, "work", "create", "report") /\ Abort(r)
    BY <1>2, <2>2 DEF ResourceStep, Ends, At
  <2>3. CASE At(r, "work", "create", "report") /\ \E links \in SUBSET Linkable(r) : Checked(r, r, links, {})
    <3>1. PICK links \in SUBSET Linkable(r) : Checked(r, r, links, {})
      BY <2>3
    <3>2. links \in SUBSET AssocIds /\ Checks(r, r, links, {})
      BY <1>1, <2>3, <3>1 DEF Checks, At, Linkable
    <3> QED
      BY <1>1, <3>2 DEF ResourceStep
  <2> QED
    BY <1>3, <2>1, <2>2, <2>3 DEF CreateUserReport
<1>4. CASE GetUserReport(r) \/ ListUserReports(r)
  BY <1>2, <1>4 DEF GetUserReport, ListUserReports, Get, List, At, ResourceStep, Ends
<1>5. CASE PatchUserReport(r)
  <2>1. CASE At(r, "write", "patch", "report") /\ Update(r)
    BY <1>1, <2>1 DEF ResourceStep, Writes, At
  <2>2. CASE At(r, "work", "patch", "report") /\ Abort(r)
    BY <1>2, <2>2 DEF ResourceStep, Ends, At
  <2>3. CASE /\ At(r, "work", "patch", "report")
             /\ \E a \in ReadOwnedUserReport(r), links \in SUBSET Linkable(r) :
                   Checked(r, a, links \ assocs[a].links, assocs[a].links \ links)
    <3>1. PICK a \in ReadOwnedUserReport(r), links \in SUBSET Linkable(r) :
             Checked(r, a, links \ assocs[a].links, assocs[a].links \ links)
      BY <2>3
    <3>2. a \in AssocIds /\ IsOwned(r, a, "report")
      BY DEF ReadOwnedUserReport
    <3>3. assocs[a].links \subseteq AssocIds
      BY <3>2 DEF IsOwned, Association, UserPolicyRow, UserHouseholdRow, UserSimulationRow, UserReportRow
    <3>4. /\ links \ assocs[a].links \in SUBSET AssocIds /\ assocs[a].links \ links \in SUBSET AssocIds
          /\ Checks(r, a, links \ assocs[a].links, assocs[a].links \ links)
      BY <1>1, <2>3, <3>1, <3>2, <3>3 DEF Checks, At, Linkable
    <3> QED
      BY <3>2, <3>4 DEF ResourceStep
  <2> QED
    BY <1>5, <2>1, <2>2, <2>3 DEF PatchUserReport
<1>6. CASE DeleteUserReport(r)
  <2>1. CASE At(r, "write", "delete", "report") /\ Delete(r)
    BY <1>1, <2>1 DEF ResourceStep, Writes, At
  <2>2. CASE At(r, "work", "delete", "report") /\ Abort(r)
    BY <1>2, <2>2 DEF ResourceStep, Ends, At
  <2>3. CASE At(r, "work", "delete", "report") /\ \E a \in ReadOwnedUserReport(r) : Checked(r, a, {}, {})
    BY <1>1, <2>3 DEF ResourceStep, Checks, At, ReadOwnedUserReport
  <2> QED
    BY <1>6, <2>1, <2>2, <2>3 DEF DeleteUserReport
<1>7. CASE GetSharedUserReport(r)
  <2>1. /\ req[r].pc = "start" /\ UNCHANGED <<tables, auth0>> /\ UNCHANGED assocs
        /\ Answer(r, "ok") \/ Answer(r, "refused")
    BY <1>7 DEF GetSharedUserReport, At, tables
  <2> QED
    BY <2>1 DEF ResourceStep, Ends, Abort
<1> QED
  BY <1>3, <1>4, <1>5, <1>6, <1>7 DEF UserReports

\* A step of the resources on the users: what it checks it only remembers, and
\* what it writes it commits with the user it inserted.
LEMMA ResourceUsers ==
  ASSUME UsersOK, NEW r \in Requests, ResourceStep(r), req[r].pc # "done" => assocs[r] = NoAssoc
  PROVE  UsersOK' /\ StepOf(r)
<1>1. UsersTypes /\ AtPhase(req[r], r)
  BY DEF UsersOK, UsersInv, CallsHaveAPhase
<1>2. "ok" \in Outcomes /\ "created" \in Outcomes
  BY Values
<1>3. ASSUME NEW item \in AssocIds, NEW add \in SUBSET AssocIds, NEW drop \in SUBSET AssocIds,
             Checks(r, item, add, drop)
      PROVE  UsersOK' /\ StepOf(r)
  <2>1. Checked(r, item, add, drop) /\ req[r].pc = "work"
    BY <1>3 DEF Checks
  <2>2. /\ StepOf(r) /\ KeepsUser(r) /\ req'[r].pc = "write" /\ req'[r].outcome = req[r].outcome
        /\ req'[r].item = item /\ req'[r].add = add /\ req'[r].drop = drop
    BY <1>1, <2>1, CheckedStep
  <2>3. req[r].owner # NoUser
    <3>1. req[r].browser # NoUser
      BY <1>1, IdentityAssumption DEF UsersTypes, Request, UserIds
    <3> QED
      BY <1>1, <1>3, <3>1 DEF Checks, IsOwned, AtPhase, Phase, LockPhase
  <2>4. AtPhase(req'[r], r)
    <3>1. req[r].verb \in {"create", "patch", "delete"} /\ req[r].kind \in Kinds /\ "account" \notin Kinds
      BY <1>3 DEF Checks, Kinds
    <3>2. Phase(req'[r], r) /\ LockPhase(req'[r])
      BY <1>1, <2>1, <2>2, <2>3, <3>1 DEF AtPhase, Phase, LockPhase, Outside, StepOf, KeepsUser
    <3>3. req[r].verb = "create" <=> item = r
      <4>1. IsOwned(r, item, req[r].kind) => item # r
        BY <2>1 DEF IsOwned
      <4> QED
        BY <1>3, <4>1 DEF Checks
    <3>4. WritePhase(req'[r], r)
      BY <1>3, <2>2, <3>1, <3>3 DEF WritePhase, Checks, StepOf
    <3> QED
      BY <3>2, <3>4 DEF AtPhase
  <2> QED
    BY <2>1, <2>2, <2>4, PlainMove DEF KeepsUser, Checked, tables
<1>4. CASE Writes(r)
  <2>1. req[r].pc = "write" /\ (Abort(r) \/ Commit(r, "ok") \/ Commit(r, "created"))
    BY <1>4 DEF Writes, Insert, Update, Delete
  <2> QED
    BY <1>2, <2>1, AbortUsers, CommitUsers DEF GoesOn
<1>5. CASE Ends(r)
  BY <1>2, <1>5, AbortUsers, CommitUsers, AnswerUsers DEF Ends, tables, GoesOn
<1> QED
  BY <1>3, <1>4, <1>5 DEF ResourceStep

(***************************************************************************)
(* Steps keep RecordsInv.                                                  *)
(***************************************************************************)

RecordsOK == UsersOK /\ assocs \in [AssocIds -> Association \union {NoAssoc}] /\ RecordsInv

\* The rows of the association tables.
LEMMA Rows ==
  /\ NoAssoc \notin Association
  /\ \A x \in Association :
        /\ x.kind \in Kinds /\ x.owner \in UserIds /\ x.links \in SUBSET AssocIds
        /\ x.kind # "report" => x.links = {}
        /\ [x EXCEPT !.links = x.links] = x
        /\ \A owner \in UserIds : /\ [x EXCEPT !.owner = owner] \in Association
                                  /\ [x EXCEPT !.owner = owner].owner = owner
                                  /\ [x EXCEPT !.owner = owner].kind = x.kind
                                  /\ [x EXCEPT !.owner = owner].links = x.links
        /\ \A links \in SUBSET AssocIds :
              x.kind = "report" \/ links = {} =>
                 /\ [x EXCEPT !.links = links] \in Association
                 /\ [x EXCEPT !.links = links].owner = x.owner
                 /\ [x EXCEPT !.links = links].kind = x.kind
                 /\ [x EXCEPT !.links = links].links = links
  /\ \A kind \in Kinds, owner \in UserIds, links \in SUBSET AssocIds :
        kind = "report" \/ links = {} => [kind |-> kind, owner |-> owner, links |-> links] \in Association
<1> USE DEF Association, UserPolicyRow, UserHouseholdRow, UserSimulationRow, UserReportRow, Kinds
<1>1. NoAssoc \notin Association
  BY IdentityAssumption
<1>2. ASSUME NEW x \in Association
      PROVE  /\ x.kind \in Kinds /\ x.owner \in UserIds /\ x.links \in SUBSET AssocIds
             /\ x.kind # "report" => x.links = {}
             /\ [x EXCEPT !.links = x.links] = x
  OBVIOUS
<1>3. ASSUME NEW x \in Association, NEW owner \in UserIds
      PROVE  /\ [x EXCEPT !.owner = owner] \in Association
             /\ [x EXCEPT !.owner = owner].owner = owner
             /\ [x EXCEPT !.owner = owner].kind = x.kind
             /\ [x EXCEPT !.owner = owner].links = x.links
  OBVIOUS
<1>4. ASSUME NEW kind \in Kinds, NEW owner \in UserIds, NEW links \in SUBSET AssocIds,
             kind = "report" \/ links = {}
      PROVE  [kind |-> kind, owner |-> owner, links |-> links] \in Association
  <2>1. kind = "policy" => [kind |-> kind, owner |-> owner, links |-> links] \in UserPolicyRow
    BY <1>4
  <2>2. kind = "household" => [kind |-> kind, owner |-> owner, links |-> links] \in UserHouseholdRow
    BY <1>4
  <2>3. kind = "simulation" => [kind |-> kind, owner |-> owner, links |-> links] \in UserSimulationRow
    BY <1>4
  <2>4. kind = "report" => [kind |-> kind, owner |-> owner, links |-> links] \in UserReportRow
    OBVIOUS
  <2>5. kind \in {"policy", "household", "simulation", "report"}
    OBVIOUS
  <2> QED
    BY ONLY <2>1, <2>2, <2>3, <2>4, <2>5 DEF Association
<1>5. ASSUME NEW x \in Association, NEW links \in SUBSET AssocIds, x.kind = "report" \/ links = {}
      PROVE  /\ [x EXCEPT !.links = links] \in Association
             /\ [x EXCEPT !.links = links].owner = x.owner
             /\ [x EXCEPT !.links = links].kind = x.kind
             /\ [x EXCEPT !.links = links].links = links
  <2>1. [x EXCEPT !.links = links] = [kind |-> x.kind, owner |-> x.owner, links |-> links]
    OBVIOUS
  <2>2. [kind |-> x.kind, owner |-> x.owner, links |-> links] \in Association
    BY ONLY <1>2, <1>4, <1>5
  <2> QED
    BY ONLY <2>1, <2>2
<1> QED
  BY ONLY <1>1, <1>2, <1>3, <1>4, <1>5

\* An open request has saved nothing.
LEMMA OpenRow ==
  ASSUME RecordsOK, NEW r \in Requests, req[r].pc # "done"
  PROVE  assocs[r] = NoAssoc
  BY DEF RecordsOK, RecordsInv, RecordsStand, AssocIds

\* A step that leaves the owners of the records it keeps: the other requests'
\* checks still stand.
LEMMA SameOwners ==
  ASSUME RecordsOK, UsersOK', NEW r \in Requests, req[r].pc # "done", StepOf(r),
         assocs' \in [AssocIds -> Association \union {NoAssoc}],
         \A a \in AssocIds \ {r} : assocs'[a] # NoAssoc =>
             assocs[a] # NoAssoc /\ assocs'[a].kind = assocs[a].kind /\ assocs'[a].owner = assocs[a].owner,
         assocs'[r] # NoAssoc => req'[r].pc = "done",
         RecordsStand', MergesAreComplete', CheckStands(r)',
         NoIdIsReused' => LinksAreOwn' /\ WritesItsOwn(r)'
  PROVE  RecordsOK'
<1>1. UsersTypes /\ RecordsInv
  BY DEF RecordsOK, UsersOK
<1>2. /\ req' \in [Requests -> Request]
      /\ \A o \in Requests \ {r} : req'[o] = req[o]
      /\ NoIdIsReused' => NoIdIsReused
  BY <1>1, StepTypes
<1>3. \A o \in Requests \ {r} :
         req[o].pc = "write" => r \notin req[o].add /\ req[o].item # r /\ req[o].item \in AssocIds
                                /\ req[o].add \subseteq AssocIds
  <2> SUFFICES ASSUME NEW o \in Requests \ {r}, req[o].pc = "write"
               PROVE  r \notin req[o].add /\ req[o].item # r /\ req[o].item \in AssocIds
                      /\ req[o].add \subseteq AssocIds
    OBVIOUS
  <2>1. CheckStands(o)
    BY <1>1 DEF RecordsInv, ChecksStand
  <2>2. AtPhase(req[o], o) /\ req[o] \in Request
    BY <1>1 DEF RecordsOK, UsersOK, UsersInv, CallsHaveAPhase, UsersTypes
  <2>3. req[o].item \in AssocIds /\ req[o].add \subseteq AssocIds
    BY <2>2 DEF AtPhase, WritePhase, Request
  <2> QED
    BY <2>1, <2>3 DEF CheckStands
<1>4. ChecksStand'
  <2> SUFFICES ASSUME NEW o \in Requests \ {r}
               PROVE  CheckStands(o)'
    BY DEF ChecksStand
  <2>1. CheckStands(o)
    BY <1>1 DEF RecordsInv, ChecksStand
  <2> QED
    BY <1>2, <1>3, <2>1 DEF CheckStands
<1>5. WorkHasOneOwner'
  <2> SUFFICES ASSUME NoIdIsReused', NEW o \in Requests \ {r}
               PROVE  WritesItsOwn(o)'
    BY DEF WorkHasOneOwner
  <2>1. WritesItsOwn(o)
    BY <1>1, <1>2 DEF RecordsInv, WorkHasOneOwner
  <2> QED
    BY <1>2, <1>3, <2>1 DEF WritesItsOwn
<1> QED
  BY <1>4, <1>5 DEF RecordsOK, RecordsInv

\* A step that leaves the records, and the users that own them.
LEMMA SameRecords ==
  ASSUME RecordsOK, UsersOK', NEW r \in Requests, req[r].pc # "done", StepOf(r), assocs' = assocs,
         \A u \in UserIds : users[u] # "none" => users'[u] # "none",
         MergeIsComplete(r)', CheckStands(r)', NoIdIsReused' => WritesItsOwn(r)'
  PROVE  RecordsOK'
<1>1. UsersTypes /\ RecordsInv /\ assocs \in [AssocIds -> Association \union {NoAssoc}]
  BY DEF RecordsOK, UsersOK
<1>2. /\ \A o \in Requests \ {r} : req'[o] = req[o]
      /\ NoIdIsReused' => NoIdIsReused
      /\ assocs[r] = NoAssoc
  BY <1>1, StepTypes, OpenRow
<1>3. RecordsStand'
  <2>1. \A a \in AssocIds : assocs[a] # NoAssoc => assocs[a].owner \in UserIds
    BY <1>1, Rows
  <2> QED
    BY <1>1, <1>2, <2>1 DEF RecordsInv, RecordsStand
<1>4. MergesAreComplete'
  BY <1>1, <1>2 DEF RecordsInv, MergesAreComplete, MergeIsComplete, Owned
<1>5. NoIdIsReused' => LinksAreOwn'
  BY <1>1, <1>2 DEF RecordsInv, WorkHasOneOwner, LinksAreOwn
<1> QED
  BY <1>1, <1>2, <1>3, <1>4, <1>5, SameOwners

\* A step that neither starts to write nor to remove.
LEMMA GoesOnRecords ==
  ASSUME RecordsOK, UsersOK', NEW r \in Requests, req[r].pc # "done", GoesOn(r), assocs' = assocs,
         \A u \in UserIds : users[u] # "none" => users'[u] # "none"
  PROVE  RecordsOK'
<1>1. MergeIsComplete(r)' /\ CheckStands(r)' /\ WritesItsOwn(r)'
  BY DEF MergeIsComplete, CheckStands, WritesItsOwn, GoesOn
<1> QED
  BY <1>1, SameRecords DEF GoesOn

\* A commit keeps the users that there are.
LEMMA UsersStay ==
  ASSUME UsersTypes, NEW r \in Requests, NEW u \in UserIds, users[u] # "none"
  PROVE  UsersOf(r)[u] # "none"
  BY DEF UsersOf, UsersTypes, UserTable

\* Deleting records: links to them go, and no merge is moving them.
LEMMA WithoutRecords ==
  ASSUME RecordsOK, UsersOK', NEW r \in Requests, req[r].pc # "done", GoesOn(r), NEW gone \in SUBSET AssocIds,
         assocs' = Without(assocs, gone),
         \A a \in AssocIds \ gone : assocs[a] # NoAssoc => users'[assocs[a].owner] # "none",
         \A o \in Requests \ {r} : req[o].pc = "remove" => req[o].moved \intersect gone = {}
  PROVE  RecordsOK'
<1>1. UsersTypes /\ RecordsInv /\ assocs \in [AssocIds -> Association \union {NoAssoc}]
  BY DEF RecordsOK, UsersOK
<1>2. /\ req' \in [Requests -> Request]
      /\ \A o \in Requests \ {r} : req'[o] = req[o]
      /\ NoIdIsReused' => NoIdIsReused
      /\ assocs[r] = NoAssoc /\ StepOf(r)
  BY <1>1, StepTypes, OpenRow DEF GoesOn
<1>3. ASSUME NEW a \in AssocIds
      PROVE  /\ assocs'[a] \in Association \union {NoAssoc}
             /\ assocs'[a] # NoAssoc <=> assocs[a] # NoAssoc /\ a \notin gone
             /\ assocs'[a] # NoAssoc => /\ assocs'[a].owner = assocs[a].owner /\ assocs'[a].kind = assocs[a].kind
                                        /\ assocs'[a].links = assocs[a].links \ gone
  <2>1. CASE a \in gone \/ assocs[a] = NoAssoc
    BY <2>1 DEF Without
  <2>2. CASE a \notin gone /\ assocs[a] # NoAssoc
    <3> DEFINE links == assocs[a].links \ gone
    <3>1. assocs[a] \in Association /\ links \in SUBSET AssocIds /\ (assocs[a].kind = "report" \/ links = {})
      BY <1>1, <2>2, Rows
    <3>2. assocs'[a] = [assocs[a] EXCEPT !.links = links]
      BY <2>2 DEF Without
    <3> HIDE DEF links
    <3>3. /\ assocs'[a] \in Association /\ assocs'[a].owner = assocs[a].owner
          /\ assocs'[a].kind = assocs[a].kind /\ assocs'[a].links = links
      BY <3>1, <3>2, Rows
    <3> QED
      BY <2>2, <3>3, Rows DEF links
  <2> QED
    BY <2>1, <2>2
<1>4. assocs' \in [AssocIds -> Association \union {NoAssoc}]
  BY <1>3 DEF Without
<1>5. RecordsStand'
  <2> SUFFICES ASSUME NEW a \in AssocIds, assocs'[a] # NoAssoc
               PROVE  /\ users'[assocs'[a].owner] # "none"
                      /\ a \in Requests => req'[a].pc = "done"
                      /\ \A p \in assocs'[a].links : assocs'[p] # NoAssoc /\ assocs'[p].kind = "policy"
    BY DEF RecordsStand
  <2>1. /\ a \in Requests => req[a].pc = "done"
        /\ \A p \in assocs[a].links : p \in AssocIds /\ assocs[p] # NoAssoc /\ assocs[p].kind = "policy"
    BY <1>1, <1>3, Rows DEF RecordsInv, RecordsStand
  <2> QED
    BY <1>2, <1>3, <2>1
<1>6. MergesAreComplete'
  <2> SUFFICES ASSUME NEW o \in Requests, req'[o].pc = "remove"
               PROVE  req'[o].moved = Owned(req[o].browser)'
    BY <1>2 DEF MergesAreComplete, MergeIsComplete, StepOf
  <2>1. o # r /\ req'[o] = req[o]
    BY <1>2 DEF GoesOn
  <2>2. req[o].moved = Owned(req[o].browser)
    BY <1>1, <2>1 DEF RecordsInv, MergesAreComplete, MergeIsComplete
  <2>3. Owned(req[o].browser)' = Owned(req[o].browser) \ gone
    BY <1>3, <2>1 DEF Owned
  <2> QED
    BY <2>1, <2>2, <2>3
<1>7. CheckStands(r)' /\ WritesItsOwn(r)'
  BY DEF CheckStands, WritesItsOwn, GoesOn
<1>8. NoIdIsReused' => LinksAreOwn'
  <2> SUFFICES ASSUME NoIdIsReused', NEW a \in AssocIds, assocs'[a] # NoAssoc, NEW p \in assocs'[a].links
               PROVE  assocs'[p].owner = assocs'[a].owner
    BY DEF LinksAreOwn
  <2>1. p \in AssocIds /\ assocs[p].owner = assocs[a].owner
    BY <1>1, <1>2, <1>3, Rows DEF RecordsInv, WorkHasOneOwner, LinksAreOwn
  <2>2. assocs'[p] # NoAssoc
    BY <1>5 DEF RecordsStand
  <2> QED
    BY <1>3, <2>1, <2>2
<1>9. /\ \A a \in AssocIds \ {r} : assocs'[a] # NoAssoc =>
            assocs[a] # NoAssoc /\ assocs'[a].kind = assocs[a].kind /\ assocs'[a].owner = assocs[a].owner
      /\ assocs'[r] = NoAssoc
  BY <1>2, <1>3 DEF AssocIds
<1> QED
  BY <1>2, <1>4, <1>5, <1>6, <1>7, <1>8, <1>9, SameOwners

\* The provisioning services write no records.
LEMMA ResolveRecords ==
  ASSUME RecordsOK, NEW r \in Requests, Resolve(r)
  PROVE  RecordsOK'
<1>1. UsersOK' /\ GoesOn(r)
  BY ResolveUsers DEF RecordsOK
<1>2. /\ req[r].pc # "done"
      /\ users' = users /\ assocs' = assocs
  BY DEF Resolve, ReadIdentity, RefreshActivity, ProvisionUser, RereadIdentity, InsertUnauthenticated,
         ShareUnauthenticated, FindUnauthenticated, Abort, tables
<1> QED
  BY <1>1, <1>2, GoesOnRecords

\* A merge deletes the browser's user, and its records are the account's.
LEMMA MergedRows ==
  ASSUME RecordsOK, NEW r \in Requests, DeleteMerged(r), ~Abort(r)
  PROVE  LET b == req[r].browser  u == req[r].owner
         IN  /\ UsersOf(r)[u] # "none" /\ users' = [UsersOf(r) EXCEPT ![b] = "none"] /\ Answer(r, "merged")
             /\ req[r].lock = "update" /\ u \in UserIds /\ u # b /\ b \in UserIds
             /\ users[b] = "unauthenticated" /\ SignedIn(r) /\ req[r].moved = Owned(b)
             /\ assocs' \in [AssocIds -> Association \union {NoAssoc}]
             /\ \A a \in AssocIds :
                   /\ assocs'[a] # NoAssoc <=> assocs[a] # NoAssoc
                   /\ a \notin Owned(b) => assocs'[a] = assocs[a]
                   /\ assocs'[a] # NoAssoc =>
                         /\ assocs'[a].owner = IF assocs[a].owner = b THEN u ELSE assocs[a].owner
                         /\ assocs'[a].kind = assocs[a].kind /\ assocs'[a].links = assocs[a].links
<1> DEFINE b == req[r].browser  u == req[r].owner
<1>1. /\ UsersOK /\ UsersTypes /\ UsersInv /\ RecordsInv
      /\ assocs \in [AssocIds -> Association \union {NoAssoc}]
      /\ req[r].pc = "remove" /\ AtPhase(req[r], r)
  BY DEF RecordsOK, UsersOK, UsersInv, CallsHaveAPhase, DeleteMerged
<1>2. /\ UsersOf(r)[u] # "none" /\ users' = [UsersOf(r) EXCEPT ![b] = "none"] /\ Answer(r, "merged")
      /\ assocs' = Without([a \in AssocIds |-> IF a \in req[r].moved THEN [assocs[a] EXCEPT !.owner = u]
                                                ELSE assocs[a]],
                           Owned(b) \ req[r].moved)
  BY DEF DeleteMerged
<1>3. /\ req[r].lock = "update" /\ u # NoUser /\ u \in UserIds /\ u # b /\ b \in UserIds
      /\ users[b] = "unauthenticated" /\ SignedIn(r)
  <2>1. req[r].lock = "update" /\ u # NoUser /\ SignedIn(r)
    BY <1>1 DEF AtPhase, Phase, LockPhase, SignedIn
  <2>2. u # b /\ users[b] = "unauthenticated"
    BY <1>1, <2>1
    DEF UsersInv, OwnersAreAccounts, OwnerIsAnAccount, WhatIsHeldStands, HeldStands, HeldStandsIn
  <2> QED
    BY <1>1, <2>1, <2>2 DEF UsersTypes, Request, UserIds
<1>4. req[r].moved = Owned(b)
  BY <1>1 DEF RecordsInv, MergesAreComplete, MergeIsComplete
<1>5. ASSUME NEW a \in AssocIds
      PROVE  /\ assocs'[a] \in Association \union {NoAssoc}
             /\ assocs'[a] # NoAssoc <=> assocs[a] # NoAssoc
             /\ a \notin Owned(b) => assocs'[a] = assocs[a]
             /\ assocs'[a] # NoAssoc =>
                   /\ assocs'[a].owner = IF assocs[a].owner = b THEN u ELSE assocs[a].owner
                   /\ assocs'[a].kind = assocs[a].kind /\ assocs'[a].links = assocs[a].links
  <2> DEFINE moved == IF a \in req[r].moved THEN [assocs[a] EXCEPT !.owner = u] ELSE assocs[a]
  <2>1. /\ moved = NoAssoc => assocs'[a] = NoAssoc
        /\ moved # NoAssoc => assocs'[a] = [moved EXCEPT !.links = moved.links \ {}]
    BY <1>2, <1>4 DEF Without
  <2>2. CASE assocs[a] = NoAssoc
    BY <1>4, <2>1, <2>2 DEF Owned
  <2>3. CASE assocs[a] # NoAssoc
    <3>1. assocs[a] \in Association
      BY <1>1, <2>3
    <3>2. /\ moved \in Association /\ moved.kind = assocs[a].kind /\ moved.links = assocs[a].links
          /\ moved.owner = IF assocs[a].owner = b THEN u ELSE assocs[a].owner
      BY <1>3, <1>4, <2>3, <3>1, Rows DEF Owned
    <3> HIDE DEF moved
    <3>3. moved # NoAssoc /\ moved.links \in SUBSET AssocIds /\ (moved.kind = "report" \/ moved.links = {})
          /\ moved.links \ {} = moved.links
      BY <3>2, Rows
    <3>4. assocs'[a] = [moved EXCEPT !.links = moved.links]
      BY <2>1, <3>3
    <3>5. /\ assocs'[a] \in Association /\ assocs'[a].owner = moved.owner /\ assocs'[a].kind = moved.kind
          /\ assocs'[a].links = moved.links
      BY <3>2, <3>3, <3>4, Rows
    <3>6. a \notin Owned(b) => assocs'[a] = assocs[a]
      BY <1>4, <3>1, <3>2, <3>4, Rows DEF moved
    <3> QED
      BY <2>3, <3>2, <3>5, <3>6, Rows
  <2> QED
    BY <2>2, <2>3
<1>6. assocs' \in [AssocIds -> Association \union {NoAssoc}]
  BY <1>2, <1>5 DEF Without
<1> QED
  BY <1>2, <1>3, <1>4, <1>5, <1>6

\* The statements of a merge change the owner of all the browser's records, and
\* nobody else is writing one of them.
LEMMA DeleteMergedRecords ==
  ASSUME RecordsOK, NEW r \in Requests, DeleteMerged(r)
  PROVE  RecordsOK'
<1> DEFINE b == req[r].browser  u == req[r].owner
<1>1. /\ UsersOK /\ UsersTypes /\ UsersInv /\ RecordsInv
      /\ assocs \in [AssocIds -> Association \union {NoAssoc}]
      /\ req[r].pc = "remove" /\ AtPhase(req[r], r) /\ "merged" \in Outcomes
  BY Values DEF RecordsOK, UsersOK, UsersInv, CallsHaveAPhase, DeleteMerged
<1>2. UsersOK' /\ StepOf(r) /\ req'[r].pc # "write" /\ (req'[r].pc = "remove" => UNCHANGED tables)
  BY <1>1, ConvertUsers DEF Convert
<1>3. CASE Abort(r)
  <2>1. GoesOn(r) /\ users' = users /\ assocs' = assocs
    BY <1>1, <1>3, AbortUsers DEF Abort, tables
  <2> QED
    BY <1>1, <1>2, <2>1, GoesOnRecords
<1>4. CASE ~Abort(r)
  <2>1. /\ UsersOf(r)[u] # "none" /\ users' = [UsersOf(r) EXCEPT ![b] = "none"] /\ Answer(r, "merged")
        /\ req[r].moved = Owned(b)
        /\ \A a \in AssocIds : a \notin Owned(b) => assocs'[a] = assocs[a]
    BY <1>4, MergedRows
  <2>2. /\ req' \in [Requests -> Request] /\ req'[r].pc = "done"
        /\ \A o \in Requests \ {r} : req'[o] = req[o]
        /\ NoIdIsReused' => NoIdIsReused
    BY <1>1, <1>2, <2>1, StepTypes, AnswerStep
  <2>3. /\ req[r].lock = "update" /\ u # NoUser /\ u \in UserIds /\ u # b /\ b \in UserIds
        /\ users[b] = "unauthenticated" /\ SignedIn(r)
    BY <1>4, MergedRows, IdentityAssumption
  <2>4. req[r].moved = Owned(b)
    BY <2>1
  <2>5. ASSUME NEW a \in AssocIds
        PROVE  /\ assocs'[a] \in Association \union {NoAssoc}
               /\ assocs'[a] # NoAssoc <=> assocs[a] # NoAssoc
               /\ assocs'[a] # NoAssoc =>
                     /\ assocs'[a].owner = IF assocs[a].owner = b THEN u ELSE assocs[a].owner
                     /\ assocs'[a].kind = assocs[a].kind /\ assocs'[a].links = assocs[a].links
    BY <1>4, MergedRows
  <2>6. assocs' \in [AssocIds -> Association \union {NoAssoc}]
    BY <1>4, MergedRows
  <2>7. RecordsStand'
    <3> SUFFICES ASSUME NEW a \in AssocIds, assocs'[a] # NoAssoc
                 PROVE  /\ users'[assocs'[a].owner] # "none"
                        /\ a \in Requests => req'[a].pc = "done"
                        /\ \A p \in assocs'[a].links : assocs'[p] # NoAssoc /\ assocs'[p].kind = "policy"
      BY DEF RecordsStand
    <3>1. /\ a \in Requests => req[a].pc = "done"
          /\ users[assocs[a].owner] # "none" /\ assocs[a].owner \in UserIds
          /\ \A p \in assocs[a].links : p \in AssocIds /\ assocs[p] # NoAssoc /\ assocs[p].kind = "policy"
      BY <1>1, <2>5, Rows DEF RecordsInv, RecordsStand
    <3>2. UsersOf(r)[assocs[a].owner] # "none"
      BY <1>1, <3>1, UsersStay
    <3>3. users'[assocs'[a].owner] # "none"
      <4>1. UsersOf(r) \in UserTable
        BY <1>1, CommitIsSound DEF Sound
      <4>2. \A v \in UserIds \ {b} : users'[v] = UsersOf(r)[v]
        BY <2>1, <4>1 DEF UserTable
      <4>3. assocs'[a].owner \in UserIds \ {b} /\ UsersOf(r)[assocs'[a].owner] # "none"
        BY <2>1, <2>3, <2>5, <3>1, <3>2
      <4> QED
        BY <4>2, <4>3
    <3> QED
      BY <2>2, <2>5, <3>1, <3>3
  <2>8. MergesAreComplete'
    <3> SUFFICES ASSUME NEW o \in Requests \ {r}, req[o].pc = "remove"
                 PROVE  req[o].moved = Owned(req[o].browser)'
      BY <2>2 DEF MergesAreComplete, MergeIsComplete
    <3>1. req[o].lock = "update" /\ req[o].moved = Owned(req[o].browser)
      BY <1>1 DEF UsersInv, CallsHaveAPhase, AtPhase, LockPhase, RecordsInv, MergesAreComplete, MergeIsComplete
    <3>2. req[o].browser # b /\ (req[r].moved # {} => u # req[o].browser)
      <4>1. Excludes(req[r], req[o]) /\ Excludes(req[o], req[r])
        BY <1>1 DEF UsersInv, TransactionsExclude
      <4> QED
        BY <1>1, <2>3, <3>1, <4>1 DEF Excludes
    <3>3. \A a \in AssocIds : a \in Owned(req[o].browser)' <=> a \in Owned(req[o].browser)
      BY <2>2, <2>4, <2>5, <3>2 DEF Owned
    <3> QED
      BY <3>1, <3>3 DEF Owned
  <2>9. ChecksStand'
    <3> SUFFICES ASSUME NEW o \in Requests \ {r}
                 PROVE  CheckStands(o)'
      BY <2>2 DEF ChecksStand, CheckStands
    <3>1. CheckStands(o) /\ AtPhase(req[o], o) /\ req[o] \in Request
      BY <1>1 DEF RecordsInv, ChecksStand, UsersInv, CallsHaveAPhase, UsersTypes
    <3>2. req[o].pc = "write" => req[o].item \in AssocIds /\ req[o].add \subseteq AssocIds
      BY <3>1 DEF AtPhase, WritePhase, Request
    <3> QED
      BY <1>1, <2>2, <2>5, <3>1, <3>2 DEF CheckStands
  <2>10. WorkHasOneOwner'
    <3> SUFFICES ASSUME NoIdIsReused'
                 PROVE  LinksAreOwn' /\ \A o \in Requests : WritesItsOwn(o)'
      BY DEF WorkHasOneOwner
    <3>1. NoIdIsReused /\ LinksAreOwn /\ \A o \in Requests : WritesItsOwn(o)
      BY <1>1, <2>2 DEF RecordsInv, WorkHasOneOwner
    <3>2. LinksAreOwn'
      <4> SUFFICES ASSUME NEW a \in AssocIds, assocs'[a] # NoAssoc, NEW p \in assocs'[a].links
                   PROVE  assocs'[p].owner = assocs'[a].owner
        BY DEF LinksAreOwn
      <4>1. p \in AssocIds /\ assocs[p] # NoAssoc /\ assocs[p].owner = assocs[a].owner
        BY <1>1, <2>5, <3>1, Rows DEF RecordsInv, RecordsStand, LinksAreOwn
      <4> QED
        BY <2>5, <4>1
    <3>3. ASSUME NEW o \in Requests \ {r}, req[o].pc = "write"
          PROVE  WritesItsOwn(o)'
      <4>1. AtPhase(req[o], o) /\ req[o] \in Request /\ WritesItsOwn(o)
        BY <1>1, <3>1 DEF UsersInv, CallsHaveAPhase, UsersTypes
      <4>2. req[o].item \in AssocIds /\ req[o].add \subseteq AssocIds /\ req[o].owner # NoUser
        BY <3>3, <4>1 DEF AtPhase, Phase, WritePhase, Request
      <4>3. req[o].owner # b
        <5>1. CASE SignedIn(o)
          BY <1>1, <2>3, <3>1, <4>2, <5>1 DEF UsersInv, OwnersAreTheSubjects, OwnerIsTheSubjects, IsTheSubjectsIn
        <5>2. CASE ~SignedIn(o)
          <6>1. req[o].lock = "share" /\ req[o].owner = req[o].browser
            BY <3>3, <4>1, <5>2 DEF AtPhase, LockPhase, WritePhase, SignedIn
          <6>2. Excludes(req[r], req[o])
            BY <1>1 DEF UsersInv, TransactionsExclude
          <6> QED
            BY <2>3, <6>1, <6>2 DEF Excludes
        <5> QED
          BY <5>1, <5>2
      <4> QED
        BY <2>2, <2>5, <3>3, <4>1, <4>2, <4>3 DEF WritesItsOwn
    <3>4. \A o \in Requests : WritesItsOwn(o)'
      BY <2>2, <3>3 DEF WritesItsOwn
    <3> QED
      BY <3>2, <3>4
  <2> QED
    BY <1>2, <2>6, <2>7, <2>8, <2>9, <2>10 DEF RecordsOK, RecordsInv
<1> QED
  BY <1>3, <1>4

\* The conversion leaves the records; a merge reassigns all of the browser's.
LEMMA ConvertRecords ==
  ASSUME RecordsOK, NEW r \in Requests, Convert(r)
  PROVE  RecordsOK'
<1>1. /\ UsersOK /\ UsersTypes /\ RecordsInv
      /\ assocs \in [AssocIds -> Association \union {NoAssoc}]
  BY DEF RecordsOK, UsersOK
<1>2. CASE DeleteMerged(r)
  BY <1>2, DeleteMergedRecords
<1>3. CASE ~DeleteMerged(r)
  <2>1. /\ UsersOK' /\ StepOf(r) /\ req'[r].pc # "write"
        /\ req'[r].pc = "remove" =>
              /\ req'[r].moved = {a \in Owned(req[r].browser) : assocs[a].kind \in ReassignedKinds}
              /\ UNCHANGED tables
    BY <1>1, ConvertUsers
  <2>2. /\ req[r].pc # "done" /\ assocs' = assocs
        /\ \/ users' = users \/ users' = UsersOf(r)
           \/ users' = [users EXCEPT ![req[r].browser] = "standard"]
    BY <1>3 DEF Convert, LockForUpgrade, FindForUpgrade, ConvertInPlace, Reassign, UpgradeNothing, Commit, Abort,
                tables
  <2>3. \A u \in UserIds : users[u] # "none" => users'[u] # "none"
    BY <1>1, <2>2, UsersStay DEF UsersTypes, UserTable
  <2>4. MergeIsComplete(r)'
    <3> SUFFICES ASSUME req'[r].pc = "remove"
                 PROVE  req'[r].moved = Owned(req[r].browser)'
      BY <2>1 DEF MergeIsComplete, StepOf
    <3>1. \A a \in Owned(req[r].browser) : assocs[a].kind \in ReassignedKinds
      BY <1>1, Rows DEF Owned, Kinds, ReassignedKinds
    <3>2. Owned(req[r].browser)' = {a \in AssocIds : assocs'[a] # NoAssoc /\ assocs'[a].owner = req[r].browser}
      BY <2>1 DEF Owned, StepOf
    <3> QED
      BY <2>1, <2>2, <3>1, <3>2 DEF Owned
  <2>5. CheckStands(r)' /\ WritesItsOwn(r)'
    BY <2>1 DEF CheckStands, WritesItsOwn
  <2> QED
    BY <2>1, <2>2, <2>3, <2>4, <2>5, SameRecords
<1> QED
  BY <1>2, <1>3

\* Closing an account deletes its records with its user, unless a merge holds it.
LEMMA ClosingRecords ==
  ASSUME RecordsOK, UsersOK', NEW r \in Requests, req[r].pc # "done", GoesOn(r), NEW u \in UserIds,
         \A o \in Requests \ {r} : ~HoldsUpdate(o, u),
         users' = [users EXCEPT ![u] = "none"], assocs' = Without(assocs, Owned(u))
  PROVE  RecordsOK'
<1>1. UsersTypes /\ UsersInv /\ RecordsInv /\ assocs \in [AssocIds -> Association \union {NoAssoc}]
  BY DEF RecordsOK, UsersOK
<1>2. ASSUME NEW a \in AssocIds \ Owned(u), assocs[a] # NoAssoc
      PROVE  users'[assocs[a].owner] # "none"
  <2>1. assocs[a].owner # u /\ assocs[a].owner \in UserIds /\ users[assocs[a].owner] # "none"
    BY <1>1, <1>2, Rows DEF Owned, RecordsInv, RecordsStand
  <2> QED
    BY <1>1, <2>1 DEF UsersTypes, UserTable
<1>3. ASSUME NEW o \in Requests \ {r}, req[o].pc = "remove"
      PROVE  req[o].moved \intersect Owned(u) = {}
  <2>1. req[o].lock = "update" /\ req[o].moved = Owned(req[o].browser)
    BY <1>1, <1>3
    DEF UsersInv, CallsHaveAPhase, AtPhase, LockPhase, RecordsInv, MergesAreComplete, MergeIsComplete
  <2>2. req[o].browser # u
    BY <2>1 DEF HoldsUpdate
  <2> QED
    BY <2>1, <2>2 DEF Owned
<1>4. Owned(u) \in SUBSET AssocIds
  BY DEF Owned
<1> QED
  BY <1>2, <1>3, <1>4, WithoutRecords

\* The handlers of /v2/me.
LEMMA AccountRecords ==
  ASSUME RecordsOK, NEW r \in Requests, Account(r)
  PROVE  RecordsOK'
<1>1. /\ UsersOK /\ UsersTypes /\ req[r].owner \in UserIds \union {NoUser}
  BY DEF RecordsOK, UsersOK, UsersTypes, Request
<1>2. UsersOK' /\ GoesOn(r)
  BY <1>1, AccountUsers
<1>3. CASE OpenAccount(r) \/ PrepareDeletion(r) \/ FindForClose(r) \/ CloseStandard(r) \/ DeleteAuth0User(r)
  <2>1. req[r].pc # "done" /\ users' = users /\ assocs' = assocs
    BY <1>3 DEF OpenAccount, PrepareDeletion, FindForClose, CloseStandard, At, DeleteAuth0User, Abort, tables
  <2> QED
    BY <1>2, <2>1, GoesOnRecords
<1>4. CASE GetAccount(r) \/ UpdateAccount(r) \/ ExportAccount(r)
  <2>1. req[r].pc # "done" /\ assocs' = assocs /\ (users' = users \/ users' = UsersOf(r))
    BY <1>4 DEF GetAccount, UpdateAccount, ExportAccount, At, Abort, Commit, tables
  <2>2. \A u \in UserIds : users[u] # "none" => users'[u] # "none"
    BY <1>1, <2>1, UsersStay
  <2> QED
    BY <1>2, <2>1, <2>2, GoesOnRecords
<1>5. CASE CloseUnauthenticated(r) \/ Cascade(r)
  <2>1. req[r].pc # "done"
    BY <1>5 DEF CloseUnauthenticated, Cascade, At
  <2>2. \/ users' = users /\ assocs' = assocs
        \/ /\ req[r].owner \in UserIds /\ (~Locked(r, req[r].owner) \/ req[r].pc = "cascade")
           /\ users' = [users EXCEPT ![req[r].owner] = "none"]
           /\ assocs' = Without(assocs, Owned(req[r].owner))
    <3>1. Cascade(r) => req[r].owner \in UserIds
      BY <1>1, HeldOwner DEF Cascade
    <3> QED
      BY <1>1, <1>5, <3>1 DEF CloseUnauthenticated, Cascade, Abort, tables
  <2>3. CASE users' = users /\ assocs' = assocs
    BY <1>2, <2>1, <2>3, GoesOnRecords
  <2>4. \A o \in Requests \ {r} :
           ~Locked(r, req[r].owner) \/ req[r].pc = "cascade" => ~HoldsUpdate(o, req[r].owner)
    BY <1>1 DEF Locked, LockedBy, HoldsAlone, HoldsUpdate, UsersOK, UsersInv, TransactionsExclude, Excludes
  <2> QED
    BY <1>2, <2>1, <2>2, <2>3, <2>4, ClosingRecords
<1> QED
  BY <1>3, <1>4, <1>5 DEF Account

\* The insert: its links are checked records of the owner that are still there, and
\* no merge is moving the owner's records.
LEMMA InsertRecords ==
  ASSUME RecordsOK, UsersOK', NEW r \in Requests, StepOf(r), req[r].pc = "write", req'[r].pc = "done",
         req[r].kind \in Kinds, OwnerIsFree(r), OwnerStands(r), users' = UsersOf(r),
         \A p \in req[r].add : assocs[p] # NoAssoc,
         assocs' = [assocs EXCEPT ![r] = [kind |-> req[r].kind, owner |-> req[r].owner, links |-> req[r].add]]
  PROVE  RecordsOK'
<1> DEFINE row == [kind |-> req[r].kind, owner |-> req[r].owner, links |-> req[r].add]
<1>1. /\ UsersTypes /\ UsersInv /\ RecordsInv /\ assocs \in [AssocIds -> Association \union {NoAssoc}]
      /\ req[r] \in Request /\ AtPhase(req[r], r) /\ CheckStands(r) /\ r \in AssocIds
  BY DEF RecordsOK, UsersOK, UsersInv, UsersTypes, CallsHaveAPhase, RecordsInv, ChecksStand, AssocIds
<1>2. /\ req' \in [Requests -> Request]
      /\ \A o \in Requests \ {r} : req'[o] = req[o]
      /\ NoIdIsReused' => NoIdIsReused
      /\ assocs[r] = NoAssoc
  BY <1>1, StepTypes, OpenRow
<1>3. /\ req[r].owner \in UserIds /\ req[r].add \in SUBSET AssocIds
      /\ req[r].kind = "report" \/ req[r].add = {}
      /\ UsersOf(r)[req[r].owner] # "none"
  BY <1>1 DEF OwnerStands, Request, AtPhase, WritePhase
<1>4. /\ row \in Association /\ row # NoAssoc
      /\ row.kind = req[r].kind /\ row.owner = req[r].owner /\ row.links = req[r].add
  BY <1>3, Rows
<1>5. assocs' \in [AssocIds -> Association \union {NoAssoc}] /\ assocs'[r] = row
      /\ \A a \in AssocIds \ {r} : assocs'[a] = assocs[a]
  <2> HIDE DEF row
  <2> QED
    BY <1>1, <1>4 DEF row
<1> HIDE DEF row
<1>6. RecordsStand'
  <2> SUFFICES ASSUME NEW a \in AssocIds, assocs'[a] # NoAssoc
               PROVE  /\ users'[assocs'[a].owner] # "none"
                      /\ a \in Requests => req'[a].pc = "done"
                      /\ \A p \in assocs'[a].links : assocs'[p] # NoAssoc /\ assocs'[p].kind = "policy"
    BY DEF RecordsStand
  <2>1. CASE a = r
    <3>1. \A p \in req[r].add : p \in AssocIds \ {r} /\ assocs[p].kind = "policy"
      BY <1>1, <1>2, <1>3 DEF CheckStands
    <3> QED
      BY <1>3, <1>4, <1>5, <2>1, <3>1
  <2>2. CASE a # r
    <3>1. /\ assocs'[a] = assocs[a] /\ assocs[a].owner \in UserIds /\ users[assocs[a].owner] # "none"
          /\ a \in Requests => req[a].pc = "done"
          /\ \A p \in assocs[a].links : p \in AssocIds /\ assocs[p] # NoAssoc /\ assocs[p].kind = "policy"
      BY <1>1, <1>5, <2>2, Rows DEF RecordsInv, RecordsStand
    <3>2. \A p \in assocs[a].links : p # r
      BY <1>2, <3>1
    <3>3. UsersOf(r)[assocs[a].owner] # "none"
      BY <1>1, <3>1, UsersStay
    <3> QED
      BY <1>2, <1>5, <2>2, <3>1, <3>2, <3>3
  <2> QED
    BY <2>1, <2>2
<1>7. MergesAreComplete'
  <2> SUFFICES ASSUME NEW o \in Requests \ {r}, req[o].pc = "remove"
               PROVE  req[o].moved = Owned(req[o].browser)'
    BY <1>2 DEF MergesAreComplete, MergeIsComplete
  <2>1. req[o].lock = "update" /\ req[o].moved = Owned(req[o].browser)
    BY <1>1 DEF UsersInv, CallsHaveAPhase, AtPhase, LockPhase, RecordsInv, MergesAreComplete, MergeIsComplete
  <2>2. req[o].browser # req[r].owner
    BY <2>1 DEF OwnerIsFree, HoldsAlone, HoldsUpdate
  <2>3. \A a \in AssocIds : a \in Owned(req[o].browser)' <=> a \in Owned(req[o].browser)
    BY <1>2, <1>4, <1>5, <2>2 DEF Owned
  <2> QED
    BY <2>1, <2>3 DEF Owned
<1>8. CheckStands(r)' /\ WritesItsOwn(r)'
  BY DEF CheckStands, WritesItsOwn
<1>9. NoIdIsReused' => LinksAreOwn'
  <2> SUFFICES ASSUME NoIdIsReused', NEW a \in AssocIds, assocs'[a] # NoAssoc, NEW p \in assocs'[a].links
               PROVE  assocs'[p].owner = assocs'[a].owner
    BY DEF LinksAreOwn
  <2>1. LinksAreOwn /\ WritesItsOwn(r)
    BY <1>1, <1>2 DEF RecordsInv, WorkHasOneOwner
  <2>2. CASE a = r
    BY <1>1, <1>2, <1>3, <1>4, <1>5, <2>1, <2>2 DEF WritesItsOwn
  <2>3. CASE a # r
    <3>1. assocs'[a] = assocs[a] /\ assocs[a] # NoAssoc
      BY <1>5, <2>3
    <3>2. p \in AssocIds /\ assocs[p] # NoAssoc /\ assocs[p].owner = assocs[a].owner
      BY <1>1, <2>1, <3>1, Rows DEF LinksAreOwn, RecordsInv, RecordsStand
    <3> QED
      BY <1>2, <1>5, <3>1, <3>2
  <2> QED
    BY <2>2, <2>3
<1>10. \A a \in AssocIds \ {r} : assocs'[a] # NoAssoc =>
          assocs[a] # NoAssoc /\ assocs'[a].kind = assocs[a].kind /\ assocs'[a].owner = assocs[a].owner
  BY <1>5
<1> QED
  BY <1>5, <1>6, <1>7, <1>8, <1>9, <1>10, SameOwners

\* The update of a checked record that is still there: it keeps its owner, and its
\* new links are checked records of that owner.
LEMMA UpdateRecords ==
  ASSUME RecordsOK, UsersOK', NEW r \in Requests, StepOf(r), req[r].pc = "write", req'[r].pc = "done",
         users' = UsersOf(r), assocs[req[r].item] # NoAssoc, \A p \in req[r].add : assocs[p] # NoAssoc,
         assocs' = [assocs EXCEPT ![req[r].item].links = (@ \ req[r].drop) \union req[r].add]
  PROVE  RecordsOK'
<1> DEFINE i == req[r].item  links == (assocs[i].links \ req[r].drop) \union req[r].add
<1>1. /\ UsersTypes /\ UsersInv /\ RecordsInv /\ assocs \in [AssocIds -> Association \union {NoAssoc}]
      /\ req[r] \in Request /\ AtPhase(req[r], r) /\ CheckStands(r)
  BY DEF RecordsOK, UsersOK, UsersInv, UsersTypes, CallsHaveAPhase, RecordsInv, ChecksStand
<1>2. /\ req' \in [Requests -> Request]
      /\ \A o \in Requests \ {r} : req'[o] = req[o]
      /\ NoIdIsReused' => NoIdIsReused
      /\ assocs[r] = NoAssoc
  BY <1>1, StepTypes, OpenRow
<1>3. /\ i \in AssocIds /\ i # r /\ assocs[i] \in Association /\ assocs[i].kind = req[r].kind
      /\ req[r].add \in SUBSET AssocIds
      /\ req[r].kind = "report" \/ (req[r].add = {} /\ req[r].drop = {})
  BY <1>1, <1>2 DEF Request, AtPhase, WritePhase, CheckStands
<1>4. links \in SUBSET AssocIds /\ (assocs[i].kind = "report" \/ links = {})
  BY <1>3, Rows
<1>5. /\ \A a \in AssocIds \ {i} : assocs'[a] = assocs[a]
      /\ assocs'[i] \in Association /\ assocs'[i] # NoAssoc
      /\ assocs'[i].owner = assocs[i].owner /\ assocs'[i].kind = assocs[i].kind /\ assocs'[i].links = links
      /\ assocs' \in [AssocIds -> Association \union {NoAssoc}]
  <2>1. /\ assocs' = [assocs EXCEPT ![i] = [assocs[i] EXCEPT !.links = links]]
    OBVIOUS
  <2> HIDE DEF i, links
  <2>2. /\ [assocs[i] EXCEPT !.links = links] \in Association
        /\ [assocs[i] EXCEPT !.links = links].owner = assocs[i].owner
        /\ [assocs[i] EXCEPT !.links = links].kind = assocs[i].kind
        /\ [assocs[i] EXCEPT !.links = links].links = links
    BY <1>3, <1>4, Rows
  <2>3. assocs'[i] = [assocs[i] EXCEPT !.links = links] /\ \A a \in AssocIds \ {i} : assocs'[a] = assocs[a]
    BY <1>1, <1>3, <2>1
  <2>4. assocs' \in [AssocIds -> Association \union {NoAssoc}]
    BY <1>1, <1>3, <2>1, <2>2
  <2> QED
    BY <2>2, <2>3, <2>4, Rows
<1>6. ASSUME NEW a \in AssocIds
      PROVE  /\ assocs'[a] # NoAssoc <=> assocs[a] # NoAssoc
             /\ assocs[a] # NoAssoc => assocs'[a].owner = assocs[a].owner /\ assocs'[a].kind = assocs[a].kind
  BY <1>5
<1>7. RecordsStand'
  <2> SUFFICES ASSUME NEW a \in AssocIds, assocs'[a] # NoAssoc
               PROVE  /\ users'[assocs'[a].owner] # "none"
                      /\ a \in Requests => req'[a].pc = "done"
                      /\ \A p \in assocs'[a].links : assocs'[p] # NoAssoc /\ assocs'[p].kind = "policy"
    BY DEF RecordsStand
  <2>1. /\ assocs[a] # NoAssoc /\ assocs[a].owner \in UserIds /\ users[assocs[a].owner] # "none"
        /\ a \in Requests => req[a].pc = "done"
        /\ \A p \in assocs[a].links : p \in AssocIds /\ assocs[p] # NoAssoc /\ assocs[p].kind = "policy"
    BY <1>1, <1>6, Rows DEF RecordsInv, RecordsStand
  <2>2. UsersOf(r)[assocs[a].owner] # "none"
    BY <1>1, <2>1, UsersStay
  <2>3. \A p \in assocs'[a].links : p \in AssocIds /\ assocs[p] # NoAssoc /\ assocs[p].kind = "policy"
    <3>1. \A p \in req[r].add : p \in AssocIds /\ assocs[p] # NoAssoc /\ assocs[p].kind = "policy"
      BY <1>1, <1>3 DEF CheckStands
    <3> QED
      BY <1>5, <2>1, <3>1
  <2> QED
    BY <1>2, <1>6, <2>1, <2>2, <2>3
<1>8. MergesAreComplete'
  <2> SUFFICES ASSUME NEW o \in Requests \ {r}, req[o].pc = "remove"
               PROVE  req[o].moved = Owned(req[o].browser)'
    BY <1>2 DEF MergesAreComplete, MergeIsComplete
  <2>1. req[o].moved = Owned(req[o].browser)
    BY <1>1 DEF RecordsInv, MergesAreComplete, MergeIsComplete
  <2>2. \A a \in AssocIds : a \in Owned(req[o].browser)' <=> a \in Owned(req[o].browser)
    BY <1>2, <1>6 DEF Owned
  <2> QED
    BY <2>1, <2>2 DEF Owned
<1>9. CheckStands(r)' /\ WritesItsOwn(r)'
  BY DEF CheckStands, WritesItsOwn
<1>10. NoIdIsReused' => LinksAreOwn'
  <2> SUFFICES ASSUME NoIdIsReused', NEW a \in AssocIds, assocs'[a] # NoAssoc, NEW p \in assocs'[a].links
               PROVE  assocs'[p].owner = assocs'[a].owner
    BY DEF LinksAreOwn
  <2>1. LinksAreOwn /\ WritesItsOwn(r)
    BY <1>1, <1>2 DEF RecordsInv, WorkHasOneOwner
  <2>2. CASE p \in assocs[a].links
    <3>1. p \in AssocIds /\ assocs[p] # NoAssoc /\ assocs[p].owner = assocs[a].owner
      BY <1>1, <1>6, <2>1, <2>2, Rows DEF LinksAreOwn, RecordsInv, RecordsStand
    <3> QED
      BY <1>6, <3>1
  <2>3. CASE p \notin assocs[a].links
    <3>1. a = i /\ p \in req[r].add
      BY <1>5, <2>3
    <3> QED
      BY <1>3, <1>6, <2>1, <3>1 DEF WritesItsOwn
  <2> QED
    BY <2>2, <2>3
<1>11. \A a \in AssocIds \ {r} : assocs'[a] # NoAssoc =>
          assocs[a] # NoAssoc /\ assocs'[a].kind = assocs[a].kind /\ assocs'[a].owner = assocs[a].owner
  BY <1>6
<1> QED
  BY <1>5, <1>7, <1>8, <1>9, <1>10, <1>11, SameOwners

\* The four resources.
LEMMA ResourceRecords ==
  ASSUME RecordsOK, NEW r \in Requests, ResourceStep(r)
  PROVE  RecordsOK'
<1>1. /\ UsersOK /\ UsersTypes /\ RecordsInv /\ AtPhase(req[r], r) /\ req[r] \in Request
      /\ "ok" \in Outcomes /\ "created" \in Outcomes
  BY Values DEF RecordsOK, UsersOK, UsersInv, UsersTypes, CallsHaveAPhase
<1>2. req[r].pc # "done"
  BY DEF ResourceStep, Checks, Writes, Ends
<1>3. assocs[r] = NoAssoc /\ UsersOK' /\ StepOf(r)
  BY <1>1, <1>2, OpenRow, ResourceUsers
<1>4. ASSUME NEW item \in AssocIds, NEW add \in SUBSET AssocIds, NEW drop \in SUBSET AssocIds,
             Checks(r, item, add, drop)
      PROVE  RecordsOK'
  <2>1. Checked(r, item, add, drop)
    BY <1>4 DEF Checks
  <2>2. /\ KeepsUser(r) /\ req'[r].pc = "write" /\ req'[r].item = item /\ req'[r].add = add
        /\ users' = users /\ assocs' = assocs /\ req' \in [Requests -> Request]
        /\ \A o \in Requests \ {r} : req'[o] = req[o]
    <3>1. KeepsUser(r) /\ req'[r].pc = "write" /\ req'[r].item = item /\ req'[r].add = add
      BY <1>1, <2>1, CheckedStep
    <3>2. req' \in [Requests -> Request] /\ \A o \in Requests \ {r} : req'[o] = req[o]
      BY <1>1, <1>3, StepTypes
    <3> QED
      BY <2>1, <3>1, <3>2 DEF Checked, tables
  <2>3. \A a \in AssocIds : assocs[a] # NoAssoc /\ a \in Requests => a # r /\ req[a].pc = "done"
    BY <1>1, <1>3 DEF RecordsInv, RecordsStand
  <2>4. item = r \/ IsOwned(r, item, req[r].kind)
    BY <1>4 DEF Checks
  <2>5. \A p \in add : IsOwned(r, p, "policy") /\ p \in AssocIds
    BY <1>4 DEF Checks, ReadOwnedUserPolicy
  <2>6. CheckStands(r)'
    BY <1>3, <2>2, <2>3, <2>4, <2>5 DEF CheckStands, IsOwned, StepOf
  <2>7. WritesItsOwn(r)'
    BY <1>3, <2>2, <2>4, <2>5 DEF WritesItsOwn, IsOwned, KeepsUser
  <2>8. MergeIsComplete(r)'
    BY <2>2 DEF MergeIsComplete
  <2> QED
    BY <1>2, <1>3, <2>2, <2>6, <2>7, <2>8, SameRecords
<1>5. CASE Abort(r)
  <2>1. GoesOn(r) /\ users' = users /\ assocs' = assocs
    BY <1>1, <1>2, <1>5, AbortUsers DEF Abort, tables
  <2> QED
    BY <1>2, <1>3, <2>1, GoesOnRecords
<1>6. CASE Writes(r) /\ ~Abort(r)
  <2>1. req[r].pc = "write" /\ req[r].kind \in Kinds /\ req[r].item \in AssocIds
    BY <1>1, <1>6 DEF Writes, AtPhase, WritePhase
  <2>2. /\ req'[r].pc = "done" /\ GoesOn(r) /\ users' = UsersOf(r)
    <3>1. Commit(r, "ok") \/ Commit(r, "created")
      BY <1>6 DEF Writes, Insert, Update, Delete
    <3> QED
      BY <1>1, <1>2, <3>1, CommitUsers DEF Commit
  <2>3. CASE Insert(r, req[r].kind)
    <3>1. /\ OwnerIsFree(r) /\ OwnerStands(r) /\ \A p \in req[r].add : assocs[p] # NoAssoc
          /\ assocs' = [assocs EXCEPT ![r] = [kind |-> req[r].kind, owner |-> req[r].owner, links |-> req[r].add]]
      BY <1>6, <2>3 DEF Insert
    <3> QED
      BY <1>3, <2>1, <2>2, <3>1, InsertRecords
  <2>4. CASE Update(r)
    <3>1. /\ assocs[req[r].item] # NoAssoc /\ \A p \in req[r].add : assocs[p] # NoAssoc
          /\ assocs' = [assocs EXCEPT ![req[r].item].links = (@ \ req[r].drop) \union req[r].add]
      BY <1>6, <2>4 DEF Update
    <3> QED
      BY <1>3, <2>1, <2>2, <3>1, UpdateRecords
  <2>5. CASE Delete(r)
    <3>1. assocs' = Without(assocs, {req[r].item}) /\ ItemIsFree(r) /\ {req[r].item} \in SUBSET AssocIds
      BY <2>1, <2>5 DEF Delete
    <3>2. ASSUME NEW a \in AssocIds \ {req[r].item}, assocs[a] # NoAssoc
          PROVE  users'[assocs[a].owner] # "none"
      <4>1. assocs[a].owner \in UserIds /\ users[assocs[a].owner] # "none"
        BY <1>1, <3>2, Rows DEF RecordsOK, RecordsInv, RecordsStand
      <4> QED
        BY <1>1, <2>2, <4>1, UsersStay
    <3>3. \A o \in Requests \ {r} : req[o].pc = "remove" => req[o].moved \intersect {req[r].item} = {}
      BY <3>1 DEF ItemIsFree, HoldsRow
    <3> QED
      BY <1>2, <1>3, <2>2, <3>1, <3>2, <3>3, WithoutRecords
  <2> QED
    BY <1>6, <2>3, <2>4, <2>5 DEF Writes
<1>7. CASE Ends(r) /\ ~Abort(r)
  <2>1. GoesOn(r) /\ assocs' = assocs /\ (users' = users \/ users' = UsersOf(r))
    <3>1. CASE Commit(r, "ok")
      BY <1>1, <1>2, <1>7, <3>1, CommitUsers DEF Ends, Commit
    <3>2. CASE Answer(r, "ok") /\ UNCHANGED <<tables, auth0>>
      BY <1>1, <1>2, <1>7, <3>2, AnswerUsers DEF Ends, tables
    <3> QED
      BY <1>7, <3>1, <3>2 DEF Ends
  <2>2. \A u \in UserIds : users[u] # "none" => users'[u] # "none"
    BY <1>1, <2>1, UsersStay
  <2> QED
    BY <1>2, <1>3, <2>1, <2>2, GoesOnRecords
<1> QED
  BY <1>4, <1>5, <1>6, <1>7 DEF ResourceStep

(***************************************************************************)
(* The invariant.                                                          *)
(***************************************************************************)

\* An identity and its user, counted.
LEMMA IdentityCount ==
  ASSUME UsersTypes
  PROVE  AccountsMatchIdentities <=> OneIdentity
<1> DEFINE S(u) == {s \in Subjects : identities[s] = u}
<1>1. NoUser \notin UserIds /\ users \in UserTable /\ identities \in [Subjects -> UserIds \union {NoUser}]
  BY IdentityAssumption DEF UsersTypes, IdentityTable
<1>2. \A u \in UserIds : IsFiniteSet(S(u))
  BY FS_Subset, IdentityAssumption
<1>3. \A u \in UserIds : Cardinality(S(u)) = 0 <=> S(u) = {}
  BY <1>2, FS_EmptySet
<1>4. \A u \in UserIds : Cardinality(S(u)) = 1 <=> \E s : S(u) = {s}
  BY <1>2, FS_Singleton
<1>5. AccountsMatchIdentities <=>
         /\ \A s \in Subjects : identities[s] # NoUser => users[identities[s]] = "standard"
         /\ \A u \in UserIds : /\ users[u] = "standard" => \E s : S(u) = {s}
                               /\ users[u] # "standard" => S(u) = {}
  BY <1>3, <1>4 DEF AccountsMatchIdentities
<1>6. ASSUME AccountsMatchIdentities
      PROVE  OneIdentity
  <2>1. \A u \in UserIds : users[u] = "standard" => \E s \in Subjects : identities[s] = u
    BY <1>5, <1>6
  <2>2. ASSUME NEW s \in Subjects, NEW t \in Subjects, identities[s] # NoUser, identities[s] = identities[t]
        PROVE  s = t
    <3>1. identities[s] \in UserIds /\ users[identities[s]] = "standard"
      BY <1>1, <1>5, <1>6, <2>2
    <3>2. PICK x : S(identities[s]) = {x}
      BY <1>5, <1>6, <3>1
    <3> QED
      BY <2>2, <3>2
  <2> QED
    BY <1>5, <1>6, <2>1, <2>2 DEF OneIdentity, OneIdentityIn
<1>7. ASSUME OneIdentity
      PROVE  AccountsMatchIdentities
  <2>1. ASSUME NEW u \in UserIds, users[u] = "standard"
        PROVE  \E s : S(u) = {s}
    <3>1. PICK s \in Subjects : identities[s] = u
      BY <1>7, <2>1 DEF OneIdentity, OneIdentityIn
    <3>2. \A t \in Subjects : identities[t] = u => t = s
      BY <1>1, <1>7, <3>1 DEF OneIdentity, OneIdentityIn
    <3> QED
      BY <3>1, <3>2
  <2>2. ASSUME NEW u \in UserIds, users[u] # "standard"
        PROVE  S(u) = {}
    BY <1>1, <1>7, <2>2 DEF OneIdentity, OneIdentityIn
  <2> QED
    BY <1>5, <1>7, <2>1, <2>2 DEF OneIdentity, OneIdentityIn
<1> QED
  BY <1>6, <1>7

\* What a request is at its start.
LEMMA NewRequests ==
  ASSUME NEW r \in Requests, NEW c \in UserCall
  PROVE  LET x == NewRequest(c)
         IN  /\ x \in Request /\ AtPhase(x, r) /\ x.pc = "start" /\ x.owner = NoUser /\ ~x.made
             /\ ~x.seen /\ x.lock = "none" /\ x.moved = {} /\ ~x.reuses
<1> DEFINE x == NewRequest(c)
<1>1. /\ c.verb \in Verbs /\ c.kind \in Kinds \union {"account"}
      /\ c.browser \in Browsers /\ c.subject \in Subjects \union {NoSubject}
      /\ c.verb \in {"upgrade", "close"} => c.kind = "account"
  <2>1. ASSUME NEW verbs, NEW kinds, c \in [verb: verbs, kind: kinds, browser: Browsers,
                                            subject: Subjects \union {NoSubject}]
        PROVE  /\ c.verb \in verbs /\ c.kind \in kinds /\ c.browser \in Browsers
               /\ c.subject \in Subjects \union {NoSubject}
    BY <2>1
  <2>2. CASE c \in [verb: {"create", "get", "list", "patch", "delete"}, kind: Kinds, browser: Browsers,
                    subject: Subjects \union {NoSubject}]
    BY <2>1, <2>2 DEF Verbs
  <2>3. CASE c \in [verb: {"shared"}, kind: {"report"}, browser: Browsers, subject: Subjects \union {NoSubject}]
    BY <2>1, <2>3 DEF Verbs, Kinds
  <2>4. CASE c \in [verb: {"get", "patch", "export", "close", "upgrade"}, kind: {"account"}, browser: Browsers,
                    subject: Subjects \union {NoSubject}]
    BY <2>1, <2>4 DEF Verbs
  <2> QED
    BY <2>2, <2>3, <2>4 DEF UserCall
<1>2. /\ x.pc = "start" /\ x.owner = NoUser /\ ~x.made /\ ~x.seen /\ x.lock = "none" /\ x.moved = {} /\ ~x.reuses
      /\ x.verb = c.verb /\ x.kind = c.kind /\ x.outcome = "pending"
  BY DEF NewRequest
<1>3. x \in Request
  <2>1. "start" \in PCs /\ "none" \in Locks /\ "pending" \in Outcomes
    BY DEF PCs, Locks, Outcomes
  <2> QED
    BY <1>1, <2>1 DEF NewRequest, Request
<1>4. AtPhase(x, r)
  BY <1>1, <1>2 DEF AtPhase, Phase, LockPhase, WritePhase, Outside
<1> QED
  BY <1>2, <1>3, <1>4

\* The initial states satisfy the invariant.
LEMMA Initially ==
  ASSUME Init
  PROVE  IInv
<1>1. PICK call \in Calls : req = [r \in Requests |-> NewRequest(call[r])]
  BY DEF Init
<1>2. ASSUME NEW r \in Requests
      PROVE  /\ req[r] \in Request /\ AtPhase(req[r], r) /\ req[r].pc = "start" /\ req[r].owner = NoUser
             /\ ~req[r].made /\ ~req[r].seen /\ req[r].lock = "none" /\ req[r].moved = {} /\ ~req[r].reuses
  <2>1. call[r] \in UserCall /\ req[r] = NewRequest(call[r])
    BY <1>1, IdentityAssumption
  <2> QED
    BY <2>1, NewRequests
<1>3. UsersTypes
  <2>1. req \in [Requests -> Request]
    BY <1>1, <1>2
  <2> QED
    BY <2>1 DEF UsersTypes, Init, IdentityTable
<1>4. UsersInv
  <2>1. CallsHaveAPhase
    BY <1>2 DEF CallsHaveAPhase
  <2>2. OneIdentity
    BY <1>3, IdentityCount DEF Init
  <2>3. WhatIsHeldStands
    BY <1>2 DEF WhatIsHeldStands, HeldStands, HeldStandsIn
  <2>4. TransactionsExclude /\ OwnersAreAccounts
    BY <1>2 DEF TransactionsExclude, Excludes, OwnersAreAccounts, OwnerIsAnAccount
  <2>5. UsersHaveAnOrigin
    BY IdentityAssumption DEF UsersHaveAnOrigin, Init, UserTable, UserIds
  <2>6. OwnersAreTheSubjects
    BY <1>2 DEF OwnersAreTheSubjects, OwnerIsTheSubjects, IsTheSubjectsIn, HoldsInsert
  <2> QED
    BY <2>1, <2>2, <2>3, <2>4, <2>5, <2>6 DEF UsersInv
<1>5. PICK owner \in [Stored -> UserIds \union {NoUser}] :
         /\ \A a \in Stored : owner[a] # NoUser => users[owner[a]] # "none"
         /\ assocs = [a \in AssocIds |->
                          IF a \notin Stored \/ owner[a] = NoUser THEN NoAssoc
                          ELSE [kind |-> StoredKind[a], owner |-> owner[a],
                                links |-> IF StoredKind[a] # "report" THEN {}
                                          ELSE {p \in Stored : owner[p] = owner[a]
                                                               /\ StoredKind[p] = "policy"}]]
  BY DEF Init
<1>6. ASSUME NEW a \in AssocIds
      PROVE  \/ assocs[a] = NoAssoc /\ (a \notin Stored \/ owner[a] = NoUser)
             \/ /\ a \in Stored /\ owner[a] \in UserIds /\ assocs[a] \in Association /\ assocs[a] # NoAssoc
                /\ assocs[a].kind = StoredKind[a] /\ assocs[a].owner = owner[a]
                /\ assocs[a].links \subseteq {p \in Stored : owner[p] = owner[a] /\ StoredKind[p] = "policy"}
  <2>1. CASE a \notin Stored \/ owner[a] = NoUser
    BY <1>5, <2>1
  <2>2. CASE a \in Stored /\ owner[a] # NoUser
    <3> DEFINE links == IF StoredKind[a] # "report" THEN {}
                        ELSE {p \in Stored : owner[p] = owner[a] /\ StoredKind[p] = "policy"}
               row == [kind |-> StoredKind[a], owner |-> owner[a], links |-> links]
    <3>1. /\ StoredKind[a] \in Kinds /\ owner[a] \in UserIds /\ links \in SUBSET AssocIds
          /\ StoredKind[a] = "report" \/ links = {}
      BY <2>2, IdentityAssumption DEF AssocIds
    <3>2. row \in Association
      <4> HIDE DEF links
      <4> QED
        BY <3>1, Rows
    <3>3. assocs[a] = row
      BY <1>5, <2>2
    <3> QED
      BY <2>2, <3>1, <3>2, <3>3, Rows
  <2> QED
    BY <2>1, <2>2
<1>7. Stored \subseteq AssocIds /\ Requests \intersect Stored = {} /\ NoUser \notin UserIds
  BY IdentityAssumption DEF AssocIds
<1>8. assocs \in [AssocIds -> Association \union {NoAssoc}]
  BY <1>5, <1>6
<1>9. RecordsInv
  <2>1. RecordsStand
    <3> SUFFICES ASSUME NEW a \in AssocIds, assocs[a] # NoAssoc
                 PROVE  /\ users[assocs[a].owner] # "none"
                        /\ a \in Requests => req[a].pc = "done"
                        /\ \A p \in assocs[a].links : assocs[p] # NoAssoc /\ assocs[p].kind = "policy"
      BY DEF RecordsStand
    <3>1. /\ a \in Stored /\ owner[a] \in UserIds /\ assocs[a].owner = owner[a]
          /\ \A p \in assocs[a].links : p \in Stored /\ owner[p] = owner[a] /\ StoredKind[p] = "policy"
      BY <1>6
    <3>2. \A p \in assocs[a].links : assocs[p] # NoAssoc /\ assocs[p].kind = "policy"
      BY <1>6, <1>7, <3>1
    <3> QED
      BY <1>5, <1>7, <3>1, <3>2
  <2>2. MergesAreComplete /\ ChecksStand
    BY <1>2 DEF MergesAreComplete, MergeIsComplete, ChecksStand, CheckStands
  <2>3. WorkHasOneOwner
    <3>1. LinksAreOwn
      <4> SUFFICES ASSUME NEW a \in AssocIds, assocs[a] # NoAssoc, NEW p \in assocs[a].links
                   PROVE  assocs[p].owner = assocs[a].owner
        BY DEF LinksAreOwn
      <4>1. /\ a \in Stored /\ owner[a] \in UserIds /\ assocs[a].owner = owner[a]
            /\ p \in Stored /\ owner[p] = owner[a]
        BY <1>6
      <4> QED
        BY <1>6, <1>7, <4>1
    <3> QED
      BY <1>2, <3>1 DEF WorkHasOneOwner, WritesItsOwn
  <2> QED
    BY <2>1, <2>2, <2>3 DEF RecordsInv
<1>10. auth0 \subseteq Subjects
  BY DEF Init
<1> QED
  BY <1>3, <1>4, <1>8, <1>9, <1>10 DEF IInv, TypeOK, UsersTypes

\* Every step keeps it.
LEMMA Next_Keeps ==
  ASSUME IInv, Next
  PROVE  IInv'
<1>1. RecordsOK /\ auth0 \subseteq Subjects
  BY DEF IInv, TypeOK, RecordsOK, UsersOK, UsersTypes
<1>2. PICK r \in Requests : Step(r) \/ RequestFails(r)
  BY DEF Next
<1>3. RecordsOK'
  <2>1. CASE Resolve(r)
    BY <1>1, <2>1, ResolveRecords
  <2>2. CASE Convert(r)
    BY <1>1, <2>2, ConvertRecords
  <2>3. CASE UserPolicies(r) \/ UserHouseholds(r) \/ UserSimulations(r) \/ UserReports(r)
    <3>1. ResourceStep(r)
      BY <1>1, <2>3, UserPoliciesForm, UserHouseholdsForm, UserSimulationsForm, UserReportsForm DEF RecordsOK
    <3> QED
      BY <1>1, <3>1, ResourceRecords
  <2>4. CASE Account(r)
    BY <1>1, <2>4, AccountRecords
  <2>5. CASE OpenResource(r) \/ RequestFails(r)
    <3>1. req[r].pc # "done" /\ users' = users /\ assocs' = assocs
      BY <2>5 DEF OpenResource, RequestFails, Abort, tables
    <3>2. UsersOK' /\ GoesOn(r)
      <4>1. CASE Abort(r)
        BY <1>1, <3>1, <4>1, AbortUsers DEF RecordsOK
      <4>2. CASE /\ req[r].pc = "start" /\ req[r].kind # "account"
                 /\ Goto(r, "resolve") /\ UNCHANGED <<tables, auth0>>
        <5>1. UsersTypes /\ AtPhase(req[r], r) /\ "resolve" \in PCs /\ UsersOK
          BY <1>1, Values DEF RecordsOK, UsersOK, UsersInv, CallsHaveAPhase
        <5>2. StepOf(r) /\ KeepsUser(r) /\ KeepsWork(r) /\ req'[r].pc = "resolve"
          BY <4>2, <5>1, GotoStep
        <5>3. AtPhase(req'[r], r)
          BY <4>2, <5>1, <5>2
          DEF AtPhase, Phase, LockPhase, WritePhase, Outside, StepOf, KeepsWork, KeepsUser
        <5> QED
          BY <4>2, <5>1, <5>3, GotoUsers
      <4> QED
        BY <2>5, <4>1, <4>2 DEF OpenResource, RequestFails
    <3> QED
      BY <1>1, <3>1, <3>2, GoesOnRecords
  <2> QED
    BY <1>2, <2>1, <2>2, <2>3, <2>4, <2>5 DEF Step
<1>4. auth0' \subseteq Subjects
  <2>1. auth0' = auth0 \/ auth0' = auth0 \ {req[r].subject}
    <3>1. CASE Resolve(r)
      BY <3>1 DEF Resolve, ReadIdentity, RefreshActivity, ProvisionUser, RereadIdentity, InsertUnauthenticated,
                  ShareUnauthenticated, FindUnauthenticated, Abort
    <3>2. CASE Convert(r)
      BY <3>2 DEF Convert, LockForUpgrade, FindForUpgrade, ConvertInPlace, Reassign, DeleteMerged,
                  UpgradeNothing, Abort, Commit
    <3>3. CASE UserPolicies(r) \/ UserHouseholds(r) \/ UserSimulations(r) \/ UserReports(r)
      <4>1. ResourceStep(r)
        BY <1>1, <3>3, UserPoliciesForm, UserHouseholdsForm, UserSimulationsForm, UserReportsForm DEF RecordsOK
      <4> QED
        BY <4>1 DEF ResourceStep, Checks, Checked, Writes, Ends, Insert, Update, Delete, Abort, Commit
    <3>4. CASE Account(r)
      BY <3>4 DEF Account, OpenAccount, GetAccount, UpdateAccount, ExportAccount, CloseUnauthenticated,
                  PrepareDeletion, FindForClose, CloseStandard, Cascade, DeleteAuth0User, Abort, Commit
    <3>5. CASE OpenResource(r) \/ RequestFails(r)
      BY <3>5 DEF OpenResource, RequestFails, Abort
    <3> QED
      BY <1>2, <3>1, <3>2, <3>3, <3>4, <3>5 DEF Step
  <2> QED
    BY <1>1, <2>1
<1> QED
  BY <1>3, <1>4 DEF IInv, TypeOK, RecordsOK, UsersOK, UsersTypes

\* Nothing else changes it.
LEMMA Stuttering ==
  ASSUME IInv, UNCHANGED vars
  PROVE  IInv'
<1>1. UNCHANGED <<users, identities, assocs, auth0, req>>
  BY DEF vars, tables
<1> USE <1>1
<1>2. TypeOK'
  BY DEF IInv, TypeOK
<1>3. UsersInv'
  BY DEF IInv, UsersInv, CallsHaveAPhase, OneIdentity, UsersHaveAnOrigin, WhatIsHeldStands, HeldStands, HeldStandsIn,
         TransactionsExclude, OwnersAreAccounts, OwnerIsAnAccount, OwnersAreTheSubjects, OwnerIsTheSubjects,
         IsTheSubjectsIn, HoldsInsert, SignedIn, NoIdIsReused
<1>4. RecordsInv'
  BY DEF IInv, RecordsInv, RecordsStand, MergesAreComplete, MergeIsComplete, ChecksStand, CheckStands,
         WorkHasOneOwner, WritesItsOwn, LinksAreOwn, NoIdIsReused, Owned
<1> QED
  BY <1>2, <1>3, <1>4 DEF IInv

(***************************************************************************)
(* Whose work a request changes.                                           *)
(***************************************************************************)

\* WorkIsKept for one request and one record.
ChangesItsWork(r, a) ==
    /\ Steps(r)
    /\ \/ /\ assocs[a] = NoAssoc /\ a = r
          /\ ~SignedIn(r) => users'[req[r].browser] = "unauthenticated"
       \/ /\ assocs[a] # NoAssoc /\ IsCredentialOf(r, assocs[a].owner)
          /\ assocs'[a] = NoAssoc =>
                \/ req[r].verb = "delete" /\ req[r].item = a
                \/ req[r].verb = "close"

\* A user that a request acts as, and that is there, is the one that its credential
\* stands for, whether that is the subject's or the browser's that it has locked.
LEMMA OwnersCredential ==
  ASSUME RecordsOK, NoIdIsReused, NEW r \in Requests, req[r].pc # "done", req[r].owner \in UserIds,
         users[req[r].owner] # "none", SignedIn(r) \/ req[r].lock = "share"
  PROVE  IsCredentialOf(r, req[r].owner)
<1>1. UsersOK /\ UsersInv /\ UsersTypes /\ AtPhase(req[r], r) /\ users[r] = "none" /\ NoUser \notin UserIds
  BY OpenUser, IdentityAssumption DEF RecordsOK, UsersOK, UsersInv, CallsHaveAPhase
<1>2. CASE SignedIn(r)
  <2>1. ~req[r].made
    BY <1>1, <1>2 DEF AtPhase, Phase, SignedIn
  <2>2. identities[req[r].subject] = req[r].owner
    BY <1>1, <1>2, <2>1 DEF UsersInv, OwnersAreTheSubjects, OwnerIsTheSubjects, IsTheSubjectsIn
  <2>3. req[r].subject \in Subjects
    BY <1>1, <1>2 DEF UsersTypes, Request, SignedIn
  <2> QED
    BY <1>1, <1>2, <2>2, <2>3 DEF UsersInv, OneIdentity, OneIdentityIn, IsCredentialOf
<1>3. CASE ~SignedIn(r)
  <2>1. req[r].lock = "share" /\ req[r].owner = req[r].browser
    BY <1>1, <1>3 DEF AtPhase, Phase, SignedIn
  <2>2. users[req[r].browser] = "unauthenticated"
    BY <1>1, <1>3, <2>1 DEF UsersInv, WhatIsHeldStands, HeldStands, HeldStandsIn
  <2> QED
    BY <1>3, <2>1, <2>2 DEF IsCredentialOf
<1> QED
  BY <1>2, <1>3

\* Deleting rows changes those rows, and those that named them.
LEMMA GoneRows ==
  ASSUME assocs \in [AssocIds -> Association \union {NoAssoc}], NEW gone \in SUBSET AssocIds,
         assocs' = Without(assocs, gone), NEW a \in AssocIds, assocs'[a] # assocs[a]
  PROVE  /\ assocs[a] # NoAssoc /\ (a \in gone \/ \E p \in assocs[a].links : p \in gone)
         /\ assocs'[a] = NoAssoc => a \in gone
<1>1. assocs[a] # NoAssoc
  BY DEF Without
<1>2. CASE a \notin gone
  <2> DEFINE links == assocs[a].links \ gone
  <2>1. assocs'[a] = [assocs[a] EXCEPT !.links = links]
    BY <1>1, <1>2 DEF Without
  <2>2. assocs[a] \in Association /\ links \in SUBSET AssocIds /\ (assocs[a].kind = "report" \/ links = {})
    BY <1>1, Rows
  <2> HIDE DEF links
  <2>3. links # assocs[a].links
    BY <2>1, <2>2, Rows
  <2>4. assocs'[a] # NoAssoc
    BY <2>1, <2>2, Rows
  <2> QED
    BY <1>1, <2>3, <2>4 DEF links
<1> QED
  BY <1>1, <1>2

\* The resources write records of the user that the request acts as.
LEMMA ResourceChangesItsWork ==
  ASSUME RecordsOK, NoIdIsReused, NEW r \in Requests, ResourceStep(r), NEW a \in AssocIds, assocs'[a] # assocs[a]
  PROVE  ChangesItsWork(r, a)
<1>1. /\ UsersOK /\ UsersTypes /\ UsersInv /\ RecordsInv /\ assocs \in [AssocIds -> Association \union {NoAssoc}]
      /\ AtPhase(req[r], r) /\ req[r] \in Request /\ "ok" \in Outcomes /\ "created" \in Outcomes
  BY Values DEF RecordsOK, UsersOK, UsersInv, UsersTypes, CallsHaveAPhase
<1>2. /\ req[r].pc = "write" /\ Writes(r) /\ ~Abort(r) /\ users' = UsersOf(r)
      /\ Commit(r, "ok") \/ Commit(r, "created")
  <2>1. Writes(r) /\ ~Abort(r)
    BY DEF ResourceStep, Checks, Checked, Ends, Abort, tables
  <2> QED
    BY <2>1 DEF Writes, Insert, Update, Delete, Commit
<1>3. Steps(r)
  BY <1>1, <1>2, CommitUsers DEF Steps
<1>4. req[r].item \in AssocIds /\ req[r].owner \in UserIds /\ (SignedIn(r) \/ req[r].lock = "share")
  BY <1>1, <1>2 DEF AtPhase, Phase, LockPhase, WritePhase, Request, SignedIn
<1>5. ASSUME assocs[req[r].item] # NoAssoc
      PROVE  /\ assocs[req[r].item].owner = req[r].owner
             /\ IsCredentialOf(r, req[r].owner)
  <2>1. assocs[req[r].item].owner = req[r].owner
    BY <1>1, <1>2, <1>4, <1>5 DEF RecordsInv, WorkHasOneOwner, WritesItsOwn
  <2>2. users[req[r].owner] # "none"
    BY <1>1, <1>4, <1>5, <2>1 DEF RecordsInv, RecordsStand
  <2> QED
    BY <1>2, <1>4, <2>1, <2>2, OwnersCredential
<1>6. CASE req[r].verb = "create"
  <2>1. Insert(r, req[r].kind)
    BY <1>2, <1>6 DEF Writes
  <2>2. a = r
    BY <1>1, <1>2, <2>1 DEF Insert
  <2>3. assocs[r] = NoAssoc
    BY <1>2, OpenRow
  <2>4. ~SignedIn(r) => users'[req[r].browser] = "unauthenticated"
    <3> SUFFICES ASSUME ~SignedIn(r)
                 PROVE  users'[req[r].browser] = "unauthenticated"
      OBVIOUS
    <3>1. req[r].lock = "share" /\ req[r].owner = req[r].browser
      BY <1>1, <1>2, <1>6 DEF AtPhase, LockPhase, SignedIn
    <3>2. req[r].made \/ users[req[r].browser] = "unauthenticated"
      BY <1>1, <3>1 DEF UsersInv, WhatIsHeldStands, HeldStands, HeldStandsIn
    <3> QED
      BY <1>1, <1>2, <1>4, <3>1, <3>2 DEF UsersOf, UsersTypes, UserTable
  <2> QED
    BY <1>3, <2>2, <2>3, <2>4 DEF ChangesItsWork
<1>7. CASE req[r].verb = "patch"
  <2> DEFINE i == req[r].item  links == (assocs[i].links \ req[r].drop) \union req[r].add
  <2>1. assocs[i] # NoAssoc /\ assocs' = [assocs EXCEPT ![i].links = links]
    BY <1>2, <1>7 DEF Writes, Update
  <2>2. a = i
    BY <1>1, <1>4, <2>1
  <2>3. assocs[i] \in Association /\ links \in SUBSET AssocIds /\ (assocs[i].kind = "report" \/ links = {})
    <3>1. assocs[i] \in Association
      BY <1>1, <1>4, <2>1
    <3>2. assocs[i].kind = req[r].kind
      BY <1>1, <1>2, <2>1 DEF RecordsInv, ChecksStand, CheckStands
    <3>3. req[r].add \in SUBSET AssocIds /\ (req[r].kind # "report" => req[r].add = {})
      BY <1>1, <1>2 DEF AtPhase, WritePhase, Request
    <3> QED
      BY <3>1, <3>2, <3>3, Rows
  <2>4. assocs'[i] # NoAssoc
    <3>1. assocs'[i] = [assocs[i] EXCEPT !.links = links]
      BY <1>1, <1>4, <2>1
    <3> HIDE DEF links
    <3> QED
      BY <2>3, <3>1, Rows
  <2> QED
    BY <1>3, <1>5, <2>1, <2>2, <2>4 DEF ChangesItsWork
<1>8. CASE req[r].verb = "delete"
  <2> DEFINE i == req[r].item
  <2>1. assocs' = Without(assocs, {i}) /\ {i} \in SUBSET AssocIds
    BY <1>2, <1>4, <1>8 DEF Writes, Delete
  <2>2. assocs[a] # NoAssoc /\ (a = i \/ i \in assocs[a].links) /\ (assocs'[a] = NoAssoc => a = i)
    BY <1>1, <2>1, GoneRows
  <2>3. assocs[i] # NoAssoc /\ assocs[a].owner = assocs[i].owner
    BY <1>1, <2>2 DEF RecordsInv, RecordsStand, WorkHasOneOwner, LinksAreOwn
  <2> QED
    BY <1>3, <1>5, <1>8, <2>2, <2>3 DEF ChangesItsWork
<1> QED
  BY <1>2, <1>6, <1>7, <1>8 DEF Writes

\* A merge moves records of the browser whose credential the upgrade presents.
LEMMA MergeChangesItsWork ==
  ASSUME RecordsOK, NEW r \in Requests, DeleteMerged(r), NEW a \in AssocIds, assocs'[a] # assocs[a]
  PROVE  ChangesItsWork(r, a)
<1>1. UsersOK /\ UsersTypes /\ UsersInv /\ AtPhase(req[r], r) /\ req[r].pc = "remove" /\ "merged" \in Outcomes
  BY Values DEF RecordsOK, UsersOK, UsersInv, CallsHaveAPhase, DeleteMerged
<1>2. ~Abort(r)
  BY DEF Abort, tables
<1>3. /\ Answer(r, "merged") /\ a \in Owned(req[r].browser) /\ assocs'[a] # NoAssoc
      /\ users[req[r].browser] = "unauthenticated"
  BY <1>2, MergedRows DEF Owned
<1>4. Steps(r)
  BY <1>1, <1>3, AnswerStep DEF Steps
<1>5. req[r].verb = "upgrade"
  BY <1>1 DEF AtPhase, LockPhase
<1> QED
  BY <1>3, <1>4, <1>5 DEF ChangesItsWork, IsCredentialOf, Owned

\* Closing an account deletes the records of its own user.
LEMMA CloseChangesItsWork ==
  ASSUME RecordsOK, NoIdIsReused, NEW r \in Requests, CloseUnauthenticated(r) \/ Cascade(r),
         NEW a \in AssocIds, assocs'[a] # assocs[a]
  PROVE  ChangesItsWork(r, a)
<1> DEFINE u == req[r].owner
<1>1. /\ UsersOK /\ UsersTypes /\ UsersInv /\ RecordsInv /\ AtPhase(req[r], r)
      /\ assocs \in [AssocIds -> Association \union {NoAssoc}] /\ "ok" \in Outcomes
      /\ req[r].pc \in {"work", "cascade"} /\ req[r].verb = "close" /\ req[r] \in Request
      /\ Cascade(r) => req[r].owner \in UserIds /\ SignedIn(r)
  <2>1. UsersOK /\ AtPhase(req[r], r)
    BY DEF RecordsOK, UsersOK, UsersInv, CallsHaveAPhase
  <2>2. req[r].pc \in {"work", "cascade"} /\ req[r].verb = "close"
    BY <2>1 DEF CloseUnauthenticated, Cascade, At, AtPhase, Phase
  <2>3. Cascade(r) => req[r].owner \in UserIds /\ SignedIn(r)
    BY <2>1, HeldOwner DEF Cascade
  <2> QED
    BY <2>1, <2>2, <2>3, Values DEF RecordsOK, UsersOK, UsersTypes
<1>2. Steps(r)
  <2>1. CASE Answer(r, "ok")
    BY <1>1, <2>1, AnswerStep DEF Steps
  <2>2. CASE req' = [req EXCEPT ![r].owner = NoUser, ![r].pc = "auth0"]
    BY <1>1, <2>2 DEF Steps, UsersTypes, Request
  <2> QED
    BY <2>1, <2>2 DEF CloseUnauthenticated, Cascade, Closed, Abort, tables
<1>3. /\ u \in UserIds /\ assocs' = Without(assocs, Owned(u)) /\ Owned(u) \in SUBSET AssocIds
      /\ ~SignedIn(r) => users[u] = "unauthenticated"
  <2>1. u \in UserIds \union {NoUser} /\ Owned(u) \in SUBSET AssocIds
    BY <1>1 DEF Request, Owned
  <2>2. CASE CloseUnauthenticated(r)
    BY <2>1, <2>2 DEF CloseUnauthenticated, Abort, tables
  <2>3. CASE Cascade(r)
    BY <1>1, <2>1, <2>3 DEF Cascade
  <2> QED
    BY <2>2, <2>3
<1>4. assocs[a] # NoAssoc /\ assocs[a].owner = u /\ users[u] # "none"
  <2>1. assocs[a] # NoAssoc /\ (a \in Owned(u) \/ \E p \in assocs[a].links : p \in Owned(u))
    BY <1>1, <1>3, GoneRows
  <2>2. assocs[a].owner = u
    BY <1>1, <2>1 DEF Owned, RecordsInv, WorkHasOneOwner, LinksAreOwn
  <2> QED
    BY <1>1, <2>1, <2>2 DEF RecordsInv, RecordsStand
<1>5. IsCredentialOf(r, u)
  <2>1. CASE SignedIn(r)
    BY <1>1, <1>3, <1>4, <2>1, OwnersCredential
  <2>2. CASE ~SignedIn(r)
    <3>1. u = req[r].browser /\ users[u] = "unauthenticated"
      BY <1>1, <1>3, <2>2, IdentityAssumption DEF AtPhase, Phase, SignedIn
    <3> QED
      BY <2>2, <3>1 DEF IsCredentialOf
  <2> QED
    BY <2>1, <2>2
<1> QED
  BY <1>1, <1>2, <1>4, <1>5 DEF ChangesItsWork

\* Any step of a request.
LEMMA StepChangesItsWork ==
  ASSUME RecordsOK, NoIdIsReused, NEW r \in Requests, Step(r) \/ RequestFails(r),
         NEW a \in AssocIds, assocs'[a] # assocs[a]
  PROVE  ChangesItsWork(r, a)
<1>1. assocs' # assocs
  OBVIOUS
<1>2. CASE UserPolicies(r) \/ UserHouseholds(r) \/ UserSimulations(r) \/ UserReports(r)
  <2>1. ResourceStep(r)
    BY <1>2, UserPoliciesForm, UserHouseholdsForm, UserSimulationsForm, UserReportsForm DEF RecordsOK
  <2> QED
    BY <2>1, ResourceChangesItsWork
<1>3. CASE Convert(r)
  <2>1. DeleteMerged(r)
    BY <1>1, <1>3 DEF Convert, LockForUpgrade, FindForUpgrade, ConvertInPlace, Reassign, UpgradeNothing, Abort,
                      tables
  <2> QED
    BY <2>1, MergeChangesItsWork
<1>4. CASE Account(r)
  <2>1. CloseUnauthenticated(r) \/ Cascade(r)
    BY <1>1, <1>4 DEF Account, OpenAccount, GetAccount, UpdateAccount, ExportAccount, PrepareDeletion, FindForClose,
                      CloseStandard, DeleteAuth0User, Abort, tables
  <2> QED
    BY <2>1, CloseChangesItsWork
<1>5. ~Resolve(r) /\ ~OpenResource(r) /\ ~RequestFails(r)
  BY <1>1 DEF Resolve, ReadIdentity, RefreshActivity, ProvisionUser, RereadIdentity, InsertUnauthenticated,
              ShareUnauthenticated, FindUnauthenticated, OpenResource, RequestFails, Abort, tables
<1> QED
  BY <1>2, <1>3, <1>4, <1>5 DEF Step

(***************************************************************************)
(* What an upgrade leaves.                                                 *)
(***************************************************************************)

\* An upgrade that converts or merges leaves no browser's user, and the work with
\* the user of the subject.
LEMMA UpgradeMoves ==
  ASSUME RecordsOK, NoIdIsReused, NEW r \in Requests, Convert(r),
         req'[r].outcome \in {"converted", "merged"}, req'[r].pc = "done"
  PROVE  /\ users'[req[r].browser] # "unauthenticated"
         /\ \A a \in Owned(req[r].browser) :
               assocs'[a] # NoAssoc /\ assocs'[a].owner = identities'[req[r].subject]
<1> DEFINE b == req[r].browser  s == req[r].subject  u == req[r].owner
<1>1. /\ UsersOK /\ UsersTypes /\ UsersInv /\ AtPhase(req[r], r) /\ req[r] \in Request
      /\ "refused" \in Outcomes /\ "none" \in Outcomes /\ b \in UserIds
      /\ users \in UserTable /\ identities \in IdentityTable
  BY Values DEF RecordsOK, UsersOK, UsersInv, UsersTypes, CallsHaveAPhase, Request, UserIds
<1>2. ~Abort(r) /\ ~Commit(r, "none")
  BY <1>1, AnswerStep DEF Abort, Commit
<1>3. ~LockForUpgrade(r) /\ ~FindForUpgrade(r) /\ ~Reassign(r) /\ ~UpgradeNothing(r)
  BY <1>1, <1>2 DEF LockForUpgrade, FindForUpgrade, Goto, Reassign, UpgradeNothing, UsersTypes, Request
<1>4. CASE ConvertInPlace(r)
  <2>1. /\ users' = [users EXCEPT ![b] = "standard"] /\ identities' = [identities EXCEPT ![s] = b]
        /\ assocs' = assocs
    BY <1>1, <1>4 DEF ConvertInPlace, Goto, UsersTypes, Request
  <2>2. s \in Subjects
    BY <1>1, <1>4 DEF ConvertInPlace, AtPhase, LockPhase, Request
  <2> QED
    BY <1>1, <2>1, <2>2 DEF Owned, UserTable, IdentityTable
<1>5. CASE DeleteMerged(r)
  <2>1. /\ UsersOf(r)[u] # "none" /\ users' = [UsersOf(r) EXCEPT ![b] = "none"]
        /\ u \in UserIds /\ SignedIn(r)
        /\ \A a \in Owned(b) : assocs'[a] # NoAssoc /\ assocs'[a].owner = u
    BY <1>2, <1>5, MergedRows DEF Owned
  <2>2. identities' = IdentitiesOf(r) /\ req[r].pc = "remove"
    BY <1>2, <1>5 DEF DeleteMerged
  <2>3. UsersOf(r) \in UserTable /\ s \in Subjects
    BY <1>1, <2>1 DEF UsersOf, UserTable, UserType, SignedIn, Request
  <2>4. identities'[s] = u
    <3>1. CASE req[r].made
      BY <1>1, <2>1, <2>2, <2>3, <3>1 DEF IdentitiesOf, IdentityTable
    <3>2. CASE ~req[r].made
      <4>1. users[u] # "none" /\ identities' = identities
        BY <2>1, <2>2, <3>2 DEF UsersOf, IdentitiesOf
      <4>2. u # NoUser
        BY <2>1, IdentityAssumption
      <4> QED
        BY <1>1, <2>1, <3>2, <4>1, <4>2 DEF UsersInv, OwnersAreTheSubjects, OwnerIsTheSubjects, IsTheSubjectsIn
    <3> QED
      BY <3>1, <3>2
  <2> QED
    BY <1>1, <2>1, <2>3, <2>4 DEF UserTable
<1> QED
  BY <1>3, <1>4, <1>5 DEF Convert

\* Other operations do not answer so.
LEMMA OnlyUpgradesMove ==
  ASSUME RecordsOK, NEW r \in Requests, Step(r) \/ RequestFails(r),
         req[r].verb = "upgrade", Steps(r), req'[r].outcome \in {"converted", "merged"}, req'[r].pc = "done"
  PROVE  Convert(r)
<1>1. /\ UsersOK /\ UsersTypes /\ UsersInv /\ AtPhase(req[r], r) /\ req[r] \in Request
      /\ "refused" \in Outcomes
  BY Values DEF RecordsOK, UsersOK, UsersInv, UsersTypes, CallsHaveAPhase
<1>2. ~Abort(r) /\ req[r].kind = "account"
  BY <1>1, AnswerStep DEF Abort, AtPhase, Phase
<1>3. ~Resolve(r)
  BY <1>1, <1>2 DEF Resolve, ReadIdentity, RefreshActivity, ProvisionUser, RereadIdentity, InsertUnauthenticated,
                    ShareUnauthenticated, FindUnauthenticated, Resolved, Goto, UsersTypes, Request
<1>4. ~OpenResource(r) /\ ~RequestFails(r)
  BY <1>2 DEF OpenResource, RequestFails
<1>5. ~(UserPolicies(r) \/ UserHouseholds(r) \/ UserSimulations(r) \/ UserReports(r))
  <2>1. ~ResourceStep(r)
    <3>1. ~Writes(r) /\ ~(\E item \in AssocIds, add, drop \in SUBSET AssocIds : Checks(r, item, add, drop))
      BY <1>1, <1>2 DEF Writes, Checks, Kinds
    <3>2. ~Ends(r)
      BY <1>1, <1>2, Values, AnswerStep DEF Ends, Commit
    <3> QED
      BY <3>1, <3>2 DEF ResourceStep
  <2> QED
    BY <2>1, UserPoliciesForm, UserHouseholdsForm, UserSimulationsForm, UserReportsForm DEF RecordsOK
<1>6. ~Account(r)
  <2>1. ~OpenAccount(r)
    BY <1>1, <1>2 DEF OpenAccount, Goto, UsersTypes, Request
  <2>2. ~DeleteAuth0User(r)
    BY <1>1, <1>2, Values, AnswerStep DEF DeleteAuth0User
  <2>3. ~PrepareDeletion(r) /\ ~FindForClose(r) /\ ~Cascade(r)
    BY <1>1 DEF PrepareDeletion, FindForClose, Cascade, AtPhase, Phase
  <2> QED
    BY <2>1, <2>2, <2>3 DEF Account, GetAccount, UpdateAccount, ExportAccount, CloseUnauthenticated,
                            CloseStandard, At
<1> QED
  BY <1>3, <1>4, <1>5, <1>6 DEF Step

\* Each step is one request's.
LEMMA OthersWait ==
  ASSUME RecordsOK, NEW q \in Requests, Step(q) \/ RequestFails(q), NEW r \in Requests \ {q}
  PROVE  req'[r] = req[r]
<1>1. req \in [Requests -> Request]
  BY DEF RecordsOK, UsersOK, UsersTypes
<1>2. CASE OpenResource(q) \/ RequestFails(q)
  BY <1>1, <1>2 DEF OpenResource, RequestFails, Abort, Answer, Goto
<1>3. CASE Resolve(q)
  BY <1>1, <1>3, ResolveUsers, StepTypes DEF RecordsOK, UsersOK, GoesOn
<1>4. CASE Convert(q)
  BY <1>1, <1>4, ConvertUsers, StepTypes DEF RecordsOK, UsersOK
<1>5. CASE Account(q)
  BY <1>1, <1>5, AccountUsers, StepTypes DEF RecordsOK, UsersOK, GoesOn
<1>6. CASE UserPolicies(q) \/ UserHouseholds(q) \/ UserSimulations(q) \/ UserReports(q)
  <2>1. ResourceStep(q)
    BY <1>6, UserPoliciesForm, UserHouseholdsForm, UserSimulationsForm, UserReportsForm DEF RecordsOK
  <2> QED
    BY <2>1, ResourceUsers, OpenRow, StepTypes DEF RecordsOK, UsersOK
<1> QED
  BY <1>2, <1>3, <1>4, <1>5, <1>6 DEF Step

(***************************************************************************)
(* Waits. Whoever has inserted a user, refreshed an identity or shares a   *)
(* browser's row waits at most for the end of a merge, which waits for     *)
(* none, or is the refreshed request that a deletion meets. A deletion     *)
(* that cascades waits for refreshed requests only. Of upgrades that hold  *)
(* their browsers, one may wait to move rows to a user that another one    *)
(* holds, but found that user before the other one came: the upgrade that  *)
(* came last waits for none.                                               *)
(***************************************************************************)

\* Only writes share the browser's row.
WritesShare == \A r \in Requests : req[r].pc = "share" \/ req[r].lock = "share" =>
                   req[r].verb \in {"create", "patch", "delete"}

\* Of any upgrades with a lock, one acts as no user that another one holds.
UpgradesEnd == \A T \in (SUBSET Requests) \ {{}} :
    (\A q \in T : req[q].lock = "update") => \E q \in T : \A o \in T : req[q].owner # req[o].browser

WaitsInv == WritesShare /\ UpgradesEnd

\* An upgrade keeps its user, or finds one, which is nobody's browser.
FindsAnAccount(r) ==
    /\ req'[r].pc = "share" \/ req'[r].lock = "share" => req[r].verb \in {"create", "patch", "delete"}
    /\ req'[r].lock = "update" =>
           \/ req[r].lock = "update" /\ req'[r].owner = req[r].owner
           \/ req'[r].owner = NoUser
           \/ users'[req'[r].owner] # "unauthenticated"

\* The steps that leave nothing, go on with the same user, or find one.
LEMMA EndFinds ==
  ASSUME NEW r \in Requests, Ended(req'[r]), req'[r].pc # "share"
  PROVE  FindsAnAccount(r)
  BY DEF Ended, FindsAnAccount

\* Another call.
LEMMA KeepFinds ==
  ASSUME WaitsInv, NEW r \in Requests, KeepsUser(r), req'[r].pc # "share"
  PROVE  FindsAnAccount(r)
  BY DEF KeepsUser, FindsAnAccount, WaitsInv, WritesShare

\* The user of an identity.
LEMMA IdentityFinds ==
  ASSUME UsersOK, WaitsInv, NEW r \in Requests, SignedIn(r), users' = users, req'[r].lock = req[r].lock,
         req'[r].owner = identities[req[r].subject], req'[r].pc # "share"
  PROVE  FindsAnAccount(r)
<1>1. req[r].subject \in Subjects
  BY DEF UsersOK, UsersTypes, Request, SignedIn
<1> QED
  BY <1>1 DEF UsersOK, UsersInv, OneIdentity, OneIdentityIn, FindsAnAccount, WaitsInv, WritesShare

\* The provisioning services.
LEMMA ResolveFinds ==
  ASSUME UsersOK, WaitsInv, NEW r \in Requests, Resolve(r)
  PROVE  FindsAnAccount(r)
<1>1. /\ UsersTypes /\ UsersInv /\ AtPhase(req[r], r) /\ "refused" \in Outcomes
      /\ "provision" \in PCs /\ "work" \in PCs /\ "refresh" \in PCs /\ "reread" \in PCs /\ "share" \in PCs /\ "resolve" \in PCs
  BY Values DEF UsersOK, UsersInv, CallsHaveAPhase
<1>2. ASSUME Abort(r)
      PROVE  FindsAnAccount(r)
  BY <1>1, <1>2, AnswerStep, EndFinds DEF Abort
<1>3. ASSUME NEW pc \in {"provision", "reread"}, Goto(r, pc)
      PROVE  FindsAnAccount(r)
  BY <1>1, <1>3, GotoStep, KeepFinds
<1>4. ASSUME SignedIn(r), NEW pc \in {"work", "refresh"}, ActAs(r, identities[req[r].subject], pc),
             users' = users
      PROVE  FindsAnAccount(r)
  <2>1. identities[req[r].subject] \in UserIds \union {NoUser}
    BY <1>1, <1>4 DEF UsersTypes, IdentityTable, Request, SignedIn
  <2>2. /\ req'[r].owner = identities[req[r].subject] /\ req'[r].lock = req[r].lock /\ req'[r].pc = pc
    BY <1>1, <1>4, <2>1, OwnerStep
  <2> QED
    BY <1>4, <2>2, IdentityFinds
<1>5. CASE ReadIdentity(r)
  BY <1>3, <1>4, <1>5 DEF ReadIdentity, tables, Resolved, ActAs
<1>6. CASE RefreshActivity(r)
  <2>1. CASE req' = [req EXCEPT ![r].seen = TRUE, ![r].pc = "work"]
    <3>1. req'[r].owner = req[r].owner /\ req'[r].lock = req[r].lock /\ req'[r].pc = "work"
      BY <1>1, <2>1 DEF UsersTypes, Request
    <3> QED
      BY <3>1 DEF FindsAnAccount, WaitsInv, WritesShare
  <2> QED
    BY <1>2, <1>6, <2>1 DEF RefreshActivity
<1>7. CASE ProvisionUser(r)
  <2>1. CASE req' = [req EXCEPT ![r].owner = r, ![r].made = TRUE, ![r].pc = "work"]
    <3>1. req'[r].owner = r /\ req'[r].lock = req[r].lock /\ req'[r].pc = "work"
      BY <1>1, <2>1 DEF UsersTypes, Request
    <3>2. users' = users /\ users[r] = "none"
      BY <1>7, OpenUser DEF ProvisionUser, tables
    <3> QED
      BY <3>1, <3>2 DEF FindsAnAccount, WaitsInv, WritesShare
  <2> QED
    BY <1>3, <1>7, <2>1 DEF ProvisionUser
<1>8. CASE RereadIdentity(r)
  <2>1. SignedIn(r)
    BY <1>1, <1>8 DEF RereadIdentity, AtPhase, Phase, SignedIn
  <2> QED
    BY <1>2, <1>4, <1>8, <2>1 DEF RereadIdentity, tables, Resolved, ActAs
<1>9. CASE InsertUnauthenticated(r)
  <2>1. /\ req[r].verb \in {"create", "patch", "delete"} /\ ~SignedIn(r)
        /\ req'[r].lock = req[r].lock
    BY <1>1, <1>9 DEF InsertUnauthenticated, UsersTypes, Request
  <2>2. req[r].lock # "update"
    BY <1>1, <2>1 DEF AtPhase, LockPhase, SignedIn
  <2> QED
    BY <2>1, <2>2 DEF FindsAnAccount
<1>10. CASE ShareUnauthenticated(r)
  <2>1. /\ req[r].pc = "share" /\ req[r].verb \in {"create", "patch", "delete"} /\ req[r].lock # "update"
    BY <1>1, <1>10 DEF ShareUnauthenticated, WaitsInv, WritesShare, AtPhase, LockPhase
  <2>2. CASE req' = [req EXCEPT ![r].lock = "share", ![r].pc = "work"]
    <3>1. req'[r].lock = "share"
      BY <1>1, <2>2 DEF UsersTypes, Request
    <3> QED
      BY <2>1, <3>1 DEF FindsAnAccount
  <2>3. CASE req' = [req EXCEPT ![r].again = TRUE, ![r].pc = "resolve"]
    <3>1. req'[r].lock = req[r].lock
      BY <1>1, <2>3 DEF UsersTypes, Request
    <3> QED
      BY <2>1, <3>1 DEF FindsAnAccount
  <2> QED
    BY <1>2, <1>10, <2>2, <2>3 DEF ShareUnauthenticated
<1>11. CASE FindUnauthenticated(r)
  <2>1. req[r].pc = "resolve" /\ req[r].lock = "none"
    BY <1>1, <1>11 DEF FindUnauthenticated, AtPhase, LockPhase, SignedIn, UsersTypes, Request, Locks
  <2>2. ASSUME NEW u, Resolved(r, u)
        PROVE  FindsAnAccount(r)
    <3>1. req'[r].lock = req[r].lock /\ req'[r].pc = "work"
      BY <1>1, <2>2 DEF Resolved, UsersTypes, Request
    <3> QED
      BY <2>1, <3>1 DEF FindsAnAccount
  <2> QED
    BY <1>2, <1>11, <2>2 DEF FindUnauthenticated
<1> QED
  BY <1>5, <1>6, <1>7, <1>8, <1>9, <1>10, <1>11 DEF Resolve

\* The statements of an upgrade.
LEMMA ConvertFinds ==
  ASSUME UsersOK, WaitsInv, NEW r \in Requests, Convert(r)
  PROVE  FindsAnAccount(r)
<1>1. /\ UsersTypes /\ UsersInv /\ AtPhase(req[r], r) /\ "refused" \in Outcomes /\ "converted" \in Outcomes
      /\ "merged" \in Outcomes /\ "none" \in Outcomes /\ "identity" \in PCs /\ "resolve" \in PCs
  BY Values DEF UsersOK, UsersInv, CallsHaveAPhase
<1>2. ASSUME NEW outcome \in {"refused", "converted", "merged", "none"}, Answer(r, outcome)
      PROVE  FindsAnAccount(r)
  BY <1>1, <1>2, AnswerStep, EndFinds
<1>3. ASSUME NEW pc \in {"identity", "resolve"}, Goto(r, pc)
      PROVE  FindsAnAccount(r)
  BY <1>1, <1>3, GotoStep, KeepFinds
<1>4. CASE LockForUpgrade(r)
  <2>1. req[r].owner = NoUser
    BY <1>1, <1>4 DEF LockForUpgrade, AtPhase, Phase, Outside
  <2>2. /\ req'[r].owner = req[r].owner /\ req'[r].lock # "share" /\ req'[r].pc # "share"
    BY <1>1, <1>4 DEF LockForUpgrade, UsersTypes, Request
  <2> QED
    BY <2>1, <2>2 DEF FindsAnAccount
<1>5. CASE Reassign(r)
  <2>1. CASE req' = [req EXCEPT ![r].moved = RowsToMove(r), ![r].pc = "remove"]
    <3>1. req'[r].owner = req[r].owner /\ req'[r].lock = req[r].lock /\ req'[r].pc = "remove"
      BY <1>1, <2>1 DEF UsersTypes, Request
    <3> QED
      BY <3>1 DEF FindsAnAccount, WaitsInv, WritesShare
  <2> QED
    BY <1>2, <1>5, <2>1 DEF Reassign, Abort
<1>6. CASE FindForUpgrade(r) \/ ConvertInPlace(r)
  BY <1>2, <1>3, <1>6 DEF FindForUpgrade, ConvertInPlace
<1>7. CASE DeleteMerged(r) \/ UpgradeNothing(r)
  BY <1>2, <1>7 DEF DeleteMerged, UpgradeNothing, Abort, Commit
<1> QED
  BY <1>4, <1>5, <1>6, <1>7 DEF Convert

\* Saved work.
LEMMA ResourceFinds ==
  ASSUME UsersOK, WaitsInv, NEW r \in Requests, ResourceStep(r)
  PROVE  FindsAnAccount(r)
<1>1. UsersTypes /\ UsersInv /\ "refused" \in Outcomes /\ "ok" \in Outcomes /\ "created" \in Outcomes
  BY Values DEF UsersOK
<1>2. ASSUME NEW outcome \in {"refused", "ok", "created"}, Answer(r, outcome)
      PROVE  FindsAnAccount(r)
  BY <1>1, <1>2, AnswerStep, EndFinds
<1>3. ASSUME NEW item \in AssocIds, NEW add \in SUBSET AssocIds, NEW drop \in SUBSET AssocIds,
             Checks(r, item, add, drop)
      PROVE  FindsAnAccount(r)
  BY <1>1, <1>3, CheckedStep, KeepFinds DEF Checks
<1>4. CASE Writes(r)
  BY <1>2, <1>4 DEF Writes, Insert, Update, Delete, Abort, Commit
<1>5. CASE Ends(r)
  BY <1>2, <1>5 DEF Ends, Abort, Commit
<1> QED
  BY <1>3, <1>4, <1>5 DEF ResourceStep

\* The handlers of /v2/me.
LEMMA AccountFinds ==
  ASSUME UsersOK, WaitsInv, NEW r \in Requests, Account(r)
  PROVE  FindsAnAccount(r)
<1>1. /\ UsersTypes /\ UsersInv /\ AtPhase(req[r], r) /\ "refused" \in Outcomes /\ "ok" \in Outcomes
      /\ {"upgrade", "prepare", "resolve", "close", "cascade"} \subseteq PCs
  BY Values DEF UsersOK, UsersInv, CallsHaveAPhase
<1>2. ASSUME NEW outcome \in {"refused", "ok"}, Answer(r, outcome)
      PROVE  FindsAnAccount(r)
  BY <1>1, <1>2, AnswerStep, EndFinds
<1>3. ASSUME NEW pc \in {"upgrade", "prepare", "resolve", "close", "cascade"}, Goto(r, pc)
      PROVE  FindsAnAccount(r)
  BY <1>1, <1>3, GotoStep, KeepFinds
<1>4. CASE OpenAccount(r)
  BY <1>2, <1>3, <1>4 DEF OpenAccount, Abort
<1>5. CASE GetAccount(r) \/ UpdateAccount(r) \/ ExportAccount(r) \/ CloseUnauthenticated(r)
  BY <1>2, <1>5 DEF GetAccount, UpdateAccount, ExportAccount, CloseUnauthenticated, Abort, Commit
<1>6. CASE PrepareDeletion(r) \/ DeleteAuth0User(r)
  BY <1>2, <1>3, <1>6 DEF PrepareDeletion, DeleteAuth0User, Abort
<1>7. CASE FindForClose(r)
  <2>1. req[r].lock = "none"
    BY <1>1, <1>7 DEF FindForClose, AtPhase, LockPhase, UsersTypes, Request, Locks
  <2>2. req'[r].lock = req[r].lock /\ req'[r].pc = "work"
    BY <1>1, <1>7 DEF FindForClose, UsersTypes, Request
  <2> QED
    BY <2>1, <2>2 DEF FindsAnAccount
<1>8. CASE CloseStandard(r) \/ Cascade(r)
  <2>1. CASE req' = [req EXCEPT ![r].owner = NoUser, ![r].pc = "auth0"]
    <3>1. req'[r].owner = NoUser /\ req'[r].lock = req[r].lock /\ req'[r].pc = "auth0"
      BY <1>1, <2>1 DEF UsersTypes, Request
    <3> QED
      BY <3>1 DEF FindsAnAccount, WaitsInv, WritesShare
  <2> QED
    BY <1>2, <1>3, <1>8, <2>1 DEF CloseStandard, Cascade, Closed
<1> QED
  BY <1>4, <1>5, <1>6, <1>7, <1>8 DEF Account

\* Every step.
LEMMA StepFinds ==
  ASSUME RecordsOK, WaitsInv, NEW r \in Requests, Step(r) \/ RequestFails(r)
  PROVE  FindsAnAccount(r)
<1>1. UsersOK /\ UsersTypes /\ UsersInv /\ "refused" \in Outcomes /\ "resolve" \in PCs
  BY Values DEF RecordsOK, UsersOK
<1>2. CASE Abort(r)
  BY <1>1, <1>2, AnswerStep, EndFinds DEF Abort
<1>3. CASE Goto(r, "resolve")
  BY <1>1, <1>3, GotoStep, KeepFinds
<1>4. CASE OpenResource(r) \/ RequestFails(r)
  BY <1>2, <1>3, <1>4 DEF OpenResource, RequestFails
<1>5. CASE UserPolicies(r) \/ UserHouseholds(r) \/ UserSimulations(r) \/ UserReports(r)
  <2>1. ResourceStep(r)
    BY <1>5, UserPoliciesForm, UserHouseholdsForm, UserSimulationsForm, UserReportsForm DEF RecordsOK
  <2> QED
    BY <1>1, <2>1, ResourceFinds
<1> QED
  BY <1>1, <1>4, <1>5, ResolveFinds, ConvertFinds, AccountFinds DEF Step

\* A step does not change what its request asks for.
LEMMA AsksTheSame ==
  ASSUME RecordsOK, NEW r \in Requests, Step(r) \/ RequestFails(r)
  PROVE  StepOf(r)
<1>1. UsersOK /\ UsersTypes /\ UsersInv /\ "refused" \in Outcomes /\ "resolve" \in PCs
  BY Values DEF RecordsOK, UsersOK
<1>2. CASE OpenResource(r) \/ RequestFails(r)
  BY <1>1, <1>2, AnswerStep, GotoStep DEF OpenResource, RequestFails, Abort
<1>3. CASE Resolve(r) \/ Convert(r) \/ Account(r)
  BY <1>1, <1>3, ResolveUsers, ConvertUsers, AccountUsers DEF GoesOn
<1>4. CASE UserPolicies(r) \/ UserHouseholds(r) \/ UserSimulations(r) \/ UserReports(r)
  <2>1. ResourceStep(r)
    BY <1>4, UserPoliciesForm, UserHouseholdsForm, UserSimulationsForm, UserReportsForm DEF RecordsOK
  <2> QED
    BY <1>1, <2>1, ResourceUsers, OpenRow DEF RecordsOK
<1> QED
  BY <1>2, <1>3, <1>4 DEF Step

\* The order of the upgrades is kept.
LEMMA WaitsNext ==
  ASSUME IInv, IInv', WaitsInv, Next
  PROVE  WaitsInv'
<1>1. RecordsOK /\ UsersTypes /\ UsersTypes' /\ WhatIsHeldStands' /\ CallsHaveAPhase
  BY DEF IInv, TypeOK, RecordsOK, UsersOK, UsersTypes, UsersInv
<1>2. PICK r \in Requests : Step(r) \/ RequestFails(r)
  BY DEF Next
<1>3. FindsAnAccount(r)
  BY <1>1, <1>2, StepFinds
<1>4. \A o \in Requests \ {r} : req'[o] = req[o]
  BY <1>1, <1>2, OthersWait
<1>5. req'[r].verb = req[r].verb /\ req'[r].browser = req[r].browser
  BY <1>1, <1>2, AsksTheSame DEF StepOf
<1>6. WritesShare'
  BY <1>3, <1>4, <1>5 DEF WaitsInv, WritesShare, FindsAnAccount
<1>7. UpgradesEnd'
  <2> SUFFICES ASSUME NEW T \in SUBSET Requests, T # {}, \A q \in T : req'[q].lock = "update"
               PROVE  \E q \in T : \A o \in T : req'[q].owner # req'[o].browser
    BY DEF UpgradesEnd
  <2>1. CASE r \in T /\ (req'[r].owner = NoUser \/ users'[req'[r].owner] # "unauthenticated")
    <3>1. ASSUME NEW o \in T
          PROVE  req'[r].owner # req'[o].browser
      <4>1. users'[req'[o].browser] = "unauthenticated"
        BY <1>1 DEF WhatIsHeldStands, HeldStands, HeldStandsIn
      <4>2. req'[o].browser # NoUser
        BY <1>1, IdentityAssumption DEF UsersTypes, Request, UserIds
      <4> QED
        BY <2>1, <4>1, <4>2
    <3> QED
      BY <2>1, <3>1
  <2>2. CASE ~(r \in T /\ (req'[r].owner = NoUser \/ users'[req'[r].owner] # "unauthenticated"))
    <3>1. \A q \in T : req[q].lock = "update" /\ req'[q].owner = req[q].owner /\ req'[q].browser = req[q].browser
      BY <1>3, <1>4, <1>5, <2>2 DEF FindsAnAccount
    <3>2. PICK q \in T : \A o \in T : req[q].owner # req[o].browser
      BY <3>1 DEF WaitsInv, UpgradesEnd
    <3> QED
      BY <3>1, <3>2
  <2> QED
    BY <2>1, <2>2
<1> QED
  BY <1>6, <1>7 DEF WaitsInv

\* A lock, an insert, an update or a moved row is that of an open request.
LEMMA HoldersAreOpen ==
  ASSUME IInv, NEW r \in Requests, NEW q \in Requests, Waits(r, q)
  PROVE  Open(q)
<1>1. AtPhase(req[q], q)
  BY DEF IInv, UsersInv, CallsHaveAPhase
<1>2. \/ req[q].made \/ req[q].seen \/ req[q].lock \in {"share", "update"}
      \/ req[q].pc \in {"remove", "cascade"} \/ req[q].moved # {}
  BY DEF Waits, HoldsIdentity, HoldsActivity, HoldsInsert, HoldsShare, HoldsUpdate, HoldsDelete, HoldsAlone,
         HoldsOwnerKey, LockedBy, HoldsRow
<1> QED
  BY <1>1, <1>2 DEF AtPhase, Phase, LockPhase, Outside, Open

\* Past its waits, but for the end of a merge and for a deletion that meets it.
Rests(r) == req[r].made \/ req[r].seen \/ req[r].lock = "share" \/ req[r].pc = "remove"

\* What a resting request can still come to wait for.
LEMMA RestingStatements ==
  ASSUME IInv, WaitsInv, NEW r \in Requests, NEW q \in Requests, Rests(r), Waits(r, q)
  PROVE  /\ req[r].pc # "remove"
         /\ \/ HoldsRow(q, req[r].item)
            \/ req[r].pc = "share" /\ HoldsAlone(q, req[r].browser)
            \/ req[r].pc \in {"work", "write"} /\ HoldsAlone(q, req[r].owner)
            \/ req[r].pc = "work" /\ SignedIn(r) /\ HoldsShare(q, req[r].owner)
<1>1. AtPhase(req[r], r)
  BY DEF IInv, UsersInv, CallsHaveAPhase
<1>2. req[r].pc # "remove"
  BY DEF Waits
<1>3. req[r].pc \notin {"provision", "identity", "refresh", "resolve", "upgrade", "cascade"}
  BY <1>1, <1>2 DEF Rests, AtPhase, Phase, LockPhase, Outside
<1>4. ~(req[r].pc = "work" /\ req[r].verb = "close")
  BY <1>1, <1>2 DEF Rests, AtPhase, Phase, WaitsInv, WritesShare, SignedIn
<1>5. req[r].kind = "account" /\ req[r].verb = "patch" /\ req[r].pc = "work" => SignedIn(r)
  BY <1>1 DEF AtPhase, Phase, SignedIn
<1> QED
  BY <1>2, <1>3, <1>4, <1>5 DEF Waits

\* A deletion that a refreshed request waits for waits for that request's identity.
LEMMA RefreshedMeetsDeletion ==
  ASSUME IInv, NEW r \in Requests, NEW q \in Requests, req[r].seen, Waits(r, q), HoldsDelete(q, req[r].owner)
  PROVE  MeetsDeletion(q, r)
<1>1. req[r].subject \in Subjects /\ identities[req[r].subject] = req[r].owner /\ q # r
  BY HeldOwner DEF IInv, TypeOK, UsersOK, UsersTypes, UsersInv, WhatIsHeldStands, HeldStands, HeldStandsIn, Waits
<1>2. req[q].pc = "cascade" /\ req[q].owner = req[r].owner
  BY DEF HoldsDelete
<1>3. \E o \in Subjects : identities[o] = req[q].owner /\ HoldsActivity(r, o)
  BY <1>1, <1>2 DEF HoldsActivity
<1>4. Waits(q, r)
  BY <1>1, <1>2, <1>3 DEF Waits
<1> QED
  BY <1>2, <1>4 DEF MeetsDeletion

\* The merge whose end it may wait for waits for nothing, and the deletion it may wait
\* for has met it.
LEMMA RestingWaits ==
  ASSUME IInv, WaitsInv, NEW r \in Requests, NEW q \in Requests, Rests(r), Waits(r, q)
  PROVE  req[r].pc # "remove" /\ (req[q].pc = "remove" \/ MeetsDeletion(q, r))
<1>1. /\ AtPhase(req[r], r) /\ AtPhase(req[q], q) /\ HeldStands(r) /\ HeldStands(q)
      /\ Excludes(req[q], req[r]) /\ q # r /\ UsersOK /\ OneIdentity
      /\ req[q].browser \in Browsers /\ r \notin Browsers
  BY IdentityAssumption
  DEF IInv, TypeOK, Request, UsersTypes, UsersOK, UsersInv, CallsHaveAPhase, WhatIsHeldStands,
      TransactionsExclude, Waits
<1>2. req[r].pc # "remove"
  BY RestingStatements
<1>3. CASE HoldsRow(q, req[r].item)
  BY <1>1, <1>2, <1>3 DEF HoldsRow, AtPhase, LockPhase
<1> DEFINE u == IF req[r].pc = "share" THEN req[r].browser ELSE req[r].owner
<1>4. CASE HoldsAlone(q, u) \/ (SignedIn(r) /\ HoldsShare(q, u))
  <2>1. CASE req[r].seen
    <3>1. req[r].pc # "share" /\ SignedIn(r) /\ u = req[r].owner /\ users[u] = "standard"
      BY <1>1, <2>1, HeldOwner
      DEF AtPhase, Phase, SignedIn, HeldStands, HeldStandsIn, OneIdentity, OneIdentityIn
    <3>2. ~HoldsUpdate(q, u)
      BY <1>1, <3>1 DEF HoldsUpdate, HeldStands, HeldStandsIn
    <3>3. ~HoldsShare(q, u)
      BY <1>1, <3>1 DEF HoldsShare, HeldStands, HeldStandsIn, AtPhase, LockPhase, SignedIn
    <3> QED
      BY <1>2, <1>4, <2>1, <3>1, <3>2, <3>3, RefreshedMeetsDeletion DEF HoldsAlone
  <2>2. CASE req[r].made /\ SignedIn(r)
    <3>1. u = r /\ req[r].pc # "done"
      BY <1>1, <2>2 DEF AtPhase, Phase, SignedIn, Outside
    <3>2. ~HoldsUpdate(q, r) /\ ~HoldsShare(q, r)
      BY <1>1 DEF HoldsUpdate, HoldsShare
    <3>3. ~HoldsDelete(q, r)
      <4> SUFFICES ASSUME HoldsDelete(q, r)
                   PROVE  FALSE
        OBVIOUS
      <4>1. SignedIn(q) /\ req[q].owner = r /\ r # NoUser
        BY <1>1, HeldOwner, IdentityAssumption DEF HoldsDelete, UserIds
      <4> QED
        BY <1>1, <3>1, <4>1 DEF IInv, UsersInv, OwnersAreAccounts, OwnerIsAnAccount
    <3> QED
      BY <1>4, <3>1, <3>2, <3>3 DEF HoldsAlone
  <2>3. CASE req[r].made /\ ~SignedIn(r)
    <3>1. users[req[r].browser] = "none" /\ req[r].owner = req[r].browser
      BY <1>1, <2>3 DEF HeldStands, HeldStandsIn, AtPhase, Phase, SignedIn
    <3> QED
      BY <1>1, <1>4, <2>3, <3>1 DEF HeldStands, HeldStandsIn, HoldsAlone, HoldsUpdate, HoldsDelete
  <2>4. CASE req[r].lock = "share"
    <3>1. req[r].owner = req[r].browser /\ ~SignedIn(r)
      BY <1>1, <2>4 DEF AtPhase, LockPhase, WaitsInv, WritesShare, SignedIn
    <3> QED
      BY <1>1, <1>4, <2>4, <3>1 DEF Excludes, HoldsAlone, HoldsUpdate, HoldsDelete
  <2> QED
    BY <1>2, <2>1, <2>2, <2>3, <2>4 DEF Rests
<1> QED
  BY <1>2, <1>3, <1>4, RestingStatements

\* A deletion that cascades waits for refreshed requests.
LEMMA CascadeWaits ==
  ASSUME NEW r \in Requests, NEW q \in Requests, req[r].pc = "cascade", Waits(r, q)
  PROVE  Rests(q)
  BY DEF Waits, HoldsActivity, Rests

\* Any other wait is for an upgrade that holds its browser.
LEMMA WaitsForUpgrades ==
  ASSUME IInv, NEW r \in Requests, NEW q \in Requests, Waits(r, q), ~Rests(q), req[q].pc # "cascade"
  PROVE  /\ req[q].lock = "update"
         /\ req[r].lock = "update" => req[r].owner = req[q].browser
<1>1. AtPhase(req[r], r) /\ AtPhase(req[q], q)
  BY DEF IInv, UsersInv, CallsHaveAPhase
<1>2. req[q].moved = {}
  BY <1>1 DEF Rests, AtPhase, LockPhase
<1>3. ~req[q].made /\ ~req[q].seen /\ req[q].lock # "share" /\ req[q].pc \notin {"remove", "cascade"}
  BY DEF Rests
<1>4. req[q].lock = "update"
  BY <1>2, <1>3 DEF Waits, HoldsIdentity, HoldsActivity, HoldsInsert, HoldsShare, HoldsUpdate, HoldsDelete,
                    HoldsAlone, HoldsOwnerKey, LockedBy, HoldsRow
<1>5. CASE req[r].lock = "update"
  <2>1. /\ SignedIn(r) /\ req[r].verb = "upgrade"
        /\ req[r].pc \notin {"share", "upgrade", "write", "cascade"}
    BY <1>1, <1>5 DEF AtPhase, LockPhase, SignedIn
  <2>2. HoldsUpdate(q, req[r].owner)
    BY <1>3, <2>1 DEF Waits, HoldsIdentity, HoldsActivity, HoldsAlone, HoldsDelete
  <2> QED
    BY <1>4, <2>2 DEF HoldsUpdate
<1> QED
  BY <1>4, <1>5

(***************************************************************************)
(* The theorems.                                                           *)
(***************************************************************************)

\* Whatever the requests ask for, and however their statements and commits
\* interleave, IInv holds in every reachable state.
THEOREM Inductive == Spec => []IInv
<1>1. Init => IInv
  BY Initially
<1>2. IInv /\ [Next]_vars => IInv'
  BY Next_Keeps, Stuttering
<1> QED
  BY <1>1, <1>2, PTL DEF Spec

\* The tables and the requests hold values of their kinds.
THEOREM TypeCorrect == Spec => []TypeOK
<1>1. IInv => TypeOK
  BY DEF IInv
<1> QED
  BY <1>1, Inductive, PTL

\* Every standard user has exactly one sign-in identity and an unauthenticated one
\* has none, whoever wins the races of first requests, conversions and merges.
THEOREM OneIdentityPerUser == Spec => []AccountsMatchIdentities
<1>1. IInv => AccountsMatchIdentities
  BY IdentityCount DEF IInv, TypeOK, UsersInv, UsersTypes
<1> QED
  BY <1>1, Inductive, PTL

\* A report's user_policy_id and baseline_user_policy_id name saved policies of the
\* report's own owner, although its owner may be merged, and the policies deleted,
\* between the check and the write.
THEOREM LinksStayWithinOwner == Spec => []LinksWithinOwner
<1>1. IInv => LinksWithinOwner
  BY DEF IInv, RecordsInv, RecordsStand, WorkHasOneOwner, LinksAreOwn, LinksWithinOwner
<1> QED
  BY <1>1, Inductive, PTL

\* Saved work is changed only by a request whose credential stands for its owner
\* at that moment, and goes only with a deletion of this record or of the account.
THEOREM WorkIsKeptFromOthers == Spec => WorkIsKept
<1> DEFINE Kept == NoIdIsReused => \A a \in AssocIds : assocs'[a] # assocs[a] =>
                      \E r \in Requests :
                         /\ Steps(r)
                         /\ \/ /\ assocs[a] = NoAssoc /\ a = r
                               /\ ~SignedIn(r) => users'[req[r].browser] = "unauthenticated"
                            \/ /\ assocs[a] # NoAssoc /\ IsCredentialOf(r, assocs[a].owner)
                               /\ assocs'[a] = NoAssoc =>
                                     \/ req[r].verb = "delete" /\ req[r].item = a
                                     \/ req[r].verb = "close"
<1>1. IInv /\ [Next]_vars => [Kept]_vars
  <2> SUFFICES ASSUME IInv, Next, NoIdIsReused, NEW a \in AssocIds, assocs'[a] # assocs[a]
               PROVE  \E r \in Requests : ChangesItsWork(r, a)
    BY DEF ChangesItsWork
  <2>1. RecordsOK
    BY DEF IInv, TypeOK, RecordsOK, UsersOK, UsersTypes
  <2>2. PICK r \in Requests : Step(r) \/ RequestFails(r)
    BY DEF Next
  <2> QED
    BY <2>1, <2>2, StepChangesItsWork
<1> QED
  BY <1>1, Inductive, PTL DEF Spec, WorkIsKept

\* An upgrade that answers converted or merged leaves the browser no user, and every
\* record that the browser had saved belongs to the account of the subject.
THEOREM UpgradesMoveWork == Spec => UpgradeMovesWork
<1> DEFINE Moved(r) == /\ users'[req[r].browser] # "unauthenticated"
                       /\ \A a \in Owned(req[r].browser) :
                             assocs'[a] # NoAssoc /\ assocs'[a].owner = identities'[req[r].subject]
           Moves == NoIdIsReused => \A r \in Requests :
                       (Steps(r) /\ req[r].verb = "upgrade" /\ req'[r].outcome \in {"converted", "merged"}
                        /\ req'[r].pc = "done") => Moved(r)
<1>1. IInv /\ [Next]_vars => [Moves]_vars
  <2> SUFFICES ASSUME IInv, Next, NoIdIsReused, NEW r \in Requests, Steps(r), req[r].verb = "upgrade",
                      req'[r].outcome \in {"converted", "merged"}, req'[r].pc = "done"
               PROVE  Moved(r)
    OBVIOUS
  <2>1. RecordsOK
    BY DEF IInv, TypeOK, RecordsOK, UsersOK, UsersTypes
  <2>2. PICK q \in Requests : Step(q) \/ RequestFails(q)
    BY DEF Next
  <2>3. q = r
    BY <2>1, <2>2, OthersWait DEF Steps
  <2>4. Convert(r)
    BY <2>1, <2>2, <2>3, OnlyUpgradesMove
  <2> QED
    BY <2>1, <2>4, UpgradeMoves
<1> QED
  BY <1>1, Inductive, PTL DEF Spec, UpgradeMovesWork

\* But for a deletion that meets a refreshed request of its account, requests never wait
\* in a circle, nor for a lock that outlives its request: of any open requests one at the
\* end of a merge, else one that has inserted its user, refreshed its identity or shares
\* the browser's row, else one that deletes an account, else the upgrade that came last,
\* waits for no other.
THEOREM WaitsEnd == Spec => []NoWaitCycle
<1>1. Init => WaitsInv
  <2> SUFFICES ASSUME Init
               PROVE  WaitsInv
    OBVIOUS
  <2>1. \A r \in Requests : req[r].pc = "start" /\ req[r].lock = "none"
    BY DEF Init, NewRequest
  <2> QED
    BY <2>1 DEF WaitsInv, WritesShare, UpgradesEnd
<1>2. IInv /\ IInv' /\ WaitsInv /\ [Next]_vars => WaitsInv'
  <2>1. UNCHANGED vars /\ WaitsInv => WaitsInv'
    BY DEF vars, WaitsInv, WritesShare, UpgradesEnd
  <2> QED
    BY <2>1, WaitsNext
<1>3. IInv /\ WaitsInv => NoWaitCycle
  <2> SUFFICES ASSUME IInv, WaitsInv, NEW S \in SUBSET {r \in Requests : Open(r)}, S # {},
                      ~\E c, r \in S : MeetsDeletion(c, r)
               PROVE  \E r \in S : \A q \in Requests : Waits(r, q) => Open(q) /\ q \notin S
    BY DEF NoWaitCycle
  <2>1. S \subseteq Requests
    OBVIOUS
  <2>2. CASE \E r \in S : req[r].pc = "remove"
    BY <2>1, <2>2, RestingWaits DEF Rests
  <2>3. CASE (\A r \in S : req[r].pc # "remove") /\ \E r \in S : Rests(r)
    BY <2>1, <2>3, RestingWaits, HoldersAreOpen
  <2>4. CASE (\A r \in S : ~Rests(r)) /\ \E r \in S : req[r].pc = "cascade"
    BY <2>1, <2>4, CascadeWaits, HoldersAreOpen
  <2>5. CASE \A r \in S : ~Rests(r) /\ req[r].pc # "cascade"
    <3> DEFINE T == {q \in S : req[q].lock = "update"}
    <3>1. CASE T = {}
      BY <2>1, <2>5, <3>1, WaitsForUpgrades, HoldersAreOpen
    <3>2. CASE T # {}
      <4>1. PICK q \in T : \A o \in T : req[q].owner # req[o].browser
        BY <2>1, <3>2 DEF WaitsInv, UpgradesEnd
      <4>2. ASSUME NEW o \in Requests, Waits(q, o)
            PROVE  Open(o) /\ o \notin S
        BY <2>1, <2>5, <4>1, <4>2, WaitsForUpgrades, HoldersAreOpen
      <4> QED
        BY <4>2
    <3> QED
      BY <3>1, <3>2
  <2> QED
    BY <2>2, <2>3, <2>4, <2>5
<1> QED
  BY <1>1, <1>2, <1>3, Inductive, PTL DEF Spec
===============================================================================
