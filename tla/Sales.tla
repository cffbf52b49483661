------------------------------- MODULE Sales -------------------------------
(***************************************************************************)
(* The apartments of one block on sale: their status and seller, the       *)
(* contracts opened on them, and what browsers are told of them by         *)
(* apartment.updated events, in the room of the branch that the request    *)
(* found the block in.                                                     *)
(*                                                                         *)
(* A superadmin may move the block to a branch of another organization.    *)
(* The branches of one organization are not told apart: updateScope gives  *)
(* any of its workers the block's branch.                                  *)
(*                                                                         *)
(* Every handler loads the apartment, checks, changes its copy in memory,  *)
(* awaits repository.save() of the whole copy, and then emits the event.   *)
(* A request is a record of inflight between those steps; the copy it      *)
(* saves may be stale by then.                                             *)
(*                                                                         *)
(* An operator named Op_Flaw is Op with one mistake in it: no action uses  *)
(* it, it shows that a property would notice the mistake.                  *)
(***************************************************************************)
EXTENDS Naturals, FiniteSets

CONSTANTS
    Apartments,    \* row ids
    Contracts,
    Orgs,
    Staff,         \* workers
    Admins,        \* org_admins
    Supers,        \* superadmins, who have no organization
    OrgOf,         \* the organization a worker or an org_admin was created in
    NULL,
    Asked,         \* bound: the statuses that requests ask for
    MaxInFlight    \* bound: requests between their first and last step

Users == Staff \cup Admins \cup Supers
Status == {"for_sale", "sold", "reserved", "not_for_sale"}
Row == [status : Status, seller : Users \cup {NULL}]

ASSUME SalesAssumption ==
    /\ Staff \cap Admins = {} /\ Staff \cap Supers = {} /\ Admins \cap Supers = {}
    /\ OrgOf \in [Staff \cup Admins -> Orgs]
    /\ NULL \notin Users \cup Orgs \cup Apartments \cup Status
    /\ Asked \subseteq Status
    /\ MaxInFlight \in Nat

VARIABLES
    live,       \* the apartments that exist
    lost,       \* the apartments whose floor is gone
    row,        \* their status and soldById columns
    users,      \* the users that exist
    orgs,       \* the organizations that exist
    house,      \* the organization whose branch has the block
    contract,   \* the apartment of a contract, NULL before it is made
    inflight,   \* requests that have not made their last step
    told,       \* the status in the last apartment.updated event
    \* History, read by properties and never by a guard but that of Fresh:
    homes,      \* the organizations that have had the block
    stored,     \* every status an apartment has had in the database
    early,      \* apartments announced before their INSERT was committed
    crossed     \* apartments last saved while an event of them was pending

db == <<live, lost, row, users, orgs, house, contract>>
history == <<homes, stored, early, crossed>>
vars == <<db, inflight, told, history>>

(***************************************************************************)
(* A request, by its next step: save the copy, DELETE, INSERT a contract,  *)
(* commit the clone, or emit the event.                                    *)
(***************************************************************************)
SaveRequest == [op : {"save"}, apt : Apartments, row : Row,
                loaded : Row, asked : Status \cup {NULL}]
AptRequest == [op : {"contract", "commitClone"}, apt : Apartments]
StatusRequest == [op : {"delete", "emit"}, apt : Apartments, status : Status]
Request == SaveRequest \cup AptRequest \cup StatusRequest

TypeOK ==
    /\ live \subseteq Apartments
    /\ lost \subseteq Apartments
    /\ row \in [Apartments -> Row]
    /\ users \subseteq Users
    /\ orgs \subseteq Orgs
    /\ house \in homes
    /\ homes \subseteq Orgs
    /\ contract \in [Contracts -> Apartments \cup {NULL}]
    /\ inflight \subseteq Request
    /\ told \in [Apartments -> Status \cup {NULL}]
    /\ stored \in [Apartments -> SUBSET Status]
    /\ early \subseteq Apartments
    /\ crossed \subseteq Apartments

Await(r) ==
    /\ Cardinality(inflight) < MaxInFlight
    /\ inflight' = inflight \cup {r}
    /\ UNCHANGED <<db, told, history>>

\* r makes a step, and an identical request may still be in flight.
Rest(r) == {inflight, inflight \ {r}}
Answer(r) == inflight' \in Rest(r)
Then(r, q) ==
    /\ \E rest \in Rest(r) : inflight' = rest \cup {q}
    /\ Cardinality(inflight') <= MaxInFlight

\* The rows of S are gone, and what they held.
NoRow == [status |-> "for_sale", seller |-> NULL]
DeleteRows(S) ==
    /\ live' = live \ S
    /\ row' = [a \in Apartments |-> IF a \in S THEN NoRow ELSE row[a]]

Emit(a, status) == told' = [told EXCEPT ![a] = status]
EmitOf(a, status) == [op |-> "emit", apt |-> a, status |-> status]

\* An error after the checks.  An event follows its save without an await.
Drop(r) ==
    /\ r.op # "emit"
    /\ Answer(r)
    /\ UNCHANGED <<db, told, history>>

(***************************************************************************)
(* Loading and checking.                                                   *)
(***************************************************************************)
\* A user's organizationId; removing the organization sets it to NULL.
Org(u) == IF u \in Staff \cup Admins /\ OrgOf[u] \in orgs THEN OrgOf[u] ELSE NULL
MembersOf(o) == {u \in Staff \cup Admins : OrgOf[u] = o}

\* assertBranchWrite
MayWrite(u) == u \in users /\ (u \in Supers \/ Org(u) = house)

\* Whom the user u may name as the seller: staff only themselves, others a
\* user whose organization is their own, which for superadmins is none.
MayName_Anyone(u) == IF u \in Staff THEN {u} ELSE {NULL} \cup users
MayName(u) ==
    IF u \in Staff THEN {u} ELSE {NULL} \cup {v \in users : Org(v) = Org(u)}

\* The showroom may name a worker of the branch.
ShowroomMayName == {NULL} \cup {v \in users \cap Staff : Org(v) = house}

SaveOf(a, status, seller, asked) ==
    [op |-> "save", apt |-> a, row |-> [status |-> status, seller |-> seller],
     loaded |-> row[a], asked |-> asked]

\* PATCH /apartments/:id/status
ChangeStatus_TellFirst(u, a, status, seller) ==
    /\ MayWrite(u) /\ a \in live
    /\ seller \in IF status = "sold" THEN MayName(u) ELSE {NULL}
    /\ Cardinality(inflight) < MaxInFlight
    /\ Emit(a, status)
    /\ inflight' = inflight \cup {SaveOf(a, status, seller, status)}
    /\ UNCHANGED <<db, history>>
ChangeStatus(u, a, status, seller) ==
    /\ MayWrite(u) /\ a \in live
    /\ seller \in IF status = "sold" THEN MayName(u) ELSE {NULL}
    /\ Await(SaveOf(a, status, seller, status))

\* PATCH /apartments/:id: the status is optional, the seller stays.
Patched_Default(old, asked) == IF asked = NULL THEN "for_sale" ELSE asked
Patched(old, asked) == IF asked = NULL THEN old ELSE asked
Update(u, a, asked) ==
    /\ MayWrite(u) /\ a \in live
    /\ Await(SaveOf(a, Patched(row[a].status, asked), row[a].seller, asked))

\* PATCH /public/branches/:branchId/apartments/:id/status
ChangeApartmentStatus(a, status, seller) ==
    /\ a \in live
    /\ seller \in IF status = "sold" THEN ShowroomMayName ELSE {NULL}
    /\ Await(SaveOf(a, status, seller, status))

\* The showroom's switch between sold and for sale; it names no seller.
SetApartmentSaleStatus(a, status) ==
    /\ a \in live /\ status \in {"sold", "for_sale"}
    /\ Await(SaveOf(a, status, NULL, status))

\* DELETE /apartments/:id counts the contracts first.
Remove(u, a) ==
    /\ MayWrite(u) /\ a \in live
    /\ \A x \in Contracts : contract[x] # a
    /\ Await([op |-> "delete", apt |-> a, status |-> row[a].status])

\* POST /contracts refuses an apartment that is not for sale.
CreateContract(u, a) ==
    /\ MayWrite(u) /\ a \in live
    /\ row[a].status # "not_for_sale"
    /\ Await([op |-> "contract", apt |-> a])

(***************************************************************************)
(* Writing and telling.                                                    *)
(***************************************************************************)
Put(a, r) ==
    /\ a \notin lost
    /\ live' = live \cup {a}
    /\ row' = [row EXCEPT ![a] = r]
    /\ stored' = [stored EXCEPT ![a] = @ \cup {r.status}]
    /\ UNCHANGED <<lost, users, orgs, house, contract, homes>>

\* save() writes the whole copy, or inserts it again when the row is gone;
\* soldById and floorId are foreign keys.
Save(r) ==
    /\ r.row.seller \in users \cup {NULL}
    /\ Put(r.apt, r.row)
    /\ Then(r, EmitOf(r.apt, r.row.status))
    /\ crossed' = IF \E q \in inflight : q.op = "emit" /\ q.apt = r.apt
                  THEN crossed \cup {r.apt} ELSE crossed \ {r.apt}
    /\ UNCHANGED <<told, early>>

EmitApartmentUpdated(r) ==
    /\ Emit(r.apt, r.status)
    /\ Answer(r)
    /\ UNCHANGED <<db, history>>

\* contract.apartment is ON DELETE RESTRICT; the event repeats the status
\* that the apartment had when it was loaded.
CommitRemove(r) ==
    /\ \A x \in Contracts : contract[x] # r.apt
    /\ DeleteRows({r.apt})
    /\ Then(r, EmitOf(r.apt, r.status))
    /\ UNCHANGED <<lost, users, orgs, house, contract, told, history>>

SaveContract(r, x) ==
    /\ contract[x] = NULL /\ r.apt \in live
    /\ contract' = [contract EXCEPT ![x] = r.apt]
    /\ Answer(r)
    /\ UNCHANGED <<live, lost, row, users, orgs, house, told, history>>

RemoveContract(x) ==
    /\ contract[x] # NULL
    /\ contract' = [contract EXCEPT ![x] = NULL]
    /\ UNCHANGED <<live, lost, row, users, orgs, house, inflight, told, history>>

(***************************************************************************)
(* What other services do to the users and to the block.                   *)
(***************************************************************************)
\* The users of S are deleted; soldBy is ON DELETE SET NULL.
DeleteUsers(S) ==
    /\ users' = users \ S
    /\ row' = [a \in Apartments |->
                 [row[a] EXCEPT !.seller = IF @ \in S THEN NULL ELSE @]]

\* users.removeMany; superadmins are never deleted.
RemoveUser(u) ==
    /\ u \in users \ Supers
    /\ DeleteUsers({u})
    /\ UNCHANGED <<live, lost, orgs, house, contract, inflight, told, history>>

\* The stale save of adminChangePassword inserts a deleted user again.
ReviveUser(u) ==
    /\ u \notin users /\ Org(u) # NULL
    /\ users' = users \cup {u}
    /\ UNCHANGED <<live, lost, row, orgs, house, contract, inflight, told, history>>

\* bulkAssignBranch by a superadmin, to a branch of the organization o.
BulkAssignBranch(o) ==
    /\ users \cap Supers # {}
    /\ {house, o} \subseteq orgs
    /\ house' = o
    /\ homes' = homes \cup {o}
    /\ UNCHANGED <<live, lost, row, users, orgs, contract, inflight, told,
                   stored, early, crossed>>

\* floors.remove, with the apartments of S on the floor: the cascade stops at
\* a contract, and nobody is told.
RemoveFloor(S) ==
    /\ S # {} /\ \A x \in Contracts : contract[x] \notin S
    /\ DeleteRows(S)
    /\ lost' = lost \cup S
    /\ UNCHANGED <<users, orgs, house, contract, inflight, told, history>>

\* organizations.remove: S are the users its DELETE found; a user inserted
\* later keeps existing without an organization.  The block goes with it, and
\* its contracts; one of another organization on the block would stop it.
RemoveOrganization(o, S) ==
    /\ o \in orgs /\ S \subseteq MembersOf(o)
    /\ orgs' = orgs \ {o}
    /\ IF o # house THEN DeleteUsers(S) /\ UNCHANGED <<live, lost, contract>>
       ELSE /\ users' = users \ S
            /\ DeleteRows(Apartments) /\ lost' = Apartments
            /\ contract' = [x \in Contracts |-> NULL]
    /\ UNCHANGED <<house, inflight, told, history>>

(***************************************************************************)
(* New apartments.  Their id was never used before.                        *)
(***************************************************************************)
Fresh(a) == stored[a] = {} /\ a \notin early \cup lost

\* POST /apartments tells nobody.
Create(a, status) ==
    /\ Fresh(a)
    /\ Put(a, [status |-> status, seller |-> NULL])
    /\ UNCHANGED <<inflight, told, early, crossed>>

\* bulkCreateOnFloor emits after its transaction, copyFromFloor after each
\* save; the copy has the status of the source's apartment.
CreateAndTell(a, status) ==
    /\ Fresh(a) /\ Cardinality(inflight) < MaxInFlight
    /\ Put(a, [status |-> status, seller |-> NULL])
    /\ inflight' = inflight \cup {EmitOf(a, status)}
    /\ UNCHANGED <<told, early, crossed>>

\* cloneFromFloor emits inside its transaction, which may still roll back.
Clone(a) ==
    /\ Fresh(a) /\ Cardinality(inflight) < MaxInFlight
    /\ Emit(a, "for_sale")
    /\ inflight' = inflight \cup {[op |-> "commitClone", apt |-> a]}
    /\ early' = early \cup {a}
    /\ UNCHANGED <<db, homes, stored, crossed>>

CommitClone(r) ==
    /\ stored[r.apt] = {}
    /\ Put(r.apt, NoRow)
    /\ inflight' = inflight \ {r}
    /\ UNCHANGED <<told, early, crossed>>

-----------------------------------------------------------------------------
Init ==
    /\ live = {} /\ lost = {}
    /\ row = [a \in Apartments |-> NoRow]
    /\ users = Users
    /\ orgs = Orgs
    /\ house \in Orgs
    /\ homes = {house}
    /\ contract = [x \in Contracts |-> NULL]
    /\ inflight = {}
    /\ told = [a \in Apartments |-> NULL]
    /\ stored = [a \in Apartments |-> {}]
    /\ early = {}
    /\ crossed = {}

Continue(r) ==
    \/ r.op = "save" /\ Save(r)
    \/ r.op = "emit" /\ EmitApartmentUpdated(r)
    \/ r.op = "delete" /\ CommitRemove(r)
    \/ r.op = "contract" /\ \E x \in Contracts : SaveContract(r, x)
    \/ r.op = "commitClone" /\ CommitClone(r)
    \/ Drop(r)

Call(a) ==
    \/ \E u \in Users :
          \/ \E s \in Asked, v \in Users \cup {NULL} : ChangeStatus(u, a, s, v)
          \/ \E s \in Asked \cup {NULL} : Update(u, a, s)
          \/ Remove(u, a)
          \/ CreateContract(u, a)
    \/ \E s \in Asked, v \in Users \cup {NULL} : ChangeApartmentStatus(a, s, v)
    \/ \E s \in Asked : SetApartmentSaleStatus(a, s)
    \/ \E s \in Asked : Create(a, s) \/ CreateAndTell(a, s)
    \/ Clone(a)

Next ==
    \/ \E a \in Apartments : Call(a)
    \/ \E r \in inflight : Continue(r)
    \/ \E x \in Contracts : RemoveContract(x)
    \/ \E u \in Users : RemoveUser(u) \/ ReviveUser(u)
    \/ \E S \in SUBSET Apartments : RemoveFloor(S)
    \/ \E o \in Orgs : BulkAssignBranch(o) \/ \E S \in SUBSET Users : RemoveOrganization(o, S)

Spec == Init /\ [][Next]_vars

-----------------------------------------------------------------------------
\* Whoever may be credited with a sale of the block: the users of an
\* organization that has had it, and those without one, whom a superadmin
\* may name.
Credible == Supers \cup {u \in Staff \cup Admins : OrgOf[u] \in homes \/ OrgOf[u] \notin orgs}

\* Nobody else is credited with a sale, whether the seller was named by a
\* worker, an admin, a superadmin or the showroom, or came with a copy loaded
\* before the block moved; and a credited seller still exists.  After
\* bulkAssignBranch the seller may be of an organization that had the block
\* before: the code keeps him.
SellerFromHouse ==
    \A a \in live : row[a].seller # NULL => row[a].seller \in users \cap Credible

\* What a sale says stays: the row of a sold apartment changes when a request
\* asked for the status it then has, or wrote back a copy loaded from another
\* row (a lost update, which save() of the whole copy allows), or when its
\* seller is deleted.  So a price or a number patched leaves status and seller.
SaleKept ==
    [][\A a \in live \cap live' :
          (row[a].status = "sold" /\ row'[a] # row[a]) =>
              \/ row'[a] = [row[a] EXCEPT !.seller = NULL] /\ row[a].seller \notin users'
              \/ \E r \in inflight :
                     /\ r.op = "save" /\ r.apt = a
                     /\ r.asked = row'[a].status \/ r.loaded # row[a]]_vars

\* No browser is told of a status that the apartment never had, although
\* events come after the save and out of order; the copies of cloneFromFloor
\* are the exception, told before their transaction commits.
ToldWasStored ==
    \A a \in Apartments : told[a] \in stored[a] \cup {NULL} \/ a \in early

\* The last event of an apartment tells the status it has, or another event
\* of it is on its way; the exception is an apartment saved while the event of
\* an earlier save or removal was still to be emitted, when the two may be
\* emitted in either order, until it is saved with no event pending.
LastTold ==
    \A a \in live \ crossed :
        \/ told[a] \in {NULL, row[a].status}
        \/ \E r \in inflight : r.op = "emit" /\ r.apt = a

\* "No contract is opened on an apartment marked not for sale": the row is
\* not so marked when the contract is inserted.
NotForSaleHasNoNewContract ==
    [][\A x \in Contracts :
          (contract[x] = NULL /\ contract'[x] # NULL) =>
              row[contract'[x]].status # "not_for_sale"]_vars
=============================================================================
