------------------------------ MODULE Tenancy ------------------------------
(***************************************************************************)
(* The relational store of the CRM and the endpoints that change it:       *)
(* organizations own branches, branches own blocks, blocks own apartments; *)
(* clients, users and contracts belong to an organization.                 *)
(*                                                                         *)
(* Every service method is "read some rows, check them, await, write": the *)
(* rows it read are not locked, so another request may run in between.     *)
(* A request that has made its checks and not yet written is a record of   *)
(* inflight, carrying what it read.  One SQL statement or one committed    *)
(* transaction is one step.                                                *)
(*                                                                         *)
(* Floors are abstracted: apartment -> floor -> block is one hop here,     *)
(* because no endpoint ever moves an apartment or a floor.  Columns that   *)
(* are not references (names, prices, statuses) are in other modules.      *)
(* An operator named Op_Flaw is Op with one mistake in it: no action uses  *)
(* it, it shows that a property would notice the mistake.                  *)
(***************************************************************************)
EXTENDS Naturals, FiniteSets

CONSTANTS
    Orgs, Branches, Blocks, Apartments, Clients, Users, Contracts,  \* row ids
    Root,          \* the superadmin that seed.service.ts inserts at startup
    NULL,          \* SQL NULL
    Endpoints,     \* the endpoints that clients call
    MaxInFlight    \* bound: requests between their checks and their write

Ids == Orgs \cup Branches \cup Blocks \cup Apartments \cup Clients
         \cup Users \cup Contracts

AllEndpoints ==
    {"organizations.create", "organizations.update", "organizations.remove",
     "branches.create", "branches.update", "branches.remove",
     "blocks.create", "blocks.duplicate", "blocks.update", "blocks.remove",
     "blocks.bulkAssignBranch", "apartments.create", "apartments.update",
     "apartments.remove", "floors.remove", "clients.create",
     "clients.removeMany", "clients.bulkRemove", "users.create",
     "users.removeMany", "users.updateScope", "users.adminChangePassword",
     "contracts.create", "contracts.removeMany"}

\* Row ids are uuids: the tables do not share any.
ASSUME TenancyAssumption ==
    /\ \A i \in Orgs : i \notin Branches \cup Blocks \cup Apartments
                                  \cup Clients \cup Users \cup Contracts
    /\ \A i \in Branches : i \notin Blocks \cup Apartments \cup Clients
                                      \cup Users \cup Contracts
    /\ \A i \in Blocks : i \notin Apartments \cup Clients \cup Users \cup Contracts
    /\ \A i \in Apartments : i \notin Clients \cup Users \cup Contracts
    /\ \A i \in Clients : i \notin Users \cup Contracts
    /\ \A i \in Users : i \notin Contracts
    /\ Root \in Users
    /\ NULL \notin Ids
    /\ Endpoints \subseteq AllEndpoints
    /\ MaxInFlight \in Nat

VARIABLES
    live,       \* the rows that exist now
    used,       \* the ids ever given to a row
    parent,     \* the ON DELETE CASCADE reference of a row
    user,       \* the role and the ON DELETE SET NULL references of a user
    contract,   \* the other references of a contract
    inflight,   \* requests between their checks and their write
    \* History, read by properties and never by a guard:
    home,       \* the organization a user row was created with
    moved,      \* blocks a superadmin has moved to another organization
    revived     \* rows a stale save() has inserted again after their deletion

db == <<live, used, parent, user, contract>>
history == <<home, moved, revived>>
vars == <<db, inflight, history>>

Roles == {"superadmin", "org_admin", "staff"}
UserRow == [role : Roles, org : Orgs \cup {NULL}, branch : Branches \cup {NULL}]
ContractRow == [apt : Apartments \cup {NULL}, client : Clients \cup {NULL},
                seller : Users \cup {NULL}]

\* What JwtStrategy.validate leaves on the request: the user's row, read once.
Actor == [id : Users, role : Roles,
          org : Orgs \cup {NULL}, branch : Branches \cup {NULL}]

(***************************************************************************)
(* A request in flight, by what it does next.                              *)
(***************************************************************************)
SaveRequest == [op : {"save"}, actor : Actor,
                id : Orgs \cup Branches \cup Blocks \cup Apartments,
                parent : Ids \cup {NULL}]
DeleteRequest == [op : {"delete"}, actor : Actor, rows : SUBSET Ids]
RemoveBranchRequest == [op : {"removeBranch"}, actor : Actor, branch : Branches]
RemoveOrgRequest == [op : {"removeOrg"}, actor : Actor, org : Orgs,
                     rows : SUBSET Ids]
StaffRequest == [op : {"insertStaff"}, actor : Actor, branch : Branches,
                 org : Orgs]
BlockRequest == [op : {"insertBlock"}, actor : Actor, branch : Branches,
                 copies : SUBSET Apartments]
ApartmentRequest == [op : {"insertApartments"}, actor : Actor, block : Blocks]
AssignRequest == [op : {"assignBranch"}, actor : Actor, target : Branches,
                  rows : SUBSET Blocks]
InsertUserRequest == [op : {"insertUser"}, actor : Actor, row : UserRow]
SaveUserRequest == [op : {"saveUser"}, actor : Actor, id : Users,
                    row : UserRow, full : BOOLEAN]
CheckContractRequest == [op : {"checkContract"}, actor : Actor,
                         apt : Apartments, org : Orgs]
SaveContractRequest == [op : {"saveContract"}, actor : Actor,
                        apt : Apartments, org : Orgs,
                        client : Clients, seller : Users \cup {NULL}]

Request ==
    SaveRequest \cup DeleteRequest \cup RemoveBranchRequest
      \cup RemoveOrgRequest \cup StaffRequest \cup BlockRequest
      \cup ApartmentRequest \cup AssignRequest \cup InsertUserRequest
      \cup SaveUserRequest \cup CheckContractRequest \cup SaveContractRequest

TypeOK ==
    /\ live \subseteq used
    /\ used \subseteq Ids
    /\ parent \in [Ids -> Ids \cup {NULL}]
    /\ user \in [Users -> UserRow]
    /\ contract \in [Contracts -> ContractRow]
    /\ inflight \subseteq Request
    /\ home \in [Users -> Orgs \cup {NULL}]
    /\ moved \subseteq Blocks
    /\ revived \subseteq Ids

(***************************************************************************)
(* The database: fresh ids, foreign keys, deletion.                        *)
(***************************************************************************)
Fresh(S) == S \ used
Insert(S) == live' = live \cup S /\ used' = used \cup S

\* A foreign key holds when the referenced row exists or the column is NULL.
FK(i) == i = NULL \/ i \in live

\* The rows that ON DELETE CASCADE deletes together with the rows of D.
Kids(S) == {i \in live : parent[i] \in S}
Cascade(D) ==
    LET c1 == D \cup Kids(D)          \* branches, clients, contracts of an org
        c2 == c1 \cup Kids(c1)        \* blocks
    IN  c2 \cup Kids(c2)              \* apartments

\* ON DELETE RESTRICT: a remaining contract needs its apartment and its client.
Restricted(D) ==
    \E x \in (live \cap Contracts) \ Cascade(D) :
        contract[x].apt \in Cascade(D) \/ contract[x].client \in Cascade(D)

\* ON DELETE SET NULL
SetNull_Missing(i, gone) == i
SetNull(i, gone) == IF i \in gone THEN NULL ELSE i

\* A committed DELETE of the rows of D with everything that goes with them.
Delete(D) ==
    LET gone == Cascade(D)
        Ref(i) == SetNull(i, gone)
    IN  /\ ~Restricted(D)
        /\ live' = live \ gone
        /\ user' = [u \in Users |->
              [role |-> user[u].role, org |-> Ref(user[u].org),
               branch |-> Ref(user[u].branch)]]
        /\ contract' = [x \in Contracts |->
              [apt |-> contract[x].apt, client |-> contract[x].client,
               seller |-> Ref(contract[x].seller)]]
        /\ UNCHANGED <<used, parent>>

(***************************************************************************)
(* Who may do what.                                                        *)
(***************************************************************************)
ActorOf(u) == [id |-> u, role |-> user[u].role,
               org |-> user[u].org, branch |-> user[u].branch]
Actors == {ActorOf(u) : u \in live \cap Users}

\* The organization of a block, of an apartment.
OrgOfBlock(k) == parent[parent[k]]
OrgOfApartment(a) == OrgOfBlock(parent[a])

MayAdminister(a, o) == a.role = "superadmin" \/ (a.role = "org_admin" /\ a.org = o)

MayWriteBranch_AnyAdmin(a, b) == b \in live /\ (a.role = "staff" => a.branch = b)
MayWriteBranch(a, b) ==
    /\ b \in live
    /\ \/ MayAdminister(a, parent[b])
       \/ a.role = "staff" /\ a.branch = b

MayUseClients(a, o) == a.role = "superadmin" \/ a.org = o

MayUseContracts(a, o, b) ==
    \/ a.role = "superadmin"
    \/ a.org = o /\ (a.role = "staff" => a.branch = b)

MayManageUser(a, u) ==
    a.role = "superadmin" \/ (a.role = "org_admin" /\ user[u].org = a.org)

MayDeleteUser_AnyRole(a, u) == MayManageUser(a, u)
MayDeleteUser(a, u) == user[u].role # "superadmin" /\ MayManageUser(a, u)

\* The branch given to a worker is one of his organization's.
ValidBranch_AnyOrg(b, o) == b \in live
ValidBranch(b, o) == b \in live /\ parent[b] = o

\* Staff sell as themselves; others may name any user of the organization.
ValidSeller_AnyOrg(r, s) ==
    IF r.actor.role = "staff" THEN s = r.actor.id ELSE s = NULL \/ s \in live
ValidSeller(r, s) ==
    IF r.actor.role = "staff" THEN s = r.actor.id
    ELSE s = NULL \/ (s \in live /\ user[s].org = r.org)

(***************************************************************************)
(* Requests: called and checked, answered by their last write, or dropped  *)
(* (an error after the checks, or a restart of the process).               *)
(***************************************************************************)
Called(e) == e \in Endpoints
Await(r) ==
    /\ Cardinality(inflight) < MaxInFlight
    /\ inflight' = inflight \cup {r}
    /\ UNCHANGED <<db, history>>
\* An identical request, sent twice, may still be in flight.
Answer(r) == inflight' \in {inflight, inflight \ {r}}

Drop(r) == Answer(r) /\ UNCHANGED <<db, history>>

(***************************************************************************)
(* organizations.service.ts, for superadmins only.                         *)
(***************************************************************************)
CreateOrganization(a, o, u) ==
    /\ Called("organizations.create") /\ a.role = "superadmin"
    /\ o \in Fresh(Orgs) /\ u \in Fresh(Users)
    /\ Insert({o, u})
    /\ user' = [user EXCEPT ![u] = [role |-> "org_admin", org |-> o, branch |-> NULL]]
    /\ home' = [home EXCEPT ![u] = o]
    /\ UNCHANGED <<parent, contract, inflight, moved, revived>>

UpdateOrganization(a, o) ==
    /\ Called("organizations.update") /\ a.role = "superadmin"
    /\ o \in live
    /\ Await([op |-> "save", actor |-> a, id |-> o, parent |-> NULL])

\* The transaction has run its DELETEs of contracts, clients and users:
\* what they matched is gone at commit, what is inserted meanwhile is not.
RemoveOrganization(a, o) ==
    /\ Called("organizations.remove") /\ a.role = "superadmin"
    /\ o \in live
    /\ LET own == {i \in live : i \in Clients \cup Contracts /\ parent[i] = o}
                    \cup {u \in live \cap Users : user[u].org = o}
       IN  Await([op |-> "removeOrg", actor |-> a, org |-> o, rows |-> own])

CommitRemoveOrganization(r) ==
    /\ Answer(r)
    /\ Delete(r.rows \cup {r.org})
    /\ UNCHANGED history

(***************************************************************************)
(* branches.service.ts                                                     *)
(***************************************************************************)
\* The branch is committed before the e-mail of its first worker is checked.
CreateBranch(a, o, b) ==
    /\ Called("branches.create") /\ MayAdminister(a, o)
    /\ o \in live /\ b \in Fresh(Branches)
    /\ Insert({b})
    /\ parent' = [parent EXCEPT ![b] = o]
    /\ UNCHANGED <<user, contract, history>>
    /\ \/ UNCHANGED inflight
       \/ /\ Cardinality(inflight) < MaxInFlight
          /\ inflight' = inflight \cup {[op |-> "insertStaff", actor |-> a,
                                         branch |-> b, org |-> o]}

UpdateBranch(a, b) ==
    /\ Called("branches.update")
    /\ b \in live /\ MayAdminister(a, parent[b])
    /\ Await([op |-> "save", actor |-> a, id |-> b, parent |-> parent[b]])

RemoveBranch(a, b) ==
    /\ Called("branches.remove")
    /\ b \in live /\ MayAdminister(a, parent[b])
    /\ Await([op |-> "removeBranch", actor |-> a, branch |-> b])

\* One transaction: the contracts on the branch's apartments, then the branch.
CommitRemoveBranch(r) ==
    /\ Answer(r)
    /\ Delete({r.branch} \cup
              {x \in live \cap Contracts : parent[parent[contract[x].apt]] = r.branch})
    /\ UNCHANGED history

(***************************************************************************)
(* users.service.ts                                                        *)
(***************************************************************************)
InsertUser(r, u, row) ==
    /\ u \in Fresh(Users)
    /\ FK(row.org) /\ FK(row.branch)
    /\ Answer(r)
    /\ Insert({u})
    /\ user' = [user EXCEPT ![u] = row]
    /\ home' = [home EXCEPT ![u] = row.org]
    /\ UNCHANGED <<parent, contract, moved, revived>>

\* An org_admin creates users of his own organization, and a worker (staff)
\* gets a branch of that organization; the superadmin role cannot be given.
CreateUser(a, role, o, b) ==
    /\ Called("users.create")
    /\ a.role \in {"superadmin", "org_admin"}
    /\ role \in {"org_admin", "staff"}
    /\ a.role = "org_admin" => a.org = o
    /\ IF role = "staff" THEN ValidBranch(b, o) ELSE b = NULL
    /\ Await([op |-> "insertUser", actor |-> a,
              row |-> [role |-> role, org |-> o, branch |-> b]])

\* Every id of the request is deleted at the end, found by the check or not.
RemoveUsers(a, S) ==
    /\ Called("users.removeMany")
    /\ a.role \in {"superadmin", "org_admin"}
    /\ S # {}
    /\ \A u \in S \cap live : MayDeleteUser(a, u)
    /\ Await([op |-> "delete", actor |-> a, rows |-> S])

\* updateScope and updatePermissions: findOne leaves passwordHash out.
UpdateScope(a, u, b) ==
    /\ Called("users.updateScope")
    /\ u \in live /\ MayManageUser(a, u) /\ user[u].role = "staff"
    /\ b = user[u].branch \/ ValidBranch(b, user[u].org)
    /\ Await([op |-> "saveUser", actor |-> a, id |-> u,
              row |-> [user[u] EXCEPT !.branch = b], full |-> FALSE])

AdminChangePassword(a, u) ==
    /\ Called("users.adminChangePassword")
    /\ u \in live /\ user[u].role # "superadmin" /\ MayManageUser(a, u)
    /\ Await([op |-> "saveUser", actor |-> a, id |-> u,
              row |-> user[u], full |-> TRUE])

\* save() of the loaded row: an UPDATE of the columns that differ, or an
\* INSERT when the row is gone, which needs the NOT NULL passwordHash.
SaveUser(r) ==
    /\ FK(r.row.org) /\ FK(r.row.branch)
    /\ r.id \in live \/ r.full
    /\ Answer(r)
    /\ Insert({r.id})
    /\ user' = [user EXCEPT ![r.id] = r.row]
    /\ revived' = revived \cup ({r.id} \ live)
    /\ UNCHANGED <<parent, contract, home, moved>>

(***************************************************************************)
(* blocks.service.ts                                                       *)
(***************************************************************************)
CreateBlock(a, b) ==
    /\ Called("blocks.create") /\ MayWriteBranch(a, b)
    /\ Await([op |-> "insertBlock", actor |-> a, branch |-> b, copies |-> {}])

DuplicateBlock(a, k) ==
    /\ Called("blocks.duplicate")
    /\ k \in live /\ MayWriteBranch(a, parent[k])
    /\ Await([op |-> "insertBlock", actor |-> a, branch |-> parent[k],
              copies |-> Kids({k}) \cap Apartments])

InsertBlock(r, k, A) ==
    /\ k \in Fresh(Blocks)
    /\ A \subseteq Fresh(Apartments) /\ Cardinality(A) = Cardinality(r.copies)
    /\ FK(r.branch)
    /\ Answer(r)
    /\ Insert({k} \cup A)
    /\ parent' = [i \in Ids |-> IF i = k THEN r.branch
                                ELSE IF i \in A THEN k ELSE parent[i]]
    /\ UNCHANGED <<user, contract, history>>

UpdateBlock(a, k) ==
    /\ Called("blocks.update")
    /\ k \in live /\ MayWriteBranch(a, parent[k])
    /\ Await([op |-> "save", actor |-> a, id |-> k, parent |-> parent[k]])

RemoveBlock(a, k) ==
    /\ Called("blocks.remove")
    /\ k \in live /\ MayWriteBranch(a, parent[k])
    /\ Await([op |-> "delete", actor |-> a, rows |-> {k}])

BulkAssignBranch(a, b, S) ==
    /\ Called("blocks.bulkAssignBranch") /\ MayWriteBranch(a, b)
    /\ S # {}
    /\ Await([op |-> "assignBranch", actor |-> a, target |-> b, rows |-> S])

\* All listed blocks or none; those whose code the target has are skipped.
CommitAssignBranch(r, S) ==
    /\ \A k \in r.rows \cap live : MayWriteBranch(r.actor, parent[k])
    /\ S \subseteq r.rows \cap live
    /\ FK(r.target)
    /\ Answer(r)
    /\ parent' = [i \in Ids |-> IF i \in S THEN r.target ELSE parent[i]]
    /\ moved' = IF r.actor.role = "superadmin"
                THEN moved \cup {k \in S : OrgOfBlock(k) # parent[r.target]}
                ELSE moved
    /\ UNCHANGED <<live, used, user, contract, home, revived>>

(***************************************************************************)
(* apartments.service.ts, floors.service.ts                                *)
(***************************************************************************)
\* create, bulkCreateOnFloor and the copies of cloneFromFloor.
CreateApartments(a, k) ==
    /\ Called("apartments.create")
    /\ k \in live /\ MayWriteBranch(a, parent[k])
    /\ Await([op |-> "insertApartments", actor |-> a, block |-> k])

InsertApartments(r, A) ==
    /\ A # {} /\ A \subseteq Fresh(Apartments)
    /\ FK(r.block)
    /\ Answer(r)
    /\ Insert(A)
    /\ parent' = [i \in Ids |-> IF i \in A THEN r.block ELSE parent[i]]
    /\ UNCHANGED <<user, contract, history>>

\* update and changeStatus
UpdateApartment(a, p) ==
    /\ Called("apartments.update")
    /\ p \in live /\ MayWriteBranch(a, parent[parent[p]])
    /\ Await([op |-> "save", actor |-> a, id |-> p, parent |-> parent[p]])

RemoveApartment(a, p) ==
    /\ Called("apartments.remove")
    /\ p \in live /\ MayWriteBranch(a, parent[parent[p]])
    /\ \A x \in live \cap Contracts : contract[x].apt # p
    /\ Await([op |-> "delete", actor |-> a, rows |-> {p}])

\* The apartments of one floor go with it.
RemoveFloor(a, k, A) ==
    /\ Called("floors.remove")
    /\ k \in live /\ MayWriteBranch(a, parent[k])
    /\ A # {} /\ A \subseteq Kids({k})
    /\ Await([op |-> "delete", actor |-> a, rows |-> A])

(***************************************************************************)
(* clients.service.ts, contracts.service.ts                                *)
(***************************************************************************)
CreateClient(a, o, c) ==
    /\ Called("clients.create") /\ MayUseClients(a, o)
    /\ c \in Fresh(Clients) /\ FK(o)
    /\ Insert({c})
    /\ parent' = [parent EXCEPT ![c] = o]
    /\ UNCHANGED <<user, contract, inflight, history>>

RemoveClients(a, S) ==
    /\ Called("clients.removeMany")
    /\ a.role \in {"superadmin", "org_admin"}
    /\ S # {} /\ S \subseteq live
    /\ \A c \in S : MayUseClients(a, parent[c])
    /\ Await([op |-> "delete", actor |-> a, rows |-> S])

\* deleteAllInScope: one DELETE; a superadmin may leave the organization out.
BulkRemoveClients(a, O) ==
    /\ Called("clients.bulkRemove")
    /\ \/ a.role = "superadmin" /\ (O = Orgs \/ \E o \in Orgs : O = {o})
       \/ a.role = "org_admin" /\ a.org # NULL /\ O = {a.org}
    /\ Delete({c \in live \cap Clients : parent[c] \in O})
    /\ UNCHANGED <<inflight, history>>

CreateContract(a, p) ==
    /\ Called("contracts.create")
    /\ p \in live
    /\ MayUseContracts(a, OrgOfApartment(p), parent[parent[p]])
    /\ Await([op |-> "checkContract", actor |-> a, apt |-> p,
              org |-> OrgOfApartment(p)])

\* The client and the seller are looked up after the apartment.
CheckContract(r, c, s) ==
    /\ c \in live /\ parent[c] = r.org
    /\ ValidSeller(r, s)
    /\ \E rest \in {inflight, inflight \ {r}} :
          inflight' = rest \cup
             {[op |-> "saveContract", actor |-> r.actor, apt |-> r.apt,
               org |-> r.org, client |-> c, seller |-> s]}
    /\ Cardinality(inflight') <= MaxInFlight
    /\ UNCHANGED <<db, history>>

SaveContract(r, x) ==
    /\ x \in Fresh(Contracts)
    /\ FK(r.apt) /\ FK(r.client) /\ FK(r.seller) /\ FK(r.org)
    /\ Answer(r)
    /\ Insert({x})
    /\ parent' = [parent EXCEPT ![x] = r.org]
    /\ contract' = [contract EXCEPT ![x] =
                      [apt |-> r.apt, client |-> r.client, seller |-> r.seller]]
    /\ UNCHANGED <<user, history>>

RemoveContracts(a, S) ==
    /\ Called("contracts.removeMany")
    /\ a.role \in {"superadmin", "org_admin"}
    /\ S # {} /\ S \subseteq live
    /\ \A x \in S : MayUseContracts(a, parent[x], parent[parent[contract[x].apt]])
    /\ Await([op |-> "delete", actor |-> a, rows |-> S])

(***************************************************************************)
(* The writes that several endpoints end with.                             *)
(***************************************************************************)
\* repository.save() of a row that was loaded earlier: all its columns are
\* written as they were read, and a row deleted meanwhile is inserted again.
Save(r) ==
    /\ FK(r.parent)
    /\ Answer(r)
    /\ Insert({r.id})
    /\ parent' = [parent EXCEPT ![r.id] = r.parent]
    /\ revived' = revived \cup ({r.id} \ live)
    /\ UNCHANGED <<user, contract, home, moved>>

\* repository.delete(ids), rejected as a whole by ON DELETE RESTRICT.
CommitDelete(r) ==
    /\ Answer(r)
    /\ Delete(r.rows)
    /\ UNCHANGED history

-----------------------------------------------------------------------------
\* A new database after SeedService.onModuleInit.
Init ==
    /\ live = {Root} /\ used = {Root}
    /\ parent = [i \in Ids |-> NULL]
    /\ user = [u \in Users |->
                 [role |-> IF u = Root THEN "superadmin" ELSE "staff",
                  org |-> NULL, branch |-> NULL]]
    /\ contract = [x \in Contracts |-> [apt |-> NULL, client |-> NULL, seller |-> NULL]]
    /\ inflight = {}
    /\ home = [u \in Users |-> NULL]
    /\ moved = {} /\ revived = {}

OrganizationCall(a) ==
    \E o \in Orgs :
        \/ \E u \in Users : CreateOrganization(a, o, u)
        \/ UpdateOrganization(a, o)
        \/ RemoveOrganization(a, o)

BranchCall(a) ==
    \E b \in Branches :
        \/ \E o \in Orgs : CreateBranch(a, o, b)
        \/ UpdateBranch(a, b)
        \/ RemoveBranch(a, b)

UserCall(a) ==
    \/ \E role \in Roles, o \in Orgs, b \in Branches \cup {NULL} : CreateUser(a, role, o, b)
    \/ \E S \in SUBSET (Users \cap used) : RemoveUsers(a, S)
    \/ \E u \in Users :
          \/ AdminChangePassword(a, u)
          \/ \E b \in Branches \cup {NULL} : UpdateScope(a, u, b)

BlockCall(a) ==
    \/ \E b \in Branches :
          \/ CreateBlock(a, b)
          \/ \E S \in SUBSET (Blocks \cap used) : BulkAssignBranch(a, b, S)
    \/ \E k \in Blocks :
          \/ DuplicateBlock(a, k)
          \/ UpdateBlock(a, k)
          \/ RemoveBlock(a, k)
          \/ CreateApartments(a, k)
          \/ \E A \in SUBSET Apartments : RemoveFloor(a, k, A)
    \/ \E p \in Apartments :
          \/ UpdateApartment(a, p)
          \/ RemoveApartment(a, p)

ContractCall(a) ==
    \/ \E o \in Orgs, c \in Clients : CreateClient(a, o, c)
    \/ \E S \in SUBSET Clients : RemoveClients(a, S)
    \/ \E O \in {Orgs} \cup {{o} : o \in Orgs} : BulkRemoveClients(a, O)
    \/ \E p \in Apartments : CreateContract(a, p)
    \/ \E S \in SUBSET Contracts : RemoveContracts(a, S)

Call(a) ==
    OrganizationCall(a) \/ BranchCall(a) \/ UserCall(a) \/ BlockCall(a) \/ ContractCall(a)

Continue(r) ==
    \/ r.op = "save" /\ Save(r)
    \/ r.op = "delete" /\ CommitDelete(r)
    \/ r.op = "removeBranch" /\ CommitRemoveBranch(r)
    \/ r.op = "removeOrg" /\ CommitRemoveOrganization(r)
    \/ r.op = "insertStaff" /\ \E u \in Users :
          InsertUser(r, u, [role |-> "staff", org |-> r.org, branch |-> r.branch])
    \/ r.op = "insertUser" /\ \E u \in Users : InsertUser(r, u, r.row)
    \/ r.op = "saveUser" /\ SaveUser(r)
    \/ r.op = "insertBlock" /\ \E k \in Blocks, A \in SUBSET Apartments : InsertBlock(r, k, A)
    \/ r.op = "assignBranch" /\ \E S \in SUBSET r.rows : CommitAssignBranch(r, S)
    \/ r.op = "insertApartments" /\ \E A \in SUBSET Apartments : InsertApartments(r, A)
    \/ r.op = "checkContract" /\ \E c \in Clients, s \in Users \cup {NULL} : CheckContract(r, c, s)
    \/ r.op = "saveContract" /\ \E x \in Contracts : SaveContract(r, x)
    \/ Drop(r)

Next ==
    \/ \E a \in Actors : Call(a)
    \/ \E r \in inflight : Continue(r)

Spec == Init /\ [][Next]_vars

-----------------------------------------------------------------------------
\* A contract, its client and its seller belong to one organization, whatever
\* ran between contracts.create's reads of client and seller and its INSERT;
\* a seller whose organization was removed under him has none, never another.
ContractTenancy ==
    \A x \in live \cap Contracts :
        /\ parent[contract[x].client] = parent[x]
        /\ contract[x].seller # NULL =>
             user[contract[x].seller].org \in {NULL, parent[x]}

\* A contract stays in the organization that owns its apartment, unless the
\* apartment's block was reassigned across organizations (bulkAssignBranch
\* by a superadmin changes no contract).
ContractHome ==
    \A x \in live \cap Contracts :
        \/ OrgOfApartment(contract[x].apt) = parent[x]
        \/ parent[contract[x].apt] \in moved

\* A user who has a branch belongs to the organization of that branch, even
\* when saves of stale user rows race with scope changes and removals.
StaffHome ==
    \A u \in live \cap Users :
        user[u].branch # NULL =>
          user[u].branch \in live /\ parent[user[u].branch] = user[u].org

\* Superadmins are neither made nor removed by the API: the seeded one stays,
\* also when a user is deleted while a stale row of him is being saved.
SuperadminFixed == {u \in live \cap Users : user[u].role = "superadmin"} = {Root}

\* The rows the request r is about to write, delete or attach rows to.
Targets(r) ==
    CASE r.op \in {"save", "saveUser"} -> {r.id}
      [] r.op = "delete" -> r.rows
      [] r.op \in {"removeBranch", "insertBlock", "insertStaff"} -> {r.branch}
      [] r.op = "insertApartments" -> {r.block}
      [] r.op = "assignBranch" -> {r.target}
      [] r.op \in {"checkContract", "saveContract"} -> {r.apt}
      [] OTHER -> {}

\* Row t is a row of organization o (a user: of the one he was created in), or
\* sits in a block that was taken to another organization.
BelongsTo(t, o) ==
    CASE t \in Users -> home[t] = o
      [] t \in Blocks -> OrgOfBlock(t) = o \/ t \in moved
      [] t \in Apartments -> OrgOfApartment(t) = o \/ parent[t] \in moved
      [] OTHER -> parent[t] = o

\* No authorization goes stale: what a request of an organization's user is
\* about to write still belongs to that organization, although the access
\* check was made on rows read earlier.  Blocks moved across organizations
\* and users revived by a stale save are the two ways to escape it.
Authorized ==
    \A r \in inflight :
        (r.actor.role # "superadmin" /\ r.actor.org # NULL) =>
            \A t \in (Targets(r) \cap live) \ (Users \cap revived) :
               BelongsTo(t, r.actor.org)

\* The rows a step inserts, deletes or changes, cascades included.
Written == {i \in live \cup live' :
               \/ (i \in live) # (i \in live') \/ parent'[i] # parent[i]
               \/ i \in Users /\ user'[i] # user[i]
               \/ i \in Contracts /\ contract'[i] # contract[i]}
\* A contract made before its apartment's block was moved, or whose seller came
\* back, and a user who came back.
Escaped(i) ==
    \/ i \in Users /\ i \in revived
    \/ /\ i \in Contracts \cap live
       /\ contract[i].seller \in revived \/ parent[contract[i].apt] \in moved
\* The rows a step writes that were, or now are, of another organization than o.
Foreign(o) == {i \in Written : /\ ~ Escaped(i)
                               /\ ~ IF i \in live THEN BelongsTo(i, o) ELSE BelongsTo(i, o)'}
ActsFor(a, o) == a.role # "superadmin" /\ a.org = o
Step(a) == Call(a) \/ \E r \in inflight : r.actor = a /\ Continue(r)

\* Tenants are isolated: no step of a user of an organization, whatever it
\* read before and whatever deletes, cascades and stale saves it runs into,
\* inserts, deletes or changes a row of another organization.
Isolation ==
    [][\A o \in Orgs : Foreign(o) # {} =>
          \A a \in Actors \cup {r.actor : r \in inflight} : ActsFor(a, o) => ~ Step(a)]_vars

\* An organization and the rows that organizations.remove deletes with it.
RowsOf(o) == {o} \cup {i \in live : parent[i] = o} \cup {u \in live \cap Users : user[u].org = o}

\* "Superadmin: remove org and dependent rows (contracts first - apartment FK)":
\* with no other request running, organizations.remove can delete a live
\* organization, because deleting its own contracts frees its apartments.
OrgRemovable == \A o \in live \cap Orgs : ~ Restricted(RowsOf(o))

\* It can delete every organization that never received a block of another
\* one: no race of contracts.create with other requests leaves a contract of
\* one organization on an apartment or a client of a second.
RemovableUnlessMoved ==
    \A o \in live \cap Orgs :
        \/ ~ Restricted(RowsOf(o))
        \/ \E k \in moved \cap live : OrgOfBlock(k) = o
=============================================================================
