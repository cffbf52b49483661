--------------------------- MODULE TenancyProofs ---------------------------
(***************************************************************************)
(* Tenant consistency of Tenancy, for any tables and any number of         *)
(* requests in flight.                                                     *)
(*                                                                         *)
(* The inductive invariant says what the stale values a request carries    *)
(* still have to do with the tables: everything it read is either          *)
(* immutable once the row exists (the organization of a branch, a client,  *)
(* a contract, the birth organization of a user) or recorded in moved; and *)
(* the rows a tenant's request is about to write are still the tenant's.   *)
(* Steady says that no step breaks such a fact, so the proof has one part  *)
(* for the steps that only add a request (its facts hold now) and one for  *)
(* the steps that write (they are steady and leave the tables consistent). *)
(***************************************************************************)
EXTENDS Tenancy, TLAPS

\* Cascade references have the right kind and were followed when a row was
\* inserted, so a row that ever existed still has its whole chain of ids.
ChainOK ==
    /\ \A o \in Orgs : parent[o] = NULL
    /\ \A u \in Users : parent[u] = NULL
    /\ \A b \in Branches \cup Clients \cup Contracts : parent[b] \in Orgs \cup {NULL}
    /\ \A k \in Blocks :
          parent[k] # NULL => parent[k] \in Branches /\ parent[parent[k]] # NULL
    /\ \A p \in Apartments :
          parent[p] # NULL => parent[p] \in Blocks /\ parent[parent[p]] # NULL
    /\ \A i \in Ids : parent[i] # NULL => i \in used
    /\ \A i \in live : i \in Orgs \cup Users \/ parent[i] # NULL
    /\ \A u \in Users : home[u] # NULL => u \in used

\* A user's references exist, agree with one another and with his birth.
RowOK(row, h) ==
    /\ row.org \in {NULL, h}
    /\ row.branch # NULL => row.org # NULL /\ parent[row.branch] = row.org

UsersOK ==
    /\ \A u \in Users : /\ RowOK(user[u], home[u])
                        /\ FK(user[u].org) /\ FK(user[u].branch)
                        /\ (user[u].role = "superadmin") <=> (u = Root)
    /\ Root \in live /\ home[Root] = NULL

\* The apartment p is in organization o, or its block was moved.
AtHome(p, o) ==
    parent[p] # NULL /\ (OrgOfApartment(p) = o \/ parent[p] \in moved)

ContractsOK ==
    \A x \in Contracts : parent[x] # NULL =>
        /\ contract[x].apt # NULL /\ contract[x].client # NULL
        /\ AtHome(contract[x].apt, parent[x])
        /\ parent[contract[x].client] = parent[x]
        /\ contract[x].seller # NULL => home[contract[x].seller] = parent[x]

\* What is still true of the values a request has read.
ReadOK(r) ==
    /\ RowOK(r.actor, home[r.actor.id])
    /\ r.op = "save" =>
         /\ r.id \in used
         /\ IF r.id \in Blocks
            THEN /\ parent[r.id] # NULL
                 /\ r.parent \in Branches /\ parent[r.parent] # NULL
                 /\ parent[r.parent] = OrgOfBlock(r.id) \/ r.id \in moved
            ELSE /\ r.parent = parent[r.id]
                 /\ r.id \notin Orgs => r.parent # NULL
    /\ r.op \in {"delete", "removeOrg"} => Root \notin r.rows
    /\ r.op \in {"insertStaff"} => parent[r.branch] = r.org
    /\ r.op = "insertBlock" => parent[r.branch] # NULL
    /\ r.op = "insertApartments" => parent[r.block] # NULL
    /\ r.op = "assignBranch" =>
         /\ parent[r.target] # NULL
         /\ r.actor.role = "superadmin" \/ parent[r.target] = r.actor.org
    /\ r.op = "insertUser" =>
         /\ r.row.role # "superadmin" /\ r.row.org # NULL
         /\ RowOK(r.row, r.row.org)
    /\ r.op = "saveUser" =>
         /\ r.id \in used
         /\ r.row.role = user[r.id].role
         /\ RowOK(r.row, home[r.id])
    /\ r.op \in {"checkContract", "saveContract"} => AtHome(r.apt, r.org)
    /\ (r.op = "checkContract" /\ r.actor.role = "staff") =>
         home[r.actor.id] = r.org
    /\ r.op = "saveContract" =>
         /\ parent[r.client] = r.org
         /\ r.seller # NULL => home[r.seller] = r.org

\* The row t is of organization o for good, but for moves of its block.
Owned(t, o) ==
    /\ t \notin Orgs
    /\ t \in Branches \cup Clients \cup Contracts => parent[t] = o
    /\ t \in Blocks => parent[t] # NULL /\ (OrgOfBlock(t) = o \/ t \in moved)
    /\ t \in Apartments => AtHome(t, o)
    /\ t \in Users => home[t] = o

\* What a request of a tenant is about to write is his; of the users it deletes
\* those who were gone already may come back by a stale save.
Entitled(r) ==
    r.actor.role # "superadmin" /\ r.actor.org # NULL =>
        /\ \A t \in Targets(r) :
              /\ t \in used
              /\ \/ Owned(t, r.actor.org)
                 \/ r.op = "delete" /\ t \in Users \ (live \ revived)
        /\ r.op # "removeOrg"
        /\ r.op = "insertUser" => r.row.org = r.actor.org
        /\ r.op \in {"checkContract", "saveContract"} => r.org = r.actor.org

Core ==
    /\ TypeOK /\ ChainOK /\ UsersOK /\ ContractsOK
    /\ \A r \in inflight : ReadOK(r) /\ Entitled(r)

\* The seller of a contract exists: ON DELETE SET NULL.
SellersOK == \A x \in Contracts : FK(contract[x].seller)

IInv == Core /\ SellersOK

\* What every step leaves true: references of existing rows do not change,
\* but for a block's branch, and a change of organization is recorded.
Steady ==
    /\ \A i \in Ids \ Blocks : parent[i] # NULL => parent'[i] = parent[i]
    /\ \A k \in Blocks : parent[k] # NULL =>
          parent'[k] # NULL /\ (OrgOfBlock(k)' = OrgOfBlock(k) \/ k \in moved')
    /\ moved \subseteq moved' /\ used \subseteq used'
    /\ \A u \in Users : home[u] # NULL => home'[u] = home[u]
    /\ \A u \in Users : u \in used => user'[u].role = user[u].role

\* No row comes back but by a stale save, which is recorded.
NoReturn == revived \subseteq revived' /\ live' \cap used \subseteq live \cup revived'

-----------------------------------------------------------------------------
\* The kind of a request decides its record type.
LEMMA RequestKind ==
    ASSUME NEW r \in Request
    PROVE  /\ r.actor \in Actor
           /\ r.op = "save" => r \in SaveRequest
           /\ r.op = "delete" => r \in DeleteRequest
           /\ r.op = "removeBranch" => r \in RemoveBranchRequest
           /\ r.op = "removeOrg" => r \in RemoveOrgRequest
           /\ r.op = "insertStaff" => r \in StaffRequest
           /\ r.op = "insertBlock" => r \in BlockRequest
           /\ r.op = "insertApartments" => r \in ApartmentRequest
           /\ r.op = "assignBranch" => r \in AssignRequest
           /\ r.op = "insertUser" => r \in InsertUserRequest
           /\ r.op = "saveUser" => r \in SaveUserRequest
           /\ r.op = "checkContract" => r \in CheckContractRequest
           /\ r.op = "saveContract" => r \in SaveContractRequest
  BY DEF Request, SaveRequest, DeleteRequest, RemoveBranchRequest,
         RemoveOrgRequest, StaffRequest, BlockRequest, ApartmentRequest,
         AssignRequest, InsertUserRequest, SaveUserRequest,
         CheckContractRequest, SaveContractRequest

\* An apartment stays at home, or in a block recorded as moved.
LEMMA AtHomeSteady ==
    ASSUME TypeOK, TypeOK', ChainOK, ChainOK', Steady,
           NEW p \in Apartments, NEW o \in Orgs, AtHome(p, o)
    PROVE  AtHome(p, o)'
  <1> USE TenancyAssumption
  <1>1. p \in Ids \ Blocks /\ parent[p] # NULL
    BY DEF AtHome, Ids
  <1>2. parent'[p] = parent[p] /\ parent[p] \in Blocks /\ parent[parent[p]] # NULL
    BY <1>1 DEF Steady, ChainOK
  <1>3. OrgOfBlock(parent[p])' = OrgOfBlock(parent[p]) \/ parent[p] \in moved'
    BY <1>2 DEF Steady, OrgOfBlock
  <1> QED
    BY <1>1, <1>2, <1>3 DEF AtHome, OrgOfApartment, OrgOfBlock, Steady

\* A user row that is consistent stays so, its branch being immutable.
LEMMA RowSteady ==
    ASSUME ChainOK, Steady, NEW u \in Users,
           NEW row, row.branch \in Branches \cup {NULL}, RowOK(row, home[u])
    PROVE  RowOK(row, home[u])'
  <1> USE TenancyAssumption
  <1>1. row.org \in {NULL, home'[u]}
    BY DEF RowOK, Steady
  <1>2. ASSUME row.branch # NULL
        PROVE  row.org # NULL /\ parent'[row.branch] = row.org
    BY <1>2 DEF RowOK, Steady, Ids
  <1> QED
    BY <1>1, <1>2 DEF RowOK

\* What a request in flight has read stays true while others write.
LEMMA ReadSteady ==
    ASSUME TypeOK, TypeOK', ChainOK, ChainOK', Steady,
           NEW r \in Request, ReadOK(r)
    PROVE  ReadOK(r)'
  <1> USE TenancyAssumption
  <1>1. RowOK(r.actor, home[r.actor.id])'
    <2>1. r.actor.id \in Users /\ r.actor.branch \in Branches \cup {NULL}
      BY RequestKind DEF Actor
    <2> QED
      BY <2>1, RowSteady DEF ReadOK
  <1>2. ASSUME r.op = "save"
        PROVE  /\ r.id \in used'
               /\ IF r.id \in Blocks
                  THEN /\ parent'[r.id] # NULL
                       /\ r.parent \in Branches /\ parent'[r.parent] # NULL
                       /\ parent'[r.parent] = OrgOfBlock(r.id)' \/ r.id \in moved'
                  ELSE /\ r.parent = parent'[r.id]
                       /\ r.id \notin Orgs => r.parent # NULL
    <2>1. r.id \in Orgs \cup Branches \cup Blocks \cup Apartments /\ r.id \in used'
      BY <1>2, RequestKind DEF SaveRequest, ReadOK, Steady
    <2>2. CASE r.id \in Blocks
      <3>1. /\ parent[r.id] # NULL
            /\ r.parent \in Branches /\ parent[r.parent] # NULL
            /\ parent[r.parent] = OrgOfBlock(r.id) \/ r.id \in moved
        BY <1>2, <2>2 DEF ReadOK
      <3>2. parent'[r.parent] = parent[r.parent]
        BY <3>1 DEF Steady, Ids
      <3> QED
        BY <2>1, <2>2, <3>1, <3>2 DEF Steady
    <2>3. CASE r.id \notin Blocks
      <3>1. r.parent = parent[r.id] /\ (r.id \notin Orgs => r.parent # NULL)
        BY <1>2, <2>3 DEF ReadOK
      <3>2. CASE r.id \in Orgs
        BY <2>1, <2>3, <3>1, <3>2 DEF ChainOK
      <3>3. CASE r.id \notin Orgs
        BY <2>1, <2>3, <3>1, <3>3 DEF Steady, Ids
      <3> QED
        BY <3>2, <3>3
    <2> QED
      BY <2>2, <2>3
  <1>3. ASSUME r.op \in {"delete", "removeOrg"}
        PROVE  Root \notin r.rows
    BY <1>3 DEF ReadOK
  <1>4. ASSUME r.op = "insertStaff"
        PROVE  parent'[r.branch] = r.org
    BY <1>4, RequestKind DEF ReadOK, StaffRequest, Steady, Ids
  <1>5. ASSUME r.op = "insertBlock"
        PROVE  parent'[r.branch] # NULL
    BY <1>5, RequestKind DEF ReadOK, BlockRequest, Steady, Ids
  <1>6. ASSUME r.op = "insertApartments"
        PROVE  parent'[r.block] # NULL
    BY <1>6, RequestKind DEF ReadOK, ApartmentRequest, Steady
  <1>7. ASSUME r.op = "assignBranch"
        PROVE  /\ parent'[r.target] # NULL
               /\ r.actor.role = "superadmin" \/ parent'[r.target] = r.actor.org
    BY <1>7, RequestKind DEF ReadOK, AssignRequest, Steady, Ids
  <1>8. ASSUME r.op = "insertUser"
        PROVE  /\ r.row.role # "superadmin" /\ r.row.org # NULL
               /\ RowOK(r.row, r.row.org)'
    <2>1. r.row.branch \in Branches \cup {NULL}
      BY <1>8, RequestKind DEF InsertUserRequest, UserRow
    <2> QED
      BY <1>8, <2>1 DEF ReadOK, RowOK, Steady, Ids
  <1>9. ASSUME r.op = "saveUser"
        PROVE  /\ r.id \in used'
               /\ r.row.role = user'[r.id].role
               /\ RowOK(r.row, home[r.id])'
    <2>1. r.id \in Users /\ r.row.branch \in Branches \cup {NULL}
      BY <1>9, RequestKind DEF SaveUserRequest, UserRow
    <2>2. r.id \in used /\ r.row.role = user[r.id].role /\ RowOK(r.row, home[r.id])
      BY <1>9 DEF ReadOK
    <2> QED
      BY <2>1, <2>2, RowSteady DEF Steady
  <1>10. ASSUME r.op \in {"checkContract", "saveContract"}
         PROVE  AtHome(r.apt, r.org)'
    <2>1. r.apt \in Apartments /\ r.org \in Orgs
      BY <1>10, RequestKind DEF CheckContractRequest, SaveContractRequest
    <2> QED
      BY <1>10, <2>1, AtHomeSteady DEF ReadOK
  <1>11. ASSUME r.op = "checkContract", r.actor.role = "staff"
         PROVE  home'[r.actor.id] = r.org
    BY <1>11, RequestKind DEF ReadOK, CheckContractRequest, Actor, Steady, Ids
  <1>12. ASSUME r.op = "saveContract"
         PROVE  /\ parent'[r.client] = r.org
                /\ r.seller # NULL => home'[r.seller] = r.org
    BY <1>12, RequestKind DEF ReadOK, SaveContractRequest, Steady, Ids
  <1> QED
    BY <1>1, <1>2, <1>3, <1>4, <1>5, <1>6, <1>7, <1>8, <1>9, <1>10, <1>11, <1>12
       DEF ReadOK

\* A row that was the tenant's stays his, or was moved.
LEMMA EntitledSteady ==
    ASSUME TypeOK, TypeOK', ChainOK, ChainOK', Steady, NoReturn,
           NEW r \in Request, Entitled(r)
    PROVE  Entitled(r)'
  <1> USE TenancyAssumption
  <1>1. r.actor.org \in Orgs \cup {NULL}
    BY RequestKind DEF Actor
  <1> SUFFICES ASSUME r.actor.role # "superadmin", r.actor.org # NULL,
                      NEW t \in Targets(r)
               PROVE  /\ t \in used'
                      /\ \/ Owned(t, r.actor.org)'
                         \/ r.op = "delete" /\ t \in Users \ (live' \ revived')
    BY DEF Entitled, Targets
  <1> DEFINE o == r.actor.org
  <1>2. t \in used /\ t \in used' /\ t \in Ids /\ o \in Orgs
    BY <1>1 DEF Entitled, Steady, TypeOK
  <1>3. CASE Owned(t, o)
    <2>2. t \notin Orgs
      BY <1>3 DEF Owned
    <2>3. t \in Branches \cup Clients \cup Contracts => parent'[t] = o
      BY <1>2, <1>3 DEF Owned, Steady, Ids
    <2>4. t \in Blocks =>
            parent'[t] # NULL /\ (OrgOfBlock(t)' = o \/ t \in moved')
      BY <1>2, <1>3 DEF Owned, Steady
    <2>5. t \in Apartments => AtHome(t, o)'
      BY <1>2, <1>3, AtHomeSteady DEF Owned
    <2>6. t \in Users => home'[t] = o
      BY <1>2, <1>3 DEF Owned, Steady
    <2> QED
      BY <1>2, <2>2, <2>3, <2>4, <2>5, <2>6 DEF Owned
  <1>4. CASE r.op = "delete" /\ t \in Users \ (live \ revived)
    BY <1>2, <1>4 DEF NoReturn
  <1> QED
    BY <1>2, <1>3, <1>4 DEF Entitled

\* No step changes what a contract row refers to, but for its seller.
ContractsKept ==
    \A x \in Contracts : parent'[x] # NULL =>
        /\ parent[x] # NULL
        /\ contract'[x].apt = contract[x].apt
        /\ contract'[x].client = contract[x].client
        /\ contract'[x].seller \in {NULL, contract[x].seller}

LEMMA ContractsSteady ==
    ASSUME TypeOK, TypeOK', ChainOK, ChainOK', Steady, ContractsOK, ContractsKept
    PROVE  ContractsOK'
  <1> USE TenancyAssumption
  <1> SUFFICES ASSUME NEW x \in Contracts, parent'[x] # NULL
               PROVE  /\ contract'[x].apt # NULL /\ contract'[x].client # NULL
                      /\ AtHome(contract[x].apt, parent[x])'
                      /\ parent'[contract'[x].client] = parent'[x]
                      /\ contract'[x].seller # NULL =>
                            home'[contract'[x].seller] = parent'[x]
    BY DEF ContractsOK
  <1>1. /\ parent[x] # NULL /\ parent'[x] = parent[x] /\ parent[x] \in Orgs
        /\ contract'[x].apt = contract[x].apt
        /\ contract'[x].client = contract[x].client
        /\ contract'[x].seller \in {NULL, contract[x].seller}
    BY DEF ContractsKept, Steady, ChainOK, Ids
  <1>2. /\ contract[x].apt \in Apartments /\ contract[x].client \in Clients
        /\ AtHome(contract[x].apt, parent[x])
        /\ parent[contract[x].client] = parent[x]
        /\ contract[x].seller # NULL => home[contract[x].seller] = parent[x]
        /\ contract[x].seller \in Users \cup {NULL}
    BY <1>1 DEF ContractsOK, TypeOK, ContractRow
  <1>3. AtHome(contract[x].apt, parent[x])'
    <2>1. AtHome(contract[x].apt, parent[x]) => parent'[contract[x].apt] # NULL /\ (OrgOfApartment(contract[x].apt)' = parent[x] \/ parent'[contract[x].apt] \in moved')
      BY <1>1, <1>2, AtHomeSteady DEF AtHome
    <2> QED
      BY <1>1, <1>2, <2>1 DEF AtHome
  <1> QED
    BY <1>1, <1>2, <1>3 DEF Steady, Ids

\* A step that writes nothing and adds at most one request with good reads.
LEMMA AwaitStep ==
    ASSUME Core, UNCHANGED <<db, history>>,
           NEW r \in Request, ReadOK(r), Entitled(r),
           inflight' \subseteq inflight \cup {r}
    PROVE  Core'
  <1>1. TypeOK' /\ ChainOK' /\ UsersOK' /\ ContractsOK'
    BY DEF Core, TypeOK, ChainOK, UsersOK, ContractsOK, db, history, FK, RowOK,
           AtHome, OrgOfApartment, OrgOfBlock
  <1>2. Steady /\ NoReturn
    BY DEF Steady, NoReturn, db, history, Core, ChainOK, OrgOfBlock
  <1> QED
    BY <1>1, <1>2, ReadSteady, EntitledSteady DEF Core, TypeOK

\* A step that writes: the requests left keep good reads.
LEMMA WriteStep ==
    ASSUME Core, TypeOK', ChainOK', UsersOK', ContractsOK', Steady, NoReturn,
           inflight' \subseteq inflight
    PROVE  Core'
  BY ReadSteady, EntitledSteady DEF Core, TypeOK

\* A deletion with its cascades: a branch goes with its organization, so no
\* user is left with a branch and without the organization.
LEMMA DeleteStep ==
    ASSUME Core, NEW D \in SUBSET Ids, Root \notin D, Delete(D),
           UNCHANGED history, inflight' \subseteq inflight
    PROVE  Core'
  <1> USE TenancyAssumption DEF Core
  <1> DEFINE gone == Cascade(D)
             Ref(i) == IF i \in gone THEN NULL ELSE i
  <1>1. /\ live' = live \ gone
        /\ user' = [u \in Users |->
              [role |-> user[u].role, org |-> Ref(user[u].org),
               branch |-> Ref(user[u].branch)]]
        /\ contract' = [x \in Contracts |->
              [apt |-> contract[x].apt, client |-> contract[x].client,
               seller |-> Ref(contract[x].seller)]]
        /\ used' = used /\ parent' = parent
        /\ home' = home /\ moved' = moved /\ revived' = revived
    BY DEF Delete, history, SetNull
  <1>2. /\ D \subseteq gone
        /\ \A i \in live : parent[i] \in D => i \in gone
        /\ \A i \in gone : i \in D \/ (i \in live /\ parent[i] \in Ids)
    <2>1. D \in SUBSET Ids /\ live \subseteq Ids
      BY DEF TypeOK
    <2> QED
      BY <2>1 DEF Cascade, Kids
  <1>3. \A u \in Users :
          /\ user'[u] = [role |-> user[u].role, org |-> Ref(user[u].org),
                         branch |-> Ref(user[u].branch)]
          /\ user[u] \in UserRow
          /\ user'[u].role = user[u].role
          /\ user'[u].org = Ref(user[u].org)
          /\ user'[u].branch = Ref(user[u].branch)
    BY <1>1 DEF TypeOK, UserRow
  <1>4. \A x \in Contracts :
          /\ contract'[x] = [apt |-> contract[x].apt, client |-> contract[x].client,
                             seller |-> Ref(contract[x].seller)]
          /\ contract[x] \in ContractRow
    BY <1>1 DEF TypeOK, ContractRow
  <1>5. TypeOK'
    <2>1. user' \in [Users -> UserRow]
      BY <1>1, <1>3 DEF UserRow
    <2>2. contract' \in [Contracts -> ContractRow]
      BY <1>1, <1>4 DEF ContractRow
    <2> QED
      BY <1>1, <2>1, <2>2 DEF TypeOK
  <1>6. ChainOK'
    BY <1>1 DEF ChainOK
  <1>7. UsersOK'
    <2>1. Root \in live' /\ home'[Root] = NULL
      <3>1. Root \in live /\ parent[Root] = NULL
        BY DEF UsersOK, ChainOK
      <3> QED
        BY <1>1, <1>2, <3>1 DEF UsersOK
    <2>2. ASSUME NEW u \in Users
          PROVE  /\ RowOK(user[u], home[u])'
                 /\ FK(user[u].org)' /\ FK(user[u].branch)'
                 /\ (user'[u].role = "superadmin") <=> (u = Root)
      <3>1. /\ RowOK(user[u], home[u])
            /\ FK(user[u].org) /\ FK(user[u].branch)
            /\ (user[u].role = "superadmin") <=> (u = Root)
        BY DEF UsersOK
      <3>2. FK(user[u].org)' /\ FK(user[u].branch)'
        BY <1>1, <1>3, <3>1 DEF FK
      <3>3. RowOK(user[u], home[u])'
        <4>1. user'[u].org \in {NULL, home'[u]}
          BY <1>1, <1>3, <3>1 DEF RowOK
        <4>2. ASSUME user'[u].branch # NULL
              PROVE  user'[u].org # NULL /\ parent'[user'[u].branch] = user'[u].org
          <5>1. /\ user[u].branch \in Branches /\ user[u].branch \notin gone
                /\ user'[u].branch = user[u].branch
            <6>1. user[u].branch \in Branches \cup {NULL}
              BY <1>3 DEF UserRow
            <6> QED
              BY <1>3, <4>2, <6>1
          <5>2. /\ user[u].branch \in live
                /\ user[u].org # NULL /\ parent[user[u].branch] = user[u].org
            BY <3>1, <5>1 DEF RowOK, FK, Ids
          <5>3. user[u].org \notin gone
            <6>1. user[u].org \in Orgs /\ parent[user[u].org] = NULL
              BY <1>3, <5>2 DEF UserRow, ChainOK
            <6>2. user[u].org \notin D
              BY <1>2, <5>1, <5>2
            <6> QED
              BY <1>2, <6>1, <6>2
          <5> QED
            BY <1>1, <1>3, <5>1, <5>2, <5>3
        <4> QED
          BY <4>1, <4>2 DEF RowOK
      <3>4. user'[u].role = user[u].role
        BY <1>3
      <3> QED
        BY <3>1, <3>2, <3>3, <3>4
    <2> QED
      BY <2>1, <2>2 DEF UsersOK
  <1>8. Steady
    BY <1>1, <1>3 DEF Steady, ChainOK, OrgOfBlock
  <1>9. ContractsOK'
    <2>1. ContractsKept
      BY <1>1, <1>4 DEF ContractsKept
    <2> QED
      BY <1>5, <1>6, <1>8, <2>1, ContractsSteady
  <1>10. NoReturn
    BY <1>1 DEF NoReturn
  <1> QED
    BY <1>5, <1>6, <1>7, <1>8, <1>9, <1>10, WriteStep

-----------------------------------------------------------------------------
\* An existing row has its chain of owners up to the organization.
LEMMA LiveChain ==
    ASSUME TypeOK, ChainOK, NEW i \in live
    PROVE  /\ i \in Ids /\ i \in used
           /\ i \in Branches \cup Clients \cup Contracts => parent[i] \in Orgs
           /\ i \in Blocks => parent[i] \in Branches /\ OrgOfBlock(i) \in Orgs
           /\ i \in Apartments =>
                /\ parent[i] \in Blocks /\ parent[parent[i]] \in Branches
                /\ OrgOfApartment(i) \in Orgs /\ AtHome(i, OrgOfApartment(i))
  BY TenancyAssumption
     DEF TypeOK, ChainOK, OrgOfBlock, OrgOfApartment, AtHome, Ids

\* The snapshot of the caller is a consistent user row.
LEMMA ActorRead ==
    ASSUME TypeOK, UsersOK, NEW a \in Actors
    PROVE  /\ a \in Actor /\ RowOK(a, home[a.id])
           /\ a.id \in live
  <1>1. PICK u \in live \cap Users : a = ActorOf(u)
    BY DEF Actors
  <1>2. user[u] \in UserRow /\ RowOK(user[u], home[u])
    BY DEF TypeOK, UsersOK
  <1> QED
    BY <1>1, <1>2 DEF ActorOf, Actor, UserRow, RowOK

\* A tenant who passes the checks owns what he asked for.
LEMMA OwnBranch ==
    ASSUME TypeOK, ChainOK, NEW a \in Actor, RowOK(a, home[a.id]),
           a.role # "superadmin", a.org # NULL, NEW b \in Branches, MayWriteBranch(a, b)
    PROVE  b \in used /\ parent[b] = a.org /\ Owned(b, a.org)
  <1> USE TenancyAssumption
  <1>1. b \in live /\ b \in used /\ b # NULL
    BY DEF MayWriteBranch, TypeOK, Ids
  <1>2. parent[b] = a.org
    BY <1>1 DEF MayWriteBranch, MayAdminister, RowOK
  <1> QED
    BY <1>1, <1>2 DEF Owned

LEMMA OwnBlock ==
    ASSUME TypeOK, ChainOK, NEW a \in Actor, RowOK(a, home[a.id]),
           a.role # "superadmin", a.org # NULL,
           NEW k \in Blocks, k \in live, MayWriteBranch(a, parent[k])
    PROVE  /\ k \in used /\ OrgOfBlock(k) = a.org /\ Owned(k, a.org)
           /\ \A p \in Kids({k}) \cap Apartments : p \in used /\ Owned(p, a.org)
  <1> USE TenancyAssumption
  <1>1. k \in used /\ parent[k] \in Branches
    BY LiveChain
  <1>2. OrgOfBlock(k) = a.org
    BY <1>1, OwnBranch DEF OrgOfBlock
  <1>3. ASSUME NEW p \in Kids({k}) \cap Apartments
        PROVE  p \in used /\ Owned(p, a.org)
    <2>1. p \in live /\ parent[p] = k /\ k # NULL
      BY DEF Kids, Ids
    <2> QED
      BY <1>2, <2>1 DEF Owned, AtHome, OrgOfApartment, OrgOfBlock, TypeOK
  <1> QED
    BY <1>1, <1>2, <1>3 DEF Owned, Ids

\* A tenant manages the users that were born in his organization.
LEMMA OwnUser ==
    ASSUME TypeOK, UsersOK, NEW a \in Actor, a.role # "superadmin", a.org # NULL,
           NEW u \in Users, MayManageUser(a, u)
    PROVE  Owned(u, a.org)
  BY TenancyAssumption DEF MayManageUser, UsersOK, RowOK, Owned

\* Endpoints of organizations.service.ts.
LEMMA OrganizationStep ==
    ASSUME Core, NEW a \in Actors, NEW o \in Orgs, NEW u \in Users,
           \/ CreateOrganization(a, o, u)
           \/ UpdateOrganization(a, o)
           \/ RemoveOrganization(a, o)
    PROVE  Core'
  <1> USE TenancyAssumption DEF Core
  <1>a. a \in Actor /\ RowOK(a, home[a.id])
    BY ActorRead
  <1>1. CASE CreateOrganization(a, o, u)
    <2> DEFINE row == [role |-> "org_admin", org |-> o, branch |-> NULL]
    <2>1. /\ o \notin used /\ u \notin used
          /\ live' = live \cup {o, u} /\ used' = used \cup {o, u}
          /\ user' = [user EXCEPT ![u] = row]
          /\ home' = [home EXCEPT ![u] = o]
          /\ UNCHANGED <<parent, contract, inflight, moved, revived>>
      BY <1>1 DEF CreateOrganization, Fresh, Insert
    <2>2. TypeOK'
      <3>1. row \in UserRow
        BY DEF UserRow, Roles
      <3> QED
        BY <2>1, <3>1 DEF TypeOK, Ids
    <2>3. ChainOK'
      BY <2>1 DEF ChainOK, TypeOK
    <2>4. home[u] = NULL /\ u # Root
      BY <2>1 DEF ChainOK, UsersOK, TypeOK
    <2>5. UsersOK'
      <3>1. Root \in live' /\ home'[Root] = NULL
        BY <2>1, <2>4 DEF UsersOK, TypeOK
      <3>2. ASSUME NEW v \in Users
            PROVE  /\ RowOK(user[v], home[v])'
                   /\ FK(user[v].org)' /\ FK(user[v].branch)'
                   /\ (user'[v].role = "superadmin") <=> (v = Root)
        <4>1. CASE v = u
          BY <2>1, <2>4, <4>1 DEF TypeOK, RowOK, FK
        <4>2. CASE v # u
          BY <2>1, <4>2 DEF UsersOK, TypeOK, RowOK, FK
        <4> QED
          BY <4>1, <4>2
      <3> QED
        BY <3>1, <3>2 DEF UsersOK
    <2>6. Steady
      BY <2>1, <2>4 DEF Steady, ChainOK, TypeOK, OrgOfBlock
    <2>7. ContractsKept
      BY <2>1 DEF ContractsKept
    <2>8. NoReturn
      BY <2>1 DEF NoReturn
    <2> QED
      BY <2>1, <2>2, <2>3, <2>5, <2>6, <2>7, <2>8, ContractsSteady, WriteStep
  <1>2. CASE UpdateOrganization(a, o)
    <2> DEFINE r == [op |-> "save", actor |-> a, id |-> o, parent |-> NULL]
    <2>1. r \in Request
      BY <1>a DEF Request, SaveRequest
    <2>2. ReadOK(r)
      BY <1>a, <1>2, LiveChain DEF ReadOK, UpdateOrganization, ChainOK
    <2>3. Entitled(r)
      BY <1>2 DEF Entitled, UpdateOrganization
    <2> QED
      BY <1>2, <2>1, <2>2, <2>3, AwaitStep DEF UpdateOrganization, Await
  <1>3. CASE RemoveOrganization(a, o)
    <2> DEFINE own == {i \in live : i \in Clients \cup Contracts /\ parent[i] = o}
                        \cup {v \in live \cap Users : user[v].org = o}
               r == [op |-> "removeOrg", actor |-> a, org |-> o, rows |-> own]
    <2>1. r \in Request
      BY <1>a DEF Request, RemoveOrgRequest, TypeOK
    <2>2. Root \notin own
      BY DEF UsersOK, RowOK, ChainOK, Ids
    <2>3. ReadOK(r)
      BY <1>a, <2>2 DEF ReadOK
    <2>4. Entitled(r)
      BY <1>3 DEF Entitled, RemoveOrganization
    <2> QED
      BY <1>3, <2>1, <2>3, <2>4, AwaitStep DEF RemoveOrganization, Await
  <1> QED
    BY <1>1, <1>2, <1>3

\* A step that inserts one row of a table other than organizations and users,
\* below an owner that has its own chain: what TypeOK, ChainOK and Steady need.
LEMMA InsertBelow ==
    ASSUME TypeOK, TypeOK', ChainOK, NEW S \in SUBSET Ids,
           S \cap used = {}, Insert(S), UNCHANGED <<user, home, moved>>,
           \A i \in Ids \ S : parent'[i] = parent[i],
           \A i \in S : \/ /\ i \in Branches \cup Clients \cup Contracts
                           /\ parent'[i] \in Orgs
                        \/ /\ i \in Blocks
                           /\ parent'[i] \in Branches /\ parent'[parent'[i]] # NULL
                        \/ /\ i \in Apartments
                           /\ parent'[i] \in Blocks /\ parent'[parent'[i]] # NULL
    PROVE  ChainOK' /\ Steady
  <1> USE TenancyAssumption
  <1>1. live' = live \cup S /\ used' = used \cup S
    BY DEF Insert
  <1>2. \A i \in Ids : parent[i] # NULL => i \notin S /\ parent'[i] = parent[i]
    BY DEF ChainOK
  <1>3. ChainOK'
    <2>1. /\ \A o \in Orgs : parent'[o] = NULL
          /\ \A u \in Users : parent'[u] = NULL
      BY DEF ChainOK, Ids
    <2>2. \A b \in Branches \cup Clients \cup Contracts : parent'[b] \in Orgs \cup {NULL}
      BY DEF ChainOK, Ids
    <2>3. ASSUME NEW k \in Blocks, parent'[k] # NULL
          PROVE  parent'[k] \in Branches /\ parent'[parent'[k]] # NULL
      <3>1. CASE k \in S
        BY <3>1 DEF Ids
      <3>2. CASE k \notin S
        BY <1>2, <2>3, <3>2 DEF ChainOK, Ids
      <3> QED
        BY <3>1, <3>2
    <2>4. ASSUME NEW p \in Apartments, parent'[p] # NULL
          PROVE  parent'[p] \in Blocks /\ parent'[parent'[p]] # NULL
      <3>1. CASE p \in S
        BY <3>1 DEF Ids
      <3>2. CASE p \notin S
        BY <1>2, <2>4, <3>2 DEF ChainOK, Ids
      <3> QED
        BY <3>1, <3>2
    <2>5. /\ \A i \in Ids : parent'[i] # NULL => i \in used'
          /\ \A i \in live' : i \in Orgs \cup Users \/ parent'[i] # NULL
          /\ \A u \in Users : home'[u] # NULL => u \in used'
      BY <1>1, <1>2 DEF ChainOK, TypeOK, Ids
    <2> QED
      BY <2>1, <2>2, <2>3, <2>4, <2>5 DEF ChainOK
  <1>4. Steady
    <2>1. ASSUME NEW k \in Blocks, parent[k] # NULL
          PROVE  parent'[k] = parent[k] /\ parent'[parent'[k]] = parent[parent[k]]
      BY <1>2, <2>1 DEF ChainOK, Ids
    <2> QED
      BY <1>1, <1>2, <2>1 DEF Steady, OrgOfBlock
  <1> QED
    BY <1>3, <1>4

\* Users keep their rows when a step only inserts other rows.
LEMMA UsersKept ==
    ASSUME TypeOK, UsersOK, ChainOK, Steady, live \subseteq live',
           UNCHANGED <<user, home>>
    PROVE  UsersOK'
  <1> SUFFICES ASSUME NEW u \in Users
               PROVE  RowOK(user[u], home[u])' /\ FK(user[u].org)' /\ FK(user[u].branch)'
    BY DEF UsersOK
  <1>1. user[u] \in UserRow /\ RowOK(user[u], home[u])
    BY DEF TypeOK, UsersOK
  <1>2. RowOK(user[u], home[u])'
    <2>1. user[u].branch \in Branches \cup {NULL}
      BY <1>1 DEF UserRow
    <2> QED
      BY <1>1, <2>1, RowSteady
  <1> QED
    BY <1>2 DEF UsersOK, FK

\* Endpoints of branches.service.ts.
LEMMA BranchStep ==
    ASSUME Core, NEW a \in Actors, NEW o \in Orgs, NEW b \in Branches,
           \/ CreateBranch(a, o, b)
           \/ UpdateBranch(a, b)
           \/ RemoveBranch(a, b)
    PROVE  Core'
  <1> USE TenancyAssumption DEF Core
  <1>a. a \in Actor /\ RowOK(a, home[a.id])
    BY ActorRead
  <1>1. CASE CreateBranch(a, o, b)
    <2> DEFINE r == [op |-> "insertStaff", actor |-> a, branch |-> b, org |-> o]
    <2>1. /\ b \notin used
          /\ Insert({b})
          /\ parent' = [parent EXCEPT ![b] = o]
          /\ UNCHANGED <<user, contract, home, moved, revived>>
          /\ inflight' \subseteq inflight \cup {r}
      BY <1>1 DEF CreateBranch, Fresh, history
    <2>2. r \in Request
      BY <1>a DEF Request, StaffRequest
    <2>3. TypeOK'
      BY <2>1, <2>2 DEF TypeOK, Insert, Ids
    <2>4. ChainOK' /\ Steady
      <3>1. {b} \in SUBSET Ids /\ {b} \cap used = {}
        BY <2>1 DEF Ids
      <3>2. /\ \A i \in Ids \ {b} : parent'[i] = parent[i]
            /\ \A i \in {b} : i \in Branches /\ parent'[i] \in Orgs
        BY <2>1, <3>1 DEF TypeOK
      <3> QED
        BY <2>1, <2>3, <3>1, <3>2, InsertBelow
    <2>5. UsersOK'
      BY <2>1, <2>4, UsersKept DEF Insert
    <2>6. ContractsOK'
      <3>1. ContractsKept
        BY <2>1 DEF ContractsKept, TypeOK, Ids
      <3> QED
        BY <2>3, <2>4, <3>1, ContractsSteady
    <2>7. ReadOK(r)'
      <3>1. RowOK(a, home[a.id])'
        BY <1>a, <2>4, RowSteady DEF Actor
      <3>2. parent'[b] = o
        BY <2>1 DEF TypeOK, Ids
      <3> QED
        BY <3>1, <3>2 DEF ReadOK
    <2>8. Entitled(r)'
      <3>1. b \in used' /\ parent'[b] = o /\ Targets(r) = {b}
        BY <2>1 DEF Insert, Targets, TypeOK, Ids
      <3>2. a.role # "superadmin" => a.org = o
        BY <1>1 DEF CreateBranch, MayAdminister
      <3> QED
        BY <3>1, <3>2 DEF Entitled, Owned, Targets
    <2>9. \A q \in inflight : ReadOK(q)' /\ Entitled(q)'
      <3>1. NoReturn
        BY <2>1 DEF NoReturn, Insert
      <3> QED
        BY <2>3, <2>4, <3>1, ReadSteady, EntitledSteady DEF TypeOK
    <2> QED
      BY <2>1, <2>3, <2>4, <2>5, <2>6, <2>7, <2>8, <2>9
  <1>2. CASE UpdateBranch(a, b)
    <2> DEFINE r == [op |-> "save", actor |-> a, id |-> b, parent |-> parent[b]]
    <2>1. b \in live /\ parent[b] \in Orgs /\ b \in used
      BY <1>2, LiveChain DEF UpdateBranch
    <2>2. r \in Request
      BY <1>a, <2>1 DEF Request, SaveRequest, Ids
    <2>3. ReadOK(r)
      BY <1>a, <2>1 DEF ReadOK, Ids
    <2>4. Entitled(r)
      BY <1>2, <2>1 DEF UpdateBranch, MayAdminister, Entitled, Targets, Owned
    <2> QED
      BY <1>2, <2>2, <2>3, <2>4, AwaitStep DEF UpdateBranch, Await
  <1>3. CASE RemoveBranch(a, b)
    <2> DEFINE r == [op |-> "removeBranch", actor |-> a, branch |-> b]
    <2>1. r \in Request
      BY <1>a DEF Request, RemoveBranchRequest
    <2>2. ReadOK(r)
      BY <1>a DEF ReadOK
    <2>3. Entitled(r)
      BY <1>3, LiveChain DEF RemoveBranch, MayAdminister, Entitled, Targets, Owned
    <2> QED
      BY <1>3, <2>1, <2>2, <2>3, AwaitStep DEF RemoveBranch, Await
  <1> QED
    BY <1>1, <1>2, <1>3

\* Endpoints of users.service.ts: they only read and check.
LEMMA UserStep ==
    ASSUME Core, NEW a \in Actors, UserCall(a)
    PROVE  Core'
  <1> USE TenancyAssumption DEF Core
  <1>a. a \in Actor /\ RowOK(a, home[a.id])
    BY ActorRead
  <1>1. ASSUME NEW role \in Roles, NEW o \in Orgs, NEW b \in Branches \cup {NULL},
               CreateUser(a, role, o, b)
        PROVE  Core'
    <2> DEFINE row == [role |-> role, org |-> o, branch |-> b]
               r == [op |-> "insertUser", actor |-> a, row |-> row]
    <2>1. r \in Request
      BY <1>a DEF Request, InsertUserRequest, UserRow
    <2>2. /\ role # "superadmin"
          /\ b # NULL => parent[b] = o
      BY <1>1 DEF CreateUser, ValidBranch
    <2>3. o # NULL
      BY DEF Ids
    <2>4. ReadOK(r)
      BY <1>a, <2>2, <2>3 DEF ReadOK, RowOK
    <2>5. Entitled(r)
      BY <1>1 DEF CreateUser, Entitled, Targets
    <2> QED
      BY <1>1, <2>1, <2>4, <2>5, AwaitStep DEF CreateUser, Await
  <1>2. ASSUME NEW S \in SUBSET (Users \cap used), RemoveUsers(a, S)
        PROVE  Core'
    <2> DEFINE r == [op |-> "delete", actor |-> a, rows |-> S]
    <2>1. r \in Request
      BY <1>a DEF Request, DeleteRequest, Ids
    <2>2. Root \notin S
      BY <1>2 DEF RemoveUsers, MayDeleteUser, UsersOK
    <2>3. ReadOK(r)
      BY <1>a, <2>2 DEF ReadOK
    <2>4. Entitled(r)
      <3>1. ASSUME a.role # "superadmin", a.org # NULL, NEW u \in S, u \in live
            PROVE  Owned(u, a.org)
        BY <1>a, <1>2, <3>1, OwnUser DEF RemoveUsers, MayDeleteUser
      <3> QED
        BY <3>1 DEF Entitled, Targets
    <2> QED
      BY <1>2, <2>1, <2>3, <2>4, AwaitStep DEF RemoveUsers, Await
  <1>3. ASSUME NEW u \in Users, AdminChangePassword(a, u)
        PROVE  Core'
    <2> DEFINE r == [op |-> "saveUser", actor |-> a, id |-> u,
                     row |-> user[u], full |-> TRUE]
    <2>1. r \in Request
      BY <1>a DEF Request, SaveUserRequest, TypeOK
    <2>2. u \in used /\ RowOK(user[u], home[u])
      BY <1>3 DEF AdminChangePassword, TypeOK, UsersOK
    <2>3. ReadOK(r)
      BY <1>a, <2>2 DEF ReadOK
    <2>4. Entitled(r)
      BY <1>a, <1>3, <2>2, OwnUser DEF AdminChangePassword, Entitled, Targets
    <2> QED
      BY <1>3, <2>1, <2>3, <2>4, AwaitStep DEF AdminChangePassword, Await
  <1>4. ASSUME NEW u \in Users, NEW b \in Branches \cup {NULL}, UpdateScope(a, u, b)
        PROVE  Core'
    <2> DEFINE row == [user[u] EXCEPT !.branch = b]
               r == [op |-> "saveUser", actor |-> a, id |-> u,
                     row |-> row, full |-> FALSE]
    <2>1. /\ u \in live /\ u \in used
          /\ user[u] \in UserRow /\ RowOK(user[u], home[u])
      BY <1>4 DEF UpdateScope, TypeOK, UsersOK
    <2>2. /\ row \in UserRow
          /\ row.role = user[u].role /\ row.org = user[u].org /\ row.branch = b
      BY <2>1 DEF UserRow
    <2>3. r \in Request
      BY <1>a, <2>2 DEF Request, SaveUserRequest
    <2>4. RowOK(row, home[u])
      <3>1. CASE b = user[u].branch
        BY <2>1, <2>2, <3>1 DEF RowOK
      <3>2. CASE b \in live /\ parent[b] = user[u].org
        <4>1. b \in Branches /\ parent[b] \in Orgs
          BY <3>2, LiveChain DEF Ids, TypeOK
        <4> QED
          BY <2>1, <2>2, <3>2, <4>1 DEF RowOK, Ids
      <3> QED
        BY <1>4, <3>1, <3>2 DEF UpdateScope, ValidBranch
    <2>5. ReadOK(r)
      BY <1>a, <2>1, <2>2, <2>4 DEF ReadOK
    <2>6. Entitled(r)
      BY <1>a, <1>4, <2>1, OwnUser DEF UpdateScope, Entitled, Targets
    <2> QED
      BY <1>4, <2>3, <2>5, <2>6, AwaitStep DEF UpdateScope, Await
  <1> QED
    BY <1>1, <1>2, <1>3, <1>4 DEF UserCall

\* Endpoints of blocks, apartments and floors services: they read and check.
LEMMA BlockStep ==
    ASSUME Core, NEW a \in Actors, BlockCall(a)
    PROVE  Core'
  <1> USE TenancyAssumption DEF Core
  <1>a. a \in Actor /\ RowOK(a, home[a.id])
    BY ActorRead
  <1>1. ASSUME NEW b \in Branches, CreateBlock(a, b)
        PROVE  Core'
    <2> DEFINE r == [op |-> "insertBlock", actor |-> a, branch |-> b, copies |-> {}]
    <2>1. r \in Request
      BY <1>a DEF Request, BlockRequest
    <2>2. parent[b] # NULL
      BY <1>1, LiveChain DEF CreateBlock, MayWriteBranch, Ids
    <2>3. ReadOK(r)
      BY <1>a, <2>2 DEF ReadOK
    <2>4. Entitled(r)
      BY <1>a, <1>1, OwnBranch DEF CreateBlock, Entitled, Targets
    <2> QED
      BY <1>1, <2>1, <2>3, <2>4, AwaitStep DEF CreateBlock, Await
  <1>2. ASSUME NEW b \in Branches, NEW S \in SUBSET (Blocks \cap used),
               BulkAssignBranch(a, b, S)
        PROVE  Core'
    <2> DEFINE r == [op |-> "assignBranch", actor |-> a, target |-> b, rows |-> S]
    <2>1. r \in Request
      BY <1>a DEF Request, AssignRequest
    <2>2. /\ parent[b] # NULL
          /\ a.role = "superadmin" \/ parent[b] = a.org
      BY <1>a, <1>2, LiveChain
         DEF BulkAssignBranch, MayWriteBranch, MayAdminister, RowOK, Ids
    <2>3. ReadOK(r)
      BY <1>a, <2>2 DEF ReadOK
    <2>4. Entitled(r)
      BY <1>a, <1>2, OwnBranch DEF BulkAssignBranch, Entitled, Targets
    <2> QED
      BY <1>2, <2>1, <2>3, <2>4, AwaitStep DEF BulkAssignBranch, Await
  <1>3. ASSUME NEW k \in Blocks, k \in live
        PROVE  /\ k \in used /\ parent[k] \in Branches /\ parent[k] # NULL
               /\ parent[parent[k]] # NULL
    BY <1>3, LiveChain DEF Ids, OrgOfBlock
  <1>4. ASSUME NEW k \in Blocks, DuplicateBlock(a, k)
        PROVE  Core'
    <2> DEFINE r == [op |-> "insertBlock", actor |-> a, branch |-> parent[k],
                     copies |-> Kids({k}) \cap Apartments]
    <2>1. r \in Request /\ ReadOK(r)
      BY <1>a, <1>3, <1>4 DEF Request, BlockRequest, ReadOK, DuplicateBlock
    <2>2. Entitled(r)
      BY <1>a, <1>3, <1>4, OwnBranch DEF DuplicateBlock, Entitled, Targets
    <2> QED
      BY <1>4, <2>1, <2>2, AwaitStep DEF DuplicateBlock, Await
  <1>5. ASSUME NEW k \in Blocks, UpdateBlock(a, k)
        PROVE  Core'
    <2> DEFINE r == [op |-> "save", actor |-> a, id |-> k, parent |-> parent[k]]
    <2>1. r \in Request /\ ReadOK(r)
      BY <1>a, <1>3, <1>5 DEF Request, SaveRequest, ReadOK, UpdateBlock, Ids, OrgOfBlock
    <2>2. Entitled(r)
      <3>1. a.role # "superadmin" /\ a.org # NULL => k \in used /\ Owned(k, a.org)
        BY <1>a, <1>5, OwnBlock DEF UpdateBlock
      <3> QED
        BY <3>1 DEF Entitled, Targets
    <2> QED
      BY <1>5, <2>1, <2>2, AwaitStep DEF UpdateBlock, Await
  <1>6. ASSUME NEW S \in SUBSET Ids, Root \notin S,
               a.role # "superadmin" /\ a.org # NULL =>
                   \A t \in S : t \in used /\ Owned(t, a.org),
               Await([op |-> "delete", actor |-> a, rows |-> S])
        PROVE  Core'
    <2> DEFINE r == [op |-> "delete", actor |-> a, rows |-> S]
    <2>1. r \in Request /\ ReadOK(r)
      BY <1>a, <1>6 DEF Request, DeleteRequest, ReadOK
    <2>2. Entitled(r)
      BY <1>6 DEF Entitled, Targets
    <2> QED
      BY <1>6, <2>1, <2>2, AwaitStep DEF Await
  <1>7. ASSUME NEW k \in Blocks, RemoveBlock(a, k)
        PROVE  Core'
    <2>1. a.role # "superadmin" /\ a.org # NULL => k \in used /\ Owned(k, a.org)
      BY <1>a, <1>7, OwnBlock DEF RemoveBlock
    <2> QED
      BY <1>6, <1>7, <2>1 DEF RemoveBlock, Ids
  <1>8. ASSUME NEW k \in Blocks, CreateApartments(a, k)
        PROVE  Core'
    <2> DEFINE r == [op |-> "insertApartments", actor |-> a, block |-> k]
    <2>1. r \in Request /\ ReadOK(r)
      BY <1>a, <1>3, <1>8 DEF Request, ApartmentRequest, ReadOK, CreateApartments
    <2>2. Entitled(r)
      <3>1. a.role # "superadmin" /\ a.org # NULL => k \in used /\ Owned(k, a.org)
        BY <1>a, <1>8, OwnBlock DEF CreateApartments
      <3> QED
        BY <3>1 DEF Entitled, Targets
    <2> QED
      BY <1>8, <2>1, <2>2, AwaitStep DEF CreateApartments, Await
  <1>9. ASSUME NEW k \in Blocks, NEW A \in SUBSET Apartments, RemoveFloor(a, k, A)
        PROVE  Core'
    <2>1. a.role # "superadmin" /\ a.org # NULL =>
            \A t \in A : t \in used /\ Owned(t, a.org)
      BY <1>a, <1>9, OwnBlock DEF RemoveFloor
    <2> QED
      BY <1>6, <1>9, <2>1 DEF RemoveFloor, Ids
  <1>own. ASSUME NEW p \in Apartments, p \in live, MayWriteBranch(a, parent[parent[p]]),
                 a.role # "superadmin", a.org # NULL
          PROVE  p \in used /\ Owned(p, a.org)
    <2>1. p \in used /\ parent[p] \in Blocks /\ parent[parent[p]] \in Branches
      BY <1>own, LiveChain
    <2>2. parent[parent[parent[p]]] = a.org
      BY <1>a, <1>own, <2>1, OwnBranch
    <2> QED
      BY <2>1, <2>2 DEF Owned, AtHome, OrgOfApartment, OrgOfBlock, Ids
  <1>10. ASSUME NEW p \in Apartments, UpdateApartment(a, p)
         PROVE  Core'
    <2> DEFINE r == [op |-> "save", actor |-> a, id |-> p, parent |-> parent[p]]
    <2>1. p \in used /\ parent[p] \in Blocks /\ p \notin Blocks /\ p \notin Orgs
      BY <1>10, LiveChain DEF UpdateApartment
    <2>2. r \in Request /\ ReadOK(r)
      BY <1>a, <2>1 DEF Request, SaveRequest, ReadOK, Ids
    <2>3. Entitled(r)
      BY <1>10, <1>own DEF UpdateApartment, Entitled, Targets
    <2> QED
      BY <1>10, <2>2, <2>3, AwaitStep DEF UpdateApartment, Await
  <1>11. ASSUME NEW p \in Apartments, RemoveApartment(a, p)
         PROVE  Core'
    <2>1. a.role # "superadmin" /\ a.org # NULL => p \in used /\ Owned(p, a.org)
      BY <1>11, <1>own DEF RemoveApartment
    <2> QED
      BY <1>6, <1>11, <2>1 DEF RemoveApartment, Ids
  <1> QED
    BY <1>1, <1>2, <1>4, <1>5, <1>7, <1>8, <1>9, <1>10, <1>11 DEF BlockCall

\* Endpoints of clients.service.ts and contracts.service.ts.
LEMMA ContractStep ==
    ASSUME Core, NEW a \in Actors, ContractCall(a)
    PROVE  Core'
  <1> USE TenancyAssumption DEF Core
  <1>a. a \in Actor /\ RowOK(a, home[a.id])
    BY ActorRead
  <1>1. ASSUME NEW o \in Orgs, NEW c \in Clients, CreateClient(a, o, c)
        PROVE  Core'
    <2>1. /\ c \notin used /\ Insert({c})
          /\ parent' = [parent EXCEPT ![c] = o]
          /\ UNCHANGED <<user, contract, inflight, home, moved, revived>>
      BY <1>1 DEF CreateClient, Fresh, history
    <2>2. TypeOK'
      BY <2>1 DEF TypeOK, Insert, Ids
    <2>3. ChainOK' /\ Steady
      <3>1. {c} \in SUBSET Ids /\ {c} \cap used = {}
        BY <2>1 DEF Ids
      <3>2. /\ \A i \in Ids \ {c} : parent'[i] = parent[i]
            /\ \A i \in {c} : i \in Clients /\ parent'[i] \in Orgs
        BY <2>1, <3>1 DEF TypeOK
      <3> QED
        BY <2>1, <2>2, <3>1, <3>2, InsertBelow
    <2>4. UsersOK'
      BY <2>1, <2>3, UsersKept DEF Insert
    <2>5. ContractsKept
      BY <2>1 DEF ContractsKept, TypeOK, Ids
    <2>6. NoReturn
      BY <2>1 DEF NoReturn, Insert
    <2> QED
      BY <2>1, <2>2, <2>3, <2>4, <2>5, <2>6, ContractsSteady, WriteStep
  <1>2. ASSUME NEW S \in SUBSET (Clients \cup Contracts), S \subseteq live,
               a.role # "superadmin" => \A t \in S : parent[t] = a.org,
               Await([op |-> "delete", actor |-> a, rows |-> S])
        PROVE  Core'
    <2> DEFINE r == [op |-> "delete", actor |-> a, rows |-> S]
    <2>1. S \in SUBSET Ids /\ Root \notin S
      BY DEF Ids
    <2>2. r \in Request /\ ReadOK(r)
      BY <1>a, <2>1 DEF Request, DeleteRequest, ReadOK
    <2>3. Entitled(r)
      BY <1>2 DEF Entitled, Targets, Owned, TypeOK
    <2> QED
      BY <1>2, <2>2, <2>3, AwaitStep DEF Await
  <1>3. ASSUME NEW S \in SUBSET Clients, RemoveClients(a, S)
        PROVE  Core'
    BY <1>2, <1>3 DEF RemoveClients, MayUseClients
  <1>4. ASSUME NEW S \in SUBSET Contracts, RemoveContracts(a, S)
        PROVE  Core'
    BY <1>2, <1>4 DEF RemoveContracts, MayUseContracts
  <1>5. ASSUME NEW O, BulkRemoveClients(a, O)
        PROVE  Core'
    <2> DEFINE D == {c \in live \cap Clients : parent[c] \in O}
    <2>1. D \in SUBSET Ids /\ Root \notin D
      BY DEF Ids
    <2>2. Delete(D) /\ UNCHANGED history /\ inflight' \subseteq inflight
      BY <1>5 DEF BulkRemoveClients
    <2> QED
      BY <2>1, <2>2, DeleteStep
  <1>6. ASSUME NEW p \in Apartments, CreateContract(a, p)
        PROVE  Core'
    <2> DEFINE o == OrgOfApartment(p)
               r == [op |-> "checkContract", actor |-> a, apt |-> p, org |-> o]
    <2>1. o \in Orgs /\ o # NULL /\ AtHome(p, o)
      BY <1>6, LiveChain DEF CreateContract, Ids
    <2>2. r \in Request
      BY <1>a, <2>1 DEF Request, CheckContractRequest
    <2>3. a.role = "staff" => home[a.id] = o
      BY <1>a, <1>6, <2>1 DEF CreateContract, MayUseContracts, RowOK
    <2>4. ReadOK(r)
      BY <1>a, <2>1, <2>3 DEF ReadOK
    <2>5. Entitled(r)
      BY <1>6, <2>1 DEF CreateContract, MayUseContracts, Entitled, Targets, Owned, TypeOK
    <2> QED
      BY <1>6, <2>2, <2>4, <2>5, AwaitStep DEF CreateContract, Await
  <1> QED
    BY <1>1, <1>3, <1>4, <1>5, <1>6 DEF ContractCall

-----------------------------------------------------------------------------
\* The last step of a request: a row is saved back as it was read.
LEMMA SaveStep ==
    ASSUME Core, NEW r \in inflight, r.op = "save", Save(r)
    PROVE  Core'
  <1> USE TenancyAssumption DEF Core
  <1>1. /\ r \in SaveRequest /\ ReadOK(r)
    BY RequestKind DEF TypeOK
  <1>2. /\ r.id \in Ids /\ r.id \in used /\ r.id \notin Users \cup Contracts \cup Clients
        /\ r.parent \in Ids \cup {NULL} /\ FK(r.parent)
        /\ live' = live \cup {r.id} /\ used' = used \cup {r.id}
        /\ parent' = [parent EXCEPT ![r.id] = r.parent]
        /\ UNCHANGED <<user, contract, home>>
        /\ inflight' \subseteq inflight /\ moved' = moved /\ NoReturn
    BY <1>1 DEF Save, Insert, Answer, SaveRequest, ReadOK, NoReturn, Ids
  <1>3. \A i \in Ids : parent'[i] = IF i = r.id THEN r.parent ELSE parent[i]
    BY <1>2 DEF TypeOK
  <1>4. TypeOK'
    <2>1. moved' \subseteq Blocks /\ revived' \subseteq Ids
      BY <1>2 DEF Save, TypeOK
    <2> QED
      BY <1>2, <2>1 DEF TypeOK
  <1>5. CASE r.id \in Blocks
    <2>1. /\ parent[r.id] # NULL
          /\ r.parent \in Branches /\ parent[r.parent] # NULL
          /\ parent[r.parent] = OrgOfBlock(r.id) \/ r.id \in moved
      BY <1>1, <1>5 DEF ReadOK
    <2>2. \A i \in Ids \ Blocks : parent'[i] = parent[i]
      BY <1>3, <1>5
    <2>3. \A k \in Blocks : parent[k] # NULL =>
             /\ parent'[k] # NULL
             /\ OrgOfBlock(k)' = OrgOfBlock(k) \/ k \in moved'
      <3> SUFFICES ASSUME NEW k \in Blocks, parent[k] # NULL
                   PROVE  /\ parent'[k] # NULL
                          /\ OrgOfBlock(k)' = OrgOfBlock(k) \/ k \in moved'
        OBVIOUS
      <3>1. CASE k = r.id
        <4>1. parent'[k] = r.parent /\ parent'[r.parent] = parent[r.parent]
          BY <1>3, <2>1, <2>2, <3>1 DEF Ids
        <4> QED
          BY <1>2, <2>1, <3>1, <4>1 DEF OrgOfBlock, Ids
      <3>2. CASE k # r.id
        <4>1. parent'[k] = parent[k] /\ parent[k] \in Branches
          BY <1>3, <3>2 DEF ChainOK, Ids
        <4>2. parent'[parent[k]] = parent[parent[k]]
          BY <2>2, <4>1 DEF Ids
        <4> QED
          BY <4>1, <4>2 DEF OrgOfBlock
      <3> QED
        BY <3>1, <3>2
    <2>4. Steady
      BY <1>2, <2>2, <2>3 DEF Steady
    <2>5. ChainOK'
      <3>1. \A k \in Blocks : parent'[k] # NULL =>
              parent'[k] \in Branches /\ parent'[parent'[k]] # NULL
        BY <1>3, <2>1, <2>2 DEF ChainOK, Ids
      <3>2. \A p \in Apartments : parent'[p] # NULL =>
              parent'[p] \in Blocks /\ parent'[parent'[p]] # NULL
        BY <2>2, <2>3 DEF ChainOK, Ids
      <3>3. /\ \A o \in Orgs : parent'[o] = NULL
            /\ \A u \in Users : parent'[u] = NULL
            /\ \A b \in Branches \cup Clients \cup Contracts : parent'[b] \in Orgs \cup {NULL}
        BY <2>2 DEF ChainOK, Ids
      <3>4. /\ \A i \in Ids : parent'[i] # NULL => i \in used'
            /\ \A i \in live' : i \in Orgs \cup Users \/ parent'[i] # NULL
            /\ \A u \in Users : home'[u] # NULL => u \in used'
        BY <1>2, <1>3, <2>1 DEF ChainOK, TypeOK, Ids
      <3> QED
        BY <3>1, <3>2, <3>3, <3>4 DEF ChainOK
    <2>6. ContractsKept
      BY <1>2, <2>2 DEF ContractsKept, Ids
    <2>7. UsersOK'
      BY <1>2, <2>4, UsersKept
    <2> QED
      BY <1>2, <1>4, <2>4, <2>5, <2>6, <2>7, ContractsSteady, WriteStep
  <1>6. CASE r.id \notin Blocks
    <2>1. r.parent = parent[r.id] /\ (r.id \notin Orgs => r.parent # NULL)
      BY <1>1, <1>6 DEF ReadOK
    <2>2. parent' = parent
      BY <1>2, <2>1 DEF TypeOK
    <2>3. ChainOK'
      BY <1>2, <2>1, <2>2 DEF ChainOK
    <2>4. Steady
      BY <1>2, <2>2 DEF Steady, OrgOfBlock
    <2>5. ContractsKept
      BY <1>2, <2>2 DEF ContractsKept
    <2>6. UsersOK'
      BY <1>2, <2>4, UsersKept
    <2> QED
      BY <1>2, <1>4, <2>3, <2>4, <2>5, <2>6, ContractsSteady, WriteStep
  <1> QED
    BY <1>5, <1>6

\* One user row is written, consistent with its birth organization h.
LEMMA WriteUser ==
    ASSUME Core, NEW u \in Users, NEW row \in UserRow, NEW h \in Orgs \cup {NULL},
           live' = live \cup {u}, used' = used \cup {u},
           user' = [user EXCEPT ![u] = row], home' = [home EXCEPT ![u] = h],
           RowOK(row, h), FK(row.org), FK(row.branch),
           UNCHANGED <<parent, contract, moved>>,
           revived \subseteq revived', revived' \subseteq Ids, inflight' \subseteq inflight,
           u \in used => u \in live \cup revived',
           \/ u \notin used /\ row.role # "superadmin"
           \/ u \in used /\ h = home[u] /\ row.role = user[u].role
    PROVE  Core'
  <1> USE TenancyAssumption DEF Core
  <1>1. TypeOK'
    BY DEF TypeOK, Ids
  <1>2. ChainOK'
    BY DEF ChainOK, TypeOK
  <1>3. /\ u \notin used => home[u] = NULL /\ u # Root
        /\ user[Root].role = "superadmin"
    BY DEF ChainOK, UsersOK, TypeOK
  <1>4. Steady
    <2>1. \A v \in Users : home[v] # NULL => home'[v] = home[v]
      BY <1>3 DEF TypeOK
    <2>2. \A v \in Users : v \in used => user'[v].role = user[v].role
      BY DEF TypeOK
    <2> QED
      BY <2>1, <2>2 DEF Steady, ChainOK, OrgOfBlock
  <1>5. UsersOK'
    <2>1. Root \in live' /\ home'[Root] = NULL
      BY <1>3 DEF UsersOK, TypeOK
    <2>2. ASSUME NEW v \in Users
          PROVE  /\ RowOK(user[v], home[v])'
                 /\ FK(user[v].org)' /\ FK(user[v].branch)'
                 /\ (user'[v].role = "superadmin") <=> (v = Root)
      <3>1. CASE v = u
        <4>1. user'[v] = row /\ home'[v] = h
          BY <3>1 DEF TypeOK
        <4>2. (row.role = "superadmin") <=> (v = Root)
          BY <1>3, <3>1 DEF UsersOK
        <4> QED
          BY <4>1, <4>2 DEF RowOK, FK
      <3>2. CASE v # u
        <4>1. user'[v] = user[v] /\ home'[v] = home[v]
          BY <3>2 DEF TypeOK
        <4>2. /\ RowOK(user[v], home[v]) /\ FK(user[v].org) /\ FK(user[v].branch)
              /\ (user[v].role = "superadmin") <=> (v = Root)
          BY DEF UsersOK
        <4> QED
          BY <4>1, <4>2 DEF RowOK, FK
      <3> QED
        BY <3>1, <3>2
    <2> QED
      BY <2>1, <2>2 DEF UsersOK
  <1>6. ContractsKept
    BY DEF ContractsKept
  <1>7. NoReturn
    BY DEF NoReturn
  <1> QED
    BY <1>1, <1>2, <1>4, <1>5, <1>6, <1>7, ContractsSteady, WriteStep

\* New blocks and apartments below rows that exist or existed.
LEMMA InsertRows ==
    ASSUME Core, NEW S \in SUBSET (Blocks \cup Apartments),
           S \cap used = {}, Insert(S), parent' \in [Ids -> Ids \cup {NULL}],
           UNCHANGED <<user, contract, history>>, inflight' \subseteq inflight,
           \A i \in Ids \ S : parent'[i] = parent[i],
           \A i \in S : \/ /\ i \in Blocks
                           /\ parent'[i] \in Branches /\ parent'[parent'[i]] # NULL
                        \/ /\ i \in Apartments
                           /\ parent'[i] \in Blocks /\ parent'[parent'[i]] # NULL
    PROVE  Core'
  <1> USE TenancyAssumption DEF Core
  <1>1. S \in SUBSET Ids /\ UNCHANGED <<home, moved, revived>>
    BY DEF Ids, history
  <1>2. TypeOK'
    BY <1>1 DEF TypeOK, Insert
  <1>3. ChainOK' /\ Steady
    BY <1>1, <1>2, InsertBelow
  <1>4. UsersOK'
    BY <1>1, <1>3, UsersKept DEF Insert
  <1>5. ContractsKept
    BY DEF ContractsKept, Ids
  <1>6. NoReturn
    BY <1>1 DEF NoReturn, Insert
  <1> QED
    BY <1>2, <1>3, <1>4, <1>5, <1>6, ContractsSteady, WriteStep

\* Requests of users.service.ts, and the worker of branches.create.
LEMMA UserWriteStep ==
    ASSUME Core, NEW r \in inflight,
           \/ /\ r.op = "insertStaff"
              /\ \E u \in Users : InsertUser(r, u,
                    [role |-> "staff", org |-> r.org, branch |-> r.branch])
           \/ /\ r.op = "insertUser"
              /\ \E u \in Users : InsertUser(r, u, r.row)
           \/ r.op = "saveUser" /\ SaveUser(r)
    PROVE  Core'
  <1> USE TenancyAssumption DEF Core
  <1>0. r \in Request /\ ReadOK(r) /\ Entitled(r)
    BY DEF TypeOK
  <1>a. ASSUME NEW u \in Users, NEW row \in UserRow, InsertUser(r, u, row),
               row.role # "superadmin", row.org # NULL, RowOK(row, row.org)
        PROVE  Core'
    <2>1. row.org \in Orgs
      BY <1>a DEF UserRow
    <2> QED
      BY <1>a, <2>1, WriteUser DEF InsertUser, Fresh, Insert, Answer, TypeOK
  <1>1. ASSUME NEW u \in Users, r.op = "insertStaff",
               InsertUser(r, u, [role |-> "staff", org |-> r.org, branch |-> r.branch])
        PROVE  Core'
    <2> DEFINE row == [role |-> "staff", org |-> r.org, branch |-> r.branch]
    <2>1. r.org \in Orgs /\ r.branch \in Branches /\ parent[r.branch] = r.org
      BY <1>0, <1>1, RequestKind DEF StaffRequest, ReadOK
    <2>2. row \in UserRow
      BY <2>1 DEF UserRow, Roles
    <2>3. row.role # "superadmin" /\ row.org # NULL /\ RowOK(row, row.org)
      BY <2>1 DEF RowOK, Ids
    <2> QED
      BY <1>1, <1>a, <2>2, <2>3
  <1>2. ASSUME NEW u \in Users, r.op = "insertUser", InsertUser(r, u, r.row)
        PROVE  Core'
    <2>1. r.row \in UserRow
      BY <1>0, <1>2, RequestKind DEF InsertUserRequest
    <2>2. r.row.role # "superadmin" /\ r.row.org # NULL /\ RowOK(r.row, r.row.org)
      BY <1>0, <1>2 DEF ReadOK
    <2> QED
      BY <1>2, <1>a, <2>1, <2>2
  <1>3. ASSUME r.op = "saveUser", SaveUser(r)
        PROVE  Core'
    <2>1. r.id \in Users /\ r.row \in UserRow
      BY <1>0, <1>3, RequestKind DEF SaveUserRequest
    <2>2. /\ r.id \in used
          /\ r.row.role = user[r.id].role
          /\ RowOK(r.row, home[r.id])
      BY <1>0, <1>3 DEF ReadOK
    <2>3. /\ live' = live \cup {r.id} /\ used' = used \cup {r.id}
          /\ user' = [user EXCEPT ![r.id] = r.row]
          /\ FK(r.row.org) /\ FK(r.row.branch)
          /\ UNCHANGED <<parent, contract, home, moved>>
          /\ revived' = revived \cup ({r.id} \ live)
          /\ inflight' \subseteq inflight
      BY <1>3 DEF SaveUser, Insert, Answer
    <2>4. home' = [home EXCEPT ![r.id] = home[r.id]] /\ home[r.id] \in Orgs \cup {NULL}
      BY <2>1, <2>3 DEF TypeOK
    <2>5. /\ revived \subseteq revived' /\ revived' \subseteq Ids
          /\ r.id \in live \cup revived'
      BY <2>1, <2>3 DEF TypeOK, Ids
    <2> QED
      BY <2>1, <2>2, <2>3, <2>4, <2>5, WriteUser
  <1> QED
    BY <1>1, <1>2, <1>3

\* Requests of blocks.service.ts and apartments.service.ts that insert rows.
LEMMA RowWriteStep ==
    ASSUME Core, NEW r \in inflight,
           \/ /\ r.op = "insertBlock"
              /\ \E k \in Blocks, A \in SUBSET Apartments : InsertBlock(r, k, A)
           \/ /\ r.op = "insertApartments"
              /\ \E A \in SUBSET Apartments : InsertApartments(r, A)
    PROVE  Core'
  <1> USE TenancyAssumption DEF Core
  <1>0. r \in Request /\ ReadOK(r) /\ Entitled(r)
    BY DEF TypeOK
  <1>1. ASSUME r.op = "insertBlock", NEW k \in Blocks, NEW A \in SUBSET Apartments,
               InsertBlock(r, k, A)
        PROVE  Core'
    <2> DEFINE S == {k} \cup A
    <2>1. r.branch \in Branches /\ parent[r.branch] # NULL
      BY <1>0, <1>1, RequestKind DEF BlockRequest, ReadOK
    <2>2. /\ S \in SUBSET (Blocks \cup Apartments) /\ S \cap used = {}
          /\ Insert(S) /\ UNCHANGED <<user, contract, history>>
          /\ inflight' \subseteq inflight
          /\ parent' = [i \in Ids |-> IF i = k THEN r.branch
                                      ELSE IF i \in A THEN k ELSE parent[i]]
      BY <1>1 DEF InsertBlock, Fresh, Answer
    <2>3. parent' \in [Ids -> Ids \cup {NULL}]
      BY <2>1, <2>2 DEF TypeOK, Ids
    <2>4. /\ \A i \in Ids \ S : parent'[i] = parent[i]
          /\ parent'[k] = r.branch /\ parent'[r.branch] = parent[r.branch]
          /\ \A p \in A : parent'[p] = k
      BY <2>1, <2>2 DEF Ids
    <2>5. \A i \in S : \/ /\ i \in Blocks
                          /\ parent'[i] \in Branches /\ parent'[parent'[i]] # NULL
                       \/ /\ i \in Apartments
                          /\ parent'[i] \in Blocks /\ parent'[parent'[i]] # NULL
      BY <2>1, <2>4 DEF Ids
    <2> QED
      BY <2>2, <2>3, <2>4, <2>5, InsertRows
  <1>2. ASSUME r.op = "insertApartments", NEW A \in SUBSET Apartments,
               InsertApartments(r, A)
        PROVE  Core'
    <2>1. r.block \in Blocks /\ parent[r.block] # NULL
      BY <1>0, <1>2, RequestKind DEF ApartmentRequest, ReadOK
    <2>2. /\ A \in SUBSET (Blocks \cup Apartments) /\ A \cap used = {}
          /\ Insert(A) /\ UNCHANGED <<user, contract, history>>
          /\ inflight' \subseteq inflight
          /\ parent' = [i \in Ids |-> IF i \in A THEN r.block ELSE parent[i]]
      BY <1>2 DEF InsertApartments, Fresh, Answer
    <2>3. parent' \in [Ids -> Ids \cup {NULL}]
      BY <2>1, <2>2 DEF TypeOK, Ids
    <2>4. /\ \A i \in Ids \ A : parent'[i] = parent[i]
          /\ parent'[r.block] = parent[r.block]
          /\ \A p \in A : parent'[p] = r.block
      BY <2>1, <2>2 DEF Ids
    <2>5. \A i \in A : /\ i \in Apartments
                       /\ parent'[i] \in Blocks /\ parent'[parent'[i]] # NULL
      BY <2>1, <2>4
    <2> QED
      BY <2>2, <2>3, <2>4, <2>5, InsertRows
  <1> QED
    BY <1>1, <1>2

\* bulkAssignBranch records the blocks that change organization.
LEMMA AssignStep ==
    ASSUME Core, NEW r \in inflight, r.op = "assignBranch",
           NEW S \in SUBSET r.rows, CommitAssignBranch(r, S)
    PROVE  Core'
  <1> USE TenancyAssumption DEF Core
  <1>0. r \in AssignRequest /\ ReadOK(r)
    BY RequestKind DEF TypeOK
  <1>1. /\ r.target \in Branches /\ parent[r.target] # NULL
        /\ S \subseteq Blocks /\ S \subseteq live /\ S \subseteq Ids
        /\ parent' = [i \in Ids |-> IF i \in S THEN r.target ELSE parent[i]]
        /\ moved \subseteq moved' /\ moved' \subseteq Blocks
        /\ UNCHANGED <<live, used, user, contract, home, revived>>
        /\ inflight' \subseteq inflight
    BY <1>0 DEF CommitAssignBranch, AssignRequest, ReadOK, Answer, Ids, TypeOK
  <1>a. \A k \in S : OrgOfBlock(k) = parent[r.target] \/ k \in moved'
    <2> SUFFICES ASSUME NEW k \in S
                 PROVE  OrgOfBlock(k) = parent[r.target] \/ k \in moved'
      OBVIOUS
    <2>1. CASE r.actor.role = "superadmin"
      BY <2>1 DEF CommitAssignBranch
    <2>2. CASE r.actor.role # "superadmin"
      <3>1. MayWriteBranch(r.actor, parent[k])
        BY DEF CommitAssignBranch
      <3>2. parent[k] \in Branches /\ parent[parent[k]] # NULL
        BY <1>1, LiveChain DEF OrgOfBlock, Ids
      <3>3. parent[parent[k]] = r.actor.org
        BY <1>0, <2>2, <3>1, <3>2 DEF MayWriteBranch, MayAdminister, ReadOK, RowOK, Ids
      <3>4. parent[r.target] = r.actor.org
        BY <1>0, <2>2 DEF ReadOK, AssignRequest
      <3> QED
        BY <3>3, <3>4 DEF OrgOfBlock
    <2> QED
      BY <2>1, <2>2
  <1>2. \A i \in Ids \ Blocks : parent'[i] = parent[i]
    BY <1>1
  <1>3. TypeOK'
    <2>1. parent' \in [Ids -> Ids \cup {NULL}]
      BY <1>1 DEF TypeOK, Ids
    <2> QED
      BY <1>1, <2>1 DEF TypeOK
  <1>4. \A k \in Blocks : parent[k] # NULL =>
             /\ parent'[k] \in Branches
             /\ parent'[parent'[k]] # NULL
             /\ OrgOfBlock(k)' = OrgOfBlock(k) \/ k \in moved'
    <2> SUFFICES ASSUME NEW k \in Blocks, parent[k] # NULL
                 PROVE  /\ parent'[k] \in Branches
                        /\ parent'[parent'[k]] # NULL
                        /\ OrgOfBlock(k)' = OrgOfBlock(k) \/ k \in moved'
      OBVIOUS
    <2>1. CASE k \in S
      <3>1. parent'[k] = r.target /\ parent'[r.target] = parent[r.target]
        BY <1>1, <1>2, <2>1 DEF Ids
      <3> QED
        BY <1>1, <1>a, <2>1, <3>1 DEF OrgOfBlock
    <2>2. CASE k \notin S
      <3>1. parent'[k] = parent[k] /\ parent[k] \in Branches /\ parent[parent[k]] # NULL
        BY <1>1, <2>2 DEF ChainOK, Ids
      <3>2. parent'[parent[k]] = parent[parent[k]]
        BY <1>2, <3>1 DEF Ids
      <3> QED
        BY <3>1, <3>2 DEF OrgOfBlock
    <2> QED
      BY <2>1, <2>2
  <1>5. \A k \in Blocks : parent'[k] # NULL => parent[k] # NULL
    BY <1>1 DEF ChainOK, Ids
  <1>6. ChainOK'
    <2>1. /\ \A o \in Orgs : parent'[o] = NULL
          /\ \A u \in Users : parent'[u] = NULL
          /\ \A b \in Branches \cup Clients \cup Contracts : parent'[b] \in Orgs \cup {NULL}
      BY <1>2 DEF ChainOK, Ids
    <2>2. \A p \in Apartments : parent'[p] # NULL =>
            parent'[p] \in Blocks /\ parent'[parent'[p]] # NULL
      BY <1>2, <1>4 DEF ChainOK, Ids
    <2>3. /\ \A i \in Ids : parent'[i] # NULL => i \in used'
          /\ \A i \in live' : i \in Orgs \cup Users \/ parent'[i] # NULL
          /\ \A u \in Users : home'[u] # NULL => u \in used'
      BY <1>1, <1>2, <1>4, <1>5 DEF ChainOK, TypeOK, Ids
    <2> QED
      BY <1>4, <1>5, <2>1, <2>2, <2>3 DEF ChainOK
  <1>7. Steady
    BY <1>1, <1>2, <1>4 DEF Steady, Ids
  <1>8. ContractsKept
    BY <1>1, <1>2 DEF ContractsKept, Ids
  <1>9. UsersOK'
    BY <1>1, <1>7, UsersKept
  <1>10. NoReturn
    BY <1>1 DEF NoReturn
  <1> QED
    BY <1>1, <1>3, <1>6, <1>7, <1>8, <1>9, <1>10, ContractsSteady, WriteStep

\* contracts.create: the seller's organization and the client's are checked
\* against what was read of the apartment, then the row is inserted.
LEMMA ContractWriteStep ==
    ASSUME Core, NEW r \in inflight,
           \/ /\ r.op = "checkContract"
              /\ \E c \in Clients, s \in Users \cup {NULL} : CheckContract(r, c, s)
           \/ /\ r.op = "saveContract"
              /\ \E x \in Contracts : SaveContract(r, x)
    PROVE  Core'
  <1> USE TenancyAssumption DEF Core
  <1>0. r \in Request /\ ReadOK(r) /\ Entitled(r)
    BY DEF TypeOK
  <1>1. ASSUME r.op = "checkContract", NEW c \in Clients, NEW s \in Users \cup {NULL},
               CheckContract(r, c, s)
        PROVE  Core'
    <2> DEFINE q == [op |-> "saveContract", actor |-> r.actor, apt |-> r.apt,
                     org |-> r.org, client |-> c, seller |-> s]
    <2>1. r \in CheckContractRequest
      BY <1>0, <1>1, RequestKind
    <2>2. q \in Request
      BY <2>1 DEF Request, CheckContractRequest, SaveContractRequest
    <2>3. s # NULL => home[s] = r.org
      <3>1. r.org # NULL
        BY <2>1 DEF CheckContractRequest, Ids
      <3>2. CASE r.actor.role = "staff"
        BY <1>0, <1>1, <3>2 DEF ReadOK, CheckContract, ValidSeller
      <3>3. CASE r.actor.role # "staff"
        BY <1>1, <3>1, <3>3 DEF CheckContract, UsersOK, RowOK, ValidSeller
      <3> QED
        BY <3>2, <3>3
    <2>4. ReadOK(q)
      BY <1>0, <1>1, <2>3 DEF ReadOK, CheckContract
    <2>5. Entitled(q)
      BY <1>1 DEF Entitled, Targets
    <2> QED
      BY <1>1, <2>2, <2>4, <2>5, AwaitStep DEF CheckContract
  <1>2. ASSUME r.op = "saveContract", NEW x \in Contracts, SaveContract(r, x)
        PROVE  Core'
    <2> DEFINE row == [apt |-> r.apt, client |-> r.client, seller |-> r.seller]
    <2>1. /\ r.apt \in Apartments /\ r.org \in Orgs /\ r.client \in Clients
          /\ r.seller \in Users \cup {NULL}
      BY <1>0, <1>2, RequestKind DEF SaveContractRequest
    <2>2. /\ x \notin used /\ Insert({x}) /\ x \in Ids
          /\ parent' = [parent EXCEPT ![x] = r.org]
          /\ contract' = [contract EXCEPT ![x] = row]
          /\ UNCHANGED <<user, home, moved, revived>>
          /\ inflight' \subseteq inflight
      BY <1>2 DEF SaveContract, Fresh, Answer, history, Ids
    <2>3. TypeOK'
      BY <2>1, <2>2 DEF TypeOK, Insert, ContractRow, Ids
    <2>4. ChainOK' /\ Steady
      <3>1. {x} \in SUBSET Ids /\ {x} \cap used = {}
        BY <2>2
      <3>2. /\ \A i \in Ids \ {x} : parent'[i] = parent[i]
            /\ \A i \in {x} : i \in Contracts /\ parent'[i] \in Orgs
        BY <2>1, <2>2 DEF TypeOK
      <3> QED
        BY <2>2, <2>3, <3>1, <3>2, InsertBelow
    <2>5. UsersOK'
      BY <2>2, <2>4, UsersKept DEF Insert
    <2>6. ReadOK(r)'
      BY <1>0, <2>3, <2>4, ReadSteady
    <2>7. ContractsOK'
      <3> SUFFICES ASSUME NEW y \in Contracts, parent'[y] # NULL
                   PROVE  /\ contract'[y].apt # NULL /\ contract'[y].client # NULL
                          /\ AtHome(contract[y].apt, parent[y])'
                          /\ parent'[contract'[y].client] = parent'[y]
                          /\ contract'[y].seller # NULL =>
                                home'[contract'[y].seller] = parent'[y]
        BY DEF ContractsOK
      <3>1. CASE y = x
        <4>1. contract'[y] = row /\ parent'[y] = r.org
          BY <2>2, <3>1 DEF TypeOK
        <4>2. /\ AtHome(r.apt, r.org)'
              /\ parent'[r.client] = r.org
              /\ r.seller # NULL => home'[r.seller] = r.org
          BY <1>2, <2>6 DEF ReadOK
        <4>3. AtHome(contract[y].apt, parent[y])'
          BY <4>1, <4>2 DEF AtHome
        <4> QED
          BY <2>1, <4>1, <4>2, <4>3 DEF Ids
      <3>2. CASE y # x
        <4>1. /\ contract'[y] = contract[y] /\ parent'[y] = parent[y] /\ y \in Ids
              /\ contract[y] \in ContractRow
          BY <2>2, <3>2 DEF TypeOK, Ids
        <4>2. /\ contract[y].apt # NULL /\ contract[y].client # NULL
              /\ AtHome(contract[y].apt, parent[y])
              /\ parent[contract[y].client] = parent[y]
              /\ contract[y].seller # NULL => home[contract[y].seller] = parent[y]
          BY <4>1 DEF ContractsOK
        <4>3. /\ contract[y].apt \in Apartments /\ contract[y].client \in Clients
              /\ contract[y].seller \in Users \cup {NULL} /\ parent[y] \in Orgs
          BY <4>1, <4>2 DEF ContractRow, ChainOK
        <4>4. AtHome(contract[y].apt, parent[y])'
          <5>1. /\ parent'[contract[y].apt] # NULL
                /\ \/ OrgOfApartment(contract[y].apt)' = parent[y]
                   \/ parent'[contract[y].apt] \in moved'
            BY <2>2, <4>1, <4>2, <4>3, AtHomeSteady, <2>3, <2>4 DEF AtHome
          <5> QED
            BY <4>1, <5>1 DEF AtHome
        <4> QED
          BY <2>4, <4>1, <4>2, <4>3, <4>4 DEF Steady, Ids
      <3> QED
        BY <3>1, <3>2
    <2>8. NoReturn
      BY <2>2 DEF NoReturn, Insert
    <2> QED
      BY <2>2, <2>3, <2>4, <2>5, <2>7, <2>8, WriteStep
  <1> QED
    BY <1>1, <1>2

\* The deletions at the end of requests, and a dropped request.
LEMMA DeleteRequestStep ==
    ASSUME Core, NEW r \in inflight,
           \/ r.op = "delete" /\ CommitDelete(r)
           \/ r.op = "removeBranch" /\ CommitRemoveBranch(r)
           \/ r.op = "removeOrg" /\ CommitRemoveOrganization(r)
           \/ Drop(r)
    PROVE  Core'
  <1> USE TenancyAssumption DEF Core
  <1>0. r \in Request /\ ReadOK(r) /\ Entitled(r)
    BY DEF TypeOK
  <1>1. CASE r.op = "delete" /\ CommitDelete(r)
    <2>1. r.rows \in SUBSET Ids /\ Root \notin r.rows
      BY <1>0, <1>1, RequestKind DEF DeleteRequest, ReadOK
    <2> QED
      BY <1>1, <2>1, DeleteStep DEF CommitDelete, Answer
  <1>2. CASE r.op = "removeBranch" /\ CommitRemoveBranch(r)
    <2> DEFINE D == {r.branch} \cup
              {x \in live \cap Contracts : parent[parent[contract[x].apt]] = r.branch}
    <2>1. D \in SUBSET Ids /\ Root \notin D
      BY <1>0, <1>2, RequestKind DEF RemoveBranchRequest, Ids
    <2>2. Delete(D) /\ UNCHANGED history /\ inflight' \subseteq inflight
      BY <1>2 DEF CommitRemoveBranch, Answer
    <2> QED
      BY <2>1, <2>2, DeleteStep
  <1>3. CASE r.op = "removeOrg" /\ CommitRemoveOrganization(r)
    <2> DEFINE D == r.rows \cup {r.org}
    <2>1. D \in SUBSET Ids /\ Root \notin D
      BY <1>0, <1>3, RequestKind DEF RemoveOrgRequest, ReadOK, Ids
    <2>2. Delete(D) /\ UNCHANGED history /\ inflight' \subseteq inflight
      BY <1>3 DEF CommitRemoveOrganization, Answer
    <2> QED
      BY <2>1, <2>2, DeleteStep
  <1>4. CASE Drop(r)
    BY <1>0, <1>4, AwaitStep DEF Drop, Answer
  <1> QED
    BY <1>1, <1>2, <1>3, <1>4

LEMMA InitCore == Init => Core
  <1> SUFFICES ASSUME Init
               PROVE  Core
    OBVIOUS
  <1> USE TenancyAssumption DEF Init
  <1>1. TypeOK
    BY DEF TypeOK, UserRow, ContractRow, Roles, Ids
  <1>2. ChainOK
    BY DEF ChainOK, Ids
  <1>3. UsersOK
    BY DEF UsersOK, RowOK, FK
  <1>4. ContractsOK
    BY DEF ContractsOK, Ids
  <1> QED
    BY <1>1, <1>2, <1>3, <1>4 DEF Core

LEMMA NextCore == Core /\ [Next]_vars => Core'
  <1> SUFFICES ASSUME Core, [Next]_vars
               PROVE  Core'
    OBVIOUS
  <1>1. ASSUME NEW a \in Actors, Call(a)
        PROVE  Core'
    <2>1. CASE OrganizationCall(a)
      <3>1. PICK o \in Orgs : \/ \E u \in Users : CreateOrganization(a, o, u)
                              \/ UpdateOrganization(a, o)
                              \/ RemoveOrganization(a, o)
        BY <2>1 DEF OrganizationCall
      <3>2. Root \in Users
        BY TenancyAssumption
      <3> QED
        BY <3>1, <3>2, OrganizationStep
    <2>2. CASE BranchCall(a)
      <3>1. PICK b \in Branches : \/ \E o \in Orgs : CreateBranch(a, o, b)
                                  \/ UpdateBranch(a, b)
                                  \/ RemoveBranch(a, b)
        BY <2>2 DEF BranchCall
      <3>2. \A o \in Orgs : CreateBranch(a, o, b) => Core'
        BY BranchStep
      <3>3. UpdateBranch(a, b) \/ RemoveBranch(a, b) => \E o : o \in Orgs
        BY LiveChain DEF UpdateBranch, RemoveBranch, Core
      <3> QED
        BY <3>1, <3>2, <3>3, BranchStep
    <2> QED
      BY <1>1, <2>1, <2>2, UserStep, BlockStep, ContractStep DEF Call
  <1>2. ASSUME NEW r \in inflight, Continue(r)
        PROVE  Core'
    BY <1>2, SaveStep, UserWriteStep, RowWriteStep, AssignStep,
       ContractWriteStep, DeleteRequestStep
       DEF Continue
  <1>3. CASE UNCHANGED vars
    BY <1>3 DEF vars, db, history, Core, TypeOK, ChainOK, UsersOK, ContractsOK,
           ReadOK, RowOK, AtHome, FK, OrgOfApartment, OrgOfBlock, Entitled, Targets, Owned
  <1> QED
    BY <1>1, <1>2, <1>3 DEF Next

\* Sellers are given to a contract once and taken when they are deleted.
LEMMA NextSellers ==
    ASSUME TypeOK, SellersOK, [Next]_vars
    PROVE  SellersOK'
  <1>1. ASSUME contract' = contract, live \subseteq live'
        PROVE  SellersOK'
    BY <1>1 DEF SellersOK, FK
  <1>2. ASSUME NEW D, Delete(D)
        PROVE  SellersOK'
    <2>1. /\ live' = live \ Cascade(D)
          /\ \A x \in Contracts : contract'[x].seller = SetNull(contract[x].seller, Cascade(D))
      BY <1>2 DEF Delete
    <2> QED
      BY <2>1 DEF SellersOK, FK, SetNull
  <1>3. ASSUME NEW a \in Actors, Call(a)
        PROVE  SellersOK'
    <2>1. CASE OrganizationCall(a)
      BY <1>1, <2>1 DEF OrganizationCall, CreateOrganization, UpdateOrganization,
         RemoveOrganization, Insert, Await, db
    <2>2. CASE BranchCall(a)
      BY <1>1, <2>2 DEF BranchCall, CreateBranch, UpdateBranch, RemoveBranch, Insert, Await, db
    <2>3. CASE UserCall(a)
      BY <1>1, <2>3 DEF UserCall, CreateUser, RemoveUsers, AdminChangePassword,
         UpdateScope, Await, db
    <2>4. CASE BlockCall(a)
      BY <1>1, <2>4 DEF BlockCall, CreateBlock, BulkAssignBranch, DuplicateBlock,
         UpdateBlock, RemoveBlock, CreateApartments, RemoveFloor, UpdateApartment,
         RemoveApartment, Await, db
    <2>5. CASE ContractCall(a)
      BY <1>1, <1>2, <2>5 DEF ContractCall, CreateClient, RemoveClients, BulkRemoveClients,
         CreateContract, RemoveContracts, Insert, Await, db
    <2> QED
      BY <1>3, <2>1, <2>2, <2>3, <2>4, <2>5 DEF Call
  <1>4. ASSUME NEW r \in inflight, Continue(r)
        PROVE  SellersOK'
    <2>1. CASE \E x \in Contracts : SaveContract(r, x)
      <3>1. PICK x \in Contracts : SaveContract(r, x)
        BY <2>1
      <3>2. /\ live \subseteq live'
            /\ r.seller = NULL \/ r.seller \in live'
            /\ contract' = [contract EXCEPT ![x] =
                 [apt |-> r.apt, client |-> r.client, seller |-> r.seller]]
        BY <3>1 DEF SaveContract, Insert, FK
      <3> QED
        BY <3>2 DEF SellersOK, FK, TypeOK
    <2>2. CASE \/ CommitDelete(r) \/ CommitRemoveBranch(r) \/ CommitRemoveOrganization(r)
      BY <1>2, <2>2 DEF CommitDelete, CommitRemoveBranch, CommitRemoveOrganization
    <2>3. CASE \/ Save(r) \/ SaveUser(r) \/ Drop(r)
               \/ \E S \in SUBSET r.rows : CommitAssignBranch(r, S)
               \/ \E c \in Clients, s \in Users \cup {NULL} : CheckContract(r, c, s)
      BY <1>1, <2>3 DEF Save, SaveUser, Drop, CommitAssignBranch, CheckContract, Insert, db
    <2>4. CASE \/ \E u \in Users : \E row : InsertUser(r, u, row)
               \/ \E k \in Blocks, A \in SUBSET Apartments : InsertBlock(r, k, A)
               \/ \E A \in SUBSET Apartments : InsertApartments(r, A)
      BY <1>1, <2>4 DEF InsertUser, InsertBlock, InsertApartments, Insert
    <2> QED
      BY <1>4, <2>1, <2>2, <2>3, <2>4 DEF Continue
  <1>5. CASE UNCHANGED vars
    BY <1>1, <1>5 DEF vars, db
  <1> QED
    BY <1>3, <1>4, <1>5 DEF Next

\* In every reachable state the tables are typed and consistent, and so is
\* whatever a request in flight carries.
THEOREM Consistent == Spec => []IInv
  <1>1. Init => IInv
    BY InitCore DEF IInv, SellersOK, Init, FK
  <1>2. IInv /\ [Next]_vars => IInv'
    BY NextCore, NextSellers DEF IInv, Core
  <1> QED
    BY <1>1, <1>2, PTL DEF Spec

THEOREM TypeCorrect == Spec => []TypeOK
  <1>1. IInv => TypeOK
    BY DEF IInv, Core
  <1> QED
    BY <1>1, Consistent, PTL

\* contracts.create and all that races with it keep every contract, its
\* client and its seller in one organization.
THEOREM ContractTenancyHolds == Spec => []ContractTenancy
  <1>1. IInv => ContractTenancy
    <2> SUFFICES ASSUME IInv, NEW x \in live \cap Contracts
                 PROVE  /\ parent[contract[x].client] = parent[x]
                        /\ contract[x].seller # NULL =>
                             user[contract[x].seller].org \in {NULL, parent[x]}
      BY DEF ContractTenancy
    <2>1. parent[x] # NULL /\ contract[x] \in ContractRow
      BY TenancyAssumption DEF IInv, Core, TypeOK, ChainOK
    <2> QED
      BY <2>1 DEF IInv, Core, ContractsOK, UsersOK, RowOK, ContractRow
  <1> QED
    BY <1>1, Consistent, PTL

\* A contract leaves the organization of its apartment only with a block
\* that a superadmin moved to another organization.
THEOREM ContractHomeHolds == Spec => []ContractHome
  <1>1. IInv => ContractHome
    BY TenancyAssumption DEF IInv, Core, ContractHome, ContractsOK, ChainOK, AtHome
  <1> QED
    BY <1>1, Consistent, PTL

\* ON DELETE RESTRICT stops organizations.remove only where a block was moved.
THEOREM RemovableUnlessMovedHolds == Spec => []RemovableUnlessMoved
  <1>1. IInv => RemovableUnlessMoved
    <2> SUFFICES ASSUME IInv, NEW o \in live \cap Orgs, Restricted(RowsOf(o))
                 PROVE  \E k \in moved \cap live : OrgOfBlock(k) = o
      BY DEF RemovableUnlessMoved
    <2> DEFINE D == RowsOf(o)
               gone == Cascade(D)
    <2>1. TypeOK /\ ChainOK /\ ContractsOK
      BY DEF IInv, Core
    <2>2. \A i \in D : i = o \/ i \in Users \/ (i \in live /\ parent[i] = o)
      BY DEF RowsOf
    <2>3. PICK x \in live \cap Contracts :
            /\ parent[x] # o
            /\ contract[x].apt \in gone \/ contract[x].client \in gone
      BY DEF Restricted, RowsOf, Cascade
    <2>4. /\ contract[x].client \in Clients /\ parent[contract[x].client] = parent[x]
          /\ contract[x].apt \in Apartments /\ AtHome(contract[x].apt, parent[x])
          /\ parent[x] \in Orgs
      BY <2>1, TenancyAssumption DEF TypeOK, ChainOK, ContractsOK, ContractRow, Ids
    \* What goes with the organization hangs on it.
    <2>5. ASSUME NEW i \in gone, i \notin Users \cup Orgs
          PROVE  i \in live /\ (parent[i] = o \/ parent[i] \in gone \ (Users \cup Orgs))
      <3>1. i \in D \/ (i \in live /\ parent[i] \in gone)
        BY DEF Cascade, Kids
      <3>2. ASSUME parent[i] \in gone \cap (Users \cup Orgs), i \in live
            PROVE  parent[i] = o
        <4>1. parent[i] \in Orgs
          BY <2>1, <2>5, <3>2, TenancyAssumption DEF TypeOK, ChainOK, Ids
        <4>2. parent[parent[i]] = NULL
          BY <2>1, <4>1 DEF ChainOK
        <4>3. NULL \notin gone
          BY <2>1, <2>2, TenancyAssumption DEF Cascade, Kids, TypeOK, Ids
        <4> QED
          BY <2>2, <3>2, <4>1, <4>2, <4>3, TenancyAssumption DEF Cascade, Kids, Ids
      <3> QED
        BY <2>2, <2>5, <3>1, <3>2, TenancyAssumption DEF Ids
    <2>6. contract[x].client \notin gone
      <3>1. parent[contract[x].client] \in Orgs \ {o}
        BY <2>3, <2>4
      <3> QED
        BY <2>4, <2>5, <3>1, TenancyAssumption DEF Ids
    <2> DEFINE p == contract[x].apt
               k == parent[p]
    <2>7. k \in Blocks /\ k \in gone
      BY <2>1, <2>3, <2>4, <2>5, <2>6, TenancyAssumption DEF AtHome, ChainOK, Ids
    <2>8. k \in live /\ parent[k] \in Branches /\ parent[k] \in gone
      BY <2>1, <2>5, <2>7, TenancyAssumption DEF ChainOK, TypeOK, Ids
    <2>9. OrgOfBlock(k) = o
      <3>1. parent[parent[k]] \in Orgs
        BY <2>1, <2>7, <2>8, TenancyAssumption DEF ChainOK, Ids
      <3> QED
        BY <2>5, <2>8, <3>1, TenancyAssumption DEF OrgOfBlock, Ids
    <2>10. k \in moved
      BY <2>3, <2>4, <2>9 DEF AtHome, OrgOfApartment, OrgOfBlock
    <2> QED
      BY <2>8, <2>9, <2>10
  <1> QED
    BY <1>1, Consistent, PTL

\* users.create, updateScope and saves of stale rows keep a user's branch in
\* the user's organization.
THEOREM StaffHomeHolds == Spec => []StaffHome
  <1>1. IInv => StaffHome
    BY DEF IInv, Core, StaffHome, UsersOK, RowOK, FK
  <1> QED
    BY <1>1, Consistent, PTL

\* No sequence of API calls, however interleaved, adds or removes a superadmin.
THEOREM SuperadminFixedHolds == Spec => []SuperadminFixed
  <1>1. IInv => SuperadminFixed
    BY TenancyAssumption DEF IInv, Core, SuperadminFixed, UsersOK
  <1> QED
    BY <1>1, Consistent, PTL

\* What a request of a tenant is about to write is still his, although it was
\* checked earlier, unless its block was moved or a stale save revived it.
THEOREM AuthorizedHolds == Spec => []Authorized
  <1>1. IInv => Authorized
    <2> SUFFICES ASSUME IInv, NEW r \in inflight,
                        r.actor.role # "superadmin", r.actor.org # NULL,
                        NEW t \in (Targets(r) \cap live) \ (Users \cap revived)
                 PROVE  BelongsTo(t, r.actor.org)
      BY DEF Authorized
    <2>1. Owned(t, r.actor.org) /\ t \in Ids
      BY DEF IInv, Core, Entitled, TypeOK
    <2> QED
      BY <2>1, TenancyAssumption DEF BelongsTo, Owned, AtHome, Ids
  <1> QED
    BY <1>1, Consistent, PTL
-----------------------------------------------------------------------------
(* Isolation of tenants. *)

LEMMA Belongs ==
    ASSUME NEW t \in Ids, NEW o \in Orgs, Owned(t, o)
    PROVE  BelongsTo(t, o)
  BY TenancyAssumption DEF BelongsTo, Owned, AtHome, Ids

\* What goes with the rows of a tenant is the tenant's: blocks and apartments by
\* the cascade, users that lose their branch, contracts that lose their seller.
LEMMA DeleteOwn ==
    ASSUME IInv, NEW o \in Orgs, NEW D \in SUBSET Ids, Delete(D),
           \A t \in D : \/ Owned(t, o)
                        \/ t \in Users \ (live \ revived)
                        \/ t \in Contracts \cap live /\ parent[contract[t].apt] \in moved
    PROVE  Foreign(o) = {}
  <1> USE TenancyAssumption DEF IInv, Core
  <1> DEFINE gone == Cascade(D)
  <1>1. /\ live' = live \ gone /\ parent' = parent
        /\ \A u \in Users : user'[u] =
              [role |-> user[u].role, org |-> SetNull(user[u].org, gone),
               branch |-> SetNull(user[u].branch, gone)]
        /\ \A x \in Contracts : contract'[x] =
              [apt |-> contract[x].apt, client |-> contract[x].client,
               seller |-> SetNull(contract[x].seller, gone)]
    BY DEF Delete
  <1>2. \A t \in D : t \notin Orgs /\ (t \notin Users \cup Contracts => Owned(t, o))
    BY DEF Owned, Ids
  <1>3. \A i \in live : /\ i \in Branches \cup Clients \cup Contracts => parent[i] \in Orgs
                        /\ i \in Blocks => parent[i] \in Branches
                        /\ i \in Apartments => parent[i] \in Blocks
                        /\ i \in Orgs \cup Users => parent[i] = NULL
                        /\ i \in Ids
    BY LiveChain DEF ChainOK, Ids
  <1>4. \A i \in Kids(D) : (i \in Blocks \/ i \in Apartments) /\ Owned(i, o) /\ i \in live
    <2>1. SUFFICES ASSUME NEW i \in live, parent[i] \in D
                   PROVE  (i \in Blocks \/ i \in Apartments) /\ Owned(i, o)
      BY DEF Kids
    <2>2. i \in Blocks \/ i \in Apartments
      BY <1>2, <1>3, <2>1 DEF Ids
    <2>3. Owned(parent[i], o) /\ parent[i] # NULL
      BY <1>2, <1>3, <2>1, <2>2 DEF Ids
    <2>4. CASE i \in Blocks
      BY <1>3, <2>3, <2>4 DEF Owned, OrgOfBlock, Ids
    <2>5. CASE i \in Apartments
      BY <1>3, <2>3, <2>5 DEF Owned, AtHome, OrgOfApartment, OrgOfBlock, Ids
    <2> QED
      BY <2>2, <2>4, <2>5
  <1>5. \A i \in Kids(D \cup Kids(D)) :
           i \in Kids(D) \/ (i \in Apartments /\ Owned(i, o) /\ i \in live)
    <2>1. SUFFICES ASSUME NEW i \in live, parent[i] \in Kids(D)
                   PROVE  i \in Apartments /\ Owned(i, o)
      BY DEF Kids
    <2>2. i \in Apartments /\ parent[i] \in Blocks /\ Owned(parent[i], o)
      BY <1>3, <1>4, <2>1 DEF Ids
    <2> QED
      BY <2>2 DEF Owned, AtHome, OrgOfApartment, OrgOfBlock, Ids
  <1>6. \A i \in gone : i \in D \/ (i \in Blocks \cup Apartments /\ Owned(i, o))
    <2> DEFINE c1 == D \cup Kids(D)
               c2 == c1 \cup Kids(c1)
    <2>1. gone = c2 \cup Kids(c2)
      BY DEF Cascade
    <2>2. \A i \in c2 : i \in D \/ (i \in Blocks \cup Apartments /\ Owned(i, o))
      BY <1>4, <1>5
    <2>3. ASSUME NEW i \in live, parent[i] \in c2
          PROVE  i \in Blocks \cup Apartments /\ Owned(i, o)
      <3>1. CASE parent[i] \in c1
        BY <1>4, <1>5, <2>3, <3>1 DEF Kids
      <3>2. CASE parent[i] \in Apartments
        BY <1>3, <2>3, <3>2 DEF Ids
      <3> QED
        BY <1>5, <2>3, <3>1, <3>2
    <2> QED
      BY <2>1, <2>2, <2>3 DEF Kids
  <1>7. SUFFICES ASSUME NEW i \in Written, ~ Escaped(i)
                 PROVE  i \in live /\ BelongsTo(i, o)
    BY DEF Foreign
  <1>8. i \in live /\ i \in Ids
    BY <1>1, <1>3 DEF Written
  <1>9. CASE i \in gone
    BY <1>6, <1>7, <1>8, <1>9, Belongs DEF Escaped
  <1>10. CASE i \in Users /\ user'[i] # user[i]
    <2>1. user[i] \in UserRow /\ RowOK(user[i], home[i])
      BY <1>10 DEF TypeOK, UsersOK
    <2>2. user[i].org \in gone \/ user[i].branch \in gone
      BY <1>1, <1>10, <2>1 DEF SetNull, UserRow
    <2>3. user[i].org \notin gone
      BY <1>2, <1>6, <2>1 DEF UserRow, Ids
    <2>4. user[i].branch \in D /\ user[i].branch \in Branches
      BY <1>6, <2>1, <2>2, <2>3 DEF UserRow, Ids
    <2>5. parent[user[i].branch] = o
      BY <1>2, <2>4 DEF Owned
    <2> QED
      BY <1>8, <1>10, <2>1, <2>4, <2>5 DEF RowOK, BelongsTo, Ids
  <1>11. CASE i \in Contracts /\ contract'[i] # contract[i]
    <2>1. contract[i] \in ContractRow /\ parent[i] # NULL
      BY <1>8, <1>11 DEF TypeOK, ChainOK
    <2>2. contract[i].seller \in gone /\ contract[i].seller \in Users
      BY <1>1, <1>6, <1>11, <2>1 DEF SetNull, ContractRow, Ids
    <2>3. contract[i].seller \in D /\ contract[i].seller \in live
      BY <1>6, <1>11, <2>2 DEF SellersOK, FK, Ids
    <2>4. Owned(contract[i].seller, o)
      BY <1>7, <1>8, <1>11, <2>2, <2>3 DEF Escaped
    <2>5. parent[i] = o
      BY <1>11, <2>1, <2>2, <2>4 DEF ContractsOK, Owned, Ids
    <2> QED
      BY <1>8, <1>11, <2>5 DEF BelongsTo, Ids
  <1> QED
    BY <1>1, <1>7, <1>8, <1>9, <1>10, <1>11 DEF Written
\* The writes that are not deletions, at the end of a tenant's request.
LEMMA WriteOwn ==
    ASSUME IInv, NEW r \in inflight, NEW o \in Orgs, ActsFor(r.actor, o),
           \/ r.op = "save" /\ Save(r)
           \/ r.op = "saveUser" /\ SaveUser(r)
           \/ r.op = "insertStaff" /\ \E u \in Users :
                InsertUser(r, u, [role |-> "staff", org |-> r.org, branch |-> r.branch])
           \/ r.op = "insertUser" /\ \E u \in Users : InsertUser(r, u, r.row)
           \/ r.op = "insertBlock" /\ \E k \in Blocks, A \in SUBSET Apartments : InsertBlock(r, k, A)
           \/ r.op = "assignBranch" /\ \E S \in SUBSET r.rows : CommitAssignBranch(r, S)
           \/ r.op = "insertApartments" /\ \E A \in SUBSET Apartments : InsertApartments(r, A)
           \/ r.op = "saveContract" /\ \E x \in Contracts : SaveContract(r, x)
    PROVE  Foreign(o) = {}
  <1> USE TenancyAssumption DEF IInv, Core
  <1>1. r \in Request /\ ReadOK(r) /\ Entitled(r)
    BY DEF TypeOK
  <1>2. r.actor \in Actor /\ r.actor.role # "superadmin" /\ r.actor.org = o /\ o # NULL
    BY <1>1, RequestKind DEF ActsFor, Ids
  <1>3. \A t \in Targets(r) : t \in used /\ (r.op # "delete" => Owned(t, o))
    BY <1>1, <1>2 DEF Entitled
  <1>4. live \subseteq used /\ used \subseteq Ids /\ parent \in [Ids -> Ids \cup {NULL}]
          /\ home \in [Users -> Orgs \cup {NULL}]
    BY DEF TypeOK
  <1>5. CASE r.op = "save" /\ Save(r)
    <2>1. r \in SaveRequest
      BY <1>1, <1>5, RequestKind
    <2>2. r.id \in Ids /\ Owned(r.id, o)
      BY <1>3, <1>4, <1>5 DEF Targets
    <2>3. BelongsTo(r.id, o)
      BY <2>2, Belongs
    <2>4. /\ live' = live \cup {r.id} /\ parent' = [parent EXCEPT ![r.id] = r.parent]
          /\ UNCHANGED <<user, contract, home, moved>>
      BY <1>5 DEF Save, Insert
    <2>5. BelongsTo(r.id, o)'
      <3>1. CASE r.id \in Blocks
        <4>1. /\ r.parent \in Branches
              /\ parent[r.parent] = OrgOfBlock(r.id) \/ r.id \in moved
          BY <1>1, <1>5, <3>1 DEF ReadOK
        <4>2. CASE r.id \in moved
          BY <2>4, <3>1, <4>2 DEF BelongsTo, Ids
        <4>3. CASE r.id \notin moved
          <5>1. r.parent \in Branches /\ parent[r.parent] = o
            BY <2>2, <3>1, <4>1, <4>3 DEF Owned
          <5>2. parent'[r.id] = r.parent /\ parent'[r.parent] = parent[r.parent]
            BY <1>4, <2>2, <2>4, <3>1, <5>1 DEF Ids
          <5> QED
            BY <3>1, <5>1, <5>2 DEF BelongsTo, OrgOfBlock, Ids
        <4> QED
          BY <4>2, <4>3
      <3>2. CASE r.id \notin Blocks
        <4>1. r.parent = parent[r.id]
          BY <1>1, <1>5, <3>2 DEF ReadOK
        <4>2. parent' = parent
          BY <1>4, <2>2, <2>4, <4>1
        <4> QED
          BY <2>3, <2>4, <4>2 DEF BelongsTo, OrgOfBlock, OrgOfApartment
      <3> QED
        BY <3>1, <3>2
    <2>6. Written \subseteq {r.id}
      BY <1>4, <2>4 DEF Written
    <2> QED
      BY <2>3, <2>5, <2>6 DEF Foreign
  <1>6. CASE r.op = "saveUser" /\ SaveUser(r)
    <2>1. r \in SaveUserRequest
      BY <1>1, <1>6, RequestKind
    <2>2. r.id \in Users /\ home[r.id] = o
      BY <1>3, <1>6, <2>1 DEF Targets, Owned, SaveUserRequest
    <2>3. /\ live' = live \cup {r.id} /\ user' = [user EXCEPT ![r.id] = r.row]
          /\ UNCHANGED <<parent, contract, home, moved>>
      BY <1>6 DEF SaveUser, Insert
    <2>4. Written \subseteq {r.id}
      BY <2>3 DEF Written, TypeOK
    <2> QED
      BY <2>2, <2>3, <2>4 DEF Foreign, BelongsTo, Ids
  <1>7. ASSUME NEW u \in Users, NEW row, InsertUser(r, u, row), row.org = o
        PROVE  Foreign(o) = {}
    <2>1. /\ live' = live \cup {u} /\ u \notin used /\ user' = [user EXCEPT ![u] = row]
          /\ home' = [home EXCEPT ![u] = row.org]
          /\ UNCHANGED <<parent, contract>>
      BY <1>7 DEF InsertUser, Insert, Fresh
    <2>2. Written \subseteq {u} /\ u \notin live
      BY <1>4, <2>1 DEF Written, TypeOK
    <2> QED
      BY <1>4, <1>7, <2>1, <2>2 DEF Foreign, BelongsTo, Ids
  <1>8. CASE r.op = "insertStaff" /\ \E u \in Users :
               InsertUser(r, u, [role |-> "staff", org |-> r.org, branch |-> r.branch])
    <2>1. r.org = o
      BY <1>1, <1>3, <1>8, RequestKind DEF Targets, Owned, ReadOK, StaffRequest
    <2> QED
      BY <1>7, <1>8, <2>1
  <1>9. CASE r.op = "insertUser" /\ \E u \in Users : InsertUser(r, u, r.row)
    BY <1>1, <1>2, <1>7, <1>9 DEF Entitled
  <1>10. ASSUME r.op = "insertBlock", NEW k \in Blocks, NEW A \in SUBSET Apartments,
                InsertBlock(r, k, A)
         PROVE  Foreign(o) = {}
    <2>1. r.branch \in Branches /\ parent[r.branch] = o
      BY <1>1, <1>3, <1>10, RequestKind DEF Targets, Owned, BlockRequest
    <2>2. /\ live' = live \cup {k} \cup A /\ k \notin used /\ A \cap used = {}
          /\ UNCHANGED <<user, contract>>
          /\ parent' = [i \in Ids |-> IF i = k THEN r.branch
                                      ELSE IF i \in A THEN k ELSE parent[i]]
      BY <1>10 DEF InsertBlock, Insert, Fresh
    <2>3. /\ parent'[k] = r.branch /\ parent'[r.branch] = o
          /\ \A p \in A : parent'[p] = k
      BY <2>1, <2>2 DEF Ids
    <2>4. Written \subseteq {k} \cup A /\ live \cap ({k} \cup A) = {}
      BY <1>4, <2>2 DEF Written
    <2>5. BelongsTo(k, o)' /\ \A p \in A : BelongsTo(p, o)'
      BY <2>3 DEF BelongsTo, OrgOfBlock, OrgOfApartment, Ids
    <2> QED
      BY <2>4, <2>5 DEF Foreign
  <1>11. ASSUME r.op = "assignBranch", NEW S \in SUBSET r.rows, CommitAssignBranch(r, S)
         PROVE  Foreign(o) = {}
    <2>1. r.rows \subseteq Blocks
      BY <1>1, <1>11, RequestKind DEF AssignRequest
    <2>2. /\ S \subseteq live /\ UNCHANGED <<live, user, contract>>
          /\ parent' = [i \in Ids |-> IF i \in S THEN r.target ELSE parent[i]]
          /\ \A k \in S : MayWriteBranch(r.actor, parent[k])
      BY <1>11 DEF CommitAssignBranch
    <2>3. Written \subseteq S
      BY <1>4, <2>2 DEF Written
    <2>4. ASSUME NEW k \in S
          PROVE  k \in live /\ BelongsTo(k, o)
      <3>1. RowOK(r.actor, home[r.actor.id]) /\ k \in Blocks /\ k \in live
        BY <1>1, <2>1, <2>2 DEF ReadOK
      <3>2. Owned(k, o)
        BY <1>2, <2>2, <3>1, OwnBlock
      <3> QED
        BY <1>4, <3>1, <3>2, Belongs
    <2> QED
      BY <2>3, <2>4 DEF Foreign
  <1>12. ASSUME r.op = "insertApartments", NEW A \in SUBSET Apartments, InsertApartments(r, A)
         PROVE  Foreign(o) = {}
    <2>1. /\ r.block \in Blocks /\ parent[r.block] # NULL
          /\ OrgOfBlock(r.block) = o \/ r.block \in moved
      BY <1>1, <1>3, <1>12, RequestKind DEF Targets, Owned, ApartmentRequest
    <2>2. /\ live' = live \cup A /\ A \cap used = {}
          /\ UNCHANGED <<user, contract, moved>>
          /\ parent' = [i \in Ids |-> IF i \in A THEN r.block ELSE parent[i]]
      BY <1>12 DEF InsertApartments, Insert, Fresh, history
    <2>3. parent[r.block] \in Branches
      BY <2>1 DEF ChainOK
    <2>4. /\ parent'[r.block] = parent[r.block]
          /\ parent'[parent[r.block]] = OrgOfBlock(r.block)
          /\ \A p \in A : parent'[p] = r.block
      BY <2>1, <2>2, <2>3 DEF Ids, OrgOfBlock
    <2>5. Written \subseteq A /\ live \cap A = {}
      BY <1>4, <2>2 DEF Written
    <2>6. \A p \in A : BelongsTo(p, o)'
      BY <2>1, <2>2, <2>4 DEF BelongsTo, OrgOfBlock, OrgOfApartment, Ids
    <2> QED
      BY <2>5, <2>6 DEF Foreign
  <1>13. ASSUME r.op = "saveContract", NEW x \in Contracts, SaveContract(r, x)
         PROVE  Foreign(o) = {}
    <2>1. r.org = o
      BY <1>1, <1>2, <1>13 DEF Entitled
    <2>2. /\ live' = live \cup {x} /\ x \notin used /\ user' = user
          /\ parent' = [parent EXCEPT ![x] = r.org]
          /\ \A y \in Contracts \ {x} : contract'[y] = contract[y]
      BY <1>13 DEF SaveContract, Insert, Fresh, TypeOK
    <2>3. Written \subseteq {x} /\ x \notin live /\ x \in Ids
      BY <1>4, <2>2 DEF Written, Ids
    <2>4. BelongsTo(x, o)'
      BY <1>4, <2>1, <2>2, <2>3 DEF BelongsTo, Ids
    <2> QED
      BY <2>3, <2>4 DEF Foreign
  <1> QED
    BY <1>5, <1>6, <1>8, <1>9, <1>10, <1>11, <1>12, <1>13

\* A statement of a tenant's request writes rows of his organization only.
LEMMA ContinueOwn ==
    ASSUME IInv, NEW r \in inflight, NEW o \in Orgs, ActsFor(r.actor, o), Continue(r)
    PROVE  Foreign(o) = {}
  <1> USE TenancyAssumption DEF IInv, Core
  <1>1. r \in Request /\ ReadOK(r) /\ Entitled(r)
    BY DEF TypeOK
  <1>2. r.actor.role # "superadmin" /\ r.actor.org = o /\ o # NULL
    BY DEF ActsFor, Ids
  <1>3. CASE r.op = "delete" /\ CommitDelete(r)
    <2>1. r.rows \in SUBSET Ids /\ Delete(r.rows)
      BY <1>1, <1>3, RequestKind DEF DeleteRequest, CommitDelete
    <2>2. \A t \in r.rows : Owned(t, o) \/ t \in Users \ (live \ revived)
      BY <1>1, <1>2, <1>3 DEF Entitled, Targets
    <2> QED
      BY <2>1, <2>2, DeleteOwn
  <1>4. CASE r.op = "removeBranch" /\ CommitRemoveBranch(r)
    <2> DEFINE X == {x \in live \cap Contracts : parent[parent[contract[x].apt]] = r.branch}
    <2>1. r.branch \in Branches /\ r.branch \in Ids /\ Owned(r.branch, o)
      BY <1>1, <1>2, <1>4, RequestKind DEF RemoveBranchRequest, Entitled, Targets, Ids
    <2>2. Delete({r.branch} \cup X) /\ {r.branch} \cup X \in SUBSET Ids
      BY <1>4, <2>1 DEF CommitRemoveBranch, Ids
    <2>3. ASSUME NEW x \in X
          PROVE  Owned(x, o) \/ (x \in Contracts \cap live /\ parent[contract[x].apt] \in moved)
      <3>1. parent[x] # NULL /\ x \in Contracts \cap live
        BY DEF ChainOK, Ids
      <3>2. OrgOfApartment(contract[x].apt) = parent[x] \/ parent[contract[x].apt] \in moved
        BY <3>1 DEF ContractsOK, AtHome
      <3>3. OrgOfApartment(contract[x].apt) = o
        BY <2>1, <2>3 DEF OrgOfApartment, OrgOfBlock, Owned
      <3> QED
        BY <3>1, <3>2, <3>3 DEF Owned, Ids
    <2> HIDE DEF X
    <2> QED
      BY <2>1, <2>2, <2>3, DeleteOwn
  <1>5. r.op # "removeOrg"
    BY <1>1, <1>2 DEF Entitled
  <1>6. CASE Drop(r) \/ \E c \in Clients, s \in Users \cup {NULL} : CheckContract(r, c, s)
    <2>1. UNCHANGED db
      BY <1>6 DEF Drop, CheckContract
    <2> QED
      BY <2>1 DEF db, Foreign, Written
  <1> QED
    BY <1>3, <1>4, <1>5, <1>6, WriteOwn DEF Continue

\* A call of a tenant that writes at once writes rows of his organization only.
LEMMA CallOwn ==
    ASSUME IInv, NEW a, NEW o \in Orgs, ActsFor(a, o), Call(a)
    PROVE  Foreign(o) = {}
  <1> USE TenancyAssumption DEF IInv, Core
  <1>1. a.role # "superadmin" /\ a.org = o /\ o # NULL
    BY DEF ActsFor, Ids
  <1>2. live \subseteq used /\ used \subseteq Ids /\ parent \in [Ids -> Ids \cup {NULL}]
    BY DEF TypeOK
  <1>3. ASSUME UNCHANGED db
        PROVE  Foreign(o) = {}
    BY <1>3 DEF db, Foreign, Written
  <1>4. ASSUME NEW i \in Branches \cup Clients, i \notin live, UNCHANGED <<user, contract>>,
               live' = live \cup {i}, parent' = [parent EXCEPT ![i] = o]
        PROVE  Foreign(o) = {}
    <2>1. Written \subseteq {i} /\ i \in Ids
      BY <1>2, <1>4 DEF Written, Ids
    <2>2. BelongsTo(i, o)'
      BY <1>2, <1>4, <2>1 DEF BelongsTo, Ids
    <2> QED
      BY <1>4, <2>1, <2>2 DEF Foreign
  <1>5. ASSUME NEW O, BulkRemoveClients(a, O)
        PROVE  Foreign(o) = {}
    <2> DEFINE D == {c \in live \cap Clients : parent[c] \in O}
    <2>1. O = {o} /\ Delete(D)
      BY <1>1, <1>5 DEF BulkRemoveClients
    <2>2. D \in SUBSET Ids /\ \A t \in D : Owned(t, o)
      BY <2>1 DEF Owned, Ids
    <2> HIDE DEF D
    <2> QED
      BY <2>1, <2>2, DeleteOwn
  <1>6. CASE OrganizationCall(a)
    BY <1>1, <1>6 DEF OrganizationCall, CreateOrganization, UpdateOrganization,
       RemoveOrganization
  <1>7. CASE BranchCall(a)
    <2>1. ASSUME NEW b \in Branches, NEW q \in Orgs, CreateBranch(a, q, b)
          PROVE  Foreign(o) = {}
      BY <1>1, <1>2, <1>4, <2>1 DEF CreateBranch, MayAdminister, Insert, Fresh
    <2> QED
      BY <1>3, <1>7, <2>1 DEF BranchCall, UpdateBranch, RemoveBranch, Await
  <1>8. CASE UserCall(a)
    BY <1>3, <1>8 DEF UserCall, CreateUser, RemoveUsers, AdminChangePassword,
       UpdateScope, Await
  <1>9. CASE BlockCall(a)
    BY <1>3, <1>9 DEF BlockCall, CreateBlock, BulkAssignBranch, DuplicateBlock,
       UpdateBlock, RemoveBlock, CreateApartments, RemoveFloor, UpdateApartment,
       RemoveApartment, Await
  <1>10. CASE ContractCall(a)
    <2>1. ASSUME NEW q \in Orgs, NEW c \in Clients, CreateClient(a, q, c)
          PROVE  Foreign(o) = {}
      BY <1>1, <1>2, <1>4, <2>1 DEF CreateClient, MayUseClients, Insert, Fresh
    <2> QED
      BY <1>3, <1>5, <1>10, <2>1 DEF ContractCall, RemoveClients, CreateContract,
         RemoveContracts, Await
  <1> QED
    BY <1>6, <1>7, <1>8, <1>9, <1>10 DEF Call

\* No step of a tenant's user writes a row of another organization, whatever
\* races, cascades and stale copies he runs into, but for blocks that changed
\* hands with the contracts on them and for users that came back.
THEOREM IsolationHolds == Spec => Isolation
  <1>1. IInv => [\A o \in Orgs : Foreign(o) # {} =>
                   \A a \in Actors \cup {r.actor : r \in inflight} :
                      ActsFor(a, o) => ~ Step(a)]_vars
    BY CallOwn, ContinueOwn DEF Step
  <1> QED
    BY <1>1, Consistent, PTL DEF Isolation
=============================================================================
