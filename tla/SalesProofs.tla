---------------------------- MODULE SalesProofs ----------------------------
(***************************************************************************)
(* What Sales promises, for any number of apartments, users and requests.  *)
(*                                                                         *)
(* The copies that requests carry are never checked again, so the          *)
(* invariant keeps what their checks established: a copy credits somebody  *)
(* Credible, which nobody ceases to be; its status was asked for, or the   *)
(* copy is the row that was loaded; and an event still to be emitted has a *)
(* status that the apartment has had, the one it has unless saves crossed. *)
(***************************************************************************)
EXTENDS Sales, TLAPS

RowsOK ==
    /\ \A a \in live : row[a].status \in stored[a]
    /\ \A a \in Apartments : row[a].seller \in (users \cap Credible) \cup {NULL}

RequestOK(r) ==
    /\ r.op = "save" =>
         /\ r.row.seller \in Credible \cup {NULL}
         /\ IF r.asked = NULL THEN r.row = r.loaded ELSE r.row.status = r.asked
    /\ r.op \in {"delete", "emit"} => r.status \in stored[r.apt]

EventsOK ==
    /\ \A a \in live \ crossed : \A r \in inflight :
          (r.op = "emit" /\ r.apt = a) => r.status = row[a].status
    /\ \A a \in Apartments : stored[a] = {} =>
          told[a] = NULL \/ (a \in early /\ told[a] = "for_sale")

IInv ==
    /\ TypeOK
    /\ RowsOK
    /\ ToldWasStored
    /\ EventsOK
    /\ LastTold
    /\ \A r \in inflight : RequestOK(r)

\* The kind of a request decides its record type.
LEMMA RequestKind ==
    ASSUME NEW r \in Request
    PROVE  /\ r.apt \in Apartments
           /\ r.op = "save" => r \in SaveRequest
           /\ r.op \in {"contract", "commitClone"} => r \in AptRequest
           /\ r.op \in {"delete", "emit"} => r \in StatusRequest
  BY DEF Request, SaveRequest, AptRequest, StatusRequest

\* Nobody ceases to be credible.
LEMMA CredibleKept ==
    ASSUME homes \subseteq homes', orgs' \subseteq orgs
    PROVE  Credible \subseteq Credible'
  BY DEF Credible

\* A status once stored stays in the history, so requests stay good.
LEMMA RequestsKept ==
    ASSUME NEW r \in Request, RequestOK(r), Credible \subseteq Credible',
           \A a \in Apartments : stored[a] \subseteq stored'[a]
    PROVE  RequestOK(r)'
  BY RequestKind DEF RequestOK

\* Steps that leave alone what is told and stored of the apartments that
\* exist, and their events.
LEMMA EventsKept ==
    ASSUME EventsOK, LastTold, live' \subseteq live, crossed' = crossed,
           \A a \in live' : row'[a].status = row[a].status,
           told' = told, stored' = stored, early' = early,
           \A r : (r.op = "emit" /\ r.apt \in live') =>
                    (r \in inflight' <=> r \in inflight)
    PROVE  EventsOK' /\ LastTold'
  BY DEF EventsOK, LastTold

\* A step that leaves the tables alone and adds one good request.
LEMMA AwaitStep ==
    ASSUME IInv, NEW r \in Request, RequestOK(r), r.op # "emit", Await(r)
    PROVE  IInv'
  <1>1. TypeOK' /\ RowsOK' /\ ToldWasStored'
    BY DEF IInv, TypeOK, RowsOK, Credible, ToldWasStored, Await, db, history
  <1>2. \A q \in inflight' : RequestOK(q)'
    BY DEF IInv, Await, db, history, RequestOK, Credible
  <1>3. EventsOK' /\ LastTold'
    BY EventsKept DEF IInv, Await, db, history
  <1> QED
    BY <1>1, <1>2, <1>3 DEF IInv

\* Whoever an apartment's writer may name is credible.
LEMMA NamedIsCredible ==
    ASSUME TypeOK, NEW u \in Users, MayWrite(u), NEW v \in MayName(u)
    PROVE  v \in Credible \cup {NULL}
  <1> USE SalesAssumption
  <1>1. CASE Org(u) = house
    BY <1>1 DEF TypeOK, Org, MayName, Credible, Users
  <1>2. CASE u \in Supers
    <2>1. Org(u) = NULL /\ u \notin Staff
      BY <1>2 DEF Org
    <2>2. v = NULL \/ (v \in users /\ Org(v) = NULL)
      BY <2>1 DEF MayName
    <2>3. ASSUME v \in users, Org(v) = NULL, v \in Staff \cup Admins
          PROVE  OrgOf[v] \notin orgs
      BY <2>3 DEF Org
    <2> QED
      BY <2>2, <2>3 DEF Credible, TypeOK, Users
  <1> QED
    BY <1>1, <1>2 DEF MayWrite

\* A new row of an unused id, told of already by cloneFromFloor or not yet.
LEMMA InsertStep ==
    ASSUME IInv, NEW a \in Apartments, NEW st \in Status, stored[a] = {},
           told[a] \in {NULL, st}, Put(a, [status |-> st, seller |-> NULL]),
           told' = told, early' = early, crossed' = crossed, inflight' \subseteq Request,
           \A r \in inflight' \ inflight : r = EmitOf(a, st),
           \A r \in inflight \ inflight' : r.op # "emit"
    PROVE  IInv'
  <1> USE SalesAssumption
  <1> DEFINE q == EmitOf(a, st)
  <1>1. /\ live' = live \cup {a} /\ lost' = lost /\ users' = users /\ orgs' = orgs
        /\ house' = house /\ contract' = contract /\ homes' = homes
        /\ row' = [row EXCEPT ![a] = [status |-> st, seller |-> NULL]]
        /\ stored' = [stored EXCEPT ![a] = stored[a] \cup {st}]
    BY DEF Put
  <1>2. TypeOK' /\ RowsOK' /\ ToldWasStored'
    BY <1>1 DEF IInv, TypeOK, RowsOK, Credible, ToldWasStored, Row
  <1>3. \A b \in Apartments : stored[b] \subseteq stored'[b]
    BY <1>1 DEF IInv, TypeOK
  <1>4. Credible \subseteq Credible'
    BY <1>1, CredibleKept
  <1>5. RequestOK(q)'
    BY <1>1 DEF RequestOK, EmitOf, IInv, TypeOK
  <1>6. \A r \in inflight' : RequestOK(r)'
    BY <1>3, <1>4, <1>5, RequestsKept DEF IInv, TypeOK
  <1>7. a \notin live /\ \A r \in inflight : ~(r.op = "emit" /\ r.apt = a)
    BY DEF IInv, RowsOK, RequestOK
  <1>8. row'[a].status = st /\ q.status = st /\ q.apt = a
    BY <1>1 DEF EmitOf, IInv, TypeOK
  <1>9. \A b \in Apartments \ {a} : row'[b] = row[b] /\ stored'[b] = stored[b]
    BY <1>1 DEF IInv, TypeOK
  <1>10. EventsOK'
    <2>1. ASSUME NEW b \in live' \ crossed', NEW r \in inflight', r.op = "emit", r.apt = b
          PROVE  r.status = row'[b].status
      <3>1. CASE b = a
        BY <1>7, <1>8, <2>1, <3>1
      <3>2. CASE b # a
        BY <1>1, <1>8, <1>9, <2>1, <3>2 DEF IInv, EventsOK, TypeOK
      <3> QED
        BY <3>1, <3>2
    <2>2. ASSUME NEW b \in Apartments, stored'[b] = {}
          PROVE  told'[b] = NULL \/ (b \in early' /\ told'[b] = "for_sale")
      BY <1>1, <1>9, <2>2 DEF IInv, EventsOK, TypeOK
    <2> QED
      BY <2>1, <2>2 DEF EventsOK
  <1>11. LastTold'
    <2>1. ASSUME NEW b \in live' \ crossed', b # a
          PROVE  \/ told'[b] \in {NULL, row'[b].status}
                 \/ \E r \in inflight' : r.op = "emit" /\ r.apt = b
      <3>1. b \in live \ crossed /\ b \in Apartments
        BY <1>1, <2>1 DEF IInv, TypeOK
      <3> QED
        BY <1>9, <2>1, <3>1 DEF IInv, LastTold
    <2>2. told'[a] \in {NULL, row'[a].status}
      BY <1>8
    <2> QED
      BY <2>1, <2>2 DEF LastTold
  <1> QED
    BY <1>2, <1>6, <1>10, <1>11 DEF IInv

\* Loading and checking.
LEMMA CallStep ==
    ASSUME IInv, NEW a \in Apartments, Call(a)
    PROVE  IInv'
  <1> USE SalesAssumption
  <1>0. /\ row[a] \in Row /\ row[a].status \in Status
        /\ row[a].seller \in Users \cup {NULL}
        /\ row[a].seller \in Credible \cup {NULL}
    BY DEF IInv, TypeOK, Row, RowsOK
  <1>a. ASSUME NEW s \in Status, NEW v \in Users \cup {NULL}, v \in Credible \cup {NULL},
               NEW asked \in Status \cup {NULL},
               IF asked = NULL THEN [status |-> s, seller |-> v] = row[a] ELSE s = asked
        PROVE  /\ SaveOf(a, s, v, asked) \in Request /\ RequestOK(SaveOf(a, s, v, asked))
               /\ SaveOf(a, s, v, asked).op # "emit"
    BY <1>0, <1>a DEF SaveOf, Request, SaveRequest, Row, RequestOK
  <1>1. ASSUME NEW u \in Users, NEW s \in Asked, NEW v \in Users \cup {NULL},
               ChangeStatus(u, a, s, v)
        PROVE  IInv'
    <2>1. v \in Credible \cup {NULL}
      BY <1>1, NamedIsCredible DEF ChangeStatus, IInv
    <2>2. /\ SaveOf(a, s, v, s) \in Request /\ RequestOK(SaveOf(a, s, v, s))
          /\ SaveOf(a, s, v, s).op # "emit"
      BY <1>a, <2>1
    <2> QED
      BY <1>1, <2>2, AwaitStep DEF ChangeStatus
  <1>2. ASSUME NEW u \in Users, NEW s \in Asked \cup {NULL}, Update(u, a, s)
        PROVE  IInv'
    <2> DEFINE st == Patched(row[a].status, s)
               r == SaveOf(a, st, row[a].seller, s)
    <2>1. st \in Status /\ s \in Status \cup {NULL}
      BY <1>0 DEF Patched
    <2>2. IF s = NULL THEN [status |-> st, seller |-> row[a].seller] = row[a] ELSE st = s
      BY <1>0 DEF Patched, Row
    <2>3. r \in Request /\ RequestOK(r) /\ r.op # "emit"
      BY <1>0, <1>a, <2>1, <2>2
    <2> QED
      BY <1>2, <2>3, AwaitStep DEF Update
  <1>3. ASSUME NEW s \in Asked, NEW v \in Users \cup {NULL},
               ChangeApartmentStatus(a, s, v)
        PROVE  IInv'
    <2>1. v \in Credible \cup {NULL}
      BY <1>3 DEF ChangeApartmentStatus, ShowroomMayName, Org, Credible, IInv, TypeOK
    <2>2. /\ SaveOf(a, s, v, s) \in Request /\ RequestOK(SaveOf(a, s, v, s))
          /\ SaveOf(a, s, v, s).op # "emit"
      BY <1>a, <2>1
    <2> QED
      BY <1>3, <2>2, AwaitStep DEF ChangeApartmentStatus
  <1>4. ASSUME NEW s \in Asked, SetApartmentSaleStatus(a, s)
        PROVE  IInv'
    <2>1. /\ SaveOf(a, s, NULL, s) \in Request /\ RequestOK(SaveOf(a, s, NULL, s))
          /\ SaveOf(a, s, NULL, s).op # "emit"
      BY <1>0, <1>a
    <2> QED
      BY <1>4, <2>1, AwaitStep DEF SetApartmentSaleStatus
  <1>5. ASSUME NEW u \in Users, Remove(u, a)
        PROVE  IInv'
    <2> DEFINE r == [op |-> "delete", apt |-> a, status |-> row[a].status]
    <2>1. row[a].status \in stored[a]
      BY <1>5 DEF Remove, IInv, RowsOK
    <2>2. r \in Request /\ RequestOK(r) /\ r.op # "emit"
      BY <1>0, <2>1 DEF Request, StatusRequest, RequestOK
    <2> QED
      BY <1>5, <2>2, AwaitStep DEF Remove
  <1>6. ASSUME NEW u \in Users, CreateContract(u, a)
        PROVE  IInv'
    <2> DEFINE r == [op |-> "contract", apt |-> a]
    <2>1. r \in Request /\ RequestOK(r) /\ r.op # "emit"
      BY DEF Request, AptRequest, RequestOK
    <2> QED
      BY <1>6, <2>1, AwaitStep DEF CreateContract
  <1>7. ASSUME NEW s \in Asked, Create(a, s) \/ CreateAndTell(a, s)
        PROVE  IInv'
    <2>1. EmitOf(a, s) \in Request
      BY DEF EmitOf, Request, StatusRequest
    <2>2. told[a] = NULL
      BY <1>7 DEF Create, CreateAndTell, Fresh, IInv, EventsOK
    <2>3. inflight' = inflight \/ inflight' = inflight \cup {EmitOf(a, s)}
      BY <1>7 DEF Create, CreateAndTell
    <2> QED
      BY <1>7, <2>1, <2>2, <2>3, InsertStep DEF Create, CreateAndTell, Fresh, IInv, TypeOK
  <1>8. ASSUME Clone(a)
        PROVE  IInv'
    <2> DEFINE r == [op |-> "commitClone", apt |-> a]
    <2>1. r \in Request /\ RequestOK(r)' /\ r.op # "emit"
      BY DEF Request, AptRequest, RequestOK
    <2>2. /\ live' = live /\ lost' = lost /\ row' = row /\ users' = users /\ orgs' = orgs
          /\ house' = house /\ contract' = contract /\ homes' = homes
          /\ stored' = stored /\ crossed' = crossed /\ early' = early \cup {a}
          /\ told' = [told EXCEPT ![a] = "for_sale"]
          /\ inflight' = inflight \cup {r}
          /\ stored[a] = {}
      BY <1>8 DEF Clone, Emit, db, Fresh
    <2>3. TypeOK' /\ RowsOK' /\ ToldWasStored'
      BY <2>1, <2>2 DEF IInv, TypeOK, RowsOK, Credible, ToldWasStored, Status
    <2>4. \A q \in inflight : RequestOK(q)'
      BY <2>2, RequestsKept, CredibleKept DEF IInv, TypeOK
    <2>5. a \notin live
      BY <2>2 DEF IInv, RowsOK
    <2>6. EventsOK' /\ LastTold'
      BY <2>1, <2>2, <2>5 DEF IInv, EventsOK, LastTold, TypeOK
    <2> QED
      BY <2>1, <2>2, <2>3, <2>4, <2>6 DEF IInv
  <1> QED
    BY <1>1, <1>2, <1>3, <1>4, <1>5, <1>6, <1>7, <1>8 DEF Call

\* Writing and telling.
LEMMA SaveStep ==
    ASSUME IInv, NEW r \in inflight, r.op = "save", Save(r)
    PROVE  IInv'
  <1> USE SalesAssumption
  <1> DEFINE q == EmitOf(r.apt, r.row.status)
  <1>0. /\ r \in Request /\ RequestOK(r) /\ r.apt \in Apartments
        /\ r \in SaveRequest /\ r.row \in Row /\ r.row.status \in Status
        /\ r.row.seller \in (users \cap Credible) \cup {NULL}
    BY RequestKind DEF SaveRequest, Row, Save, RequestOK, IInv, TypeOK
  <1>1. /\ live' = live \cup {r.apt} /\ lost' = lost /\ users' = users /\ orgs' = orgs
        /\ house' = house /\ contract' = contract /\ homes' = homes
        /\ row' = [row EXCEPT ![r.apt] = r.row]
        /\ stored' = [stored EXCEPT ![r.apt] = stored[r.apt] \cup {r.row.status}]
        /\ told' = told /\ early' = early
    BY DEF Save, Put
  <1>2. /\ inflight' \subseteq inflight \cup {q} /\ q \in inflight'
        /\ \A p \in inflight : p.op = "emit" => p \in inflight'
    BY DEF Save, Then, Rest
  <1>3. q \in Request /\ q.op = "emit" /\ q.apt = r.apt /\ q.status = r.row.status
    BY <1>0 DEF EmitOf, Request, StatusRequest
  <1>4. TypeOK' /\ RowsOK' /\ ToldWasStored'
    BY <1>0, <1>1, <1>2, <1>3 DEF IInv, TypeOK, RowsOK, Credible, ToldWasStored, Save
  <1>5. \A b \in Apartments : stored[b] \subseteq stored'[b]
    BY <1>1 DEF IInv, TypeOK
  <1>6. RequestOK(q)'
    BY <1>0, <1>1, <1>3 DEF RequestOK, IInv, TypeOK
  <1>7. \A p \in inflight' : RequestOK(p)'
    BY <1>1, <1>2, <1>5, <1>6, RequestsKept, CredibleKept DEF IInv, TypeOK
  <1>8. /\ row'[r.apt] = r.row
        /\ \A b \in Apartments \ {r.apt} : row'[b] = row[b] /\ stored'[b] = stored[b]
        /\ stored'[r.apt] # {}
    BY <1>0, <1>1 DEF IInv, TypeOK
  <1>9. ASSUME NEW b \in live' \ crossed', NEW p \in inflight', p.op = "emit", p.apt = b
        PROVE  p.status = row'[b].status
    <2>1. CASE b = r.apt
      <3>1. ~ \E e \in inflight : e.op = "emit" /\ e.apt = r.apt
        BY <1>9, <2>1 DEF Save
      <3> QED
        BY <1>2, <1>3, <1>8, <1>9, <2>1, <3>1
    <2>2. CASE b # r.apt
      <3>1. b \in live \ crossed /\ p \in inflight /\ b \in Apartments
        BY <1>1, <1>2, <1>3, <1>9, <2>2 DEF Save, IInv, TypeOK
      <3> QED
        BY <1>8, <1>9, <2>2, <3>1 DEF IInv, EventsOK
    <2> QED
      BY <2>1, <2>2
  <1>10. EventsOK'
    BY <1>1, <1>8, <1>9 DEF IInv, EventsOK, TypeOK
  <1>11. ASSUME NEW b \in live' \ crossed'
         PROVE  \/ told'[b] \in {NULL, row'[b].status}
                \/ \E p \in inflight' : p.op = "emit" /\ p.apt = b
    <2>1. CASE b = r.apt
      BY <1>2, <1>3, <2>1
    <2>2. CASE b # r.apt
      <3>1. b \in live \ crossed /\ b \in Apartments
        BY <1>1, <1>11, <2>2 DEF Save, IInv, TypeOK
      <3> QED
        BY <1>1, <1>2, <1>8, <2>2, <3>1 DEF IInv, LastTold
    <2> QED
      BY <2>1, <2>2
  <1>12. LastTold'
    BY <1>11 DEF LastTold
  <1> QED
    BY <1>4, <1>7, <1>10, <1>12 DEF IInv

LEMMA EmitStep ==
    ASSUME IInv, NEW r \in inflight, r.op = "emit", EmitApartmentUpdated(r)
    PROVE  IInv'
  <1> USE SalesAssumption
  <1>1. /\ r \in Request /\ r.apt \in Apartments
        /\ r.status \in Status /\ r.status \in stored[r.apt]
    BY RequestKind DEF StatusRequest, RequestOK, IInv, TypeOK
  <1>2. /\ told' = [told EXCEPT ![r.apt] = r.status]
        /\ inflight' \subseteq inflight
        /\ \A p \in inflight : p # r => p \in inflight'
        /\ UNCHANGED <<db, history>>
    BY DEF EmitApartmentUpdated, Emit, Answer, Rest
  <1>3. TypeOK' /\ RowsOK' /\ ToldWasStored'
    BY <1>1, <1>2 DEF db, history, IInv, TypeOK, RowsOK, Credible, ToldWasStored
  <1>4. \A p \in inflight' : RequestOK(p)'
    BY <1>2 DEF db, history, IInv, RequestOK, Credible
  <1>5. EventsOK'
    BY <1>1, <1>2 DEF db, history, IInv, EventsOK, TypeOK
  <1>6. ASSUME NEW b \in live \ crossed
        PROVE  \/ told'[b] \in {NULL, row[b].status}
               \/ \E p \in inflight' : p.op = "emit" /\ p.apt = b
    <2>1. CASE b = r.apt
      BY <1>1, <1>2, <2>1 DEF IInv, EventsOK, TypeOK
    <2>2. CASE b # r.apt
      BY <1>1, <1>2, <2>2 DEF IInv, LastTold, TypeOK
    <2> QED
      BY <2>1, <2>2
  <1>7. LastTold'
    BY <1>2, <1>6 DEF db, history, LastTold
  <1> QED
    BY <1>3, <1>4, <1>5, <1>7 DEF IInv

LEMMA CommitRemoveStep ==
    ASSUME IInv, NEW r \in inflight, r.op = "delete", CommitRemove(r)
    PROVE  IInv'
  <1> DEFINE q == EmitOf(r.apt, r.status)
  <1>1. /\ r \in Request /\ r.apt \in Apartments
        /\ r.status \in Status /\ r.status \in stored[r.apt]
    BY RequestKind DEF StatusRequest, RequestOK, IInv, TypeOK
  <1>2. q \in Request /\ RequestOK(q) /\ q.apt = r.apt
    BY <1>1 DEF EmitOf, Request, StatusRequest, RequestOK
  <1>3. /\ inflight' \subseteq inflight \cup {q}
        /\ \A p \in inflight : p.op = "emit" => p \in inflight'
    BY DEF CommitRemove, Then, Rest
  <1>4. TypeOK' /\ RowsOK' /\ ToldWasStored'
    BY <1>2, <1>3
       DEF CommitRemove, DeleteRows, NoRow, history, IInv, TypeOK, RowsOK, Row, Status,
           Credible, ToldWasStored
  <1>5. \A p \in inflight' : RequestOK(p)'
    BY <1>2, <1>3 DEF CommitRemove, history, IInv, RequestOK, Credible
  <1>6. EventsOK' /\ LastTold'
    BY <1>2, <1>3, EventsKept DEF CommitRemove, DeleteRows, history, IInv, TypeOK
  <1> QED
    BY <1>4, <1>5, <1>6 DEF IInv

LEMMA ContinueStep ==
    ASSUME IInv, NEW r \in inflight, Continue(r)
    PROVE  IInv'
  <1> USE SalesAssumption
  <1>0. r \in Request /\ r.apt \in Apartments
    BY RequestKind DEF IInv, TypeOK
  <1>1. CASE r.op = "contract" /\ \E x \in Contracts : SaveContract(r, x)
    <2>1. PICK x \in Contracts : SaveContract(r, x)
      BY <1>1
    <2>2. TypeOK' /\ RowsOK' /\ ToldWasStored' /\ \A q \in inflight' : RequestOK(q)'
      BY <1>0, <2>1 DEF SaveContract, Answer, Rest, history, Credible,
                        IInv, TypeOK, RowsOK, ToldWasStored, RequestOK
    <2>3. EventsOK' /\ LastTold'
      BY <1>1, <2>1, EventsKept DEF SaveContract, Answer, Rest, history, IInv
    <2> QED
      BY <2>2, <2>3 DEF IInv
  <1>2. CASE r.op = "commitClone" /\ CommitClone(r)
    BY <1>0, <1>2, InsertStep
       DEF CommitClone, NoRow, IInv, TypeOK, EventsOK, Status
  <1>3. CASE Drop(r)
    <2>1. TypeOK' /\ RowsOK' /\ ToldWasStored' /\ \A q \in inflight' : RequestOK(q)'
      BY <1>3 DEF Drop, Answer, Rest, db, history, Credible,
                  IInv, TypeOK, RowsOK, ToldWasStored, RequestOK
    <2>2. EventsOK' /\ LastTold'
      BY <1>3, EventsKept DEF Drop, Answer, Rest, db, history, IInv
    <2> QED
      BY <2>1, <2>2 DEF IInv
  <1> QED
    BY <1>1, <1>2, <1>3, SaveStep, EmitStep, CommitRemoveStep DEF Continue

\* The other services: deleted users are no sellers, and whoever was credible
\* is, whether the block moves or an organization goes.
LEMMA OtherStep ==
    ASSUME IInv,
           \/ \E x \in Contracts : RemoveContract(x)
           \/ \E u \in Users : RemoveUser(u) \/ ReviveUser(u)
           \/ \E S \in SUBSET Apartments : RemoveFloor(S)
           \/ \E o \in Orgs : BulkAssignBranch(o)
                              \/ \E S \in SUBSET Users : RemoveOrganization(o, S)
           \/ UNCHANGED vars
    PROVE  IInv'
  <1> USE SalesAssumption
  <1>1. /\ live' \subseteq live /\ inflight' = inflight /\ told' = told
        /\ stored' = stored /\ early' = early /\ crossed' = crossed
        /\ homes \subseteq homes' /\ orgs' \subseteq orgs
    BY DEF RemoveContract, RemoveUser, ReviveUser, RemoveFloor, BulkAssignBranch,
           RemoveOrganization, DeleteRows, vars, db, history, IInv, TypeOK
  <1>2. Credible \subseteq Credible'
    BY <1>1, CredibleKept
  <1> DEFINE Rows ==
        /\ row' \in [Apartments -> Row]
        /\ \A a \in Apartments :
             /\ a \in live' => row'[a].status = row[a].status
             /\ row'[a].seller \in (users' \cap Credible') \cup {NULL}
  <1>3. Rows
    <2>1. CASE row' = row /\ users \subseteq users'
      BY <1>2, <2>1 DEF IInv, TypeOK, RowsOK
    <2>2. ASSUME NEW S, DeleteUsers(S)
          PROVE  Rows
      BY <1>2, <2>2 DEF DeleteUsers, IInv, TypeOK, RowsOK, Row
    <2>3. ASSUME NEW S, DeleteRows(S), S = Apartments \/ users' = users
          PROVE  Rows
      BY <1>2, <2>3 DEF DeleteRows, NoRow, IInv, TypeOK, RowsOK, Row, Status
    <2> QED
      BY <2>1, <2>2, <2>3 DEF RemoveContract, RemoveUser, ReviveUser, RemoveFloor,
         BulkAssignBranch, RemoveOrganization, vars, db
  <1>4. TypeOK'
    <2>1. /\ users' \subseteq Users /\ lost' \subseteq Apartments
          /\ contract' \in [Contracts -> Apartments \cup {NULL}]
      BY DEF RemoveContract, RemoveUser, ReviveUser, RemoveFloor, DeleteUsers,
         BulkAssignBranch, RemoveOrganization, vars, db, IInv, TypeOK
    <2>2. house' \in homes' /\ homes' \subseteq Orgs
      BY DEF RemoveContract, RemoveUser, ReviveUser, RemoveFloor,
         BulkAssignBranch, RemoveOrganization, vars, db, history, IInv, TypeOK
    <2> QED
      BY <1>1, <1>3, <2>1, <2>2 DEF IInv, TypeOK
  <1>5. RowsOK' /\ ToldWasStored'
    BY <1>1, <1>3 DEF IInv, TypeOK, RowsOK, ToldWasStored
  <1>6. \A r \in inflight' : RequestOK(r)'
    BY <1>1, <1>2, RequestsKept DEF IInv, TypeOK
  <1>7. EventsOK' /\ LastTold'
    BY <1>1, <1>3, EventsKept DEF IInv, TypeOK
  <1> QED
    BY <1>4, <1>5, <1>6, <1>7 DEF IInv

LEMMA InitIInv == Init => IInv
  BY SalesAssumption
     DEF Init, NoRow, IInv, TypeOK, RowsOK, ToldWasStored, EventsOK, LastTold,
         Row, Status, Users

LEMMA NextIInv == IInv /\ [Next]_vars => IInv'
  BY CallStep, ContinueStep, OtherStep DEF Next

THEOREM Consistent == Spec => []IInv
  BY InitIInv, NextIInv, PTL DEF Spec

\* Whatever the interleaving of the handlers with each other, with moves of
\* the block and with the removal of users and organizations, the seller of an
\* apartment exists and is of an organization that has had the block, or of
\* none.
THEOREM SellerFromHouseHolds == Spec => []SellerFromHouse
  <1>1. IInv => SellerFromHouse
    BY DEF IInv, RowsOK, TypeOK, SellerFromHouse
  <1> QED
    BY <1>1, Consistent, PTL

\* The last event of an apartment is true or about to be replaced, unless two
\* saves crossed.
THEOREM LastToldHolds == Spec => []LastTold
  <1>1. IInv => LastTold
    BY DEF IInv
  <1> QED
    BY <1>1, Consistent, PTL

\* Events tell of statuses that were committed, whatever the order in which
\* the handlers get to emit them.
THEOREM ToldWasStoredHolds == Spec => []ToldWasStored
  <1>1. IInv => ToldWasStored
    BY DEF IInv
  <1> QED
    BY <1>1, Consistent, PTL

\* The row of a sold apartment is changed by a request for the status it gets,
\* by a stale copy, or by the removal of its seller, and by no other step.
THEOREM SaleKeptHolds == Spec => SaleKept
  <1> DEFINE
        Excused(a) ==
          \/ row'[a] = [row[a] EXCEPT !.seller = NULL] /\ row[a].seller \notin users'
          \/ \E r \in inflight :
                 /\ r.op = "save" /\ r.apt = a
                 /\ r.asked = row'[a].status \/ r.loaded # row[a]
        Kept ==
          \A a \in live \cap live' :
            (row[a].status = "sold" /\ row'[a] # row[a]) => Excused(a)
  <1>1. IInv /\ [Next]_vars => [Kept]_vars
    <2> SUFFICES ASSUME IInv, [Next]_vars,
                        NEW a \in live \cap live', row'[a] # row[a]
                 PROVE  Excused(a)
      OBVIOUS
    <2> USE SalesAssumption
    <2>0. a \in Apartments /\ stored[a] # {} /\ row \in [Apartments -> Row]
      BY DEF IInv, TypeOK, RowsOK
    <2>1. ASSUME NEW b \in Apartments, Call(b)
          PROVE  FALSE
      <3>1. CASE \E s \in Asked : Create(b, s) \/ CreateAndTell(b, s)
        <4>1. b # a /\ row'[a] = row[a]
          BY <2>0, <3>1 DEF Create, CreateAndTell, Fresh, Put
        <4> QED
          BY <4>1
      <3>2. CASE ~ \E s \in Asked : Create(b, s) \/ CreateAndTell(b, s)
        <4>1. row' = row
          BY <2>1, <3>2 DEF Call, ChangeStatus, Update, Remove, CreateContract,
             ChangeApartmentStatus, SetApartmentSaleStatus, Clone, Await, db
        <4> QED
          BY <4>1
      <3> QED
        BY <3>1, <3>2
    <2>2. ASSUME NEW r \in inflight, Continue(r)
          PROVE  r.op = "save" /\ r.apt = a
                 /\ (r.asked = row'[a].status \/ r.loaded # row[a])
      <3>0. r \in Request /\ RequestOK(r) /\ r.apt \in Apartments
        BY RequestKind DEF IInv, TypeOK
      <3>1. CASE r.op = "save" /\ Save(r)
        <4>1. row' = [row EXCEPT ![r.apt] = r.row]
          BY <3>1 DEF Save, Put
        <4>2. r.apt = a /\ row'[a] = r.row
          BY <2>0, <3>0, <4>1
        <4> QED
          BY <3>0, <3>1, <4>2 DEF RequestOK
      <3>2. CASE r.op = "commitClone" /\ CommitClone(r)
        <4>1. r.apt # a /\ row'[a] = row[a]
          BY <2>0, <3>0, <3>2 DEF CommitClone, Put
        <4> QED
          BY <4>1
      <3>3. CASE ~ (r.op = "save" /\ Save(r)) /\ ~ (r.op = "commitClone" /\ CommitClone(r))
        <4>1. row'[a] = row[a]
          BY <2>0, <2>2, <3>3 DEF Continue, EmitApartmentUpdated, CommitRemove,
             DeleteRows, SaveContract, Drop, db
        <4> QED
          BY <4>1
      <3> QED
        BY <3>1, <3>2, <3>3
    <2>3. ASSUME NEW S, DeleteUsers(S)
          PROVE  row'[a] = [row[a] EXCEPT !.seller = NULL] /\ row[a].seller \notin users'
      BY <2>0, <2>3 DEF DeleteUsers, Row
    <2>4. ASSUME NEW S, DeleteRows(S)
          PROVE  row'[a] = row[a]
      BY <2>0, <2>4 DEF DeleteRows
    <2>5. ASSUME \/ \E x \in Contracts : RemoveContract(x)
                 \/ \E u \in Users : RemoveUser(u) \/ ReviveUser(u)
                 \/ \E S \in SUBSET Apartments : RemoveFloor(S)
                 \/ \E o \in Orgs : BulkAssignBranch(o)
                                    \/ \E S \in SUBSET Users : RemoveOrganization(o, S)
                 \/ UNCHANGED vars
          PROVE  row' = row \/ \E S : DeleteUsers(S) \/ DeleteRows(S)
      BY <2>5 DEF RemoveContract, RemoveUser, ReviveUser, RemoveFloor,
         BulkAssignBranch, RemoveOrganization, vars, db
    <2> QED
      BY <2>1, <2>2, <2>3, <2>4, <2>5 DEF Next
  <1> QED
    BY <1>1, Consistent, PTL DEF Spec, SaleKept
=============================================================================
