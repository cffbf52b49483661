--------------------------- MODULE BackupsProofs ---------------------------
(***************************************************************************)
(* The inductive invariant of Backups and its proofs.  Core speaks of the  *)
(* tables and the requests of FloorPlan alone and is kept by its actions;  *)
(* the dump, its file and the restore are added to it afterwards.          *)
(***************************************************************************)
EXTENDS Backups, FiniteSetTheorems, TLAPS

\* The row of a floor, stored, loaded or in a file: it is of the block the
\* floor was born in, and its hotspots name apartments born on the floor,
\* or it was patched with them.
FloorOK(f, row) ==
    /\ origin[f] = row.block
    /\ \A h \in row.hotspots : origin[h] = f \/ <<f, h>> \in patched

\* The same of whole tables, with their indexes.
Sound(B, F, A) ==
    /\ \A b \in B : origin[b] = Branch
    /\ \A f \in Rows(F) : FloorOK(f, F[f]) /\ origin[F[f].block] = Branch
    /\ \A f, g \in Rows(F) : F[f].block = F[g].block /\ F[f].level = F[g].level =>
                                 f = g \/ F[f].block \in crowded
    /\ \A a \in Rows(A) : origin[a] = A[a].floor
    /\ \A a, c \in Rows(A) : A[a] = A[c] => a = c

Keys ==
    /\ \A f \in Rows(floor) : floor[f].block \in block
    /\ \A a \in Rows(apartment) : floor[apartment[a].floor] # NULL

\* What a request holds.
Loads(q) == q.op \in {"checkLevel", "saveFloor", "clone", "copyNext", "saveCopy"}
LoadedOK(q) ==
    /\ Loads(q) => /\ q.floor # NULL /\ q.row # NULL
                   /\ FloorOK(q.floor, q.row) /\ origin[q.row.block] = Branch
    /\ q.op = "insertFloor" =>
         /\ q.floor = NULL /\ q.row # NULL /\ q.moves
         /\ origin[q.row.block] = Branch
    /\ q.op = "checkLevel" => q.moves
    /\ q.op = "clone" => ~ q.moves
    /\ q.op = "saveBlock" => q.from \in Blocks /\ origin[q.from] = Branch
    /\ q.op = "insertApartments" => q.floor # NULL
    /\ q.op \in {"checkNumber", "saveApartment"} =>
         q.from \in Apartments /\ q.floor # NULL /\ origin[q.from] = q.floor
    /\ q.floor # NULL => origin[q.floor] # NULL

\* A writer found no other floor of its level, and one that sets no level
\* holds the level of its floor.
LevelOK(q) ==
    Writes(q) /\ q.op # "checkLevel" /\ q.row.block \notin crowded =>
        \A f \in FloorsOf(q.row.block) :
            /\ f # q.floor => floor[f].level # q.row.level
            /\ f = q.floor /\ ~ q.moves => floor[f].level = q.row.level

NumbersOK(q) ==
    q.op \in {"insertApartments", "saveCopy", "saveApartment"} /\ ~ q.unsure =>
        q.numbers \cap NumbersOn(q.floor) = {}

CopiesOK(q) ==
    /\ q.op \in {"clone", "copyNext", "saveCopy"} =>
         /\ q.from \in Floors /\ q.floors[q.from] # NULL
         /\ \A a \in Rows(q.apartments) : q.apartments[a].floor = q.from
         /\ q.op # "clone" \/ ~ q.same => InBound(q)
    /\ q.op = "insertCopy" =>
         /\ q.from \in Blocks
         /\ \A f, g \in Rows(q.floors) : q.floors[f].level = q.floors[g].level =>
                                             f = g \/ q.from \in crowded
    /\ \A a, c \in Rows(q.apartments) : q.apartments[a] = q.apartments[c] => a = c

Good(q) == LoadedOK(q) /\ LevelOK(q) /\ NumbersOK(q) /\ CopiesOK(q)

\* Two writers of a block that is not crowded set no level, and have the same
\* level just if they write the same floor.
Apart(q, r) ==
    Writes(q) /\ Writes(r) /\ q.row.block = r.row.block /\ q.row.block \notin crowded =>
        ~ q.moves /\ ~ r.moves /\ (q.row.level = r.row.level <=> q.floor = r.floor)

Core ==
    /\ PlanTypeOK /\ Sound(block, floor, apartment) /\ Keys
    /\ \A s \in Slots : Good(req[s])
    /\ \A s, t \in Slots : s # t => Apart(req[s], req[t])

\* A row without its parent has one that was inserted during the dump.
Orphans(d) ==
    /\ \A f \in Rows(d.floor) : d.floor[f].block \in d.block \cup d.born
    /\ \A a \in Rows(d.apartment) : d.apartment[a].floor \in Rows(d.floor) \cup d.born

\* The rows of the table read last are in the dump or born.
DumpOK ==
    LET d == dump.data IN
    /\ dump.next \in {"none", "blocks"} => d = Nothing
    /\ Sound(d.block, d.floor, d.apartment)
    /\ Orphans(d)
    /\ dump.next = "floors" => block \subseteq d.block \cup d.born /\ d.floor = NoFloors
    /\ dump.next = "apartments" => Rows(floor) \subseteq Rows(d.floor) \cup d.born
    /\ dump.next \in {"floors", "apartments"} => d.apartment = NoApartments

FileOK == Sound(file.block, file.floor, file.apartment) /\ Orphans(file)

\* Untouched, the tables hold what the file says as far as it was inserted.
RestoreOK ==
    LET d == restore.data IN
    /\ Sound(d.block, d.floor, d.apartment)
    /\ restore.next # "none" /\ ~ restore.touched =>
         /\ schema = CASE restore.next = "create" -> "absent"
                       [] restore.next = "synchronize" -> "empty"
                       [] restore.next \in Tables -> "ready"
         /\ block = IF restore.next \in {"floors", "apartments"} THEN d.block ELSE {}
         /\ floor = IF restore.next = "apartments" THEN d.floor ELSE NoFloors
         /\ apartment = NoApartments

IInv == TypeOK /\ Core /\ DumpOK /\ FileOK /\ RestoreOK

-----------------------------------------------------------------------------
(* Histories only grow, and what copies say stays true. *)

Grows ==
    /\ \A x \in Ids : origin[x] # NULL => origin'[x] = origin[x]
    /\ crowded \subseteq crowded' /\ patched \subseteq patched'

\* A row remains what its floor was born to.
LEMMA FloorKept ==
    ASSUME PlanTypeOK, Grows, NEW f \in Floors, NEW row \in FloorRow, FloorOK(f, row)
    PROVE  FloorOK(f, row)'
<1>1. origin[f] = row.block /\ origin[f] # NULL
  BY FloorPlanAssumption DEF FloorOK, FloorRow, Ids
<1>2. origin'[f] = row.block
  BY <1>1 DEF Grows, Ids
<1>3. ASSUME NEW h \in row.hotspots, <<f, h>> \notin patched'
      PROVE  origin'[h] = f
  <2>1. <<f, h>> \notin patched
    BY <1>3 DEF Grows
  <2>2. h \in Ids /\ origin[h] = f /\ f # NULL
    BY <1>3, <2>1, FloorPlanAssumption DEF FloorOK, FloorRow, Ids
  <2>. QED
    BY <2>2 DEF Grows
<1>. QED
  BY <1>2, <1>3 DEF FloorOK

\* Sound tables stay sound while the histories grow.
LEMMA SoundKept ==
    ASSUME PlanTypeOK, Grows, NEW B \in SUBSET Blocks, NEW F \in FloorTable,
           NEW A \in ApartmentTable, Sound(B, F, A)
    PROVE  Sound(B, F, A)'
<1>1. ASSUME NEW b \in B
      PROVE  origin'[b] = Branch
  BY <1>1, FloorPlanAssumption DEF Sound, Grows, Ids
<1>2. ASSUME NEW f \in Rows(F)
      PROVE  FloorOK(f, F[f])' /\ origin'[F[f].block] = Branch
  <2>1. f \in Floors /\ F[f] \in FloorRow
    BY <1>2 DEF Rows, FloorTable
  <2>2. FloorOK(f, F[f]) /\ origin[F[f].block] = Branch
    BY <1>2 DEF Sound
  <2>3. FloorOK(f, F[f])'
    BY <2>1, <2>2, FloorKept
  <2>4. F[f].block \in Ids
    BY <2>1 DEF FloorRow, Ids
  <2>. QED
    BY <2>2, <2>3, <2>4, FloorPlanAssumption DEF Grows
<1>3. ASSUME NEW f \in Rows(F), NEW g \in Rows(F),
             F[f].block = F[g].block, F[f].level = F[g].level
      PROVE  f = g \/ F[f].block \in crowded'
  BY <1>3 DEF Sound, Grows
<1>4. ASSUME NEW a \in Rows(A)
      PROVE  origin'[a] = A[a].floor
  <2>1. a \in Ids /\ A[a].floor \in Floors
    BY <1>4 DEF Rows, ApartmentTable, ApartmentRow, Ids
  <2>2. origin[a] = A[a].floor /\ A[a].floor # NULL
    BY <1>4, <2>1, FloorPlanAssumption DEF Sound, Ids
  <2>. QED
    BY <2>1, <2>2 DEF Grows
<1>5. \A a, c \in Rows(A) : A[a] = A[c] => a = c
  BY DEF Sound
<1>. QED
  BY <1>1, <1>2, <1>3, <1>4, <1>5 DEF Sound

\* What a request has loaded stays true.
LEMMA LoadedKept ==
    ASSUME PlanTypeOK, Grows, NEW q \in Request, LoadedOK(q)
    PROVE  LoadedOK(q)'
<1>1. q.floor \in Floors \cup {NULL} /\ q.row \in FloorRow \cup {NULL}
  BY DEF Request
<1>2. q.floor # NULL => origin'[q.floor] # NULL
  BY <1>1 DEF LoadedOK, Grows, Ids
<1>3. ASSUME q.row # NULL, origin[q.row.block] = Branch
      PROVE  origin'[q.row.block] = Branch
  <2>1. q.row.block \in Ids
    BY <1>1, <1>3 DEF FloorRow, Ids
  <2>. QED
    BY <1>3, <2>1, FloorPlanAssumption DEF Grows
<1>4. ASSUME Loads(q)
      PROVE  /\ q.floor # NULL /\ q.row # NULL
             /\ FloorOK(q.floor, q.row)' /\ origin'[q.row.block] = Branch
  BY <1>1, <1>3, <1>4, FloorKept DEF LoadedOK
<1>5. q.op = "insertFloor" =>
         /\ q.floor = NULL /\ q.row # NULL /\ q.moves
         /\ origin'[q.row.block] = Branch
  BY <1>3 DEF LoadedOK
<1>6. q.op \in {"checkNumber", "saveApartment"} =>
         q.from \in Apartments /\ q.floor # NULL /\ origin'[q.from] = q.floor
  BY DEF LoadedOK, Grows, Ids
<1>7. q.op = "saveBlock" => q.from \in Blocks /\ origin'[q.from] = Branch
  BY FloorPlanAssumption DEF LoadedOK, Grows, Ids
<1>. QED
  BY <1>2, <1>4, <1>5, <1>6, <1>7 DEF LoadedOK

LEMMA CopiesKept ==
    ASSUME Grows, NEW q \in Request, CopiesOK(q)
    PROVE  CopiesOK(q)'
BY DEF Grows, CopiesOK

LEMMA ApartKept ==
    ASSUME Grows, NEW q \in Request, NEW r \in Request, Apart(q, r)
    PROVE  Apart(q, r)'
BY DEF Grows, Apart

\* Writers keep what they found while rows of floors only go.
LEMMA LevelKept ==
    ASSUME PlanTypeOK, PlanTypeOK', Grows, NEW q \in Request, LevelOK(q),
           \A f \in Floors : floor'[f] # NULL => floor'[f] = floor[f]
    PROVE  LevelOK(q)'
<1>1. ASSUME NEW b, NEW f \in FloorsOf(b)'
      PROVE  f \in FloorsOf(b) /\ floor'[f] = floor[f]
  BY <1>1 DEF FloorsOf
<1>. QED
  BY <1>1 DEF LevelOK, Grows

LEMMA NumbersKept ==
    ASSUME PlanTypeOK, PlanTypeOK', NEW q \in Request, NumbersOK(q),
           \A a \in Apartments : apartment'[a] # NULL => apartment'[a] = apartment[a]
    PROVE  NumbersOK(q)'
<1>1. ASSUME NEW f, NEW n \in NumbersOn(f)'
      PROVE  n \in NumbersOn(f)
  BY <1>1 DEF NumbersOn, ApartmentsOn
<1>. QED
  BY <1>1 DEF NumbersOK

\* A request that is told to be unsure holds what it held.
LEMMA UnsureKept ==
    ASSUME NEW q \in Request
    PROVE  LET u == [q EXCEPT !.unsure = TRUE] IN
           /\ u \in Request
           /\ LoadedOK(q)' => LoadedOK(u)'
           /\ LevelOK(q)' => LevelOK(u)'
           /\ CopiesOK(q)' => CopiesOK(u)'
           /\ NumbersOK(u)'
           /\ Writes(u) = Writes(q) /\ u.row = q.row /\ u.moves = q.moves /\ u.floor = q.floor
<1>. DEFINE u == [q EXCEPT !.unsure = TRUE]
<1>1. u \in Request
  BY DEF Request
<1>2. /\ u.op = q.op /\ u.floor = q.floor /\ u.row = q.row /\ u.moves = q.moves
      /\ u.from = q.from /\ u.floors = q.floors /\ u.apartments = q.apartments
      /\ u.numbers = q.numbers /\ u.same = q.same /\ u.plan = q.plan /\ u.unsure
  BY DEF Request
<1>. HIDE DEF u
<1>3. LoadedOK(q)' => LoadedOK(u)'
  BY <1>2 DEF LoadedOK, Loads
<1>4. Writes(u) = Writes(q)
  BY <1>2 DEF Writes
<1>5. LevelOK(q)' => LevelOK(u)'
  BY <1>2, <1>4 DEF LevelOK
<1>6. CopiesOK(q)' => CopiesOK(u)'
  BY <1>2 DEF CopiesOK, InBound, Transformed
<1>7. NumbersOK(u)'
  BY <1>2 DEF NumbersOK
<1>. QED
  BY <1>1, <1>2, <1>3, <1>4, <1>5, <1>6, <1>7 DEF u


-----------------------------------------------------------------------------
(* A step of one request. *)

\* Slot s becomes r; the other requests keep what they hold, or are told that
\* their numbers may be taken; the tables are sound again.
LEMMA SlotStep ==
    ASSUME Core, Grows, PlanTypeOK', Sound(block, floor, apartment)', Keys',
           NEW s \in Slots, NEW r \in Request, req'[s] = r, Good(r)',
           \A t \in Slots \ {s} : req'[t] \in {req[t], [req[t] EXCEPT !.unsure = TRUE]},
           \A q \in Request : (\E t \in Slots \ {s} : q = req[t]) =>
               LevelOK(q)' /\ Apart(r, q)',
           \A t \in Slots \ {s} : \A q \in Request :
               q = req[t] => req'[t] = [q EXCEPT !.unsure = TRUE] \/ NumbersOK(q)'
    PROVE  Core'
<1>. USE DEF PlanTypeOK
<1>1. ASSUME NEW t \in Slots \ {s}
      PROVE  \E q \in Request : q = req[t] /\ \E u \in Request :
               /\ u = req'[t] /\ Good(u)' /\ Good(q)
               /\ Writes(u) = Writes(q) /\ u.row = q.row /\ u.moves = q.moves
               /\ u.floor = q.floor
  <2>q. PICK q \in Request : q = req[t]
    BY DEF Core
  <2>1. Good(q) /\ PlanTypeOK
    BY <2>q DEF Core
  <2>2. LoadedOK(q)' /\ CopiesOK(q)' /\ LevelOK(q)'
    BY <2>1, <2>q, LoadedKept, CopiesKept DEF Good
  <2>3. CASE req'[t] = q /\ NumbersOK(q)'
    BY <2>1, <2>2, <2>3, <2>q DEF Good
  <2>4. CASE req'[t] = [q EXCEPT !.unsure = TRUE]
    <3>u. PICK u \in Request : u = [q EXCEPT !.unsure = TRUE]
      BY UnsureKept
    <3>1. Good(u)' /\ Writes(u) = Writes(q) /\ u.row = q.row /\ u.moves = q.moves
            /\ u.floor = q.floor
      BY <3>u, <2>2, UnsureKept DEF Good
    <3>. QED
      BY <3>1, <3>u, <2>4, <2>q, <2>1
  <2>. QED
    BY <2>3, <2>4, <2>q
<1>2. ASSUME NEW t \in Slots
      PROVE  Good(req[t])'
  <2>1. CASE t = s
    BY <2>1
  <2>2. CASE t # s
    BY <2>2, <1>1
  <2>. QED
    BY <2>1, <2>2
<1>3. ASSUME NEW t \in Slots \ {s}
      PROVE  Apart(r, req[t])' /\ Apart(req[t], r)'
  <2>q. PICK q \in Request, u \in Request :
          /\ q = req[t] /\ u = req'[t] /\ Writes(u) = Writes(q)
          /\ u.row = q.row /\ u.moves = q.moves /\ u.floor = q.floor
    BY <1>1
  <2>1. Apart(r, q)'
    BY <2>q
  <2>2. Apart(r, u)' /\ Apart(u, r)'
    BY <2>1, <2>q DEF Apart
  <2>. QED
    BY <2>2, <2>q
<1>4. ASSUME NEW t \in Slots \ {s}, NEW v \in Slots \ {s}, t # v
      PROVE  Apart(req[t], req[v])'
  <2>q. PICK q \in Request, u \in Request :
          /\ q = req[t] /\ u = req'[t] /\ Writes(u) = Writes(q)
          /\ u.row = q.row /\ u.moves = q.moves /\ u.floor = q.floor
    BY <1>1
  <2>p. PICK p \in Request, w \in Request :
          /\ p = req[v] /\ w = req'[v] /\ Writes(w) = Writes(p)
          /\ w.row = p.row /\ w.moves = p.moves /\ w.floor = p.floor
    BY <1>1
  <2>1. Apart(q, p)
    BY <1>4, <2>q, <2>p DEF Core
  <2>2. Apart(q, p)'
    BY <2>1, ApartKept
  <2>3. Apart(u, w)'
    BY <2>2, <2>q, <2>p DEF Apart
  <2>. QED
    BY <2>3, <2>q, <2>p
<1>5. ASSUME NEW t \in Slots, NEW v \in Slots, t # v
      PROVE  Apart(req[t], req[v])'
  BY <1>3, <1>4, <1>5
<1>. QED
  BY <1>2, <1>5 DEF Core

\* An idle slot holds nothing.
LEMMA IdleGood ==
    /\ Idle \in Request /\ ~ Writes(Idle)
    /\ Good(Idle) /\ Good(Idle)' /\ \A q \in Request : Apart(Idle, q)'
<1>1. Idle \in Request
  BY DEF Idle, Request, FloorTable, ApartmentTable, NoFloors, NoApartments
<1>2. /\ Idle.op = "idle" /\ Idle.floor = NULL /\ Idle.unsure = FALSE
      /\ Idle.apartments = NoApartments /\ Idle.plan = FALSE
  BY DEF Idle
<1>3. ~ Writes(Idle)
  BY <1>2 DEF Writes
<1>4. Rows(NoApartments) = {}
  BY DEF Rows, NoApartments
<1>5. LoadedOK(Idle) /\ CopiesOK(Idle) /\ NumbersOK(Idle) /\ LevelOK(Idle)
  BY <1>2, <1>3, <1>4 DEF LoadedOK, Loads, CopiesOK, NumbersOK, LevelOK
<1>6. LoadedOK(Idle)' /\ CopiesOK(Idle)' /\ NumbersOK(Idle)' /\ LevelOK(Idle)'
  BY <1>2, <1>3, <1>4 DEF LoadedOK, Loads, CopiesOK, NumbersOK, LevelOK
<1>7. \A q \in Request : Apart(Idle, q)'
  BY <1>3 DEF Apart
<1>. QED
  BY <1>1, <1>3, <1>5, <1>6, <1>7 DEF Good


\* A step that touches no table: slot s becomes r.
LEMMA QuietPatched ==
    ASSUME Core, UNCHANGED <<tables, origin>>,
           patched \subseteq patched', patched' \subseteq Floors \X Apartments,
           crowded \subseteq crowded', crowded' \subseteq Blocks,
           NEW s \in Slots, NEW r \in Request, Become(s, r), Good(r)',
           \A q \in Request : (\E t \in Slots \ {s} : q = req[t]) => Apart(r, q)'
    PROVE  Core' /\ Grows
<1>1. Grows
  BY DEF Grows
<1>2. PlanTypeOK /\ Sound(block, floor, apartment) /\ Keys
  BY DEF Core
<1>3. req' = [req EXCEPT ![s] = r] /\ req \in [Slots -> Request]
  BY <1>2 DEF Become, PlanTypeOK
<1>4. PlanTypeOK'
  BY <1>2, <1>3 DEF PlanTypeOK, tables
<1>5. Sound(block, floor, apartment)'
  <2>1. PICK B \in SUBSET Blocks, F \in FloorTable, A \in ApartmentTable :
          B = block /\ F = floor /\ A = apartment
    BY <1>2 DEF PlanTypeOK
  <2>2. Sound(B, F, A)
    BY <2>1, <1>2
  <2>3. Sound(B, F, A)'
    BY <2>2, <1>1, <1>2, SoundKept
  <2>. QED
    BY <2>1, <2>3 DEF tables
<1>6. Keys'
  BY <1>2 DEF Keys, tables
<1>7. ASSUME NEW q \in Request, NEW t \in Slots \ {s}, q = req[t]
      PROVE  LevelOK(q)' /\ NumbersOK(q)'
  <2>1. Good(q)
    BY <1>7 DEF Core
  <2>. QED
    BY <2>1, <1>1, <1>2, <1>4, LevelKept, NumbersKept DEF Good, tables
<1>. QED
  BY <1>1, <1>3, <1>4, <1>5, <1>6, <1>7, SlotStep

LEMMA Quiet ==
    ASSUME Core, UNCHANGED <<tables, origin, patched>>,
           crowded \subseteq crowded', crowded' \subseteq Blocks,
           NEW s \in Slots, NEW r \in Request, Become(s, r), Good(r)',
           \A q \in Request : (\E t \in Slots \ {s} : q = req[t]) => Apart(r, q)'
    PROVE  Core' /\ Grows
<1>1. UNCHANGED <<tables, origin>> /\ patched' = patched
  OBVIOUS
<1>2. patched \subseteq patched' /\ patched' \subseteq Floors \X Apartments
  BY <1>1 DEF Core, PlanTypeOK
<1>. QED
  BY <1>1, <1>2, QuietPatched

LEMMA QuietEnd ==
    ASSUME Core, UNCHANGED <<tables, planHistory>>, NEW s \in Slots, Ends(s)
    PROVE  Core' /\ Grows
BY Quiet, IdleGood DEF Ends, planHistory, Core, PlanTypeOK

\* A deletion: rows go, and nothing else happens.
LEMMA Deletion ==
    ASSUME Core, UNCHANGED <<req, planHistory>>, Keys', NEW s \in Slots,
           block' \subseteq block, floor' \in FloorTable, apartment' \in ApartmentTable,
           \A f \in Floors : floor'[f] # NULL => floor'[f] = floor[f],
           \A a \in Apartments : apartment'[a] # NULL => apartment'[a] = apartment[a]
    PROVE  Core' /\ Grows
<1>1. Grows
  BY DEF Grows, planHistory
<1>2. PlanTypeOK /\ Sound(block, floor, apartment)
  BY DEF Core
<1>4. PlanTypeOK'
  BY <1>2 DEF PlanTypeOK, planHistory
<1>5. Sound(block, floor, apartment)'
  <2>1. PICK B \in SUBSET Blocks, F \in FloorTable, A \in ApartmentTable :
          B = block' /\ F = floor' /\ A = apartment'
    BY <1>4 DEF PlanTypeOK
  <2>2. Sound(B, F, A)
    <3>1. \A f \in Rows(F) : f \in Rows(floor) /\ F[f] = floor[f]
      BY <2>1, <1>2 DEF Rows, FloorTable, PlanTypeOK
    <3>2. \A a \in Rows(A) : a \in Rows(apartment) /\ A[a] = apartment[a]
      BY <2>1, <1>2 DEF Rows, ApartmentTable, PlanTypeOK
    <3>. QED
      BY <1>2, <2>1, <3>1, <3>2 DEF Sound
  <2>3. Sound(B, F, A)'
    BY <2>2, <1>1, <1>2, SoundKept
  <2>. QED
    BY <2>1, <2>3
<1>7. ASSUME NEW q \in Request, NEW t \in Slots, q = req[t]
      PROVE  LevelOK(q)' /\ NumbersOK(q)' /\ LoadedOK(q)' /\ CopiesOK(q)'
  <2>1. Good(q)
    BY <1>7 DEF Core
  <2>. QED
    BY <2>1, <1>1, <1>2, <1>4, LevelKept, NumbersKept, LoadedKept, CopiesKept DEF Good
<1>8. ASSUME NEW q \in Request, NEW t \in Slots \ {s}, q = req[t]
      PROVE  Apart(req[s], q)'
  <2>r. PICK r \in Request : r = req[s]
    BY <1>2 DEF PlanTypeOK
  <2>1. Apart(r, q)
    BY <1>8, <2>r DEF Core
  <2>2. Apart(r, q)'
    BY <2>1, <1>1, ApartKept
  <2>. QED
    BY <2>2, <2>r
<1>r. PICK r \in Request : r = req[s]
  BY <1>2 DEF PlanTypeOK
<1>9. Good(r)'
  BY <1>7, <1>r DEF Good
<1>10. \A q \in Request : (\E t \in Slots \ {s} : q = req[t]) => Apart(r, q)'
  BY <1>8, <1>r
<1>. QED
  BY <1>1, <1>4, <1>5, <1>7, <1>9, <1>10, <1>r, SlotStep


-----------------------------------------------------------------------------
(* Floors. *)

\* A row of a table is a row.
LEMMA RowTyped ==
    ASSUME PlanTypeOK
    PROVE  /\ \A f \in Floors : floor[f] # NULL => floor[f] \in FloorRow
           /\ \A a \in Apartments : apartment[a] # NULL => apartment[a] \in ApartmentRow
           /\ \A f \in FloorRow : f # NULL
           /\ \A a \in ApartmentRow : a # NULL
           /\ Rows(floor) = {f \in Floors : floor[f] # NULL}
           /\ Rows(apartment) = {a \in Apartments : apartment[a] # NULL}
BY FloorPlanAssumption DEF PlanTypeOK, FloorTable, ApartmentTable, Rows

\* After Meets, no other writer of b is about a level, or b is crowded.
LEMMA Met ==
    ASSUME PlanTypeOK, NEW s \in Slots, NEW b \in Blocks, NEW moves \in BOOLEAN,
           Meets(s, b, moves)
    PROVE  /\ crowded \subseteq crowded' /\ crowded' \subseteq Blocks
           /\ \A q \in Request : (\E t \in Slots \ {s} : q = req[t]) =>
                (Writes(q) /\ q.row.block = b /\ b \notin crowded' => ~ moves /\ ~ q.moves)
<1>1. crowded \subseteq crowded' /\ crowded' \subseteq Blocks
  BY DEF Meets, PlanTypeOK
<1>2. ASSUME NEW q \in Request, NEW t \in Slots \ {s}, q = req[t],
             Writes(q), q.row.block = b, moves \/ q.moves
      PROVE  b \in crowded'
  BY <1>2 DEF Meets
<1>. QED
  BY <1>1, <1>2 DEF Request

LEMMA CreateFloorStep ==
    ASSUME Core, NEW s \in Slots, CreateFloor(s)
    PROVE  Core' /\ Grows
<1>0. PlanTypeOK /\ Sound(block, floor, apartment)
  BY DEF Core
<1>p. PICK b \in block, l \in Levels, plan \in Plans :
        /\ ~ LevelTaken(b, l)
        /\ Become(s, [Idle EXCEPT !.op = "insertFloor", !.moves = TRUE,
                          !.row = [block |-> b, level |-> l, hotspots |-> plan]])
        /\ Meets(s, b, TRUE)
  BY DEF CreateFloor
<1>u. UNCHANGED <<tables, origin, patched>>
  BY DEF CreateFloor
<1>. DEFINE R == [Idle EXCEPT !.op = "insertFloor", !.moves = TRUE,
                    !.row = [block |-> b, level |-> l, hotspots |-> plan]]
<1>d. R \in Request
  <2>1. [block |-> b, level |-> l, hotspots |-> plan] \in FloorRow /\ Idle \in Request
    BY <1>0, IdleGood, FloorPlanAssumption DEF PlanTypeOK, FloorRow
  <2>. QED
    BY <2>1 DEF Request
<1>e. /\ R.op = "insertFloor" /\ R.moves /\ R.floor = NULL /\ R.numbers = {}
      /\ R.row = [block |-> b, level |-> l, hotspots |-> plan] /\ R.apartments = NoApartments
  BY DEF Idle
<1>f. Become(s, R)
  BY <1>p
<1>. HIDE DEF R
<1>r. PICK r \in Request : r = R
  BY <1>d
<1>b. b \in Blocks /\ origin[b] = Branch
  BY <1>0 DEF PlanTypeOK, Sound
<1>1. b \in Blocks /\ r.row # NULL /\ origin'[b] = Branch
  <2>1. r.row \in FloorRow
    BY <1>b, <1>e, <1>r, FloorPlanAssumption DEF FloorRow
  <2>. QED
    BY <2>1, <1>b, <1>u, FloorPlanAssumption
<1>2. LoadedOK(r)'
  BY <1>1, <1>e, <1>r DEF LoadedOK, Loads
<1>3. LevelOK(r)'
  <2>1. \A f \in FloorsOf(b)' : floor'[f].level # l
    BY <1>p, <1>u DEF LevelTaken, FloorsOf, tables
  <2>2. r.row.block = b /\ r.row.level = l
    BY <1>e, <1>r
  <2>. QED
    BY <2>1, <2>2, <1>e, <1>r DEF LevelOK
<1>4. NumbersOK(r)' /\ CopiesOK(r)'
  <2>1. Rows(NoApartments) = {}
    BY DEF Rows, NoApartments
  <2>. QED
    BY <2>1, <1>e, <1>r DEF NumbersOK, CopiesOK
<1>5. ASSUME NEW q \in Request, \E t \in Slots \ {s} : q = req[t]
      PROVE  Apart(r, q)'
  <2>1. Writes(q) /\ q.row.block = b => b \in crowded'
    BY <1>5, <1>0, <1>b, <1>p, Met
  <2>2. r.row.block = b
    BY <1>e, <1>r
  <2>. QED
    BY <2>1, <2>2 DEF Apart
<1>6. crowded \subseteq crowded' /\ crowded' \subseteq Blocks
  BY <1>0, <1>b, <1>p, Met
<1>. QED
  BY <1>2, <1>3, <1>4, <1>5, <1>6, <1>f, <1>r, <1>u, Quiet DEF Good

\* The row a request loaded and filled with its hotspots is as the others know it.
LEMMA Loaded ==
    ASSUME Core, NEW f \in Floors, floor[f] # NULL,
           NEW row \in FloorRow, row.block = floor[f].block,
           patched \subseteq patched', UNCHANGED origin,
           \A x \in row.hotspots \ (floor[f].hotspots \cup ApartmentsOn(f)) :
               <<f, x>> \in patched'
    PROVE  /\ row # NULL /\ FloorOK(f, row)' /\ origin[row.block] = Branch
           /\ origin[f] # NULL /\ row.block \in Blocks
<1>0. PlanTypeOK /\ Sound(block, floor, apartment)
  BY DEF Core
<1>1. floor[f] \in FloorRow /\ f \in Rows(floor)
  BY <1>0, RowTyped
<1>4. FloorOK(f, floor[f]) /\ origin[floor[f].block] = Branch
  BY <1>0, <1>1 DEF Sound
<1>5. ASSUME NEW a \in ApartmentsOn(f)
      PROVE  origin[a] = f
  BY <1>5, <1>0, RowTyped DEF Sound, ApartmentsOn
<1>6. ASSUME NEW x \in row.hotspots
      PROVE  origin[x] = f \/ <<f, x>> \in patched'
  <2>1. CASE x \in floor[f].hotspots
    BY <2>1, <1>4 DEF FloorOK
  <2>2. CASE x \in ApartmentsOn(f)
    BY <2>2, <1>5
  <2>3. CASE x \notin floor[f].hotspots \cup ApartmentsOn(f)
    BY <2>3
  <2>. QED
    BY <2>1, <2>2, <2>3
<1>7. origin[f] = row.block
  BY <1>4 DEF FloorOK
<1>8. FloorOK(f, row)'
  BY <1>6, <1>7 DEF FloorOK
<1>9. row # NULL /\ row.block \in Blocks /\ origin[f] # NULL
  BY <1>1, <1>7, FloorPlanAssumption DEF FloorRow, Ids
<1>. QED
  BY <1>4, <1>8, <1>9


\* A request that loads the row of f to save it is apart from the others.
LEMMA LoaderApart ==
    ASSUME Core, UNCHANGED tables, NEW s \in Slots, NEW f \in Floors, floor[f] # NULL,
           NEW r \in Request, r.floor = f, r.row.block = floor[f].block,
           Meets(s, floor[f].block, r.moves),
           r.op = "checkLevel" => r.moves,
           r.op # "checkLevel" => ~ r.moves,
           ~ r.moves => r.row.level = floor[f].level
    PROVE  /\ LevelOK(r)'
           /\ \A q \in Request : (\E t \in Slots \ {s} : q = req[t]) => Apart(r, q)'
<1>0. PlanTypeOK /\ Sound(block, floor, apartment)
  BY DEF Core
<1>. DEFINE b == floor[f].block
<1>1. floor[f] \in FloorRow /\ b \in Blocks /\ f \in FloorsOf(b) /\ r.moves \in BOOLEAN
  BY <1>0, RowTyped DEF FloorRow, FloorsOf, Request
<1>. HIDE DEF b
<1>2. /\ crowded \subseteq crowded'
      /\ \A q \in Request : (\E t \in Slots \ {s} : q = req[t]) =>
           (Writes(q) /\ q.row.block = b /\ b \notin crowded' => ~ r.moves /\ ~ q.moves)
  BY <1>0, <1>1, Met DEF b
<1>3. \A g \in FloorsOf(b) : g # f /\ floor[g].level = floor[f].level => b \in crowded
  BY <1>0, <1>1, RowTyped DEF Sound, FloorsOf, b
<1>4. \A c : FloorsOf(c)' = FloorsOf(c)
  BY DEF FloorsOf, tables
<1>5. LevelOK(r)'
  <2>1. CASE r.op = "checkLevel"
    BY <2>1 DEF LevelOK
  <2>2. CASE ~ r.moves
    BY <2>2, <1>2, <1>3, <1>4 DEF LevelOK, tables, b
  <2>. QED
    BY <2>1, <2>2
<1>6. ASSUME NEW q \in Request, \E t \in Slots \ {s} : q = req[t],
             Writes(q), q.row.block = b, b \notin crowded'
      PROVE  ~ r.moves /\ ~ q.moves /\ (r.row.level = q.row.level <=> r.floor = q.floor)
  <2>1. ~ r.moves /\ ~ q.moves
    BY <1>6, <1>2
  <2>2. r.row.level = floor[f].level
    BY <2>1
  <2>3. LevelOK(q) /\ q.op # "checkLevel"
    BY <1>6, <2>1 DEF Core, Good, LoadedOK
  <2>4. /\ f # q.floor => floor[f].level # q.row.level
        /\ f = q.floor => floor[f].level = q.row.level
    BY <1>6, <2>1, <2>3, <1>1, <1>2 DEF LevelOK
  <2>. QED
    BY <2>1, <2>2, <2>4
<1>7. \A q \in Request : (\E t \in Slots \ {s} : q = req[t]) => Apart(r, q)'
  BY <1>6 DEF Apart, b
<1>. QED
  BY <1>5, <1>7

LEMMA UpdateFloorStep ==
    ASSUME Core, NEW s \in Slots, UpdateFloor(s)
    PROVE  Core' /\ Grows
<1>0. PlanTypeOK /\ Sound(block, floor, apartment)
  BY DEF Core
<1>p. PICK f \in Rows(floor), l \in Levels :
        /\ \E h \in {floor[f].hotspots} \cup Plans :
              /\ Become(s, [Idle EXCEPT
                     !.op = IF l # floor[f].level THEN "checkLevel" ELSE "saveFloor",
                     !.floor = f, !.moves = (l # floor[f].level),
                     !.row = [floor[f] EXCEPT !.level = l, !.hotspots = h]])
              /\ patched' = patched \cup
                    ({f} \X (h \ (floor[f].hotspots \cup ApartmentsOn(f))))
        /\ Meets(s, floor[f].block, l # floor[f].level)
  BY DEF UpdateFloor
<1>h. PICK h \in {floor[f].hotspots} \cup Plans :
         /\ Become(s, [Idle EXCEPT
                !.op = IF l # floor[f].level THEN "checkLevel" ELSE "saveFloor",
                !.floor = f, !.moves = (l # floor[f].level),
                !.row = [floor[f] EXCEPT !.level = l, !.hotspots = h]])
         /\ patched' = patched \cup
               ({f} \X (h \ (floor[f].hotspots \cup ApartmentsOn(f))))
  BY <1>p
<1>u. UNCHANGED <<tables, origin>>
  BY DEF UpdateFloor
<1>1. f \in Floors /\ floor[f] # NULL /\ floor[f] \in FloorRow
  BY <1>0, RowTyped
<1>2. h \in SUBSET Apartments
  BY <1>1, FloorPlanAssumption DEF FloorRow
<1>3. /\ patched \subseteq patched' /\ patched' \subseteq Floors \X Apartments
      /\ \A x \in h \ (floor[f].hotspots \cup ApartmentsOn(f)) : <<f, x>> \in patched'
  BY <1>0, <1>1, <1>2, <1>h DEF PlanTypeOK
<1>W. PICK W : W = [floor[f] EXCEPT !.level = l, !.hotspots = h]
  OBVIOUS
<1>. DEFINE M == l # floor[f].level
            R == [Idle EXCEPT !.op = IF l # floor[f].level THEN "checkLevel" ELSE "saveFloor",
                    !.floor = f, !.moves = (l # floor[f].level), !.row = W]
<1>w. /\ W \in FloorRow /\ W # NULL
      /\ FloorOK(f, W)' /\ origin[W.block] = Branch /\ origin[f] # NULL
      /\ W.block = floor[f].block /\ W.level = l /\ W.block \in Blocks
  <2>1. /\ W \in FloorRow /\ W.block = floor[f].block /\ W.level = l
        /\ W.hotspots = h
    BY <1>1, <1>2, <1>W DEF FloorRow
  <2>2. UNCHANGED origin
    BY <1>u
  <2>. QED
    BY <2>1, <2>2, <1>1, <1>3, Loaded
<1>f. Become(s, R)
  BY <1>h, <1>W
<1>d. R \in Request
  <2>1. Idle \in Request
    BY IdleGood
  <2>. QED
    BY <2>1, <1>1, <1>w DEF Request
<1>e. /\ R.op = (IF M THEN "checkLevel" ELSE "saveFloor") /\ R.moves = M /\ R.floor = f
      /\ R.numbers = {} /\ R.row = W /\ R.apartments = NoApartments
  BY DEF Idle
<1>. HIDE DEF R
<1>r. PICK r \in Request : r = R
  BY <1>d
<1>4. LoadedOK(r)'
  <2>1. /\ r.op \notin {"insertFloor", "clone", "insertApartments", "saveBlock"}
        /\ r.op # "checkNumber" /\ r.op # "saveApartment"
        /\ r.op = "checkLevel" => r.moves
    BY <1>e, <1>r
  <2>2. r.floor = f /\ r.row = W /\ f # NULL
    BY <1>e, <1>r, <1>1, FloorPlanAssumption DEF Ids
  <2>. QED
    BY <2>1, <2>2, <1>w, <1>u DEF LoadedOK
<1>5. NumbersOK(r)' /\ CopiesOK(r)'
  <2>1. Rows(NoApartments) = {}
    BY DEF Rows, NoApartments
  <2>2. r.op = "checkLevel" \/ r.op = "saveFloor"
    BY <1>e, <1>r
  <2>. QED
    BY <2>1, <2>2, <1>e, <1>r DEF NumbersOK, CopiesOK
<1>6. /\ LevelOK(r)'
      /\ \A q \in Request : (\E t \in Slots \ {s} : q = req[t]) => Apart(r, q)'
  <2>1. Meets(s, floor[f].block, r.moves) /\ r.floor = f /\ r.row.block = floor[f].block
    BY <1>p, <1>e, <1>r, <1>w
  <2>2. /\ r.op = "checkLevel" => r.moves
        /\ r.op # "checkLevel" => ~ r.moves
        /\ ~ r.moves => r.row.level = floor[f].level
    BY <1>e, <1>r, <1>w
  <2>3. UNCHANGED tables
    BY <1>u DEF tables
  <2>. QED
    BY <2>1, <2>2, <2>3, <1>1, LoaderApart
<1>7. crowded \subseteq crowded' /\ crowded' \subseteq Blocks
  BY <1>0, <1>p, <1>w, Met
<1>. QED
  BY <1>3, <1>4, <1>5, <1>6, <1>7, <1>f, <1>r, <1>u, QuietPatched DEF Good

LEMMA CheckLevelStep ==
    ASSUME Core, NEW s \in Slots, CheckLevel(s)
    PROVE  Core' /\ Grows
<1>q. PICK q \in Request : q = req[s]
  BY DEF Core, PlanTypeOK
<1>u. UNCHANGED <<tables, planHistory>>
  BY DEF CheckLevel
<1>0. q.op = "checkLevel" /\ Good(q) /\ PlanTypeOK
  BY <1>q DEF CheckLevel, Core
<1>1. CASE Ends(s)
  BY <1>1, <1>u, QuietEnd
<1>2. CASE ~ LevelTaken(q.row.block, q.row.level) /\ Become(s, [q EXCEPT !.op = "saveFloor"])
  <2>. DEFINE R == [q EXCEPT !.op = "saveFloor"]
  <2>d. R \in Request
    BY DEF Request
  <2>e. /\ R.op = "saveFloor" /\ R.moves = q.moves /\ R.floor = q.floor /\ R.row = q.row
        /\ R.apartments = q.apartments
    BY DEF Request
  <2>f. Become(s, R)
    BY <1>2
  <2>. HIDE DEF R
  <2>r. PICK r \in Request : r = R
    BY <2>d
  <2>1. Grows
    BY <1>u DEF Grows, planHistory
  <2>2. LoadedOK(r)'
    <3>1. LoadedOK(r)
      BY <1>0, <2>e, <2>r DEF Good, LoadedOK, Loads
    <3>. QED
      BY <3>1, <1>0, <2>1, LoadedKept
  <2>3. LevelOK(r)'
    <3>1. LevelOK(r)
      BY <1>0, <1>2, <2>e, <2>r DEF Good, LoadedOK, LevelOK, LevelTaken
    <3>2. \A c : FloorsOf(c)' = FloorsOf(c)
      BY <1>u DEF FloorsOf, tables
    <3>. QED
      BY <3>1, <3>2, <1>u DEF LevelOK, tables, planHistory
  <2>4. NumbersOK(r)' /\ CopiesOK(r)'
    BY <1>0, <1>u, <2>e, <2>r DEF Good, NumbersOK, CopiesOK, planHistory
  <2>5. ASSUME NEW p \in Request, NEW t \in Slots \ {s}, p = req[t]
        PROVE  Apart(r, p)'
    <3>1. Apart(q, p)
      BY <2>5, <1>q DEF Core
    <3>2. Apart(r, p)
      BY <3>1, <1>0, <2>e, <2>r DEF Apart, Writes
    <3>. QED
      BY <3>2, <2>1, ApartKept
  <2>6. crowded' = crowded /\ crowded \subseteq Blocks
    BY <1>0, <1>u DEF planHistory, PlanTypeOK
  <2>7. UNCHANGED <<tables, origin, patched>>
    BY <1>u DEF planHistory, tables
  <2>. QED
    BY <2>2, <2>3, <2>4, <2>5, <2>6, <2>7, <2>f, <2>r, Quiet DEF Good
<1>. QED
  BY <1>1, <1>2, <1>q DEF CheckLevel


\* A writer r puts its row on the floor f: the floors remain sound, and the
\* others hold what they found.
LEMMA RowWritten ==
    ASSUME Core, Grows, PlanTypeOK', UNCHANGED <<block, crowded>>,
           NEW s \in Slots, NEW r \in Request, r = req[s], Writes(r), r.op # "checkLevel",
           NEW f \in Floors, f = r.floor \/ r.op = "insertFloor",
           NEW row \in FloorRow, row.block = r.row.block, row.level = r.row.level,
           floor' = [floor EXCEPT ![f] = row], FloorOK(f, row)', origin'[row.block] = Branch
    PROVE  /\ Sound(block, floor, NoApartments)'
           /\ \A q \in Request : (\E t \in Slots \ {s} : q = req[t]) => LevelOK(q)'
<1>0. PlanTypeOK /\ Sound(block, floor, apartment) /\ Good(r)
  BY DEF Core
<1>1. /\ floor'[f] = row /\ row # NULL
      /\ \A g \in Floors \ {f} : floor'[g] = floor[g]
      /\ \A g \in Floors : floor[g] # NULL => floor[g] \in FloorRow
  BY <1>0, RowTyped DEF PlanTypeOK, FloorTable
<1>2. Sound(block, floor, NoApartments)
  <2>1. Rows(NoApartments) = {}
    BY DEF Rows, NoApartments
  <2>. QED
    BY <1>0, <2>1 DEF Sound
<1>4. PICK B \in SUBSET Blocks, F \in FloorTable : B = block /\ F = floor
  BY <1>0 DEF PlanTypeOK
<1>5. Sound(B, F, NoApartments)'
  <2>1. NoApartments \in ApartmentTable
    BY DEF NoApartments, ApartmentTable
  <2>. QED
    BY <1>0, <1>2, <1>4, <2>1, SoundKept
<1>6. \A g \in Floors \ {f} : floor'[g] # NULL => g \in Rows(F) /\ F[g] = floor'[g]
  BY <1>1, <1>4, <1>0 DEF Rows, PlanTypeOK, FloorTable
<1>7. ASSUME NEW g \in Floors, floor'[g] # NULL
      PROVE  FloorOK(g, floor[g])' /\ origin'[floor'[g].block] = Branch
  <2>1. CASE g = f
    BY <2>1, <1>1 DEF FloorOK
  <2>2. CASE g # f
    BY <2>2, <1>5, <1>6, <1>7 DEF Sound, FloorOK
  <2>. QED
    BY <2>1, <2>2
<1>8. ASSUME NEW g \in Floors \ {f}, floor'[g] # NULL, floor'[g].block = row.block,
             floor'[g].level = row.level
      PROVE  row.block \in crowded
  <2>1. g \in FloorsOf(r.row.block) /\ floor[g].level = r.row.level
    BY <1>8, <1>1 DEF FloorsOf
  <2>2. g # r.floor
    BY <1>0, FloorPlanAssumption DEF Good, LoadedOK, Ids
  <2>. QED
    BY <2>1, <2>2, <1>0 DEF Good, LevelOK
<1>9. ASSUME NEW g \in Floors, NEW h \in Floors, floor'[g] # NULL, floor'[h] # NULL,
             floor'[g].block = floor'[h].block, floor'[g].level = floor'[h].level
      PROVE  g = h \/ floor'[g].block \in crowded'
  <2>1. CASE g = f \/ h = f
    BY <2>1, <1>8, <1>9, <1>1
  <2>2. CASE g # f /\ h # f
    BY <2>2, <1>5, <1>6, <1>9 DEF Sound
  <2>. QED
    BY <2>1, <2>2
<1>10. Sound(block, floor, NoApartments)'
  <2>1. Rows(NoApartments) = {}
    BY DEF Rows, NoApartments
  <2>2. \A g \in Rows(floor') : g \in Floors /\ floor'[g] # NULL
    BY DEF Rows, PlanTypeOK, FloorTable
  <2>3. \A b \in block' : origin'[b] = Branch
    BY <1>4, <1>5 DEF Sound
  <2>. QED
    BY <2>1, <2>2, <2>3, <1>7, <1>9 DEF Sound
<1>11. ASSUME NEW q \in Request, NEW t \in Slots \ {s}, q = req[t]
       PROVE  LevelOK(q)'
  <2>1. LevelOK(q) /\ Apart(r, q)
    BY <1>11 DEF Core, Good
  <2>2. ASSUME Writes(q), q.op # "checkLevel", q.row.block \notin crowded,
               NEW g \in Floors, floor'[g] # NULL, floor'[g].block = q.row.block
        PROVE  /\ g # q.floor => floor'[g].level # q.row.level
               /\ g = q.floor /\ ~ q.moves => floor'[g].level = q.row.level
    <3>1. CASE g # f
      BY <3>1, <2>1, <2>2, <1>1 DEF LevelOK, FloorsOf
    <3>2. CASE g = f
      <4>1. ~ r.moves /\ (r.row.level = q.row.level <=> r.floor = q.floor)
        BY <3>2, <2>1, <2>2, <1>1 DEF Apart
      <4>2. f = r.floor
        BY <4>1, <1>0 DEF Good, LoadedOK
      <4>. QED
        BY <4>1, <4>2, <3>2, <1>1
    <3>. QED
      BY <3>1, <3>2
  <2>. QED
    BY <2>2 DEF LevelOK, FloorsOf
<1>. QED
  BY <1>10, <1>11


\* So the request that has put its row ends.
LEMMA RowSaved ==
    ASSUME Core, UNCHANGED <<block, apartment, crowded>>,
           patched' \subseteq Floors \X Apartments,
           NEW s \in Slots, NEW r \in Request, r = req[s], Writes(r), r.op # "checkLevel",
           NEW f \in Floors, f = r.floor \/ r.op = "insertFloor",
           r.row \in FloorRow, floor' = [floor EXCEPT ![f] = r.row],
           FloorOK(f, r.row)', origin'[r.row.block] = Branch, r.row.block \in block,
           origin' \in [Ids -> Ids \cup {Branch, NULL}], Grows, Ends(s)
    PROVE  Core'
<1>0. PlanTypeOK /\ Sound(block, floor, apartment) /\ Keys
  BY DEF Core
<1>1. req' = [req EXCEPT ![s] = Idle] /\ req \in [Slots -> Request]
  BY <1>0 DEF Ends, Become, PlanTypeOK
<1>2. floor' \in FloorTable
  BY <1>0 DEF PlanTypeOK, FloorTable
<1>3. PlanTypeOK'
  BY <1>0, <1>1, <1>2, IdleGood DEF PlanTypeOK
<1>4. /\ Sound(block, floor, NoApartments)'
      /\ \A q \in Request : (\E t \in Slots \ {s} : q = req[t]) => LevelOK(q)'
  BY <1>3, RowWritten
<1>5. PICK A \in ApartmentTable : A = apartment
  BY <1>0 DEF PlanTypeOK
<1>6. Sound({}, NoFloors, A)'
  <2>1. NoFloors \in FloorTable /\ Rows(NoFloors) = {}
    BY DEF NoFloors, FloorTable, Rows
  <2>2. Sound({}, NoFloors, A)
    BY <1>0, <1>5, <2>1 DEF Sound
  <2>. QED
    BY <2>1, <2>2, <1>0, SoundKept
<1>7. Sound(block, floor, apartment)'
  BY <1>4, <1>5, <1>6 DEF Sound
<1>8. Keys'
  <2>1. ASSUME NEW a \in Rows(apartment)
        PROVE  floor'[apartment[a].floor] # NULL
    <3>1. apartment[a].floor \in Floors /\ floor[apartment[a].floor] # NULL
      BY <2>1, <1>0, RowTyped DEF Keys, ApartmentRow
    <3>. QED
      BY <3>1, <1>0, FloorPlanAssumption DEF PlanTypeOK, FloorTable
  <2>2. ASSUME NEW g \in Rows(floor')
        PROVE  floor'[g].block \in block
    BY <2>2, <1>0 DEF Keys, PlanTypeOK, FloorTable, Rows
  <2>. QED
    BY <2>1, <2>2 DEF Keys
<1>9. ASSUME NEW q \in Request, NEW t \in Slots \ {s}, q = req[t]
      PROVE  NumbersOK(q)'
  <2>1. Good(q)
    BY <1>9 DEF Core
  <2>. QED
    BY <2>1, <1>0, <1>3, NumbersKept DEF Good
<1>. QED
  BY <1>1, <1>3, <1>4, <1>7, <1>8, <1>9, IdleGood, SlotStep

LEMMA InsertFloorStep ==
    ASSUME Core, NEW s \in Slots, InsertFloor(s)
    PROVE  Core' /\ Grows
<1>q. PICK q \in Request : q = req[s]
  BY DEF Core, PlanTypeOK
<1>0. q.op = "insertFloor" /\ LoadedOK(q) /\ PlanTypeOK /\ q.row \in FloorRow
  BY <1>q DEF InsertFloor, Core, Good, Request, LoadedOK
<1>1. CASE UNCHANGED <<floor, origin, patched>>
  BY <1>1, QuietEnd DEF InsertFloor, tables, planHistory
<1>2. ASSUME NEW f \in Fresh(Floors), q.row.block \in block,
             floor' = [floor EXCEPT ![f] = q.row],
             origin' = [origin EXCEPT ![f] = q.row.block],
             patched' = patched \cup ({f} \X q.row.hotspots)
      PROVE  Core' /\ Grows
  <2>1. f \in Floors /\ f \in Ids /\ origin[f] = NULL /\ q.row.block \in Ids
    BY <1>2, <1>0 DEF Fresh, Ids, FloorRow
  <2>2. UNCHANGED <<block, apartment, crowded>> /\ Ends(s)
    BY DEF InsertFloor
  <2>8. patched' \subseteq Floors \X Apartments
    BY <1>0, <1>2, <2>1 DEF PlanTypeOK, FloorRow
  <2>3. Grows
    BY <1>0, <1>2, <2>1, <2>2 DEF Grows, PlanTypeOK
  <2>4. origin' \in [Ids -> Ids \cup {Branch, NULL}]
    BY <1>0, <1>2, <2>1 DEF PlanTypeOK
  <2>5. FloorOK(f, q.row)'
    BY <1>0, <1>2, <2>1 DEF FloorOK, LoadedOK, PlanTypeOK
  <2>6. origin'[q.row.block] = Branch
    <3>1. q.row.block # f
      BY <1>0, <2>1, FloorPlanAssumption DEF FloorRow
    <3>. QED
      BY <3>1, <1>0, <1>2, <2>1 DEF LoadedOK, PlanTypeOK
  <2>7. Writes(q) /\ q.op # "checkLevel"
    BY <1>0 DEF Writes
  <2>. QED
    BY <1>0, <1>2, <1>q, <2>1, <2>2, <2>3, <2>4, <2>5, <2>6, <2>7, <2>8, RowSaved
<1>. QED
  BY <1>1, <1>2, <1>q DEF InsertFloor

LEMMA SaveFloorStep ==
    ASSUME Core, NEW s \in Slots, SaveFloor(s)
    PROVE  Core' /\ Grows
<1>q. PICK q \in Request : q = req[s]
  BY DEF Core, PlanTypeOK
<1>u. UNCHANGED <<block, apartment, planHistory>> /\ Ends(s)
  BY DEF SaveFloor
<1>0. /\ q.op = "saveFloor" /\ LoadedOK(q) /\ PlanTypeOK /\ Keys
      /\ q.row \in FloorRow /\ q.floor \in Floors
  BY <1>q DEF SaveFloor, Core, Good, Request, LoadedOK, Loads
<1>1. CASE floor' = floor
  BY <1>1, <1>u, QuietEnd DEF tables, planHistory
<1>2. CASE Storable(q.floor, q.row) /\ floor' = [floor EXCEPT ![q.floor] = q.row]
  <2>1. Grows /\ UNCHANGED <<crowded, patched, origin>>
    BY <1>u DEF Grows, planHistory
  <2>7. patched' \subseteq Floors \X Apartments
    BY <2>1, <1>0 DEF PlanTypeOK
  <2>2. FloorOK(q.floor, q.row) /\ origin[q.row.block] = Branch
    BY <1>0 DEF LoadedOK, Loads
  <2>3. FloorOK(q.floor, q.row)'
    BY <2>2, <2>1, <1>0, FloorKept
  <2>4. q.row.block \in block
    <3>1. CASE floor[q.floor] # NULL
      <4>1. q.floor \in Rows(floor) /\ origin[q.floor] = floor[q.floor].block
        BY <3>1, <1>0, RowTyped DEF Core, Sound, FloorOK
      <4>. QED
        BY <4>1, <1>0, <2>2 DEF Keys, FloorOK
    <3>. QED
      BY <3>1, <1>2 DEF Storable
  <2>5. Writes(q) /\ q.op # "checkLevel"
    BY <1>0 DEF Writes
  <2>6. origin' \in [Ids -> Ids \cup {Branch, NULL}]
    BY <1>0, <2>1 DEF PlanTypeOK
  <2>. QED
    BY <1>0, <1>2, <1>q, <1>u, <2>1, <2>2, <2>3, <2>4, <2>5, <2>6, <2>7, RowSaved
<1>. QED
  BY <1>1, <1>2, <1>q DEF SaveFloor


\* Floors and their apartments go; their blocks stay, or have no other floors.
LEMMA FloorsDeleted ==
    ASSUME Core, UNCHANGED <<req, planHistory>>, NEW s \in Slots, NEW S \in SUBSET Floors,
           DeleteFloors(S), block' \subseteq block,
           \A f \in Rows(floor) \ S : floor[f].block \in block'
    PROVE  Core' /\ Grows
<1>0. PlanTypeOK /\ Keys
  BY DEF Core
<1>1. /\ \A f \in Floors : floor'[f] = IF f \in Floors \ S THEN floor[f] ELSE NULL
      /\ floor' \in FloorTable
  BY <1>0 DEF DeleteFloors, Only, PlanTypeOK, FloorTable
<1>2. /\ \A a \in Apartments :
           apartment'[a] = IF \E f \in S : a \in ApartmentsOn(f) THEN NULL ELSE apartment[a]
      /\ apartment' \in ApartmentTable
  BY <1>0 DEF DeleteFloors, PlanTypeOK, ApartmentTable
<1>3. Keys'
  <2>1. ASSUME NEW f \in Rows(floor')
        PROVE  floor'[f].block \in block'
    <3>1. f \in Rows(floor) \ S /\ floor'[f] = floor[f]
      BY <2>1, <1>1, <1>0 DEF Rows, PlanTypeOK, FloorTable
    <3>. QED
      BY <3>1
  <2>2. ASSUME NEW a \in Rows(apartment')
        PROVE  floor'[apartment'[a].floor] # NULL
    <3>1. a \in Rows(apartment) /\ apartment'[a] = apartment[a] /\ a \in Apartments
      BY <2>2, <1>2, <1>0 DEF Rows, PlanTypeOK, ApartmentTable
    <3>2. apartment[a].floor \in Floors /\ apartment[a].floor \notin S
      <4>1. apartment[a].floor \in Floors /\ apartment[a] # NULL
        BY <3>1, <1>0, RowTyped DEF ApartmentRow
      <4>2. apartment'[a] # NULL
        BY <2>2 DEF Rows
      <4>. QED
        BY <4>1, <4>2, <3>1, <1>2 DEF ApartmentsOn
    <3>3. floor[apartment[a].floor] # NULL
      BY <3>1, <1>0 DEF Keys
    <3>. QED
      BY <3>1, <3>2, <3>3, <1>1
  <2>. QED
    BY <2>1, <2>2 DEF Keys
<1>. QED
  BY <1>1, <1>2, <1>3, Deletion

LEMMA RemoveFloorStep ==
    ASSUME Core, NEW s \in Slots, RemoveFloor(s)
    PROVE  Core' /\ Grows
<1>0. PlanTypeOK /\ Keys
  BY DEF Core
<1>1. PICK f \in Rows(floor) : DeleteFloors({f})
  BY DEF RemoveFloor
<1>2. f \in Floors
  BY <1>0, RowTyped
<1>. QED
  BY <1>0, <1>1, <1>2, FloorsDeleted DEF RemoveFloor, Keys

LEMMA RemoveBlockStep ==
    ASSUME Core, NEW s \in Slots, RemoveBlock(s)
    PROVE  Core' /\ Grows
<1>0. PlanTypeOK /\ Keys
  BY DEF Core
<1>1. PICK b \in block : block' = block \ {b} /\ DeleteFloors(FloorsOf(b))
  BY DEF RemoveBlock
<1>2. \A f \in Rows(floor) \ FloorsOf(b) : floor[f].block \in block'
  BY <1>0, <1>1, RowTyped DEF Keys, FloorsOf
<1>3. FloorsOf(b) \subseteq Floors
  BY DEF FloorsOf
<1>. QED
  BY <1>1, <1>2, <1>3, FloorsDeleted DEF RemoveBlock

LEMMA RemoveApartmentStep ==
    ASSUME Core, NEW s \in Slots, RemoveApartment(s)
    PROVE  Core' /\ Grows
<1>0. PlanTypeOK /\ Keys
  BY DEF Core
<1>1. PICK a \in Rows(apartment) : apartment' = [apartment EXCEPT ![a] = NULL]
  BY DEF RemoveApartment
<1>2. UNCHANGED <<block, floor, req, planHistory>>
  BY DEF RemoveApartment
<1>3. /\ apartment' \in ApartmentTable
      /\ \A c \in Apartments : apartment'[c] # NULL => apartment'[c] = apartment[c]
  BY <1>0, <1>1 DEF PlanTypeOK, ApartmentTable
<1>4. Keys'
  <2>1. \A c \in Rows(apartment') : c \in Rows(apartment) /\ apartment'[c] = apartment[c]
    BY <1>0, <1>3 DEF Rows, PlanTypeOK, ApartmentTable
  <2>. QED
    BY <2>1, <1>0, <1>2 DEF Keys
<1>5. floor' \in FloorTable /\ \A f \in Floors : floor'[f] # NULL => floor'[f] = floor[f]
  BY <1>0, <1>2 DEF PlanTypeOK
<1>. QED
  BY <1>2, <1>3, <1>4, <1>5, Deletion

LEMMA CreateBlockStep ==
    ASSUME Core, NEW s \in Slots, CreateBlock(s)
    PROVE  Core' /\ Grows
<1>0. PlanTypeOK /\ Keys /\ Sound(block, floor, apartment)
  BY DEF Core
<1>1. PICK b \in Fresh(Blocks) : block' = block \cup {b} /\ origin' = [origin EXCEPT ![b] = Branch]
  BY DEF CreateBlock
<1>2. UNCHANGED <<floor, apartment, req, crowded, patched>>
  BY DEF CreateBlock
<1>3. b \in Blocks /\ b \in Ids /\ origin[b] = NULL
  BY <1>1 DEF Fresh, Ids
<1>4. Grows
  BY <1>0, <1>1, <1>2, <1>3 DEF Grows, PlanTypeOK
<1>5. PlanTypeOK'
  BY <1>0, <1>1, <1>2, <1>3 DEF PlanTypeOK
<1>6. Sound(block, floor, apartment)'
  <2>1. PICK B \in SUBSET Blocks, F \in FloorTable, A \in ApartmentTable :
          B = block /\ F = floor /\ A = apartment
    BY <1>0 DEF PlanTypeOK
  <2>2. Sound(B, F, A)'
    BY <2>1, <1>0, <1>4, SoundKept
  <2>3. origin'[b] = Branch
    BY <1>0, <1>1, <1>3 DEF PlanTypeOK
  <2>. QED
    BY <2>1, <2>2, <2>3, <1>1, <1>2 DEF Sound
<1>7. Keys'
  BY <1>0, <1>1, <1>2 DEF Keys
<1>8. ASSUME NEW q \in Request, NEW t \in Slots, q = req[t]
      PROVE  Good(q)'
  <2>1. Good(q)
    BY <1>8 DEF Core
  <2>. QED
    BY <2>1, <1>0, <1>2, <1>4, <1>5, LevelKept, NumbersKept, LoadedKept, CopiesKept DEF Good
<1>r. PICK r \in Request : r = req[s]
  BY <1>0 DEF PlanTypeOK
<1>9. ASSUME NEW q \in Request, NEW t \in Slots \ {s}, q = req[t]
      PROVE  Apart(r, q)'
  <2>1. Apart(r, q)
    BY <1>9, <1>r DEF Core
  <2>. QED
    BY <2>1, <1>4, ApartKept
<1>. QED
  BY <1>2, <1>4, <1>5, <1>6, <1>7, <1>8, <1>9, <1>r, SlotStep DEF Good


LEMMA UpdateBlockStep ==
    ASSUME Core, NEW s \in Slots, UpdateBlock(s)
    PROVE  Core' /\ Grows
<1>0. PlanTypeOK /\ Sound(block, floor, apartment)
  BY DEF Core
<1>p. PICK b \in block : Become(s, [Idle EXCEPT !.op = "saveBlock", !.from = b])
  BY DEF UpdateBlock
<1>u. UNCHANGED <<tables, origin, patched>> /\ crowded' = crowded
  BY DEF UpdateBlock, planHistory
<1>. DEFINE R == [Idle EXCEPT !.op = "saveBlock", !.from = b]
<1>1. b \in Blocks /\ origin[b] = Branch
  BY <1>0 DEF PlanTypeOK, Sound
<1>d. R \in Request
  BY <1>1, IdleGood DEF Request, Ids
<1>e. R.op = "saveBlock" /\ R.from = b /\ R.floor = NULL /\ R.apartments = NoApartments
  BY DEF Idle
<1>f. Become(s, R)
  BY <1>p
<1>. HIDE DEF R
<1>r. PICK r \in Request : r = R
  BY <1>d
<1>2. LoadedOK(r)'
  BY <1>1, <1>e, <1>r, <1>u DEF LoadedOK, Loads
<1>3. ~ Writes(r)
  BY <1>e, <1>r DEF Writes
<1>4. LevelOK(r)' /\ NumbersOK(r)' /\ CopiesOK(r)'
  <2>1. Rows(NoApartments) = {}
    BY DEF Rows, NoApartments
  <2>. QED
    BY <2>1, <1>3, <1>e, <1>r DEF LevelOK, NumbersOK, CopiesOK
<1>5. \A q \in Request : Apart(r, q)'
  BY <1>3 DEF Apart
<1>6. crowded \subseteq crowded' /\ crowded' \subseteq Blocks
  BY <1>0, <1>u DEF PlanTypeOK
<1>. QED
  BY <1>2, <1>4, <1>5, <1>6, <1>f, <1>r, <1>u, Quiet DEF Good

LEMMA SaveBlockStep ==
    ASSUME Core, NEW s \in Slots, SaveBlock(s)
    PROVE  Core' /\ Grows
<1>0. PlanTypeOK /\ Keys /\ Sound(block, floor, apartment)
  BY DEF Core
<1>q. PICK p \in Request : p = req[s]
  BY <1>0 DEF PlanTypeOK
<1>1. p.from \in Blocks /\ origin[p.from] = Branch /\ block' = block \cup {p.from}
  BY <1>q DEF SaveBlock, Core, Good, LoadedOK
<1>2. UNCHANGED <<floor, apartment, planHistory>> /\ req' = [req EXCEPT ![s] = Idle]
  BY DEF SaveBlock, Ends, Become
<1>3. Grows
  BY <1>2 DEF Grows, planHistory
<1>4. PlanTypeOK'
  BY <1>0, <1>1, <1>2, IdleGood DEF PlanTypeOK, planHistory
<1>5. Sound(block, floor, apartment)'
  <2>1. PICK B \in SUBSET Blocks, F \in FloorTable, A \in ApartmentTable :
          B = block /\ F = floor /\ A = apartment
    BY <1>0 DEF PlanTypeOK
  <2>2. Sound(B, F, A)'
    BY <2>1, <1>0, <1>3, SoundKept
  <2>3. origin'[p.from] = Branch
    BY <1>1, <1>2 DEF planHistory
  <2>. QED
    BY <2>1, <2>2, <2>3, <1>1, <1>2 DEF Sound
<1>6. Keys'
  BY <1>0, <1>1, <1>2 DEF Keys
<1>7. ASSUME NEW q \in Request, NEW t \in Slots, q = req[t]
      PROVE  LevelOK(q)' /\ NumbersOK(q)'
  <2>1. Good(q)
    BY <1>7 DEF Core
  <2>. QED
    BY <2>1, <1>0, <1>2, <1>3, <1>4, LevelKept, NumbersKept DEF Good
<1>8. req'[s] = Idle /\ \A t \in Slots \ {s} : req'[t] = req[t]
  BY <1>0, <1>2 DEF PlanTypeOK
<1>. QED
  BY <1>3, <1>4, <1>5, <1>6, <1>7, <1>8, IdleGood, SlotStep


\* Rows chosen from a table make a table.
LEMMA Chosen ==
    ASSUME PlanTypeOK, NEW S
    PROVE  /\ Only(floor, S) \in FloorTable /\ Only(apartment, S) \in ApartmentTable
           /\ \A f : f \in Rows(Only(floor, S)) <=> f \in Rows(floor) /\ f \in S
           /\ \A f \in Rows(Only(floor, S)) : Only(floor, S)[f] = floor[f]
           /\ \A a : a \in Rows(Only(apartment, S)) <=> a \in Rows(apartment) /\ a \in S
           /\ \A a \in Rows(Only(apartment, S)) : Only(apartment, S)[a] = apartment[a]
BY DEF Only, Rows, PlanTypeOK, FloorTable, ApartmentTable

LEMMA DuplicateBlockStep ==
    ASSUME Core, NEW s \in Slots, DuplicateBlock(s)
    PROVE  Core' /\ Grows
<1>0. PlanTypeOK /\ Keys /\ Sound(block, floor, apartment)
  BY DEF Core
<1>u. UNCHANGED <<tables, planHistory>>
  BY DEF DuplicateBlock
<1>. DEFINE U(b) == {a \in Rows(apartment) : apartment[a].floor \in FloorsOf(b)}
<1>p. PICK b \in block :
        Become(s, [Idle EXCEPT !.op = "insertCopy", !.from = b,
                      !.floors = Only(floor, FloorsOf(b)), !.apartments = Only(apartment, U(b))])
  BY DEF DuplicateBlock
<1>. DEFINE B == FloorsOf(b)
            C == U(b)
            R == [Idle EXCEPT !.op = "insertCopy", !.from = b, !.floors = Only(floor, B),
                     !.apartments = Only(apartment, C)]
<1>b. b \in Blocks
  BY <1>0 DEF PlanTypeOK
<1>c. \A f \in B : f \in Rows(floor) /\ floor[f].block = b
  BY <1>0, RowTyped DEF FloorsOf
<1>f. Become(s, R)
  BY <1>p
<1>. HIDE DEF B, C
<1>d. R \in Request
  BY <1>0, <1>b, Chosen, IdleGood DEF Request, Ids
<1>e. /\ R.op = "insertCopy" /\ R.floor = NULL /\ R.from = b /\ ~ R.plan
      /\ R.floors = Only(floor, B) /\ R.apartments = Only(apartment, C)
  BY DEF Idle
<1>. HIDE DEF R
<1>r. PICK r \in Request : r = R
  BY <1>d
<1>1. LoadedOK(r)' /\ LevelOK(r)' /\ NumbersOK(r)' /\ ~ Writes(r)
  BY <1>e, <1>r DEF LoadedOK, Loads, LevelOK, NumbersOK, Writes
<1>2. CopiesOK(r)'
  <2>1. ASSUME NEW f \in Rows(r.floors), NEW g \in Rows(r.floors),
               r.floors[f].level = r.floors[g].level
        PROVE  f = g \/ b \in crowded
    <3>1. /\ f \in B /\ g \in B /\ r.floors[f] = floor[f] /\ r.floors[g] = floor[g]
      BY <2>1, <1>0, <1>e, <1>r, Chosen
    <3>. QED
      BY <3>1, <2>1, <1>c, <1>0 DEF Sound
  <2>2. ASSUME NEW a \in Rows(r.apartments), NEW c \in Rows(r.apartments),
               r.apartments[a] = r.apartments[c]
        PROVE  a = c
    <3>1. /\ a \in Rows(apartment) /\ c \in Rows(apartment)
          /\ r.apartments[a] = apartment[a] /\ r.apartments[c] = apartment[c]
      BY <2>2, <1>0, <1>e, <1>r, Chosen
    <3>. QED
      BY <3>1, <2>2, <1>0 DEF Sound
  <2>. QED
    BY <2>1, <2>2, <1>b, <1>e, <1>r, <1>u DEF CopiesOK, planHistory
<1>3. crowded' = crowded /\ crowded \subseteq Blocks
  BY <1>0, <1>u DEF planHistory, PlanTypeOK
<1>4. \A q \in Request : Apart(r, q)'
  BY <1>1 DEF Apart
<1>5. UNCHANGED <<tables, origin, patched>>
  BY <1>u DEF planHistory
<1>. QED
  BY <1>1, <1>2, <1>3, <1>4, <1>5, <1>f, <1>r, Quiet DEF Good

\* A floor in the table was born.
LEMMA Born ==
    ASSUME Core, NEW f \in Floors, floor[f] # NULL
    PROVE  /\ origin[f] = floor[f].block /\ origin[f] # NULL
           /\ floor[f] \in FloorRow /\ f # NULL
BY RowTyped, FloorPlanAssumption DEF Core, Sound, FloorOK, FloorRow, Ids

\* A request that holds numbers for a floor, and nothing else.
LEMMA NumbersHeld ==
    ASSUME Core, UNCHANGED <<tables, planHistory>>, NEW s \in Slots,
           NEW f \in Floors, floor[f] # NULL, NEW numbers \in SUBSET Numbers,
           NEW unsure \in BOOLEAN, unsure \/ numbers \cap NumbersOn(f) = {},
           Become(s, [Idle EXCEPT !.op = "insertApartments", !.floor = f,
                         !.numbers = numbers, !.unsure = unsure])
    PROVE  Core' /\ Grows
<1>. DEFINE R == [Idle EXCEPT !.op = "insertApartments", !.floor = f,
                     !.numbers = numbers, !.unsure = unsure]
<1>0. PlanTypeOK
  BY DEF Core
<1>d. R \in Request
  BY IdleGood DEF Request
<1>e. /\ R.op = "insertApartments" /\ R.floor = f /\ ~ R.plan
      /\ R.numbers = numbers /\ R.unsure = unsure /\ R.apartments = NoApartments
  BY DEF Idle
<1>. HIDE DEF R
<1>r. PICK r \in Request : r = R
  BY <1>d
<1>1. LoadedOK(r)'
  BY <1>e, <1>r, Born DEF LoadedOK, Loads, planHistory
<1>2. LevelOK(r)' /\ ~ Writes(r)
  BY <1>e, <1>r DEF LevelOK, Writes
<1>3. NumbersOK(r)'
  BY <1>e, <1>r DEF NumbersOK, NumbersOn, ApartmentsOn, tables
<1>4. CopiesOK(r)'
  <2>1. Rows(NoApartments) = {}
    BY DEF Rows, NoApartments
  <2>. QED
    BY <2>1, <1>e, <1>r DEF CopiesOK
<1>5. \A q \in Request : Apart(r, q)'
  BY <1>2 DEF Apart
<1>6. crowded' = crowded /\ crowded \subseteq Blocks /\ UNCHANGED <<tables, origin, patched>>
  BY <1>0 DEF planHistory, PlanTypeOK
<1>. QED
  BY <1>1, <1>2, <1>3, <1>4, <1>5, <1>6, <1>r, Quiet DEF Good, R

LEMMA CreateApartmentStep ==
    ASSUME Core, NEW s \in Slots, CreateApartment(s)
    PROVE  Core' /\ Grows
<1>1. PICK f \in Rows(floor), n \in Numbers :
        Become(s, [Idle EXCEPT !.op = "insertApartments", !.floor = f,
                      !.numbers = {n}, !.unsure = TRUE])
  BY DEF CreateApartment
<1>2. f \in Floors /\ floor[f] # NULL
  BY RowTyped DEF Core
<1>. QED
  BY <1>1, <1>2, NumbersHeld DEF CreateApartment

\* allocateFreeNumericApartmentNumbers finds as many numbers as were asked for,
\* all of them free and above every number of the floor, in one way only.
THEOREM AllocatedNumbers ==
    ASSUME PlanTypeOK, NEW f \in Floors, NEW count \in Nat,
           NEW numbers \in Allocated(f, count)
    PROVE  /\ IsFiniteSet(numbers) /\ Cardinality(numbers) = count
           /\ \A n \in numbers : n \in Nat \ {0} /\ \A m \in NumbersOn(f) : m < n
           /\ numbers \cap NumbersOn(f) = {}
           /\ Allocated(f, count) = {numbers}
<1>1. NumbersOn(f) \subseteq Nat
  <2>1. \A a \in ApartmentsOn(f) : apartment[a].number \in Numbers
    BY RowTyped DEF ApartmentsOn, ApartmentRow
  <2>2. Numbers \subseteq Nat
    BY FloorPlanAssumption
  <2>. QED
    BY <2>1, <2>2 DEF NumbersOn
<1>2. PICK top \in NumbersOn(f) \cup {0} :
        /\ \A m \in NumbersOn(f) : m <= top
        /\ numbers = (top + 1)..(top + count)
  BY DEF Allocated
<1>3. top \in Nat
  BY <1>1
<1>4. IsFiniteSet(numbers) /\ Cardinality(numbers) = count
  <2>1. /\ IsFiniteSet(numbers)
        /\ Cardinality(numbers) = IF top + 1 > top + count THEN 0
                                  ELSE (top + count) - (top + 1) + 1
    BY <1>2, <1>3, FS_Interval
  <2>. QED
    BY <2>1, <1>3
<1>5. ASSUME NEW n \in numbers
      PROVE  n \in Nat \ {0} /\ \A m \in NumbersOn(f) : m < n
  <2>1. n \in Nat /\ top < n
    BY <1>2, <1>3, <1>5
  <2>2. \A m \in NumbersOn(f) : m \in Nat /\ m <= top
    BY <1>1, <1>2
  <2>. QED
    BY <2>1, <2>2, <1>3
<1>6. numbers \cap NumbersOn(f) = {}
  BY <1>1, <1>5
<1>7. Allocated(f, count) = {numbers}
  <2>1. ASSUME NEW t \in NumbersOn(f) \cup {0}, \A m \in NumbersOn(f) : m <= t
        PROVE  t = top
    BY <1>1, <1>2, <1>3, <2>1
  <2>. QED
    BY <2>1, <1>2 DEF Allocated
<1>. QED
  BY <1>4, <1>5, <1>6, <1>7

LEMMA BulkCreateOnFloorStep ==
    ASSUME Core, NEW s \in Slots, BulkCreateOnFloor(s)
    PROVE  Core' /\ Grows
<1>1. PICK f \in Rows(floor), count \in 1..MaxBulk :
        \E numbers \in Allocated(f, count) \cap SUBSET Numbers :
            Become(s, [Idle EXCEPT !.op = "insertApartments", !.floor = f,
                          !.numbers = numbers])
  BY DEF BulkCreateOnFloor
<1>2. PICK numbers \in Allocated(f, count) \cap SUBSET Numbers :
        Become(s, [Idle EXCEPT !.op = "insertApartments", !.floor = f, !.numbers = numbers])
  BY <1>1
<1>3. f \in Floors /\ floor[f] # NULL /\ PlanTypeOK
  BY RowTyped DEF Core
<1>4. count \in Nat
  BY FloorPlanAssumption
<1>5. numbers \cap NumbersOn(f) = {}
  BY <1>3, <1>4, AllocatedNumbers
<1>6. Idle.unsure = FALSE
  BY DEF Idle
<1>7. Become(s, [Idle EXCEPT !.op = "insertApartments", !.floor = f, !.numbers = numbers,
                     !.unsure = FALSE])
  BY <1>2, <1>6 DEF Idle
<1>. QED
  BY <1>3, <1>5, <1>7, NumbersHeld DEF BulkCreateOnFloor


\* What both kinds of copy load.
LEMMA CopyTyped ==
    ASSUME Core, NEW f \in Floors, NEW g \in Floors, SameBlock(f, g)
    PROVE  /\ CopyOf(f, g) \in Request
           /\ CopyOf(f, g).floor = f /\ CopyOf(f, g).row = floor[f]
           /\ CopyOf(f, g).from = g /\ CopyOf(f, g).floors = Only(floor, {g})
           /\ CopyOf(f, g).apartments = Only(apartment, ApartmentsOn(g))
           /\ CopyOf(f, g).moves = FALSE /\ CopyOf(f, g).numbers = {}
<1>0. PlanTypeOK
  BY DEF Core
<1>1. floor[f] \in FloorRow
  BY Born DEF SameBlock
<1>2. Only(floor, {g}) \in FloorTable /\ Only(apartment, ApartmentsOn(g)) \in ApartmentTable
  BY <1>0, Chosen
<1>3. CopyOf(f, g) \in Request
  BY <1>1, <1>2, IdleGood DEF CopyOf, Request, Ids
<1>. QED
  BY <1>3 DEF CopyOf, Idle

LEMMA CopyHeld ==
    ASSUME Core, UNCHANGED tables, Grows, NEW f \in Floors, NEW g \in Floors, SameBlock(f, g),
           NEW r \in Request, r.op \in {"copyNext", "clone"}, r.floor = f, r.row = floor[f],
           r.from = g, r.floors = Only(floor, {g}),
           r.apartments = Only(apartment, ApartmentsOn(g)), ~ r.moves,
           r.op # "clone" \/ ~ r.same => InBound(r)
    PROVE  LoadedOK(r)' /\ NumbersOK(r)' /\ CopiesOK(r)'
<1>0. PlanTypeOK /\ Sound(block, floor, apartment)
  BY DEF Core
<1>1. LoadedOK(r)
  <2>1. f \in Rows(floor) /\ floor[f] # NULL /\ f # NULL /\ origin[f] # NULL
    BY <1>0, Born, RowTyped DEF SameBlock
  <2>2. FloorOK(f, floor[f]) /\ origin[floor[f].block] = Branch
    BY <2>1, <1>0 DEF Sound
  <2>. QED
    BY <2>1, <2>2 DEF LoadedOK
<1>2. LoadedOK(r)'
  BY <1>0, <1>1, LoadedKept
<1>3. NumbersOK(r)'
  BY DEF NumbersOK
<1>4. r.floors[r.from] # NULL
  <2>1. g \in Rows(floor)
    BY <1>0, RowTyped DEF SameBlock
  <2>2. g \in Rows(Only(floor, {g}))
    BY <1>0, <2>1, Chosen
  <2>. QED
    BY <2>2 DEF Rows
<1>5. ASSUME NEW a \in Rows(r.apartments)
      PROVE  /\ a \in Rows(apartment) /\ r.apartments[a] = apartment[a]
             /\ r.apartments[a].floor = g
  <2>1. a \in Rows(apartment) /\ a \in ApartmentsOn(g) /\ r.apartments[a] = apartment[a]
    BY <1>0, <1>5, Chosen
  <2>. QED
    BY <2>1 DEF ApartmentsOn
<1>6. ASSUME NEW a \in Rows(r.apartments), NEW c \in Rows(r.apartments),
             r.apartments[a] = r.apartments[c]
      PROVE  a = c
  BY <1>0, <1>5, <1>6 DEF Sound
<1>. QED
  BY <1>2, <1>3, <1>4, <1>5, <1>6 DEF CopiesOK

LEMMA CopyFromFloorStep ==
    ASSUME Core, NEW s \in Slots, CopyFromFloor(s)
    PROVE  Core' /\ Grows
<1>0. PlanTypeOK
  BY DEF Core
<1>1. PICK f \in Floors, g \in Floors :
        /\ SameBlock(f, g) /\ InBound(CopyOf(f, g))
        /\ Become(s, [CopyOf(f, g) EXCEPT !.op = "copyNext"])
  BY DEF CopyFromFloor
<1>u. UNCHANGED <<tables, planHistory>>
  BY DEF CopyFromFloor
<1>c. PICK c \in Request : c = CopyOf(f, g)
  BY <1>1, CopyTyped
<1>. DEFINE R == [c EXCEPT !.op = "copyNext"]
<1>d. R \in Request
  BY DEF Request
<1>e. /\ R.op = "copyNext" /\ R.floor = c.floor /\ R.row = c.row /\ R.from = c.from
      /\ R.floors = c.floors /\ R.apartments = c.apartments /\ R.moves = c.moves
  BY DEF Request
<1>f. Become(s, R)
  BY <1>1, <1>c
<1>. HIDE DEF R
<1>r. PICK r \in Request : r = R
  BY <1>d
<1>2. Grows
  BY <1>u DEF Grows, planHistory
<1>3. InBound(r)
  BY <1>1, <1>c, <1>e, <1>r DEF InBound, Transformed
<1>4. LoadedOK(r)' /\ NumbersOK(r)' /\ CopiesOK(r)'
  <2>1. /\ r.floor = f /\ r.row = floor[f] /\ r.from = g /\ r.floors = Only(floor, {g})
        /\ r.apartments = Only(apartment, ApartmentsOn(g)) /\ ~ r.moves
    BY <1>1, <1>c, <1>e, <1>r, CopyTyped
  <2>. QED
    BY <2>1, <1>1, <1>2, <1>3, <1>e, <1>r, <1>u, CopyHeld
<1>5. LevelOK(r)' /\ ~ Writes(r)
  BY <1>e, <1>r DEF LevelOK, Writes
<1>6. \A q \in Request : Apart(r, q)'
  BY <1>5 DEF Apart
<1>7. crowded' = crowded /\ crowded \subseteq Blocks /\ UNCHANGED <<tables, origin, patched>>
  BY <1>0, <1>u DEF planHistory, PlanTypeOK
<1>. QED
  BY <1>4, <1>5, <1>6, <1>7, <1>f, <1>r, Quiet DEF Good

LEMMA CopyNextStep ==
    ASSUME Core, NEW s \in Slots, CopyNext(s)
    PROVE  Core' /\ Grows
<1>q. PICK q \in Request : q = req[s]
  BY DEF Core, PlanTypeOK
<1>u. UNCHANGED <<tables, planHistory>>
  BY DEF CopyNext
<1>0. PlanTypeOK /\ q.op = "copyNext" /\ LoadedOK(q) /\ CopiesOK(q)
  BY <1>q DEF CopyNext, Core, Good
<1>1. CASE Ends(s)
  BY <1>1, <1>u, QuietEnd
<1>2. ASSUME NEW a \in Rows(q.apartments), NEW n, n = Transformed(q, q.apartments[a].number),
             NEW R, R \in Request, Become(s, R),
             R.floor = q.floor, R.row = q.row, R.from = q.from, R.floors = q.floors,
             R.apartments = [q.apartments EXCEPT ![a] = NULL], R.same = q.same,
             \/ R.op = "copyNext"
             \/ R.op = "saveCopy" /\ n \notin NumbersOn(q.floor) /\ R.numbers = {n}
      PROVE  Core' /\ Grows
  <2>r. PICK r \in Request : r = R
    BY <1>2
  <2>0. Grows
    BY <1>u DEF Grows, planHistory
  <2>1. LoadedOK(r)'
    <3>1. LoadedOK(r)
      BY <1>0, <1>2, <2>r DEF LoadedOK, Loads
    <3>. QED
      BY <3>1, <2>0, <1>0, LoadedKept
  <2>2. LevelOK(r)' /\ ~ Writes(r)
    BY <1>2, <2>r DEF LevelOK, Writes
  <2>3. NumbersOK(r)'
    BY <1>2, <2>r, <1>u DEF NumbersOK, NumbersOn, ApartmentsOn, tables
  <2>4. CopiesOK(r)'
    <3>1. \A c \in Rows(r.apartments) :
            c \in Rows(q.apartments) /\ r.apartments[c] = q.apartments[c]
      BY <1>2, <2>r DEF Rows, Request, ApartmentTable
    <3>2. InBound(r)
      BY <3>1, <1>0, <1>2, <2>r DEF CopiesOK, InBound, Transformed
    <3>. QED
      BY <3>1, <3>2, <1>0, <1>2, <2>r DEF CopiesOK
  <2>5. \A p \in Request : Apart(r, p)'
    BY <2>2 DEF Apart
  <2>6. crowded' = crowded /\ crowded \subseteq Blocks /\ UNCHANGED <<tables, origin, patched>>
    BY <1>0, <1>u DEF planHistory, PlanTypeOK
  <2>. QED
    BY <2>1, <2>2, <2>3, <2>4, <2>5, <2>6, <2>r, <1>2, Quiet DEF Good
<1>3. ASSUME NEW a \in Rows(q.apartments), NEW n, n = Transformed(q, q.apartments[a].number),
             IF n < 0 \/ Taken(q.floor, n)
             THEN Become(s, [q EXCEPT !.apartments = [@ EXCEPT ![a] = NULL]])
             ELSE Become(s, [[q EXCEPT !.apartments = [@ EXCEPT ![a] = NULL]] EXCEPT
                               !.op = "saveCopy", !.numbers = {n}, !.unsure = FALSE])
      PROVE  Core' /\ Grows
  <2>1. [q.apartments EXCEPT ![a] = NULL] \in ApartmentTable
    BY DEF Request, ApartmentTable
  <2>. DEFINE P == [q EXCEPT !.apartments = [@ EXCEPT ![a] = NULL]]
  <2>2. P \in Request
    BY <2>1 DEF Request
  <2>3. /\ P.op = q.op /\ P.floor = q.floor /\ P.row = q.row /\ P.from = q.from
        /\ P.floors = q.floors /\ P.same = q.same
        /\ P.apartments = [q.apartments EXCEPT ![a] = NULL]
    BY DEF Request
  <2>4. CASE n < 0 \/ Taken(q.floor, n)
    BY <1>0, <1>2, <1>3, <2>2, <2>3, <2>4
  <2>5. CASE ~ (n < 0 \/ Taken(q.floor, n))
    <3>. DEFINE W == [P EXCEPT !.op = "saveCopy", !.numbers = {n}, !.unsure = FALSE]
    <3>1. Become(s, W)
      BY <1>3, <2>5
    <3>. HIDE DEF P
    <3>2. n \in Numbers
      <4>1. q.apartments[a].number \in Nat
        <5>1. q.apartments[a].number \in Numbers
          BY <1>3 DEF Request, Rows, ApartmentTable, ApartmentRow
        <5>. QED
          BY <5>1, FloorPlanAssumption
      <4>2. n \in Int
        <5>1. q.row.level \in Levels /\ q.floors[q.from].level \in Levels
          BY <1>0 DEF LoadedOK, Loads, CopiesOK, Request, FloorTable, FloorRow
        <5>2. Levels \subseteq Nat /\ Multiplier \in Nat
          BY FloorPlanAssumption
        <5>. QED
          BY <4>1, <5>1, <5>2, <1>3 DEF Transformed
      <4>3. n >= 0
        BY <4>2, <2>5
      <4>4. InBound(q)
        BY <1>0 DEF CopiesOK
      <4>. QED
        BY <4>3, <4>4, <1>3 DEF InBound
    <3>3. W \in Request
      BY <2>2, <3>2 DEF Request
    <3>4. /\ W.op = "saveCopy" /\ W.floor = P.floor /\ W.row = P.row /\ W.from = P.from
          /\ W.floors = P.floors /\ W.same = P.same /\ W.apartments = P.apartments
          /\ W.numbers = {n}
      BY <2>2 DEF Request
    <3>5. n \notin NumbersOn(q.floor)
      BY <2>5 DEF Taken
    <3>. HIDE DEF W
    <3>. QED
      BY <1>2, <1>3, <2>3, <3>1, <3>3, <3>4, <3>5
  <2>. QED
    BY <2>4, <2>5
<1>. QED
  BY <1>1, <1>3, <1>q DEF CopyNext


LEMMA CloneFromFloorStep ==
    ASSUME Core, NEW s \in Slots, CloneFromFloor(s)
    PROVE  Core' /\ Grows
<1>0. PlanTypeOK
  BY DEF Core
<1>1. PICK f \in Floors, g \in Floors, same \in BOOLEAN, plan \in BOOLEAN :
        /\ SameBlock(f, g)
        /\ same \/ InBound(CopyOf(f, g))
        /\ Become(s, [CopyOf(f, g) EXCEPT !.op = "clone", !.same = same, !.plan = plan])
        /\ IF plan THEN Meets(s, floor[f].block, FALSE) ELSE UNCHANGED crowded
  BY DEF CloneFromFloor
<1>u. UNCHANGED <<tables, origin, patched>>
  BY DEF CloneFromFloor
<1>c. PICK c \in Request : c = CopyOf(f, g)
  BY <1>1, CopyTyped
<1>. DEFINE R == [c EXCEPT !.op = "clone", !.same = same, !.plan = plan]
<1>d. R \in Request
  BY DEF Request
<1>e. /\ R.op = "clone" /\ R.floor = c.floor /\ R.row = c.row /\ R.from = c.from
      /\ R.floors = c.floors /\ R.apartments = c.apartments /\ R.moves = c.moves
      /\ R.same = same /\ R.plan = plan
  BY DEF Request
<1>f. Become(s, R)
  BY <1>1, <1>c
<1>. HIDE DEF R
<1>r. PICK r \in Request : r = R
  BY <1>d
<1>b. floor[f] # NULL /\ floor[f].block \in Blocks
  BY <1>1, Born DEF SameBlock, FloorRow
<1>2. crowded \subseteq crowded' /\ crowded' \subseteq Blocks
  BY <1>0, <1>1, <1>b, Met DEF PlanTypeOK
<1>3. Grows
  BY <1>2, <1>u DEF Grows
<1>4. same \/ InBound(r)
  BY <1>1, <1>c, <1>e, <1>r DEF InBound, Transformed
<1>5. /\ r.floor = f /\ r.row = floor[f] /\ r.from = g /\ r.floors = Only(floor, {g})
      /\ r.apartments = Only(apartment, ApartmentsOn(g)) /\ r.moves = FALSE
      /\ r.op = "clone" /\ r.same = same /\ r.plan = plan
  BY <1>1, <1>c, <1>e, <1>r, CopyTyped
<1>6. LoadedOK(r)' /\ NumbersOK(r)' /\ CopiesOK(r)'
  BY <1>1, <1>3, <1>4, <1>5, <1>u, CopyHeld
<1>7. /\ LevelOK(r)'
      /\ \A q \in Request : (\E t \in Slots \ {s} : q = req[t]) => Apart(r, q)'
  <2>1. CASE plan
    BY <2>1, <1>1, <1>5, <1>b, <1>u, LoaderApart
  <2>2. CASE ~ plan
    <3>1. ~ Writes(r)
      BY <2>2, <1>5 DEF Writes
    <3>. QED
      BY <3>1 DEF LevelOK, Apart
  <2>. QED
    BY <2>1, <2>2
<1>. QED
  BY <1>2, <1>6, <1>7, <1>f, <1>r, <1>u, Quiet DEF Good

\* Apartments appear on the floor f with numbers that are free there.
LEMMA Inserted ==
    ASSUME Core, UNCHANGED <<crowded, block>>, patched \subseteq patched', NEW f \in Floors,
           origin[f] # NULL,
           NEW number, DOMAIN number \subseteq Fresh(Apartments),
           \A a \in DOMAIN number : number[a] \in Numbers \ NumbersOn(f),
           \A a, c \in DOMAIN number : number[a] = number[c] => a = c,
           Insert(f, number)
    PROVE  /\ Grows /\ origin' \in [Ids -> Ids \cup {Branch, NULL}]
           /\ apartment' \in ApartmentTable
           /\ Sound(block, NoFloors, apartment)'
           /\ \A a \in Rows(apartment') : apartment'[a].floor # f =>
                a \in Rows(apartment) /\ apartment'[a] = apartment[a]
           /\ \A g \in Floors \ {f} : NumbersOn(g)' = NumbersOn(g)
           /\ \A a \in DOMAIN number : a \in Apartments /\ origin'[a] = f
<1>0. PlanTypeOK /\ Sound(block, floor, apartment)
  BY DEF Core
<1>1. /\ DOMAIN number \subseteq Apartments /\ \A a \in DOMAIN number : origin[a] = NULL
      /\ Apartments \subseteq Ids
  BY DEF Fresh, Ids
<1>2. \A x \in Ids : origin'[x] = IF x \in DOMAIN number THEN f ELSE origin[x]
  BY DEF Insert
<1>3. origin' \in [Ids -> Ids \cup {Branch, NULL}]
  <2>1. f \in Ids /\ origin \in [Ids -> Ids \cup {Branch, NULL}]
    BY <1>0 DEF Ids, PlanTypeOK
  <2>. QED
    BY <2>1 DEF Insert
<1>4. Grows
  BY <1>1, <1>2 DEF Grows
<1>5. /\ \A a \in Apartments : apartment'[a] = IF a \in DOMAIN number
                                              THEN [floor |-> f, number |-> number[a]]
                                              ELSE apartment[a]
      /\ DOMAIN apartment' = Apartments
  BY DEF Insert
<1>6. apartment' \in ApartmentTable
  <2>1. \A a \in DOMAIN number : [floor |-> f, number |-> number[a]] \in ApartmentRow
    BY DEF ApartmentRow
  <2>2. apartment \in [Apartments -> ApartmentRow \cup {NULL}]
    BY <1>0 DEF PlanTypeOK, ApartmentTable
  <2>. QED
    BY <2>1, <2>2 DEF Insert, ApartmentTable
<1>7. ASSUME NEW a \in Rows(apartment')
      PROVE  /\ a \in Apartments /\ apartment'[a] # NULL /\ apartment'[a] \in ApartmentRow
             /\ a \in DOMAIN number =>
                  apartment'[a].floor = f /\ apartment'[a].number = number[a]
             /\ a \notin DOMAIN number => a \in Rows(apartment) /\ apartment'[a] = apartment[a]
  <2>1. a \in Apartments /\ apartment'[a] # NULL /\ apartment'[a] \in ApartmentRow
    BY <1>5, <1>6, <1>7 DEF Rows, ApartmentTable
  <2>2. a \in DOMAIN number => apartment'[a].floor = f /\ apartment'[a].number = number[a]
    BY <2>1, <1>5
  <2>3. a \notin DOMAIN number => a \in Rows(apartment) /\ apartment'[a] = apartment[a]
    BY <2>1, <1>5, <1>0 DEF Rows, PlanTypeOK, ApartmentTable
  <2>. QED
    BY <2>1, <2>2, <2>3
<1>8. ASSUME NEW a \in Rows(apartment')
      PROVE  origin'[a] = apartment'[a].floor
  <2>1. CASE a \in DOMAIN number
    <3>1. a \in Ids /\ apartment'[a].floor = f
      BY <2>1, <1>1, <1>7
    <3>. QED
      BY <2>1, <3>1, <1>2
  <2>2. CASE a \notin DOMAIN number
    BY <2>2, <1>0, <1>1, <1>2, <1>7, <1>8 DEF Sound
  <2>. QED
    BY <2>1, <2>2
<1>9. ASSUME NEW a \in Rows(apartment'), NEW c \in Rows(apartment'),
             apartment'[a] = apartment'[c]
      PROVE  a = c
  <2>1. ASSUME NEW x \in Rows(apartment'), NEW y \in Rows(apartment'),
               x \in DOMAIN number, y \notin DOMAIN number, apartment'[x] = apartment'[y]
        PROVE  FALSE
    <3>1. /\ y \in Apartments /\ apartment[y] # NULL
          /\ apartment[y].floor = f /\ apartment[y].number = number[x]
      BY <2>1, <1>7 DEF Rows
    <3>2. number[x] \in NumbersOn(f)
      BY <3>1 DEF NumbersOn, ApartmentsOn
    <3>. QED
      BY <2>1, <3>2
  <2>2. CASE a \in DOMAIN number /\ c \in DOMAIN number
    BY <2>2, <1>7, <1>9
  <2>3. CASE a \notin DOMAIN number /\ c \notin DOMAIN number
    BY <2>3, <1>0, <1>7, <1>9 DEF Sound
  <2>. QED
    BY <2>1, <2>2, <2>3, <1>9
<1>10. Sound(block, NoFloors, apartment)'
  <2>1. Rows(NoFloors) = {}
    BY DEF NoFloors, Rows
  <2>2. \A b \in block' : origin'[b] = Branch
    BY <1>0, <1>4, FloorPlanAssumption DEF Sound, Grows, PlanTypeOK, Ids
  <2>. QED
    BY <2>1, <2>2, <1>8, <1>9 DEF Sound
<1>11. ASSUME NEW g \in Floors \ {f}
       PROVE  NumbersOn(g)' = NumbersOn(g)
  <2>1. \A a \in Apartments : a \in ApartmentsOn(g)' <=> a \in ApartmentsOn(g)
    <3>1. ASSUME NEW a \in DOMAIN number
          PROVE  apartment[a] = NULL
      <4>1. a \in Rows(apartment) => origin[a] = apartment[a].floor /\ apartment[a].floor \in Floors
        BY <1>0, RowTyped DEF Sound, ApartmentRow
      <4>. QED
        BY <4>1, <1>0, <1>1, RowTyped, FloorPlanAssumption DEF Ids
    <3>. QED
      BY <3>1, <1>5, <1>11 DEF ApartmentsOn
  <2>2. ApartmentsOn(g)' = ApartmentsOn(g)
    BY <2>1 DEF ApartmentsOn
  <2>3. \A a \in ApartmentsOn(g) : apartment'[a] = apartment[a]
    <3>1. ASSUME NEW a \in ApartmentsOn(g), a \in DOMAIN number
          PROVE  FALSE
      BY <2>2, <3>1, <1>5, <1>11 DEF ApartmentsOn
    <3>. QED
      BY <3>1, <1>5 DEF ApartmentsOn
  <2>. QED
    BY <2>2, <2>3 DEF NumbersOn
<1>. QED
  BY <1>1, <1>2, <1>3, <1>4, <1>6, <1>7, <1>10, <1>11


\* A way to copy T onto members of S.
LEMMA CopiesAre ==
    ASSUME NEW S, NEW T, NEW of \in Copies(S, T)
    PROVE  /\ DOMAIN of \subseteq S /\ \A x \in DOMAIN of : of[x] \in T
           /\ \A x, y \in DOMAIN of : of[x] = of[y] => x = y
           /\ \A z \in T : \E x \in DOMAIN of : of[x] = z
<1>1. PICK U \in SUBSET S : of \in {g \in [U -> T] : /\ \A x, y \in U : g[x] = g[y] => x = y
                                                    /\ \A z \in T : \E x \in U : g[x] = z}
  BY DEF Copies
<1>. QED
  BY <1>1

LEMMA ToldTyped ==
    ASSUME PlanTypeOK, NEW s \in Slots, NEW r \in Request, NEW f, BecomeAfterInsert(s, r, f)
    PROVE  /\ req' \in [Slots -> Request] /\ req'[s] = r
           /\ \A t \in Slots \ {s} :
                /\ req[t].floor = f => req'[t] = [req[t] EXCEPT !.unsure = TRUE]
                /\ req[t].floor # f => req'[t] = req[t]
<1>1. ASSUME NEW t \in Slots
      PROVE  /\ req[t] \in Request
             /\ [req[t] EXCEPT !.unsure = TRUE] \in Request
  <2>1. PICK q \in Request : q = req[t]
    BY DEF PlanTypeOK
  <2>. QED
    BY <2>1, UnsureKept
<1>. QED
  BY <1>1 DEF BecomeAfterInsert

\* Slot s has inserted apartments on f, and perhaps has put the row of a floor.
LEMMA AfterInsert ==
    ASSUME Core, Grows, PlanTypeOK', Keys', NEW f \in Floors,
           Sound(block, NoFloors, apartment)', Sound(block, floor, NoApartments)',
           \A g \in Floors \ {f} : NumbersOn(g)' = NumbersOn(g),
           NEW s \in Slots, NEW r \in Request, Good(r)', ~ Writes(r),
           BecomeAfterInsert(s, r, f),
           \A q \in Request : (\E t \in Slots \ {s} : q = req[t]) => LevelOK(q)'
    PROVE  Core'
<1>0. PlanTypeOK
  BY DEF Core
<1>1. Sound(block, floor, apartment)'
  BY DEF Sound
<1>2. /\ req'[s] = r
      /\ \A t \in Slots \ {s} :
           /\ req[t].floor = f => req'[t] = [req[t] EXCEPT !.unsure = TRUE]
           /\ req[t].floor # f => req'[t] = req[t]
  BY <1>0, ToldTyped
<1>3. ASSUME NEW q \in Request, NEW t \in Slots \ {s}, q = req[t], q.floor # f
      PROVE  NumbersOK(q)'
  <2>1. NumbersOK(q) /\ LoadedOK(q)
    BY <1>3 DEF Core, Good
  <2>2. ASSUME q.op \in {"insertApartments", "saveCopy", "saveApartment"}
        PROVE  q.floor \in Floors \ {f}
    BY <2>1, <2>2, <1>3 DEF LoadedOK, Loads, Request
  <2>. QED
    BY <2>1, <2>2 DEF NumbersOK
<1>4. \A q \in Request : Apart(r, q)'
  BY DEF Apart
<1>5. \A t \in Slots \ {s} : \A q \in Request :
        q = req[t] => req'[t] = [q EXCEPT !.unsure = TRUE] \/ NumbersOK(q)'
  BY <1>2, <1>3
<1>6. \A t \in Slots \ {s} : req'[t] \in {req[t], [req[t] EXCEPT !.unsure = TRUE]}
  BY <1>2
<1>. QED
  BY <1>1, <1>2, <1>4, <1>5, <1>6, SlotStep

LEMMA FloorsSound ==
    ASSUME Core, Grows, UNCHANGED <<block, floor>>
    PROVE  Sound(block, floor, NoApartments)'
<1>0. PlanTypeOK /\ Sound(block, floor, apartment)
  BY DEF Core
<1>1. NoApartments \in ApartmentTable /\ Rows(NoApartments) = {}
  BY DEF NoApartments, ApartmentTable, Rows
<1>2. PICK B \in SUBSET Blocks, F \in FloorTable : B = block /\ F = floor
  BY <1>0 DEF PlanTypeOK
<1>3. Sound(B, F, NoApartments)
  BY <1>0, <1>1, <1>2 DEF Sound
<1>4. Sound(B, F, NoApartments)'
  BY <1>0, <1>1, <1>3, SoundKept
<1>. QED
  BY <1>2, <1>4

\* Slot s has inserted apartments on f, and becomes r.
LEMMA InsertDone ==
    ASSUME Core, UNCHANGED <<block, floor, crowded, patched>>, NEW f \in Floors,
           floor[f] # NULL, NEW numbers \in SUBSET Numbers, numbers \cap NumbersOn(f) = {},
           NEW number \in Copies(Fresh(Apartments), numbers), Insert(f, number),
           NEW s \in Slots, NEW r \in Request, ~ Writes(r), Grows => Good(r)',
           BecomeAfterInsert(s, r, f)
    PROVE  Core' /\ Grows
<1>0. PlanTypeOK /\ Sound(block, floor, apartment) /\ Keys
  BY DEF Core
<1>1. /\ DOMAIN number \subseteq Fresh(Apartments)
      /\ \A a \in DOMAIN number : number[a] \in Numbers \ NumbersOn(f)
      /\ \A a, c \in DOMAIN number : number[a] = number[c] => a = c
      /\ origin[f] # NULL
  BY CopiesAre, Born
<1>2. /\ Grows /\ origin' \in [Ids -> Ids \cup {Branch, NULL}]
      /\ apartment' \in ApartmentTable
      /\ Sound(block, NoFloors, apartment)'
      /\ \A a \in Rows(apartment') : apartment'[a].floor # f =>
           a \in Rows(apartment) /\ apartment'[a] = apartment[a]
      /\ \A g \in Floors \ {f} : NumbersOn(g)' = NumbersOn(g)
  BY <1>1, Inserted
<1>3. PlanTypeOK'
  BY <1>0, <1>2, ToldTyped DEF PlanTypeOK
<1>4. Keys'
  <2>1. \A a \in Rows(apartment') : floor[apartment'[a].floor] # NULL
    BY <1>0, <1>2 DEF Keys
  <2>. QED
    BY <2>1, <1>0 DEF Keys
<1>5. Sound(block, floor, NoApartments)'
  BY <1>2, FloorsSound
<1>6. ASSUME NEW q \in Request, NEW t \in Slots \ {s}, q = req[t]
      PROVE  LevelOK(q)'
  <2>1. LevelOK(q)
    BY <1>6 DEF Core, Good
  <2>. QED
    BY <2>1, <1>0, <1>2, <1>3, LevelKept
<1>. QED
  BY <1>2, <1>3, <1>4, <1>5, <1>6, AfterInsert

LEMMA InsertApartmentsStep ==
    ASSUME Core, NEW s \in Slots, InsertApartments(s)
    PROVE  Core' /\ Grows
<1>q. PICK q \in Request : q = req[s]
  BY DEF Core, PlanTypeOK
<1>0. q.op = "insertApartments" /\ q.floor \in Floors /\ q.numbers \in SUBSET Numbers
  BY <1>q DEF InsertApartments, Core, Good, LoadedOK, Request
<1>u. UNCHANGED <<block, floor, crowded, patched>>
  BY DEF InsertApartments
<1>1. CASE Ends(s) /\ UNCHANGED <<apartment, origin>>
  BY <1>1, <1>u, QuietEnd DEF tables, planHistory
<1>2. ASSUME Insertable(q.floor, q.numbers),
             NEW number \in Copies(Fresh(Apartments), q.numbers), Insert(q.floor, number),
             BecomeAfterInsert(s, Idle, q.floor)
      PROVE  Core' /\ Grows
  BY <1>0, <1>2, <1>u, IdleGood, InsertDone DEF Insertable
<1>. QED
  BY <1>1, <1>2, <1>q DEF InsertApartments

LEMMA SaveCopyStep ==
    ASSUME Core, NEW s \in Slots, SaveCopy(s)
    PROVE  Core' /\ Grows
<1>q. PICK q \in Request : q = req[s]
  BY DEF Core, PlanTypeOK
<1>0. /\ q.op = "saveCopy" /\ q.floor \in Floors /\ q.numbers \in SUBSET Numbers
      /\ LoadedOK(q) /\ CopiesOK(q) /\ PlanTypeOK
  BY <1>q DEF SaveCopy, Core, Good, LoadedOK, Loads, Request
<1>u. UNCHANGED <<block, floor, crowded, patched>>
  BY DEF SaveCopy
<1>1. CASE Ends(s) /\ UNCHANGED <<apartment, origin>>
  BY <1>1, <1>u, QuietEnd DEF tables, planHistory
<1>2. ASSUME Insertable(q.floor, q.numbers),
             NEW number \in Copies(Fresh(Apartments), q.numbers), Insert(q.floor, number),
             BecomeAfterInsert(s, [q EXCEPT !.op = "copyNext", !.numbers = {}], q.floor)
      PROVE  Core' /\ Grows
  <2>. DEFINE R == [q EXCEPT !.op = "copyNext", !.numbers = {}]
  <2>d. R \in Request
    BY DEF Request
  <2>e. /\ R.op = "copyNext" /\ R.floor = q.floor /\ R.row = q.row /\ R.from = q.from
        /\ R.floors = q.floors /\ R.apartments = q.apartments /\ R.same = q.same
    BY DEF Request
  <2>f. BecomeAfterInsert(s, R, q.floor)
    BY <1>2
  <2>. HIDE DEF R
  <2>r. PICK r \in Request : r = R
    BY <2>d
  <2>1. ~ Writes(r)
    BY <2>e, <2>r DEF Writes
  <2>2. ASSUME Grows
        PROVE  Good(r)'
    <3>1. LoadedOK(r)
      BY <1>0, <2>e, <2>r DEF LoadedOK, Loads
    <3>2. CopiesOK(r)
      BY <1>0, <2>e, <2>r DEF CopiesOK, InBound, Transformed
    <3>3. LoadedOK(r)' /\ CopiesOK(r)'
      BY <3>1, <3>2, <2>2, <1>0, LoadedKept, CopiesKept
    <3>4. LevelOK(r)' /\ NumbersOK(r)'
      BY <2>e, <2>r, <2>1 DEF LevelOK, NumbersOK
    <3>. QED
      BY <3>3, <3>4 DEF Good
  <2>. QED
    BY <1>0, <1>2, <1>u, <2>1, <2>2, <2>f, <2>r, InsertDone DEF Insertable
<1>. QED
  BY <1>1, <1>2, <1>q DEF SaveCopy


\* A request that is about to number an apartment, and nothing else.
LEMMA Numbering ==
    ASSUME Core, UNCHANGED <<tables, planHistory>>, NEW s \in Slots, NEW r \in Request,
           r.op \in {"checkNumber", "saveApartment"}, LoadedOK(r),
           r.unsure \/ r.numbers \cap NumbersOn(r.floor) = {},
           \A a, c \in Rows(r.apartments) : r.apartments[a] = r.apartments[c] => a = c,
           Become(s, r)
    PROVE  Core' /\ Grows
<1>0. PlanTypeOK
  BY DEF Core
<1>1. LoadedOK(r)'
  BY DEF LoadedOK, Loads, FloorOK, planHistory
<1>2. LevelOK(r)' /\ ~ Writes(r)
  BY DEF LevelOK, Writes
<1>3. NumbersOK(r)'
  BY DEF NumbersOK, NumbersOn, ApartmentsOn, tables
<1>4. CopiesOK(r)'
  BY DEF CopiesOK
<1>5. \A q \in Request : Apart(r, q)'
  BY <1>2 DEF Apart
<1>6. crowded' = crowded /\ crowded \subseteq Blocks /\ UNCHANGED <<tables, origin, patched>>
  BY <1>0 DEF planHistory, PlanTypeOK
<1>. QED
  BY <1>1, <1>2, <1>3, <1>4, <1>5, <1>6, Quiet DEF Good

LEMMA UpdateApartmentStep ==
    ASSUME Core, NEW s \in Slots, UpdateApartment(s)
    PROVE  Core' /\ Grows
<1>0. PlanTypeOK /\ Sound(block, floor, apartment) /\ Keys
  BY DEF Core
<1>1. PICK a \in Rows(apartment), n \in Numbers :
        Become(s, [Idle EXCEPT !.op = IF n # apartment[a].number THEN "checkNumber"
                                      ELSE "saveApartment",
                       !.floor = apartment[a].floor, !.from = a, !.numbers = {n},
                       !.unsure = TRUE])
  BY DEF UpdateApartment
<1>. DEFINE R == [Idle EXCEPT !.op = IF n # apartment[a].number THEN "checkNumber"
                                     ELSE "saveApartment",
                      !.floor = apartment[a].floor, !.from = a, !.numbers = {n},
                      !.unsure = TRUE]
<1>2. /\ a \in Apartments /\ a \in Ids /\ apartment[a].floor \in Floors
      /\ origin[a] = apartment[a].floor /\ floor[apartment[a].floor] # NULL
  BY <1>0, RowTyped DEF Sound, Keys, ApartmentRow, Ids
<1>d. R \in Request
  BY <1>2, IdleGood DEF Request
<1>e. /\ R.op \in {"checkNumber", "saveApartment"} /\ R.floor = apartment[a].floor
      /\ R.from = a /\ R.unsure /\ R.apartments = NoApartments
  BY DEF Idle
<1>f. Become(s, R)
  BY <1>1
<1>u. UNCHANGED <<tables, planHistory>>
  BY DEF UpdateApartment
<1>. HIDE DEF R
<1>r. PICK r \in Request : r = R
  BY <1>d
<1>3. LoadedOK(r)
  BY <1>2, <1>e, <1>r, Born DEF LoadedOK, Loads
<1>4. Rows(NoApartments) = {}
  BY DEF Rows, NoApartments
<1>. QED
  BY <1>3, <1>4, <1>e, <1>f, <1>r, <1>u, Numbering

LEMMA CheckNumberStep ==
    ASSUME Core, NEW s \in Slots, CheckNumber(s)
    PROVE  Core' /\ Grows
<1>q. PICK q \in Request : q = req[s]
  BY DEF Core, PlanTypeOK
<1>0. /\ q.op = "checkNumber" /\ LoadedOK(q) /\ UNCHANGED <<tables, planHistory>>
      /\ \A a, c \in Rows(q.apartments) : q.apartments[a] = q.apartments[c] => a = c
  BY <1>q DEF CheckNumber, Core, Good, CopiesOK
<1>1. CASE Ends(s)
  BY <1>0, <1>1, QuietEnd
<1>2. CASE /\ \A n \in q.numbers : ~ Taken(q.floor, n)
           /\ Become(s, [q EXCEPT !.op = "saveApartment", !.unsure = FALSE])
  <2>. DEFINE R == [q EXCEPT !.op = "saveApartment", !.unsure = FALSE]
  <2>d. R \in Request
    BY DEF Request
  <2>e. /\ R.op = "saveApartment" /\ R.floor = q.floor /\ R.from = q.from /\ R.row = q.row
        /\ R.numbers = q.numbers /\ R.apartments = q.apartments
    BY DEF Request
  <2>f. Become(s, R)
    BY <1>2
  <2>. HIDE DEF R
  <2>r. PICK r \in Request : r = R
    BY <2>d
  <2>1. LoadedOK(r)
    BY <1>0, <2>e, <2>r DEF LoadedOK, Loads
  <2>2. r.numbers \cap NumbersOn(r.floor) = {}
    BY <1>2, <2>e, <2>r DEF Taken
  <2>. QED
    BY <1>0, <2>1, <2>2, <2>e, <2>f, <2>r, Numbering
<1>. QED
  BY <1>1, <1>2, <1>q DEF CheckNumber

\* The row of the apartment c on f is written, with a number no other has.
LEMMA SaveApartmentStep ==
    ASSUME Core, NEW s \in Slots, SaveApartment(s)
    PROVE  Core' /\ Grows
<1>q. PICK q \in Request : q = req[s]
  BY DEF Core, PlanTypeOK
<1>0. /\ q.op = "saveApartment" /\ q.from \in Apartments /\ origin[q.from] = q.floor
      /\ q.floor \in Floors /\ q.numbers \in SUBSET Numbers
      /\ UNCHANGED <<block, floor, planHistory>>
  BY <1>q DEF SaveApartment, Core, Good, LoadedOK, Request
<1>t. PlanTypeOK /\ Sound(block, floor, apartment) /\ Keys
  BY DEF Core
<1>1. CASE Ends(s) /\ UNCHANGED apartment
  BY <1>0, <1>1, QuietEnd DEF tables
<1>2. ASSUME NEW n \in q.numbers, Numberable(q.from, q.floor, n),
             apartment' = [apartment EXCEPT ![q.from] = [floor |-> q.floor, number |-> n]],
             BecomeAfterInsert(s, Idle, q.floor)
      PROVE  Core' /\ Grows
  <2>. DEFINE c == q.from
              f == q.floor
  <2>1. /\ c \in Apartments /\ f \in Floors /\ n \in Numbers /\ floor[f] # NULL
        /\ origin[c] = f
        /\ \A a \in ApartmentsOn(f) \ {c} : apartment[a].number # n
        /\ BecomeAfterInsert(s, Idle, f)
    BY <1>0, <1>2 DEF Numberable
  <2>2. [floor |-> f, number |-> n] \in ApartmentRow
    BY <2>1 DEF ApartmentRow
  <2>3. /\ apartment' \in ApartmentTable
        /\ \A a \in Apartments : apartment'[a] = IF a = c THEN [floor |-> f, number |-> n]
                                                 ELSE apartment[a]
    BY <1>2, <1>t, <2>1, <2>2 DEF PlanTypeOK, ApartmentTable
  <2>. HIDE DEF c, f
  <2>4. Grows
    BY <1>0 DEF Grows, planHistory
  <2>5. PlanTypeOK'
    BY <1>0, <1>t, <2>1, <2>3, ToldTyped, IdleGood DEF PlanTypeOK, planHistory
  <2>6. ASSUME NEW a \in Rows(apartment')
        PROVE  /\ a \in Apartments
               /\ a = c => apartment'[a].floor = f /\ apartment'[a].number = n
               /\ a # c => a \in Rows(apartment) /\ apartment'[a] = apartment[a]
    <3>1. a \in Apartments /\ apartment'[a] # NULL
      BY <2>3, <2>6 DEF Rows, ApartmentTable
    <3>2. DOMAIN apartment = Apartments
      BY <1>t DEF PlanTypeOK, ApartmentTable
    <3>. QED
      BY <3>1, <3>2, <2>3 DEF Rows
  <2>7. Keys'
    BY <1>0, <1>t, <2>1, <2>6 DEF Keys
  <2>8. ASSUME NEW a \in Rows(apartment'), NEW d \in Rows(apartment'),
               apartment'[a] = apartment'[d]
        PROVE  a = d
    <3>1. ASSUME NEW x \in Rows(apartment'), x # c, apartment'[x] = apartment'[c],
                 c \in Rows(apartment')
          PROVE  FALSE
      <4>1. x \in ApartmentsOn(f) /\ apartment[x].number = n
        BY <3>1, <2>6 DEF ApartmentsOn, Rows
      <4>. QED
        BY <4>1, <3>1, <2>1
    <3>2. CASE a # c /\ d # c
      BY <3>2, <2>6, <2>8, <1>t DEF Sound
    <3>. QED
      BY <3>1, <3>2, <2>8
  <2>9. Sound(block, NoFloors, apartment)'
    <3>1. Rows(NoFloors) = {}
      BY DEF NoFloors, Rows
    <3>2. \A b \in block' : origin'[b] = Branch
      BY <1>0, <1>t DEF Sound, planHistory
    <3>3. \A a \in Rows(apartment') : origin'[a] = apartment'[a].floor
      BY <1>0, <1>t, <2>1, <2>6 DEF Sound, planHistory
    <3>. QED
      BY <3>1, <3>2, <3>3, <2>8 DEF Sound
  <2>10. ASSUME NEW g \in Floors \ {f}
         PROVE  NumbersOn(g)' = NumbersOn(g)
    <3>1. c \notin ApartmentsOn(g) /\ c \notin ApartmentsOn(g)'
      BY <1>t, <2>1, <2>3 DEF ApartmentsOn, Sound, Rows, PlanTypeOK, ApartmentTable
    <3>2. ApartmentsOn(g)' = ApartmentsOn(g)
      BY <3>1, <2>3 DEF ApartmentsOn
    <3>3. \A a \in ApartmentsOn(g) : apartment'[a] = apartment[a]
      BY <3>1, <2>3 DEF ApartmentsOn
    <3>. QED
      BY <3>2, <3>3 DEF NumbersOn
  <2>11. Sound(block, floor, NoApartments)'
    BY <1>0, <2>4, FloorsSound
  <2>12. ASSUME NEW p \in Request, NEW t \in Slots \ {s}, p = req[t]
         PROVE  LevelOK(p)'
    <3>1. LevelOK(p)
      BY <2>12 DEF Core, Good
    <3>. QED
      BY <3>1, <1>0, <1>t, <2>4, <2>5, LevelKept
  <2>. QED
    BY <2>1, <2>4, <2>5, <2>7, <2>9, <2>10, <2>11, <2>12, AfterInsert, IdleGood
<1>. QED
  BY <1>1, <1>2, <1>q DEF SaveApartment


\* The numbers of a clone are free, and no two are the same.
LEMMA CloneNumbers ==
    ASSUME Core, NEW q \in Request, q.op = "clone", LoadedOK(q), CopiesOK(q),
           NEW of \in Copies(Fresh(Apartments), Cloned(q))
    PROVE  LET number == [a \in DOMAIN of |-> CloneNumber(q, of[a])] IN
           /\ DOMAIN number \subseteq Fresh(Apartments)
           /\ \A a \in DOMAIN number : number[a] \in Numbers \ NumbersOn(q.floor)
           /\ \A a, c \in DOMAIN number : number[a] = number[c] => a = c
<1>1. ASSUME NEW a \in Rows(q.apartments)
      PROVE  /\ q.apartments[a] \in ApartmentRow /\ q.apartments[a].floor = q.from
             /\ q.apartments[a].number \in Numbers /\ q.apartments[a].number \in Nat
  <2>1. q.apartments[a] \in ApartmentRow
    BY <1>1 DEF Request, Rows, ApartmentTable
  <2>2. Numbers \subseteq Nat
    BY FloorPlanAssumption
  <2>. QED
    BY <2>1, <2>2, <1>1 DEF ApartmentRow, CopiesOK
<1>2. (q.row.level - q.floors[q.from].level) * Multiplier \in Int
  <2>1. q.row.level \in Levels /\ q.floors[q.from].level \in Levels
    <3>1. q.row \in FloorRow
      BY DEF LoadedOK, Loads, Request
    <3>2. q.floors[q.from] \in FloorRow
      BY DEF CopiesOK, Request, FloorTable
    <3>. QED
      BY <3>1, <3>2 DEF FloorRow
  <2>2. Levels \subseteq Nat /\ Multiplier \in Nat
    BY FloorPlanAssumption
  <2>3. PICK k \in Nat, l \in Nat : k = q.row.level /\ l = q.floors[q.from].level
    BY <2>1, <2>2
  <2>4. (k - l) * Multiplier \in Int
    BY <2>2
  <2>. QED
    BY <2>3, <2>4
<1>3. PICK d \in Int : \A a \in Rows(q.apartments) :
        CloneNumber(q, a) = q.apartments[a].number + d
  <2>1. CASE q.same
    <3>1. \A a \in Rows(q.apartments) : CloneNumber(q, a) = q.apartments[a].number
      BY <2>1 DEF CloneNumber
    <3>2. \A a \in Rows(q.apartments) : q.apartments[a].number + 0 = q.apartments[a].number
      BY <1>1
    <3>3. \A a \in Rows(q.apartments) : CloneNumber(q, a) = q.apartments[a].number + 0
      BY <3>1, <3>2
    <3>4. WITNESS 0 \in Int
    <3>. QED
      BY <3>3
  <2>2. CASE ~ q.same
    <3>1. \A a \in Rows(q.apartments) :
             CloneNumber(q, a) = q.apartments[a].number
                                 + (q.row.level - q.floors[q.from].level) * Multiplier
      BY <2>2 DEF CloneNumber, Transformed
    <3>. QED
      BY <3>1, <1>2
  <2>. QED
    BY <2>1, <2>2
<1>4. ASSUME NEW a \in Cloned(q)
      PROVE  /\ a \in Rows(q.apartments) /\ CloneNumber(q, a) \in Numbers
             /\ CloneNumber(q, a) \notin NumbersOn(q.floor)
  <2>1. a \in Rows(q.apartments) /\ CloneNumber(q, a) >= 0
    BY DEF Cloned
  <2>2. CASE q.same
    BY <2>1, <2>2, <1>1 DEF Cloned, CloneNumber, Taken
  <2>3. CASE ~ q.same
    BY <2>1, <2>3 DEF Cloned, CloneNumber, Taken, CopiesOK, InBound
  <2>. QED
    BY <2>2, <2>3
<1>5. ASSUME NEW a \in Cloned(q), NEW c \in Cloned(q), CloneNumber(q, a) = CloneNumber(q, c)
      PROVE  a = c
  <2>1. a \in Rows(q.apartments) /\ c \in Rows(q.apartments)
    BY <1>4
  <2>2. q.apartments[a].number = q.apartments[c].number
    BY <2>1, <1>1, <1>3, <1>5
  <2>3. q.apartments[a] = q.apartments[c]
    BY <2>1, <2>2, <1>1 DEF ApartmentRow
  <2>. QED
    BY <2>1, <2>3 DEF CopiesOK
<1>6. /\ DOMAIN of \subseteq Fresh(Apartments) /\ \A a \in DOMAIN of : of[a] \in Cloned(q)
      /\ \A a, c \in DOMAIN of : of[a] = of[c] => a = c
  BY CopiesAre
<1>. QED
  BY <1>4, <1>5, <1>6


\* The plan of the source, as the copies have it, is a row of their floor.
LEMMA PlanRow ==
    ASSUME Core, NEW q \in Request, q.op = "clone", LoadedOK(q), CopiesOK(q), LoadedOK(q)',
           NEW of \in Copies(Fresh(Apartments), Cloned(q)),
           \A a \in DOMAIN of : a \in Apartments /\ origin'[a] = q.floor,
           {q.floor} \X (q.floors[q.from].hotspots \ Cloned(q)) \subseteq patched'
    PROVE  LET row == [q.row EXCEPT !.hotspots = Remap(of, q.floors[q.from].hotspots)] IN
           /\ row \in FloorRow /\ row.block = q.row.block /\ row.level = q.row.level
           /\ FloorOK(q.floor, row)'
<1>. DEFINE hs == q.floors[q.from].hotspots
            row == [q.row EXCEPT !.hotspots = Remap(of, hs)]
<1>1. hs \subseteq Apartments /\ q.row \in FloorRow
  <2>1. q.row \in FloorRow
    BY DEF LoadedOK, Loads, Request
  <2>2. q.floors[q.from] \in FloorRow
    BY DEF CopiesOK, Request, FloorTable
  <2>. QED
    BY <2>1, <2>2 DEF FloorRow
<1>2. Remap(of, hs) \subseteq Apartments
  BY <1>1 DEF Remap
<1>3. /\ row \in FloorRow /\ row.block = q.row.block /\ row.level = q.row.level
      /\ row.hotspots = Remap(of, hs)
  BY <1>1, <1>2 DEF FloorRow
<1>. HIDE DEF row
<1>4. origin'[q.floor] = row.block
  BY <1>3 DEF LoadedOK, Loads, FloorOK
<1>5. ASSUME NEW h \in Remap(of, hs)
      PROVE  origin'[h] = q.floor \/ <<q.floor, h>> \in patched'
  <2>1. \A z \in Cloned(q) : \E x \in DOMAIN of : of[x] = z
    BY CopiesAre
  <2>2. CASE h \in DOMAIN of
    BY <2>2
  <2>3. CASE h \notin DOMAIN of
    <3>1. h \in hs \ Cloned(q)
      BY <1>5, <2>1, <2>3 DEF Remap
    <3>. QED
      BY <3>1
  <2>. QED
    BY <2>2, <2>3
<1>6. FloorOK(q.floor, row)'
  BY <1>3, <1>4, <1>5 DEF FloorOK
<1>. QED
  BY <1>3, <1>6 DEF row

LEMMA CommitCloneStep ==
    ASSUME Core, NEW s \in Slots, CommitClone(s)
    PROVE  Core' /\ Grows
<1>q. PICK q \in Request : q = req[s]
  BY DEF Core, PlanTypeOK
<1>0. /\ q.op = "clone" /\ q.floor \in Floors /\ q.row \in FloorRow
      /\ LoadedOK(q) /\ CopiesOK(q) /\ PlanTypeOK /\ Keys /\ origin[q.floor] # NULL
  BY <1>q DEF CommitClone, Core, Good, LoadedOK, Loads, Request
<1>u. UNCHANGED <<block, crowded>>
  BY DEF CommitClone
<1>. DEFINE f == q.floor
            source == q.floors[q.from]
            row(of) == [q.row EXCEPT !.hotspots = Remap(of, source.hotspots)]
            number(of) == [a \in DOMAIN of |-> CloneNumber(q, of[a])]
<1>1. CASE Ends(s) /\ UNCHANGED <<floor, apartment, origin, patched>>
  BY <1>1, <1>u, QuietEnd DEF tables, planHistory
<1>2. ASSUME Cloned(q) # {} => floor[f] # NULL,
             q.plan => Storable(f, q.row),
             NEW of \in Copies(Fresh(Apartments), Cloned(q)),
             Insert(f, number(of)),
             floor' = IF q.plan THEN [floor EXCEPT ![f] = row(of)] ELSE floor,
             patched' = IF q.plan THEN patched \cup ({f} \X (source.hotspots \ Cloned(q)))
                        ELSE patched,
             BecomeAfterInsert(s, Idle, f)
      PROVE  Core' /\ Grows
  <2>1. PICK n : n = number(of)
    OBVIOUS
  <2>2. /\ DOMAIN n \subseteq Fresh(Apartments) /\ DOMAIN n = DOMAIN of
        /\ \A a \in DOMAIN n : n[a] \in Numbers \ NumbersOn(f)
        /\ \A a, c \in DOMAIN n : n[a] = n[c] => a = c
        /\ Insert(f, n)
    BY <1>0, <1>2, <2>1, CloneNumbers
  <2>3. /\ Grows /\ origin' \in [Ids -> Ids \cup {Branch, NULL}]
        /\ apartment' \in ApartmentTable
        /\ Sound(block, NoFloors, apartment)'
        /\ \A a \in Rows(apartment') : apartment'[a].floor # f =>
             a \in Rows(apartment) /\ apartment'[a] = apartment[a]
        /\ \A g \in Floors \ {f} : NumbersOn(g)' = NumbersOn(g)
        /\ \A a \in DOMAIN n : a \in Apartments /\ origin'[a] = f
    <3>1. patched \subseteq patched'
      BY <1>2
    <3>. QED
      BY <3>1, <1>0, <1>u, <2>2, Inserted
  <2>4. LoadedOK(q)'
    BY <1>0, <2>3, LoadedKept
  <2>5. /\ q.plan => row(of) \in FloorRow /\ FloorOK(f, row(of))'
        /\ q.plan => row(of).block = q.row.block /\ row(of).level = q.row.level
    <3>1. \A a \in DOMAIN of : a \in Apartments /\ origin'[a] = q.floor
      BY <2>2, <2>3
    <3>2. q.plan => {f} \X (source.hotspots \ Cloned(q)) \subseteq patched'
      BY <1>2
    <3>. QED
      BY <1>0, <1>2, <2>4, <3>1, <3>2, PlanRow
  <2>. HIDE DEF row, number, source
  <2>6. PlanTypeOK'
    <3>1. floor' \in FloorTable
      BY <1>0, <1>2, <2>5 DEF PlanTypeOK, FloorTable
    <3>2. patched' \subseteq Floors \X Apartments
      <4>1. q.floors[q.from] \in FloorRow
        BY <1>0 DEF CopiesOK, Request, FloorTable
      <4>2. source.hotspots \subseteq Apartments
        BY <4>1 DEF FloorRow, source
      <4>. QED
        BY <4>2, <1>0, <1>2 DEF PlanTypeOK
    <3>3. req' \in [Slots -> Request]
      BY <1>0, <1>2, IdleGood, ToldTyped
    <3>. QED
      BY <3>1, <3>2, <3>3, <1>0, <1>u, <2>3 DEF PlanTypeOK
  <2>7. /\ Sound(block, floor, NoApartments)'
        /\ \A p \in Request : (\E t \in Slots \ {s} : p = req[t]) => LevelOK(p)'
    <3>1. CASE q.plan
      <4>1. Writes(q) /\ q.op # "checkLevel"
        BY <1>0, <3>1 DEF Writes
      <4>2. origin'[row(of).block] = Branch
        BY <1>0, <2>4, <2>5, <3>1 DEF LoadedOK, Loads
      <4>. QED
        BY <3>1, <4>1, <4>2, <1>0, <1>2, <1>q, <1>u, <2>3, <2>5, <2>6, RowWritten
    <3>2. CASE ~ q.plan
      <4>1. floor' = floor
        BY <1>2, <3>2
      <4>2. ASSUME NEW p \in Request, NEW t \in Slots \ {s}, p = req[t]
            PROVE  LevelOK(p)'
        <5>1. LevelOK(p)
          BY <4>2 DEF Core, Good
        <5>. QED
          BY <5>1, <4>1, <1>0, <2>3, <2>6, LevelKept
      <4>. QED
        BY <4>1, <4>2, <1>u, <2>3, FloorsSound
    <3>. QED
      BY <3>1, <3>2
  <2>8. Keys'
    <3>1. ASSUME NEW g \in Floors, floor[g] # NULL
          PROVE  floor'[g] # NULL
      BY <3>1, <1>0, <1>2, <2>5, FloorPlanAssumption DEF PlanTypeOK, FloorTable
    <3>2. ASSUME NEW a \in Rows(apartment')
          PROVE  floor'[apartment'[a].floor] # NULL
      <4>1. CASE apartment'[a].floor # f
        <5>1. /\ a \in Rows(apartment) /\ apartment'[a] = apartment[a]
              /\ floor[apartment[a].floor] # NULL
          BY <4>1, <3>2, <2>3, <1>0 DEF Keys
        <5>2. apartment[a].floor \in Floors
          BY <5>1, <1>0, RowTyped DEF ApartmentRow
        <5>. QED
          BY <3>1, <5>1, <5>2
      <4>2. CASE apartment'[a].floor = f
        <5>1. CASE q.plan
          <6>1. floor'[f] = row(of)
            BY <5>1, <1>0, <1>2 DEF PlanTypeOK, FloorTable
          <6>. QED
            BY <4>2, <5>1, <6>1, <2>5, FloorPlanAssumption
        <5>2. CASE Cloned(q) # {}
          BY <4>2, <5>2, <1>0, <1>2, <3>1
        <5>3. CASE Cloned(q) = {}
          <6>1. DOMAIN n = {}
            BY <5>3, <2>2, CopiesAre, <1>2
          <6>2. apartment' = apartment
            BY <6>1, <2>2, <1>0 DEF Insert, PlanTypeOK, ApartmentTable
          <6>3. a \in Rows(apartment) /\ floor[f] # NULL
            BY <6>2, <3>2, <4>2, <1>0 DEF Keys
          <6>. QED
            BY <6>3, <4>2, <1>0, <3>1
        <5>. QED
          BY <5>1, <5>2, <5>3
      <4>. QED
        BY <4>1, <4>2
    <3>3. ASSUME q.plan
          PROVE  q.row.block \in block
      <4>1. CASE floor[f] # NULL
        <5>1. f \in Rows(floor) /\ origin[f] = floor[f].block /\ origin[f] = q.row.block
          BY <4>1, <1>0, RowTyped, Born DEF LoadedOK, Loads, FloorOK
        <5>. QED
          BY <5>1, <1>0 DEF Keys
      <4>. QED
        BY <4>1, <3>3, <1>2 DEF Storable
    <3>4. ASSUME NEW g \in Rows(floor')
          PROVE  floor'[g].block \in block'
      <4>1. CASE q.plan /\ g = f
        <5>1. floor'[g] = row(of)
          BY <4>1, <1>0, <1>2 DEF PlanTypeOK, FloorTable
        <5>. QED
          BY <4>1, <5>1, <3>3, <2>5, <1>u
      <4>2. CASE ~ (q.plan /\ g = f)
        <5>1. g \in Rows(floor) /\ floor'[g] = floor[g]
          BY <4>2, <3>4, <1>0, <1>2, <2>6 DEF Rows, PlanTypeOK, FloorTable
        <5>. QED
          BY <5>1, <1>0, <1>u DEF Keys
      <4>. QED
        BY <4>1, <4>2
    <3>. QED
      BY <3>2, <3>4 DEF Keys
  <2>. QED
    BY <1>0, <1>2, <2>3, <2>6, <2>7, <2>8, IdleGood, AfterInsert
<1>. QED
  BY <1>1, <1>2, <1>q DEF CommitClone


\* The transaction of a duplicate; q is the request.
LEMMA InsertDuplicateStep ==
    ASSUME Core, NEW s \in Slots, InsertDuplicate(s)
    PROVE  Core' /\ Grows
<1>q. PICK q \in Request : q = req[s]
  BY DEF Core, PlanTypeOK
<1>0. /\ q.op = "insertCopy" /\ CopiesOK(q) /\ PlanTypeOK /\ Keys
      /\ Sound(block, floor, apartment)
  BY <1>q DEF InsertDuplicate, Core, Good
<1>o. PICK b \in Fresh(Blocks), level \in Copies(Fresh(Floors), Rows(q.floors)),
           unit \in Copies(Fresh(Apartments), Rows(q.apartments)) :
        \E on \in [DOMAIN unit -> DOMAIN level] : Duplicated(q, b, level, unit, on)
  BY <1>q DEF InsertDuplicate
<1>p. PICK on \in [DOMAIN unit -> DOMAIN level] : Duplicated(q, b, level, unit, on)
  BY <1>o
<1>e. Ends(s)
  BY DEF InsertDuplicate
<1>. DEFINE V == DOMAIN level
            U == DOMAIN unit
            row(f) == q.floors[level[f]]
            units(f) == {a \in U : on[a] = f}
            copy(f) == [a \in units(f) |-> unit[a]]
<1>1. /\ V \subseteq Floors /\ \A f \in V : origin[f] = NULL /\ level[f] \in Rows(q.floors)
      /\ \A f, g \in V : level[f] = level[g] => f = g
      /\ U \subseteq Apartments /\ \A a \in U : origin[a] = NULL /\ unit[a] \in Rows(q.apartments)
      /\ \A a, c \in U : unit[a] = unit[c] => a = c
      /\ b \in Blocks /\ origin[b] = NULL /\ \A a \in U : on[a] \in V
  BY CopiesAre DEF Fresh
<1>2. /\ b \notin V /\ b \notin U /\ U \cap V = {} /\ b \in Ids /\ V \subseteq Ids /\ U \subseteq Ids
      /\ Branch # NULL /\ b # NULL /\ NULL \notin V
  BY <1>1, FloorPlanAssumption DEF Ids
<1>3. /\ origin'[b] = Branch /\ \A f \in V : origin'[f] = b
      /\ \A a \in U : origin'[a] = on[a]
      /\ \A x \in Ids : x # b /\ x \notin V /\ x \notin U => origin'[x] = origin[x]
  BY <1>1, <1>2, <1>p DEF Duplicated
<1>4. Grows
  BY <1>1, <1>2, <1>3, <1>p DEF Grows, Duplicated
<1>5. ASSUME NEW f \in V
      PROVE  /\ row(f) \in FloorRow
             /\ floor'[f] \in FloorRow /\ floor'[f].block = b
             /\ floor'[f].level = row(f).level
             /\ floor'[f].hotspots = Remap(copy(f), row(f).hotspots)
  <2>1. row(f) \in FloorRow
    BY <1>1 DEF Request, FloorTable, Rows
  <2>2. Remap(copy(f), row(f).hotspots) \subseteq Apartments
    BY <2>1, <1>1 DEF Remap, FloorRow
  <2>3. floor'[f] = [block |-> b, level |-> row(f).level,
                     hotspots |-> Remap(copy(f), row(f).hotspots)]
    BY <1>1, <1>p DEF Duplicated
  <2>. HIDE DEF copy, row
  <2>. QED
    BY <2>1, <2>2, <2>3, <1>1 DEF FloorRow
<1>6. \A f \in Floors : f \notin V => floor'[f] = floor[f]
  BY <1>p DEF Duplicated
<1>7. ASSUME NEW a \in U
      PROVE  /\ q.apartments[unit[a]] \in ApartmentRow
             /\ apartment'[a] \in ApartmentRow /\ apartment'[a].floor = on[a]
             /\ apartment'[a].number = q.apartments[unit[a]].number
             /\ level[on[a]] = q.apartments[unit[a]].floor
  <2>1. q.apartments[unit[a]] \in ApartmentRow
    BY <1>1 DEF Request, ApartmentTable, Rows
  <2>2. /\ apartment'[a] = [floor |-> on[a], number |-> q.apartments[unit[a]].number]
        /\ level[on[a]] = q.apartments[unit[a]].floor
    BY <1>1, <1>p DEF Duplicated
  <2>. QED
    BY <2>1, <2>2, <1>1 DEF ApartmentRow
<1>8. \A a \in Apartments : a \notin U => apartment'[a] = apartment[a]
  BY <1>p DEF Duplicated
<1>9. PlanTypeOK'
  <2>1. floor' \in FloorTable
    <3>1. DOMAIN floor' = Floors /\ floor' = [f \in Floors |-> floor'[f]]
      BY <1>p DEF Duplicated
    <3>. QED
      BY <3>1, <1>0, <1>5, <1>6 DEF PlanTypeOK, FloorTable
  <2>2. apartment' \in ApartmentTable
    <3>1. DOMAIN apartment' = Apartments /\ apartment' = [a \in Apartments |-> apartment'[a]]
      BY <1>p DEF Duplicated
    <3>. QED
      BY <3>1, <1>0, <1>7, <1>8 DEF PlanTypeOK, ApartmentTable
  <2>3. origin' \in [Ids -> Ids \cup {Branch, NULL}]
    <3>1. origin' = [x \in Ids |-> origin'[x]]
      BY <1>p DEF Duplicated
    <3>. QED
      BY <3>1, <1>0, <1>1, <1>2, <1>3 DEF PlanTypeOK
  <2>4. block' \subseteq Blocks /\ crowded' \subseteq Blocks /\ patched' \subseteq Floors \X Apartments
    BY <1>0, <1>1, <1>p DEF PlanTypeOK, Duplicated
  <2>5. req' \in [Slots -> Request]
    BY <1>0, <1>e, IdleGood DEF Ends, Become, PlanTypeOK
  <2>. QED
    BY <2>1, <2>2, <2>3, <2>4, <2>5 DEF PlanTypeOK
<1>10. PICK B \in SUBSET Blocks, F \in FloorTable, A \in ApartmentTable :
         B = block /\ F = floor /\ A = apartment
  BY <1>0 DEF PlanTypeOK
<1>11. Sound(B, F, A) /\ Sound(B, F, A)'
  BY <1>0, <1>4, <1>10, SoundKept
<1>12. /\ \A f \in Floors : f \notin V /\ floor'[f] # NULL =>
            f \in Rows(F) /\ F[f] = floor'[f] /\ floor'[f].block # b /\ floor[f].block \in block
       /\ \A f \in Rows(F) : f \notin V
  <2>1. ASSUME NEW f \in Floors, floor[f] # NULL
        PROVE  /\ f \in Rows(F) /\ F[f] = floor[f] /\ floor[f].block # b /\ f \notin V
               /\ floor[f].block \in block
    <3>1. f \in Rows(F) /\ F[f] = floor[f]
      BY <2>1, <1>10, <1>0, RowTyped
    <3>2. floor[f].block \in block /\ origin[floor[f].block] = Branch
      BY <3>1, <1>0, <1>10 DEF Sound, Keys
    <3>3. f \notin V
      BY <1>1, <2>1, Born
    <3>. QED
      BY <3>1, <3>2, <3>3, <1>1, <1>2
  <2>. QED
    BY <2>1, <1>6, <1>10, <1>0, RowTyped
<1>13. ASSUME NEW f \in Floors, floor'[f] # NULL
       PROVE  FloorOK(f, floor[f])' /\ origin'[floor'[f].block] = Branch
  <2>1. CASE f \in V
    <3>1. ASSUME NEW h \in floor'[f].hotspots
          PROVE  origin'[h] = f \/ <<f, h>> \in patched'
      <4>1. /\ DOMAIN copy(f) = units(f) /\ \A a \in units(f) : copy(f)[a] = unit[a]
        OBVIOUS
      <4>2. h \in Remap(copy(f), row(f).hotspots)
        BY <2>1, <3>1, <1>5
      <4>3. CASE h \in units(f)
        BY <4>3, <1>3
      <4>4. CASE h \notin units(f)
        <5>1. h \in row(f).hotspots /\ \A a \in units(f) : unit[a] # h
          BY <4>1, <4>2, <4>4 DEF Remap
        <5>2. h \in Apartments
          BY <2>1, <5>1, <1>5 DEF FloorRow
        <5>. QED
          BY <2>1, <5>1, <5>2, <1>p DEF Duplicated
      <4>. QED
        BY <4>3, <4>4
    <3>. QED
      BY <2>1, <3>1, <1>3, <1>5 DEF FloorOK
  <2>2. CASE f \notin V
    BY <2>2, <1>11, <1>12, <1>13 DEF Sound, FloorOK
  <2>. QED
    BY <2>1, <2>2
<1>14. ASSUME NEW f \in Floors, NEW g \in Floors, floor'[f] # NULL, floor'[g] # NULL,
              floor'[f].block = floor'[g].block, floor'[f].level = floor'[g].level
       PROVE  f = g \/ floor'[f].block \in crowded'
  <2>1. CASE f \in V /\ g \in V
    <3>1. row(f).level = row(g).level
      BY <2>1, <1>5, <1>14
    <3>2. level[f] = level[g] \/ q.from \in crowded
      BY <2>1, <3>1, <1>0, <1>1 DEF CopiesOK
    <3>3. q.from \in crowded => b \in crowded'
      BY <1>p DEF Duplicated
    <3>. QED
      BY <2>1, <3>2, <3>3, <1>1, <1>5
  <2>2. CASE f \notin V /\ g \notin V
    BY <2>2, <1>11, <1>12, <1>14 DEF Sound
  <2>3. CASE f \in V /\ g \notin V
    BY <2>3, <1>5, <1>12, <1>14
  <2>4. CASE f \notin V /\ g \in V
    BY <2>4, <1>5, <1>12, <1>14
  <2>. QED
    BY <2>1, <2>2, <2>3, <2>4
<1>15. ASSUME NEW a \in Apartments, apartment'[a] # NULL, a \notin U
       PROVE  /\ a \in Rows(A) /\ A[a] = apartment'[a] /\ apartment'[a].floor \in Floors
              /\ floor[apartment'[a].floor] # NULL /\ apartment'[a].floor \notin V
  <2>1. a \in Rows(apartment) /\ apartment'[a] = apartment[a] /\ apartment[a] \in ApartmentRow
    BY <1>15, <1>0, <1>8, RowTyped
  <2>2. apartment[a].floor \in Floors /\ floor[apartment[a].floor] # NULL
    BY <2>1, <1>0 DEF Keys, ApartmentRow
  <2>3. apartment[a].floor \notin V
    BY <2>2, <1>1, Born
  <2>. QED
    BY <2>1, <2>2, <2>3, <1>10
<1>16. ASSUME NEW a \in Apartments, apartment'[a] # NULL
       PROVE  origin'[a] = apartment'[a].floor
  <2>1. CASE a \in U
    BY <2>1, <1>3, <1>7
  <2>2. CASE a \notin U
    BY <2>2, <1>11, <1>15, <1>16 DEF Sound
  <2>. QED
    BY <2>1, <2>2
<1>17. ASSUME NEW a \in Apartments, NEW c \in Apartments, apartment'[a] # NULL,
              apartment'[c] # NULL, apartment'[a] = apartment'[c]
       PROVE  a = c
  <2>1. CASE a \in U /\ c \in U
    <3>1. q.apartments[unit[a]] = q.apartments[unit[c]]
      BY <2>1, <1>7, <1>17 DEF ApartmentRow
    <3>2. unit[a] = unit[c]
      BY <2>1, <3>1, <1>0, <1>1 DEF CopiesOK
    <3>. QED
      BY <2>1, <3>2, <1>1
  <2>2. CASE a \notin U /\ c \notin U
    BY <2>2, <1>11, <1>15, <1>17 DEF Sound
  <2>3. CASE a \in U /\ c \notin U
    BY <2>3, <1>1, <1>7, <1>15, <1>17
  <2>4. CASE a \notin U /\ c \in U
    BY <2>4, <1>1, <1>7, <1>15, <1>17
  <2>. QED
    BY <2>1, <2>2, <2>3, <2>4
<1>18. /\ \A f \in Rows(floor') : f \in Floors /\ floor'[f] # NULL
       /\ \A a \in Rows(apartment') : a \in Apartments /\ apartment'[a] # NULL
  BY <1>9 DEF PlanTypeOK, Rows, FloorTable, ApartmentTable
<1>19. Sound(block, floor, apartment)'
  <2>1. \A x \in block' : origin'[x] = Branch
    BY <1>3, <1>10, <1>11, <1>p DEF Sound, Duplicated
  <2>. QED
    BY <2>1, <1>13, <1>14, <1>16, <1>17, <1>18 DEF Sound
<1>20. Keys'
  <2>1. block' = block \cup {b}
    BY <1>p DEF Duplicated
  <2>2. ASSUME NEW f \in Rows(floor')
        PROVE  floor'[f].block \in block'
    <3>1. CASE f \in V
      BY <2>1, <3>1, <1>5
    <3>2. CASE f \notin V
      BY <2>1, <2>2, <3>2, <1>6, <1>12, <1>18
    <3>. QED
      BY <3>1, <3>2
  <2>3. ASSUME NEW a \in Rows(apartment')
        PROVE  floor'[apartment'[a].floor] # NULL
    <3>1. CASE a \in U
      BY <3>1, <1>1, <1>5, <1>7, FloorPlanAssumption
    <3>2. CASE a \notin U
      BY <3>2, <1>6, <1>15, <1>18
    <3>. QED
      BY <3>1, <3>2
  <2>. QED
    BY <2>2, <2>3 DEF Keys
<1>21. ASSUME NEW p \in Request, NEW t \in Slots \ {s}, p = req[t]
       PROVE  LevelOK(p)' /\ NumbersOK(p)'
  <2>1. LevelOK(p) /\ NumbersOK(p) /\ LoadedOK(p)
    BY <1>21 DEF Core, Good
  <2>2. ASSUME Writes(p)
        PROVE  p.row.block # b
    <3>1. origin[p.row.block] = Branch
      BY <2>1, <2>2 DEF Writes, LoadedOK, Loads
    <3>. QED
      BY <3>1, <1>1, <1>2
  <2>3. ASSUME Writes(p), NEW f \in FloorsOf(p.row.block)'
        PROVE  f \in FloorsOf(p.row.block) /\ floor'[f] = floor[f]
    <3>1. f \in Floors /\ floor'[f] # NULL /\ floor'[f].block = p.row.block
      BY <2>3 DEF FloorsOf
    <3>2. f \notin V
      BY <2>2, <2>3, <3>1, <1>5
    <3>. QED
      BY <3>1, <3>2, <1>6 DEF FloorsOf
  <2>4. LevelOK(p)'
    BY <2>1, <2>3, <1>4 DEF LevelOK, Grows
  <2>5. ASSUME p.op \in {"insertApartments", "saveCopy", "saveApartment"}, NEW n \in NumbersOn(p.floor)'
        PROVE  n \in NumbersOn(p.floor)
    <3>1. PICK a \in Apartments : apartment'[a] # NULL /\ apartment'[a].floor = p.floor
                                    /\ apartment'[a].number = n
      BY <2>5 DEF NumbersOn, ApartmentsOn
    <3>2. p.floor \notin V
      BY <2>1, <2>5, <1>1 DEF LoadedOK, Loads
    <3>3. a \notin U
      BY <3>1, <3>2, <1>1, <1>7
    <3>. QED
      BY <3>1, <3>3, <1>8 DEF NumbersOn, ApartmentsOn
  <2>6. NumbersOK(p)'
    BY <2>1, <2>5 DEF NumbersOK
  <2>. QED
    BY <2>4, <2>6
<1>22. /\ req'[s] = Idle /\ \A t \in Slots \ {s} : req'[t] = req[t]
  BY <1>0, <1>e DEF Ends, Become, PlanTypeOK
<1>. QED
  BY <1>4, <1>9, <1>19, <1>20, <1>21, <1>22, IdleGood, SlotStep


\* A statement of a request keeps the tables and the requests in order.
LEMMA PlanStepKept ==
    ASSUME Core, NEW s \in Slots, PlanStep(s)
    PROVE  Core' /\ Grows
BY CreateFloorStep, InsertFloorStep, UpdateFloorStep, CheckLevelStep, SaveFloorStep,
   RemoveFloorStep, CreateBlockStep, UpdateBlockStep, SaveBlockStep, RemoveBlockStep,
   DuplicateBlockStep, InsertDuplicateStep,
   CreateApartmentStep, BulkCreateOnFloorStep, InsertApartmentsStep, RemoveApartmentStep,
   UpdateApartmentStep, CheckNumberStep, SaveApartmentStep,
   CopyFromFloorStep, CopyNextStep, SaveCopyStep, CloneFromFloorStep, CommitCloneStep
   DEF PlanStep

-----------------------------------------------------------------------------
(* The dump. *)

\* Empty tables are sound, and nothing is missing from them.
LEMMA NothingSound ==
    /\ Nothing \in Data /\ Orphans(Nothing)
    /\ Sound(Nothing.block, Nothing.floor, Nothing.apartment)
    /\ Sound(Nothing.block, Nothing.floor, Nothing.apartment)'
    /\ Rows(NoFloors) = {} /\ Rows(NoApartments) = {}
<1>1. Rows(NoFloors) = {} /\ Rows(NoApartments) = {}
  BY DEF Rows, NoFloors, NoApartments
<1>2. Nothing \in Data
  BY DEF Nothing, Data, NoFloors, NoApartments, FloorTable, ApartmentTable
<1>3. Nothing.block = {} /\ Nothing.floor = NoFloors /\ Nothing.apartment = NoApartments
  BY DEF Nothing
<1>. QED
  BY <1>1, <1>2, <1>3 DEF Orphans, Sound

\* What a dump has read stays sound.
LEMMA DataKept ==
    ASSUME PlanTypeOK, Grows, NEW d \in Data, Sound(d.block, d.floor, d.apartment)
    PROVE  Sound(d.block, d.floor, d.apartment)'
<1>1. d.block \in SUBSET Blocks /\ d.floor \in FloorTable /\ d.apartment \in ApartmentTable
  BY DEF Data
<1>. QED
  BY <1>1, SoundKept

\* Rows that appear are watched.
LEMMA WatchStep ==
    ASSUME TypeOK, PlanTypeOK', Grows, DumpOK, Watch
    PROVE  /\ DumpOK'
           /\ dump' \in [next : {"none", "end"} \cup Tables, data : Data]
<1>. DEFINE new == (block' \ block) \cup (Rows(floor') \ Rows(floor))
                     \cup (Rows(apartment') \ Rows(apartment))
<1>0. PlanTypeOK
  BY DEF TypeOK
<1>1. PICK d \in Data : d = dump.data
  BY DEF TypeOK
<1>2. new \subseteq Ids
  BY DEF Ids, Rows, PlanTypeOK, FloorTable, ApartmentTable
<1>3. Sound(d.block, d.floor, d.apartment)'
  BY <1>0, <1>1, DataKept DEF DumpOK
<1>4. CASE dump.next \in {"floors", "apartments"}
  <2>1. dump' = [next |-> dump.next, data |-> [dump.data EXCEPT !.born = @ \cup new]]
    BY <1>4 DEF Watch
  <2>. HIDE DEF new
  <2>2. PICK e \in Data : e = [dump.data EXCEPT !.born = @ \cup new]
    <3>1. [d EXCEPT !.born = @ \cup new] \in Data
      BY <1>2 DEF Data
    <3>. QED
      BY <3>1, <1>1
  <2>3. e.block = d.block /\ e.floor = d.floor /\ e.apartment = d.apartment
          /\ e.born = d.born \cup new
    BY <1>1, <2>2 DEF Data
  <2>4. dump'.next = dump.next /\ dump'.data = e
          /\ dump' \in [next : {"none", "end"} \cup Tables, data : Data]
    <3>1. dump' = [next |-> dump.next, data |-> e]
      BY <2>1, <2>2
    <3>2. dump \in [next : {"none", "end"} \cup Tables, data : Data]
      BY DEF TypeOK
    <3>. QED
      BY <3>1, <3>2
  <2>5. block' \subseteq block \cup new /\ Rows(floor') \subseteq Rows(floor) \cup new
    BY DEF new
  <2>6. Orphans(e)
    BY <2>3, <1>1 DEF DumpOK, Orphans
  <2>7. /\ dump.next = "floors" => block' \subseteq e.block \cup e.born /\ e.floor = NoFloors
        /\ dump.next = "apartments" => Rows(floor') \subseteq Rows(e.floor) \cup e.born
        /\ e.apartment = NoApartments
    BY <2>3, <2>5, <1>1, <1>4 DEF DumpOK
  <2>8. Sound(e.block, e.floor, e.apartment)'
    BY <2>3, <1>3
  <2>9. Orphans(e)'
    BY <2>6 DEF Orphans
  <2>. QED
    BY <2>4, <2>7, <2>8, <2>9, <1>4 DEF DumpOK
<1>5. CASE dump.next \notin {"floors", "apartments"}
  <2>1. dump' = dump
    BY <1>5 DEF Watch
  <2>. QED
    BY <2>1, <1>1, <1>3, <1>5 DEF DumpOK, TypeOK, Orphans
<1>. QED
  BY <1>4, <1>5


\* The file stays sound.
LEMMA FileKept ==
    ASSUME TypeOK, Grows, FileOK, UNCHANGED file
    PROVE  FileOK'
<1>1. PICK d \in Data : d = file
  BY DEF TypeOK
<1>2. Sound(d.block, d.floor, d.apartment)'
  BY <1>1, DataKept DEF FileOK, TypeOK
<1>. QED
  BY <1>1, <1>2 DEF FileOK, Orphans

\* So does what a restore has read from it.
LEMMA RestoreKept ==
    ASSUME TypeOK, Grows, RestoreOK, restore'.data = restore.data
    PROVE  LET d == restore.data IN Sound(d.block, d.floor, d.apartment)'
<1>1. PICK d \in Data : d = restore.data
  BY DEF TypeOK
<1>2. Sound(d.block, d.floor, d.apartment)'
  BY <1>1, DataKept DEF RestoreOK, TypeOK
<1>. QED
  BY <1>1, <1>2

LEMMA CallStep ==
    ASSUME IInv, NEW s \in Slots, Call(s)
    PROVE  IInv'
<1>0. TypeOK /\ Core /\ DumpOK /\ FileOK /\ RestoreOK
  BY DEF IInv
<1>u. UNCHANGED <<calls, schema, file, dumps>> /\ schema = "ready"
  BY DEF Call
<1>1. Core' /\ Grows /\ PlanTypeOK'
  BY <1>0, PlanStepKept DEF Call, Core
<1>2. DumpOK' /\ dump' \in [next : {"none", "end"} \cup Tables, data : Data]
  BY <1>0, <1>1, WatchStep DEF Call
<1>3. FileOK'
  BY <1>0, <1>1, <1>u, FileKept
<1>4. /\ restore' \in [next : {"none", "create", "synchronize"} \cup Tables, data : Data,
                       touched : BOOLEAN]
      /\ restore'.data = restore.data /\ restore'.next = restore.next
      /\ ~ restore'.touched => ~ restore.touched
      /\ restore.next \in Tables /\ ~ restore'.touched => UNCHANGED tables
  <2>1. restore \in [next : {"none", "create", "synchronize"} \cup Tables, data : Data,
                     touched : BOOLEAN]
    BY <1>0 DEF TypeOK
  <2>2. CASE restore.next \in Tables /\ tables' # tables
    <3>1. restore' = [restore EXCEPT !.touched = TRUE]
      BY <2>2 DEF Call
    <3>. QED
      BY <2>1, <3>1
  <2>3. CASE ~ (restore.next \in Tables /\ tables' # tables)
    <3>1. restore' = restore
      BY <2>3 DEF Call
    <3>. QED
      BY <2>1, <2>3, <3>1
  <2>. QED
    BY <2>2, <2>3
<1>5. TypeOK'
  BY <1>0, <1>1, <1>2, <1>4, <1>u DEF TypeOK
<1>6. RestoreOK'
  <2>1. LET d == restore.data IN Sound(d.block, d.floor, d.apartment)'
    BY <1>0, <1>1, <1>4, RestoreKept
  <2>2. ASSUME restore.next # "none", ~ restore'.touched
        PROVE  restore.next \in Tables /\ UNCHANGED tables
    <3>1. restore.next \in {"create", "synchronize"} \cup Tables
      BY <2>2, <1>0 DEF TypeOK
    <3>2. ~ restore.touched
      BY <2>2, <1>4
    <3>3. restore.next # "create" /\ restore.next # "synchronize"
      BY <2>2, <3>2, <1>0, <1>u DEF RestoreOK, Tables
    <3>. QED
      BY <3>1, <3>3, <2>2, <1>4
  <2>. QED
    BY <2>1, <2>2, <1>0, <1>4, <1>u DEF RestoreOK, tables
<1>. QED
  BY <1>1, <1>2, <1>3, <1>5, <1>6 DEF IInv

\* Nothing happens to the tables, the requests and the histories.
LEMMA CoreSame ==
    ASSUME Core, UNCHANGED planVars
    PROVE  Core' /\ Grows
<1>1. Grows
  BY DEF Grows, planVars, planHistory
<1>2. UNCHANGED <<block, floor, apartment, req, origin, crowded, patched>>
  BY DEF planVars, tables, planHistory
<1>. QED
  BY <1>1, <1>2 DEF Core, PlanTypeOK, Sound, FloorOK, Keys, Good, LoadedOK, Loads, LevelOK,
     NumbersOK, CopiesOK, Apart, FloorsOf, NumbersOn, ApartmentsOn


\* A restore that does nothing, and no change to the tables.
LEMMA RestoreSame ==
    ASSUME TypeOK, Grows, RestoreOK, UNCHANGED <<tables, schema, restore>>
    PROVE  RestoreOK'
<1>1. LET d == restore.data IN Sound(d.block, d.floor, d.apartment)'
  BY RestoreKept
<1>. QED
  BY <1>1 DEF RestoreOK, tables

\* A dump that does nothing while no row appears.
LEMMA DumpSame ==
    ASSUME TypeOK, Grows, DumpOK, UNCHANGED dump,
           block' \subseteq block, Rows(floor') \subseteq Rows(floor)
    PROVE  DumpOK'
<1>1. PICK d \in Data : d = dump.data
  BY DEF TypeOK
<1>2. Sound(d.block, d.floor, d.apartment)'
  BY <1>1, DataKept DEF DumpOK, TypeOK
<1>. QED
  BY <1>1, <1>2 DEF DumpOK, Orphans

LEMMA LostStep ==
    ASSUME IInv, NEW s \in Slots, Lost(s)
    PROVE  IInv'
<1>0. TypeOK /\ Core /\ DumpOK /\ FileOK /\ RestoreOK
  BY DEF IInv
<1>1. UNCHANGED <<tables, planHistory>> /\ Ends(s) /\ UNCHANGED <<calls, backupVars>>
  BY DEF Lost, Drop
<1>2. Core' /\ Grows /\ PlanTypeOK'
  BY <1>0, <1>1, QuietEnd DEF Core
<1>3. UNCHANGED <<schema, dump, file, restore, dumps, block, floor>>
  BY <1>1 DEF tables, backupVars
<1>4. TypeOK'
  BY <1>0, <1>1, <1>2, <1>3 DEF TypeOK
<1>5. DumpOK' /\ FileOK' /\ RestoreOK'
  BY <1>0, <1>1, <1>2, <1>3, DumpSame, FileKept, RestoreSame
<1>. QED
  BY <1>2, <1>4, <1>5 DEF IInv

LEMMA DumpActions ==
    ASSUME IInv, CreateDump \/ ReadTable \/ WriteFile \/ DumpFails
    PROVE  IInv'
<1>0. TypeOK /\ Core /\ DumpOK /\ FileOK /\ RestoreOK /\ PlanTypeOK /\ Keys
        /\ Sound(block, floor, apartment)
  BY DEF IInv, TypeOK, Core
<1>1. UNCHANGED <<planVars, schema, restore>> /\ UNCHANGED <<tables, calls>>
  BY DEF CreateDump, ReadTable, WriteFile, DumpFails, planVars
<1>2. Core' /\ Grows /\ PlanTypeOK'
  BY <1>0, <1>1, CoreSame DEF Core
<1>3. RestoreOK'
  BY <1>0, <1>1, <1>2, RestoreSame
<1>d. PICK d \in Data : d = dump.data
  BY <1>0 DEF TypeOK
<1>s. Sound(d.block, d.floor, d.apartment)'
  BY <1>0, <1>2, <1>d, DataKept DEF DumpOK
<1>t. Sound(block, floor, apartment)'
  BY <1>2 DEF Core
<1>4. CASE CreateDump \/ DumpFails
  <2>1. /\ dump'.data = Nothing /\ dump'.next \in {"none", "blocks"}
        /\ dump' \in [next : {"none", "end"} \cup Tables, data : Data]
    BY <1>4, NothingSound DEF CreateDump, DumpFails, NoDump, Tables
  <2>2. UNCHANGED file /\ dumps' \in Nat
    BY <1>4, <1>0 DEF CreateDump, DumpFails, TypeOK
  <2>3. TypeOK'
    BY <1>0, <1>1, <1>2, <2>1, <2>2 DEF TypeOK
  <2>4. DumpOK'
    BY <2>1, NothingSound DEF DumpOK, Orphans
  <2>. QED
    BY <1>0, <1>2, <1>3, <2>2, <2>3, <2>4, FileKept DEF IInv
<1>5. CASE WriteFile
  <2>1. file' = d /\ dump' = NoDump /\ UNCHANGED dumps
    BY <1>5, <1>d DEF WriteFile
  <2>2. /\ dump'.data = Nothing /\ dump'.next = "none"
        /\ dump' \in [next : {"none", "end"} \cup Tables, data : Data]
    BY <2>1, NothingSound DEF NoDump
  <2>3. TypeOK'
    BY <1>0, <1>1, <1>2, <2>1, <2>2 DEF TypeOK
  <2>4. DumpOK'
    BY <2>2, NothingSound DEF DumpOK, Orphans
  <2>5. FileOK'
    BY <1>0, <1>d, <1>s, <2>1 DEF FileOK, DumpOK, Orphans
  <2>. QED
    BY <1>2, <1>3, <2>3, <2>4, <2>5 DEF IInv
<1>6. CASE ReadTable
  <2>0. UNCHANGED <<file, dumps>> /\ dump.next \in Tables /\ UNCHANGED <<block, floor, apartment>>
    BY <1>6, <1>1 DEF ReadTable, tables
  <2>1. CASE dump.next = "blocks"
    <3>e. PICK e \in Data : e = [d EXCEPT !.block = block]
      BY <1>0 DEF Data, PlanTypeOK
    <3>1. dump' = [next |-> "floors", data |-> e]
      BY <3>e, <1>6, <1>d, <2>1 DEF ReadTable, After
    <3>2. d = Nothing
      BY <1>0, <1>d, <2>1 DEF DumpOK
    <3>3. /\ e.block = block /\ e.floor = NoFloors /\ e.apartment = NoApartments
          /\ e.born = d.born
      BY <3>e, <1>0, <3>2 DEF Data, Nothing, PlanTypeOK
    <3>4. dump'.next = "floors" /\ dump'.data = e
            /\ dump' \in [next : {"none", "end"} \cup Tables, data : Data]
      BY <3>1, <3>3 DEF Tables
    <3>5. TypeOK'
      BY <1>0, <1>1, <1>2, <2>0, <3>4 DEF TypeOK
    <3>6. Sound(e.block, e.floor, e.apartment)' /\ Orphans(e)'
      BY <1>t, <2>0, <3>3, NothingSound DEF Sound, Orphans
    <3>7. DumpOK'
      BY <2>0, <3>3, <3>4, <3>6 DEF DumpOK
    <3>. QED
      BY <1>0, <1>2, <1>3, <2>0, <3>5, <3>7, FileKept DEF IInv
  <2>2. CASE dump.next = "floors"
    <3>e. PICK e \in Data : e = [d EXCEPT !.floor = floor]
      BY <1>0 DEF Data, PlanTypeOK
    <3>1. dump' = [next |-> "apartments", data |-> e]
      BY <3>e, <1>6, <1>d, <2>2 DEF ReadTable, After
    <3>2. block \subseteq d.block \cup d.born /\ d.apartment = NoApartments
      BY <1>0, <1>d, <2>2 DEF DumpOK
    <3>3. /\ e.block = d.block /\ e.floor = floor /\ e.apartment = NoApartments
          /\ e.born = d.born
      BY <3>e, <1>0, <3>2 DEF Data, PlanTypeOK
    <3>4. dump'.next = "apartments" /\ dump'.data = e
            /\ dump' \in [next : {"none", "end"} \cup Tables, data : Data]
      BY <3>1, <3>3 DEF Tables
    <3>5. TypeOK'
      BY <1>0, <1>1, <1>2, <2>0, <3>4 DEF TypeOK
    <3>6. Sound(e.block, e.floor, e.apartment)'
      BY <1>s, <1>t, <2>0, <3>3, NothingSound DEF Sound
    <3>7. Orphans(e)
      BY <1>0, <3>2, <3>3, NothingSound DEF Orphans, Keys
    <3>8. DumpOK'
      BY <2>0, <3>3, <3>4, <3>6, <3>7 DEF DumpOK, Orphans
    <3>. QED
      BY <1>0, <1>2, <1>3, <2>0, <3>5, <3>8, FileKept DEF IInv
  <2>3. CASE dump.next = "apartments"
    <3>e. PICK e \in Data : e = [d EXCEPT !.apartment = apartment]
      BY <1>0 DEF Data, PlanTypeOK
    <3>1. dump' = [next |-> "end", data |-> e]
      BY <3>e, <1>6, <1>d, <2>3 DEF ReadTable, After
    <3>2. Rows(floor) \subseteq Rows(d.floor) \cup d.born
      BY <1>0, <1>d, <2>3 DEF DumpOK
    <3>3. /\ e.block = d.block /\ e.floor = d.floor /\ e.apartment = apartment
          /\ e.born = d.born
      BY <3>e, <1>0, <3>2 DEF Data, PlanTypeOK
    <3>4. dump'.next = "end" /\ dump'.data = e
            /\ dump' \in [next : {"none", "end"} \cup Tables, data : Data]
      BY <3>1, <3>3
    <3>5. TypeOK'
      BY <1>0, <1>1, <1>2, <2>0, <3>4 DEF TypeOK
    <3>6. Sound(e.block, e.floor, e.apartment)'
      BY <1>s, <1>t, <2>0, <3>3 DEF Sound
    <3>7. Orphans(e)
      <4>1. \A a \in Rows(apartment) : apartment[a].floor \in Rows(floor)
        BY <1>0, RowTyped DEF Keys, ApartmentRow
      <4>. QED
        BY <4>1, <1>0, <1>d, <3>2, <3>3 DEF Orphans, DumpOK
    <3>8. DumpOK'
      BY <3>4, <3>6, <3>7 DEF DumpOK, Orphans
    <3>. QED
      BY <1>0, <1>2, <1>3, <2>0, <3>5, <3>8, FileKept DEF IInv
  <2>. QED
    BY <2>0, <2>1, <2>2, <2>3 DEF Tables
<1>. QED
  BY <1>4, <1>5, <1>6


-----------------------------------------------------------------------------
(* The restore. *)

\* Every request keeps what it holds, or is told to be unsure.
LEMMA ToldStep ==
    ASSUME Core, Grows, PlanTypeOK', Sound(block, floor, apartment)', Keys',
           \A t \in Slots : req'[t] \in {req[t], [req[t] EXCEPT !.unsure = TRUE]},
           \A q \in Request : (\E t \in Slots : q = req[t]) => LevelOK(q)',
           \A t \in Slots : \A q \in Request :
               q = req[t] => req'[t] = [q EXCEPT !.unsure = TRUE] \/ NumbersOK(q)'
    PROVE  Core'
<1>0. PlanTypeOK
  BY DEF Core
<1>1. ASSUME NEW s \in Slots
      PROVE  Core'
  <2>q. PICK q \in Request : q = req[s]
    BY <1>0 DEF PlanTypeOK
  <2>1. Good(q)
    BY <2>q DEF Core
  <2>2. LoadedOK(q)' /\ CopiesOK(q)' /\ LevelOK(q)'
    BY <2>1, <2>q, <1>0, LoadedKept, CopiesKept DEF Good
  <2>r. PICK r \in Request : /\ r = req'[s] /\ Good(r)'
                             /\ Writes(r) = Writes(q) /\ r.row = q.row /\ r.moves = q.moves
                             /\ r.floor = q.floor
    <3>1. CASE req'[s] = q /\ NumbersOK(q)'
      BY <3>1, <2>2 DEF Good
    <3>2. CASE req'[s] = [q EXCEPT !.unsure = TRUE]
      <4>u. PICK u \in Request : u = [q EXCEPT !.unsure = TRUE]
        BY UnsureKept
      <4>1. Good(u)' /\ Writes(u) = Writes(q) /\ u.row = q.row /\ u.moves = q.moves
              /\ u.floor = q.floor
        BY <4>u, <2>2, UnsureKept DEF Good
      <4>. QED
        BY <3>2, <4>u, <4>1
    <3>. QED
      BY <3>1, <3>2, <2>q
  <2>3. ASSUME NEW p \in Request, NEW t \in Slots \ {s}, p = req[t]
        PROVE  Apart(r, p)'
    <3>1. Apart(q, p)
      BY <2>3, <2>q DEF Core
    <3>2. Apart(q, p)'
      BY <3>1, ApartKept
    <3>. QED
      BY <3>2, <2>r DEF Apart
  <2>. QED
    BY <2>r, <2>3, SlotStep
<1>2. CASE Slots = {}
  BY <1>2 DEF Core
<1>. QED
  BY <1>1, <1>2

LEMMA RestoreStep ==
    ASSUME IInv, NEW clear \in BOOLEAN, Restore(clear)
    PROVE  IInv'
<1>0. TypeOK /\ Core /\ DumpOK /\ FileOK /\ RestoreOK /\ PlanTypeOK
  BY DEF IInv, TypeOK
<1>u. UNCHANGED <<calls, req, planHistory, dump, file, dumps>>
  BY DEF Restore
<1>f. PICK d \in Data : d = file
  BY <1>0 DEF TypeOK
<1>1. Core' /\ Grows /\ block' \subseteq block /\ Rows(floor') \subseteq Rows(floor)
  <2>1. CASE clear
    <3>1. block' = {} /\ floor' = NoFloors /\ apartment' = NoApartments
      BY <2>1 DEF Restore
    <3>2. PICK s \in Slots : TRUE
      BY DEF Restore
    <3>3. floor' \in FloorTable /\ apartment' \in ApartmentTable
      BY <3>1 DEF NoFloors, NoApartments, FloorTable, ApartmentTable
    <3>4. Keys'
      BY <3>1, NothingSound DEF Keys
    <3>5. /\ \A f \in Floors : floor'[f] = NULL
          /\ \A a \in Apartments : apartment'[a] = NULL
      BY <3>1 DEF NoFloors, NoApartments
    <3>. QED
      BY <3>1, <3>2, <3>3, <3>4, <3>5, <1>0, <1>u, Deletion, NothingSound
  <2>2. CASE ~ clear
    <3>1. UNCHANGED planVars /\ UNCHANGED <<block, floor>>
      BY <2>2, <1>u DEF Restore, planVars, tables
    <3>. QED
      BY <3>1, <1>0, CoreSame
  <2>. QED
    BY <2>1, <2>2
<1>2. /\ restore' \in [next : {"none", "create", "synchronize"} \cup Tables, data : Data,
                       touched : BOOLEAN]
      /\ restore'.data = d
      /\ ~ restore'.touched => /\ restore'.next = "create" /\ schema' = "absent"
                               /\ block' = {} /\ floor' = NoFloors
                               /\ apartment' = NoApartments
      /\ schema' \in {"ready", "empty", "absent"}
  <2>1. CASE clear
    <3>1. restore' = [next |-> "create", data |-> d, touched |-> FALSE]
      BY <2>1, <1>f DEF Restore
    <3>2. /\ schema' = "absent" /\ block' = {} /\ floor' = NoFloors
          /\ apartment' = NoApartments
      BY <2>1 DEF Restore
    <3>. QED
      BY <3>1, <3>2
  <2>2. CASE ~ clear
    <3>1. restore' = [next |-> "blocks", data |-> d, touched |-> TRUE] /\ schema' = schema
      BY <2>2, <1>f DEF Restore
    <3>. QED
      BY <3>1, <1>0 DEF TypeOK, Tables
  <2>. QED
    BY <2>1, <2>2
<1>3. TypeOK'
  BY <1>0, <1>1, <1>2, <1>u DEF TypeOK, Core
<1>4. DumpOK' /\ FileOK'
  BY <1>0, <1>1, <1>u, DumpSame, FileKept
<1>5. RestoreOK'
  <2>1. Sound(d.block, d.floor, d.apartment)'
    BY <1>4, <1>f, <1>u DEF FileOK
  <2>2. CASE restore'.touched
    BY <1>2, <2>1, <2>2 DEF RestoreOK
  <2>3. CASE ~ restore'.touched
    BY <1>2, <2>1, <2>3 DEF RestoreOK, Tables
  <2>. QED
    BY <2>2, <2>3
<1>. QED
  BY <1>1, <1>3, <1>4, <1>5 DEF IInv

LEMMA SchemaActions ==
    ASSUME IInv, CreateSchema \/ Synchronize \/ RestoreFails
    PROVE  IInv'
<1>0. TypeOK /\ Core /\ DumpOK /\ FileOK /\ RestoreOK
  BY DEF IInv
<1>u. UNCHANGED <<planVars, dump, file, dumps>>
  BY DEF CreateSchema, Synchronize, RestoreFails
<1>c. UNCHANGED <<calls, block, floor, apartment>>
  BY <1>u DEF planVars, tables
<1>1. Core' /\ Grows /\ PlanTypeOK'
  BY <1>0, <1>u, CoreSame DEF Core
<1>2. DumpOK' /\ FileOK'
  BY <1>0, <1>1, <1>c, <1>u, DumpSame, FileKept
<1>d. PICK d \in Data : d = restore.data
  BY <1>0 DEF TypeOK
<1>t. restore \in [next : {"none", "create", "synchronize"} \cup Tables, data : Data,
                   touched : BOOLEAN]
  BY <1>0 DEF TypeOK
<1>3. Sound(d.block, d.floor, d.apartment)'
  BY <1>0, <1>1, <1>d, DataKept DEF RestoreOK, TypeOK
<1>4. CASE CreateSchema
  <2>1. /\ restore.next = "create" /\ schema' = "empty"
        /\ restore' = [restore EXCEPT !.next = "synchronize"]
    BY <1>4 DEF CreateSchema
  <2>2. /\ restore'.next = "synchronize" /\ restore'.data = d
        /\ restore'.touched = restore.touched
        /\ restore' \in [next : {"none", "create", "synchronize"} \cup Tables, data : Data,
                         touched : BOOLEAN]
    BY <2>1, <1>d, <1>t
  <2>3. RestoreOK'
    BY <1>0, <1>3, <1>c, <2>1, <2>2 DEF RestoreOK, Tables
  <2>. QED
    BY <1>0, <1>1, <1>2, <1>c, <1>u, <2>1, <2>2, <2>3 DEF IInv, TypeOK
<1>5. CASE Synchronize
  <2>1. /\ restore.next = "synchronize" /\ schema' = "ready"
        /\ restore' = [restore EXCEPT !.next = "blocks"]
    BY <1>5 DEF Synchronize
  <2>2. /\ restore'.next = "blocks" /\ restore'.data = d
        /\ restore'.touched = restore.touched
        /\ restore' \in [next : {"none", "create", "synchronize"} \cup Tables, data : Data,
                         touched : BOOLEAN]
    BY <2>1, <1>d, <1>t DEF Tables
  <2>3. RestoreOK'
    BY <1>0, <1>3, <1>c, <2>1, <2>2 DEF RestoreOK, Tables
  <2>. QED
    BY <1>0, <1>1, <1>2, <1>c, <1>u, <2>1, <2>2, <2>3 DEF IInv, TypeOK
<1>6. CASE RestoreFails
  <2>1. restore' = NoRestore /\ UNCHANGED schema
    BY <1>6 DEF RestoreFails
  <2>2. /\ restore'.next = "none" /\ restore'.data = Nothing
        /\ restore' \in [next : {"none", "create", "synchronize"} \cup Tables, data : Data,
                         touched : BOOLEAN]
    BY <2>1, NothingSound DEF NoRestore
  <2>3. RestoreOK'
    BY <2>2, NothingSound DEF RestoreOK
  <2>. QED
    BY <1>0, <1>1, <1>2, <1>c, <1>u, <2>1, <2>2, <2>3 DEF IInv, TypeOK
<1>. QED
  BY <1>4, <1>5, <1>6


\* Blocks come back.
LEMMA BlocksBack ==
    ASSUME Core, UNCHANGED <<floor, apartment, req, planHistory>>, NEW d \in Data,
           Sound(d.block, d.floor, d.apartment), block' = block \cup d.block
    PROVE  Core' /\ Grows
<1>0. PlanTypeOK /\ Sound(block, floor, apartment) /\ Keys
  BY DEF Core
<1>1. Grows
  BY DEF Grows, planHistory
<1>2. PlanTypeOK'
  BY <1>0 DEF PlanTypeOK, Data, planHistory
<1>3. UNCHANGED <<origin, crowded, patched>>
  BY DEF planHistory
<1>4. Sound(block, floor, apartment)'
  BY <1>0, <1>3 DEF Sound, FloorOK
<1>5. Keys'
  BY <1>0 DEF Keys
<1>6. ASSUME NEW q \in Request, NEW t \in Slots, q = req[t]
      PROVE  LevelOK(q)' /\ NumbersOK(q)'
  <2>1. Good(q)
    BY <1>6 DEF Core
  <2>. QED
    BY <2>1, <1>0, <1>1, <1>2, LevelKept, NumbersKept DEF Good
<1>7. \A t \in Slots : \A q \in Request : q = req[t] => NumbersOK(q)'
  BY <1>6
<1>. QED
  BY <1>1, <1>2, <1>4, <1>5, <1>6, <1>7, ToldStep

\* A floor that is back is the one in the table or the one in the file.
LEMMA FilledIs ==
    ASSUME PlanTypeOK, NEW d \in Data
    PROVE  /\ Filled(floor, d.floor) \in FloorTable
           /\ \A f \in Floors : Filled(floor, d.floor)[f] =
                IF f \in Rows(d.floor) THEN d.floor[f] ELSE floor[f]
           /\ Filled(apartment, d.apartment) \in ApartmentTable
           /\ \A a \in Apartments : Filled(apartment, d.apartment)[a] =
                IF a \in Rows(d.apartment) THEN d.apartment[a] ELSE apartment[a]
           /\ \A f \in Rows(d.floor) : f \in Floors /\ d.floor[f] # NULL /\ d.floor[f] \in FloorRow
           /\ \A a \in Rows(d.apartment) : a \in Apartments /\ d.apartment[a] # NULL
                                           /\ d.apartment[a] \in ApartmentRow
BY DEF Filled, PlanTypeOK, Data, FloorTable, ApartmentTable, Rows

\* Floors come back; the blocks where they meet others are crowded.
LEMMA FloorsBack ==
    ASSUME Core, UNCHANGED <<origin, patched>>, NEW d \in Data,
           Sound(d.block, d.floor, d.apartment), Insertion("floors", d), InsertFloors(d)
    PROVE  Core' /\ Grows
<1>0. PlanTypeOK /\ Sound(block, floor, apartment) /\ Keys
  BY DEF Core
<1>1. /\ floor' = Filled(floor, d.floor) /\ UNCHANGED <<block, apartment, req>>
      /\ crowded \subseteq crowded' /\ crowded' \subseteq Blocks
      /\ \A f \in Rows(d.floor) : f \notin Rows(floor) /\ d.floor[f].block \in block
  BY <1>0 DEF InsertFloors, Insertion, PlanTypeOK
<1>2. Grows
  BY <1>1 DEF Grows
<1>3. /\ floor' \in FloorTable
      /\ \A f \in Floors : floor'[f] = IF f \in Rows(d.floor) THEN d.floor[f] ELSE floor[f]
      /\ \A f \in Rows(d.floor) : f \in Floors /\ d.floor[f] # NULL /\ d.floor[f] \in FloorRow
  BY <1>0, <1>1, FilledIs
<1>4. PlanTypeOK'
  BY <1>0, <1>1, <1>3 DEF PlanTypeOK
<1>5. ASSUME NEW f \in Rows(d.floor), d.floor[f].block \notin crowded'
      PROVE  /\ FloorsOf(d.floor[f].block) = {}
             /\ \A t \in Slots : ~ (Writes(req[t]) /\ req[t].row.block = d.floor[f].block)
  <2>1. d.floor[f].block \in Blocks
    BY <1>3 DEF FloorRow
  <2>. QED
    BY <2>1, <1>5 DEF InsertFloors
<1>6. PICK B \in SUBSET Blocks, F \in FloorTable, A \in ApartmentTable :
        B = block /\ F = floor /\ A = apartment
  BY <1>0 DEF PlanTypeOK
<1>7. Sound(B, F, A)' /\ Sound(d.block, d.floor, d.apartment)'
  BY <1>0, <1>2, <1>6, SoundKept, DataKept
<1>8. ASSUME NEW f \in Floors, floor'[f] # NULL, f \notin Rows(d.floor)
      PROVE  f \in Rows(F) /\ F[f] = floor'[f] /\ f \in Rows(floor)
  BY <1>8, <1>0, <1>3, <1>6, RowTyped
<1>9. ASSUME NEW f \in Floors, floor'[f] # NULL
      PROVE  FloorOK(f, floor[f])' /\ origin'[floor'[f].block] = Branch
  <2>1. CASE f \in Rows(d.floor)
    BY <2>1, <1>3, <1>7 DEF Sound, FloorOK
  <2>2. CASE f \notin Rows(d.floor)
    BY <2>2, <1>7, <1>8, <1>9 DEF Sound, FloorOK
  <2>. QED
    BY <2>1, <2>2
<1>10. ASSUME NEW f \in Floors, NEW g \in Floors, floor'[f] # NULL, floor'[g] # NULL,
              floor'[f].block = floor'[g].block, floor'[f].level = floor'[g].level
       PROVE  f = g \/ floor'[f].block \in crowded'
  <2>1. ASSUME NEW x \in Rows(d.floor), NEW y \in Floors, y \notin Rows(d.floor),
               floor'[y] # NULL, d.floor[x].block = floor'[y].block
        PROVE  d.floor[x].block \in crowded'
    <3>1. y \in FloorsOf(d.floor[x].block)
      BY <2>1, <1>3, <1>8 DEF FloorsOf
    <3>. QED
      BY <3>1, <2>1, <1>5
  <2>2. CASE f \in Rows(d.floor) /\ g \in Rows(d.floor)
    BY <2>2, <1>3, <1>7, <1>10 DEF Sound
  <2>3. CASE f \notin Rows(d.floor) /\ g \notin Rows(d.floor)
    BY <2>3, <1>7, <1>8, <1>10 DEF Sound
  <2>4. CASE f \in Rows(d.floor) /\ g \notin Rows(d.floor)
    BY <2>1, <2>4, <1>3, <1>10
  <2>5. CASE f \notin Rows(d.floor) /\ g \in Rows(d.floor)
    BY <2>1, <2>5, <1>3, <1>10
  <2>. QED
    BY <2>2, <2>3, <2>4, <2>5
<1>11. \A f \in Rows(floor') : f \in Floors /\ floor'[f] # NULL
  BY <1>3 DEF Rows, FloorTable
<1>12. Sound(block, floor, apartment)'
  <2>1. \A x \in block' : origin'[x] = Branch
    BY <1>0, <1>1 DEF Sound
  <2>2. /\ \A a \in Rows(apartment') : origin'[a] = apartment'[a].floor
        /\ \A a, c \in Rows(apartment') : apartment'[a] = apartment'[c] => a = c
    BY <1>0, <1>1 DEF Sound
  <2>. QED
    BY <2>1, <2>2, <1>9, <1>10, <1>11 DEF Sound
<1>13. Keys'
  <2>1. ASSUME NEW f \in Rows(floor')
        PROVE  floor'[f].block \in block'
    <3>1. CASE f \in Rows(d.floor)
      BY <3>1, <1>1, <1>3
    <3>2. CASE f \notin Rows(d.floor)
      BY <2>1, <3>2, <1>0, <1>1, <1>3, <1>8, <1>11 DEF Keys
    <3>. QED
      BY <3>1, <3>2
  <2>2. ASSUME NEW a \in Rows(apartment')
        PROVE  floor'[apartment'[a].floor] # NULL
    <3>1. /\ a \in Rows(apartment) /\ apartment'[a] = apartment[a]
          /\ apartment[a].floor \in Floors /\ floor[apartment[a].floor] # NULL
      BY <2>2, <1>0, <1>1, RowTyped DEF Keys, ApartmentRow
    <3>. QED
      BY <3>1, <1>3
  <2>. QED
    BY <2>1, <2>2 DEF Keys
<1>14. ASSUME NEW q \in Request, NEW t \in Slots, q = req[t]
       PROVE  LevelOK(q)' /\ NumbersOK(q)'
  <2>1. Good(q)
    BY <1>14 DEF Core
  <2>2. NumbersOK(q)'
    BY <2>1, <1>0, <1>1, <1>4, NumbersKept DEF Good
  <2>3. ASSUME Writes(q), q.row.block \notin crowded', NEW f \in FloorsOf(q.row.block)'
        PROVE  f \in FloorsOf(q.row.block) /\ floor'[f] = floor[f]
    <3>1. f \in Floors /\ floor'[f] # NULL /\ floor'[f].block = q.row.block
      BY <2>3 DEF FloorsOf
    <3>2. f \notin Rows(d.floor)
      BY <2>3, <3>1, <1>3, <1>5, <1>14
    <3>. QED
      BY <3>1, <3>2, <1>3 DEF FloorsOf
  <2>4. LevelOK(q)'
    BY <2>1, <2>3, <1>1 DEF Good, LevelOK
  <2>. QED
    BY <2>2, <2>4
<1>15. \A t \in Slots : \A q \in Request : q = req[t] => NumbersOK(q)'
  BY <1>14
<1>. QED
  BY <1>1, <1>2, <1>4, <1>12, <1>13, <1>14, <1>15, ToldStep


\* Apartments come back; requests on their floors are told.
LEMMA ApartmentsBack ==
    ASSUME Core, UNCHANGED <<origin, patched>>, NEW d \in Data,
           Sound(d.block, d.floor, d.apartment), Insertion("apartments", d),
           InsertApartmentRows(d)
    PROVE  Core' /\ Grows
<1>0. PlanTypeOK /\ Sound(block, floor, apartment) /\ Keys
  BY DEF Core
<1>1. /\ apartment' = Filled(apartment, d.apartment) /\ UNCHANGED <<block, floor, crowded>>
      /\ \A a \in Rows(d.apartment) :
           /\ a \notin Rows(apartment) /\ floor[d.apartment[a].floor] # NULL
           /\ d.apartment[a].number \notin NumbersOn(d.apartment[a].floor)
  BY DEF InsertApartmentRows, Insertion
<1>2. Grows
  BY <1>1 DEF Grows
<1>3. /\ apartment' \in ApartmentTable
      /\ \A a \in Apartments : apartment'[a] =
           IF a \in Rows(d.apartment) THEN d.apartment[a] ELSE apartment[a]
      /\ \A a \in Rows(d.apartment) : a \in Apartments /\ d.apartment[a] # NULL
                                      /\ d.apartment[a] \in ApartmentRow
  BY <1>0, <1>1, FilledIs
<1>q. ASSUME NEW t \in Slots
      PROVE  /\ req'[t] \in Request
             /\ req'[t] = IF \E a \in Rows(d.apartment) : d.apartment[a].floor = req[t].floor
                          THEN [req[t] EXCEPT !.unsure = TRUE] ELSE req[t]
  <2>1. PICK q \in Request : q = req[t]
    BY <1>0 DEF PlanTypeOK
  <2>2. [q EXCEPT !.unsure = TRUE] \in Request
    BY UnsureKept
  <2>. QED
    BY <2>1, <2>2 DEF InsertApartmentRows
<1>4. PlanTypeOK'
  <2>1. req' = [t \in Slots |-> req'[t]]
    BY DEF InsertApartmentRows
  <2>2. req' \in [Slots -> Request]
    BY <2>1, <1>q
  <2>. QED
    BY <2>2, <1>0, <1>1, <1>3 DEF PlanTypeOK
<1>5. ASSUME NEW a \in Apartments, apartment'[a] # NULL
      PROVE  /\ origin'[a] = apartment'[a].floor /\ floor[apartment'[a].floor] # NULL
             /\ a \notin Rows(d.apartment) => a \in Rows(apartment) /\ apartment'[a] = apartment[a]
  <2>1. CASE a \in Rows(d.apartment)
    BY <2>1, <1>1, <1>3 DEF Sound
  <2>2. CASE a \notin Rows(d.apartment)
    <3>1. a \in Rows(apartment) /\ apartment'[a] = apartment[a]
      BY <2>2, <1>0, <1>3, <1>5, RowTyped
    <3>. QED
      BY <2>2, <3>1, <1>0 DEF Sound, Keys
  <2>. QED
    BY <2>1, <2>2
<1>6. ASSUME NEW a \in Apartments, NEW c \in Apartments, apartment'[a] # NULL,
             apartment'[c] # NULL, apartment'[a] = apartment'[c]
      PROVE  a = c
  <2>1. ASSUME NEW x \in Rows(d.apartment), NEW y \in Apartments, y \notin Rows(d.apartment),
               apartment'[y] # NULL, d.apartment[x] = apartment'[y]
        PROVE  FALSE
    <3>1. y \in Rows(apartment) /\ apartment[y] = d.apartment[x] /\ apartment[y] # NULL
      BY <2>1, <1>5, <1>3
    <3>2. apartment[y].number \in NumbersOn(d.apartment[x].floor)
      BY <2>1, <3>1 DEF NumbersOn, ApartmentsOn
    <3>. QED
      BY <2>1, <3>1, <3>2, <1>1
  <2>2. CASE a \in Rows(d.apartment) /\ c \in Rows(d.apartment)
    BY <2>2, <1>3, <1>6 DEF Sound
  <2>3. CASE a \notin Rows(d.apartment) /\ c \notin Rows(d.apartment)
    BY <2>3, <1>0, <1>5, <1>6 DEF Sound
  <2>4. CASE a \in Rows(d.apartment) /\ c \notin Rows(d.apartment)
    BY <2>1, <2>4, <1>3, <1>6
  <2>5. CASE a \notin Rows(d.apartment) /\ c \in Rows(d.apartment)
    BY <2>1, <2>5, <1>3, <1>6
  <2>. QED
    BY <2>2, <2>3, <2>4, <2>5
<1>7. \A a \in Rows(apartment') : a \in Apartments /\ apartment'[a] # NULL
  BY <1>3 DEF Rows, ApartmentTable
<1>8. Sound(block, floor, apartment)'
  <2>1. Sound(block, floor, NoApartments)'
    BY <1>1, <1>2, FloorsSound
  <2>. QED
    BY <2>1, <1>5, <1>6, <1>7 DEF Sound
<1>9. Keys'
  BY <1>0, <1>1, <1>5, <1>7 DEF Keys
<1>10. ASSUME NEW q \in Request, NEW t \in Slots, q = req[t]
       PROVE  /\ LevelOK(q)'
              /\ req'[t] = [q EXCEPT !.unsure = TRUE] \/ NumbersOK(q)'
  <2>1. Good(q)
    BY <1>10 DEF Core
  <2>2. LevelOK(q)'
    BY <2>1, <1>0, <1>1, <1>2, <1>4, LevelKept DEF Good
  <2>3. ASSUME ~ \E a \in Rows(d.apartment) : d.apartment[a].floor = q.floor,
               NEW n \in NumbersOn(q.floor)'
        PROVE  n \in NumbersOn(q.floor)
    <3>1. PICK a \in Apartments : apartment'[a] # NULL /\ apartment'[a].floor = q.floor
                                    /\ apartment'[a].number = n
      BY <2>3 DEF NumbersOn, ApartmentsOn
    <3>2. apartment'[a] = apartment[a]
      BY <2>3, <3>1, <1>3
    <3>. QED
      BY <3>1, <3>2 DEF NumbersOn, ApartmentsOn
  <2>4. CASE \E a \in Rows(d.apartment) : d.apartment[a].floor = q.floor
    BY <2>2, <2>4, <1>q, <1>10
  <2>5. CASE ~ \E a \in Rows(d.apartment) : d.apartment[a].floor = q.floor
    BY <2>1, <2>2, <2>3, <2>5 DEF Good, NumbersOK
  <2>. QED
    BY <2>4, <2>5
<1>11. \A t \in Slots : req'[t] \in {req[t], [req[t] EXCEPT !.unsure = TRUE]}
  BY <1>q
<1>12. \A q \in Request : (\E t \in Slots : q = req[t]) => LevelOK(q)'
  BY <1>10
<1>13. \A t \in Slots : \A q \in Request :
         q = req[t] => req'[t] = [q EXCEPT !.unsure = TRUE] \/ NumbersOK(q)'
  BY <1>10
<1>. QED
  BY <1>2, <1>4, <1>8, <1>9, <1>11, <1>12, <1>13, ToldStep

LEMMA InsertManyStep ==
    ASSUME IInv, InsertMany
    PROVE  IInv'
<1>0. TypeOK /\ Core /\ DumpOK /\ FileOK /\ RestoreOK /\ PlanTypeOK
  BY DEF IInv, TypeOK
<1>u. UNCHANGED <<calls, origin, patched, schema, file, dumps>> /\ restore.next \in Tables
  BY DEF InsertMany
<1>d. PICK d \in Data : d = restore.data
  BY <1>0 DEF TypeOK
<1>s. Sound(d.block, d.floor, d.apartment)
  BY <1>0, <1>d DEF RestoreOK
<1>t. restore \in [next : {"none", "create", "synchronize"} \cup Tables, data : Data,
                   touched : BOOLEAN]
  BY <1>0 DEF TypeOK
<1>n. NoRestore \in [next : {"none", "create", "synchronize"} \cup Tables, data : Data,
                     touched : BOOLEAN]
        /\ NoRestore.next = "none" /\ NoRestore.data = Nothing
  BY NothingSound DEF NoRestore
<1>o. ASSUME restore' = NoRestore
      PROVE  RestoreOK'
  BY <1>o, <1>n, NothingSound DEF RestoreOK
<1>1. CASE UNCHANGED <<tables, req, crowded, dump>> /\ restore' = NoRestore
  <2>1. UNCHANGED planVars /\ UNCHANGED <<block, floor>>
    BY <1>1, <1>u DEF planVars, planHistory, tables
  <2>2. Core' /\ Grows /\ PlanTypeOK'
    BY <1>0, <2>1, CoreSame DEF Core
  <2>3. DumpOK' /\ FileOK'
    BY <1>0, <1>1, <1>u, <2>1, <2>2, DumpSame, FileKept
  <2>4. TypeOK'
    BY <1>0, <1>1, <1>n, <1>u, <2>2 DEF TypeOK
  <2>. QED
    BY <1>1, <1>o, <2>2, <2>3, <2>4 DEF IInv
<1>r. restore.next \in Tables /\ ~ restore.touched => schema = "ready"
  BY <1>0 DEF RestoreOK, Tables
<1>2. ASSUME Insertion(restore.next, d), Watch,
             restore' = IF After[restore.next] = "end" THEN NoRestore
                        ELSE [restore EXCEPT !.next = After[restore.next]],
             \/ /\ restore.next = "blocks" /\ block' = block \cup d.block
                /\ UNCHANGED <<floor, apartment, req, crowded>>
             \/ restore.next = "floors" /\ InsertFloors(d)
             \/ restore.next = "apartments" /\ InsertApartmentRows(d)
      PROVE  IInv'
  <2>1. Core' /\ Grows /\ PlanTypeOK'
    <3>1. CASE /\ restore.next = "blocks" /\ block' = block \cup d.block
               /\ UNCHANGED <<floor, apartment, req, crowded>>
      BY <3>1, <1>0, <1>s, <1>u, BlocksBack DEF planHistory, Core
    <3>2. CASE restore.next = "floors" /\ InsertFloors(d)
      BY <3>2, <1>0, <1>2, <1>s, <1>u, FloorsBack DEF Core
    <3>3. CASE restore.next = "apartments" /\ InsertApartmentRows(d)
      BY <3>3, <1>0, <1>2, <1>s, <1>u, ApartmentsBack DEF Core
    <3>. QED
      BY <3>1, <3>2, <3>3, <1>2
  <2>2. DumpOK' /\ dump' \in [next : {"none", "end"} \cup Tables, data : Data]
    BY <1>0, <1>2, <2>1, WatchStep
  <2>3. FileOK'
    BY <1>0, <1>u, <2>1, FileKept
  <2>4. Sound(d.block, d.floor, d.apartment)'
    BY <1>0, <1>s, <2>1, DataKept
  <2>5. CASE restore.next = "apartments"
    <3>1. restore' = NoRestore
      BY <2>5, <1>2 DEF After
    <3>2. TypeOK'
      BY <3>1, <1>0, <1>n, <1>u, <2>1, <2>2 DEF TypeOK
    <3>. QED
      BY <3>1, <3>2, <1>o, <2>1, <2>2, <2>3 DEF IInv
  <2>6. CASE restore.next \in {"blocks", "floors"}
    <3>1. restore' = [restore EXCEPT !.next = After[restore.next]]
      BY <2>6, <1>2 DEF After
    <3>2. /\ restore'.next = After[restore.next] /\ restore'.data = d
          /\ restore'.touched = restore.touched /\ After[restore.next] \in Tables
          /\ restore' \in [next : {"none", "create", "synchronize"} \cup Tables, data : Data,
                           touched : BOOLEAN]
      <4>1. After[restore.next] \in Tables
        BY <2>6 DEF After, Tables
      <4>. QED
        BY <3>1, <4>1, <1>d, <1>t
    <3>3. TypeOK'
      BY <3>2, <1>0, <1>u, <2>1, <2>2 DEF TypeOK
    <3>4. CASE restore.next = "blocks"
      <4>1. restore'.next = "floors"
        BY <3>2, <3>4 DEF After
      <4>2. block' = block \cup d.block /\ UNCHANGED <<floor, apartment>>
        BY <1>2, <3>4
      <4>3. ~ restore.touched => block = {} /\ floor = NoFloors /\ apartment = NoApartments
        BY <1>0, <3>4 DEF RestoreOK
      <4>4. RestoreOK'
        BY <4>1, <4>2, <4>3, <3>2, <1>r, <1>u, <2>4 DEF RestoreOK, Tables
      <4>. QED
        BY <4>4, <3>3, <2>1, <2>2, <2>3 DEF IInv
    <3>5. CASE restore.next = "floors"
      <4>1. restore'.next = "apartments"
        BY <3>2, <3>5 DEF After
      <4>2. floor' = Filled(floor, d.floor) /\ UNCHANGED <<block, apartment>>
        BY <1>2, <3>5 DEF InsertFloors
      <4>3. ~ restore.touched => block = d.block /\ floor = NoFloors /\ apartment = NoApartments
        BY <1>0, <1>d, <3>5 DEF RestoreOK
      <4>4. Filled(NoFloors, d.floor) = d.floor
        BY DEF Filled, NoFloors, Data, FloorTable
      <4>5. RestoreOK'
        BY <4>1, <4>2, <4>3, <4>4, <3>2, <1>r, <1>u, <2>4 DEF RestoreOK, Tables
      <4>. QED
        BY <4>5, <3>3, <2>1, <2>2, <2>3 DEF IInv
    <3>. QED
      BY <2>6, <3>4, <3>5
  <2>. QED
    BY <2>5, <2>6, <1>u DEF Tables
<1>. QED
  BY <1>1, <1>2, <1>d DEF InsertMany, Succeeds


-----------------------------------------------------------------------------
\* What a behaviour starts with.
LEMMA InitHolds ==
    ASSUME Init
    PROVE  IInv
<1>1. PICK w \in Workloads :
        /\ calls = w.calls /\ origin = w.origin
        /\ block = w.block /\ floor = w.floor /\ apartment = w.apartment
  BY DEF Init, PlanInit
<1>2. w \in Workload
  BY WorkloadsAssumption
<1>3. /\ calls \subseteq Slots \X STRING /\ block \subseteq Blocks /\ floor \in FloorTable
      /\ apartment \in ApartmentTable /\ origin \in [Ids -> Ids \cup {Branch, NULL}]
  BY <1>1, <1>2 DEF Workload
<1>4. /\ req = [s \in Slots |-> Idle] /\ crowded = {}
      /\ patched = {p \in Rows(floor) \X Apartments :
                      p[2] \in floor[p[1]].hotspots /\ origin[p[2]] # p[1]}
  BY DEF Init, PlanInit
<1>5. PlanTypeOK
  <2>1. Rows(floor) \subseteq Floors
    BY <1>3 DEF Rows, FloorTable
  <2>2. patched \subseteq Floors \X Apartments
    BY <1>4, <2>1
  <2>. QED
    BY <2>2, <1>3, <1>4, IdleGood DEF PlanTypeOK
<1>6. /\ \A b \in block : origin[b] = Branch
      /\ \A f \in Rows(floor) :
           /\ floor[f].block \in block /\ origin[f] = floor[f].block
           /\ \A g \in Rows(floor) :
                floor[f].block = floor[g].block /\ floor[f].level = floor[g].level => f = g
      /\ \A a \in Rows(apartment) :
           /\ floor[apartment[a].floor] # NULL /\ origin[a] = apartment[a].floor
           /\ \A c \in Rows(apartment) : apartment[a] = apartment[c] => a = c
  BY <1>1, WorkloadsAssumption
<1>7. Sound(block, floor, apartment) /\ Keys
  <2>1. ASSUME NEW f \in Rows(floor), NEW h \in floor[f].hotspots
        PROVE  origin[h] = f \/ <<f, h>> \in patched
    <3>1. h \in Apartments
      BY <2>1, <1>5, RowTyped DEF FloorRow
    <3>. QED
      BY <2>1, <3>1, <1>4
  <2>. QED
    BY <2>1, <1>6 DEF Sound, FloorOK, Keys
<1>8. Core
  <2>1. \A q \in Request : Apart(Idle, q)
    BY IdleGood DEF Apart
  <2>. QED
    BY <2>1, <1>4, <1>5, <1>7, IdleGood DEF Core
<1>9. /\ schema = "ready" /\ dump = NoDump /\ restore = NoRestore /\ dumps = 0
      /\ file = [Nothing EXCEPT !.block = block, !.floor = floor, !.apartment = apartment]
  BY DEF Init
<1>10. /\ file \in Data /\ file.block = block /\ file.floor = floor
       /\ file.apartment = apartment
  BY <1>3, <1>9, NothingSound DEF Data
<1>11. FileOK
  <2>1. \A a \in Rows(apartment) : apartment[a].floor \in Rows(floor)
    BY <1>5, <1>7, RowTyped DEF Keys, ApartmentRow
  <2>. QED
    BY <2>1, <1>7, <1>10 DEF FileOK, Orphans, Keys
<1>12. /\ dump.next = "none" /\ dump.data = Nothing
       /\ dump \in [next : {"none", "end"} \cup Tables, data : Data]
  BY <1>9, NothingSound DEF NoDump
<1>13. /\ restore.next = "none" /\ restore.data = Nothing
       /\ restore \in [next : {"none", "create", "synchronize"} \cup Tables, data : Data,
                       touched : BOOLEAN]
  BY <1>9, NothingSound DEF NoRestore
<1>14. TypeOK
  BY <1>3, <1>5, <1>9, <1>10, <1>12, <1>13 DEF TypeOK
<1>15. DumpOK /\ RestoreOK
  BY <1>12, <1>13, NothingSound DEF DumpOK, RestoreOK
<1>. QED
  BY <1>8, <1>11, <1>14, <1>15 DEF IInv

\* Every step keeps the invariant.
LEMMA StepHolds ==
    ASSUME IInv, [Next]_vars
    PROVE  IInv'
<1>1. ASSUME NEW s \in Slots, Call(s)
      PROVE  IInv'
  BY <1>1, CallStep
<1>2. ASSUME NEW s \in Slots, Lost(s)
      PROVE  IInv'
  BY <1>2, LostStep
<1>3. CASE CreateDump \/ ReadTable \/ WriteFile \/ DumpFails
  BY <1>3, DumpActions
<1>4. ASSUME NEW clear \in BOOLEAN, Restore(clear)
      PROVE  IInv'
  BY <1>4, RestoreStep
<1>5. CASE CreateSchema \/ Synchronize \/ RestoreFails
  BY <1>5, SchemaActions
<1>6. CASE InsertMany
  BY <1>6, InsertManyStep
<1>7. CASE UNCHANGED vars
  <2>1. UNCHANGED planVars /\ UNCHANGED <<calls, tables, schema, dump, file, restore, dumps>>
    BY <1>7 DEF vars, planVars, backupVars
  <2>2. TypeOK /\ Core /\ DumpOK /\ FileOK /\ RestoreOK
    BY DEF IInv
  <2>3. Core' /\ Grows /\ PlanTypeOK'
    BY <2>1, <2>2, CoreSame DEF Core
  <2>4. TypeOK'
    BY <2>1, <2>2, <2>3 DEF TypeOK
  <2>5. block' \subseteq block /\ Rows(floor') \subseteq Rows(floor)
    BY <2>1 DEF tables
  <2>6. DumpOK' /\ FileOK' /\ RestoreOK'
    BY <2>1, <2>2, <2>3, <2>5, DumpSame, FileKept, RestoreSame
  <2>. QED
    BY <2>3, <2>4, <2>6 DEF IInv
<1>. QED
  BY <1>1, <1>2, <1>3, <1>4, <1>5, <1>6, <1>7 DEF Next

\* The tables, what requests hold of them, the dump, its file and the restore
\* are in order in every state.
THEOREM Consistent == Spec => []IInv
<1>1. Init => IInv
  BY InitHolds
<1>2. IInv /\ [Next]_vars => IInv'
  BY StepHolds
<1>. QED
  BY <1>1, <1>2, PTL DEF Spec

\* Variables have their types: no request, dump or restore ever holds a row of
\* another shape than the tables.
THEOREM TypesHold == Spec => []TypeOK
<1>1. IInv => TypeOK
  BY DEF IInv
<1>. QED
  BY <1>1, Consistent, PTL

\* A block has one floor of a level unless two writers of its floors met.
THEOREM OneFloorPerLevelHolds == Spec => []OneFloorPerLevel
<1>1. IInv => OneFloorPerLevel
  BY DEF IInv, Core, Sound, OneFloorPerLevel
<1>. QED
  BY <1>1, Consistent, PTL

\* A hotspot names an apartment of its floor, none, or one patched in.
THEOREM HotspotHomeHolds == Spec => []HotspotHome
<1>1. ASSUME IInv
      PROVE  HotspotHome
  <2>1. PlanTypeOK /\ Sound(block, floor, apartment)
    BY <1>1 DEF IInv, Core
  <2>2. ASSUME NEW f \in Rows(floor), NEW h \in floor[f].hotspots,
               apartment[h] # NULL, <<f, h>> \notin patched
        PROVE  apartment[h].floor = f
    <3>1. origin[h] = f
      BY <2>1, <2>2 DEF Sound, FloorOK
    <3>2. h \in Apartments
      BY <2>1, <2>2, RowTyped DEF FloorRow
    <3>3. h \in Rows(apartment)
      BY <2>1, <2>2, <3>2, RowTyped
    <3>. QED
      BY <2>1, <3>1, <3>3 DEF Sound
  <2>. QED
    BY <2>2 DEF HotspotHome
<1>. QED
  BY <1>1, Consistent, PTL

\* The numbers a request found free stay free until another inserts there.
THEOREM NumbersFreeHolds == Spec => []NumbersFree
<1>1. ASSUME IInv
      PROVE  NumbersFree
  <2>1. \A s \in Slots : NumbersOK(req[s])
    BY <1>1 DEF IInv, Core, Good
  <2>. QED
    BY <2>1 DEF NumbersOK, NumbersFree
<1>. QED
  BY <1>1, Consistent, PTL

\* Orphans of a dump have parents that were inserted while it ran.
THEOREM DumpClosedHolds == Spec => []DumpClosed
<1>1. IInv => DumpClosed
  BY DEF IInv, FileOK, Orphans, DumpClosed
<1>. QED
  BY <1>1, Consistent, PTL

\* Untouched, the tables hold what was inserted, and the next INSERT of a
\* file without orphans is accepted.
LEMMA Accepted ==
    ASSUME IInv, restore.next \in Tables, ~ restore.touched, Closed(restore.data)
    PROVE  schema = "ready" /\ Insertion(restore.next, restore.data)
<1>. DEFINE d == restore.data
<1>1. RestoreOK
  BY DEF IInv
<1>2. schema = "ready" /\ apartment = NoApartments
  BY <1>1 DEF RestoreOK, Tables
<1>3. CASE restore.next = "blocks"
  <2>1. block = {}
    BY <1>1, <1>3 DEF RestoreOK, Tables
  <2>. QED
    BY <1>2, <1>3, <2>1 DEF Insertion
<1>4. CASE restore.next = "floors"
  <2>1. block = d.block /\ floor = NoFloors
    BY <1>1, <1>4 DEF RestoreOK, Tables
  <2>. QED
    BY <1>2, <1>4, <2>1, NothingSound DEF Insertion, Closed
<1>5. CASE restore.next = "apartments"
  <2>1. floor = d.floor
    BY <1>1, <1>5 DEF RestoreOK, Tables
  <2>2. \A f : NumbersOn(f) = {}
    BY <1>2 DEF NumbersOn, ApartmentsOn, NoApartments
  <2>3. \A a, c \in Rows(d.apartment) : d.apartment[a] = d.apartment[c] => a = c
    BY <1>1 DEF RestoreOK, Sound
  <2>4. \A a \in Rows(d.apartment) : floor[d.apartment[a].floor] # NULL
    BY <2>1 DEF Rows, Closed
  <2>. QED
    BY <1>2, <1>5, <2>2, <2>3, <2>4, NothingSound DEF Insertion
<1>. QED
  BY <1>3, <1>4, <1>5 DEF Tables

\* A file without orphans is restored, unless a request is in its way.
THEOREM RestorableHolds == Spec => []Restorable
<1>1. IInv => Restorable
  BY Accepted DEF Restorable
<1>. QED
  BY <1>1, Consistent, PTL

\* An undisturbed restore ends with the rows of its file and no other.
THEOREM RestoredWholeHolds == Spec => RestoredWhole
<1>1. ASSUME IInv, InsertMany, After[restore.next] = "end",
             ~ restore.touched, Closed(restore.data)
      PROVE  /\ block' = restore.data.block
             /\ floor' = restore.data.floor
             /\ apartment' = restore.data.apartment
  <2>. DEFINE d == restore.data
  <2>1. restore.next = "apartments"
    BY <1>1 DEF InsertMany, Tables, After
  <2>2. schema = "ready" /\ Insertion("apartments", d)
    BY <1>1, <2>1, Accepted DEF Tables
  <2>3. InsertApartmentRows(d)
    BY <1>1, <2>1, <2>2 DEF InsertMany, Succeeds
  <2>4. block = d.block /\ floor = d.floor /\ apartment = NoApartments
    BY <1>1, <2>1 DEF IInv, RestoreOK, Tables
  <2>5. d.apartment \in ApartmentTable
    BY <1>1 DEF IInv, TypeOK, Data
  <2>6. Filled(NoApartments, d.apartment) = d.apartment
    BY <2>5 DEF Filled, NoApartments, ApartmentTable
  <2>. QED
    BY <2>3, <2>4, <2>6 DEF InsertApartmentRows
<1>2. IInv /\ [Next]_vars =>
        [InsertMany /\ After[restore.next] = "end"
           /\ ~ restore.touched /\ Closed(restore.data)
         => /\ block' = restore.data.block
            /\ floor' = restore.data.floor
            /\ apartment' = restore.data.apartment]_vars
  BY <1>1
<1>. QED
  BY <1>2, Consistent, PTL DEF Spec, RestoredWhole
=============================================================================
