----------------------------- MODULE FloorPlan -----------------------------
(***************************************************************************)
(* The tree of blocks, floors and apartments of one branch, as BlocksService, *)
(* FloorsService and ApartmentsService write it: levels, numbers, plans.   *)
(*                                                                         *)
(* Tenancy says who may call; here everybody may.  A request is a slot of  *)
(* req; each await ends a step, except that rows read one after the other  *)
(* before the first check are read in one step.  A refused request is no   *)
(* step.  save() of a row writes back every column it has loaded, and      *)
(* inserts the row again when it is gone.  apartments has a unique index   *)
(* on (floorId, number), floors has none on (blockId, level).  Numbers are *)
(* the integers below 2^53: other labels are stored and skipped by copies. *)
(* Backups adds the dump and the restore of these tables.                  *)
(* An operator named Op_Flaw is Op with one mistake in it.                 *)
(***************************************************************************)
EXTENDS Integers, FiniteSets

CONSTANTS
    Blocks, Floors, Apartments, NULL,   \* ids
    Workloads,     \* bound: what a behaviour starts with, and its calls
    Slots,         \* bound: the requests that run at a time
    Levels,        \* bound: the levels asked for
    Plans,         \* bound: the lists of hotspots asked for
    Numbers,       \* bound: the numbers apartments get
    MaxBulk,       \* bound: the apartments of one bulkCreateOnFloor
    Multiplier     \* levelMultiplier and shiftStep

VARIABLES
    block,       \* the ids in the table of blocks
    floor,       \* the row of a floor
    apartment,   \* the row of an apartment
    req,         \* the requests
    calls,       \* the workload of this behaviour
    \* History:
    origin,      \* the parent an id was first inserted with; NULL: never
    crowded,     \* blocks two of whose writers of floor rows overlapped
    patched      \* <<f, h>>: f got a hotspot of h, not born an apartment of f

tables == <<block, floor, apartment>>
planHistory == <<origin, crowded, patched>>
planVars == <<calls, tables, req, planHistory>>

Ids == Blocks \cup Floors \cup Apartments
FloorRow == [block : Blocks, level : Levels, hotspots : SUBSET Apartments]
ApartmentRow == [floor : Floors, number : Numbers]
FloorTable == [Floors -> FloorRow \cup {NULL}]
ApartmentTable == [Apartments -> ApartmentRow \cup {NULL}]
Rows(table) == {x \in DOMAIN table : table[x] # NULL}
NoFloors == [f \in Floors |-> NULL]
NoApartments == [a \in Apartments |-> NULL]
Branch == "branch"

ASSUME FloorPlanAssumption ==
    /\ Blocks \cap Floors = {} /\ Blocks \cap Apartments = {} /\ Floors \cap Apartments = {}
    /\ NULL \notin Ids \cup FloorRow \cup ApartmentRow \cup {Branch}
    /\ Plans \subseteq SUBSET Apartments
    /\ Levels \subseteq Nat /\ Numbers \subseteq Nat
    /\ MaxBulk \in Nat /\ Multiplier \in Nat \ {0}

\* A workload: the endpoints each slot may call, and tables as the API leaves
\* them, with the ids that were ever in use.
Workload == [calls : SUBSET (Slots \X STRING), block : SUBSET Blocks, floor : FloorTable,
             apartment : ApartmentTable, origin : [Ids -> Ids \cup {Branch, NULL}]]
ASSUME WorkloadsAssumption ==
    /\ Workloads \subseteq Workload
    /\ \A w \in Workloads :
         /\ \A b \in w.block : w.origin[b] = Branch
         /\ \A f \in Rows(w.floor) :
              /\ w.floor[f].block \in w.block /\ w.origin[f] = w.floor[f].block
              /\ \A g \in Rows(w.floor) :
                   w.floor[f].block = w.floor[g].block /\ w.floor[f].level = w.floor[g].level
                   => f = g
         /\ \A a \in Rows(w.apartment) :
              /\ w.floor[w.apartment[a].floor] # NULL /\ w.origin[a] = w.apartment[a].floor
              /\ \A c \in Rows(w.apartment) : w.apartment[a] = w.apartment[c] => a = c

\* A request: its step, the floor it is about and the copy of its row, whether
\* it sets a level (moves), the id it copies from or is to save, the floor and
\* apartment rows it copies, the numbers it is about to write and whether other
\* apartments may have them (unsure), numberMode SAME and copyPlanFromSource.
Request == [op : {"idle", "insertFloor", "checkLevel", "saveFloor", "insertApartments",
                  "checkNumber", "saveApartment", "saveBlock", "copyNext", "saveCopy", "clone", "insertCopy"},
            floor : Floors \cup {NULL}, row : FloorRow \cup {NULL}, moves : BOOLEAN,
            from : Ids \cup {NULL}, floors : FloorTable,
            apartments : ApartmentTable, numbers : SUBSET Numbers, unsure : BOOLEAN,
            same : BOOLEAN, plan : BOOLEAN]
Idle == [op |-> "idle", floor |-> NULL, row |-> NULL, moves |-> FALSE, from |-> NULL,
         floors |-> NoFloors, apartments |-> NoApartments, numbers |-> {},
         unsure |-> FALSE, same |-> FALSE, plan |-> FALSE]

PlanTypeOK ==
    /\ block \subseteq Blocks
    /\ floor \in FloorTable
    /\ apartment \in ApartmentTable
    /\ req \in [Slots -> Request]
    /\ origin \in [Ids -> Ids \cup {Branch, NULL}]
    /\ crowded \subseteq Blocks /\ patched \subseteq Floors \X Apartments

Fresh(S) == {x \in S : origin[x] = NULL}
\* The ways to give every member of T one of the ids S: the copies' originals.
Copies(S, T) ==
    UNION {{of \in [U -> T] : /\ \A x, y \in U : of[x] = of[y] => x = y
                              /\ \A z \in T : \E x \in U : of[x] = z} : U \in SUBSET S}
FloorsOf(b) == {f \in Floors : floor[f] # NULL /\ floor[f].block = b}
ApartmentsOn(f) == {a \in Apartments : apartment[a] # NULL /\ apartment[a].floor = f}
NumbersOn(f) == {apartment[a].number : a \in ApartmentsOn(f)}
Only(table, S) == [x \in DOMAIN table |-> IF x \in S THEN table[x] ELSE NULL]

\* Slot s is free and its endpoint may be called.
Called(s, ep) == req[s].op = "idle" /\ <<s, ep>> \in calls
Become(s, r) == req' = [req EXCEPT ![s] = r]
Ends(s) == Become(s, Idle)
\* So is s, after numbers on the floor f were given away.
BecomeAfterInsert(s, r, f) ==
    req' = [t \in Slots |-> IF t = s THEN r
                            ELSE IF req[t].floor = f THEN [req[t] EXCEPT !.unsure = TRUE]
                            ELSE req[t]]

-----------------------------------------------------------------------------
(* Floors. *)

\* The request will write a whole row of floors; it has read it, or it has
\* found its level free.
Writes(r) == \/ r.op \in {"insertFloor", "checkLevel", "saveFloor"}
             \/ r.op = "clone" /\ r.plan
\* A writer starts in block b beside another, and one of them sets a level.
Meets(s, b, moves) ==
    crowded' = IF \E t \in Slots \ {s} : /\ Writes(req[t]) /\ req[t].row.block = b
                                         /\ moves \/ req[t].moves
               THEN crowded \cup {b} ELSE crowded

LevelTaken_Never(b, l) == FALSE
LevelTaken(b, l) == \E f \in FloorsOf(b) : floor[f].level = l

\* The hotspots of a request are stored as they are: any ids.
CreateFloor(s) ==
    /\ Called(s, "floors.create")
    /\ \E b \in block, l \in Levels, plan \in Plans :
         /\ ~ LevelTaken(b, l)
         /\ Become(s, [Idle EXCEPT !.op = "insertFloor", !.moves = TRUE,
                           !.row = [block |-> b, level |-> l, hotspots |-> plan]])
         /\ Meets(s, b, TRUE)
    /\ UNCHANGED <<tables, origin, patched>>

InsertFloor(s) ==
    LET r == req[s] IN
    /\ r.op = "insertFloor"
    /\ \/ \E f \in Fresh(Floors) :
            /\ r.row.block \in block
            /\ floor' = [floor EXCEPT ![f] = r.row]
            /\ origin' = [origin EXCEPT ![f] = r.row.block]
            /\ patched' = patched \cup ({f} \X r.row.hotspots)
       \/ r.row.block \notin block /\ UNCHANGED <<floor, origin, patched>>
    /\ Ends(s)
    /\ UNCHANGED <<block, apartment, crowded>>

\* The level and the hotspots are as they were or those of the request.
UpdateFloor(s) ==
    /\ Called(s, "floors.update")
    /\ \E f \in Rows(floor), l \in Levels :
         LET row == floor[f] IN
         /\ \E plan \in {row.hotspots} \cup Plans :
              /\ Become(s, [Idle EXCEPT !.op = IF l # row.level THEN "checkLevel" ELSE "saveFloor",
                                !.floor = f, !.moves = (l # row.level),
                                !.row = [row EXCEPT !.level = l, !.hotspots = plan]])
              /\ patched' = patched \cup
                    ({f} \X (plan \ (row.hotspots \cup ApartmentsOn(f))))
         /\ Meets(s, row.block, l # row.level)
    /\ UNCHANGED <<tables, origin>>

CheckLevel(s) ==
    LET r == req[s] IN
    /\ r.op = "checkLevel"
    /\ IF LevelTaken(r.row.block, r.row.level) THEN Ends(s)
       ELSE Become(s, [r EXCEPT !.op = "saveFloor"])
    /\ UNCHANGED <<tables, planHistory>>

\* save() of the copy row: an UPDATE, or an INSERT its block may refuse.
Storable(f, row) == floor[f] # NULL \/ row.block \in block

SaveFloor(s) ==
    LET r == req[s] IN
    /\ r.op = "saveFloor"
    /\ floor' = IF Storable(r.floor, r.row) THEN [floor EXCEPT ![r.floor] = r.row] ELSE floor
    /\ Ends(s)
    /\ UNCHANGED <<block, apartment, planHistory>>

\* DELETE of floors, with its cascade.
DeleteFloors(S) ==
    /\ floor' = Only(floor, Floors \ S)
    /\ apartment' = [a \in Apartments |-> IF \E f \in S : a \in ApartmentsOn(f)
                                          THEN NULL ELSE apartment[a]]

RemoveFloor(s) ==
    /\ Called(s, "floors.remove")
    /\ \E f \in Rows(floor) : DeleteFloors({f})
    /\ UNCHANGED <<block, req, planHistory>>

-----------------------------------------------------------------------------
(* Blocks. *)

CreateBlock(s) ==
    /\ Called(s, "blocks.create")
    /\ \E b \in Fresh(Blocks) :
         /\ block' = block \cup {b}
         /\ origin' = [origin EXCEPT ![b] = Branch]
    /\ UNCHANGED <<floor, apartment, req, crowded, patched>>

\* update and bulkAssignBranch save the block they loaded, which may be gone.
UpdateBlock(s) ==
    /\ Called(s, "blocks.update")
    /\ \E b \in block : Become(s, [Idle EXCEPT !.op = "saveBlock", !.from = b])
    /\ UNCHANGED <<tables, planHistory>>

SaveBlock(s) ==
    /\ req[s].op = "saveBlock"
    /\ block' = block \cup {req[s].from}
    /\ Ends(s)
    /\ UNCHANGED <<floor, apartment, planHistory>>

RemoveBlock(s) ==
    /\ Called(s, "blocks.remove")
    /\ \E b \in block : block' = block \ {b} /\ DeleteFloors(FloorsOf(b))
    /\ UNCHANGED <<req, planHistory>>

\* The block is loaded with its floors and their apartments.
DuplicateBlock(s) ==
    /\ Called(s, "blocks.duplicate")
    /\ \E b \in block :
         Become(s, [Idle EXCEPT !.op = "insertCopy", !.from = b,
                        !.floors = Only(floor, FloorsOf(b)),
                        !.apartments = Only(apartment, {a \in Rows(apartment) :
                                                apartment[a].floor \in FloorsOf(b)})])
    /\ UNCHANGED <<tables, planHistory>>

\* Of the apartments of which ids are the copies, hotspots name the copies.
Remap_Not(of, hotspots) == hotspots
Remap(of, hotspots) ==
    {a \in DOMAIN of : of[a] \in hotspots} \cup (hotspots \ {of[a] : a \in DOMAIN of})

\* The new block b, its floors, copies of level, and on them those of unit.
Duplicated(r, b, level, unit, on) ==
    LET row(f) == r.floors[level[f]]
        units(f) == {a \in DOMAIN unit : on[a] = f}
    IN
    /\ \A a \in DOMAIN unit : level[on[a]] = r.apartments[unit[a]].floor
    /\ block' = block \cup {b}
    /\ floor' = [f \in Floors |->
                   IF f \in DOMAIN level
                   THEN [block |-> b, level |-> row(f).level,
                         hotspots |-> Remap([a \in units(f) |-> unit[a]], row(f).hotspots)]
                   ELSE floor[f]]
    /\ apartment' = [a \in Apartments |->
                       IF a \in DOMAIN unit
                       THEN [floor |-> on[a], number |-> r.apartments[unit[a]].number]
                       ELSE apartment[a]]
    /\ origin' = [x \in Ids |-> IF x = b THEN Branch
                                ELSE IF x \in DOMAIN level THEN b
                                ELSE IF x \in DOMAIN unit THEN on[x]
                                ELSE origin[x]]
    /\ crowded' = IF r.from \in crowded THEN crowded \cup {b} ELSE crowded
    /\ patched' = patched \cup {p \in (DOMAIN level) \X Apartments :
          p[2] \in row(p[1]).hotspots /\ \A a \in units(p[1]) : unit[a] # p[2]}

\* The transaction.
InsertDuplicate(s) ==
    LET r == req[s] IN
    /\ r.op = "insertCopy"
    /\ \E b \in Fresh(Blocks), level \in Copies(Fresh(Floors), Rows(r.floors)),
          unit \in Copies(Fresh(Apartments), Rows(r.apartments)) :
       \E on \in [DOMAIN unit -> DOMAIN level] : Duplicated(r, b, level, unit, on)
    /\ Ends(s)

-----------------------------------------------------------------------------
(* Apartments. *)

Taken(f, n) == n \in NumbersOn(f)

\* apartments.create asks for a number and finds out by the unique index.
CreateApartment(s) ==
    /\ Called(s, "apartments.create")
    /\ \E f \in Rows(floor), n \in Numbers :
         Become(s, [Idle EXCEPT !.op = "insertApartments", !.floor = f,
                        !.numbers = {n}, !.unsure = TRUE])
    /\ UNCHANGED <<tables, planHistory>>

\* allocateFreeNumericApartmentNumbers: the numbers above the largest found.
Allocated_FromLargest(f, count) ==
    {(top)..(top + count - 1) : top \in {n \in NumbersOn(f) \cup {0} :
                                           \A m \in NumbersOn(f) : m <= n}}
Allocated(f, count) ==
    {(top + 1)..(top + count) : top \in {n \in NumbersOn(f) \cup {0} :
                                           \A m \in NumbersOn(f) : m <= n}}

BulkCreateOnFloor(s) ==
    /\ Called(s, "apartments.bulkCreateOnFloor")
    /\ \E f \in Rows(floor), count \in 1..MaxBulk :
         \E numbers \in Allocated(f, count) \cap SUBSET Numbers :
              Become(s, [Idle EXCEPT !.op = "insertApartments", !.floor = f,
                             !.numbers = numbers])
    /\ UNCHANGED <<tables, planHistory>>

\* Apartments with the given numbers appear on the floor f.
Insert(f, number) ==
    /\ apartment' = [a \in Apartments |->
                       IF a \in DOMAIN number THEN [floor |-> f, number |-> number[a]]
                       ELSE apartment[a]]
    /\ origin' = [x \in Ids |-> IF x \in DOMAIN number THEN f ELSE origin[x]]

\* The foreign key and the unique index let the numbers in.
Insertable(f, numbers) == floor[f] # NULL /\ numbers \cap NumbersOn(f) = {}

\* The transaction inserts all of them or none.
InsertApartments(s) ==
    LET r == req[s] IN
    /\ r.op = "insertApartments"
    /\ \/ /\ Insertable(r.floor, r.numbers)
          /\ \E number \in Copies(Fresh(Apartments), r.numbers) : Insert(r.floor, number)
          /\ BecomeAfterInsert(s, Idle, r.floor)
       \/ ~ Insertable(r.floor, r.numbers) /\ Ends(s) /\ UNCHANGED <<apartment, origin>>
    /\ UNCHANGED <<block, floor, crowded, patched>>

\* changeStatus and the showroom's endpoints update and keep the number, too.
UpdateApartment(s) ==
    /\ Called(s, "apartments.update")
    /\ \E a \in Rows(apartment), n \in Numbers :
         Become(s, [Idle EXCEPT !.op = IF n # apartment[a].number THEN "checkNumber"
                                       ELSE "saveApartment",
                        !.floor = apartment[a].floor, !.from = a, !.numbers = {n},
                        !.unsure = TRUE])
    /\ UNCHANGED <<tables, planHistory>>

CheckNumber(s) ==
    LET r == req[s] IN
    /\ r.op = "checkNumber"
    /\ IF \E n \in r.numbers : Taken(r.floor, n) THEN Ends(s)
       ELSE Become(s, [r EXCEPT !.op = "saveApartment", !.unsure = FALSE])
    /\ UNCHANGED <<tables, planHistory>>

\* save() changes the row, or inserts it on a floor that exists; the unique
\* index lets the number in.
Numberable(a, f, n) ==
    /\ floor[f] # NULL /\ apartment[a] # [floor |-> f, number |-> n]
    /\ \A c \in ApartmentsOn(f) \ {a} : apartment[c].number # n

SaveApartment(s) ==
    LET r == req[s] IN
    /\ r.op = "saveApartment"
    /\ \/ \E n \in r.numbers :
            /\ Numberable(r.from, r.floor, n)
            /\ apartment' = [apartment EXCEPT ![r.from] = [floor |-> r.floor, number |-> n]]
            /\ BecomeAfterInsert(s, Idle, r.floor)
       \/ /\ \A n \in r.numbers : ~ Numberable(r.from, r.floor, n)
          /\ Ends(s) /\ UNCHANGED apartment
    /\ UNCHANGED <<block, floor, planHistory>>

RemoveApartment(s) ==
    /\ Called(s, "apartments.remove")
    /\ \E a \in Rows(apartment) : apartment' = [apartment EXCEPT ![a] = NULL]
    /\ UNCHANGED <<block, floor, req, planHistory>>

\* What both kinds of copy load: a source with its apartments, and one target
\* (bound: they are served one after the other) of the same block.
CopyOf(f, g) ==
    [Idle EXCEPT !.floor = f, !.row = floor[f], !.from = g, !.floors = Only(floor, {g}),
                 !.apartments = Only(apartment, ApartmentsOn(g))]
SameBlock(f, g) == f # g /\ floor[f] # NULL /\ floor[g] # NULL /\ floor[f].block = floor[g].block

\* transformNumberForFloorCopy; there is no copy with a number below 0.
Transformed(r, n) == n + (r.row.level - r.floors[r.from].level) * Multiplier
\* Bound: the copies' numbers are among Numbers.
InBound(r) == \A a \in Rows(r.apartments) :
                  LET n == Transformed(r, r.apartments[a].number) IN n >= 0 => n \in Numbers

CopyFromFloor(s) ==
    /\ Called(s, "apartments.copyFromFloor")
    /\ \E f, g \in Floors :
         /\ SameBlock(f, g) /\ InBound(CopyOf(f, g))
         /\ Become(s, [CopyOf(f, g) EXCEPT !.op = "copyNext"])
    /\ UNCHANGED <<tables, planHistory>>

\* The next apartment by number is skipped or found free to copy.
CopyNext(s) ==
    LET r == req[s] IN
    /\ r.op = "copyNext"
    /\ \/ Rows(r.apartments) = {} /\ Ends(s)
       \/ \E a \in Rows(r.apartments) :
            LET n == Transformed(r, r.apartments[a].number)
                rest == [r EXCEPT !.apartments = [@ EXCEPT ![a] = NULL]]
            IN
            /\ \A c \in Rows(r.apartments) : r.apartments[a].number <= r.apartments[c].number
            /\ IF n < 0 \/ Taken(r.floor, n) THEN Become(s, rest)
               ELSE Become(s, [rest EXCEPT !.op = "saveCopy", !.numbers = {n},
                                           !.unsure = FALSE])
    /\ UNCHANGED <<tables, planHistory>>

\* An error ends the request and leaves the copies made before.
SaveCopy(s) ==
    LET r == req[s] IN
    /\ r.op = "saveCopy"
    /\ \/ /\ Insertable(r.floor, r.numbers)
          /\ \E number \in Copies(Fresh(Apartments), r.numbers) : Insert(r.floor, number)
          /\ BecomeAfterInsert(s, [r EXCEPT !.op = "copyNext", !.numbers = {}], r.floor)
       \/ ~ Insertable(r.floor, r.numbers) /\ Ends(s) /\ UNCHANGED <<apartment, origin>>
    /\ UNCHANGED <<block, floor, crowded, patched>>

CloneFromFloor(s) ==
    /\ Called(s, "apartments.cloneFromFloor")
    /\ \E f, g \in Floors, same, plan \in BOOLEAN :
         /\ SameBlock(f, g)
         /\ same \/ InBound(CopyOf(f, g))
         /\ Become(s, [CopyOf(f, g) EXCEPT !.op = "clone", !.same = same, !.plan = plan])
         /\ IF plan THEN Meets(s, floor[f].block, FALSE) ELSE UNCHANGED crowded
    /\ UNCHANGED <<tables, origin, patched>>

\* What a clone calls the copy of the apartment a, and which it copies.
CloneNumber(r, a) == IF r.same THEN r.apartments[a].number
                     ELSE Transformed(r, r.apartments[a].number)
Cloned(r) == {a \in Rows(r.apartments) :
                /\ CloneNumber(r, a) >= 0 /\ ~ Taken(r.floor, CloneNumber(r, a))}

\* The transaction: the apartments whose numbers are free, and the plan of the
\* source on the copy of the target's row that was loaded before.
CommitClone(s) ==
    LET r == req[s]
        source == r.floors[r.from]
        possible == /\ Cloned(r) # {} => floor[r.floor] # NULL
                    /\ r.plan => Storable(r.floor, r.row)
    IN
    /\ r.op = "clone"
    /\ \/ /\ possible
          /\ \E of \in Copies(Fresh(Apartments), Cloned(r)) :
               /\ Insert(r.floor, [a \in DOMAIN of |-> CloneNumber(r, of[a])])
               /\ floor' = IF r.plan
                           THEN [floor EXCEPT ![r.floor] =
                                   [r.row EXCEPT !.hotspots = Remap(of, source.hotspots)]]
                           ELSE floor
          /\ patched' = IF r.plan
                        THEN patched \cup ({r.floor} \X (source.hotspots \ Cloned(r)))
                        ELSE patched
          /\ BecomeAfterInsert(s, Idle, r.floor)
       \/ ~ possible /\ Ends(s) /\ UNCHANGED <<floor, apartment, origin, patched>>
    /\ UNCHANGED <<block, crowded>>

-----------------------------------------------------------------------------
\* A statement fails or the connection is lost; what was not committed is gone.
Drop(s) == req[s].op # "idle" /\ Ends(s) /\ UNCHANGED <<tables, planHistory>>

PlanInit ==
    /\ \E w \in Workloads :
         /\ calls = w.calls /\ origin = w.origin
         /\ block = w.block /\ floor = w.floor /\ apartment = w.apartment
    /\ req = [s \in Slots |-> Idle]
    /\ crowded = {}
    /\ patched = {p \in Rows(floor) \X Apartments :
                    p[2] \in floor[p[1]].hotspots /\ origin[p[2]] # p[1]}

PlanStep(s) ==
    \/ CreateFloor(s) \/ InsertFloor(s) \/ UpdateFloor(s) \/ CheckLevel(s) \/ SaveFloor(s)
    \/ RemoveFloor(s) \/ CreateBlock(s) \/ UpdateBlock(s) \/ SaveBlock(s)
    \/ RemoveBlock(s) \/ DuplicateBlock(s) \/ InsertDuplicate(s)
    \/ CreateApartment(s) \/ BulkCreateOnFloor(s) \/ InsertApartments(s)
    \/ UpdateApartment(s) \/ CheckNumber(s) \/ SaveApartment(s)
    \/ RemoveApartment(s) \/ CopyFromFloor(s) \/ CopyNext(s) \/ SaveCopy(s)
    \/ CloneFromFloor(s) \/ CommitClone(s)

-----------------------------------------------------------------------------
\* A block has at most one floor of a level, although nothing but a check
\* before the write keeps it so: unless two writers of its floors overlapped
\* and one of them set a level.
OneFloorPerLevel ==
    \A f, g \in Rows(floor) :
        floor[f].block = floor[g].block /\ floor[f].level = floor[g].level =>
            f = g \/ floor[f].block \in crowded

\* A hotspot of a floor names an apartment of that floor, or none that exists,
\* whatever plans are copied, saved late, revived or restored: unless a request
\* drew it there for an apartment of another floor, or a clone or a duplicate
\* kept that of an apartment it did not copy (patched).
HotspotHome ==
    \A f \in Rows(floor) : \A h \in floor[f].hotspots :
        apartment[h] # NULL => apartment[h].floor = f \/ <<f, h>> \in patched

\* The numbers a request has found free are free until another gives them away:
\* the unique index rejects a creation, a copy or a renumbering for no other
\* reason.
NumbersFree ==
    \A s \in Slots :
        /\ req[s].op \in {"insertApartments", "saveCopy", "saveApartment"}
        /\ ~ req[s].unsure
        => req[s].numbers \cap NumbersOn(req[s].floor) = {}
=============================================================================
