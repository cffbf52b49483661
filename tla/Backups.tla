------------------------------ MODULE Backups ------------------------------
(***************************************************************************)
(* AdminBackupsService beside the requests of FloorPlan: a dump reads the  *)
(* tables one query after the other, a restore drops the schema and fills  *)
(* the tables one INSERT after the other; its transaction is that of       *)
(* another connection, so each INSERT is committed for itself.             *)
(*                                                                         *)
(* Three of the ten tables stand for the chain of foreign keys.  The file  *)
(* is the dump written last; restored are files the service wrote itself.  *)
(* Bound: one dump and one restore at a time.                              *)
(* An operator named Op_Flaw is Op with one mistake in it.                 *)
(***************************************************************************)
EXTENDS FloorPlan

CONSTANT MaxDumps   \* bound: the dumps of one behaviour

VARIABLES
    schema,    \* the schema public: ready (with its tables), empty or absent
    dump,      \* createDump: the next table to read, what was read
    file,      \* the last file written to backups/; first, one of the initial tables
    restore,   \* restoreJson: its next step, what the file says
    dumps      \* the dumps begun so far

backupVars == <<schema, dump, file, restore, dumps>>
vars == <<planVars, backupVars>>

\* The tables in the order of createJsonBackup and of restoreJson.
After_Parents == [blocks |-> "apartments", apartments |-> "floors", floors |-> "end"]
After_Short == [blocks |-> "floors", floors |-> "end", apartments |-> "end"]
After == [blocks |-> "floors", floors |-> "apartments", apartments |-> "end"]
Tables == {"blocks", "floors", "apartments"}

\* born: the ids inserted since the first table was read (a history).
Data == [block : SUBSET Blocks, floor : FloorTable, apartment : ApartmentTable,
         born : SUBSET Ids]
Nothing == [block |-> {}, floor |-> NoFloors, apartment |-> NoApartments, born |-> {}]
NoDump == [next |-> "none", data |-> Nothing]
\* touched: since the drop a request has changed the tables, or nothing was
\* dropped (a history).
NoRestore == [next |-> "none", data |-> Nothing, touched |-> FALSE]

TypeOK ==
    /\ PlanTypeOK /\ calls \subseteq Slots \X STRING
    /\ schema \in {"ready", "empty", "absent"}
    /\ dump \in [next : {"none", "end"} \cup Tables, data : Data]
    /\ file \in Data
    /\ restore \in [next : {"none", "create", "synchronize"} \cup Tables, data : Data,
                    touched : BOOLEAN]
    /\ dumps \in Nat

-----------------------------------------------------------------------------
(* The dump. *)

CreateDump ==
    /\ dump.next = "none" /\ (\E s \in Slots : <<s, "dump">> \in calls)
    /\ dumps < MaxDumps /\ dumps' = dumps + 1
    /\ dump' = [NoDump EXCEPT !.next = "blocks"]
    /\ UNCHANGED <<planVars, schema, file, restore>>

\* One find() of createJsonBackup.
ReadTable ==
    /\ dump.next \in Tables /\ schema = "ready"
    /\ dump' = [next |-> After[dump.next],
                data |-> CASE dump.next = "blocks" -> [dump.data EXCEPT !.block = block]
                           [] dump.next = "floors" -> [dump.data EXCEPT !.floor = floor]
                           [] dump.next = "apartments" ->
                                  [dump.data EXCEPT !.apartment = apartment]]
    /\ UNCHANGED <<planVars, schema, file, restore, dumps>>

WriteFile ==
    /\ dump.next = "end"
    /\ file' = dump.data
    /\ dump' = NoDump
    /\ UNCHANGED <<planVars, schema, restore, dumps>>

DumpFails ==
    /\ dump.next # "none"
    /\ dump' = NoDump
    /\ UNCHANGED <<planVars, schema, file, restore, dumps>>

\* Rows inserted between two reads of a dump are born.
Watch ==
    LET new == (block' \ block) \cup (Rows(floor') \ Rows(floor))
                 \cup (Rows(apartment') \ Rows(apartment))
    IN  dump' = IF dump.next \in {"floors", "apartments"}
                THEN [next |-> dump.next, data |-> [dump.data EXCEPT !.born = @ \cup new]]
                ELSE dump

-----------------------------------------------------------------------------
(* The restore. *)

\* clearAndWrite drops everything; DROP SCHEMA fails when there is none.
Restore_Unclean(clear) ==
    /\ restore.next = "none" /\ (\E s \in Slots : <<s, "restore">> \in calls)
    /\ IF clear
       THEN /\ schema # "absent"
            /\ schema' = "absent"
            /\ restore' = [next |-> "create", data |-> file, touched |-> FALSE]
       ELSE /\ restore' = [next |-> "blocks", data |-> file, touched |-> TRUE]
            /\ UNCHANGED schema
    /\ UNCHANGED <<planVars, dump, file, dumps>>
Restore(clear) ==
    /\ restore.next = "none" /\ (\E s \in Slots : <<s, "restore">> \in calls)
    /\ IF clear
       THEN /\ schema # "absent"
            /\ schema' = "absent"
            /\ block' = {} /\ floor' = NoFloors /\ apartment' = NoApartments
            /\ restore' = [next |-> "create", data |-> file, touched |-> FALSE]
       ELSE /\ restore' = [next |-> "blocks", data |-> file, touched |-> TRUE]
            /\ UNCHANGED <<schema, tables>>
    /\ UNCHANGED <<calls, req, planHistory, dump, file, dumps>>

CreateSchema ==
    /\ restore.next = "create"
    /\ schema' = "empty"
    /\ restore' = [restore EXCEPT !.next = "synchronize"]
    /\ UNCHANGED <<planVars, dump, file, dumps>>

Synchronize ==
    /\ restore.next = "synchronize"
    /\ schema' = "ready"
    /\ restore' = [restore EXCEPT !.next = "blocks"]
    /\ UNCHANGED <<planVars, dump, file, dumps>>

\* The INSERT of all rows of one table breaks no key, no unique index and no
\* foreign key.
Insertion(table, data) ==
    CASE table = "blocks" -> data.block \cap block = {}
      [] table = "floors" ->
            /\ Rows(data.floor) \cap Rows(floor) = {}
            /\ \A f \in Rows(data.floor) : data.floor[f].block \in block
      [] table = "apartments" ->
            /\ Rows(data.apartment) \cap Rows(apartment) = {}
            /\ \A a \in Rows(data.apartment) :
                 /\ floor[data.apartment[a].floor] # NULL
                 /\ data.apartment[a].number \notin NumbersOn(data.apartment[a].floor)
            /\ \A a, c \in Rows(data.apartment) :
                 data.apartment[a] = data.apartment[c] => a = c

\* insertMany issues no statement for a table without rows.
NoRows(table, data) ==
    CASE table = "blocks" -> data.block = {}
      [] table = "floors" -> Rows(data.floor) = {}
      [] table = "apartments" -> Rows(data.apartment) = {}
Succeeds(table, data) == (schema = "ready" \/ NoRows(table, data)) /\ Insertion(table, data)

Filled(old, new) == [x \in DOMAIN old |-> IF new[x] # NULL THEN new[x] ELSE old[x]]

\* Floors that come back beside others, or beside a request that writes one.
InsertFloors(data) ==
    /\ floor' = Filled(floor, data.floor)
    /\ crowded' = crowded \cup
         {b \in Blocks : /\ \E f \in Rows(data.floor) : data.floor[f].block = b
                         /\ \/ FloorsOf(b) # {}
                            \/ \E t \in Slots : Writes(req[t]) /\ req[t].row.block = b}
    /\ UNCHANGED <<block, apartment, req>>

InsertApartmentRows(data) ==
    /\ apartment' = Filled(apartment, data.apartment)
    /\ req' = [t \in Slots |->
                 IF \E a \in Rows(data.apartment) : data.apartment[a].floor = req[t].floor
                 THEN [req[t] EXCEPT !.unsure = TRUE] ELSE req[t]]
    /\ UNCHANGED <<block, floor, crowded>>

InsertMany ==
    LET table == restore.next
        data == restore.data
    IN
    /\ table \in Tables
    /\ \/ /\ Succeeds(table, data)
          /\ \/ /\ table = "blocks" /\ block' = block \cup data.block
                /\ UNCHANGED <<floor, apartment, req, crowded>>
             \/ table = "floors" /\ InsertFloors(data)
             \/ table = "apartments" /\ InsertApartmentRows(data)
          /\ Watch
          /\ restore' = IF After[table] = "end" THEN NoRestore
                        ELSE [restore EXCEPT !.next = After[table]]
       \/ /\ ~ Succeeds(table, data)
          /\ restore' = NoRestore
          /\ UNCHANGED <<tables, req, crowded, dump>>
    /\ UNCHANGED <<calls, origin, patched, schema, file, dumps>>

RestoreFails ==
    /\ restore.next # "none"
    /\ restore' = NoRestore
    /\ UNCHANGED <<planVars, schema, dump, file, dumps>>

-----------------------------------------------------------------------------
\* A statement of a request, while there are tables.
Call(s) ==
    /\ schema = "ready" /\ PlanStep(s)
    /\ Watch
    /\ restore' = IF restore.next \in Tables /\ tables' # tables
                  THEN [restore EXCEPT !.touched = TRUE] ELSE restore
    /\ UNCHANGED <<calls, schema, file, dumps>>

Lost(s) == Drop(s) /\ UNCHANGED <<calls, backupVars>>

Init ==
    /\ PlanInit
    /\ schema = "ready" /\ dump = NoDump /\ restore = NoRestore /\ dumps = 0
    /\ file = [Nothing EXCEPT !.block = block, !.floor = floor, !.apartment = apartment]

Next ==
    \/ \E s \in Slots : Call(s) \/ Lost(s)
    \/ CreateDump \/ ReadTable \/ WriteFile \/ DumpFails
    \/ \E clear \in BOOLEAN : Restore(clear)
    \/ CreateSchema \/ Synchronize \/ InsertMany \/ RestoreFails

Spec == Init /\ [][Next]_vars

-----------------------------------------------------------------------------
\* In a finished dump, a row whose parent is missing has a parent that was
\* inserted while the dump ran: what was deleted meanwhile leaves no orphans,
\* because the tables are read from the parents down.
DumpClosed ==
    /\ \A f \in Rows(file.floor) :
         file.floor[f].block \in file.block \cup file.born
    /\ \A a \in Rows(file.apartment) :
         file.apartment[a].floor \in Rows(file.floor) \cup file.born

\* A file without orphans.
Closed(data) ==
    /\ \A f \in Rows(data.floor) : data.floor[f].block \in data.block
    /\ \A a \in Rows(data.apartment) : data.apartment[a].floor \in Rows(data.floor)

\* A file without orphans can be restored: after the drop none of its INSERTs
\* is rejected, be it the first try or one after a restore that failed, unless
\* a request changes the tables meanwhile.
Restorable ==
    restore.next \in Tables /\ ~ restore.touched /\ Closed(restore.data)
    => schema = "ready" /\ Insertion(restore.next, restore.data)

\* Then its last INSERT leaves the rows of the file and no other: nothing of
\* the tables before the drop or of a try that failed is left, and no row, no
\* level, hotspot or number of the file is lost, although each INSERT is
\* committed for itself.
RestoredWhole ==
    [][InsertMany /\ After[restore.next] = "end"
         /\ ~ restore.touched /\ Closed(restore.data)
       => /\ block' = restore.data.block
          /\ floor' = restore.data.floor
          /\ apartment' = restore.data.apartment]_vars
=============================================================================
