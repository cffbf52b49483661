----------------------------- MODULE Migrations -----------------------------
(***************************************************************************)
(* MigrationRunnerService: the SQL files of migrations/ that the database  *)
(* has no record of are applied at every start of the backend, and by      *)
(* runManually, after a JSON backup of the tables.                         *)
(*                                                                         *)
(* A step is one query.  A run stops at the first error that is not skipped*)
(* as "already exists"; the process may die between any two queries, and   *)
(* the server finishes or drops the query under way in its own time.       *)
(* onModuleInit is over before the backend listens, so that a manual run   *)
(* never meets the run of the start, but manual runs may overlap.          *)
(* An operator named Op_Flaw is Op with one mistake in it.                 *)
(***************************************************************************)
EXTENDS Naturals, FiniteSets

CONSTANTS
    NFiles, Size,     \* files in the order of their names, their statements
    NTables, TableOf, \* TABLES_TO_BACKUP; a statement's table, 0 for one not listed
    Guarded,          \* statements with IF NOT EXISTS or IF EXISTS
    Refusable,        \* those a skipped code may refuse without their being in effect:
                      \* as 42P16, or an ALTER for one of its clauses
    Boot, Manual,     \* the run of the start, calls of runManually
    MaxCrashes,       \* bound: how often the process dies
    MaxFailures       \* bound: the runs that fail

Files == 1..NFiles
Statements == UNION {{f} \X (1..Size[f]) : f \in Files}
\* The query after the last statement of a file records the file.
Queries == UNION {{f} \X (1..(Size[f] + 1)) : f \in Files}
Runs == Manual \cup {Boot}

ASSUME MigrationsAssumption ==
    /\ NFiles \in Nat /\ Size \in [Files -> Nat]
    /\ NTables \in Nat /\ TableOf \in [Statements -> 0..NTables]
    /\ Guarded \subseteq Statements /\ Refusable \subseteq Statements
    /\ Boot \notin Manual
    /\ MaxCrashes \in Nat /\ MaxFailures \in Nat

VARIABLES
    deployed, \* the files of the image the backend runs
    schema,   \* the statements in effect
    applied,  \* __applied_migrations
    pc, todo, next, \* a run: where it is, its files, the next query of the first
    read, image,    \* its backup: the next table, the statements it came before
    saved,    \* statements that a written backup came before
    empty,    \* tables that a backup holds as []
    refused,  \* history: the statements skipped without being in effect
    orphans,  \* queries of dead runs that the server may still finish
    hurt,     \* whether an error of the surroundings ended the run of the start
    crashes, failures

database == <<schema, applied, refused, orphans>>
runs == <<pc, todo, next>>
backup == <<read, image, saved, empty>>
bounds == <<hurt, crashes, failures>>
vars == <<deployed, database, runs, backup, bounds>>

First_Unsorted(r, f) == f \in todo[r]
First(r, f) == f \in todo[r] /\ \A g \in todo[r] : f <= g
\* The query a run is waiting for.
Current(r) == {<<f, next[r]>> : f \in {g \in todo[r] : pc[r] = "applyFile" /\ First(r, g)}}

TypeOK ==
    /\ deployed \subseteq Files /\ applied \subseteq Files
    /\ schema \subseteq Statements /\ saved \subseteq Statements
    /\ refused \subseteq Refusable
    /\ pc \in [Runs -> {"off", "pendingFiles", "takeJsonBackup", "applyFile", "ended"}]
    /\ todo \in [Runs -> SUBSET Files]
    /\ next \in [Runs -> Nat]
    /\ \A r \in Runs : Current(r) \subseteq Queries
    /\ read \in [Runs -> 1..(NTables + 1)]
    /\ image \in [Runs -> SUBSET Statements]
    /\ empty \subseteq 1..NTables
    /\ orphans \subseteq Queries
    /\ hurt \in BOOLEAN
    /\ crashes \in 0..MaxCrashes /\ failures \in 0..MaxFailures

-----------------------------------------------------------------------------
(* Starts and ends of runs. *)

\* The image may be another one than before.
OnModuleInit(files) ==
    /\ pc[Boot] = "off"
    /\ pc' = [pc EXCEPT ![Boot] = "pendingFiles"]
    /\ deployed' = files
    /\ hurt' = FALSE
    /\ UNCHANGED <<database, todo, next, backup, crashes, failures>>

RunManually(r) ==
    /\ pc[Boot] = "ended" /\ pc[r] = "off"
    /\ pc' = [pc EXCEPT ![r] = "pendingFiles"]
    /\ UNCHANGED <<deployed, database, todo, next, backup, bounds>>

\* The server may still finish the query that broke off.
Throw(r, code) ==
    /\ pc' = [pc EXCEPT ![r] = "ended"]
    /\ todo' = [todo EXCEPT ![r] = {}]
    /\ next' = [next EXCEPT ![r] = 1]
    /\ read' = [read EXCEPT ![r] = 1]
    /\ image' = [image EXCEPT ![r] = {}]
    /\ orphans' \in {orphans, orphans \cup Current(r)}
    /\ failures' = IF code = "other" THEN failures + 1 ELSE failures
    /\ hurt' = (hurt \/ (r = Boot /\ code = "other"))
    /\ UNCHANGED <<deployed, schema, applied, refused, saved, empty, crashes>>

\* A query of the runner's own fails, or its file cannot be read or written.
Fail(r) ==
    /\ pc[r] \notin {"off", "ended"} /\ failures < MaxFailures
    /\ Throw(r, "other")

\* The process stops; docker compose starts it again.
Crash(broken) ==
    /\ pc[Boot] # "off" /\ crashes < MaxCrashes
    /\ crashes' = crashes + 1
    /\ pc' = [r \in Runs |-> "off"]
    /\ todo' = [r \in Runs |-> {}]
    /\ next' = [r \in Runs |-> 1]
    /\ read' = [r \in Runs |-> 1]
    /\ image' = [r \in Runs |-> {}]
    /\ orphans' = orphans \cup broken
    /\ UNCHANGED <<deployed, schema, applied, refused, saved, empty, hurt, failures>>

\* A query is not undone by the end of its run; it takes effect late or never.
Effect(q) ==
    IF q \in Statements THEN schema' = schema \cup {q} /\ UNCHANGED applied
    ELSE applied' = applied \cup {q[1]} /\ UNCHANGED schema

Land(q) ==
    /\ orphans' = orphans \ {q}
    /\ Effect(q) \/ UNCHANGED <<schema, applied>>
    /\ UNCHANGED <<deployed, refused, runs, backup, bounds>>

-----------------------------------------------------------------------------
(* The steps of a run. *)

PendingFiles(r) ==
    /\ pc[r] = "pendingFiles"
    /\ todo' = [todo EXCEPT ![r] = deployed \ applied]
    /\ pc' = [pc EXCEPT ![r] = IF deployed \subseteq applied THEN "ended" ELSE "takeJsonBackup"]
    /\ UNCHANGED <<deployed, database, next, backup, bounds>>

\* A table that cannot be read is saved as [].
ReadTable(r) ==
    /\ pc[r] = "takeJsonBackup" /\ read[r] <= NTables
    /\ read' = [read EXCEPT ![r] = @ + 1]
    /\ \/ /\ image' = [image EXCEPT ![r] =
                         @ \cup {s \in Statements \ schema : TableOf[s] = read[r]}]
          /\ UNCHANGED empty
       \/ /\ empty' = empty \cup {read[r]}
          /\ UNCHANGED image
    /\ UNCHANGED <<deployed, database, runs, saved, bounds>>

WriteBackup(r) ==
    /\ pc[r] = "takeJsonBackup" /\ read[r] > NTables
    /\ saved' = saved \cup image[r]
    /\ pc' = [pc EXCEPT ![r] = "applyFile"]
    /\ read' = [read EXCEPT ![r] = 1]
    /\ image' = [image EXCEPT ![r] = {}]
    /\ UNCHANGED <<deployed, database, todo, next, empty, bounds>>

\* "alreadyExists" stands for 42710, 42P07, 42701 and 42723, "invalidTable" for
\* 42P16, "none" for success.
Errors(s) ==
    {IF s \in schema \ Guarded THEN "alreadyExists" ELSE "none"}
        \cup {code \in {"alreadyExists", "invalidTable"} : s \in Refusable}
        \cup {code \in {"other"} : failures < MaxFailures}

isIdempotentError_None(code) == FALSE
isIdempotentError(code) == code \in {"alreadyExists", "invalidTable"}

NextStatement(r) ==
    /\ next' = [next EXCEPT ![r] = @ + 1]
    /\ UNCHANGED <<deployed, applied, orphans, pc, todo, backup, bounds>>

ApplyStatement_NotThrown(r, f) ==
    /\ pc[r] = "applyFile" /\ First(r, f)
    /\ next[r] <= Size[f]
    /\ \E code \in Errors(<<f, next[r]>>) :
         /\ schema' = IF code = "none" THEN schema \cup {<<f, next[r]>>} ELSE schema
         /\ refused' = IF isIdempotentError(code) THEN refused \cup ({<<f, next[r]>>} \ schema)
                       ELSE refused
         /\ failures' = IF code = "other" THEN failures + 1 ELSE failures
    /\ next' = [next EXCEPT ![r] = @ + 1]
    /\ UNCHANGED <<deployed, applied, orphans, pc, todo, backup, hurt, crashes>>
ApplyStatement(r, f) ==
    /\ pc[r] = "applyFile" /\ First(r, f)
    /\ next[r] <= Size[f]
    /\ \E code \in Errors(<<f, next[r]>>) :
         \/ /\ code = "none"
            /\ schema' = schema \cup {<<f, next[r]>>}
            /\ NextStatement(r)
            /\ UNCHANGED refused
         \/ /\ isIdempotentError(code)
            /\ refused' = refused \cup ({<<f, next[r]>>} \ schema)
            /\ NextStatement(r)
            /\ UNCHANGED schema
         \/ code # "none" /\ ~ isIdempotentError(code) /\ Throw(r, code)

RecordFile_KeepNext(r, f) ==
    /\ pc[r] = "applyFile" /\ First(r, f)
    /\ next[r] > Size[f]
    /\ applied' = applied \cup {f}
    /\ todo' = [todo EXCEPT ![r] = @ \ {f}]
    /\ pc' = [pc EXCEPT ![r] = IF todo[r] = {f} THEN "ended" ELSE @]
    /\ UNCHANGED <<deployed, schema, refused, orphans, next, backup, bounds>>
RecordFile(r, f) ==
    /\ pc[r] = "applyFile" /\ First(r, f)
    /\ next[r] > Size[f]
    /\ applied' = applied \cup {f}
    /\ todo' = [todo EXCEPT ![r] = @ \ {f}]
    /\ next' = [next EXCEPT ![r] = 1]
    /\ pc' = [pc EXCEPT ![r] = IF todo[r] = {f} THEN "ended" ELSE @]
    /\ UNCHANGED <<deployed, schema, refused, orphans, backup, bounds>>

-----------------------------------------------------------------------------
Init ==
    /\ deployed = {}
    /\ schema \in SUBSET Statements
    /\ applied = {} /\ refused = {} /\ orphans = {}
    /\ pc = [r \in Runs |-> "off"]
    /\ todo = [r \in Runs |-> {}]
    /\ next = [r \in Runs |-> 1]
    /\ read = [r \in Runs |-> 1]
    /\ image = [r \in Runs |-> {}]
    /\ saved = {} /\ empty = {}
    /\ hurt = FALSE /\ crashes = 0 /\ failures = 0

Start == \E files \in SUBSET Files : OnModuleInit(files)

Step(r) ==
    \/ PendingFiles(r)
    \/ ReadTable(r)
    \/ WriteBackup(r)
    \/ \E f \in Files : ApplyStatement(r, f) \/ RecordFile(r, f)

Next ==
    \/ Start
    \/ \E r \in Manual : RunManually(r)
    \/ \E r \in Runs : Step(r) \/ Fail(r)
    \/ \E broken \in SUBSET UNION {Current(r) : r \in Runs} : Crash(broken)
    \/ \E q \in orphans : Land(q)

Spec == Init /\ [][Next]_vars

\* The container is started again, and the run of the start goes on by itself.
FairSpec == Spec /\ WF_vars(Start) /\ WF_vars(Step(Boot))

-----------------------------------------------------------------------------
\* The runner keeps the promise of MigrationLog through crashes, failures and
\* overlapping runs: no statement takes effect before a backup (as far as the
\* code insists on one) and the statements before it, and no file is recorded
\* of which a statement is neither in effect nor was refused with one of the
\* codes that the code takes for "already exists".
Excused == {s \in Statements : TableOf[s] \in empty \cup {0}}
Log == INSTANCE MigrationLog WITH safe <- saved \cup Excused
Implements == Log!Spec

\* A run changes the schema for a file only when all the deployed files with
\* smaller names are recorded.
InOrder ==
    [][\A s \in schema' \ schema :
         orphans' = orphans => \A f \in deployed : f < s[1] => f \in applied]_vars

\* However often it was interrupted, a start that meets no error of its
\* surroundings leaves every deployed file recorded, whatever was in effect.
Converges == <>[](hurt \/ deployed \subseteq applied)
=============================================================================
