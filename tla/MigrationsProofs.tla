-------------------------- MODULE MigrationsProofs --------------------------
(***************************************************************************)
(* Migrations keeps the promise of MigrationLog, for any number of files,  *)
(* statements, tables, overlapping runs, crashes and failures.             *)
(***************************************************************************)
EXTENDS Migrations, TLAPS

Covered == saved \cup Excused
Before(q) == {<<q[1], i>> : i \in 1..(q[2] - 1)}

\* No run outlives the process.
Together == pc[Boot] = "off" => \A r \in Runs : pc[r] = "off"

\* A run begins its backup and its first file at the beginning.
Fresh == \A r \in Runs : /\ pc[r] # "takeJsonBackup" => read[r] = 1
                         /\ pc[r] # "applyFile" => next[r] = 1

\* A run has the deployed files before it that it did not find recorded.
Listed == \A r \in Runs : pc[r] \in {"takeJsonBackup", "applyFile"} => deployed \ todo[r] \subseteq applied

\* The tables read so far, and in the end all, were saved ahead of any change.
Reading == \A r \in Runs : pc[r] = "takeJsonBackup" =>
             \A s \in Statements \ schema : TableOf[s] < read[r] => s \in image[r] \cup Excused
BackedUp == \A r \in Runs : pc[r] = "applyFile" => Statements \subseteq schema \cup Covered

\* A query is sent when those before it in its file are in effect or were
\* refused, and it may be in effect late.
Sent == \A r \in Runs : \A q \in Current(r) : Before(q) \subseteq schema \cup refused
Left == \A q \in orphans : /\ Before(q) \subseteq schema \cup refused
                           /\ q \in Statements => q \in schema \cup Covered

Complete == \A f \in applied : Log!Whole(f)

Core ==
    /\ TypeOK
    /\ Together
    /\ Fresh
    /\ Listed
    /\ Reading
    /\ BackedUp
    /\ Sent
    /\ Left
    /\ Complete

\* The run of the start recorded what was deployed, or met an error.
Settled == pc[Boot] = "ended" => hurt \/ deployed \subseteq applied

IInv == Core /\ Settled

\* A statement is a file and the place of the statement in it.
LEMMA StatementPair ==
    \A q : q \in Statements <=> \E f \in Files : \E i \in 1..Size[f] : q = <<f, i>>
  BY DEF Statements

LEMMA QueryPair ==
    \A q : q \in Queries <=> \E f \in Files : \E i \in 1..(Size[f] + 1) : q = <<f, i>>
  BY DEF Queries

\* The query that is no statement comes after all of its file.
LEMMA LastQuery ==
    ASSUME NEW q \in Queries, q \notin Statements, Before(q) \subseteq schema \cup refused
    PROVE  q[1] \in Files /\ Log!Whole(q[1])
  <1>1. PICK f \in Files : \E i \in 1..(Size[f] + 1) : q = <<f, i>>
    BY QueryPair
  <1>2. PICK i \in 1..(Size[f] + 1) : q = <<f, i>>
    BY <1>1
  <1>3. Size[f] \in Nat
    BY MigrationsAssumption
  <1>4. i \notin 1..Size[f]
    BY <1>2, StatementPair
  <1>5. i = Size[f] + 1
    BY <1>3, <1>4
  <1>6. \A j \in 1..Size[f] : <<f, j>> \in schema \cup refused
    BY <1>2, <1>3, <1>5 DEF Before
  <1> QED
    BY <1>2, <1>6 DEF Log!Whole

-----------------------------------------------------------------------------
LEMMA InitCore == Init => Core
  <1> SUFFICES ASSUME Init PROVE Core
    OBVIOUS
  <1>1. \A r \in Runs : Current(r) = {}
    BY DEF Init, Current
  <1>2. 1 \in 1..(NTables + 1) /\ 0 \in 0..MaxCrashes /\ 0 \in 0..MaxFailures
    BY MigrationsAssumption
  <1>3. TypeOK
    BY <1>1, <1>2, Zenon DEF Init, TypeOK
  <1> QED
    BY <1>1, <1>3 DEF Init, Core, Together, Fresh, Listed, Reading, BackedUp, Sent, Left, Complete

-----------------------------------------------------------------------------
(* Starts and ends of runs. *)

LEMMA OnModuleInitStep ==
    ASSUME Core, NEW files \in SUBSET Files, OnModuleInit(files)
    PROVE  Core'
  <1> USE DEF Core, OnModuleInit, database, backup
  <1>1. \A r \in Runs : pc[r] = "off" /\ pc'[r] \in {"off", "pendingFiles"}
    BY DEF Together, TypeOK
  <1>2. \A r \in Runs : Current(r)' = {}
    BY <1>1 DEF Current
  <1>3. TypeOK'
    BY <1>2, Zenon DEF TypeOK
  <1>4. (Together /\ Fresh /\ Listed /\ Reading /\ BackedUp /\ Sent)'
    BY <1>1, <1>2 DEF Together, Fresh, Listed, Reading, BackedUp, Sent, TypeOK, Runs
  <1>5. (Left /\ Complete)'
    BY DEF Left, Complete, Log!Whole, Covered, Excused
  <1> QED
    BY <1>3, <1>4, <1>5

LEMMA RunManuallyStep ==
    ASSUME Core, NEW r \in Manual, RunManually(r)
    PROVE  Core'
  <1> USE DEF Core, RunManually, database, backup, bounds
  <1>1. \A p \in Runs : pc'[p] = pc[p] \/ (p = r /\ pc'[p] = "pendingFiles")
    BY DEF TypeOK
  <1>2. \A p \in Runs : Current(p)' \subseteq Current(p)
    BY <1>1 DEF Current, First
  <1>3. TypeOK'
    BY <1>2, Zenon DEF TypeOK, Runs
  <1>4. (Together /\ Fresh /\ Listed /\ Reading /\ BackedUp /\ Sent)'
    <2>1. pc'[Boot] = "ended"
      BY MigrationsAssumption DEF TypeOK, Runs
    <2>2. (Together /\ Fresh /\ Listed)'
      BY <1>1, <2>1 DEF Together, Fresh, Listed
    <2>3. Reading' /\ BackedUp'
      BY <1>1 DEF Reading, BackedUp, Covered, Excused
    <2>4. Sent'
      BY <1>2 DEF Sent
    <2> QED
      BY <2>2, <2>3, <2>4
  <1>5. (Left /\ Complete)'
    BY DEF Left, Complete, Log!Whole, Covered, Excused
  <1> QED
    BY <1>3, <1>4, <1>5

LEMMA ThrowStep ==
    ASSUME Core, NEW r \in Runs, NEW code, Throw(r, code), pc[r] # "off",
           code = "other" => failures < MaxFailures
    PROVE  Core'
  <1> USE DEF Core, Throw
  <1>1. \A p \in Runs : /\ p # r => /\ pc'[p] = pc[p] /\ todo'[p] = todo[p] /\ next'[p] = next[p]
                                    /\ read'[p] = read[p] /\ image'[p] = image[p]
                        /\ p = r => pc'[p] = "ended"
    BY DEF TypeOK
  <1>2. \A p \in Runs : Current(p)' \subseteq Current(p)
    BY <1>1 DEF Current, First
  <1>3. TypeOK'
    <2>1. failures' \in 0..MaxFailures
      BY MigrationsAssumption DEF TypeOK
    <2>2. 1 \in 1..(NTables + 1) /\ 1 \in Nat
      BY MigrationsAssumption
    <2>3. orphans' \subseteq Queries
      BY Zenon DEF TypeOK
    <2>4. pc' \in [Runs -> {"off", "pendingFiles", "takeJsonBackup", "applyFile", "ended"}]
      BY DEF TypeOK
    <2>5. /\ todo' \in [Runs -> SUBSET Files] /\ next' \in [Runs -> Nat]
          /\ read' \in [Runs -> 1..(NTables + 1)] /\ image' \in [Runs -> SUBSET Statements]
      BY <2>2 DEF TypeOK
    <2>6. hurt' \in BOOLEAN
      BY Zenon DEF TypeOK
    <2> QED
      BY <1>2, <2>1, <2>3, <2>4, <2>5, <2>6, Zenon DEF TypeOK
  <1>4. (Together /\ Fresh /\ Listed /\ Reading /\ BackedUp /\ Sent)'
    <2>1. (Together /\ Fresh /\ Listed)'
      BY <1>1 DEF Together, Fresh, Listed, Runs, TypeOK
    <2>2. Reading' /\ BackedUp'
      BY <1>1 DEF Reading, BackedUp, Covered, Excused
    <2>3. Sent'
      BY <1>2 DEF Sent
    <2> QED
      BY <2>1, <2>2, <2>3
  <1>5. Left'
    <2>1. \A q \in Current(r) : Before(q) \subseteq schema \cup refused
      BY DEF Sent
    <2>2. Current(r) # {} => Statements \subseteq schema \cup Covered
      BY DEF Current, BackedUp
    <2> QED
      BY <2>1, <2>2 DEF Left, Covered, Excused
  <1>6. Complete'
    BY DEF Complete, Log!Whole
  <1> QED
    BY <1>3, <1>4, <1>5, <1>6

LEMMA CrashStep ==
    ASSUME Core, NEW broken \in SUBSET UNION {Current(r) : r \in Runs}, Crash(broken)
    PROVE  Core'
  <1> USE DEF Core, Crash
  <1>1. \A r \in Runs : Current(r)' = {}
    BY DEF Current
  <1>2. \A q \in broken : \E r \in Runs : q \in Current(r)
    OBVIOUS
  <1>3. TypeOK'
    <2>1. crashes' \in 0..MaxCrashes
      BY MigrationsAssumption DEF TypeOK
    <2>2. 1 \in 1..(NTables + 1) /\ 1 \in Nat
      BY MigrationsAssumption
    <2>3. orphans' \subseteq Queries
      BY <1>2, Zenon DEF TypeOK
    <2> QED
      BY <1>1, <2>1, <2>2, <2>3, Zenon DEF TypeOK
  <1>4. (Together /\ Fresh /\ Listed /\ Reading /\ BackedUp /\ Sent)'
    BY <1>1 DEF Together, Fresh, Listed, Reading, BackedUp, Sent
  <1>5. Left'
    <2>1. \A q \in broken : Before(q) \subseteq schema \cup refused
      BY <1>2 DEF Sent
    <2>2. broken # {} => Statements \subseteq schema \cup Covered
      BY <1>2 DEF Current, BackedUp
    <2> QED
      BY <2>1, <2>2 DEF Left, Covered, Excused
  <1>6. Complete'
    BY DEF Complete, Log!Whole
  <1> QED
    BY <1>3, <1>4, <1>5, <1>6

\* A query that was left behind takes effect like any other.
LEMMA LandStep ==
    ASSUME Core, NEW q \in orphans, Land(q)
    PROVE  Core'
  <1> USE DEF Core, Land, runs, backup, bounds
  <1>1. schema \subseteq schema' /\ applied \subseteq applied'
    BY DEF Effect
  <1>2. \A r \in Runs : Current(r)' = Current(r)
    BY DEF Current, First
  <1>3. TypeOK'
    <2>1. schema' \subseteq Statements
      BY DEF Effect, TypeOK
    <2>2. applied' \subseteq Files
      <3>1. q[1] \in Files
        BY QueryPair DEF TypeOK
      <3> QED
        BY <3>1 DEF Effect, TypeOK
    <2> QED
      BY <1>2, <2>1, <2>2, Zenon DEF TypeOK
  <1>4. (Together /\ Fresh /\ Listed /\ Reading /\ BackedUp /\ Sent)'
    <2>1. (Together /\ Fresh /\ Listed)'
      BY <1>1 DEF Together, Fresh, Listed
    <2>2. Reading' /\ BackedUp'
      BY <1>1 DEF Reading, BackedUp, Covered, Excused
    <2>3. Sent'
      BY <1>1, <1>2 DEF Sent
    <2> QED
      BY <2>1, <2>2, <2>3
  <1>5. Left'
    BY <1>1 DEF Left, Covered, Excused
  <1>6. Complete'
    <2>1. q \notin Statements => Log!Whole(q[1])
      BY LastQuery DEF Left, TypeOK
    <2>2. \A f \in applied' : f \in applied \/ (q \notin Statements /\ f = q[1])
      BY DEF Effect
    <2> QED
      BY <1>1, <2>1, <2>2 DEF Complete, Log!Whole
  <1> QED
    BY <1>3, <1>4, <1>5, <1>6

-----------------------------------------------------------------------------
(* The steps of a run. *)

LEMMA PendingFilesStep ==
    ASSUME Core, NEW r \in Runs, PendingFiles(r)
    PROVE  Core'
  <1> USE DEF Core, PendingFiles, database, backup, bounds
  <1>1. /\ \A p \in Runs \ {r} : pc'[p] = pc[p] /\ todo'[p] = todo[p]
        /\ todo'[r] = deployed \ applied /\ pc'[r] \in {"ended", "takeJsonBackup"}
    BY DEF TypeOK
  <1>2. \A p \in Runs : Current(p)' \subseteq Current(p)
    BY <1>1 DEF Current, First
  <1>3. TypeOK'
    <2>1. todo' \in [Runs -> SUBSET Files]
      BY DEF TypeOK
    <2>2. pc' \in [Runs -> {"off", "pendingFiles", "takeJsonBackup", "applyFile", "ended"}]
      BY DEF TypeOK
    <2> QED
      BY <1>2, <2>1, <2>2, Zenon DEF TypeOK
  <1>4. (Together /\ Fresh /\ Listed)'
    BY <1>1 DEF Together, Fresh, Listed, Runs
  <1>5. Reading' /\ BackedUp'
    <2>1. pc'[r] = "takeJsonBackup" => read'[r] = 1 /\ \A s \in Statements : TableOf[s] < 1 => s \in Excused'
      BY MigrationsAssumption DEF Excused, Fresh
    <2> QED
      BY <1>1, <2>1 DEF Reading, BackedUp, Covered, Excused
  <1>6. Sent'
    BY <1>2 DEF Sent
  <1>7. (Left /\ Complete)'
    BY DEF Left, Complete, Log!Whole, Covered, Excused
  <1> QED
    BY <1>3, <1>4, <1>5, <1>6, <1>7

LEMMA ReadTableStep ==
    ASSUME Core, NEW r \in Runs, ReadTable(r)
    PROVE  Core'
  <1> USE DEF Core, ReadTable, database, runs, bounds
  <1>1. /\ \A p \in Runs \ {r} : read'[p] = read[p] /\ image'[p] = image[p]
        /\ read'[r] = read[r] + 1 /\ image[r] \subseteq image'[r]
        /\ read[r] \in 1..NTables
    BY MigrationsAssumption DEF TypeOK
  <1>2. \A p \in Runs : Current(p)' = Current(p)
    BY DEF Current, First
  <1>3. TypeOK'
    <2>1. read' \in [Runs -> 1..(NTables + 1)]
      BY <1>1, MigrationsAssumption DEF TypeOK
    <2>2. image' \in [Runs -> SUBSET Statements]
      BY DEF TypeOK
    <2>3. empty' \subseteq 1..NTables
      BY <1>1 DEF TypeOK
    <2> QED
      BY <1>2, <2>1, <2>2, <2>3, Zenon DEF TypeOK
  <1>4. (Together /\ Fresh /\ Listed)'
    BY <1>1 DEF Together, Fresh, Listed
  <1>5. empty \subseteq empty' /\ Excused \subseteq Excused' /\ Covered \subseteq Covered'
    BY DEF Excused, Covered
  <1>6. Reading'
    <2> SUFFICES ASSUME NEW p \in Runs, pc[p] = "takeJsonBackup", NEW s \in Statements \ schema,
                        TableOf[s] < read'[p]
                 PROVE  s \in image'[p] \cup Excused'
      BY DEF Reading
    <2>1. CASE TableOf[s] < read[p]
      BY <1>1, <1>5, <2>1 DEF Reading
    <2>2. CASE ~(TableOf[s] < read[p])
      <3>1. TableOf[s] \in Nat /\ read[p] \in Nat
        BY MigrationsAssumption DEF TypeOK
      <3>2. p = r
        BY <1>1, <2>2
      <3>3. TableOf[s] = read[r]
        BY <1>1, <2>2, <3>1, <3>2
      <3>4. s \in image'[r] \/ read[r] \in empty'
        BY <3>3 DEF TypeOK
      <3> QED
        BY <3>2, <3>3, <3>4 DEF Excused
    <2> QED
      BY <2>1, <2>2
  <1>7. BackedUp'
    BY <1>5 DEF BackedUp
  <1>8. Sent'
    BY <1>2 DEF Sent
  <1>9. (Left /\ Complete)'
    BY <1>5 DEF Left, Complete, Log!Whole
  <1> QED
    BY <1>3, <1>4, <1>6, <1>7, <1>8, <1>9

LEMMA WriteBackupStep ==
    ASSUME Core, NEW r \in Runs, WriteBackup(r)
    PROVE  Core'
  <1> USE DEF Core, WriteBackup, database, bounds
  <1>1. /\ \A p \in Runs \ {r} : pc'[p] = pc[p] /\ read'[p] = read[p] /\ image'[p] = image[p]
        /\ pc'[r] = "applyFile" /\ read'[r] = 1 /\ next[r] = 1
    BY DEF TypeOK, Fresh
  <1>2. \A p \in Runs \ {r} : Current(p)' = Current(p)
    BY <1>1 DEF Current, First
  <1>3. \A q \in Current(r)' : q \in Queries /\ Before(q) = {}
    <2> SUFFICES ASSUME NEW f \in todo[r] PROVE <<f, 1>> \in Queries /\ Before(<<f, 1>>) = {}
      BY <1>1 DEF Current
    <2>1. f \in Files /\ 1 \in 1..(Size[f] + 1)
      BY MigrationsAssumption DEF TypeOK
    <2> QED
      BY <2>1, QueryPair DEF Before
  <1>4. TypeOK'
    <2>1. pc' \in [Runs -> {"off", "pendingFiles", "takeJsonBackup", "applyFile", "ended"}]
      BY DEF TypeOK
    <2>2. 1 \in 1..(NTables + 1)
      BY MigrationsAssumption
    <2>3. read' \in [Runs -> 1..(NTables + 1)] /\ image' \in [Runs -> SUBSET Statements]
      BY <2>2 DEF TypeOK
    <2>4. saved' \subseteq Statements
      BY DEF TypeOK
    <2>5. \A p \in Runs : Current(p)' \subseteq Queries
      BY <1>2, <1>3 DEF TypeOK
    <2> QED
      BY <2>1, <2>3, <2>4, <2>5, Zenon DEF TypeOK
  <1>5. (Together /\ Fresh /\ Listed)'
    BY <1>1 DEF Together, Fresh, Listed, Runs
  <1>6. Reading'
    BY <1>1 DEF Reading, Excused
  <1>7. BackedUp'
    <2>1. \A s \in Statements : TableOf[s] < read[r]
      BY MigrationsAssumption DEF TypeOK
    <2>2. \A s \in Statements \ schema : s \in image[r] \cup Excused
      BY <2>1 DEF Reading
    <2> QED
      BY <1>1, <2>2 DEF BackedUp, Covered, Excused
  <1>8. Sent'
    BY <1>2, <1>3 DEF Sent
  <1>9. (Left /\ Complete)'
    BY DEF Left, Complete, Log!Whole, Covered, Excused
  <1> QED
    BY <1>4, <1>5, <1>6, <1>7, <1>8, <1>9

LEMMA ApplyStatementStep ==
    ASSUME Core, NEW r \in Runs, NEW f \in Files, ApplyStatement(r, f)
    PROVE  Core'
  <1> DEFINE q == <<f, next[r]>>
  <1>1. PICK code \in Errors(q) :
          \/ /\ code = "none"
             /\ schema' = schema \cup {q}
             /\ NextStatement(r)
             /\ UNCHANGED refused
          \/ /\ isIdempotentError(code)
             /\ refused' = refused \cup ({q} \ schema)
             /\ NextStatement(r)
             /\ UNCHANGED schema
          \/ code # "none" /\ ~ isIdempotentError(code) /\ Throw(r, code)
    BY DEF ApplyStatement
  <1>2. CASE Throw(r, code)
    <2>1. code = "other" => failures < MaxFailures
      BY DEF Errors
    <2> QED
      BY <1>2, <2>1, ThrowStep DEF ApplyStatement
  <1>3. ASSUME NextStatement(r),
               \/ schema' = schema \cup {q} /\ refused' = refused
               \/ /\ refused' = refused \cup ({q} \ schema)
                  /\ schema' = schema /\ q \in Refusable \cup schema
        PROVE  Core'
    <2> USE <1>3 DEF Core, NextStatement, backup, bounds
    <2>1. /\ pc[r] = "applyFile" /\ First(r, f)
          /\ Size[f] \in Nat /\ next[r] \in 1..Size[f] /\ q \in Statements
      <3>1. q \in Current(r)
        BY DEF ApplyStatement, Current, First
      <3>2. q \in Queries
        BY <3>1 DEF TypeOK
      <3>3. Size[f] \in Nat /\ next[r] \in Nat
        BY MigrationsAssumption DEF TypeOK
      <3>4. PICK g \in Files : \E i \in 1..(Size[g] + 1) : q = <<g, i>>
        BY <3>2, QueryPair
      <3>5. next[r] \in 1..Size[f]
        BY <3>3, <3>4 DEF ApplyStatement
      <3> QED
        BY <3>3, <3>5, StatementPair DEF ApplyStatement
    <2>0. /\ schema \subseteq schema' /\ schema' \subseteq Statements
          /\ refused \subseteq refused' /\ refused' \subseteq Refusable
          /\ q \in schema' \cup refused'
      BY <2>1 DEF TypeOK
    <2>2. \A p \in Runs \ {r} : Current(p)' = Current(p) /\ next'[p] = next[p]
      BY DEF Current, First, TypeOK
    <2>3. Current(r)' = {<<f, next[r] + 1>>}
      <3>1. \A g \in todo[r] : First(r, g) => g = f
        BY <2>1, MigrationsAssumption DEF First, TypeOK, Files
      <3>2. next'[r] = next[r] + 1
        BY DEF TypeOK
      <3> QED
        BY <2>1, <3>1, <3>2 DEF Current, First
    <2>4. TypeOK'
      <3>1. <<f, next[r] + 1>> \in Queries
        BY <2>1, QueryPair
      <3>2. \A p \in Runs : Current(p)' \subseteq Queries
        BY <2>2, <2>3, <3>1 DEF TypeOK
      <3>3. next' \in [Runs -> Nat]
        BY <2>1 DEF TypeOK
      <3> QED
        BY <2>0, <3>2, <3>3, Zenon DEF TypeOK
    <2>5. (Together /\ Fresh /\ Listed)'
      BY <2>1, <2>2 DEF Together, Fresh, Listed
    <2>6. Reading' /\ BackedUp'
      BY <2>0 DEF Reading, BackedUp, Covered, Excused
    <2>7. Sent'
      <3>1. Before(q) \subseteq schema \cup refused
        BY <2>1 DEF Sent, Current, First
      <3>2. Before(<<f, next[r] + 1>>) \subseteq Before(q) \cup {q}
        BY <2>1 DEF Before
      <3> QED
        BY <2>0, <2>2, <2>3, <3>1, <3>2 DEF Sent
    <2>8. Left' /\ Complete'
      BY <2>0 DEF Left, Complete, Log!Whole, Covered, Excused
    <2> QED
      BY <2>4, <2>5, <2>6, <2>7, <2>8
  <1>4. isIdempotentError(code) => q \in Refusable \cup schema
    BY DEF Errors, isIdempotentError
  <1> QED
    BY <1>1, <1>2, <1>3, <1>4

LEMMA RecordFileStep ==
    ASSUME Core, NEW r \in Runs, NEW f \in Files, RecordFile(r, f)
    PROVE  Core' /\ Log!Whole(f)
  <1> USE DEF Core, RecordFile, backup, bounds
  <1>1. /\ \A p \in Runs \ {r} : pc'[p] = pc[p] /\ todo'[p] = todo[p] /\ next'[p] = next[p]
        /\ pc'[r] \in {"ended", "applyFile"} /\ todo'[r] = todo[r] \ {f} /\ next'[r] = 1
    BY DEF TypeOK
  <1>2. \A p \in Runs \ {r} : Current(p)' = Current(p)
    BY <1>1 DEF Current, First
  <1>3. \A q \in Current(r)' : q \in Queries /\ Before(q) = {}
    <2> SUFFICES ASSUME NEW g \in todo[r] PROVE <<g, 1>> \in Queries /\ Before(<<g, 1>>) = {}
      BY <1>1 DEF Current
    <2>1. g \in Files /\ 1 \in 1..(Size[g] + 1)
      BY MigrationsAssumption DEF TypeOK
    <2> QED
      BY <2>1, QueryPair DEF Before
  <1>4. Log!Whole(f)
    <2>1. <<f, next[r]>> \in Current(r)
      BY DEF Current, First
    <2>2. <<f, next[r]>> \in Queries /\ Before(<<f, next[r]>>) \subseteq schema \cup refused
      BY <2>1 DEF TypeOK, Sent
    <2>3. Size[f] \in Nat /\ next[r] \in Nat
      BY MigrationsAssumption DEF TypeOK
    <2>4. \A i \in 1..Size[f] : <<f, i>> \in schema \cup refused
      BY <2>2, <2>3 DEF Before
    <2> QED
      BY <2>4 DEF Log!Whole
  <1>5. TypeOK'
    <2>1. pc' \in [Runs -> {"off", "pendingFiles", "takeJsonBackup", "applyFile", "ended"}]
      BY DEF TypeOK
    <2>2. todo' \in [Runs -> SUBSET Files] /\ next' \in [Runs -> Nat]
      BY DEF TypeOK
    <2>3. applied' \subseteq Files
      BY DEF TypeOK
    <2>4. \A p \in Runs : Current(p)' \subseteq Queries
      BY <1>2, <1>3 DEF TypeOK
    <2> QED
      BY <2>1, <2>2, <2>3, <2>4, Zenon DEF TypeOK
  <1>6. (Together /\ Fresh /\ Listed)'
    BY <1>1 DEF Together, Fresh, Listed, Runs
  <1>7. Reading' /\ BackedUp'
    BY <1>1 DEF Reading, BackedUp, Covered, Excused
  <1>8. Sent'
    BY <1>2, <1>3 DEF Sent
  <1>9. Left' /\ Complete'
    BY <1>4 DEF Left, Complete, Log!Whole, Covered, Excused
  <1> QED
    BY <1>4, <1>5, <1>6, <1>7, <1>8, <1>9

-----------------------------------------------------------------------------
LEMMA NextCore == Core /\ [Next]_vars => Core'
  <1> SUFFICES ASSUME Core, [Next]_vars PROVE Core'
    OBVIOUS
  <1>1. CASE Start
    BY <1>1, OnModuleInitStep DEF Start
  <1>2. CASE \E r \in Manual : RunManually(r)
    BY <1>2, RunManuallyStep
  <1>3. CASE \E r \in Runs : Step(r)
    BY <1>3, PendingFilesStep, ReadTableStep, WriteBackupStep, ApplyStatementStep,
       RecordFileStep DEF Step
  <1>4. CASE \E r \in Runs : Fail(r)
    BY <1>4, ThrowStep DEF Fail
  <1>5. CASE \E broken \in SUBSET UNION {Current(r) : r \in Runs} : Crash(broken)
    BY <1>5, CrashStep
  <1>6. CASE \E q \in orphans : Land(q)
    BY <1>6, LandStep
  <1>7. CASE UNCHANGED vars
    <2> USE <1>7 DEF vars, database, runs, backup, bounds, Core
    <2>1. \A r \in Runs : Current(r)' = Current(r)
      BY DEF Current, First
    <2>2. TypeOK'
      BY <2>1, Zenon DEF TypeOK
    <2>3. (Together /\ Fresh /\ Listed /\ Reading /\ BackedUp /\ Sent /\ Left /\ Complete)'
      BY <2>1 DEF Together, Fresh, Listed, Reading, BackedUp, Sent, Left, Complete,
                  Covered, Excused, Log!Whole
    <2> QED
      BY <2>2, <2>3
  <1> QED
    BY <1>1, <1>2, <1>3, <1>4, <1>5, <1>6, <1>7 DEF Next

\* A run that ends without an error had nothing to do or has recorded its last
\* file, and what is recorded stays so.
LEMMA NextSettled ==
    ASSUME Core, Settled, [Next]_vars
    PROVE  Settled'
  <1> USE DEF Settled
  <1>1. TypeOK /\ Together /\ Listed /\ Boot \in Runs
    BY DEF Core, Runs
  <1>2. CASE Start
    BY <1>1, <1>2 DEF Start, OnModuleInit, TypeOK
  <1>3. CASE \E broken \in SUBSET UNION {Current(r) : r \in Runs} : Crash(broken)
    BY <1>1, <1>3 DEF Crash
  <1>4. ASSUME NEW r \in Runs, NEW code, Throw(r, code), r = Boot => code = "other"
        PROVE  Settled'
    <2>1. CASE r = Boot
      BY <1>4, <2>1 DEF Throw
    <2>2. CASE r # Boot
      BY <1>1, <1>4, <2>2 DEF Throw, TypeOK
    <2> QED
      BY <2>1, <2>2
  <1>5. ASSUME NEW r \in Runs, Fail(r)
        PROVE  Settled'
    BY <1>4, <1>5 DEF Fail
  <1>6. ASSUME NEW r \in Runs, NEW f \in Files, ApplyStatement(r, f)
        PROVE  Settled'
    <2>1. ASSUME NEW code \in Errors(<<f, next[r]>>), code # "none",
                 ~ isIdempotentError(code), Throw(r, code)
          PROVE  Settled'
      <3>1. code = "other"
        BY <2>1 DEF Errors, isIdempotentError
      <3> QED
        BY <1>4, <2>1, <3>1
    <2>2. CASE NextStatement(r)
      BY <2>2 DEF NextStatement, bounds
    <2> QED
      BY <1>6, <2>1, <2>2 DEF ApplyStatement
  <1>7. ASSUME NEW r \in Runs, NEW f \in Files, RecordFile(r, f)
        PROVE  Settled'
    <2>1. /\ UNCHANGED <<deployed, hurt>> /\ applied' = applied \cup {f}
          /\ pc[r] = "applyFile"
          /\ pc' = [pc EXCEPT ![r] = IF todo[r] = {f} THEN "ended" ELSE @]
      BY <1>7 DEF RecordFile, bounds
    <2>2. CASE r = Boot /\ todo[r] = {f}
      <3>1. deployed \ {f} \subseteq applied
        BY <1>1, <2>1, <2>2 DEF Listed
      <3> QED
        BY <2>1, <3>1
    <2>3. CASE r # Boot \/ todo[r] # {f}
      BY <1>1, <2>1, <2>3 DEF TypeOK
    <2> QED
      BY <2>2, <2>3
  <1>8. ASSUME NEW r \in Runs, PendingFiles(r) \/ ReadTable(r) \/ WriteBackup(r)
        PROVE  Settled'
    BY <1>1, <1>8 DEF PendingFiles, ReadTable, WriteBackup, TypeOK, database, runs, bounds
  <1>9. ASSUME NEW r \in Manual, RunManually(r)
        PROVE  Settled'
    BY <1>1, <1>9, MigrationsAssumption DEF RunManually, TypeOK, database, bounds, Runs
  <1>10. ASSUME NEW q \in orphans, Land(q)
         PROVE  Settled'
    BY <1>10 DEF Land, Effect, runs, bounds
  <1>11. CASE UNCHANGED vars
    BY <1>11 DEF vars, database, runs, bounds
  <1> QED
    BY <1>2, <1>3, <1>5, <1>6, <1>7, <1>8, <1>9, <1>10, <1>11 DEF Next, Step

\* The inductive invariant: what a run relies on, whatever ends or overlaps it.
THEOREM Consistent == Spec => []IInv
  <1>1. Init => IInv
    BY InitCore DEF IInv, Settled, Init, Runs
  <1>2. IInv /\ [Next]_vars => IInv'
    BY NextCore, NextSettled DEF IInv
  <1> QED
    BY <1>1, <1>2, PTL DEF Spec

\* Every variable keeps its type and the query a run waits for is one of its
\* file.
THEOREM TypeCorrect == Spec => []TypeOK
  <1>1. IInv => TypeOK
    BY DEF IInv, Core
  <1> QED
    BY <1>1, Consistent, PTL

\* Through crashes, failures, skipped errors and overlapping runs, a statement
\* of a file in __applied_migrations is in effect, or PostgreSQL refused it with
\* a code the runner skips; nothing but a Refusable statement meets that.
THEOREM RecordedIsWhole ==
    Spec => [](/\ refused \subseteq Refusable
               /\ \A f \in applied : {f} \X (1..Size[f]) \subseteq schema \cup refused)
  <1>1. IInv => /\ refused \subseteq Refusable
                /\ \A f \in applied : {f} \X (1..Size[f]) \subseteq schema \cup refused
    BY DEF IInv, Core, TypeOK, Complete, Log!Whole
  <1> QED
    BY <1>1, Consistent, PTL

\* A start that ended and met no error of its surroundings, however many runs
\* before it were cut or overlap it, leaves every deployed file recorded, and in
\* effect but for its Refusable statements: what Converges says of the end,
\* without saying that it comes.
THEOREM StartLeavesAllApplied ==
    Spec => [](pc[Boot] = "ended" /\ ~ hurt =>
                 \A f \in deployed :
                     f \in applied /\ {f} \X (1..Size[f]) \subseteq schema \cup Refusable)
  <1>1. IInv => (pc[Boot] = "ended" /\ ~ hurt =>
                  \A f \in deployed :
                      f \in applied /\ {f} \X (1..Size[f]) \subseteq schema \cup Refusable)
    <2> SUFFICES ASSUME IInv, pc[Boot] = "ended", ~ hurt, NEW f \in deployed
                 PROVE  f \in applied /\ {f} \X (1..Size[f]) \subseteq schema \cup Refusable
      OBVIOUS
    <2>1. f \in applied
      BY DEF IInv, Settled
    <2>2. {f} \X (1..Size[f]) \subseteq schema \cup refused /\ refused \subseteq Refusable
      BY <2>1 DEF IInv, Core, TypeOK, Complete, Log!Whole
    <2> QED
      BY <2>1, <2>2
  <1> QED
    BY <1>1, Consistent, PTL

-----------------------------------------------------------------------------
LEMMA InitLog == Init => Log!Init
  BY DEF Init, Log!Init, Statements, Log!Statements

\* A step of a run or of the server is a step of the log, or does not touch it.
LEMMA NextLog == Core /\ [Next]_vars => [Log!Next]_<<schema, applied, refused, saved \cup Excused>>
  <1> SUFFICES ASSUME Core, [Next]_vars
               PROVE  [Log!Next]_<<schema, applied, refused, saved \cup Excused>>
    OBVIOUS
  <1> DEFINE Stutter == UNCHANGED <<schema, applied, refused, saved, empty>>
  <1>1. Stutter => UNCHANGED <<schema, applied, refused, saved \cup Excused>>
    BY DEF Excused
  <1>2. ASSUME NEW q \in Statements, q \in schema \cup Covered, Before(q) \subseteq schema \cup refused,
               schema' = schema \cup {q}, UNCHANGED <<applied, refused, saved, empty>>
        PROVE  [Log!Next]_<<schema, applied, refused, saved \cup Excused>>
    <2>1. CASE q \in schema
      BY <1>1, <1>2, <2>1
    <2>2. CASE q \in Covered
      <3>1. Log!Change(q)
        BY <1>2, <2>2 DEF Log!Change, Log!Reached, Covered, Excused, Before
      <3> QED
        BY <3>1 DEF Log!Next, Statements, Log!Statements
    <2> QED
      BY <1>2, <2>1, <2>2
  <1>3. ASSUME NEW f \in Files, Log!Whole(f), applied' = applied \cup {f},
               UNCHANGED <<schema, refused, saved, empty>>
        PROVE  Log!Next
    BY <1>3 DEF Log!Next, Log!Record, Excused
  <1>4. ASSUME UNCHANGED <<schema, applied, refused>>, saved \subseteq saved', empty \subseteq empty'
        PROVE  Log!Next
    BY <1>4 DEF Log!Next, Log!Save, Excused
  <1>5. ASSUME NEW r \in Runs, NEW code, Throw(r, code) PROVE Stutter
    BY <1>5 DEF Throw
  <1>13. ASSUME NEW q \in Statements, q \in Refusable \ schema,
                Before(q) \subseteq schema \cup refused,
                refused' = refused \cup {q}, UNCHANGED <<schema, applied, saved, empty>>
         PROVE  Log!Next
    <2>1. Log!Refuse(q)
      BY <1>13 DEF Log!Refuse, Log!Reached, Excused, Before
    <2> QED
      BY <2>1 DEF Log!Next, Statements, Log!Statements
  <1>6. CASE Start
    BY <1>1, <1>6 DEF Start, OnModuleInit, database, backup
  <1>7. CASE \E r \in Manual : RunManually(r)
    BY <1>1, <1>7 DEF RunManually, database, backup
  <1>8. ASSUME NEW r \in Runs, Step(r)
        PROVE  [Log!Next]_<<schema, applied, refused, saved \cup Excused>>
    <2>1. CASE PendingFiles(r)
      BY <1>1, <2>1 DEF PendingFiles, database, backup
    <2>2. CASE ReadTable(r)
      BY <1>4, <2>2 DEF ReadTable, database
    <2>3. CASE WriteBackup(r)
      BY <1>4, <2>3 DEF WriteBackup, database
    <2>4. ASSUME NEW f \in Files, ApplyStatement(r, f)
          PROVE  [Log!Next]_<<schema, applied, refused, saved \cup Excused>>
      <3> DEFINE q == <<f, next[r]>>
      <3>1. q \in Current(r) /\ pc[r] = "applyFile"
        BY <2>4 DEF ApplyStatement, Current, First
      <3>2. q \in Statements /\ q \in schema \cup Covered /\ Before(q) \subseteq schema \cup refused
        <4>1. q \in Queries /\ Before(q) \subseteq schema \cup refused
          BY <3>1 DEF Core, TypeOK, Sent
        <4>2. PICK g \in Files : \E i \in 1..(Size[g] + 1) : q = <<g, i>>
          BY <4>1, QueryPair
        <4>3. Size[f] \in Nat /\ next[r] \in 1..Size[f]
          BY <2>4, <4>2, MigrationsAssumption DEF ApplyStatement
        <4> QED
          BY <3>1, <4>1, <4>3, StatementPair DEF Core, BackedUp
      <3>3. CASE \E code \in Errors(q) : Throw(r, code)
        BY <1>1, <1>5, <3>3
      <3>4. CASE NextStatement(r) /\ schema' = schema \cup {q} /\ UNCHANGED refused
        BY <1>2, <3>2, <3>4 DEF NextStatement, backup
      <3>5. CASE /\ NextStatement(r) /\ UNCHANGED schema
                 /\ refused' = refused \cup ({q} \ schema)
                 /\ q \in Refusable \cup schema
        <4>1. UNCHANGED <<applied, saved, empty>>
          BY <3>5 DEF NextStatement, backup
        <4>2. CASE q \in schema
          BY <1>1, <3>5, <4>1, <4>2
        <4>3. CASE q \notin schema
          BY <1>13, <3>2, <3>5, <4>1, <4>3
        <4> QED
          BY <4>2, <4>3
      <3>6. ASSUME NEW code \in Errors(q), isIdempotentError(code)
            PROVE  q \in Refusable \cup schema
        BY <3>6 DEF Errors, isIdempotentError
      <3> QED
        BY <2>4, <3>3, <3>4, <3>5, <3>6 DEF ApplyStatement
    <2>5. ASSUME NEW f \in Files, RecordFile(r, f) PROVE Log!Next
      BY <1>3, <2>5, RecordFileStep DEF RecordFile, backup
    <2> QED
      BY <1>8, <2>1, <2>2, <2>3, <2>4, <2>5 DEF Step
  <1>9. CASE \E r \in Runs : Fail(r)
    BY <1>1, <1>5, <1>9 DEF Fail
  <1>10. CASE \E broken \in SUBSET UNION {Current(r) : r \in Runs} : Crash(broken)
    BY <1>1, <1>10 DEF Crash
  <1>11. ASSUME NEW q \in orphans, Land(q)
         PROVE  [Log!Next]_<<schema, applied, refused, saved \cup Excused>>
    <2>1. UNCHANGED <<refused, saved, empty>>
      BY <1>11 DEF Land, backup
    <2>2. q \in Queries /\ Before(q) \subseteq schema \cup refused /\ (q \in Statements => q \in schema \cup Covered)
      BY DEF Core, TypeOK, Left
    <2>3. CASE UNCHANGED <<schema, applied>>
      BY <1>1, <2>1, <2>3
    <2>4. CASE q \in Statements /\ schema' = schema \cup {q} /\ UNCHANGED applied
      BY <1>2, <2>1, <2>2, <2>4
    <2>5. CASE q \notin Statements /\ applied' = applied \cup {q[1]} /\ UNCHANGED schema
      BY <1>3, <2>1, <2>2, <2>5, LastQuery
    <2> QED
      BY <1>11, <2>3, <2>4, <2>5 DEF Land, Effect
  <1>12. CASE UNCHANGED vars
    BY <1>1, <1>12 DEF vars, database, backup
  <1> QED
    BY <1>6, <1>7, <1>8, <1>9, <1>10, <1>11, <1>12 DEF Next

\* Whatever crashes, fails or overlaps, the runner keeps the promise of
\* MigrationLog: a backup and the statements before come first, a file is
\* recorded last.
THEOREM KeepsPromise == Spec => Implements
  <1>1. IInv => Core
    BY DEF IInv
  <1> QED
    BY <1>1, InitLog, NextLog, Consistent, PTL DEF Spec, Implements, Log!Spec

-----------------------------------------------------------------------------
LEMMA StepInOrder ==
    ASSUME Core, [Next]_vars, NEW s \in schema' \ schema, orphans' = orphans,
           NEW f \in deployed, f < s[1]
    PROVE  f \in applied
  <1>1. PICK r \in Runs, g \in Files : ApplyStatement(r, g) /\ s = <<g, next[r]>>
    <2>1. ASSUME NEW q \in orphans, Land(q) PROVE FALSE
      BY <2>1 DEF Land
    <2>2. ASSUME NEW r \in Runs, Step(r)
          PROVE  \E g \in Files : ApplyStatement(r, g) /\ s = <<g, next[r]>>
      BY <2>2 DEF Step, PendingFiles, ReadTable, WriteBackup, ApplyStatement, RecordFile,
                  Throw, NextStatement, database
    <2>3. ~(UNCHANGED schema)
      OBVIOUS
    <2> QED
      BY <2>1, <2>2, <2>3 DEF Next, Start, OnModuleInit, RunManually, Fail, Throw, Crash,
                              vars, database
  <1>2. g \in todo[r] /\ f \notin todo[r]
    BY <1>1, MigrationsAssumption DEF ApplyStatement, First, Core, TypeOK, Files
  <1> QED
    BY <1>1, <1>2 DEF ApplyStatement, Core, Listed

\* A run brings a statement into effect only when every deployed file of a
\* smaller name is recorded.
THEOREM AppliedInOrder == Spec => InOrder
  <1>1. IInv /\ [Next]_vars =>
          [\A s \in schema' \ schema :
             orphans' = orphans => \A f \in deployed : f < s[1] => f \in applied]_vars
    BY StepInOrder DEF IInv
  <1> QED
    BY <1>1, Consistent, PTL DEF Spec, InOrder
=============================================================================
