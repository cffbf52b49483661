---------------------------- MODULE MigrationLog ----------------------------
(***************************************************************************)
(* What the migrations promise the database: a statement takes effect once *)
(* what it may destroy is in a backup and the statements before it in its  *)
(* file are done with, and a file is recorded when all of it is.  Done with*)
(* is a statement in effect, or one that may be refused and was.           *)
(***************************************************************************)
EXTENDS Naturals

CONSTANTS
    Files,    \* the files of migrations/, numbered in the order of their names
    Size,     \* how many statements a file has
    Refusable \* the statements that may be skipped without being in effect

VARIABLES
    schema,  \* the statements in effect
    applied, \* the files recorded
    refused, \* the statements skipped without being in effect
    safe     \* the statements for which there is a backup

Statements == UNION {{f} \X (1..Size[f]) : f \in Files}
Whole(f) == {f} \X (1..Size[f]) \subseteq schema \cup refused

Save ==
    /\ safe \subseteq safe'
    /\ UNCHANGED <<schema, applied, refused>>

Reached(s) == \A i \in 1..(s[2] - 1) : <<s[1], i>> \in schema \cup refused

Change(s) ==
    /\ s \in safe /\ Reached(s)
    /\ schema' = schema \cup {s}
    /\ UNCHANGED <<applied, refused, safe>>

Refuse(s) ==
    /\ s \in Refusable \ schema /\ Reached(s)
    /\ refused' = refused \cup {s}
    /\ UNCHANGED <<schema, applied, safe>>

Record(f) ==
    /\ Whole(f)
    /\ applied' = applied \cup {f}
    /\ UNCHANGED <<schema, refused, safe>>

\* A database may have been made from the entities, by synchronize.
Init == schema \subseteq Statements /\ applied = {} /\ refused = {}

Next ==
    \/ Save
    \/ \E s \in Statements : Change(s) \/ Refuse(s)
    \/ \E f \in Files : Record(f)

Spec == Init /\ [][Next]_<<schema, applied, refused, safe>>
=============================================================================
