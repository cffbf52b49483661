------------------------------ MODULE MCSales ------------------------------
(* Sales, and the inductive invariant of its proof, on one apartment. *)
EXTENDS SalesProofs

CONSTANTS h, o, s1, m2
MCOrgOf == [u \in Staff \cup Admins |-> IF u = m2 THEN o ELSE h]
=============================================================================
