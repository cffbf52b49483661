---------------------------- MODULE MCPaymentDue ----------------------------
(* Two organizations and two due dates, so that a run has an organization
   after the one that fails and a date can be set, changed and set again. *)
EXTENDS PaymentDueProofs, TLC
=============================================================================
