----------------------------- MODULE MCPresence -----------------------------
(* Presence and the inductive invariant of its proof, with three sockets:
   one user's two tabs and another user. *)
EXTENDS PresenceProofs, TLC

MCSymmetry == Permutations(Sockets) \cup Permutations(Apartments)
                \cup Permutations(Users)
=============================================================================
