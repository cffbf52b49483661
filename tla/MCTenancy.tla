----------------------------- MODULE MCTenancy -----------------------------
(* Tenancy, and the inductive invariant of its proof, on small tables.
   The ids of one table are interchangeable. *)
EXTENDS TenancyProofs, TLC

MCSymmetry == Permutations(Orgs) \cup Permutations(Branches)
                \cup Permutations(Users \ {Root}) \cup Permutations(Blocks)
                \cup Permutations(Clients)

\* A contract is made while its block is saved, copied or moved and its branch
\* is deleted, by people of two organizations and by the superadmin.
ContractEndpoints ==
    {"organizations.create", "branches.create", "blocks.create",
     "blocks.duplicate", "blocks.update", "blocks.bulkAssignBranch",
     "branches.remove", "apartments.create", "clients.create",
     "contracts.create"}

\* User rows are loaded, saved, deleted and orphaned while their
\* organizations and branches come and go.
UserEndpoints ==
    {"organizations.create", "organizations.remove", "branches.create",
     "branches.remove", "users.create", "users.removeMany",
     "users.updateScope"}

\* What the other runs do not call, and what a contract needs, on one row of
\* every table.
OneRowEndpoints ==
    AllEndpoints \ {"blocks.duplicate", "blocks.bulkAssignBranch",
                    "users.updateScope", "users.removeMany"}
=============================================================================
