----------------------------- MODULE MCAccounts -----------------------------
(* Accounts and the inductive invariant of its proof, with an admin, a      *)
(* member of staff, two notifications and two requests at a time.  The four *)
(* workloads keep apart what does not meet in a property.                   *)
EXTENDS AccountsProofs, TLC

MCSymmetry == Permutations(Notes) \cup Permutations(Slots)

CONSTANTS adm, stf

\* Requests pass the guards while the flags and the permission change.
MCBlocking == ({adm, stf} \X {"work"}) \cup {<<adm, "users.updatePermissions">>}
                \cup ({Root} \X {"organizations.update", "branches.update"})
\* Asking, deciding, reading, and the account may go.
MCDeciding == {<<stf, "auth.requestPasswordReset">>}
                \cup ({Root} \X {"auth.approvePasswordReset", "notifications.markRead",
                                 "users.removeMany"})
\* Every way to set a password.
MCPasswords == ({stf} \X {"auth.changePassword", "auth.requestPasswordReset"})
                 \cup ({Root} \X {"auth.approvePasswordReset", "users.removeMany",
                                  "users.adminChangePassword"})
\* Every way to save the permissions of an account.
MCRights == ({stf} \X {"work", "auth.requestPasswordReset"})
              \cup ({Root} \X {"auth.approvePasswordReset", "users.updatePermissions",
                               "users.updateScope", "users.removeMany"})
MCWorkloads == {MCBlocking, MCDeciding, MCPasswords, MCRights}
=============================================================================
