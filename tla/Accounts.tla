------------------------------ MODULE Accounts ------------------------------
(***************************************************************************)
(* AuthService, AdminNotificationsService and the guards in front of every *)
(* handler: who gets through, and who sets which password.                 *)
(*                                                                         *)
(* The accounts are those of one organization and its one branch, Staff    *)
(* and admins; Root is the superadmin.  A request is a slot of req.  Each  *)
(* await of a guard or a handler ends a step; reads of columns that never  *)
(* change (the role) share the step of the next read.  save() of an entity *)
(* writes back every column it has loaded and inserts the row again when   *)
(* it is gone; passwordHash is not among the columns a query loads.        *)
(* Sessions are not in the model: a token names an account and nothing     *)
(* else, so any account that exists may call.                              *)
(* An operator named Op_Flaw is Op with one mistake in it.                 *)
(***************************************************************************)
EXTENDS Naturals, FiniteSets

CONSTANTS
    Users, Staff, Root, NULL,
    Notes,         \* ids of superadmin_notifications
    Workloads,     \* bound: who calls which endpoint, in one behaviour or another
    Slots,         \* bound: the requests that run at a time
    MaxPasswords   \* bound: the passwords set after the initial ones

VARIABLES
    user,       \* the row of an account: its password and its permission
    note,       \* the row of a password_reset_request
    blocked,    \* isBlocked of the organization and of the branch
    req,        \* the requests
    calls,      \* the workload of this behaviour
    minted,     \* the passwords set so far are 1..minted, each chosen once
    made,       \* the ids of notifications ever inserted
    \* History:
    granted,    \* how often the approval of a notification set a password
    loose,      \* notifications whose approval was cut, undone or not alone
    crowded,    \* accounts two of whose requests for a reset overlapped
    wish,       \* what updatePermissions last stored
    clobbered,  \* accounts saved since by a request that loaded them before
    retired     \* the passwords an account had and has no more

rows == <<user, note, blocked>>
ids == <<minted, made>>
history == <<granted, loose, crowded, wish, clobbered, retired>>
vars == <<calls, rows, req, ids, history>>

Parts == {"org", "branch"}
Passwords == 0..MaxPasswords
AdminEndpoints == {"users.adminChangePassword", "users.updatePermissions",
                   "users.updateScope", "users.removeMany", "branches.update"}
TenantEndpoints == {"auth.requestPasswordReset", "auth.changePassword", "work"}
RootEndpoints == AdminEndpoints \cup
    {"auth.approvePasswordReset", "notifications.markRead", "organizations.update"}
\* What RolesGuard lets through.
AllCalls == (Users \X TenantEndpoints) \cup ((Users \ Staff) \X AdminEndpoints)
              \cup ({Root} \X RootEndpoints)

Account == [password : Passwords, permission : BOOLEAN]
Note == [user : Users, isApproved : BOOLEAN, read : BOOLEAN]

ASSUME AccountsAssumption ==
    /\ Staff \subseteq Users /\ Root \notin Users /\ NULL \notin Users \cup Notes
    /\ NULL \notin Account \cup Note
    /\ Workloads \subseteq SUBSET AllCalls /\ MaxPasswords \in Nat

Guarded == {"idle", "orgGuard", "branchGuard"}
Ops == Guarded \cup {"handler", "insertNote", "savePassword", "saveUser",
                     "savePermission", "approving", "grant", "mark", "saveNote",
                     "saveFlag"}

\* A request: its step, its actor and endpoint, the account or part and the
\* notification it is about, the new password (0: none), the column it loaded
\* or was asked to write, the parts that were not blocked at some moment since
\* it came (open), and whether updatePermissions has stored something else
\* since it loaded the account (late).
Request == [op : Ops, who : Users \cup {Root}, ep : TenantEndpoints \cup RootEndpoints,
            to : Users \cup Parts \cup {NULL}, on : Notes \cup {NULL},
            password : Passwords, copy : BOOLEAN, open : SUBSET Parts, late : BOOLEAN]
Idle == [op |-> "idle", who |-> Root, ep |-> "work", to |-> NULL, on |-> NULL,
         password |-> 0, copy |-> FALSE, open |-> {}, late |-> FALSE]

TypeOK ==
    /\ calls \in Workloads
    /\ user \in [Users -> Account \cup {NULL}]
    /\ note \in [Notes -> Note \cup {NULL}]
    /\ blocked \subseteq Parts
    /\ req \in [Slots -> Request]
    /\ minted \in Passwords /\ made \subseteq Notes
    /\ granted \in [Notes -> Nat]
    /\ loose \subseteq Notes /\ crowded \subseteq Users
    /\ wish \in [Users -> BOOLEAN] /\ clobbered \subseteq Users
    /\ retired \in [Users -> SUBSET Passwords]

Become(s, r) == req' = [req EXCEPT ![s] = r]
Ends(s) == Become(s, Idle)

-----------------------------------------------------------------------------
(* The guards. *)

\* PermissionGuard: the endpoint asks for the permission, or for none.
Permitted(u, ep) == ep = "work" /\ u \in Staff => user[u].permission

\* JwtStrategy.validate reads the account; RolesGuard (AllCalls) and
\* PermissionGuard decide on what it read, without waiting.
Admitted(u, ep) == user[u] # NULL /\ <<u, ep>> \in calls /\ Permitted(u, ep)

\* The superadmin passes the guards of the block flags without a query.
Arrive(s) ==
    /\ req[s].op = "idle"
    /\ \/ \E u \in Users, ep \in TenantEndpoints \cup AdminEndpoints :
            /\ Admitted(u, ep)
            /\ Become(s, [Idle EXCEPT !.op = "orgGuard", !.who = u, !.ep = ep,
                                      !.open = Parts \ blocked])
       \/ \E ep \in RootEndpoints :
            /\ <<Root, ep>> \in calls
            /\ Become(s, [Idle EXCEPT !.op = "handler", !.ep = ep])
    /\ UNCHANGED <<rows, ids, history>>

OrganizationBlockedGuard_Unread(s) ==
    /\ req[s].op = "orgGuard"
    /\ Become(s, [req[s] EXCEPT !.op = "branchGuard"])
    /\ UNCHANGED <<rows, ids, history>>
OrganizationBlockedGuard(s) ==
    /\ req[s].op = "orgGuard"
    /\ IF "org" \in blocked THEN Ends(s)
       ELSE Become(s, [req[s] EXCEPT !.op = "branchGuard"])
    /\ UNCHANGED <<rows, ids, history>>

BranchBlockedGuard(s) ==
    /\ req[s].op = "branchGuard"
    /\ IF req[s].who \in Staff /\ "branch" \in blocked THEN Ends(s)
       ELSE Become(s, [req[s] EXCEPT !.op = "handler"])
    /\ UNCHANGED <<rows, ids, history>>

\* Slot s runs the handler of the endpoint.
Handles(s, ep) == req[s].op = "handler" /\ req[s].ep = ep

\* Any handler that needs a permission and writes nothing modelled here.
Work(s) == Handles(s, "work") /\ Ends(s) /\ UNCHANGED <<rows, ids, history>>

-----------------------------------------------------------------------------
(* auth.requestPasswordReset *)

Undecided(u) == {n \in Notes : note[n] # NULL /\ note[n].user = u /\ ~ note[n].isApproved}

\* What the query for a pending request finds: TypeORM ignores its condition
\* readAt: null, so a request that was read and not decided counts too.
Pending_Unread(u) == {n \in Undecided(u) : ~ note[n].read}
Pending(u) == Undecided(u)

RequestPasswordReset(s) ==
    LET u == req[s].who IN
    /\ Handles(s, "auth.requestPasswordReset")
    /\ IF user[u] = NULL \/ Pending(u) # {}
       THEN Ends(s) /\ UNCHANGED crowded
       ELSE /\ Become(s, [req[s] EXCEPT !.op = "insertNote"])
            /\ crowded' = IF \E t \in Slots : req[t].op = "insertNote" /\ req[t].who = u
                          THEN crowded \cup {u} ELSE crowded
    /\ UNCHANGED <<rows, ids, granted, loose, wish, clobbered, retired>>

\* The foreign key refuses the notification of an account that is gone.
InsertNotification_NoKey(s) ==
    /\ req[s].op = "insertNote"
    /\ \E n \in Notes \ made :
            /\ note' = [note EXCEPT ![n] = [user |-> req[s].who, isApproved |-> FALSE,
                                            read |-> FALSE]]
            /\ made' = made \cup {n}
    /\ Ends(s)
    /\ UNCHANGED <<user, blocked, minted, history>>
InsertNotification(s) ==
    /\ req[s].op = "insertNote"
    /\ \/ \E n \in Notes \ made :
            /\ user[req[s].who] # NULL
            /\ note' = [note EXCEPT ![n] = [user |-> req[s].who, isApproved |-> FALSE,
                                            read |-> FALSE]]
            /\ made' = made \cup {n}
       \/ user[req[s].who] = NULL /\ UNCHANGED <<note, made>>
    /\ Ends(s)
    /\ UNCHANGED <<user, blocked, minted, history>>

-----------------------------------------------------------------------------
(* Passwords. *)

\* The row of u gets the password p; 0 leaves the password as it is.
Retire(u, p) ==
    retired' = IF p # 0 /\ user[u] # NULL /\ user[u].password # p
               THEN [retired EXCEPT ![u] = @ \cup {user[u].password}] ELSE retired

\* auth.changePassword: the old password was given and compared.
ChangePassword(s) ==
    /\ Handles(s, "auth.changePassword")
    /\ user[req[s].who] # NULL /\ minted < MaxPasswords
    /\ Become(s, [req[s] EXCEPT !.op = "savePassword", !.password = minted + 1])
    /\ minted' = minted + 1
    /\ UNCHANGED <<rows, made, history>>

\* Only the hash is loaded, so an account that is gone cannot be inserted.
SavePassword(s) ==
    LET r == req[s] IN
    /\ r.op = "savePassword"
    /\ user' = IF user[r.who] = NULL THEN user
               ELSE [user EXCEPT ![r.who].password = r.password]
    /\ Retire(r.who, r.password)
    /\ Ends(s)
    /\ UNCHANGED <<note, blocked, ids, granted, loose, crowded, wish, clobbered>>

\* The row that save() writes from a copy loaded by r.
Saved_Loaded(r) == [password |-> r.password, permission |-> r.copy]
Saved(r) == [password |-> IF r.password = 0 THEN user[r.to].password ELSE r.password,
             permission |-> r.copy]
\* Without a password the missing hash refuses to insert the row again.
Savable(r) == user[r.to] # NULL \/ r.password # 0
SaveAccount(r) ==
    /\ user' = [user EXCEPT ![r.to] = Saved(r)]
    /\ Retire(r.to, r.password)

\* users.adminChangePassword and users.updateScope load the account.
LoadUser(s) ==
    /\ req[s].op = "handler"
    /\ \E u \in Users :
         /\ user[u] # NULL
         /\ \/ /\ req[s].ep = "users.adminChangePassword" /\ minted < MaxPasswords
               /\ Become(s, [req[s] EXCEPT !.op = "saveUser", !.to = u,
                               !.password = minted + 1, !.copy = user[u].permission])
               /\ minted' = minted + 1
            \/ /\ req[s].ep = "users.updateScope" /\ u \in Staff
               /\ Become(s, [req[s] EXCEPT !.op = "saveUser", !.to = u,
                               !.copy = user[u].permission])
               /\ UNCHANGED minted
            \/ /\ req[s].ep = "users.updatePermissions" /\ u \in Staff
               /\ \E p \in BOOLEAN :
                    Become(s, [req[s] EXCEPT !.op = "savePermission", !.to = u, !.copy = p])
               /\ UNCHANGED minted
    /\ UNCHANGED <<rows, made, history>>

\* What a save of the whole row does to the permissions.
Clobber(r) == clobbered' = IF r.late THEN clobbered \cup {r.to} ELSE clobbered

SaveUser(s) ==
    LET r == req[s] IN
    /\ r.op = "saveUser"
    /\ IF Savable(r) THEN SaveAccount(r) /\ Clobber(r)
       ELSE UNCHANGED <<user, retired, clobbered>>
    /\ Ends(s)
    /\ UNCHANGED <<note, blocked, ids, granted, loose, crowded, wish>>

SavePermission(s) ==
    LET r == req[s] IN
    /\ r.op = "savePermission"
    /\ IF Savable(r)
       THEN /\ SaveAccount(r)
            /\ wish' = [wish EXCEPT ![r.to] = r.copy]
            /\ clobbered' = clobbered \ {r.to}
            /\ req' = [t \in Slots |->
                         IF t = s THEN Idle
                         ELSE IF req[t].to = r.to THEN [req[t] EXCEPT !.late = TRUE]
                         ELSE req[t]]
       ELSE Ends(s) /\ UNCHANGED <<user, retired, wish, clobbered>>
    /\ UNCHANGED <<note, blocked, ids, granted, loose, crowded>>

\* users.removeMany: the notifications of the account go with it.
RemoveUser(s) ==
    /\ Handles(s, "users.removeMany")
    /\ \E u \in Users :
         /\ user' = [user EXCEPT ![u] = NULL]
         /\ note' = [n \in Notes |-> IF note[n] # NULL /\ note[n].user = u
                                     THEN NULL ELSE note[n]]
    /\ Ends(s)
    /\ UNCHANGED <<blocked, ids, history>>

-----------------------------------------------------------------------------
(* auth.approvePasswordReset *)

\* Another request has found the notification n unapproved and not ended.
BeingApproved(n) == \E t \in Slots : req[t].op \in {"approving", "grant", "mark"}
                                     /\ req[t].on = n

ApprovePasswordReset_Unchecked(s) ==
    /\ Handles(s, "auth.approvePasswordReset")
    /\ \E n \in Notes :
         /\ note[n] # NULL
         /\ Become(s, [req[s] EXCEPT !.op = "approving", !.on = n, !.to = note[n].user])
         /\ loose' = IF BeingApproved(n) THEN loose \cup {n} ELSE loose
    /\ UNCHANGED <<rows, ids, granted, crowded, wish, clobbered, retired>>
ApprovePasswordReset(s) ==
    /\ Handles(s, "auth.approvePasswordReset")
    /\ \E n \in Notes :
         /\ note[n] # NULL /\ ~ note[n].isApproved
         /\ Become(s, [req[s] EXCEPT !.op = "approving", !.on = n, !.to = note[n].user])
         /\ loose' = IF BeingApproved(n) THEN loose \cup {n} ELSE loose
    /\ UNCHANGED <<rows, ids, granted, crowded, wish, clobbered, retired>>

LoadRequested_Defaults(s) ==
    LET r == req[s] IN
    /\ r.op = "approving"
    /\ IF user[r.to] = NULL THEN Ends(s) /\ UNCHANGED minted
       ELSE /\ minted < MaxPasswords
            /\ Become(s, [r EXCEPT !.op = "grant", !.password = minted + 1,
                                   !.copy = TRUE, !.late = FALSE])
            /\ minted' = minted + 1
    /\ UNCHANGED <<rows, made, history>>
LoadRequested(s) ==
    LET r == req[s] IN
    /\ r.op = "approving"
    /\ IF user[r.to] = NULL THEN Ends(s) /\ UNCHANGED minted
       ELSE /\ minted < MaxPasswords
            /\ Become(s, [r EXCEPT !.op = "grant", !.password = minted + 1,
                                   !.copy = user[r.to].permission, !.late = FALSE])
            /\ minted' = minted + 1
    /\ UNCHANGED <<rows, made, history>>

Grant(s) ==
    LET r == req[s] IN
    /\ r.op = "grant"
    /\ SaveAccount(r) /\ Clobber(r)
    /\ granted' = [granted EXCEPT ![r.on] = @ + 1]
    /\ Become(s, [r EXCEPT !.op = "mark"])
    /\ UNCHANGED <<note, blocked, ids, loose, crowded, wish>>

\* A notification that is gone is inserted again while its account exists.
StoreNote(r, approved) ==
    note' = IF user[r.to] = NULL THEN note
            ELSE [note EXCEPT ![r.on] = [user |-> r.to, isApproved |-> approved, read |-> TRUE]]

Mark(s) ==
    LET r == req[s] IN
    /\ r.op = "mark"
    /\ StoreNote(r, TRUE)
    /\ Ends(s)
    /\ UNCHANGED <<user, blocked, ids, history>>

-----------------------------------------------------------------------------
(* notifications.markRead: the whole row is loaded and saved. *)

MarkRead(s) ==
    /\ Handles(s, "notifications.markRead")
    /\ \E n \in Notes :
         /\ note[n] # NULL
         /\ Become(s, [req[s] EXCEPT !.op = "saveNote", !.on = n, !.to = note[n].user,
                                     !.copy = note[n].isApproved])
    /\ UNCHANGED <<rows, ids, history>>

SaveNote(s) ==
    LET r == req[s] IN
    /\ r.op = "saveNote"
    /\ StoreNote(r, r.copy)
    /\ loose' = IF ~ r.copy /\ (note[r.on] = NULL \/ note[r.on].isApproved)
                THEN loose \cup {r.on} ELSE loose
    /\ Ends(s)
    /\ UNCHANGED <<user, blocked, ids, granted, crowded, wish, clobbered, retired>>

-----------------------------------------------------------------------------
(* organizations.update and branches.update: the flag is asked for, or the
   loaded one is written back with another column. *)

LoadFlag(s) ==
    /\ \E part \in Parts, flag \in BOOLEAN :
         /\ Handles(s, IF part = "org" THEN "organizations.update" ELSE "branches.update")
         /\ Become(s, [req[s] EXCEPT !.op = "saveFlag", !.to = part, !.copy = flag])
    /\ UNCHANGED <<rows, ids, history>>

SaveFlag(s) ==
    LET r == req[s] IN
    /\ r.op = "saveFlag"
    /\ blocked' = IF r.copy THEN blocked \cup {r.to} ELSE blocked \ {r.to}
    /\ req' = [t \in Slots |->
                 IF t = s THEN Idle
                 ELSE IF req[t].op = "idle" THEN req[t]
                 ELSE [req[t] EXCEPT !.open = @ \cup (Parts \ blocked')]]
    /\ UNCHANGED <<user, note, ids, history>>

-----------------------------------------------------------------------------
\* A statement fails or the connection is lost: the request ends.
Drop(s) ==
    /\ req[s].op # "idle"
    /\ loose' = IF req[s].op = "mark" THEN loose \cup {req[s].on} ELSE loose
    /\ Ends(s)
    /\ UNCHANGED <<rows, ids, granted, crowded, wish, clobbered, retired>>

Init ==
    /\ calls \in Workloads
    /\ user = [u \in Users |-> [password |-> 0, permission |-> TRUE]]
    /\ note = [n \in Notes |-> NULL]
    /\ blocked = {}
    /\ req = [s \in Slots |-> Idle]
    /\ minted = 0 /\ made = {}
    /\ granted = [n \in Notes |-> 0]
    /\ loose = {} /\ crowded = {}
    /\ wish = [u \in Users |-> TRUE] /\ clobbered = {}
    /\ retired = [u \in Users |-> {}]

Step(s) ==
    \/ Arrive(s) \/ OrganizationBlockedGuard(s) \/ BranchBlockedGuard(s) \/ Work(s)
    \/ RequestPasswordReset(s) \/ InsertNotification(s)
    \/ ChangePassword(s) \/ SavePassword(s)
    \/ LoadUser(s) \/ SaveUser(s) \/ SavePermission(s) \/ RemoveUser(s)
    \/ ApprovePasswordReset(s) \/ LoadRequested(s) \/ Grant(s) \/ Mark(s)
    \/ MarkRead(s) \/ SaveNote(s) \/ LoadFlag(s) \/ SaveFlag(s) \/ Drop(s)

Next == UNCHANGED calls /\ \E s \in Slots : Step(s)

Spec == Init /\ [][Next]_vars

-----------------------------------------------------------------------------
\* An approved request has set a password, and it sets one once: a second time
\* only if two approvals of it overlapped, one ended between the password and
\* the mark, or markRead's stale save undid or revived it.
GrantedOnce ==
    \A n \in Notes :
        /\ note[n] # NULL /\ note[n].isApproved => granted[n] >= 1
        /\ granted[n] > 1 => n \in loose

\* requestPasswordReset leaves an account at most one request to decide on,
\* unless two calls overlapped or a stale save reopened an old request.
OneOpen ==
    \A u \in Users \ crowded : \A m, n \in Undecided(u) \ loose : m = n

\* Whoever is in a handler found his organization, and if he is staff his
\* branch, unblocked at some moment since his request came: blocking shuts
\* out every request made after it, whatever ran between the guards' reads.
ShutOut ==
    \A s \in Slots :
        LET r == req[s] IN
        r.who \in Users /\ r.op \notin Guarded =>
            "org" \in r.open /\ (r.who \in Staff => "branch" \in r.open)

\* A password that was replaced never opens the account again, although rows
\* loaded before the change are saved after it, and deleted ones come back.
OldPasswordDead ==
    \A u \in Users : user[u] # NULL => user[u].password \notin retired[u]

\* A staff member has the permissions that updatePermissions stored last,
\* unless a save of the whole row (a reset of the password, say) wrote back
\* those it had loaded before.
RightsKept ==
    \A u \in Users : user[u] # NULL /\ user[u].permission # wish[u] => u \in clobbered
=============================================================================
