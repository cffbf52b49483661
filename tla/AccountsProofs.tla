--------------------------- MODULE AccountsProofs ---------------------------
(***************************************************************************)
(* What Accounts promises, for any number of accounts, notifications and   *)
(* requests that run at a time.                                            *)
(*                                                                         *)
(* Between two steps a request holds what it found, while others change    *)
(* it.  The invariant keeps, for each request alone, what is still true of *)
(* what it holds (Good), for two requests, what they cannot both hold      *)
(* (Apart), and for each row what these make of it (NoteOK, UserOK).       *)
(***************************************************************************)
EXTENDS Accounts, TLAPS

Approving == {"approving", "grant", "mark"}
NoteOps == Approving \cup {"saveNote"}
Saving == {"saveUser", "savePermission"}

\* The fields that a step of a request needs are there.
Shape(r) ==
    /\ r.op = "idle" => r.who = Root
    /\ r.op \in {"orgGuard", "branchGuard", "insertNote", "savePassword"} => r.who \in Users
    /\ r.op = "handler" /\ r.ep \in TenantEndpoints => r.who \in Users
    /\ r.op \in Saving \cup NoteOps => r.to \in Users
    /\ r.op \in NoteOps <=> r.on # NULL
    /\ r.op \in {"savePassword", "grant"} => r.password # 0
    /\ r.op \in Guarded \cup {"handler", "approving", "savePermission"} => r.password = 0
    /\ r.op = "saveFlag" => r.to \in Parts

\* A part that is open now is open for every request under way.
Door(r) ==
    /\ r.who \in Users => Parts \ blocked \subseteq r.open
    /\ r.who \in Users /\ r.op \notin {"idle", "orgGuard"} => "org" \in r.open
    /\ r.who \in Staff /\ r.op \notin Guarded => "branch" \in r.open

\* A new password that is not stored yet has never been anybody's.
Carries(r) == r.op \in Saving \cup {"savePassword", "grant"} /\ r.password # 0
Fresh(r) ==
    Carries(r) => /\ r.password <= minted
                  /\ \A u \in Users : /\ r.password \notin retired[u]
                                      /\ user[u] # NULL => user[u].password # r.password

\* A loaded permission is the stored one unless late or already lost.
Faithful(r) ==
    r.op \in {"saveUser", "grant"} /\ ~ r.late => r.copy = wish[r.to] \/ r.to \in clobbered

\* What a request knows about the notification it is about.
About(r) ==
    /\ r.op \in NoteOps => r.on \in made /\ (note[r.on] # NULL => note[r.on].user = r.to)
    /\ r.op \in {"approving", "grant"} /\ r.on \notin loose => granted[r.on] = 0
    /\ r.op = "mark" => granted[r.on] >= 1
    /\ r.op = "saveNote" /\ r.copy => granted[r.on] >= 1
    /\ r.op = "insertNote" /\ r.who \notin crowded => Undecided(r.who) \subseteq loose

Good(r) == Shape(r) /\ Door(r) /\ Fresh(r) /\ Faithful(r) /\ About(r)

\* What two requests cannot both hold.
Apart(q, r) ==
    /\ Carries(q) /\ Carries(r) => q.password # r.password
    /\ q.op \in NoteOps /\ r.op \in NoteOps /\ q.on = r.on => q.to = r.to
    /\ q.op \in Approving /\ r.op \in Approving /\ q.on = r.on => q.on \in loose
    /\ q.op = "insertNote" /\ r.op = "insertNote" /\ q.who = r.who => q.who \in crowded

NoteOK(n) ==
    /\ note[n] # NULL => n \in made /\ user[note[n].user] # NULL
    /\ note[n] # NULL /\ note[n].isApproved => granted[n] >= 1
    /\ granted[n] > 1 => n \in loose
    /\ n \notin made => granted[n] = 0
    /\ note[n] # NULL /\ ~ note[n].isApproved /\ n \notin loose =>
         granted[n] = 0 \/ \E t \in Slots : req[t].op = "mark" /\ req[t].on = n
UserOK(u) ==
    /\ \A p \in retired[u] : p <= minted
    /\ user[u] # NULL => user[u].password <= minted /\ user[u].password \notin retired[u]
    /\ user[u] # NULL /\ user[u].permission # wish[u] => u \in clobbered

IInv ==
    /\ TypeOK
    /\ \A n \in Notes : NoteOK(n)
    /\ \A u \in Users : UserOK(u)
    /\ OneOpen
    /\ \A s \in Slots : Good(req[s])
    /\ \A s, t \in Slots : s # t => Apart(req[s], req[t])

\* The fields of a request and their types.
LEMMA RequestFields ==
    ASSUME TypeOK, NEW s \in Slots
    PROVE  /\ req[s] \in Request /\ req[s].op \in Ops
           /\ req[s].who \in Users \cup {Root} /\ req[s].to \in Users \cup Parts \cup {NULL}
           /\ req[s].ep \in TenantEndpoints \cup RootEndpoints
           /\ req[s].on \in Notes \cup {NULL} /\ req[s].password \in Passwords
           /\ req[s].copy \in BOOLEAN /\ req[s].open \in SUBSET Parts /\ req[s].late \in BOOLEAN
  BY DEF TypeOK, Request

\* A row that is there is not NULL.
LEMMA RowIsNotNull ==
    \A x \in Account \cup Note : x # NULL
  BY AccountsAssumption

\* An idle slot holds nothing that could go wrong.
LEMMA IdleGood ==
    /\ Idle \in Request /\ Shape(Idle) /\ Door(Idle) /\ Fresh(Idle) /\ Faithful(Idle)
    /\ About(Idle)
    /\ \A r : Apart(Idle, r) /\ Apart(r, Idle)
  <1> USE AccountsAssumption
  <1>1. Idle \in Request
    BY DEF Idle, Request, Ops, Guarded, TenantEndpoints, Passwords
  <1>2. Shape(Idle) /\ Door(Idle)
    BY DEF Idle, Shape, Door, Guarded, Saving, NoteOps, Approving
  <1>3. Fresh(Idle) /\ Faithful(Idle) /\ About(Idle)
    BY DEF Idle, Fresh, Carries, Faithful, About, Saving, NoteOps, Approving
  <1>4. \A r : Apart(Idle, r) /\ Apart(r, Idle)
    BY DEF Idle, Apart, Carries, Saving, NoteOps, Approving
  <1> QED
    BY <1>1, <1>2, <1>3, <1>4

\* A step of one request that leaves the tables alone: it is enough that what
\* the request holds afterwards is good and apart from what the others hold.
\* It may draw a new password and write down what went wrong.
LEMMA Alone ==
    ASSUME IInv, NEW s \in Slots, NEW r \in Request, Become(s, r),
           UNCHANGED <<calls, rows, made, granted, wish, clobbered, retired>>,
           minted' \in Passwords, minted <= minted',
           loose \subseteq loose', loose' \subseteq Notes,
           crowded \subseteq crowded', crowded' \subseteq Users,
           req[s].op = "mark" => req[s].on \in loose',
           Good(r)', \A t \in Slots \ {s} : Apart(r, req[t])'
    PROVE  IInv'
  <1> USE AccountsAssumption
  <1>0. /\ TypeOK /\ TypeOK' /\ req' = [req EXCEPT ![s] = r] /\ minted \in Nat /\ minted' \in Nat
    <2>1. req' = [req EXCEPT ![s] = r] BY DEF Become
    <2>2. req' \in [Slots -> Request] BY <2>1 DEF IInv, TypeOK
    <2> QED BY <2>1, <2>2 DEF IInv, TypeOK, rows, Passwords
  <1>1. ASSUME NEW n \in Notes PROVE NoteOK(n)'
    <2>1. NoteOK(n) /\ granted[n] \in Nat BY <1>0 DEF IInv, TypeOK
    <2>2. ASSUME n \notin loose', NEW t \in Slots, req[t].op = "mark", req[t].on = n
          PROVE  req'[t].op = "mark" /\ req'[t].on = n
      BY <1>0, <2>2 DEF TypeOK
    <2> QED BY <1>0, <2>1, <2>2 DEF NoteOK, rows
  <1>2. ASSUME NEW u \in Users PROVE UserOK(u)'
    <2>1. UserOK(u) /\ retired[u] \subseteq Passwords /\ user[u] \in Account \cup {NULL}
      BY <1>0 DEF IInv, TypeOK
    <2> QED BY <1>0, <2>1 DEF UserOK, rows, Account, Passwords
  <1>3. OneOpen'
    BY <1>0 DEF IInv, OneOpen, Undecided, rows
  <1>4. \A t \in Slots : Good(req[t])'
    <2> SUFFICES ASSUME NEW t \in Slots, t # s PROVE Good(req[t])'
      BY <1>0 DEF TypeOK
    <2>1. req'[t] = req[t] /\ Good(req[t]) BY <1>0 DEF IInv, TypeOK
    <2>2. Shape(req[t])' BY <2>1 DEF Good, Shape
    <2>3. Door(req[t])' BY <2>1 DEF Good, Door, rows
    <2>4. Fresh(req[t])'
      BY <1>0, <2>1, RequestFields DEF Good, Fresh, Carries, rows, Passwords
    <2>5. Faithful(req[t])' BY <2>1 DEF Good, Faithful
    <2>6. About(req[t])' BY <2>1 DEF Good, About, Undecided, rows
    <2> QED BY <2>2, <2>3, <2>4, <2>5, <2>6 DEF Good
  <1>5. \A t, q \in Slots : t # q => Apart(req[t], req[q])'
    <2> SUFFICES ASSUME NEW t \in Slots, NEW q \in Slots, t # q PROVE Apart(req[t], req[q])'
      OBVIOUS
    <2>1. CASE t # s /\ q # s
      <3>1. req'[t] = req[t] /\ req'[q] = req[q] /\ Apart(req[t], req[q])
        BY <1>0, <2>1 DEF IInv, TypeOK
      <3> QED BY <3>1 DEF Apart, Carries
    <2>2. CASE t = s
      <3>1. req'[t] = r BY <1>0, <2>2 DEF TypeOK
      <3> QED BY <2>2, <3>1 DEF Apart, Carries
    <2>3. CASE q = s
      <3>1. req'[q] = r /\ Apart(r, req[t])' BY <1>0, <2>3 DEF TypeOK
      <3> QED BY <3>1 DEF Apart, Carries
    <2> QED BY <2>1, <2>2, <2>3
  <1> QED
    BY <1>0, <1>1, <1>2, <1>3, <1>4, <1>5 DEF IInv

\* A request that ends, or that was given up with nothing left to mark.
LEMMA EndsStep ==
    ASSUME IInv, NEW s \in Slots, Ends(s),
           UNCHANGED <<calls, rows, ids, granted, crowded, wish, clobbered, retired>>,
           loose \subseteq loose', loose' \subseteq Notes,
           req[s].op = "mark" => req[s].on \in loose'
    PROVE  IInv'
  <1>1. Idle \in Request /\ Good(Idle)' /\ \A t \in Slots \ {s} : Apart(Idle, req[t])'
    <2>1. /\ Shape(Idle)' /\ Door(Idle)' /\ Fresh(Idle)' /\ Faithful(Idle)' /\ About(Idle)'
      BY AccountsAssumption DEF Idle, Shape, Door, Fresh, Faithful, About, Carries, Guarded,
             Saving, NoteOps, Approving
    <2> QED BY <2>1, IdleGood DEF Good, Apart, Carries
  <1>2. minted' \in Passwords /\ minted <= minted' /\ crowded' \subseteq Users /\ crowded \subseteq crowded'
    BY DEF IInv, TypeOK, ids, Passwords
  <1> QED
    BY <1>1, <1>2, Alone DEF Ends, ids

-----------------------------------------------------------------------------
(* The steps that only read: each through Alone or EndsStep. *)

\* A request comes: it knows nothing yet.
LEMMA ArriveStep ==
    ASSUME IInv, NEW s \in Slots, calls' = calls, Arrive(s)
    PROVE  IInv'
  <1> USE AccountsAssumption
  <1>0. /\ req[s].op = "idle" /\ minted' \in Passwords /\ minted <= minted'
        /\ UNCHANGED <<calls, rows, made, granted, wish, clobbered, retired, loose, crowded>>
        /\ loose' \subseteq Notes /\ crowded' \subseteq Users /\ blocked \subseteq Parts
    <2>1. req[s].op = "idle" /\ UNCHANGED <<rows, ids, history>>
      BY DEF Arrive
    <2>2. TypeOK
      BY DEF IInv
    <2> QED BY <2>1, <2>2 DEF TypeOK, ids, history, Passwords
  <1>1. ASSUME NEW r \in Request, Become(s, r), Good(r)',
               r.op \in {"orgGuard", "handler"}
        PROVE  IInv'
    <2>1. \A t \in Slots \ {s} : Apart(r, req[t])'
      BY <1>1 DEF Apart, Carries, Saving, NoteOps, Approving
    <2> QED BY <1>0, <1>1, <2>1, Alone
  <1>2. ASSUME NEW u \in Users, NEW ep \in TenantEndpoints \cup AdminEndpoints,
               NEW open \in SUBSET Parts, open = Parts \ blocked,
               Become(s, [Idle EXCEPT !.op = "orgGuard", !.who = u, !.ep = ep, !.open = open])
        PROVE  IInv'
    <2> DEFINE r == [Idle EXCEPT !.op = "orgGuard", !.who = u, !.ep = ep, !.open = open]
    <2>1. r \in Request
      BY IdleGood DEF Request, Ops, Guarded, RootEndpoints
    <2>2. Shape(r)' /\ Fresh(r)' /\ Faithful(r)' /\ About(r)'
      BY DEF Idle, Shape, Fresh, Faithful, About, Carries, Saving, NoteOps, Approving
    <2>3. Door(r)'
      BY <1>0, <1>2 DEF Idle, Door, Guarded, rows
    <2>4. Good(r)' /\ r.op = "orgGuard"
      BY <2>2, <2>3 DEF Good, Idle
    <2> QED BY <1>1, <1>2, <2>1, <2>4
  <1>3. ASSUME NEW ep \in RootEndpoints, Become(s, [Idle EXCEPT !.op = "handler", !.ep = ep])
        PROVE  IInv'
    <2> DEFINE r == [Idle EXCEPT !.op = "handler", !.ep = ep]
    <2>1. r \in Request
      BY IdleGood DEF Request, Ops
    <2>2. Shape(r)' /\ Fresh(r)' /\ Faithful(r)' /\ About(r)'
      BY DEF Idle, Shape, Fresh, Faithful, About, Carries, Saving, NoteOps, Approving,
             TenantEndpoints, RootEndpoints, AdminEndpoints
    <2>3. Door(r)'
      BY DEF Idle, Door
    <2>4. Good(r)' /\ r.op = "handler"
      BY <2>2, <2>3 DEF Good, Idle
    <2> QED BY <1>1, <1>3, <2>1, <2>4
  <1>4. Parts \ blocked \in SUBSET Parts
    OBVIOUS
  <1> QED
    BY <1>2, <1>3, <1>4 DEF Arrive

\* A request in flight changes its step only: Becomes(s, op, ...) keeps the
\* rest, so what it knew stays good; what the new step needs is listed.
LEMMA GuardStep ==
    ASSUME IInv, NEW s \in Slots, calls' = calls,
           OrganizationBlockedGuard(s) \/ BranchBlockedGuard(s)
    PROVE  IInv'
  <1> USE AccountsAssumption
  <1> PICK q \in Request : q = req[s]
    BY RequestFields DEF IInv
  <1>0. /\ q.op \in {"orgGuard", "branchGuard"} /\ minted' \in Passwords /\ minted <= minted'
        /\ UNCHANGED <<calls, rows, ids, history, loose, crowded, granted, wish, clobbered,
                       retired, made, blocked>>
        /\ loose' \subseteq Notes /\ crowded' \subseteq Users /\ blocked \subseteq Parts
        /\ Shape(q) /\ Door(q) /\ q.who \in Users
    BY DEF OrganizationBlockedGuard, BranchBlockedGuard, IInv, TypeOK, ids, history, Passwords,
           Good, Shape, rows
  <1>1. CASE Ends(s)
    BY <1>0, <1>1, EndsStep
  <1>2. ASSUME NEW op \in {"branchGuard", "handler"}, Become(s, [q EXCEPT !.op = op]),
               Door([q EXCEPT !.op = op])
        PROVE  IInv'
    <2> DEFINE r == [q EXCEPT !.op = op]
    <2>1. r \in Request /\ r.op = op
      BY DEF Request, Ops, Guarded
    <2>2. Shape(r)' /\ Fresh(r)' /\ Faithful(r)' /\ About(r)'
      BY <1>0, <2>1 DEF Request, Shape, Fresh, Faithful, About, Carries, Saving, NoteOps, Approving,
                        Guarded
    <2>3. Door(r)'
      BY <1>0, <1>2 DEF Door
    <2>4. Good(r)'
      BY <2>2, <2>3 DEF Good
    <2>5. \A t \in Slots \ {s} : Apart(r, req[t])'
      BY <2>1 DEF Apart, Carries, Saving, NoteOps, Approving
    <2> QED BY <1>0, <1>2, <2>1, <2>4, <2>5, Alone
  <1>3. CASE Become(s, [req[s] EXCEPT !.op = "branchGuard"]) /\ q.op = "orgGuard" /\ "org" \notin blocked
    <2>1. Door([q EXCEPT !.op = "branchGuard"])
      BY <1>0, <1>3 DEF Door, Guarded, Parts, Request
    <2> QED BY <1>2, <1>3, <2>1
  <1>4. CASE /\ Become(s, [req[s] EXCEPT !.op = "handler"]) /\ q.op = "branchGuard"
             /\ ~ (q.who \in Staff /\ "branch" \in blocked)
    <2>1. Door([q EXCEPT !.op = "handler"])
      BY <1>0, <1>4 DEF Door, Guarded, Parts, Request
    <2> QED BY <1>2, <1>4, <2>1
  <1> QED
    BY <1>1, <1>3, <1>4 DEF OrganizationBlockedGuard, BranchBlockedGuard

\* A handler that read something: the guards behind it stay passed, and what
\* it holds now is to be justified.
LEMMA HandlerStep ==
    ASSUME IInv, NEW s \in Slots, calls' = calls, UNCHANGED <<rows, made>>,
           UNCHANGED <<granted, wish, clobbered, retired>>,
           minted' \in Passwords, minted <= minted',
           loose \subseteq loose', loose' \subseteq Notes,
           crowded \subseteq crowded', crowded' \subseteq Users,
           req[s].op \in {"handler", "approving"},
           NEW r \in Request, Become(s, r), r.who = req[s].who, r.open = req[s].open,
           Shape(r), Fresh(r)', Faithful(r)', About(r)',
           \A t \in Slots \ {s} : Apart(r, req[t])'
    PROVE  IInv'
  <1>1. Door(req[s])
    BY DEF IInv, Good
  <1>2. Door(r)'
    BY <1>1 DEF Door, rows, Guarded
  <1>3. Shape(r)'
    BY DEF Shape
  <1> QED
    BY <1>2, <1>3, Alone DEF Good

\* requestPasswordReset finds none, and another may have found none before it.
LEMMA RequestPasswordResetStep ==
    ASSUME IInv, NEW s \in Slots, calls' = calls, RequestPasswordReset(s)
    PROVE  IInv'
  <1> PICK q \in Request : q = req[s]
    BY RequestFields DEF IInv
  <1>0. /\ q.op = "handler" /\ q.ep = "auth.requestPasswordReset" /\ TypeOK
        /\ UNCHANGED <<rows, ids, granted, loose, wish, clobbered, retired>>
    BY DEF RequestPasswordReset, Handles, IInv
  <1>a. /\ minted' \in Passwords /\ minted <= minted' /\ loose' \subseteq Notes /\ made' = made
        /\ Shape(q) /\ q.who \in Users
    BY <1>0 DEF TypeOK, ids, Passwords, IInv, Good, Shape, TenantEndpoints
  <1>1. CASE Ends(s) /\ UNCHANGED crowded
    BY <1>0, <1>a, <1>1, EndsStep
  <1> DEFINE Crowd == crowded' = IF \E t \in Slots : req[t].op = "insertNote" /\ req[t].who = q.who
                                 THEN crowded \cup {q.who} ELSE crowded
  <1>2. CASE Become(s, [q EXCEPT !.op = "insertNote"]) /\ Undecided(q.who) = {} /\ Crowd
    <2> DEFINE r == [q EXCEPT !.op = "insertNote"]
    <2>1. r \in Request /\ r.op = "insertNote" /\ r.who = q.who /\ r.open = q.open
      BY DEF Request, Ops
    <2>2. Shape(r) /\ Fresh(r)' /\ Faithful(r)'
      BY <1>0, <1>a, <2>1 DEF Request, Shape, Fresh, Carries, Faithful, Saving, NoteOps, Approving
    <2>3. Undecided(q.who)' = {}
      BY <1>0, <1>2 DEF Undecided, rows
    <2>4. About(r)'
      BY <2>1, <2>3 DEF About, NoteOps, Approving
    <2>5. ASSUME NEW t \in Slots \ {s} PROVE Apart(r, req[t])'
      <3>1. req'[t] = req[t]
        BY <1>2 DEF Become
      <3> QED BY <1>0, <1>2, <2>1, <3>1 DEF Apart, Carries, Saving, NoteOps, Approving
    <2>6. crowded \subseteq crowded' /\ crowded' \subseteq Users
      BY <1>0, <1>a, <1>2 DEF TypeOK
    <2>7. Become(s, r)
      BY <1>2
    <2> HIDE DEF r
    <2> QED BY <1>0, <1>a, <2>1, <2>2, <2>4, <2>5, <2>6, <2>7, HandlerStep
  <1> QED
    <2>1. \/ Ends(s) /\ UNCHANGED crowded
          \/ Become(s, [req[s] EXCEPT !.op = "insertNote"]) /\ Undecided(req[s].who) = {} /\ Crowd
      BY DEF RequestPasswordReset, Pending
    <2> QED BY <1>1, <1>2, <2>1

\* A new password is above all those in use, so it is nobody's yet.
LEMMA NewIsFresh ==
    ASSUME IInv, minted' = minted + 1, UNCHANGED <<user, retired>>, NEW r \in Request,
           r.password = minted + 1
    PROVE  /\ Fresh(r)'
           /\ \A t \in Slots : Carries(req[t]) => req[t].password # r.password
  <1>1. minted \in Nat
    BY DEF IInv, TypeOK, Passwords
  <1>2. ASSUME NEW u \in Users
        PROVE  minted + 1 \notin retired[u] /\ (user[u] # NULL => user[u].password # minted + 1)
    <2>1. UserOK(u) /\ retired[u] \subseteq Nat /\ user[u] \in Account \cup {NULL}
      BY DEF IInv, TypeOK, Passwords
    <2> QED BY <1>1, <2>1 DEF UserOK, Account, Passwords
  <1>3. ASSUME NEW t \in Slots, Carries(req[t]) PROVE req[t].password # minted + 1
    BY <1>1, <1>3, RequestFields DEF IInv, Good, Fresh, Passwords
  <1> QED
    BY <1>1, <1>2, <1>3 DEF Fresh

\* A step draws a new password, the request r holds it.
Mints(r) == minted < MaxPasswords /\ minted' = minted + 1 /\ r.password = minted + 1

\* Below the bound there is a next password.
LEMMA Mintable ==
    ASSUME IInv, minted < MaxPasswords
    PROVE  minted + 1 \in Passwords
  <1>1. minted \in Nat /\ MaxPasswords \in Nat
    BY AccountsAssumption DEF IInv, TypeOK, Passwords
  <1> QED
    BY <1>1 DEF Passwords

\* A handler has made a new password: the request s may hold it.
LEMMA NewPassword ==
    ASSUME IInv, NEW s \in Slots, calls' = calls, UNCHANGED <<rows, made, history>>,
           req[s].op \in {"handler", "approving"},
           NEW r \in Request, Become(s, r), r.who = req[s].who, r.open = req[s].open,
           Mints(r), Shape(r), Faithful(r)', About(r)',
           r.op \in Approving => req[s].op \in Approving /\ r.on = req[s].on /\ r.to = req[s].to,
           r.op \notin {"insertNote", "saveNote"}
    PROVE  IInv'
  <1>0. minted < MaxPasswords /\ minted' = minted + 1 /\ r.password = minted + 1
    BY DEF Mints
  <1>1. minted' \in Passwords /\ minted <= minted'
    BY <1>0, Mintable DEF IInv, TypeOK, Passwords
  <1>2. ASSUME NEW t \in Slots \ {s} PROVE Apart(r, req[t])'
    <2>1. req'[t] = req[t] /\ Apart(req[s], req[t])
      BY DEF Become, IInv
    <2>2. Carries(req[t]) => req[t].password # r.password
      BY <1>0, NewIsFresh DEF rows, history
    <2> QED BY <2>1, <2>2 DEF Apart, Carries, NoteOps, Approving, Saving, history
  <1>3. Fresh(r)'
    BY <1>0, NewIsFresh DEF rows, history
  <1>4. loose' \subseteq Notes /\ crowded' \subseteq Users
    BY DEF IInv, TypeOK, history
  <1> QED
    BY <1>1, <1>2, <1>3, <1>4, HandlerStep DEF history

\* changePassword has compared the old password and hashed the new one.
LEMMA ChangePasswordStep ==
    ASSUME IInv, NEW s \in Slots, calls' = calls, ChangePassword(s)
    PROVE  IInv'
  <1> PICK q \in Request : q = req[s]
    BY RequestFields DEF IInv
  <1>0. /\ q.op = "handler" /\ q.ep = "auth.changePassword" /\ minted < MaxPasswords
        /\ minted' = minted + 1 /\ UNCHANGED <<rows, made, history>> /\ minted \in Nat
        /\ Shape(q)
    BY DEF ChangePassword, Handles, IInv, TypeOK, Passwords, Good
  <1> PICK p \in Passwords : p = minted + 1
    BY <1>0, Mintable
  <1> DEFINE r == [q EXCEPT !.op = "savePassword", !.password = p]
  <1>1. /\ r \in Request /\ r.op = "savePassword" /\ r.who = q.who /\ r.open = q.open
        /\ r.password = p /\ r.on = q.on
    BY DEF Request, Ops
  <1>2. Shape(r) /\ Faithful(r)' /\ About(r)'
    BY <1>0, <1>1 DEF Shape, Faithful, About, Saving, NoteOps, Approving, TenantEndpoints, Guarded
  <1>3. Become(s, r)
    BY DEF ChangePassword
  <1>4. /\ r.op \notin Approving /\ r.op \notin {"insertNote", "saveNote"}
        /\ r.who = req[s].who /\ r.open = req[s].open /\ req[s].op \in {"handler", "approving"}
        /\ Mints(r)
    BY <1>0, <1>1 DEF Approving, Mints
  <1> HIDE DEF r
  <1> QED
    BY <1>0, <1>1, <1>2, <1>3, <1>4, NewPassword

\* The three handlers that load an account to save it.
LEMMA LoadUserStep ==
    ASSUME IInv, NEW s \in Slots, calls' = calls, LoadUser(s)
    PROVE  IInv'
  <1> PICK q \in Request : q = req[s]
    BY RequestFields DEF IInv
  <1>0. /\ q.op = "handler" /\ UNCHANGED <<rows, made, history>> /\ minted \in Nat /\ TypeOK
        /\ Shape(q) /\ q.password = 0 /\ minted \in Passwords
        /\ loose \subseteq Notes /\ crowded \subseteq Users
    <2>1. q.op = "handler" /\ UNCHANGED <<rows, made, history>>
      BY DEF LoadUser
    <2>2. Shape(q) /\ TypeOK
      BY DEF IInv, Good
    <2> QED BY <2>1, <2>2 DEF TypeOK, Passwords, Shape
  <1>u. PICK u \in Users :
        /\ user[u] # NULL
        /\ \/ /\ req[s].ep = "users.adminChangePassword" /\ minted < MaxPasswords
              /\ Become(s, [req[s] EXCEPT !.op = "saveUser", !.to = u,
                              !.password = minted + 1, !.copy = user[u].permission])
              /\ minted' = minted + 1
           \/ /\ req[s].ep = "users.updateScope" /\ u \in Staff
              /\ Become(s, [req[s] EXCEPT !.op = "saveUser", !.to = u,
                              !.copy = user[u].permission])
              /\ UNCHANGED minted
           \/ /\ req[s].ep = "users.updatePermissions" /\ u \in Staff
              /\ \E p \in BOOLEAN :
                   Become(s, [req[s] EXCEPT !.op = "savePermission", !.to = u, !.copy = p])
              /\ UNCHANGED minted
    BY DEF LoadUser
  <1>1. user[u] \in Account /\ UserOK(u) /\ wish[u] \in BOOLEAN
    BY <1>0, <1>u DEF TypeOK, IInv
  <1>c. PICK c \in BOOLEAN : c = user[u].permission
    BY <1>u, <1>1 DEF Account
  <1>2. c = wish'[u] \/ u \in clobbered'
    BY <1>0, <1>u, <1>c, <1>1 DEF UserOK, history
  <1>3. ASSUME minted < MaxPasswords, minted' = minted + 1, NEW p \in Passwords, p = minted + 1,
               Become(s, [q EXCEPT !.op = "saveUser", !.to = u, !.password = p, !.copy = c])
        PROVE  IInv'
    <2> DEFINE r == [q EXCEPT !.op = "saveUser", !.to = u, !.password = p, !.copy = c]
    <2>1. /\ r \in Request /\ r.op = "saveUser" /\ r.who = q.who /\ r.open = q.open
          /\ r.password = p /\ r.to = u /\ r.copy = c /\ r.on = q.on
      BY DEF Request, Ops
    <2>2. Shape(r) /\ Faithful(r)' /\ About(r)'
      BY <1>0, <1>2, <2>1 DEF Shape, Faithful, About, Saving, NoteOps, Approving, Guarded
    <2>3. Become(s, r)
      BY <1>3
    <2>4. /\ r.op \notin Approving /\ r.op \notin {"insertNote", "saveNote"}
          /\ r.who = req[s].who /\ r.open = req[s].open /\ req[s].op \in {"handler", "approving"}
          /\ Mints(r)
      BY <1>0, <1>3, <2>1 DEF Approving, Mints
    <2> HIDE DEF r
    <2> QED
      BY <1>0, <1>3, <2>1, <2>2, <2>3, <2>4, NewPassword
  <1>4. ASSUME minted' = minted, NEW op \in Saving, NEW p \in BOOLEAN,
               op = "saveUser" => p = c,
               Become(s, [q EXCEPT !.op = op, !.to = u, !.copy = p])
        PROVE  IInv'
    <2> DEFINE r == [q EXCEPT !.op = op, !.to = u, !.copy = p]
    <2>1. /\ r \in Request /\ r.op \in Saving /\ r.who = q.who /\ r.open = q.open
          /\ r.password = 0 /\ r.to = u /\ r.on = q.on
          /\ r.op = "saveUser" => r.copy = c
      BY <1>0, <1>4 DEF Request, Ops, Saving
    <2>2. Shape(r) /\ Faithful(r)' /\ About(r)' /\ Fresh(r)'
      BY <1>0, <1>2, <2>1 DEF Shape, Faithful, About, Fresh, Carries, Saving, NoteOps, Approving, Guarded
    <2>3. \A t \in Slots \ {s} : Apart(r, req[t])'
      BY <2>1 DEF Apart, Carries, Saving, NoteOps, Approving
    <2>4. Become(s, r)
      BY <1>4
    <2>5. minted' \in Passwords /\ minted <= minted'
      <3>1. minted' = minted BY <1>4
      <3> QED BY <1>0, <3>1
    <2> HIDE DEF r
    <2> QED
      BY <1>0, <2>1, <2>2, <2>3, <2>4, <2>5, HandlerStep DEF history
  <1> QED
    <2>1. CASE /\ minted < MaxPasswords /\ minted' = minted + 1
               /\ Become(s, [q EXCEPT !.op = "saveUser", !.to = u, !.password = minted + 1, !.copy = c])
      <3> PICK p \in Passwords : p = minted + 1
        BY <2>1, Mintable
      <3> QED BY <1>3, <2>1
    <2>2. CASE Become(s, [q EXCEPT !.op = "saveUser", !.to = u, !.copy = c]) /\ UNCHANGED minted
      BY <1>4, <2>2 DEF Saving
    <2>3. ASSUME NEW p \in BOOLEAN, UNCHANGED minted,
                 Become(s, [q EXCEPT !.op = "savePermission", !.to = u, !.copy = p])
          PROVE  IInv'
      BY <1>4, <2>3 DEF Saving
    <2> QED BY <1>u, <1>c, <2>1, <2>2, <2>3

\* approvePasswordReset finds the notification not approved: no password was
\* set for it, unless another approval stands between the password and the mark.
LEMMA ApproveStep ==
    ASSUME IInv, NEW s \in Slots, calls' = calls, ApprovePasswordReset(s)
    PROVE  IInv'
  <1>q. PICK q \in Request : q = req[s]
    BY RequestFields DEF IInv
  <1>n. PICK n \in Notes :
          /\ note[n] # NULL /\ ~ note[n].isApproved
          /\ Become(s, [req[s] EXCEPT !.op = "approving", !.on = n, !.to = note[n].user])
          /\ loose' = IF BeingApproved(n) THEN loose \cup {n} ELSE loose
    BY DEF ApprovePasswordReset
  <1>0. /\ q.op = "handler" /\ UNCHANGED <<rows, ids, granted, crowded, wish, clobbered, retired>>
        /\ minted' \in Passwords /\ minted <= minted'
        /\ crowded' \subseteq Users /\ loose' \subseteq Notes /\ loose \subseteq loose'
    <2>1. q.op = "handler" /\ UNCHANGED <<rows, ids, granted, crowded, wish, clobbered, retired>>
      BY <1>q DEF ApprovePasswordReset, Handles
    <2> QED BY <1>n, <2>1 DEF IInv, TypeOK, ids, Passwords
  <1>1. /\ NoteOK(n) /\ note[n] \in Note /\ n \in made /\ n # NULL /\ q.password = 0
    BY <1>n, <1>q, <1>0, AccountsAssumption DEF IInv, TypeOK, NoteOK, Good, Shape
  <1>u. PICK u \in Users : u = note[n].user
    BY <1>1 DEF Note
  <1> DEFINE r == [q EXCEPT !.op = "approving", !.on = n, !.to = u]
  <1>2. /\ r \in Request /\ r.op = "approving" /\ r.who = q.who /\ r.open = q.open
        /\ r.on = n /\ r.to = u /\ r.password = q.password
    BY DEF Request, Ops
  <1>3. Become(s, r)
    BY <1>q, <1>n, <1>u
  <1> HIDE DEF r
  <1>4. Shape(r) /\ Fresh(r)' /\ Faithful(r)'
    BY <1>1, <1>2 DEF Shape, Fresh, Carries, Faithful, Saving, NoteOps, Approving, Guarded
  <1>5. About(r)'
    <2>1. made' = made /\ note' = note /\ granted' = granted
      BY <1>0 DEF rows, ids
    <2>2. n \notin loose' => granted[n] = 0
      BY <1>n, <1>1 DEF NoteOK, BeingApproved
    <2> QED BY <1>1, <1>2, <1>u, <2>1, <2>2 DEF About
  <1>6. ASSUME NEW t \in Slots \ {s} PROVE Apart(r, req[t])'
    <2>1. req'[t] = req[t] /\ req[t] \in Request /\ Good(req[t])
      BY <1>3 DEF Become, IInv, TypeOK
    <2>2. req[t].op \in Approving /\ req[t].on = n => n \in loose'
      BY <1>n DEF BeingApproved, Approving
    <2>3. req[t].op \in NoteOps /\ req[t].on = n => req[t].to = u
      BY <1>n, <1>u, <2>1 DEF Good, About
    <2> QED BY <1>1, <1>2, <2>1, <2>2, <2>3 DEF Apart, Carries, Saving, NoteOps, Approving
  <1>7. req[s].op \in {"handler", "approving"} /\ r.who = req[s].who /\ r.open = req[s].open
    BY <1>q, <1>0, <1>2
  <1> QED
    BY <1>0, <1>2, <1>3, <1>4, <1>5, <1>6, <1>7, HandlerStep DEF ids

\* approvePasswordReset loads the account of the notification.
LEMMA LoadRequestedStep ==
    ASSUME IInv, NEW s \in Slots, calls' = calls, LoadRequested(s)
    PROVE  IInv'
  <1>q. PICK q \in Request : q = req[s]
    BY RequestFields DEF IInv
  <1>0. /\ q.op = "approving" /\ UNCHANGED <<rows, made, history>> /\ Good(q) /\ q.to \in Users
    BY <1>q DEF LoadRequested, IInv, Good, Shape, NoteOps, Approving
  <1>1. CASE Ends(s) /\ UNCHANGED minted
    <2>1. loose' \subseteq Notes
      BY <1>0 DEF IInv, TypeOK, history
    <2> QED BY <1>q, <1>0, <1>1, <2>1, EndsStep DEF history, ids
  <1>2. CASE /\ user[q.to] # NULL /\ minted < MaxPasswords /\ minted' = minted + 1
             /\ Become(s, [q EXCEPT !.op = "grant", !.password = minted + 1,
                                    !.copy = user[q.to].permission, !.late = FALSE])
    <2>1. user[q.to] \in Account /\ UserOK(q.to)
      BY <1>0, <1>2 DEF TypeOK, IInv
    <2>c. PICK c \in BOOLEAN : c = user[q.to].permission
      BY <2>1 DEF Account
    <2>p. PICK p \in Passwords : p = minted + 1
      BY <1>2, Mintable
    <2>2. c = wish'[q.to] \/ q.to \in clobbered'
      BY <1>0, <1>2, <2>1, <2>c DEF UserOK, history
    <2> DEFINE r == [q EXCEPT !.op = "grant", !.password = p, !.copy = c, !.late = FALSE]
    <2>3. /\ r \in Request /\ r.op = "grant" /\ r.who = q.who /\ r.open = q.open
          /\ r.on = q.on /\ r.to = q.to /\ r.password = p /\ r.copy = c
      BY DEF Request, Ops
    <2>4. Become(s, r)
      BY <1>2, <2>c, <2>p
    <2> HIDE DEF r
    <2>5. Mints(r) /\ r.password # 0
      <3>1. minted \in Nat
        BY DEF IInv, TypeOK, Passwords
      <3> QED BY <1>2, <2>3, <2>p, <3>1 DEF Mints
    <2>6. Shape(r) /\ Faithful(r)'
      BY <1>0, <2>2, <2>3, <2>5 DEF Good, Shape, Faithful, Saving, NoteOps, Approving, Guarded
    <2>7. About(r)'
      BY <1>0, <2>3 DEF Good, About, NoteOps, Approving, rows, history
    <2>8. /\ r.op \notin {"insertNote", "saveNote"} /\ req[s].op \in {"handler", "approving"}
          /\ r.who = req[s].who /\ r.open = req[s].open
          /\ r.op \in Approving => req[s].op \in Approving /\ r.on = req[s].on /\ r.to = req[s].to
      BY <1>q, <1>0, <2>3 DEF Approving
    <2> QED BY <1>0, <2>3, <2>4, <2>5, <2>6, <2>7, <2>8, NewPassword
  <1> QED
    BY <1>q, <1>1, <1>2 DEF LoadRequested

\* markRead loads the notification, whatever becomes of it meanwhile.
LEMMA MarkReadStep ==
    ASSUME IInv, NEW s \in Slots, calls' = calls, MarkRead(s)
    PROVE  IInv'
  <1>q. PICK q \in Request : q = req[s]
    BY RequestFields DEF IInv
  <1>n. PICK n \in Notes :
          /\ note[n] # NULL
          /\ Become(s, [req[s] EXCEPT !.op = "saveNote", !.on = n, !.to = note[n].user,
                                      !.copy = note[n].isApproved])
    BY DEF MarkRead
  <1>0. /\ q.op = "handler" /\ UNCHANGED <<rows, ids, history>>
        /\ minted' \in Passwords /\ minted <= minted'
        /\ crowded' \subseteq Users /\ loose' \subseteq Notes
    <2>1. q.op = "handler" /\ UNCHANGED <<rows, ids, history>>
      BY <1>q DEF MarkRead, Handles
    <2> QED BY <2>1 DEF IInv, TypeOK, ids, Passwords, history
  <1>1. /\ NoteOK(n) /\ note[n] \in Note /\ n \in made /\ n # NULL /\ q.password = 0
    BY <1>n, <1>q, <1>0, AccountsAssumption DEF IInv, TypeOK, NoteOK, Good, Shape
  <1>u. PICK u \in Users : u = note[n].user
    BY <1>1 DEF Note
  <1>c. PICK c \in BOOLEAN : c = note[n].isApproved
    BY <1>1 DEF Note
  <1> DEFINE r == [q EXCEPT !.op = "saveNote", !.on = n, !.to = u, !.copy = c]
  <1>2. /\ r \in Request /\ r.op = "saveNote" /\ r.who = q.who /\ r.open = q.open
        /\ r.on = n /\ r.to = u /\ r.copy = c /\ r.password = q.password
    BY DEF Request, Ops
  <1>3. Become(s, r)
    BY <1>q, <1>n, <1>u, <1>c
  <1> HIDE DEF r
  <1>4. Shape(r) /\ Fresh(r)' /\ Faithful(r)'
    BY <1>1, <1>2 DEF Shape, Fresh, Carries, Faithful, Saving, NoteOps, Approving, Guarded
  <1>5. About(r)'
    BY <1>0, <1>n, <1>1, <1>2, <1>u, <1>c DEF About, NoteOK, rows, ids, history
  <1>6. ASSUME NEW t \in Slots \ {s} PROVE Apart(r, req[t])'
    <2>1. req'[t] = req[t] /\ req[t] \in Request /\ Good(req[t])
      BY <1>3 DEF Become, IInv, TypeOK
    <2>2. req[t].op \in NoteOps /\ req[t].on = n => req[t].to = u
      BY <1>n, <1>u, <2>1 DEF Good, About
    <2> QED BY <1>1, <1>2, <2>1, <2>2 DEF Apart, Carries, Saving, NoteOps, Approving
  <1>7. req[s].op \in {"handler", "approving"} /\ r.who = req[s].who /\ r.open = req[s].open
    BY <1>q, <1>0, <1>2
  <1> QED
    BY <1>0, <1>2, <1>3, <1>4, <1>5, <1>6, <1>7, HandlerStep DEF ids, history

\* organizations.update and branches.update load what they are going to save.
LEMMA LoadFlagStep ==
    ASSUME IInv, NEW s \in Slots, calls' = calls, LoadFlag(s)
    PROVE  IInv'
  <1>q. PICK q \in Request : q = req[s]
    BY RequestFields DEF IInv
  <1>p. PICK part \in Parts, flag \in BOOLEAN :
          Become(s, [req[s] EXCEPT !.op = "saveFlag", !.to = part, !.copy = flag])
    BY DEF LoadFlag
  <1>0. /\ q.op = "handler" /\ UNCHANGED <<rows, ids, history>>
        /\ minted' \in Passwords /\ minted <= minted'
        /\ crowded' \subseteq Users /\ loose' \subseteq Notes
    <2>1. q.op = "handler" /\ UNCHANGED <<rows, ids, history>>
      BY <1>q DEF LoadFlag, Handles
    <2> QED BY <2>1 DEF IInv, TypeOK, ids, Passwords, history
  <1>1. q.on = NULL
    BY <1>q, <1>0 DEF IInv, Good, Shape, NoteOps, Approving
  <1> DEFINE r == [q EXCEPT !.op = "saveFlag", !.to = part, !.copy = flag]
  <1>2. /\ r \in Request /\ r.op = "saveFlag" /\ r.who = q.who /\ r.open = q.open
        /\ r.to = part /\ r.on = q.on
    BY DEF Request, Ops
  <1>3. Become(s, r)
    BY <1>q, <1>p
  <1> HIDE DEF r
  <1>4. Shape(r) /\ Fresh(r)' /\ Faithful(r)' /\ About(r)'
    BY <1>1, <1>2 DEF Shape, Fresh, Carries, Faithful, About, Saving, NoteOps, Approving, Guarded
  <1>5. \A t \in Slots \ {s} : Apart(r, req[t])'
    BY <1>2 DEF Apart, Carries, Saving, NoteOps, Approving
  <1>6. req[s].op \in {"handler", "approving"} /\ r.who = req[s].who /\ r.open = req[s].open
    BY <1>q, <1>0, <1>2
  <1> QED
    BY <1>0, <1>2, <1>3, <1>4, <1>5, <1>6, HandlerStep DEF ids, history

\* A request that does its work elsewhere, and one that fails.
LEMMA WorkOrDropStep ==
    ASSUME IInv, NEW s \in Slots, calls' = calls, Work(s) \/ Drop(s)
    PROVE  IInv'
  <1>1. CASE Work(s)
    <2>1. Ends(s) /\ UNCHANGED <<rows, ids, history>> /\ req[s].op = "handler"
      BY <1>1 DEF Work, Handles
    <2> QED BY <2>1, EndsStep DEF history, IInv, TypeOK
  <1>2. CASE Drop(s)
    <2>1. /\ Ends(s) /\ UNCHANGED <<rows, ids, granted, crowded, wish, clobbered, retired>>
          /\ loose' = IF req[s].op = "mark" THEN loose \cup {req[s].on} ELSE loose
      BY <1>2 DEF Drop
    <2>2. req[s].op = "mark" => req[s].on \in Notes
      BY RequestFields DEF IInv, Good, Shape, NoteOps, Approving
    <2>3. loose \subseteq Notes
      BY DEF IInv, TypeOK
    <2> QED BY <2>1, <2>2, <2>3, EndsStep
  <1> QED
    BY <1>1, <1>2

-----------------------------------------------------------------------------
(* The steps that write a row. *)

\* The last step of a request: what the others hold is to be justified.
LEMMA LastStep ==
    ASSUME IInv, NEW s \in Slots, Ends(s), TypeOK',
           loose \subseteq loose', crowded \subseteq crowded',
           \A t \in Slots \ {s} : Good(req[t]) /\ req'[t] = req[t] => Good(req[t])',
           \A n \in Notes : NoteOK(n)', \A u \in Users : UserOK(u)', OneOpen'
    PROVE  IInv'
  <1>0. req' = [req EXCEPT ![s] = Idle] /\ req \in [Slots -> Request]
    BY DEF Ends, Become, IInv, TypeOK
  <1>1. Good(Idle)'
    BY AccountsAssumption DEF Good, Idle, Shape, Door, Fresh, Faithful, About, Carries,
                              Guarded, Saving, NoteOps, Approving
  <1>2. ASSUME NEW t \in Slots PROVE Good(req[t])'
    <2>1. CASE t = s
      <3>1. req'[t] = Idle BY <1>0, <2>1
      <3> QED BY <1>1, <3>1 DEF Good, Shape, Door, Fresh, Carries, Faithful, About
    <2>2. CASE t # s
      <3>1. Good(req[t]) /\ req'[t] = req[t] BY <1>0, <2>2 DEF IInv
      <3> QED BY <2>2, <3>1
    <2> QED BY <2>1, <2>2
  <1>3. ASSUME NEW q \in Slots, NEW t \in Slots, q # t PROVE Apart(req[q], req[t])'
    <2>1. CASE q # s /\ t # s
      <3>1. req'[q] = req[q] /\ req'[t] = req[t] /\ Apart(req[q], req[t])
        BY <1>0, <1>3, <2>1 DEF IInv
      <3> QED BY <3>1 DEF Apart, Carries
    <2>2. CASE q = s \/ t = s
      <3>1. req'[q] = Idle \/ req'[t] = Idle BY <1>0, <2>2
      <3> QED BY <3>1 DEF Idle, Apart, Carries, Saving, NoteOps, Approving
    <2> QED BY <2>1, <2>2
  <1> QED
    BY <1>2, <1>3 DEF IInv

\* A new notification is the only one its account has to be decided on,
\* unless the account's requests overlapped.
LEMMA InsertStep ==
    ASSUME IInv, NEW s \in Slots, calls' = calls, InsertNotification(s)
    PROVE  IInv'
  <1>q. PICK q \in Request : q = req[s]
    BY RequestFields DEF IInv
  <1>0. /\ q.op = "insertNote" /\ q.who \in Users /\ Ends(s) /\ TypeOK /\ Good(q)
        /\ UNCHANGED <<user, blocked, minted, history>>
    BY <1>q DEF InsertNotification, IInv, Good, Shape
  <1>1. CASE UNCHANGED <<note, made>>
    <2>1. loose' \subseteq Notes
      BY <1>0 DEF TypeOK, history
    <2> QED BY <1>q, <1>0, <1>1, <2>1, EndsStep DEF rows, ids, history
  <1>2. ASSUME NEW n \in Notes \ made, user[q.who] # NULL,
               note' = [note EXCEPT ![n] = [user |-> q.who, isApproved |-> FALSE, read |-> FALSE]],
               made' = made \cup {n}
        PROVE  IInv'
    <2> DEFINE new == [user |-> q.who, isApproved |-> FALSE, read |-> FALSE]
    <2>0. new \in Note /\ new # NULL /\ new.user = q.who /\ new.isApproved = FALSE
      <3>1. new \in Note BY <1>0 DEF Note
      <3> QED BY <3>1, RowIsNotNull
    <2> HIDE DEF new
    <2>1. note' = [note EXCEPT ![n] = new] /\ note \in [Notes -> Note \cup {NULL}]
      BY <1>0, <1>2 DEF TypeOK, new
    <2>2. note'[n] = new /\ \A m \in Notes \ {n} : note'[m] = note[m]
      BY <2>1
    <2>3. TypeOK'
      <3>1. req' \in [Slots -> Request]
        BY <1>0, IdleGood DEF Ends, Become, TypeOK
      <3>2. note' \in [Notes -> Note \cup {NULL}]
        BY <2>0, <2>1
      <3> QED BY <1>0, <1>2, <3>1, <3>2 DEF TypeOK, history
    <2>4. ASSUME NEW t \in Slots \ {s}, Good(req[t]), req'[t] = req[t]
          PROVE  Good(req[t])'
      <3>1. Shape(req[t])' /\ Door(req[t])' /\ Fresh(req[t])' /\ Faithful(req[t])'
        BY <1>0, <2>4 DEF Good, Shape, Door, Fresh, Carries, Faithful, history
      <3>2. req[t].op \in NoteOps => req[t].on \in made /\ req[t].on # n
        BY <1>2, <2>4 DEF Good, About
      <3>3. req[t].op \in NoteOps => req[t].on \in Notes
        BY <1>0, <3>2 DEF TypeOK
      <3>4. req[t].op = "insertNote" /\ req[t].who \notin crowded =>
              req[t].who # q.who /\ Undecided(req[t].who)' = Undecided(req[t].who)
        <4>1. Apart(req[t], q)
          BY <1>q, <2>4 DEF IInv
        <4> SUFFICES ASSUME req[t].op = "insertNote", req[t].who \notin crowded
                     PROVE  req[t].who # q.who /\ Undecided(req[t].who)' = Undecided(req[t].who)
          OBVIOUS
        <4>2. req[t].who # q.who
          BY <1>0, <4>1 DEF Apart
        <4>3. note[n] = NULL
          BY <1>2 DEF IInv, NoteOK
        <4> QED BY <2>0, <2>2, <2>4, <4>2, <4>3 DEF Undecided
      <3>5. About(req[t])'
        BY <1>0, <1>2, <2>2, <2>4, <3>2, <3>3, <3>4 DEF Good, About, history, NoteOps, Approving
      <3> QED BY <3>1, <3>5 DEF Good
    <2>5. ASSUME NEW m \in Notes PROVE NoteOK(m)'
      <3>1. NoteOK(m) /\ granted[m] \in Nat
        BY <1>0 DEF IInv, TypeOK
      <3>2. ASSUME NEW t \in Slots, req[t].op = "mark"
            PROVE  req'[t] = req[t]
        BY <1>q, <1>0, <3>2 DEF Ends, Become, TypeOK
      <3>3. CASE m = n
        BY <1>0, <1>2, <2>0, <2>2, <3>1, <3>3 DEF NoteOK, history
      <3>4. CASE m # n
        BY <1>0, <1>2, <2>2, <3>1, <3>2, <3>4 DEF NoteOK, history
      <3> QED BY <3>3, <3>4
    <2>6. ASSUME NEW u \in Users PROVE UserOK(u)'
      BY <1>0 DEF IInv, UserOK, history
    <2>7. OneOpen'
      <3> SUFFICES ASSUME NEW u \in Users, u \notin crowded', NEW k \in Undecided(u)' \ loose',
                          NEW m \in Undecided(u)' \ loose'
                   PROVE  k = m
        BY DEF OneOpen
      <3>1. CASE u = q.who
        <4>1. Undecided(u) \subseteq loose
          BY <1>0, <3>1 DEF Good, About, history
        <4>2. \A j \in Undecided(u)' : j = n \/ j \in Undecided(u)
          BY <1>0, <2>2 DEF Undecided
        <4> QED BY <1>0, <4>1, <4>2 DEF history
      <3>2. CASE u # q.who
        <4>1. \A j \in Undecided(u)' : j \in Undecided(u)
          BY <1>0, <2>0, <2>2, <3>2 DEF Undecided
        <4> QED BY <1>0, <4>1 DEF IInv, OneOpen, history
      <3> QED BY <3>1, <3>2
    <2> QED BY <1>0, <2>3, <2>4, <2>5, <2>6, <2>7, LastStep DEF history
  <1> QED
    BY <1>q, <1>1, <1>2 DEF InsertNotification

\* What the row of an account may hold.
PasswordOK(u) ==
    /\ \A p \in retired[u] : p <= minted
    /\ user[u] # NULL => user[u].password <= minted /\ user[u].password \notin retired[u]

\* A row is written with the password that the request s carries, or with the
\* one it has: the replaced one is dead, and the others' are still new.
LEMMA Stored ==
    ASSUME IInv, NEW s \in Slots, NEW u \in Users, NEW new \in Account,
           user' = [user EXCEPT ![u] = new], minted' = minted,
           Retire(u, req[s].password),
           \/ Carries(req[s]) /\ new.password = req[s].password
           \/ req[s].password = 0 /\ user[u] # NULL /\ new.password = user[u].password
    PROVE  /\ user' \in [Users -> Account \cup {NULL}]
           /\ retired' \in [Users -> SUBSET Passwords]
           /\ \A v \in Users : PasswordOK(v)'
           /\ \A t \in Slots \ {s} : req'[t] = req[t] => Fresh(req[t])'
           /\ user'[u] = new /\ user'[u] # NULL
           /\ \A v \in Users \ {u} : user'[v] = user[v]
  <1>0. /\ user \in [Users -> Account \cup {NULL}] /\ retired \in [Users -> SUBSET Passwords]
        /\ minted \in Nat /\ Passwords \subseteq Nat /\ req[s].password \in Passwords
        /\ new.password \in Passwords
    BY RequestFields DEF IInv, TypeOK, Account, Passwords
  <1>1. /\ user' \in [Users -> Account \cup {NULL}] /\ user'[u] = new /\ user'[u] # NULL
        /\ \A v \in Users \ {u} : user'[v] = user[v]
    BY <1>0, RowIsNotNull
  <1>2. ASSUME NEW v \in Users
        PROVE  /\ PasswordOK(v) /\ retired[v] \subseteq Nat
               /\ user[v] # NULL => user[v].password \in Passwords
    BY <1>0 DEF IInv, UserOK, PasswordOK, Account
  <1>3. CASE Carries(req[s]) /\ new.password = req[s].password
    <2>1. /\ req[s].password <= minted /\ req[s].password # 0
          /\ \A v \in Users : /\ req[s].password \notin retired[v]
                              /\ user[v] # NULL => user[v].password # req[s].password
      BY <1>3 DEF IInv, Good, Fresh, Carries
    <2>2. /\ user[u] = NULL => retired' = retired
          /\ user[u] # NULL => retired' = [retired EXCEPT ![u] = @ \cup {user[u].password}]
      BY <2>1 DEF Retire
    <2>3. retired' \in [Users -> SUBSET Passwords]
      BY <1>0, <1>2, <2>2
    <2>4. ASSUME NEW v \in Users PROVE PasswordOK(v)'
      <3>1. CASE v = u
        BY <1>0, <1>1, <1>2, <1>3, <2>1, <2>2, <3>1 DEF PasswordOK
      <3>2. CASE v # u
        BY <1>0, <1>1, <1>2, <2>2, <3>2 DEF PasswordOK
      <3> QED BY <3>1, <3>2
    <2>5. ASSUME NEW t \in Slots \ {s}, req'[t] = req[t], Carries(req[t]), NEW v \in Users
          PROVE  /\ req[t].password <= minted /\ req[t].password \notin retired'[v]
                 /\ user'[v] # NULL => user'[v].password # req[t].password
      <3>1. /\ req[t].password <= minted /\ req[t].password \notin retired[v]
            /\ user[v] # NULL => user[v].password # req[t].password
        BY <2>5 DEF IInv, Good, Fresh
      <3>2. req[t].password # req[s].password
        BY <1>3, <2>5 DEF IInv, Apart
      <3>3. CASE v = u
        BY <1>0, <1>1, <1>3, <2>2, <3>1, <3>2, <3>3
      <3>4. CASE v # u
        BY <1>0, <1>1, <2>2, <3>1, <3>4
      <3> QED BY <3>3, <3>4
    <2> QED BY <1>1, <2>3, <2>4, <2>5 DEF Fresh, Carries
  <1>4. CASE req[s].password = 0 /\ user[u] # NULL /\ new.password = user[u].password
    <2>1. retired' = retired
      BY <1>4 DEF Retire
    <2>2. ASSUME NEW v \in Users PROVE PasswordOK(v)'
      BY <1>1, <1>2, <1>4, <2>1 DEF PasswordOK
    <2>3. ASSUME NEW t \in Slots \ {s}, req'[t] = req[t] PROVE Fresh(req[t])'
      <3>1. Fresh(req[t])
        BY DEF IInv, Good
      <3> QED BY <1>1, <1>4, <2>1, <2>3, <3>1 DEF Fresh, Carries
    <2> QED BY <1>0, <1>1, <2>1, <2>2, <2>3
  <1> QED
    BY <1>3, <1>4

\* changePassword saves the hash: an account that is gone stays gone.
LEMMA SavePasswordStep ==
    ASSUME IInv, NEW s \in Slots, calls' = calls, SavePassword(s)
    PROVE  IInv'
  <1>q. PICK q \in Request : q = req[s]
    BY RequestFields DEF IInv
  <1>0. /\ q.op = "savePassword" /\ q.who \in Users /\ q.password # 0 /\ Ends(s) /\ TypeOK
        /\ UNCHANGED <<note, blocked, ids, granted, loose, crowded, wish, clobbered>>
        /\ Retire(q.who, q.password) /\ q.password \in Passwords
    BY <1>q DEF SavePassword, IInv, Good, Shape, Request
  <1>1. CASE user[q.who] = NULL /\ user' = user
    <2>1. retired' = retired /\ loose' \subseteq Notes
      BY <1>0, <1>1 DEF Retire, TypeOK
    <2> QED BY <1>q, <1>0, <1>1, <2>1, EndsStep DEF rows
  <1>2. CASE user[q.who] # NULL /\ user' = [user EXCEPT ![q.who].password = q.password]
    <2>1. user[q.who] \in Account /\ user \in [Users -> Account \cup {NULL}]
      BY <1>0, <1>2 DEF TypeOK
    <2>n. PICK new \in Account : new = [user[q.who] EXCEPT !.password = q.password]
      BY <1>0, <2>1 DEF Account
    <2>2. /\ user' = [user EXCEPT ![q.who] = new] /\ new.password = q.password
          /\ new.permission = user[q.who].permission
      BY <1>2, <2>1, <2>n DEF Account
    <2>3. /\ user' \in [Users -> Account \cup {NULL}]
          /\ retired' \in [Users -> SUBSET Passwords]
          /\ \A v \in Users : PasswordOK(v)'
          /\ \A t \in Slots \ {s} : req'[t] = req[t] => Fresh(req[t])'
          /\ user'[q.who] = new
          /\ user'[q.who] # NULL
          /\ \A v \in Users \ {q.who} : user'[v] = user[v]
      <3>1. minted' = minted /\ Carries(req[s]) /\ Retire(q.who, req[s].password)
        BY <1>q, <1>0 DEF ids, Carries
      <3> HIDE DEF Carries
      <3> QED BY <1>q, <1>0, <2>2, <3>1, Stored
    <2>4. TypeOK'
      <3>1. req' \in [Slots -> Request]
        BY <1>0, IdleGood DEF Ends, Become, TypeOK
      <3> QED BY <1>0, <2>3, <3>1 DEF TypeOK, ids
    <2>5. ASSUME NEW t \in Slots \ {s}, Good(req[t]), req'[t] = req[t]
          PROVE  Good(req[t])'
      BY <1>0, <2>3, <2>5 DEF Good, Shape, Door, Faithful, About, Undecided, ids
    <2>6. ASSUME NEW m \in Notes PROVE NoteOK(m)'
      <3>1. NoteOK(m) /\ (note[m] # NULL => note[m].user \in Users)
        BY <1>0 DEF IInv, TypeOK, Note
      <3>2. ASSUME NEW t \in Slots, req[t].op = "mark"
            PROVE  req'[t] = req[t]
        BY <1>q, <1>0, <3>2 DEF Ends, Become, TypeOK
      <3> QED BY <1>0, <2>3, <3>1, <3>2 DEF NoteOK, ids
    <2>7. ASSUME NEW v \in Users PROVE UserOK(v)'
      <3>1. UserOK(v) /\ PasswordOK(v)'
        BY <2>3 DEF IInv
      <3> QED BY <1>0, <1>2, <2>2, <2>3, <3>1 DEF UserOK, PasswordOK
    <2>8. OneOpen'
      BY <1>0 DEF IInv, OneOpen, Undecided
    <2> QED BY <1>0, <2>4, <2>5, <2>6, <2>7, <2>8, LastStep
  <1> QED
    BY <1>q, <1>1, <1>2 DEF SavePassword

\* The row that save() writes has a password: the new one, or the row's own.
LEMMA SavedRow ==
    ASSUME IInv, NEW s \in Slots, req[s].op \in Saving \cup {"grant"},
           Savable(req[s]), SaveAccount(req[s])
    PROVE  /\ req[s].to \in Users
           /\ \E new \in Account :
                /\ user' = [user EXCEPT ![req[s].to] = new] /\ Retire(req[s].to, req[s].password)
                /\ new.permission = req[s].copy
                /\ \/ Carries(req[s]) /\ new.password = req[s].password
                   \/ req[s].password = 0 /\ user[req[s].to] # NULL
                      /\ new.password = user[req[s].to].password
  <1> DEFINE r == req[s]
  <1>0. r.to \in Users /\ r.copy \in BOOLEAN /\ r.password \in Passwords
    BY RequestFields DEF IInv, Good, Shape, Saving, NoteOps, Approving
  <1>1. user[r.to] # NULL => user[r.to].password \in Passwords
    BY <1>0 DEF IInv, TypeOK, Account
  <1>2. /\ user' = [user EXCEPT ![r.to] = Saved(r)] /\ Retire(r.to, r.password)
        /\ Saved(r).permission = r.copy
        /\ r.password # 0 => Saved(r).password = r.password
        /\ r.password = 0 => Saved(r).password = user[r.to].password
    BY DEF SaveAccount, Saved
  <1>3. user[r.to] # NULL \/ r.password # 0
    BY DEF Savable
  <1>4. Saved(r) \in Account
    BY <1>0, <1>1, <1>3 DEF Saved, Account
  <1>5. r.password # 0 => Carries(r)
    BY DEF Carries
  <1> QED
    BY <1>0, <1>2, <1>3, <1>4, <1>5

\* A whole row written from a copy: what it makes of the accounts.
LEMMA WholeRow ==
    ASSUME IInv, NEW s \in Slots, req[s].op \in {"saveUser", "grant"},
           Savable(req[s]), SaveAccount(req[s]), Clobber(req[s]),
           wish' = wish, minted' = minted
    PROVE  /\ user' \in [Users -> Account \cup {NULL}]
           /\ retired' \in [Users -> SUBSET Passwords]
           /\ clobbered \subseteq clobbered' /\ clobbered' \subseteq Users
           /\ \A v \in Users : UserOK(v)' /\ (user[v] # NULL => user'[v] # NULL)
           /\ \A t \in Slots \ {s} : req'[t] = req[t] => Fresh(req[t])'
  <1>p. PICK new \in Account :
          /\ user' = [user EXCEPT ![req[s].to] = new] /\ Retire(req[s].to, req[s].password)
          /\ new.permission = req[s].copy
          /\ \/ Carries(req[s]) /\ new.password = req[s].password
             \/ req[s].password = 0 /\ user[req[s].to] # NULL
                /\ new.password = user[req[s].to].password
    BY SavedRow DEF Saving
  <1>0. req[s].to \in Users /\ Faithful(req[s])
    BY SavedRow DEF Saving, IInv, Good
  <1>u. PICK u \in Users : u = req[s].to
    BY <1>0
  <1>1. /\ user' \in [Users -> Account \cup {NULL}]
        /\ retired' \in [Users -> SUBSET Passwords]
        /\ \A v \in Users : PasswordOK(v)'
        /\ \A t \in Slots \ {s} : req'[t] = req[t] => Fresh(req[t])'
        /\ user'[u] = new /\ user'[u] # NULL
        /\ \A v \in Users \ {u} : user'[v] = user[v]
    <2> HIDE DEF Carries
    <2> QED BY <1>p, <1>u, Stored
  <1>2. clobbered \subseteq clobbered' /\ clobbered' \subseteq Users /\ (req[s].late => u \in clobbered')
    BY <1>0, <1>u DEF Clobber, IInv, TypeOK
  <1>3. ASSUME NEW v \in Users PROVE UserOK(v)'
    <2>1. UserOK(v) /\ PasswordOK(v)'
      BY <1>1 DEF IInv
    <2>2. CASE v = u
      <3>1. user'[u].permission = wish[u] \/ u \in clobbered'
        BY <1>p, <1>0, <1>u, <1>1, <1>2 DEF Faithful
      <3> QED BY <2>1, <2>2, <3>1 DEF UserOK, PasswordOK
    <2>3. CASE v # u
      BY <1>1, <1>2, <2>1, <2>3 DEF UserOK, PasswordOK
    <2> QED BY <2>2, <2>3
  <1> QED
    BY <1>1, <1>2, <1>3

\* Accounts appear and notifications stay: what the notifications promise.
LEMMA NotesStay ==
    ASSUME IInv, \A v \in Users : user[v] # NULL => user'[v] # NULL,
           UNCHANGED <<note, made, granted, loose>>,
           \A t \in Slots : req[t].op = "mark" => req'[t].op = "mark" /\ req'[t].on = req[t].on
    PROVE  \A n \in Notes : NoteOK(n)'
  <1> SUFFICES ASSUME NEW n \in Notes PROVE NoteOK(n)'
    OBVIOUS
  <1>1. NoteOK(n) /\ (note[n] # NULL => note[n].user \in Users)
    BY DEF IInv, TypeOK, Note
  <1> QED
    BY <1>1 DEF NoteOK

\* adminChangePassword and updateScope save the whole account.
LEMMA SaveUserStep ==
    ASSUME IInv, NEW s \in Slots, calls' = calls, SaveUser(s)
    PROVE  IInv'
  <1>0. /\ req[s].op = "saveUser" /\ Ends(s) /\ TypeOK
        /\ UNCHANGED <<note, blocked, ids, granted, loose, crowded, wish>>
    BY DEF SaveUser, IInv
  <1>1. CASE UNCHANGED <<user, retired, clobbered>>
    <2>1. loose' \subseteq Notes
      BY <1>0 DEF TypeOK
    <2> QED BY <1>0, <1>1, <2>1, EndsStep DEF rows
  <1>2. CASE Savable(req[s]) /\ SaveAccount(req[s]) /\ Clobber(req[s])
    <2>1. /\ user' \in [Users -> Account \cup {NULL}]
          /\ retired' \in [Users -> SUBSET Passwords]
          /\ clobbered \subseteq clobbered' /\ clobbered' \subseteq Users
          /\ \A v \in Users : UserOK(v)' /\ (user[v] # NULL => user'[v] # NULL)
          /\ \A t \in Slots \ {s} : req'[t] = req[t] => Fresh(req[t])'
      BY <1>0, <1>2, WholeRow DEF ids
    <2>2. TypeOK'
      <3>1. req' \in [Slots -> Request]
        BY <1>0, IdleGood DEF Ends, Become, TypeOK
      <3> QED BY <1>0, <2>1, <3>1 DEF TypeOK, ids
    <2>3. ASSUME NEW t \in Slots \ {s}, Good(req[t]), req'[t] = req[t]
          PROVE  Good(req[t])'
      BY <1>0, <2>1, <2>3 DEF Good, Shape, Door, Faithful, About, Undecided, ids
    <2>4. \A n \in Notes : NoteOK(n)'
      <3>1. ASSUME NEW t \in Slots, req[t].op = "mark" PROVE req'[t] = req[t]
        BY <1>0, <3>1 DEF Ends, Become, TypeOK
      <3> QED BY <1>0, <2>1, <3>1, NotesStay DEF ids
    <2>5. OneOpen'
      BY <1>0 DEF IInv, OneOpen, Undecided
    <2> QED BY <1>0, <2>1, <2>2, <2>3, <2>4, <2>5, LastStep
  <1> QED
    BY <1>1, <1>2 DEF SaveUser

\* updatePermissions stores the permissions; whoever has loaded the account
\* before is late from now on.
LEMMA SavePermissionStep ==
    ASSUME IInv, NEW s \in Slots, calls' = calls, SavePermission(s)
    PROVE  IInv'
  <1>0. /\ req[s].op = "savePermission" /\ TypeOK /\ Shape(req[s]) /\ req[s].copy \in BOOLEAN
        /\ req[s].to \in Users /\ req[s].password = 0
        /\ UNCHANGED <<note, blocked, ids, granted, loose, crowded>>
    BY RequestFields DEF SavePermission, IInv, Good, Shape, Saving
  <1>1. CASE Ends(s) /\ UNCHANGED <<user, retired, wish, clobbered>>
    <2>1. loose' \subseteq Notes
      BY <1>0 DEF TypeOK
    <2> QED BY <1>0, <1>1, <2>1, EndsStep DEF rows
  <1>2. CASE /\ Savable(req[s]) /\ SaveAccount(req[s])
             /\ wish' = [wish EXCEPT ![req[s].to] = req[s].copy]
             /\ clobbered' = clobbered \ {req[s].to}
             /\ req' = [t \in Slots |->
                          IF t = s THEN Idle
                          ELSE IF req[t].to = req[s].to THEN [req[t] EXCEPT !.late = TRUE]
                          ELSE req[t]]
    <2>p. PICK new \in Account :
            /\ user' = [user EXCEPT ![req[s].to] = new] /\ Retire(req[s].to, req[s].password)
            /\ new.permission = req[s].copy
            /\ \/ Carries(req[s]) /\ new.password = req[s].password
               \/ req[s].password = 0 /\ user[req[s].to] # NULL
                  /\ new.password = user[req[s].to].password
      BY <1>0, <1>2, SavedRow DEF Saving
    <2>u. PICK u \in Users : u = req[s].to
      BY <1>0
    <2>0. /\ new.password = user[u].password /\ user[u] # NULL /\ retired' = retired
          /\ user \in [Users -> Account \cup {NULL}] /\ wish \in [Users -> BOOLEAN]
      BY <1>0, <2>p, <2>u DEF Carries, Retire, TypeOK
    <2>1. /\ user' \in [Users -> Account \cup {NULL}] /\ user'[u] = new /\ user'[u] # NULL
          /\ wish'[u] = new.permission /\ wish' \in [Users -> BOOLEAN]
          /\ \A v \in Users \ {u} : user'[v] = user[v] /\ wish'[v] = wish[v]
      BY <1>0, <1>2, <2>p, <2>u, <2>0, RowIsNotNull
    <2>2. ASSUME NEW t \in Slots
          PROVE  /\ req'[t] \in Request
                 /\ \/ t = s /\ req'[t] = Idle
                    \/ /\ t # s /\ req'[t].op = req[t].op /\ req'[t].who = req[t].who
                       /\ req'[t].ep = req[t].ep /\ req'[t].to = req[t].to
                       /\ req'[t].on = req[t].on /\ req'[t].password = req[t].password
                       /\ req'[t].copy = req[t].copy /\ req'[t].open = req[t].open
                       /\ ~ req'[t].late => ~ req[t].late /\ req[t].to # u
      BY <1>0, <1>2, <2>u, IdleGood DEF TypeOK, Request
    <2>3. TypeOK'
      <3>1. req' \in [Slots -> Request]
        BY <1>2, <2>2
      <3>2. clobbered' \subseteq Users
        BY <1>0, <1>2 DEF TypeOK
      <3> QED BY <1>0, <2>0, <2>1, <3>1, <3>2 DEF TypeOK, ids
    <2>4. ASSUME NEW t \in Slots PROVE Good(req[t])'
      <3>1. CASE t = s /\ req'[t] = Idle
        BY <3>1, AccountsAssumption DEF Good, Idle, Shape, Door, Fresh, Faithful, About, Carries,
                                        Guarded, Saving, NoteOps, Approving
      <3>2. CASE t # s
        <4>1. Good(req[t]) /\ req[t] \in Request
          BY <1>0 DEF IInv, TypeOK
        <4>2. Shape(req[t])' /\ Door(req[t])' /\ About(req[t])'
          BY <1>0, <2>2, <3>2, <4>1 DEF Good, Shape, Door, About, Undecided, ids
        <4>3. Fresh(req[t])'
          BY <1>0, <2>0, <2>1, <2>2, <3>2, <4>1 DEF Good, Fresh, Carries, ids
        <4>4. Faithful(req[t])'
          <5> SUFFICES ASSUME req'[t].op \in {"saveUser", "grant"}, ~ req'[t].late
                       PROVE  req'[t].copy = wish'[req'[t].to] \/ req'[t].to \in clobbered'
            BY DEF Faithful
          <5>1. req[t].to \in Users /\ req[t].to # u
            BY <2>2, <3>2, <4>1 DEF Good, Shape, Saving, NoteOps, Approving
          <5> QED BY <1>2, <2>u, <2>1, <2>2, <3>2, <4>1, <5>1 DEF Good, Faithful
        <4> QED BY <4>2, <4>3, <4>4 DEF Good
      <3> QED BY <2>2, <3>1, <3>2
    <2>5. ASSUME NEW q \in Slots, NEW t \in Slots, q # t PROVE Apart(req[q], req[t])'
      <3>1. CASE q # s /\ t # s
        <4>1. Apart(req[q], req[t])
          BY <2>5 DEF IInv
        <4> QED BY <1>0, <2>2, <3>1, <4>1 DEF Apart, Carries
      <3>2. CASE q = s \/ t = s
        <4>1. req'[q] = Idle \/ req'[t] = Idle
          BY <2>2, <3>2
        <4> QED BY <4>1 DEF Idle, Apart, Carries, Saving, NoteOps, Approving
      <3> QED BY <3>1, <3>2
    <2>6. \A n \in Notes : NoteOK(n)'
      <3>1. ASSUME NEW t \in Slots, req[t].op = "mark"
            PROVE  req'[t].op = "mark" /\ req'[t].on = req[t].on
        BY <1>0, <2>2, <3>1
      <3>2. \A v \in Users : user[v] # NULL => user'[v] # NULL
        BY <2>1
      <3> QED BY <1>0, <3>1, <3>2, NotesStay DEF ids
    <2>7. ASSUME NEW v \in Users PROVE UserOK(v)'
      <3>1. UserOK(v)
        BY DEF IInv
      <3>2. CASE v = u
        BY <1>0, <2>0, <2>1, <3>1, <3>2 DEF UserOK, ids
      <3>3. CASE v # u
        BY <1>0, <1>2, <2>u, <2>0, <2>1, <3>1, <3>3 DEF UserOK, ids
      <3> QED BY <3>2, <3>3
    <2>8. OneOpen'
      BY <1>0 DEF IInv, OneOpen, Undecided
    <2> QED BY <2>3, <2>4, <2>5, <2>6, <2>7, <2>8 DEF IInv
  <1> QED
    BY <1>1, <1>2 DEF SavePermission

\* An account goes, and its notifications with it.
LEMMA RemoveUserStep ==
    ASSUME IInv, NEW s \in Slots, calls' = calls, RemoveUser(s)
    PROVE  IInv'
  <1>u. PICK u \in Users :
          /\ user' = [user EXCEPT ![u] = NULL]
          /\ note' = [n \in Notes |-> IF note[n] # NULL /\ note[n].user = u
                                      THEN NULL ELSE note[n]]
    BY DEF RemoveUser
  <1>0. Ends(s) /\ UNCHANGED <<blocked, ids, history>> /\ TypeOK /\ req[s].op = "handler"
    BY DEF RemoveUser, IInv, Handles
  <1>1. /\ user \in [Users -> Account \cup {NULL}] /\ note \in [Notes -> Note \cup {NULL}]
        /\ user'[u] = NULL /\ \A v \in Users \ {u} : user'[v] = user[v]
        /\ \A n \in Notes : \/ note'[n] = NULL
                            \/ note'[n] = note[n] /\ (note[n] # NULL => note[n].user # u)
    BY <1>u, <1>0 DEF TypeOK
  <1>2. TypeOK'
    <2>1. req' \in [Slots -> Request]
      BY <1>0, IdleGood DEF Ends, Become, TypeOK
    <2>2. user' \in [Users -> Account \cup {NULL}] /\ note' \in [Notes -> Note \cup {NULL}]
      BY <1>u, <1>1
    <2> QED BY <1>0, <2>1, <2>2 DEF TypeOK, ids, history
  <1>3. ASSUME NEW v \in Users PROVE Undecided(v)' \subseteq Undecided(v)
    BY <1>1 DEF Undecided
  <1>4. ASSUME NEW t \in Slots \ {s}, Good(req[t]), req'[t] = req[t]
        PROVE  Good(req[t])'
    <2>1. Shape(req[t])' /\ Door(req[t])' /\ Faithful(req[t])'
      BY <1>0, <1>4 DEF Good, Shape, Door, Faithful, history
    <2>2. Fresh(req[t])'
      BY <1>0, <1>1, <1>4 DEF Good, Fresh, Carries, ids, history
    <2>3. /\ req[t].op \in NoteOps => req[t].on \in Notes
          /\ req[t].op = "insertNote" => Undecided(req[t].who)' \subseteq Undecided(req[t].who)
      BY <1>0, <1>3, <1>4 DEF Good, Shape, About, TypeOK
    <2>4. About(req[t])'
      BY <1>0, <1>1, <1>4, <2>3 DEF Good, About, NoteOps, Approving, ids, history
    <2> QED BY <2>1, <2>2, <2>4 DEF Good
  <1>5. ASSUME NEW n \in Notes PROVE NoteOK(n)'
    <2>1. NoteOK(n) /\ (note[n] # NULL => note[n].user \in Users)
      BY <1>1 DEF IInv, Note
    <2>2. ASSUME NEW t \in Slots, req[t].op = "mark" PROVE req'[t] = req[t]
      BY <1>0, <2>2 DEF Ends, Become, TypeOK
    <2> QED BY <1>0, <1>1, <2>1, <2>2 DEF NoteOK, ids, history
  <1>6. ASSUME NEW v \in Users PROVE UserOK(v)'
    BY <1>0, <1>1 DEF IInv, UserOK, ids, history
  <1>7. OneOpen'
    <2> SUFFICES ASSUME NEW v \in Users, v \notin crowded', NEW k \in Undecided(v)' \ loose',
                        NEW m \in Undecided(v)' \ loose'
                 PROVE  k = m
      BY DEF OneOpen
    <2> QED BY <1>0, <1>3 DEF IInv, OneOpen, history
  <1> QED
    BY <1>0, <1>2, <1>4, <1>5, <1>6, <1>7, LastStep DEF history

\* The approval stores the password and goes on to the mark.
LEMMA GrantStep ==
    ASSUME IInv, NEW s \in Slots, calls' = calls, Grant(s)
    PROVE  IInv'
  <1>q. PICK q \in Request : q = req[s]
    BY RequestFields DEF IInv
  <1> DEFINE r == [q EXCEPT !.op = "mark"]
  <1>0. /\ q.op = "grant" /\ SaveAccount(q) /\ Clobber(q) /\ Become(s, r) /\ TypeOK /\ Good(q)
        /\ granted' = [granted EXCEPT ![q.on] = @ + 1]
        /\ UNCHANGED <<note, blocked, ids, loose, crowded, wish>>
    BY <1>q DEF Grant, IInv
  <1>1. /\ r \in Request /\ r.op = "mark" /\ r.who = q.who /\ r.ep = q.ep /\ r.to = q.to /\ r.on = q.on
        /\ r.open = q.open /\ r.password = q.password
    BY DEF Request, Ops
  <1>2. req \in [Slots -> Request] /\ req' = [req EXCEPT ![s] = r] /\ granted \in [Notes -> Nat]
    BY <1>0 DEF Become, TypeOK
  <1> HIDE DEF r
  <1>3. /\ req' \in [Slots -> Request] /\ req'[s] = r /\ \A t \in Slots \ {s} : req'[t] = req[t]
    BY <1>1, <1>2
  <1>4. q.on \in Notes /\ q.password # 0 /\ q.to \in Users
    BY <1>0, <1>q, RequestFields DEF Good, Shape, NoteOps, Approving
  <1>n. PICK n \in Notes : n = q.on
    BY <1>4
  <1>5. /\ granted' \in [Notes -> Nat] /\ granted'[n] = granted[n] + 1
        /\ \A m \in Notes \ {n} : granted'[m] = granted[m]
    BY <1>0, <1>2, <1>n
  <1>6. /\ user' \in [Users -> Account \cup {NULL}]
        /\ retired' \in [Users -> SUBSET Passwords]
        /\ clobbered \subseteq clobbered' /\ clobbered' \subseteq Users
        /\ \A v \in Users : UserOK(v)' /\ (user[v] # NULL => user'[v] # NULL)
        /\ \A t \in Slots \ {s} : req'[t] = req[t] => Fresh(req[t])'
    BY <1>q, <1>0, <1>4, WholeRow DEF Savable, ids
  <1>7. TypeOK'
    BY <1>0, <1>3, <1>5, <1>6 DEF TypeOK, ids
  <1>8. ASSUME NEW t \in Slots PROVE Good(req[t])'
    <2>1. CASE t = s
      <3>1. Shape(r)
        BY <1>0, <1>1 DEF Good, Shape, Saving, NoteOps, Approving, Guarded
      <3>2. Door(r)'
        BY <1>0, <1>1 DEF Good, Door, Guarded
      <3>3. Fresh(r)' /\ Faithful(r)'
        BY <1>1 DEF Fresh, Carries, Faithful, Saving
      <3>4. About(r)'
        <4>1. q.on \in made /\ (note[q.on] # NULL => note[q.on].user = q.to)
          BY <1>0 DEF Good, About, NoteOps, Approving
        <4>2. granted'[q.on] >= 1
          BY <1>2, <1>5, <1>n
        <4> QED BY <1>0, <1>1, <4>1, <4>2 DEF About, ids
      <3> QED BY <1>3, <2>1, <3>1, <3>2, <3>3, <3>4 DEF Good, Shape, Door, Fresh, Carries, Faithful, About
    <2>2. CASE t # s
      <3>1. Good(req[t]) /\ req'[t] = req[t] /\ Apart(req[t], q)
        BY <1>q, <1>3, <2>2 DEF IInv
      <3>2. Shape(req[t])' /\ Door(req[t])' /\ Faithful(req[t])' /\ Fresh(req[t])'
        BY <1>0, <1>6, <2>2, <3>1 DEF Good, Shape, Door, Faithful
      <3>3. req[t].op \in NoteOps => req[t].on \in Notes /\ granted[req[t].on] \in Nat
        BY <1>0, <1>2, <3>1 DEF Good, About, TypeOK
      <3>4. req[t].op \in {"approving", "grant"} /\ req[t].on = n => n \in loose
        BY <1>0, <1>n, <3>1 DEF Apart, Approving
      <3>5. About(req[t])'
        <4>1. \A m \in Notes : granted[m] \in Nat
          BY <1>2
        <4> QED BY <1>0, <1>5, <3>1, <3>3, <3>4, <4>1 DEF Good, About, Undecided, NoteOps, Approving, ids
      <3> QED BY <3>2, <3>5 DEF Good
    <2> QED BY <2>1, <2>2
  <1>9. ASSUME NEW t \in Slots, NEW k \in Slots, t # k PROVE Apart(req[t], req[k])'
    <2>1. Apart(req[t], req[k])
      BY <1>9 DEF IInv
    <2>2. CASE t # s /\ k # s
      BY <1>0, <1>3, <2>1, <2>2 DEF Apart, Carries
    <2>3. CASE t = s
      BY <1>q, <1>0, <1>1, <1>3, <1>9, <2>1, <2>3 DEF Apart, Carries, Saving, NoteOps, Approving
    <2>4. CASE k = s
      BY <1>q, <1>0, <1>1, <1>3, <1>9, <2>1, <2>4 DEF Apart, Carries, Saving, NoteOps, Approving
    <2> QED BY <2>2, <2>3, <2>4
  <1>10. ASSUME NEW m \in Notes PROVE NoteOK(m)'
    <2>1. NoteOK(m) /\ (note[m] # NULL => note[m].user \in Users) /\ granted[m] \in Nat
      BY <1>0, <1>2 DEF IInv, TypeOK, Note
    <2>2. CASE m = n
      <3>1. m \in made /\ (m \notin loose => granted[m] = 0)
        BY <1>0, <1>n, <2>2 DEF Good, About, NoteOps, Approving
      <3>2. \E t \in Slots : req'[t].op = "mark" /\ req'[t].on = m
        BY <1>1, <1>3, <1>n, <2>2
      <3> QED BY <1>0, <1>5, <1>6, <2>1, <2>2, <3>1, <3>2 DEF NoteOK, ids
    <2>3. CASE m # n
      <3>1. ASSUME NEW t \in Slots, req[t].op = "mark" PROVE req'[t] = req[t]
        BY <1>q, <1>0, <1>3, <3>1
      <3> QED BY <1>0, <1>5, <1>6, <2>1, <2>3, <3>1 DEF NoteOK, ids
    <2> QED BY <2>2, <2>3
  <1>11. OneOpen'
    BY <1>0 DEF IInv, OneOpen, Undecided
  <1> QED
    BY <1>6, <1>7, <1>8, <1>9, <1>10, <1>11 DEF IInv

\* A notification is written from a copy: approved only after a password was
\* set, and not approved only over one that was not, or it is loose.
LEMMA NoteStored ==
    ASSUME IInv, NEW s \in Slots, calls' = calls, NEW approved \in BOOLEAN,
           req[s].op \in {"mark", "saveNote"}, req[s].op = "mark" => approved,
           StoreNote(req[s], approved), Ends(s),
           approved => granted[req[s].on] >= 1,
           ~ approved /\ (note[req[s].on] = NULL \/ note[req[s].on].isApproved) =>
             req[s].on \in loose',
           loose \subseteq loose', loose' \subseteq Notes,
           UNCHANGED <<user, blocked, ids, granted, crowded, wish, clobbered, retired>>
    PROVE  IInv'
  <1>0. /\ TypeOK /\ req[s].on \in Notes /\ req[s].to \in Users /\ Good(req[s])
    BY RequestFields DEF IInv, Good, Shape, NoteOps, Approving
  <1>n. PICK n \in Notes, u \in Users : n = req[s].on /\ u = req[s].to
    BY <1>0
  <1>1. /\ n \in made /\ (note[n] # NULL => note[n].user = u /\ user[u] # NULL)
        /\ note \in [Notes -> Note \cup {NULL}]
    BY <1>0, <1>n DEF Good, About, NoteOps, Approving, IInv, NoteOK, TypeOK
  <1> DEFINE new == [user |-> u, isApproved |-> approved, read |-> TRUE]
  <1>2. new \in Note /\ new # NULL /\ new.user = u /\ new.isApproved = approved
    <2>1. new \in Note BY DEF Note
    <2> QED BY <2>1, RowIsNotNull
  <1> HIDE DEF new
  <1>3. /\ \A m \in Notes \ {n} : note'[m] = note[m]
        /\ \/ user[u] = NULL /\ note'[n] = NULL /\ note[n] = NULL
           \/ user[u] # NULL /\ note'[n] = new
        /\ note' \in [Notes -> Note \cup {NULL}]
    BY <1>1, <1>2, <1>n DEF StoreNote, new
  <1>4. TypeOK'
    <2>1. req' \in [Slots -> Request]
      BY <1>0, IdleGood DEF Ends, Become, TypeOK
    <2> QED BY <1>0, <1>3, <2>1 DEF TypeOK, ids
  <1>5. ASSUME NEW v \in Users PROVE Undecided(v)' \ loose' \subseteq Undecided(v) \ loose
    <2> SUFFICES ASSUME NEW m \in Undecided(v)', m \notin loose' PROVE m \in Undecided(v)
      OBVIOUS
    <2>1. m \in Notes /\ note'[m] # NULL /\ note'[m].user = v /\ ~ note'[m].isApproved
      BY DEF Undecided
    <2>2. CASE m = n
      <3>1. ~ approved /\ v = u /\ note[n] # NULL /\ ~ note[n].isApproved
        BY <1>n, <1>2, <1>3, <2>1, <2>2
      <3> QED BY <1>1, <2>2, <3>1 DEF Undecided
    <2>3. CASE m # n
      BY <1>3, <2>1, <2>3 DEF Undecided
    <2> QED BY <2>2, <2>3
  <1>6. ASSUME NEW t \in Slots \ {s}, Good(req[t]), req'[t] = req[t]
        PROVE  Good(req[t])'
    <2>1. Shape(req[t])' /\ Door(req[t])' /\ Faithful(req[t])' /\ Fresh(req[t])'
      BY <1>6 DEF Good, Shape, Door, Faithful, Fresh, Carries, ids
    <2>2. Apart(req[t], req[s])
      BY DEF IInv
    <2>3. req[t].op \in NoteOps => /\ req[t].on \in made /\ req[t].on \in Notes
                                   /\ note'[req[t].on] # NULL => note'[req[t].on].user = req[t].to
      BY <1>0, <1>n, <1>2, <1>3, <1>6, <2>2 DEF Good, About, Apart, NoteOps, Approving, TypeOK
    <2>4. req[t].op = "insertNote" /\ req[t].who \notin crowded => Undecided(req[t].who)' \subseteq loose'
      <3>1. req[t].op = "insertNote" => req[t].who \in Users
        BY <1>6 DEF Good, Shape
      <3> QED BY <1>5, <1>6, <3>1 DEF Good, About
    <2>5. About(req[t])'
      BY <1>6, <2>3, <2>4 DEF Good, About, NoteOps, Approving, ids
    <2> QED BY <2>1, <2>5 DEF Good
  <1>7. ASSUME NEW m \in Notes PROVE NoteOK(m)'
    <2>1. NoteOK(m)
      BY DEF IInv
    <2>2. ASSUME NEW t \in Slots, req[t].op = "mark", req[t].on = m, m # n \/ ~ approved
          PROVE  req'[t] = req[t]
      BY <1>0, <1>n, <2>2 DEF Ends, Become, TypeOK
    <2>3. CASE m = n
      BY <1>n, <1>1, <1>2, <1>3, <2>1, <2>2, <2>3 DEF NoteOK, ids
    <2>4. CASE m # n
      BY <1>3, <2>1, <2>2, <2>4 DEF NoteOK, ids
    <2> QED BY <2>3, <2>4
  <1>8. ASSUME NEW v \in Users PROVE UserOK(v)'
    BY DEF IInv, UserOK, ids
  <1>9. OneOpen'
    <2> SUFFICES ASSUME NEW v \in Users, v \notin crowded', NEW k \in Undecided(v)' \ loose',
                        NEW m \in Undecided(v)' \ loose'
                 PROVE  k = m
      BY DEF OneOpen
    <2> QED BY <1>5 DEF IInv, OneOpen
  <1> QED
    BY <1>4, <1>6, <1>7, <1>8, <1>9, LastStep

\* The approval marks the notification, or markRead saves the row it loaded.
LEMMA NoteStep ==
    ASSUME IInv, NEW s \in Slots, calls' = calls, Mark(s) \/ SaveNote(s)
    PROVE  IInv'
  <1>0. Good(req[s]) /\ loose \subseteq Notes /\ req[s].copy \in BOOLEAN
    BY RequestFields DEF IInv, TypeOK
  <1>1. CASE Mark(s)
    BY <1>0, <1>1, NoteStored DEF Mark, Good, About, history
  <1>2. CASE SaveNote(s)
    <2>1. /\ req[s].op = "saveNote" /\ StoreNote(req[s], req[s].copy) /\ Ends(s)
          /\ loose' = IF ~ req[s].copy /\ (note[req[s].on] = NULL \/ note[req[s].on].isApproved)
                      THEN loose \cup {req[s].on} ELSE loose
          /\ UNCHANGED <<user, blocked, ids, granted, crowded, wish, clobbered, retired>>
      BY <1>2 DEF SaveNote
    <2>2. req[s].on \in Notes
      BY <1>0, <2>1, RequestFields DEF IInv, Good, Shape, NoteOps, Approving
    <2>3. req[s].copy => granted[req[s].on] >= 1
      BY <1>0, <2>1 DEF Good, About
    <2>c. PICK c \in BOOLEAN : c = req[s].copy
      BY <1>0
    <2> QED BY <1>0, <2>1, <2>2, <2>3, <2>c, NoteStored
  <1> QED
    BY <1>1, <1>2

\* A flag is saved: the requests under way saw the part open if it is now.
LEMMA SaveFlagStep ==
    ASSUME IInv, NEW s \in Slots, calls' = calls, SaveFlag(s)
    PROVE  IInv'
  <1>0. /\ req[s].op = "saveFlag" /\ TypeOK /\ req[s].to \in Parts
        /\ blocked' = IF req[s].copy THEN blocked \cup {req[s].to} ELSE blocked \ {req[s].to}
        /\ req' = [t \in Slots |->
                     IF t = s THEN Idle
                     ELSE IF req[t].op = "idle" THEN req[t]
                     ELSE [req[t] EXCEPT !.open = @ \cup (Parts \ blocked')]]
        /\ UNCHANGED <<user, note, ids, history>>
    BY DEF SaveFlag, IInv, Good, Shape
  <1>1. blocked' \subseteq Parts
    BY <1>0 DEF TypeOK
  <1>2. ASSUME NEW t \in Slots
        PROVE  /\ req'[t] \in Request
               /\ \/ t = s /\ req'[t] = Idle
                  \/ /\ t # s /\ req'[t].op = req[t].op /\ req'[t].who = req[t].who
                     /\ req'[t].ep = req[t].ep /\ req'[t].to = req[t].to
                     /\ req'[t].on = req[t].on /\ req'[t].password = req[t].password
                     /\ req'[t].copy = req[t].copy /\ req'[t].late = req[t].late
                     /\ req[t].open \subseteq req'[t].open
                     /\ req[t].op # "idle" => Parts \ blocked' \subseteq req'[t].open
    BY <1>0, <1>1, IdleGood DEF TypeOK, Request
  <1>3. TypeOK'
    <2>1. req' \in [Slots -> Request]
      BY <1>0, <1>2
    <2> QED BY <1>0, <1>1, <2>1 DEF TypeOK, ids, history
  <1>4. ASSUME NEW t \in Slots PROVE Good(req[t])'
    <2>1. CASE t = s /\ req'[t] = Idle
      BY <2>1, AccountsAssumption DEF Good, Idle, Shape, Door, Fresh, Faithful, About, Carries,
                                      Guarded, Saving, NoteOps, Approving
    <2>2. CASE t # s
      <3>1. Good(req[t])
        BY DEF IInv
      <3>2. Shape(req[t])'
        BY <1>2, <2>2, <3>1 DEF Good, Shape
      <3>3. Door(req[t])'
        <4>1. req[t].op = "idle" => req[t].who \notin Users /\ req[t].who \notin Staff
          BY <3>1, AccountsAssumption DEF Good, Shape
        <4> QED BY <1>2, <2>2, <3>1, <4>1 DEF Good, Door
      <3>4. Fresh(req[t])' /\ Faithful(req[t])'
        BY <1>0, <1>2, <2>2, <3>1 DEF Good, Fresh, Carries, Faithful, ids, history
      <3>5. About(req[t])'
        BY <1>0, <1>2, <2>2, <3>1 DEF Good, About, Undecided, ids, history
      <3> QED BY <3>2, <3>3, <3>4, <3>5 DEF Good
    <2> QED BY <1>2, <2>1, <2>2
  <1>5. ASSUME NEW q \in Slots, NEW t \in Slots, q # t PROVE Apart(req[q], req[t])'
    <2>1. CASE q # s /\ t # s
      <3>1. Apart(req[q], req[t])
        BY <1>5 DEF IInv
      <3> QED BY <1>0, <1>2, <2>1, <3>1 DEF Apart, Carries, history
    <2>2. CASE q = s \/ t = s
      <3>1. req'[q] = Idle \/ req'[t] = Idle
        BY <1>2, <2>2
      <3> QED BY <3>1 DEF Idle, Apart, Carries, Saving, NoteOps, Approving
    <2> QED BY <2>1, <2>2
  <1>6. \A n \in Notes : NoteOK(n)'
    <2>1. ASSUME NEW t \in Slots, req[t].op = "mark"
          PROVE  req'[t].op = "mark" /\ req'[t].on = req[t].on
      BY <1>0, <1>2, <2>1
    <2>2. \A v \in Users : user[v] # NULL => user'[v] # NULL
      BY <1>0
    <2> QED BY <1>0, <2>1, <2>2, NotesStay DEF ids, history
  <1>7. ASSUME NEW v \in Users PROVE UserOK(v)'
    BY <1>0 DEF IInv, UserOK, ids, history
  <1>8. OneOpen'
    BY <1>0 DEF IInv, OneOpen, Undecided, history
  <1> QED
    BY <1>3, <1>4, <1>5, <1>6, <1>7, <1>8 DEF IInv

-----------------------------------------------------------------------------
\* Init makes IInv true.
LEMMA InitIInv == Init => IInv
  <1> SUFFICES ASSUME Init PROVE IInv
    OBVIOUS
  <1>0. /\ calls \in Workloads /\ user = [u \in Users |-> [password |-> 0, permission |-> TRUE]]
        /\ note = [n \in Notes |-> NULL] /\ blocked = {} /\ req = [s \in Slots |-> Idle]
        /\ minted = 0 /\ made = {} /\ granted = [n \in Notes |-> 0]
        /\ loose = {} /\ crowded = {} /\ wish = [u \in Users |-> TRUE] /\ clobbered = {}
        /\ retired = [u \in Users |-> {}]
    BY DEF Init
  <1>a. 0 \in Passwords
    BY AccountsAssumption DEF Passwords
  <1>1. TypeOK
    <2>1. [password |-> 0, permission |-> TRUE] \in Account
      BY <1>a DEF Account
    <2> QED BY <1>0, <1>a, <2>1, IdleGood DEF TypeOK
  <1>2. \A n \in Notes : NoteOK(n)
    BY <1>0 DEF NoteOK
  <1>3. ASSUME NEW u \in Users PROVE UserOK(u)
    <2>1. user[u].password = 0 /\ retired[u] = {} /\ minted = 0
      BY <1>0
    <2>2. user[u].permission = wish[u]
      BY <1>0
    <2> QED BY <2>1, <2>2 DEF UserOK
  <1>4. OneOpen
    BY <1>0 DEF OneOpen, Undecided
  <1>5. \A s \in Slots : Good(req[s])
    BY <1>0, IdleGood DEF Good
  <1>6. \A s, t \in Slots : Apart(req[s], req[t])
    BY <1>0, IdleGood
  <1> QED
    BY <1>1, <1>2, <1>3, <1>4, <1>5, <1>6 DEF IInv

\* Every step keeps IInv.
LEMMA NextIInv == IInv /\ [Next]_vars => IInv'
  <1> SUFFICES ASSUME IInv, [Next]_vars PROVE IInv'
    OBVIOUS
  <1>1. ASSUME NEW s \in Slots, Step(s), calls' = calls
        PROVE  IInv'
    BY <1>1, ArriveStep, GuardStep, WorkOrDropStep, RequestPasswordResetStep, InsertStep,
       ChangePasswordStep, SavePasswordStep, LoadUserStep, SaveUserStep, SavePermissionStep,
       RemoveUserStep, ApproveStep, LoadRequestedStep, GrantStep, NoteStep, MarkReadStep,
       LoadFlagStep, SaveFlagStep
    DEF Step
  <1>2. CASE UNCHANGED vars
    <2>1. UNCHANGED <<calls, user, note, blocked, req, minted, made, granted, loose, crowded,
                      wish, clobbered, retired>>
      BY <1>2 DEF vars, rows, ids, history
    <2> QED BY <2>1 DEF IInv, TypeOK, NoteOK, UserOK, OneOpen, Undecided, Good, Shape, Door, Fresh,
                        Carries, Faithful, About, Apart
  <1> QED
    BY <1>1, <1>2 DEF Next

\* The tables, and what the requests hold, are consistent in every reachable
\* state, whatever requests overlap and wherever one is cut off.
THEOREM Consistent == Spec => []IInv
  BY InitIInv, NextIInv, PTL DEF Spec

\* The tables and the requests have their types.
THEOREM TypesHold == Spec => []TypeOK
  <1>1. IInv => TypeOK
    BY DEF IInv
  <1> QED
    BY Consistent, <1>1, PTL

\* An approved reset has set a password, and it sets one once, unless two
\* approvals overlapped, one was cut off, or markRead undid it.
THEOREM GrantedOnceHolds == Spec => []GrantedOnce
  <1>1. IInv => GrantedOnce
    BY DEF IInv, NoteOK, GrantedOnce
  <1> QED
    BY Consistent, <1>1, PTL

\* An account has at most one reset to be decided on, unless its requests
\* overlapped or a stale save reopened one.
THEOREM OneOpenHolds == Spec => []OneOpen
  <1>1. IInv => OneOpen
    BY DEF IInv
  <1> QED
    BY Consistent, <1>1, PTL

\* A request that came after the organization, or the branch of its staff
\* member, was blocked never reaches its handler.
THEOREM ShutOutHolds == Spec => []ShutOut
  <1>1. IInv => ShutOut
    BY DEF IInv, Good, Door, ShutOut, Guarded
  <1> QED
    BY Consistent, <1>1, PTL

\* A replaced password never becomes valid again.
THEOREM OldPasswordDeadHolds == Spec => []OldPasswordDead
  <1>1. IInv => OldPasswordDead
    BY DEF IInv, UserOK, OldPasswordDead
  <1> QED
    BY Consistent, <1>1, PTL

\* The permissions are those stored last, unless a stale save of the whole
\* account brought older ones back.
THEOREM RightsKeptHolds == Spec => []RightsKept
  <1>1. IInv => RightsKept
    BY DEF IInv, UserOK, RightsKept
  <1> QED
    BY Consistent, <1>1, PTL
=============================================================================
