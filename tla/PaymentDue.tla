----------------------------- MODULE PaymentDue -----------------------------
(***************************************************************************)
(* PaymentDueCronService: the superadmin is told once of every payment an  *)
(* organization owes.                                                      *)
(*                                                                         *)
(* The job reads the organizations, then saves one notification at a time  *)
(* and marks the organization with the due date it told of.  Meanwhile     *)
(* organizations.update loads a row and writes all of it back.  A step is  *)
(* one statement of the database.  Messages, payments and the read flag of *)
(* a notification are left out; nothing deletes a notification but the     *)
(* removal of its organization, so notified is kept as a history.          *)
(* An operator named Op_Flaw is Op with one mistake in it.                 *)
(***************************************************************************)
EXTENDS Naturals, FiniteSets

CONSTANTS
    Orgs, NULL,
    LastDay,     \* the last due date; every later day of the calendar is LastDay
    MaxInFlight, \* bound: the updates between their load and their save
    MaxRequests, \* bound: the updates and removals the superadmin asks for
    MaxFailures  \* bound: the runs that fail

Dates == 1..LastDay

ASSUME PaymentDueAssumption ==
    /\ LastDay \in Nat \ {0} /\ NULL \notin Dates
    /\ MaxRequests \in Nat /\ MaxFailures \in Nat

VARIABLES
    today,
    stored,                   \* the organizations that have a row
    paymentDueAt,
    lastNotifiedPaymentDueAt,
    todo,      \* the run of the job: what it has yet to tell
    marking,   \* {} or what it has told and not marked
    inflight,  \* updates between their load and their save
    requests, failures, \* how many there have been
    \* History:
    notified,  \* <<organization, due date>> the superadmin was told of
    repeated,  \* those told twice or more
    touched,   \* organizations whose mark a save or a removal changed
    cut        \* organizations at which a run ended before its mark

rows == <<stored, paymentDueAt, lastNotifiedPaymentDueAt>>
run == <<todo, marking>>
counts == <<requests, failures>>
history == <<notified, repeated, touched, cut>>
vars == <<today, rows, run, inflight, counts, history>>

OptDate == Dates \cup {NULL}
Debts == Orgs \X Dates
\* The entity an update holds, its changes made.
Entity == [org : Orgs, due : OptDate, last : OptDate]

TypeOK ==
    /\ today \in Dates
    /\ stored \subseteq Orgs
    /\ paymentDueAt \in [Orgs -> OptDate]
    /\ lastNotifiedPaymentDueAt \in [Orgs -> OptDate]
    /\ todo \subseteq Debts
    /\ marking \subseteq Debts
    /\ inflight \subseteq Entity
    /\ requests \in 0..MaxRequests /\ failures \in 0..MaxFailures
    /\ notified \subseteq Debts /\ repeated \subseteq Debts
    /\ touched \subseteq Orgs /\ cut \subseteq Orgs

DayPasses ==
    /\ today < LastDay
    /\ today' = today + 1
    /\ UNCHANGED <<rows, run, inflight, counts, history>>

-----------------------------------------------------------------------------
(* The job, at seven every morning. *)

\* What the loop acts on is decided by the rows it read at its start.
Overdue_DayAfter == {p \in Debts : /\ p[1] \in stored /\ paymentDueAt[p[1]] = p[2]
                                   /\ p[2] < today /\ lastNotifiedPaymentDueAt[p[1]] # p[2]}
Overdue == {p \in Debts : /\ p[1] \in stored /\ paymentDueAt[p[1]] = p[2]
                          /\ p[2] <= today /\ lastNotifiedPaymentDueAt[p[1]] # p[2]}

Fire ==
    /\ todo = {} /\ marking = {}
    /\ todo' = Overdue
    /\ UNCHANGED <<today, rows, marking, inflight, counts, history>>

\* The notification of an organization that is gone breaks its foreign key,
\* and the exception ends the loop for the organizations after it as well.
Notify_MarkFirst(p) ==
    /\ marking = {}
    /\ lastNotifiedPaymentDueAt' = [lastNotifiedPaymentDueAt EXCEPT ![p[1]] = p[2]]
    /\ todo' = todo \ {p}
    /\ UNCHANGED <<today, stored, paymentDueAt, marking, inflight, counts, history>>
Notify(p) ==
    /\ marking = {}
    /\ IF p[1] \in stored
       THEN /\ notified' = notified \cup {p}
            /\ repeated' = IF p \in notified THEN repeated \cup {p} ELSE repeated
            /\ todo' = todo \ {p}
            /\ marking' = {p}
       ELSE /\ todo' = {}
            /\ UNCHANGED <<marking, notified, repeated>>
    /\ UNCHANGED <<today, rows, inflight, counts, touched, cut>>

\* orgs.update writes the date the run told of, whatever the row holds by now.
Mark(p) ==
    /\ marking' = {}
    /\ lastNotifiedPaymentDueAt' = [lastNotifiedPaymentDueAt EXCEPT ![p[1]] =
                                      IF p[1] \in stored THEN p[2] ELSE @]
    /\ UNCHANGED <<today, stored, paymentDueAt, todo, inflight, counts, history>>

\* The process stops, or a statement of the run fails: the job is not resumed.
Fail ==
    /\ failures < MaxFailures
    /\ failures' = failures + 1
    /\ todo' = {} /\ marking' = {}
    /\ cut' = cut \cup {p[1] : p \in marking}
    /\ UNCHANGED <<today, rows, inflight, requests, notified, repeated, touched>>

-----------------------------------------------------------------------------
(* organizations.update and organizations.remove. *)

Changed_MarkKept(o, next) == [org |-> o, due |-> next, last |-> lastNotifiedPaymentDueAt[o]]
Changed(o, next) == [org |-> o, due |-> next,
    last |-> IF next = paymentDueAt[o] THEN lastNotifiedPaymentDueAt[o] ELSE NULL]

\* An update that leaves the due date out keeps the one it loaded.
Update(o, next) ==
    /\ o \in stored
    /\ requests < MaxRequests
    /\ requests' = requests + 1
    /\ Cardinality(inflight \cup {Changed(o, next)}) <= MaxInFlight
    /\ inflight' = inflight \cup {Changed(o, next)}
    /\ UNCHANGED <<today, rows, run, failures, history>>

\* save brings back a row that was removed.  The same update may be repeated.
SaveUpdate(e) ==
    /\ stored' = stored \cup {e.org}
    /\ paymentDueAt' = [paymentDueAt EXCEPT ![e.org] = e.due]
    /\ lastNotifiedPaymentDueAt' = [lastNotifiedPaymentDueAt EXCEPT ![e.org] = e.last]
    /\ touched' = IF e.last = lastNotifiedPaymentDueAt[e.org] THEN touched
                  ELSE touched \cup {e.org}
    /\ inflight' \in {inflight, inflight \ {e}}
    /\ UNCHANGED <<today, run, counts, notified, repeated, cut>>

Remove(o) ==
    /\ requests < MaxRequests
    /\ requests' = requests + 1
    /\ stored' = stored \ {o}
    /\ touched' = touched \cup {o}
    /\ UNCHANGED <<today, paymentDueAt, lastNotifiedPaymentDueAt, run, inflight,
                   failures, notified, repeated, cut>>

-----------------------------------------------------------------------------
\* organizations.create leaves both dates NULL.
Init ==
    /\ today = 1
    /\ stored = Orgs
    /\ paymentDueAt = [o \in Orgs |-> NULL]
    /\ lastNotifiedPaymentDueAt = [o \in Orgs |-> NULL]
    /\ todo = {} /\ marking = {} /\ inflight = {}
    /\ requests = 0 /\ failures = 0
    /\ notified = {} /\ repeated = {} /\ touched = {} /\ cut = {}

Work == (\E p \in todo : Notify(p)) \/ \E p \in marking : Mark(p)

Next ==
    \/ DayPasses
    \/ Fire
    \/ Work
    \/ Fail
    \/ \E o \in Orgs, next \in OptDate : Update(o, next)
    \/ \E e \in inflight : SaveUpdate(e)
    \/ \E o \in stored : Remove(o)

Spec == Init /\ [][Next]_vars

\* The scheduler starts the job again and again and a run goes on by itself.
FairSpec == Spec /\ WF_vars(Fire) /\ WF_vars(Work)

-----------------------------------------------------------------------------
\* The mark never claims too much: whatever saves and runs overwrite, the
\* superadmin was told of the date an organization, or the copy of it that an
\* update is about to write back, is marked with.
NotLost ==
    /\ \A o \in Orgs : lastNotifiedPaymentDueAt[o] # NULL =>
                         <<o, lastNotifiedPaymentDueAt[o]>> \in notified
    /\ \A e \in inflight : e.last # NULL => <<e.org, e.last>> \in notified

\* "Cron idempotency", as far as it goes: the same date is told twice only if
\* a save or a removal changed the mark of the organization, or if a run ended
\* between a notification and its mark.
Once == \A p \in repeated : p[1] \in touched \cup cut

\* The superadmin is told in the end of a payment that stays due.
Reminded ==
    \A o \in Orgs, d \in Dates :
        <>[](o \in stored /\ paymentDueAt[o] = d /\ d <= today) => <>(<<o, d>> \in notified)
=============================================================================
