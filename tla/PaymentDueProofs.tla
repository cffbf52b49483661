-------------------------- MODULE PaymentDueProofs --------------------------
(***************************************************************************)
(* NotLost and Once for any number of organizations, dates and updates in  *)
(* flight.  As long as nothing touches or cuts an organization, its mark   *)
(* and the notifications about it follow each other: see Steady.           *)
(***************************************************************************)
EXTENDS PaymentDue, TLAPS

Pending == todo \cup marking

\* What the job and the updates may rely on at an organization whose mark no
\* save changed and at which no run was cut.
Steady(o) ==
    /\ o \in stored
    \* Unmarked: nothing was told but what is about to be marked.
    /\ lastNotifiedPaymentDueAt[o] = NULL =>
         \A d \in Dates : <<o, d>> \in notified => <<o, d>> \in marking
    \* The due date was told: it is the mark, or about to be.
    /\ <<o, paymentDueAt[o]>> \in notified =>
         \/ paymentDueAt[o] = lastNotifiedPaymentDueAt[o]
         \/ <<o, paymentDueAt[o]>> \in marking
    \* A run tells nothing again, and one date of an organization at most.
    /\ \A d \in Dates : <<o, d>> \in todo => <<o, d>> \notin notified
    /\ \A c, d \in Dates : <<o, c>> \in Pending /\ <<o, d>> \in Pending => c = d
    \* A marked organization keeps the due date that a run tells of.
    /\ \A d \in Dates : <<o, d>> \in Pending /\ lastNotifiedPaymentDueAt[o] # NULL =>
                          paymentDueAt[o] = d
    \* No row and no copy of it has the mark yet that a run is about to make.
    /\ \A d \in Dates : <<o, d>> \in marking =>
         /\ lastNotifiedPaymentDueAt[o] # d
         /\ \A e \in inflight : e.org = o => e.last # d
    \* A copy with the mark of the row has its due date too.
    /\ \A e \in inflight :
         e.org = o /\ e.last = lastNotifiedPaymentDueAt[o] /\ e.last # NULL =>
           e.due = paymentDueAt[o]

OneMark == marking \subseteq notified /\ \A p, q \in marking : p = q

IInv ==
    /\ TypeOK
    /\ OneMark
    /\ NotLost
    /\ Once
    /\ \A o \in Orgs \ (touched \cup cut) : Steady(o)

\* A debt is a pair of an organization and a date.
LEMMA DebtPair ==
    ASSUME NEW p \in Debts
    PROVE  p[1] \in Orgs /\ p[2] \in Dates /\ p = <<p[1], p[2]>> /\ p[2] # NULL
  BY PaymentDueAssumption DEF Debts

LEMMA InitIInv == Init => IInv
  BY PaymentDueAssumption
     DEF Init, IInv, TypeOK, OneMark, NotLost, Once, Steady, Pending, Dates,
         OptDate, Debts, Entity

-----------------------------------------------------------------------------
(* The job. *)

LEMMA FireStep == ASSUME IInv, Fire PROVE IInv'
  <1>1. /\ todo = {} /\ marking = {} /\ todo' = Overdue /\ marking' = marking
        /\ UNCHANGED <<today, stored, paymentDueAt, lastNotifiedPaymentDueAt,
                       inflight, requests, failures, notified, repeated, touched, cut>>
    BY DEF Fire, rows, counts, history
  <1>2. TypeOK' /\ OneMark' /\ NotLost' /\ Once'
    BY <1>1 DEF IInv, TypeOK, OneMark, NotLost, Once, Overdue
  <1>3. ASSUME NEW o \in Orgs \ (touched \cup cut) PROVE Steady(o)'
    <2>1. Steady(o)
      BY DEF IInv
    <2>2. \A d \in Dates : <<o, d>> \in todo' =>
            paymentDueAt[o] = d /\ lastNotifiedPaymentDueAt[o] # d
      BY <1>1 DEF Overdue
    <2>3. \A d \in Dates : <<o, d>> \in todo' => <<o, d>> \notin notified
      BY <1>1, <2>1, <2>2 DEF Steady
    <2> QED
      BY <1>1, <2>1, <2>2, <2>3 DEF Steady, Pending
  <1> QED
    BY <1>1, <1>2, <1>3 DEF IInv

LEMMA NotifyStep == ASSUME IInv, NEW p \in todo, Notify(p) PROVE IInv'
  <1>1. /\ marking = {}
        /\ UNCHANGED <<today, stored, paymentDueAt, lastNotifiedPaymentDueAt,
                       inflight, requests, failures, touched, cut>>
    BY DEF Notify, rows, counts
  <1>2. p \in Debts /\ p[1] \in Orgs /\ p[2] \in Dates /\ p = <<p[1], p[2]>>
    BY DebtPair DEF IInv, TypeOK
  <1>3. CASE p[1] \notin stored
    <2>1. todo' = {} /\ UNCHANGED <<marking, notified, repeated>>
      BY <1>3 DEF Notify
    <2>2. TypeOK' /\ OneMark' /\ NotLost' /\ Once'
      BY <1>1, <2>1 DEF IInv, TypeOK, OneMark, NotLost, Once
    <2>3. ASSUME NEW o \in Orgs \ (touched \cup cut) PROVE Steady(o)'
      <3>1. Steady(o)
        BY DEF IInv
      <3> QED
        BY <1>1, <2>1, <3>1 DEF Steady, Pending
    <2> QED
      BY <1>1, <2>2, <2>3 DEF IInv
  <1>4. CASE p[1] \in stored
    <2>1. /\ notified' = notified \cup {p}
          /\ repeated' = IF p \in notified THEN repeated \cup {p} ELSE repeated
          /\ todo' = todo \ {p} /\ marking' = {p}
      BY <1>4 DEF Notify
    <2>2. TypeOK' /\ OneMark' /\ NotLost'
      BY <1>1, <1>2, <2>1 DEF IInv, TypeOK, OneMark, NotLost
    <2>3. Once'
      <3>1. ASSUME p \in notified PROVE p[1] \in touched \cup cut
        <4>1. SUFFICES ASSUME p[1] \notin touched \cup cut PROVE FALSE
          OBVIOUS
        <4>2. Steady(p[1])
          BY <1>2, <4>1 DEF IInv
        <4>3. <<p[1], p[2]>> \in todo /\ <<p[1], p[2]>> \in notified
          BY <1>2, <3>1
        <4> QED
          BY <1>2, <4>2, <4>3 DEF Steady
      <3> QED
        BY <1>1, <2>1, <3>1 DEF IInv, Once
    <2>4. ASSUME NEW o \in Orgs \ (touched \cup cut) PROVE Steady(o)'
      <3>1. Steady(o)
        BY DEF IInv
      <3>2. CASE o # p[1]
        <4>1. \A d \in Dates : /\ <<o, d>> \in notified' <=> <<o, d>> \in notified
                               /\ <<o, d>> \in todo' <=> <<o, d>> \in todo
                               /\ <<o, d>> \notin marking'
          BY <1>2, <2>1, <3>2
        <4>2. <<o, paymentDueAt[o]>> \in notified' <=> <<o, paymentDueAt[o]>> \in notified
          BY <1>2, <2>1, <3>2
        <4>3. marking' \cup todo' \subseteq {p} \cup todo
          BY <2>1
        <4> QED
          BY <1>1, <2>1, <3>1, <4>1, <4>2 DEF Steady, Pending
      <3>3. CASE o = p[1]
        <4> DEFINE d == p[2]
        <4>1. p = <<o, d>> /\ d \in Dates /\ p \notin notified /\ p \in Pending
          BY <1>2, <3>1, <3>3 DEF Steady, Pending
        <4>2. \A c \in Dates : <<o, c>> \in Pending => c = d
          BY <3>1, <4>1 DEF Steady
        <4>3. \A c \in Dates : /\ <<o, c>> \notin todo'
                               /\ <<o, c>> \in marking' <=> c = d
                               /\ <<o, c>> \in notified' <=> c = d \/ <<o, c>> \in notified
          BY <2>1, <4>1, <4>2 DEF Pending
        <4>4. lastNotifiedPaymentDueAt[o] # d /\ \A e \in inflight : e.org = o => e.last # d
          BY <4>1, PaymentDueAssumption DEF IInv, NotLost
        <4>5. paymentDueAt[o] \in OptDate
          BY DEF IInv, TypeOK
        <4>6. <<o, paymentDueAt[o]>> \in notified' =>
                \/ paymentDueAt[o] = lastNotifiedPaymentDueAt[o]
                \/ <<o, paymentDueAt[o]>> \in marking'
          BY <1>1, <2>1, <3>1, <4>1 DEF Steady
        <4>7. lastNotifiedPaymentDueAt[o] # NULL => paymentDueAt[o] = d
          BY <3>1, <4>1 DEF Steady
        <4> HIDE DEF d
        <4>8. \A c \in Dates : <<o, c>> \in Pending' => c = d
          BY <4>3 DEF Pending
        <4> QED
          BY <1>1, <3>1, <4>3, <4>4, <4>6, <4>7, <4>8 DEF Steady
      <3> QED
        BY <3>2, <3>3
    <2> QED
      BY <1>1, <2>2, <2>3, <2>4 DEF IInv
  <1> QED
    BY <1>3, <1>4

LEMMA MarkStep == ASSUME IInv, NEW p \in marking, Mark(p) PROVE IInv'
  <1>1. /\ marking' = {}
        /\ lastNotifiedPaymentDueAt' = [lastNotifiedPaymentDueAt EXCEPT ![p[1]] =
                                          IF p[1] \in stored THEN p[2] ELSE @]
        /\ UNCHANGED <<today, stored, paymentDueAt, todo, inflight, requests, failures,
                       notified, repeated, touched, cut>>
    BY DEF Mark, counts, history
  <1>2. p \in Debts /\ p[1] \in Orgs /\ p[2] \in Dates /\ p = <<p[1], p[2]>>
        /\ p \in notified /\ \A q \in marking : q = p
    BY DebtPair DEF IInv, TypeOK, OneMark
  <1>3. /\ \A o \in Orgs : o # p[1] =>
             lastNotifiedPaymentDueAt'[o] = lastNotifiedPaymentDueAt[o]
        /\ lastNotifiedPaymentDueAt'[p[1]] \in {p[2], lastNotifiedPaymentDueAt[p[1]]}
        /\ p[1] \in stored => lastNotifiedPaymentDueAt'[p[1]] = p[2]
    BY <1>1, <1>2 DEF IInv, TypeOK
  <1>4. TypeOK'
    BY <1>1, <1>2 DEF IInv, TypeOK, OptDate
  <1>5. OneMark' /\ Once'
    BY <1>1 DEF IInv, OneMark, Once
  <1>6. NotLost'
    BY <1>1, <1>2, <1>3 DEF IInv, NotLost
  <1>7. ASSUME NEW o \in Orgs \ (touched \cup cut) PROVE Steady(o)'
    <2>1. Steady(o)
      BY DEF IInv
    <2>2. CASE o # p[1]
      <3>1. \A d : <<o, d>> \notin marking
        BY <1>2, <2>2
      <3>2. \A d \in Dates : <<o, d>> \in Pending' => <<o, d>> \in Pending
        BY <1>1 DEF Pending
      <3>3. lastNotifiedPaymentDueAt'[o] = lastNotifiedPaymentDueAt[o]
        BY <1>3, <2>2
      <3> QED
        BY <1>1, <2>1, <3>1, <3>2, <3>3 DEF Steady
    <2>3. CASE o = p[1]
      <3> DEFINE d == p[2]
      <3>1. /\ p = <<o, d>> /\ d \in Dates /\ d # NULL /\ p \in Pending
            /\ lastNotifiedPaymentDueAt'[o] = d
        BY <1>2, <1>3, <2>1, <2>3, DebtPair DEF Steady, Pending
      <3>2. \A c \in Dates : <<o, c>> \notin Pending'
        <4> SUFFICES ASSUME NEW c \in Dates, <<o, c>> \in todo PROVE FALSE
          BY <1>1 DEF Pending
        <4>1. c = d
          BY <2>1, <3>1 DEF Steady, Pending
        <4> QED
          BY <1>2, <2>1, <3>1, <4>1 DEF Steady
      <3>3. <<o, paymentDueAt[o]>> \in notified => paymentDueAt[o] = d
        <4>1. CASE lastNotifiedPaymentDueAt[o] # NULL
          BY <2>1, <3>1, <4>1 DEF Steady
        <4>2. CASE lastNotifiedPaymentDueAt[o] = NULL /\ paymentDueAt[o] \in Dates
          BY <1>2, <2>1, <3>1, <4>2 DEF Steady
        <4>3. CASE paymentDueAt[o] = NULL
          BY <4>3, PaymentDueAssumption DEF IInv, TypeOK, Debts
        <4> QED
          BY <4>1, <4>2, <4>3 DEF IInv, TypeOK, OptDate
      <3>4. \A e \in inflight : e.org = o => e.last # d
        BY <2>1, <3>1 DEF Steady
      <3>5. o \in stored /\ \A c \in Dates : <<o, c>> \notin todo' /\ <<o, c>> \notin marking'
        BY <2>1, <3>2 DEF Steady, Pending
      <3> HIDE DEF d
      <3> QED
        BY <1>1, <3>1, <3>2, <3>3, <3>4, <3>5 DEF Steady
    <2> QED
      BY <2>2, <2>3
  <1> QED
    BY <1>1, <1>4, <1>5, <1>6, <1>7 DEF IInv

LEMMA FailStep == ASSUME IInv, Fail PROVE IInv'
  <1>1. /\ todo' = {} /\ marking' = {} /\ cut' = cut \cup {p[1] : p \in marking}
        /\ failures' = failures + 1 /\ failures < MaxFailures
        /\ UNCHANGED <<today, stored, paymentDueAt, lastNotifiedPaymentDueAt,
                       inflight, requests, notified, repeated, touched>>
    BY DEF Fail, rows
  <1>2. cut' \subseteq Orgs
    BY <1>1, DebtPair DEF IInv, TypeOK
  <1>3. TypeOK'
    BY <1>1, <1>2, PaymentDueAssumption DEF IInv, TypeOK
  <1>4. OneMark' /\ NotLost' /\ Once'
    BY <1>1 DEF IInv, OneMark, NotLost, Once
  <1>5. ASSUME NEW o \in Orgs \ (touched' \cup cut') PROVE Steady(o)'
    <2>1. Steady(o)
      BY <1>1 DEF IInv
    <2>2. \A d : <<o, d>> \notin marking
      BY <1>1
    <2> QED
      BY <1>1, <2>1, <2>2 DEF Steady, Pending
  <1> QED
    BY <1>3, <1>4, <1>5 DEF IInv

-----------------------------------------------------------------------------
(* The updates and removals. *)

LEMMA UpdateStep ==
    ASSUME IInv, NEW o \in Orgs, NEW next \in OptDate, Update(o, next)
    PROVE  IInv'
  <1> DEFINE f == Changed(o, next)
  <1>1. /\ inflight' = inflight \cup {f}
        /\ requests' = requests + 1 /\ requests < MaxRequests
        /\ UNCHANGED <<today, stored, paymentDueAt, lastNotifiedPaymentDueAt, todo,
                       marking, failures, notified, repeated, touched, cut>>
    BY DEF Update, rows, run, history
  <1>2. /\ f \in Entity /\ f.org = o
        /\ \/ f.last = NULL
           \/ f.last = lastNotifiedPaymentDueAt[o] /\ f.due = paymentDueAt[o]
    BY DEF IInv, TypeOK, Changed, Entity, OptDate
  <1> HIDE DEF f
  <1>3. TypeOK'
    BY <1>1, <1>2, PaymentDueAssumption DEF IInv, TypeOK
  <1>4. OneMark' /\ NotLost' /\ Once'
    BY <1>1, <1>2 DEF IInv, OneMark, NotLost, Once
  <1>5. ASSUME NEW x \in Orgs \ (touched \cup cut) PROVE Steady(x)'
    <2>1. Steady(x)
      BY DEF IInv
    <2>2. \A d \in Dates : <<x, d>> \in marking' =>
            \A e \in inflight' : e.org = x => e.last # d
      BY <1>1, <1>2, <2>1, PaymentDueAssumption DEF Steady
    <2>3. \A e \in inflight' :
            e.org = x /\ e.last = lastNotifiedPaymentDueAt[x] /\ e.last # NULL =>
              e.due = paymentDueAt[x]
      BY <1>1, <1>2, <2>1 DEF Steady
    <2> QED
      BY <1>1, <2>1, <2>2, <2>3 DEF Steady, Pending
  <1> QED
    BY <1>1, <1>3, <1>4, <1>5 DEF IInv

LEMMA SaveStep == ASSUME IInv, NEW e \in inflight, SaveUpdate(e) PROVE IInv'
  <1>1. /\ stored' = stored \cup {e.org}
        /\ paymentDueAt' = [paymentDueAt EXCEPT ![e.org] = e.due]
        /\ lastNotifiedPaymentDueAt' = [lastNotifiedPaymentDueAt EXCEPT ![e.org] = e.last]
        /\ touched' = IF e.last = lastNotifiedPaymentDueAt[e.org] THEN touched
                      ELSE touched \cup {e.org}
        /\ inflight' \subseteq inflight
        /\ UNCHANGED <<today, todo, marking, requests, failures, notified, repeated, cut>>
    BY DEF SaveUpdate, run, counts
  <1>2. e.org \in Orgs /\ e.due \in OptDate /\ e.last \in OptDate
    BY DEF IInv, TypeOK, Entity
  <1>3. TypeOK'
    BY <1>1, <1>2 DEF IInv, TypeOK
  <1>4. OneMark' /\ Once'
    BY <1>1 DEF IInv, OneMark, Once
  <1>5. NotLost'
    BY <1>1, <1>2 DEF IInv, TypeOK, NotLost
  <1>6. ASSUME NEW x \in Orgs \ (touched' \cup cut') PROVE Steady(x)'
    <2>1. Steady(x) /\ x \in stored /\ touched \subseteq touched'
      BY <1>1 DEF IInv, Steady
    <2>2. lastNotifiedPaymentDueAt'[x] = lastNotifiedPaymentDueAt[x]
      BY <1>1, <1>2 DEF IInv, TypeOK
    <2>3. CASE lastNotifiedPaymentDueAt[x] # NULL
      <3>1. paymentDueAt'[x] = paymentDueAt[x]
        BY <1>1, <1>2, <2>1, <2>2, <2>3 DEF IInv, TypeOK, Steady
      <3> QED
        BY <1>1, <2>1, <2>2, <3>1 DEF Steady, Pending
    <2>4. CASE lastNotifiedPaymentDueAt[x] = NULL
      <3>1. \A d \in Dates : <<x, d>> \in notified => <<x, d>> \in marking
        BY <2>1, <2>4 DEF Steady
      <3>2. paymentDueAt'[x] \in Dates \/ <<x, paymentDueAt'[x]>> \notin notified
        <4>1. paymentDueAt'[x] \in Dates \/ paymentDueAt'[x] = NULL
          BY <1>3 DEF TypeOK, OptDate
        <4>2. <<x, NULL>> \notin notified
          BY PaymentDueAssumption DEF IInv, TypeOK, Debts
        <4> QED
          BY <4>1, <4>2
      <3> QED
        BY <1>1, <2>1, <2>2, <2>4, <3>1, <3>2 DEF Steady, Pending
    <2> QED
      BY <2>3, <2>4
  <1> QED
    BY <1>3, <1>4, <1>5, <1>6 DEF IInv

LEMMA RemoveStep == ASSUME IInv, NEW o \in stored, Remove(o) PROVE IInv'
  <1>1. /\ stored' = stored \ {o} /\ touched' = touched \cup {o}
        /\ requests' = requests + 1 /\ requests < MaxRequests
        /\ UNCHANGED <<today, paymentDueAt, lastNotifiedPaymentDueAt, todo, marking,
                       inflight, failures, notified, repeated, cut>>
    BY DEF Remove, run
  <1>2. TypeOK'
    BY <1>1, PaymentDueAssumption DEF IInv, TypeOK
  <1>3. OneMark' /\ NotLost' /\ Once'
    BY <1>1 DEF IInv, OneMark, NotLost, Once
  <1>4. ASSUME NEW x \in Orgs \ (touched' \cup cut') PROVE Steady(x)'
    <2>1. Steady(x) /\ x # o
      BY <1>1 DEF IInv
    <2> QED
      BY <1>1, <2>1 DEF Steady, Pending
  <1> QED
    BY <1>2, <1>3, <1>4 DEF IInv

\* The passing of days, and a step in which nothing happens.
LEMMA OtherStep == ASSUME IInv, DayPasses \/ UNCHANGED vars PROVE IInv'
  <1>1. UNCHANGED <<stored, paymentDueAt, lastNotifiedPaymentDueAt, todo, marking,
                    inflight, requests, failures, notified, repeated, touched, cut>>
    BY DEF DayPasses, vars, rows, run, counts, history
  <1>2. today' \in Dates
    BY PaymentDueAssumption DEF IInv, TypeOK, DayPasses, vars, Dates
  <1> QED
    BY <1>1, <1>2 DEF IInv, TypeOK, OneMark, NotLost, Once, Steady, Pending

-----------------------------------------------------------------------------
\* What is told and what is marked stay in step: the inductive invariant.
THEOREM Consistent == Spec => []IInv
  <1>1. Init => IInv
    BY InitIInv
  <1>2. IInv /\ [Next]_vars => IInv'
    <2> SUFFICES ASSUME IInv, [Next]_vars PROVE IInv'
      OBVIOUS
    <2>1. CASE DayPasses \/ UNCHANGED vars
      BY <2>1, OtherStep
    <2>2. CASE Fire
      BY <2>2, FireStep
    <2>3. ASSUME NEW p \in todo, Notify(p) PROVE IInv'
      BY <2>3, NotifyStep
    <2>4. ASSUME NEW p \in marking, Mark(p) PROVE IInv'
      BY <2>4, MarkStep
    <2>5. CASE Fail
      BY <2>5, FailStep
    <2>6. ASSUME NEW o \in Orgs, NEW next \in OptDate, Update(o, next) PROVE IInv'
      BY <2>6, UpdateStep
    <2>7. ASSUME NEW e \in inflight, SaveUpdate(e) PROVE IInv'
      BY <2>7, SaveStep
    <2>8. ASSUME NEW o \in stored, Remove(o) PROVE IInv'
      BY <2>8, RemoveStep
    <2> QED
      BY <2>1, <2>2, <2>3, <2>4, <2>5, <2>6, <2>7, <2>8 DEF Next, Work
  <1> QED
    BY <1>1, <1>2, PTL DEF Spec

\* organizations are never marked with a date the superadmin was not told of.
THEOREM NotLostHolds == Spec => []NotLost
  <1>1. IInv => NotLost
    BY DEF IInv
  <1> QED
    BY <1>1, Consistent, PTL

\* A date is told twice only after a change of the mark or a run that was cut.
THEOREM OnceHolds == Spec => []Once
  <1>1. IInv => Once
    BY DEF IInv
  <1> QED
    BY <1>1, Consistent, PTL

-----------------------------------------------------------------------------
(* How an overdue payment comes to be told. *)

Untold(p) ==
    /\ p[1] \in stored /\ paymentDueAt[p[1]] = p[2] /\ p[2] <= today
    /\ p \notin notified

\* A run takes up every untold debt, whatever mark the organization has.
TakenUp == Fire => \A p \in Debts : Untold(p) => p \in todo'

\* What a run has taken up it tells, unless it fails or meets an organization
\* that was removed since the run began.
KeptOn ==
    \A p \in todo \ todo' : p \in notified' \/ Fail \/ \E q \in todo : q[1] \notin stored

LEMMA StepTells ==
    ASSUME IInv, Next
    PROVE  TakenUp /\ KeptOn
  <1>1. TakenUp
    <2> SUFFICES ASSUME Fire, NEW p \in Debts, Untold(p)
                 PROVE  p \in todo'
      BY DEF TakenUp
    <2>1. p[1] \in Orgs /\ p = <<p[1], p[2]>> /\ p[2] # NULL
      BY DebtPair
    <2>2. lastNotifiedPaymentDueAt[p[1]] # p[2]
      BY <2>1 DEF IInv, NotLost, Untold
    <2> QED
      BY <2>2 DEF Fire, Overdue, Untold
  <1>2. KeptOn
    <2>1. CASE \E p \in todo : Notify(p)
      BY <2>1 DEF Notify, KeptOn
    <2>2. CASE DayPasses \/ \E p \in marking : Mark(p)
      BY <2>2 DEF DayPasses, Mark, run, KeptOn
    <2>3. CASE Fire \/ Fail
      BY <2>3 DEF Fire, KeptOn
    <2>4. CASE \/ \E o \in Orgs, next \in OptDate : Update(o, next)
               \/ \E e \in inflight : SaveUpdate(e)
               \/ \E o \in stored : Remove(o)
      BY <2>4 DEF Update, SaveUpdate, Remove, run, KeptOn
    <2> QED
      BY <2>1, <2>2, <2>3, <2>4 DEF Next, Work
  <1> QED
    BY <1>1, <1>2

\* What Reminded says without saying that runs go on: no mark, wherever it
\* comes from, keeps a run from an untold debt, and the run tells of it unless
\* it is cut short.
THEOREM DueIsTakenUp == Spec => [][TakenUp /\ KeptOn]_vars
  <1>1. IInv /\ [Next]_vars => [TakenUp /\ KeptOn]_vars
    BY StepTells
  <1> QED
    BY <1>1, Consistent, PTL DEF Spec
=============================================================================
