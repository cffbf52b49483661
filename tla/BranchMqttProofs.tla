-------------------------- MODULE BranchMqttProofs --------------------------
(***************************************************************************)
(* InUse and NoOtherLeak for any number of branches, publishes and ticks,  *)
(* and a measure by which an unused client comes to its end.               *)
(***************************************************************************)
EXTENDS BranchMqtt, TLAPS

\* A client is made when its publish connects.
Making == \A r \in Requests : /\ pc[r] = "connecting" => client[r] = "connecting"
                              /\ pc[r] = "new" => client[r] = "none"

\* The cache holds clients of the branch itself, each with a timer.
Timed == \A b \in Branches : /\ cache[b] = NULL => timer[b] = NULL
                             /\ cache[b] # NULL => at[cache[b]] = b /\ timer[b] \in Time

\* A publish uses a client of its branch, and the entry of that client was used
\* no longer ago.
Using == \A r \in Requests : pc[r] = "publishing" =>
           /\ at[uses[r]] = at[r]
           /\ client[uses[r]] \in {"open", "ended"}
           /\ cache[at[r]] = uses[r] => lastUsed[at[r]] <= waiting[r]

IInv ==
    /\ TypeOK
    /\ Making
    /\ Timed
    /\ Using
    /\ InUse
    /\ NoOtherLeak

LEMMA InitIInv == Init => IInv
  <1> SUFFICES ASSUME Init PROVE IInv
    OBVIOUS
  <1> USE BranchMqttAssumption
  <1>1. 0 \in Time
    BY DEF Time
  <1>2. TypeOK
    BY <1>1, Zenon DEF Init, TypeOK
  <1> QED
    BY <1>2 DEF Init, IInv, Making, Timed, Using, InUse, NoOtherLeak

LEMMA PublishCachedStep ==
    ASSUME IInv, NEW r \in Requests, PublishCached(r)
    PROVE  IInv'
  <1> USE BranchMqttAssumption DEF IInv, PublishCached, ScheduleIdleClose
  <1>1. TypeOK'
    BY DEF TypeOK, Time
  <1>2. Making' /\ Timed'
    BY DEF TypeOK, Time, Making, Timed
  <1>3. Using'
    BY DEF TypeOK, Time, Timed, Using, NoOtherLeak
  <1>4. InUse' /\ NoOtherLeak'
    BY DEF TypeOK, Timed, InUse, NoOtherLeak
  <1> QED
    BY <1>1, <1>2, <1>3, <1>4

LEMMA ConnectStep ==
    ASSUME IInv, NEW r \in Requests, Connect(r)
    PROVE  IInv'
  <1> USE BranchMqttAssumption DEF IInv, Connect, entries
  <1>1. TypeOK'
    BY DEF TypeOK
  <1>2. Making' /\ Timed'
    BY DEF TypeOK, Making, Timed
  <1>3. Using'
    BY DEF TypeOK, Making, Using
  <1>4. InUse' /\ NoOtherLeak'
    BY DEF TypeOK, Making, InUse, NoOtherLeak
  <1> QED
    BY <1>1, <1>2, <1>3, <1>4

LEMMA ConnectedStep ==
    ASSUME IInv, NEW r \in Requests, Connected(r)
    PROVE  IInv'
  <1> USE BranchMqttAssumption DEF IInv, Connected
  <1>1. TypeOK'
    BY DEF TypeOK, Time
  <1>2. Making' /\ Timed'
    BY DEF TypeOK, Time, Making, Timed
  <1>3. Using'
    BY DEF TypeOK, Time, Making, Timed, Using
  <1>4. InUse' /\ NoOtherLeak'
    BY DEF TypeOK, Making, Timed, Using, InUse, NoOtherLeak
  <1> QED
    BY <1>1, <1>2, <1>3, <1>4

LEMMA EndStep ==
    ASSUME IInv, NEW r \in Requests, GiveUp(r) \/ Acknowledged(r) \/ PublishFails(r)
    PROVE  IInv'
  <1> USE BranchMqttAssumption DEF IInv, GiveUp, Acknowledged, PublishFails, ScheduleIdleClose, entries
  <1>1. TypeOK'
    BY DEF TypeOK, Time
  <1>2. Making' /\ Timed'
    BY DEF TypeOK, Time, Making, Timed
  <1>3. Using'
    BY DEF TypeOK, Using
  <1>4. InUse' /\ NoOtherLeak'
    BY DEF TypeOK, Making, InUse, NoOtherLeak
  <1> QED
    BY <1>1, <1>2, <1>3, <1>4

LEMMA DueStep ==
    ASSUME IInv, NEW b \in Branches, Due(b)
    PROVE  IInv'
  <1> USE BranchMqttAssumption DEF IInv, Due
  <1>1. CASE cache[b] # NULL /\ lastUsed[b] < Idle
    <2> USE <1>1 DEF CloseIdle, ScheduleIdleClose
    <2>1. TypeOK'
      BY DEF TypeOK, Time
    <2>2. Making' /\ Timed'
      BY DEF TypeOK, Time, Making, Timed
    <2>3. Using' /\ InUse' /\ NoOtherLeak'
      BY DEF TypeOK, Using, InUse, NoOtherLeak
    <2> QED
      BY <2>1, <2>2, <2>3
  <1>2. CASE ~(cache[b] # NULL /\ lastUsed[b] < Idle)
    <2> USE <1>2 DEF CloseIdle
    <2>1. TypeOK'
      <3>1. client' \in [Requests -> {"none", "connecting", "open", "ended"}]
        BY DEF TypeOK
      <3>2. /\ cache' \in [Branches -> Requests \cup {NULL}]
            /\ timer' \in [Branches -> Time \cup {NULL}]
            /\ strays' \in [Branches -> SUBSET Time]
        BY DEF TypeOK
      <3> QED
        BY <3>1, <3>2, Zenon DEF TypeOK
    <2>2. Making' /\ Timed'
      BY DEF TypeOK, Time, Making, Timed, NoOtherLeak
    <2>3. Using'
      BY DEF TypeOK, Time, Timed, Using
    <2>4. InUse'
      <3> SUFFICES ASSUME NEW r \in Requests, pc[r] = "publishing", client'[uses[r]] = "ended"
                   PROVE  waiting[r] = Idle \/ shut
        BY DEF InUse
      <3>1. CASE client[uses[r]] = "ended"
        BY <3>1 DEF InUse
      <3>2. CASE client[uses[r]] # "ended"
        <4>1. uses[r] \in Requests /\ cache[b] = uses[r]
          BY <3>2 DEF TypeOK
        <4>2. at[r] = b
          BY <4>1 DEF Timed, Using
        <4>3. lastUsed[b] <= waiting[r] /\ lastUsed[b] \in Time /\ waiting[r] \in Time
          BY <4>1, <4>2 DEF Using, TypeOK
        <4> QED
          BY <4>1, <4>3 DEF Time
      <3> QED
        BY <3>1, <3>2
    <2>5. NoOtherLeak'
      BY DEF TypeOK, Timed, NoOtherLeak
    <2> QED
      BY <2>1, <2>2, <2>3, <2>4, <2>5
  <1> QED
    BY <1>1, <1>2

LEMMA DestroyStep ==
    ASSUME IInv, OnModuleDestroy
    PROVE  IInv'
  <1> USE BranchMqttAssumption DEF IInv, OnModuleDestroy
  <1>1. TypeOK'
    <2>1. client' \in [Requests -> {"none", "connecting", "open", "ended"}]
      BY DEF TypeOK
    <2>2. /\ cache' \in [Branches -> Requests \cup {NULL}]
          /\ timer' \in [Branches -> Time \cup {NULL}]
      BY DEF TypeOK
    <2> QED
      BY <2>1, <2>2, Zenon DEF TypeOK
  <1>2. Making' /\ Timed'
    BY DEF TypeOK, Making, Timed, NoOtherLeak
  <1>3. Using' /\ InUse' /\ NoOtherLeak'
    BY DEF TypeOK, Timed, Using, InUse, NoOtherLeak
  <1> QED
    BY <1>1, <1>2, <1>3

LEMMA TickStep ==
    ASSUME IInv, Tick
    PROVE  IInv'
  <1> USE BranchMqttAssumption DEF IInv, Tick, More
  <1>1. TypeOK'
    <2>1. \A t \in Time : Less(t) \in Time /\ More(t) \in Time
      BY DEF Time, Less
    <2>2. lastUsed' \in [Branches -> Time] /\ waiting' \in [Requests -> Time]
      BY <2>1 DEF TypeOK
    <2>3. timer' \in [Branches -> Time \cup {NULL}] /\ strays' \in [Branches -> SUBSET Time]
      BY <2>1 DEF TypeOK
    <2> QED
      BY <2>2, <2>3, Zenon DEF TypeOK
  <1>2. Making' /\ Timed'
    <2>1. Making'
      BY DEF Making
    <2>2. \A b \in Branches : /\ timer[b] = NULL => timer'[b] = NULL
                             /\ timer[b] # NULL => timer'[b] = Less(timer[b])
      BY DEF TypeOK
    <2>3. \A t \in Time : Less(t) \in Time /\ t # NULL
      BY DEF Time, Less
    <2> QED
      BY <2>1, <2>2, <2>3, Zenon DEF Timed
  <1>3. Using'
    BY DEF TypeOK, Time, Using
  <1>4. InUse' /\ NoOtherLeak'
    BY DEF TypeOK, Time, InUse, NoOtherLeak
  <1> QED
    BY <1>1, <1>2, <1>3, <1>4

LEMMA NextIInv == IInv /\ [Next]_vars => IInv'
  <1> SUFFICES ASSUME IInv, [Next]_vars PROVE IInv'
    OBVIOUS
  <1>1. CASE UNCHANGED vars
    BY <1>1 DEF vars, entries, IInv, TypeOK, Making, Timed, Using, InUse, NoOtherLeak
  <1> QED
    BY <1>1, PublishCachedStep, ConnectStep, ConnectedStep, EndStep, DueStep, DestroyStep,
       TickStep DEF Next

\* The inductive invariant: what timers, publishes and the cache rely on.
THEOREM Consistent == Spec => []IInv
  BY InitIInv, NextIInv, PTL DEF Spec

\* No timer, late or stray, ends a client under a publish that has not waited
\* for the broker for IDLE_MS.
THEOREM InUseHolds == Spec => []InUse
  <1>1. IInv => InUse
    BY DEF IInv
  <1> QED
    BY <1>1, Consistent, PTL

\* Clients are left open only by concurrent connects and by connects that were
\* given up, and the cache never holds an ended client.
THEOREM NoOtherLeakHolds == Spec => []NoOtherLeak
  <1>1. IInv => NoOtherLeak
    BY DEF IInv
  <1> QED
    BY <1>1, Consistent, PTL

-----------------------------------------------------------------------------
(* How an unused client comes to its end. *)

\* A request touches the entry of branch b.
Touched(b) ==
    \E r \in Requests : at[r] = b /\ (PublishCached(r) \/ Connected(r) \/ Acknowledged(r))

\* How far the entry of branch b is from its end: once it was unused for Idle
\* its timer ends it; before that a timer that is due is set again.
Distance(b) ==
    IF lastUsed[b] = Idle THEN timer[b]
    ELSE Idle + 2 * (Idle - lastUsed[b]) + IF timer[b] = 0 THEN 1 ELSE 0

\* An entry that no request touches never gets farther from its end, and gets
\* closer with every tick until its timer is due, and with its timer.
Closer(b) ==
    cache[b] # NULL /\ ~ Touched(b) =>
        \/ cache'[b] = NULL
        \/ /\ cache'[b] = cache[b] /\ Distance(b)' <= Distance(b)
           /\ Tick /\ Distance(b) # 0 => Distance(b)' < Distance(b)
           /\ Due(b) /\ timer[b] = 0 => Distance(b)' < Distance(b)

LEMMA StepCloser ==
    ASSUME IInv, Next, NEW b \in Branches
    PROVE  Closer(b)
  <1> SUFFICES ASSUME cache[b] # NULL, ~ Touched(b)
               PROVE  \/ cache'[b] = NULL
                      \/ /\ cache'[b] = cache[b] /\ Distance(b)' <= Distance(b)
                         /\ Tick /\ Distance(b) # 0 => Distance(b)' < Distance(b)
                         /\ Due(b) /\ timer[b] = 0 => Distance(b)' < Distance(b)
    BY DEF Closer
  <1> USE BranchMqttAssumption
  <1>1. /\ lastUsed[b] \in Nat /\ lastUsed[b] <= Idle
        /\ timer[b] \in Nat /\ timer[b] <= Idle /\ TypeOK
    BY DEF IInv, TypeOK, Timed, Time
  <1>2. ASSUME Tick
        PROVE  /\ cache'[b] = cache[b] /\ Distance(b)' <= Distance(b)
               /\ Distance(b) # 0 => Distance(b)' < Distance(b)
    <2>1. /\ cache' = cache /\ timer'[b] = IF timer[b] = NULL THEN NULL ELSE Less(timer[b])
          /\ lastUsed'[b] = More(lastUsed[b])
      BY <1>2 DEF Tick
    <2>2. timer[b] # NULL
      BY DEF IInv, TypeOK, Timed, Time
    <2>3. timer'[b] = IF timer[b] = 0 THEN 0 ELSE timer[b] - 1
      BY <2>1, <2>2 DEF Less
    <2>4. CASE lastUsed[b] = Idle
      <3>1. lastUsed'[b] = Idle
        BY <2>1, <2>4 DEF More
      <3>2. Distance(b) = timer[b] /\ Distance(b)' = timer'[b]
        BY <2>4, <3>1 DEF Distance
      <3> QED
        BY <1>1, <2>1, <2>3, <3>2
    <2>5. CASE lastUsed[b] # Idle
      <3>1. lastUsed'[b] = lastUsed[b] + 1
        BY <2>1, <2>5 DEF More
      <3>2. Distance(b) >= Idle + 2 * (Idle - lastUsed[b]) /\ Distance(b) \in Nat
        BY <1>1, <2>5 DEF Distance
      <3>3. CASE lastUsed'[b] = Idle
        <4>1. Distance(b)' = timer'[b]
          BY <3>3 DEF Distance
        <4> QED
          BY <1>1, <2>1, <2>3, <3>1, <3>2, <3>3, <4>1
      <3>4. CASE lastUsed'[b] # Idle
        <4>1. Distance(b)' <= Idle + 2 * (Idle - lastUsed'[b]) + 1 /\ Distance(b)' \in Nat
          BY <1>1, <2>1, <2>5, <3>1, <3>4 DEF Distance
        <4> QED
          BY <1>1, <2>1, <2>5, <3>1, <3>2, <4>1
      <3> QED
        BY <3>3, <3>4
    <2> QED
      BY <2>4, <2>5
  <1>3. ASSUME Due(b)
        PROVE  \/ cache'[b] = NULL
               \/ /\ cache'[b] = cache[b] /\ Distance(b)' <= Distance(b)
                  /\ timer[b] = 0 => Distance(b)' < Distance(b)
    <2>1. CASE lastUsed[b] < Idle
      <3>1. UNCHANGED <<cache, lastUsed>> /\ timer'[b] = Idle
        BY <1>1, <1>3, <2>1 DEF Due, CloseIdle, ScheduleIdleClose, TypeOK
      <3> QED
        BY <1>1, <2>1, <3>1 DEF Distance
    <2>2. CASE ~ (lastUsed[b] < Idle)
      BY <1>1, <1>3, <2>2 DEF Due, CloseIdle, TypeOK
    <2> QED
      BY <2>1, <2>2
  <1>4. CASE cache'[b] = cache[b] /\ lastUsed'[b] = lastUsed[b] /\ timer'[b] = timer[b]
    <2>1. Distance(b)' = Distance(b) /\ Distance(b) \in Nat
      BY <1>1, <1>4 DEF Distance
    <2> QED
      BY <1>2, <1>3, <1>4, <2>1
  <1>5. ASSUME NEW r \in Requests, PublishCached(r) \/ Connected(r) \/ Acknowledged(r)
        PROVE  cache'[b] = cache[b] /\ lastUsed'[b] = lastUsed[b] /\ timer'[b] = timer[b]
    <2>1. at[r] # b
      BY <1>5 DEF Touched
    <2> QED
      BY <1>1, <1>5, <2>1
         DEF PublishCached, Connected, Acknowledged, ScheduleIdleClose, TypeOK
  <1>6. ASSUME NEW r \in Requests, Connect(r) \/ GiveUp(r) \/ PublishFails(r)
        PROVE  cache'[b] = cache[b] /\ lastUsed'[b] = lastUsed[b] /\ timer'[b] = timer[b]
    BY <1>6 DEF Connect, GiveUp, PublishFails, entries
  <1>7. ASSUME NEW c \in Branches \ {b}, Due(c)
        PROVE  cache'[b] = cache[b] /\ lastUsed'[b] = lastUsed[b] /\ timer'[b] = timer[b]
    BY <1>1, <1>7 DEF Due, CloseIdle, ScheduleIdleClose, TypeOK
  <1>8. CASE OnModuleDestroy
    BY <1>8 DEF OnModuleDestroy
  <1>9. CASE Tick
    BY <1>2, <1>3, <1>9
  <1>10. CASE Due(b)
    BY <1>2, <1>3, <1>10
  <1> QED
    BY <1>4, <1>5, <1>6, <1>7, <1>8, <1>9, <1>10 DEF Next

\* What Closed says without saying that time passes: whatever other branches,
\* stray timers and late answers do, the entry of an unused client comes closer
\* to its end with every tick, and at the end its timer ends it.
THEOREM ClosingAdvances ==
    Spec => [][\A b \in Branches :
                 /\ Closer(b)
                 /\ cache[b] # NULL /\ Distance(b) = 0 => timer[b] = 0
                 /\ Distance(b) = 0 /\ Due(b) => cache'[b] = NULL]_vars
  <1>1. ASSUME IInv, Next, NEW b \in Branches
        PROVE  /\ Closer(b)
               /\ cache[b] # NULL /\ Distance(b) = 0 => timer[b] = 0
               /\ Distance(b) = 0 /\ Due(b) => cache'[b] = NULL
    <2> USE BranchMqttAssumption
    <2>1. lastUsed[b] \in Nat /\ lastUsed[b] <= Idle /\ TypeOK
      BY <1>1 DEF IInv, TypeOK, Time
    <2>2. ASSUME Distance(b) = 0
          PROVE  lastUsed[b] = Idle /\ timer[b] = 0
      BY <2>1, <2>2 DEF Distance
    <2>3. ASSUME Distance(b) = 0, Due(b)
          PROVE  cache'[b] = NULL
      BY <2>1, <2>2, <2>3 DEF Due, CloseIdle, TypeOK
    <2> QED
      BY <1>1, <2>2, <2>3, StepCloser
  <1>2. IInv /\ [Next]_vars =>
          [\A b \in Branches :
             /\ Closer(b)
             /\ cache[b] # NULL /\ Distance(b) = 0 => timer[b] = 0
             /\ Distance(b) = 0 /\ Due(b) => cache'[b] = NULL]_vars
    BY <1>1
  <1> QED
    BY <1>2, Consistent, PTL DEF Spec
=============================================================================
