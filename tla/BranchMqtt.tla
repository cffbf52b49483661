----------------------------- MODULE BranchMqtt -----------------------------
(***************************************************************************)
(* BranchMqttService: one MQTT client per branch is kept open between      *)
(* publishes and ended when nobody used it for IDLE_MS.                    *)
(*                                                                         *)
(* A publish waits for its branch, for the connection and for the broker;  *)
(* a step is what the event loop does between two of these, or one timer.  *)
(* A client is named by the publish that made it, and time is counted in   *)
(* ticks, longer than the second that closeIdle forgives; a timer may be   *)
(* late by any number of them.  Topics, payloads and credentials are left  *)
(* out; a publish that is refused before it has a client (no branch, no    *)
(* URL, a password that cannot be decrypted) changes nothing.  An operator *)
(* named Op_Flaw is Op with one mistake in it.                             *)
(***************************************************************************)
EXTENDS Naturals

CONSTANTS
    Branches,
    Requests, \* bound: the publishes there are
    Idle,     \* IDLE_MS
    NULL

ASSUME BranchMqttAssumption == Idle \in Nat \ {0} /\ NULL \notin Requests \cup 0..Idle

VARIABLES
    pc, at, uses,  \* a publish: where it is, its branch, the client it has
    client,        \* the client a publish made
    cache,         \* the client of a branch
    lastUsed,      \* how long ago the cached client was got, Idle at most
    timer,         \* how long the timer of the entry has to go
    strays,        \* the same of timers whose entry was replaced
    \* History:
    waiting,       \* how long ago a publish got its client, Idle at most
    adrift,        \* clients that were replaced or whose connect was given up
    shut           \* whether the module was destroyed

entries == <<cache, lastUsed, timer, strays>>
vars == <<pc, at, uses, client, entries, waiting, adrift, shut>>

Time == 0..Idle

TypeOK ==
    /\ pc \in [Requests -> {"new", "connecting", "publishing", "ended"}]
    /\ at \in [Requests -> Branches]
    /\ uses \in [Requests -> Requests]
    /\ client \in [Requests -> {"none", "connecting", "open", "ended"}]
    /\ cache \in [Branches -> Requests \cup {NULL}]
    /\ lastUsed \in [Branches -> Time]
    /\ timer \in [Branches -> Time \cup {NULL}]
    /\ strays \in [Branches -> SUBSET Time]
    /\ waiting \in [Requests -> Time]
    /\ adrift \subseteq Requests
    /\ shut \in BOOLEAN

-----------------------------------------------------------------------------
\* clearTimeout and setTimeout, if the branch has an entry.
ScheduleIdleClose_Cleared(b) ==
    timer' = [timer EXCEPT ![b] = NULL]
ScheduleIdleClose(b) ==
    timer' = [timer EXCEPT ![b] = IF cache[b] = NULL THEN @ ELSE Idle]

\* getOrCreateClient with a cached client.
PublishCached(r) ==
    LET b == at[r] IN
    /\ pc[r] = "new" /\ cache[b] # NULL
    /\ pc' = [pc EXCEPT ![r] = "publishing"]
    /\ uses' = [uses EXCEPT ![r] = cache[b]]
    /\ lastUsed' = [lastUsed EXCEPT ![b] = 0]
    /\ ScheduleIdleClose(b)
    /\ UNCHANGED <<at, client, cache, strays, waiting, adrift, shut>>

\* Publishes that find no client all connect.
Connect(r) ==
    /\ pc[r] = "new" /\ cache[at[r]] = NULL
    /\ pc' = [pc EXCEPT ![r] = "connecting"]
    /\ client' = [client EXCEPT ![r] = "connecting"]
    /\ UNCHANGED <<at, uses, entries, waiting, adrift, shut>>

\* cache.set replaces an entry without ending its client or its timer.
Connected(r) ==
    LET b == at[r] IN
    /\ pc[r] = "connecting"
    /\ pc' = [pc EXCEPT ![r] = "publishing"]
    /\ client' = [client EXCEPT ![r] = "open"]
    /\ uses' = [uses EXCEPT ![r] = r]
    /\ cache' = [cache EXCEPT ![b] = r]
    /\ lastUsed' = [lastUsed EXCEPT ![b] = 0]
    /\ timer' = [timer EXCEPT ![b] = Idle]
    /\ strays' = [strays EXCEPT ![b] = @ \cup ({timer[b]} \ {NULL})]
    /\ adrift' = adrift \cup ({cache[b]} \ {NULL})
    /\ UNCHANGED <<at, waiting, shut>>

\* An error, or no answer for 15 seconds.  The client goes on trying.
GiveUp(r) ==
    /\ pc[r] = "connecting"
    /\ pc' = [pc EXCEPT ![r] = "ended"]
    /\ adrift' = adrift \cup {r}
    /\ UNCHANGED <<at, uses, client, entries, waiting, shut>>

Acknowledged(r) ==
    /\ pc[r] = "publishing" /\ client[uses[r]] = "open"
    /\ pc' = [pc EXCEPT ![r] = "ended"]
    /\ ScheduleIdleClose(at[r])
    /\ UNCHANGED <<at, uses, client, cache, lastUsed, strays, waiting, adrift, shut>>

PublishFails(r) ==
    /\ pc[r] = "publishing"
    /\ pc' = [pc EXCEPT ![r] = "ended"]
    /\ UNCHANGED <<at, uses, client, entries, waiting, adrift, shut>>

\* A timer of a replaced entry looks at the entry there is.
CloseIdle_Unasked(b) ==
    /\ cache' = [cache EXCEPT ![b] = NULL]
    /\ timer' = [timer EXCEPT ![b] = NULL]
    /\ client' = [r \in Requests |-> IF r = cache[b] THEN "ended" ELSE client[r]]
CloseIdle_StillOpen(b) ==
    IF cache[b] # NULL /\ lastUsed[b] < Idle
    THEN ScheduleIdleClose(b) /\ UNCHANGED <<cache, client>>
    ELSE /\ cache' = [cache EXCEPT ![b] = NULL]
         /\ timer' = [timer EXCEPT ![b] = NULL]
         /\ UNCHANGED client
CloseIdle(b) ==
    IF cache[b] # NULL /\ lastUsed[b] < Idle
    THEN ScheduleIdleClose(b) /\ UNCHANGED <<cache, client>>
    ELSE /\ cache' = [cache EXCEPT ![b] = NULL]
         /\ timer' = [timer EXCEPT ![b] = NULL]
         /\ client' = [r \in Requests |-> IF r = cache[b] THEN "ended" ELSE client[r]]

Due(b) ==
    /\ \/ timer[b] = 0 /\ UNCHANGED strays
       \/ 0 \in strays[b] /\ strays' = [strays EXCEPT ![b] = @ \ {0}]
    /\ CloseIdle(b)
    /\ UNCHANGED <<pc, at, uses, lastUsed, waiting, adrift, shut>>

OnModuleDestroy ==
    /\ shut' = TRUE
    /\ client' = [r \in Requests |-> IF cache[at[r]] = r THEN "ended" ELSE client[r]]
    /\ cache' = [b \in Branches |-> NULL]
    /\ timer' = [b \in Branches |-> NULL]
    /\ UNCHANGED <<pc, at, uses, lastUsed, strays, waiting, adrift>>

Less(t) == IF t = 0 THEN 0 ELSE t - 1
More(t) == IF t = Idle THEN Idle ELSE t + 1

Tick ==
    /\ timer' = [b \in Branches |-> IF timer[b] = NULL THEN NULL ELSE Less(timer[b])]
    /\ strays' = [b \in Branches |-> {Less(t) : t \in strays[b]}]
    /\ lastUsed' = [b \in Branches |-> More(lastUsed[b])]
    /\ waiting' = [r \in Requests |-> IF pc[r] = "publishing" THEN More(waiting[r]) ELSE waiting[r]]
    /\ UNCHANGED <<pc, at, uses, client, cache, adrift, shut>>

-----------------------------------------------------------------------------
Init ==
    /\ pc = [r \in Requests |-> "new"]
    /\ at \in [Requests -> Branches]
    /\ uses = [r \in Requests |-> r]
    /\ client = [r \in Requests |-> "none"]
    /\ cache = [b \in Branches |-> NULL]
    /\ lastUsed = [b \in Branches |-> 0]
    /\ timer = [b \in Branches |-> NULL]
    /\ strays = [b \in Branches |-> {}]
    /\ waiting = [r \in Requests |-> 0]
    /\ adrift = {} /\ shut = FALSE

Next ==
    \/ \E r \in Requests :
         \/ PublishCached(r) \/ Connect(r)
         \/ Connected(r) \/ GiveUp(r)
         \/ Acknowledged(r) \/ PublishFails(r)
    \/ \E b \in Branches : Due(b)
    \/ OnModuleDestroy
    \/ Tick

Spec == Init /\ [][Next]_vars

\* Time passes, and the event loop comes to every timer that is due.
FairSpec == Spec /\ WF_vars(Tick) /\ \A b \in Branches : WF_vars(Due(b))

-----------------------------------------------------------------------------
\* However late or stray the timer, a client is ended under a publish only
\* when that publish has waited for the broker for IDLE_MS.
InUse ==
    \A r \in Requests :
        pc[r] = "publishing" /\ client[uses[r]] = "ended" => waiting[r] = Idle \/ shut

\* A client that is not ended is being connected or in the cache, and a cached
\* one is open, but for clients replaced by a concurrent connect and those
\* whose connect was given up: those are never ended.
NoOtherLeak ==
    /\ \A r \in Requests : client[r] \in {"connecting", "open"} =>
         pc[r] = "connecting" \/ cache[at[r]] = r \/ r \in adrift
    /\ \A b \in Branches : cache[b] # NULL => client[cache[b]] = "open"

\* A client does not stay in the cache for ever.
Closed == \A b \in Branches : cache[b] # NULL ~> cache[b] = NULL
=============================================================================
