------------------------------ MODULE Presence ------------------------------
(***************************************************************************)
(* RealtimeGateway: who is looking at which apartment of a branch.         *)
(*                                                                         *)
(* The table presence is kept by user, socketMeta by socket; nothing but   *)
(* the handlers keeps the two in step while sockets connect, enter, leave  *)
(* and drop and one user has several tabs open.  handleConnection awaits;  *)
(* the message handlers and handleDisconnect are synchronous, one step     *)
(* each.  A viewer's name and phase (viewing, editing) are left out, and   *)
(* so is the room: every change of the table is emitted to it at once.     *)
(* An operator named Op_Flaw is Op with one mistake in it.                 *)
(***************************************************************************)
EXTENDS FiniteSets

CONSTANTS Sockets, Branches, Apartments, Users, NULL

ASSUME PresenceAssumption == NULL \notin Users

\* branchId -> apartmentId -> userId
Places == Branches \X Apartments \X Users

VARIABLES
    state,      \* of a socket: closed, checking (handleConnection awaits), open
    data,       \* client.data: the branch and the user, NULL without a token
    socketMeta, \* the place a socket is at: {} or {place}
    presence,   \* the places somebody is listed at
    \* History of what clients did, read by properties and never by a guard:
    shared,     \* places that two sockets of one user have been at together
    strays      \* users who left an apartment that the socket was not at

vars == <<state, data, socketMeta, presence, shared, strays>>

Data == [branch : Branches, user : Users \cup {NULL}]

TypeOK ==
    /\ state \in [Sockets -> {"closed", "checking", "open"}]
    /\ data \in [Sockets -> Data]
    /\ socketMeta \in [Sockets -> SUBSET Places]
    /\ presence \subseteq Places
    /\ shared \subseteq Places
    /\ strays \subseteq Users

Place(s, a) == <<data[s].branch, a, data[s].user>>
Known(s) == state[s] = "open" /\ data[s].user # NULL

Connect(s) ==
    /\ state[s] = "closed"
    /\ state' = [state EXCEPT ![s] = "checking"]
    /\ UNCHANGED <<data, socketMeta, presence, shared, strays>>

\* The token is valid and its user may read the branch, or there is no token
\* and the branch is public.
HandleConnection(s, b, u) ==
    /\ state[s] = "checking"
    /\ state' = [state EXCEPT ![s] = "open"]
    /\ data' = [data EXCEPT ![s] = [branch |-> b, user |-> u]]
    /\ UNCHANGED <<socketMeta, presence, shared, strays>>

\* apartment.enter; without a user it is refused.
Entered_KeepPrevious(s, p) == presence \cup {p}
Entered(s, p) == (presence \ socketMeta[s]) \cup {p}
OnApartmentEnter(s, a) ==
    /\ Known(s)
    /\ LET p == Place(s, a)
       IN  /\ presence' = Entered(s, p)
           /\ socketMeta' = [socketMeta EXCEPT ![s] = {p}]
           /\ shared' = IF \E t \in Sockets \ {s} : p \in socketMeta[t]
                        THEN shared \cup {p} ELSE shared
    /\ UNCHANGED <<state, data, strays>>

\* apartment.leave: the apartment is the client's word, not socketMeta's.
OnApartmentLeave(s, a) ==
    /\ Known(s)
    /\ presence' = presence \ {Place(s, a)}
    /\ socketMeta' = [socketMeta EXCEPT ![s] = {}]
    /\ strays' = IF Place(s, a) \in socketMeta[s] THEN strays
                 ELSE strays \cup {data[s].user}
    /\ UNCHANGED <<state, data, shared>>

\* A refused connection, a closed tab, a lost network.
Remaining_NoneOfUser(s) == {p \in presence : p[3] # data[s].user}
Remaining(s) == presence \ socketMeta[s]
HandleDisconnect(s) ==
    /\ state[s] # "closed"
    /\ state' = [state EXCEPT ![s] = "closed"]
    /\ presence' = Remaining(s)
    /\ socketMeta' = [socketMeta EXCEPT ![s] = {}]
    /\ UNCHANGED <<data, shared, strays>>

\* Both tables are in memory, and a restart closes every socket.
Restart ==
    /\ state' = [s \in Sockets |-> "closed"]
    /\ socketMeta' = [s \in Sockets |-> {}]
    /\ presence' = {}
    /\ UNCHANGED <<data, shared, strays>>

-----------------------------------------------------------------------------
Init ==
    /\ state = [s \in Sockets |-> "closed"]
    /\ data \in [Sockets -> Data]
    /\ socketMeta = [s \in Sockets |-> {}]
    /\ presence = {} /\ shared = {} /\ strays = {}

SocketStep(s) ==
    \/ Connect(s)
    \/ \E b \in Branches, u \in Users \cup {NULL} : HandleConnection(s, b, u)
    \/ \E a \in Apartments : OnApartmentEnter(s, a) \/ OnApartmentLeave(s, a)
    \/ HandleDisconnect(s)

Next == Restart \/ \E s \in Sockets : SocketStep(s)

Spec == Init /\ [][Next]_vars

-----------------------------------------------------------------------------
\* No ghosts: whoever is listed at an apartment has a socket there, so that
\* a closed tab or a lost network takes him off the list; unless he once
\* left an apartment from a socket that was at another one.
NoGhost ==
    \A p \in presence :
        p[3] \in strays \/ \E s \in Sockets : state[s] = "open" /\ p \in socketMeta[s]

\* Whoever is at an apartment is listed there, although his other tabs enter,
\* leave and drop; unless two of his sockets met at that apartment (the first
\* to go takes the other off the list) or he strayed.
Listed ==
    \A s \in Sockets : \A p \in socketMeta[s] :
        p \in presence \/ p \in shared \/ p[3] \in strays
=============================================================================
