--------------------------- MODULE PresenceProofs ---------------------------
(***************************************************************************)
(* NoGhost and Listed for any number of sockets, users and apartments.     *)
(* They need that a socket is at one place at most, one of its own user,   *)
(* that a closed socket is nowhere, and that sockets which are at a place  *)
(* together are recorded in shared: the first to go unlists the other.     *)
(***************************************************************************)
EXTENDS Presence, TLAPS

MetaOK ==
    \A s \in Sockets : \A p \in socketMeta[s] :
        /\ state[s] = "open"
        /\ p[3] = data[s].user
        /\ \A q \in socketMeta[s] : q = p

SharedOK ==
    \A s, t \in Sockets : s # t => socketMeta[s] \cap socketMeta[t] \subseteq shared

IInv == TypeOK /\ MetaOK /\ SharedOK /\ NoGhost /\ Listed

LEMMA InitIInv == Init => IInv
  BY DEF Init, IInv, TypeOK, MetaOK, SharedOK, NoGhost, Listed

\* A known socket acts for a user and a place.
LEMMA KnownPlace ==
    ASSUME TypeOK, NEW s \in Sockets, Known(s), NEW a \in Apartments
    PROVE  /\ Place(s, a) \in Places /\ Place(s, a)[3] = data[s].user
           /\ data[s].user \in Users
  BY PresenceAssumption DEF TypeOK, Data, Known, Place, Places

\* Entering: the socket goes from where it was to p.
LEMMA EnterStep ==
    ASSUME IInv, NEW s \in Sockets, NEW a \in Apartments, OnApartmentEnter(s, a)
    PROVE  IInv'
  <1> DEFINE p == Place(s, a)
  <1>0. p \in Places /\ p[3] = data[s].user /\ data[s].user \in Users
    BY KnownPlace DEF OnApartmentEnter, IInv
  <1>1. /\ presence' = (presence \ socketMeta[s]) \cup {p}
        /\ socketMeta' = [socketMeta EXCEPT ![s] = {p}]
        /\ shared \subseteq shared' /\ shared' \subseteq shared \cup {p}
        /\ (\E t \in Sockets \ {s} : p \in socketMeta[t]) => p \in shared'
        /\ state' = state /\ data' = data /\ strays' = strays
        /\ state[s] = "open"
    BY DEF OnApartmentEnter, Entered, Known
  <1>2. /\ socketMeta'[s] = {p}
        /\ \A t \in Sockets \ {s} : socketMeta'[t] = socketMeta[t]
    BY <1>1 DEF IInv, TypeOK
  <1>3. TypeOK'
    BY <1>0, <1>1 DEF IInv, TypeOK
  <1>4. MetaOK'
    BY <1>0, <1>1, <1>2 DEF IInv, MetaOK
  <1>5. NoGhost'
    <2> SUFFICES ASSUME NEW q \in presence', q[3] \notin strays
                 PROVE  \E t \in Sockets : state[t] = "open" /\ q \in socketMeta'[t]
      BY <1>1 DEF NoGhost
    <2>1. CASE q = p
      BY <1>1, <1>2, <2>1
    <2>2. CASE q # p
      <3>1. q \in presence /\ q \notin socketMeta[s]
        BY <1>1, <2>2
      <3>2. PICK t \in Sockets : state[t] = "open" /\ q \in socketMeta[t]
        BY <3>1 DEF IInv, NoGhost
      <3> QED
        BY <1>2, <3>1, <3>2
    <2> QED
      BY <2>1, <2>2
  <1>6. Listed'
    <2> SUFFICES ASSUME NEW t \in Sockets, NEW q \in socketMeta'[t], q[3] \notin strays
                 PROVE  q \in presence' \/ q \in shared'
      BY <1>1 DEF Listed
    <2>1. CASE t = s \/ q = p
      BY <1>1, <1>2, <2>1
    <2>2. CASE t # s /\ q # p
      <3>1. q \in socketMeta[t] /\ (q \in presence \/ q \in shared)
        BY <1>2, <2>2 DEF IInv, Listed
      <3>2. CASE q \in socketMeta[s]
        BY <1>1, <2>2, <3>1, <3>2 DEF IInv, SharedOK
      <3>3. CASE q \notin socketMeta[s]
        BY <1>1, <3>1, <3>3
      <3> QED
        BY <3>2, <3>3
    <2> QED
      BY <2>1, <2>2
  <1>7. SharedOK'
    <2> SUFFICES ASSUME NEW t \in Sockets, NEW v \in Sockets, t # v,
                        NEW q \in socketMeta'[t] \cap socketMeta'[v]
                 PROVE  q \in shared'
      BY DEF SharedOK
    <2>1. CASE t = s \/ v = s
      BY <1>1, <1>2, <2>1
    <2>2. CASE t # s /\ v # s
      BY <1>1, <1>2, <2>2 DEF IInv, SharedOK
    <2> QED
      BY <2>1, <2>2
  <1> QED
    BY <1>3, <1>4, <1>5, <1>6, <1>7 DEF IInv

\* The place p is taken off the list and the socket s is nowhere: by leaving
\* or by closing.  Another socket at p is at a shared place.
LEMMA GoneStep ==
    ASSUME IInv, TypeOK', NEW s \in Sockets, NEW S, presence' = presence \ S,
           socketMeta' = [socketMeta EXCEPT ![s] = {}],
           data' = data, shared' = shared, strays \subseteq strays',
           \A t \in Sockets \ {s} : state'[t] = state[t],
           \A p \in socketMeta[s] : p \in S \/ p[3] \in strays',
           \A p \in S : p \in socketMeta[s] \/ p[3] \in strays'
    PROVE  IInv'
  <1>1. /\ socketMeta'[s] = {}
        /\ \A t \in Sockets \ {s} : socketMeta'[t] = socketMeta[t]
    BY DEF IInv, TypeOK
  <1>2. MetaOK' /\ SharedOK'
    BY <1>1 DEF IInv, MetaOK, SharedOK
  <1>3. NoGhost'
    <2> SUFFICES ASSUME NEW q \in presence', q[3] \notin strays'
                 PROVE  \E t \in Sockets : state'[t] = "open" /\ q \in socketMeta'[t]
      BY DEF NoGhost
    <2>1. PICK t \in Sockets : state[t] = "open" /\ q \in socketMeta[t]
      BY DEF IInv, NoGhost
    <2>2. t # s
      BY <2>1
    <2> QED
      BY <1>1, <2>1, <2>2
  <1>4. Listed'
    <2> SUFFICES ASSUME NEW t \in Sockets, NEW q \in socketMeta'[t],
                        q[3] \notin strays'
                 PROVE  q \in presence' \/ q \in shared
      BY DEF Listed
    <2>1. t # s /\ q \in socketMeta[t] /\ (q \in presence \/ q \in shared)
      BY <1>1 DEF IInv, Listed
    <2>2. CASE q \in S
      BY <2>1, <2>2 DEF IInv, SharedOK
    <2>3. CASE q \notin S
      BY <2>1, <2>3
    <2> QED
      BY <2>2, <2>3
  <1> QED
    BY <1>2, <1>3, <1>4 DEF IInv

LEMMA LeaveStep ==
    ASSUME IInv, NEW s \in Sockets, NEW a \in Apartments, OnApartmentLeave(s, a)
    PROVE  IInv'
  <1> DEFINE p == Place(s, a)
  <1>0. p \in Places /\ p[3] = data[s].user /\ data[s].user \in Users
    BY KnownPlace DEF OnApartmentLeave, IInv
  <1>1. /\ presence' = presence \ {p}
        /\ socketMeta' = [socketMeta EXCEPT ![s] = {}]
        /\ strays' = IF p \in socketMeta[s] THEN strays ELSE strays \cup {data[s].user}
        /\ state' = state /\ data' = data /\ shared' = shared
    BY DEF OnApartmentLeave
  <1>2. TypeOK'
    BY <1>0, <1>1 DEF IInv, TypeOK
  <1>3. \A q \in socketMeta[s] : q = p \/ q[3] \in strays'
    BY <1>0, <1>1 DEF IInv, MetaOK
  <1>4. p \in socketMeta[s] \/ p[3] \in strays'
    BY <1>0, <1>1
  <1> HIDE DEF p
  <1>5. PICK S : S = {p}
    OBVIOUS
  <1>6. /\ presence' = presence \ S
        /\ socketMeta' = [socketMeta EXCEPT ![s] = {}]
        /\ data' = data /\ shared' = shared /\ strays \subseteq strays'
        /\ \A t \in Sockets \ {s} : state'[t] = state[t]
        /\ \A q \in socketMeta[s] : q \in S \/ q[3] \in strays'
        /\ \A q \in S : q \in socketMeta[s] \/ q[3] \in strays'
    BY <1>1, <1>3, <1>4, <1>5
  <1> QED
    BY <1>2, <1>6, GoneStep

LEMMA DisconnectStep ==
    ASSUME IInv, NEW s \in Sockets, HandleDisconnect(s)
    PROVE  IInv'
  <1>1. /\ presence' = presence \ socketMeta[s]
        /\ socketMeta' = [socketMeta EXCEPT ![s] = {}]
        /\ state' = [state EXCEPT ![s] = "closed"]
        /\ data' = data /\ shared' = shared /\ strays' = strays
    BY DEF HandleDisconnect, Remaining
  <1>2. TypeOK' /\ \A t \in Sockets \ {s} : state'[t] = state[t]
    BY <1>1 DEF IInv, TypeOK
  <1>3. PICK S : S = socketMeta[s]
    OBVIOUS
  <1>4. /\ presence' = presence \ S
        /\ socketMeta' = [socketMeta EXCEPT ![s] = {}]
        /\ data' = data /\ shared' = shared /\ strays \subseteq strays'
        /\ \A q \in socketMeta[s] : q \in S \/ q[3] \in strays'
        /\ \A q \in S : q \in socketMeta[s] \/ q[3] \in strays'
    BY <1>1, <1>3
  <1> QED
    BY <1>2, <1>4, GoneStep

LEMMA NextIInv == IInv /\ [Next]_vars => IInv'
  <1> SUFFICES ASSUME IInv, [Next]_vars
               PROVE  IInv'
    OBVIOUS
  <1>1. ASSUME NEW s \in Sockets, Connect(s)
        PROVE  IInv'
    BY <1>1 DEF Connect, IInv, TypeOK, MetaOK, SharedOK, NoGhost, Listed
  <1>2. ASSUME NEW s \in Sockets, NEW b \in Branches, NEW u \in Users \cup {NULL},
               HandleConnection(s, b, u)
        PROVE  IInv'
    <2>1. socketMeta[s] = {}
      BY <1>2 DEF HandleConnection, IInv, TypeOK, MetaOK
    <2>2. TypeOK'
      BY <1>2 DEF HandleConnection, IInv, TypeOK, Data
    <2>3. MetaOK' /\ SharedOK' /\ NoGhost' /\ Listed'
      BY <1>2, <2>1
         DEF HandleConnection, IInv, TypeOK, MetaOK, SharedOK, NoGhost, Listed
    <2> QED
      BY <2>2, <2>3 DEF IInv
  <1>3. CASE Restart
    BY <1>3 DEF Restart, IInv, TypeOK, MetaOK, SharedOK, NoGhost, Listed
  <1>4. CASE UNCHANGED vars
    BY <1>4 DEF vars, IInv, TypeOK, MetaOK, SharedOK, NoGhost, Listed
  <1> QED
    BY <1>1, <1>2, <1>3, <1>4, EnterStep, LeaveStep, DisconnectStep
       DEF Next, SocketStep

THEOREM Consistent == Spec => []IInv
  BY InitIInv, NextIInv, PTL DEF Spec

\* Nobody is listed without an open socket at that apartment, for any number
\* of sockets and tabs, if he leaves only where he is.
THEOREM NoGhostHolds == Spec => []NoGhost
  BY Consistent, PTL DEF IInv

\* A socket at an apartment keeps its user listed there, unless a second
\* socket of the same user has been there with it.
THEOREM ListedHolds == Spec => []Listed
  BY Consistent, PTL DEF IInv
=============================================================================
