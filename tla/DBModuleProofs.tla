----------------------------- MODULE DBModuleProofs -----------------------------
(***************************************************************************)
(* Proofs about module ConnectionPool, for any number of connections,      *)
(* attempts, users and outages, and about module DBModule, which joins the *)
(* connection pool with the thread pool.                                   *)
(***************************************************************************)
EXTENDS DBModule, ThreadPoolProofs

(***************************************************************************)
(* How far the construction is, and what each user has.                    *)
(***************************************************************************)

BuildInv ==
    /\ \A c \in Conns : attempt[c] = "trying" => tries[c] < Attempts
    /\ \A c \in 1..collected : attempt[c] # "trying"
    /\ phase # "closed" => finished = {}
    /\ phase = "called" => /\ collected = 0
                           /\ conns_deque = <<>>
                           /\ conns_established = 0
                           /\ \A u \in Users : upc[u] = "idle"
                           /\ \A c \in Conns : attempt[c] = "none" /\ tries[c] = 0
    /\ phase = "connecting" => \A c \in Conns : attempt[c] # "none"

UserInv ==
    /\ \A u \in Users : conn[u] # NoConn <=> upc[u] # "idle"
    /\ HandedOutIsGood

ConnInv == CPTypeOK /\ BuildInv /\ UserInv

LEMMA ConnInit == CPInit => ConnInv
<1> SUFFICES ASSUME CPInit PROVE ConnInv
  OBVIOUS
<1>1. CPTypeOK
  <2>1. 0 \in 0..Attempts /\ 0 \in 0..ConnCount /\ 0 \in 0..MaxOutages
    BY ConnectionPoolAssumption
  <2>2. conns_deque \in Seq(Conns)
    BY DEF CPInit
  <2> QED BY <2>1, <2>2 DEF CPInit, CPTypeOK, UserStates
<1>2. BuildInv
  BY ConnectionPoolAssumption DEF CPInit, BuildInv
<1>3. UserInv
  BY ConnectionPoolAssumption DEF CPInit, UserInv, HandedOutIsGood
<1> QED BY <1>1, <1>2, <1>3 DEF ConnInv

\* Of two users with a connection each has its own.
Apart == \A u, v \in Users : conn[u] = conn[v] /\ conn[u] # NoConn => u = v

LEMMA ConnStep == ConnInv /\ Apart /\ [CPNext]_cpVars => ConnInv'
<1> SUFFICES ASSUME ConnInv, Apart, [CPNext]_cpVars PROVE ConnInv'
  OBVIOUS
<1> USE ConnectionPoolAssumption
    DEF ConnInv, CPTypeOK, BuildInv, UserInv, HandedOutIsGood, UserStates, buildVars, envVars,
        userVars, Conns, Connect, TryToConnect
<1>0. CASE WithoutParameters
  BY <1>0 DEF WithoutParameters
<1>00. CASE make_connections
  <2>1. /\ attempt' \in [Conns -> {"none", "trying", "established", "nullptr"}]
        /\ \A c \in Conns : tries'[c] = 0
    BY <1>00 DEF make_connections
  <2> QED BY <1>00, <2>1 DEF make_connections
<1>1. ASSUME NEW c \in Conns, Connect(c) PROVE ConnInv'
  <2>1. /\ tries[c] \in 0..Attempts
        /\ tries[c] < Attempts
        /\ tries' = [tries EXCEPT ![c] = tries[c] + 1]
        /\ attempt' \in [Conns -> {"none", "trying", "established", "nullptr"}]
        /\ \A d \in Conns : d # c => attempt'[d] = attempt[d] /\ tries'[d] = tries[d]
    BY <1>1
  <2>2. tries[c] + 1 \in 0..Attempts /\ tries[c] + 1 \in 1..Attempts
    BY <2>1
  <2>3. tries' \in [Conns -> 0..Attempts] /\ tries'[c] = tries[c] + 1
    BY <2>1, <2>2
  <2>4. attempt'[c] = "trying" => tries'[c] < Attempts
    BY <1>1, <2>1, <2>2, <2>3
  <2>5. /\ status' \in [Conns -> {"OK", "BAD"}]
        /\ link' \in [Conns -> BOOLEAN]
        /\ \A d \in Conns : status[d] = "OK" => status'[d] = "OK"
    BY <1>1 DEF Connect
  <2>6. CPTypeOK'
    <3>1. refused' \subseteq Conns \X (1..Attempts)
      BY <1>1, <2>2, <2>3
    <3> QED BY <1>1, <2>1, <2>3, <2>5, <3>1
  <2>7. BuildInv'
    <3>1. c \notin 1..collected
      BY <1>1 DEF Connect
    <3>2. 1..collected \subseteq Conns
      OBVIOUS
    <3> QED BY <1>1, <2>1, <2>4, <3>1, <3>2 DEF Connect
  <2>8. UserInv'
    BY <1>1, <2>5 DEF Connect
  <2> QED BY <2>6, <2>7, <2>8
<1>2. ASSUME NEW c \in Conns, Collect(c) PROVE ConnInv'
  <2>1. conns_deque' \in Seq(Conns)
    BY <1>2, AppendElements DEF Collect
  <2> QED BY <1>2, <2>1 DEF Collect
<1>3. CASE Established
  BY <1>3 DEF Established
<1>4. ASSUME NEW u \in Users, Pop(u) PROVE ConnInv'
  <2>1. Head(conns_deque) \in Conns /\ Tail(conns_deque) \in Seq(Conns)
    BY <1>4, TailElements DEF Pop
  <2> QED BY <1>4, <2>1 DEF Pop
<1>5. ASSUME NEW u \in Users, CheckStatus(u) PROVE ConnInv'
  BY <1>5 DEF CheckStatus
<1>6. ASSUME NEW u \in Users, Reset(u) PROVE ConnInv'
  <2>1. conn[u] \in Conns
    BY <1>6 DEF Reset
  <2>2. CASE upc'[u] = "held"
    <3>1. /\ status' \in [Conns -> {"OK", "BAD"}]
          /\ link' \in [Conns -> BOOLEAN]
          /\ status'[conn[u]] = "OK"
          /\ \A d \in Conns : status[d] = "OK" => status'[d] = "OK"
      <4>1. /\ status' = [status EXCEPT ![conn[u]] = "OK"]
            /\ link' = [link EXCEPT ![conn[u]] = TRUE]
        BY <1>6, <2>2 DEF Reset
      <4>2. status \in [Conns -> {"OK", "BAD"}] /\ link \in [Conns -> BOOLEAN]
        OBVIOUS
      <4>3. link' \in [Conns -> BOOLEAN]
        BY ONLY <4>1, <4>2, <2>1
      <4> QED BY ONLY <4>1, <4>2, <4>3, <2>1
    <3>2. /\ upc' \in [Users -> UserStates]
          /\ upc'[u] = "held"
          /\ \A v \in Users : v # u => upc'[v] = upc[v]
          /\ UNCHANGED <<conn, leaked>>
      BY <1>6, <2>2 DEF Reset
    <3>3. CPTypeOK' /\ BuildInv'
      BY <1>6, <3>1, <3>2 DEF Reset
    <3>4. UserInv'
      BY <2>1, <3>1, <3>2, <1>6 DEF Reset
    <3> QED BY <3>3, <3>4
  <2>3. CASE upc'[u] # "held"
    <3>1. /\ upc' \in [Users -> UserStates]
          /\ conn' \in [Users -> Conns \cup {NoConn}]
          /\ upc'[u] = "idle" /\ conn'[u] = NoConn
          /\ \A v \in Users : v # u => upc'[v] = upc[v] /\ conn'[v] = conn[v]
          /\ leaked' = leaked \cup {conn[u]}
          /\ UNCHANGED <<status, link>>
      <4>1. /\ upc' = [upc EXCEPT ![u] = "idle"]
            /\ conn' = [conn EXCEPT ![u] = NoConn]
            /\ leaked' = leaked \cup {conn[u]}
            /\ UNCHANGED <<status, link>>
        BY <1>6, <2>3 DEF Reset
      <4> QED BY <4>1
    <3>2. UNCHANGED <<phase, tries, attempt, collected, conns_established, refused, conns_deque,
                      server, outages, finished, failures>>
      BY <1>6 DEF Reset
    <3>3. leaked' \subseteq Conns
      BY <2>1, <3>1
    <3>4. CPTypeOK'
      BY <3>1, <3>2, <3>3
    <3>5. BuildInv'
      BY <1>6, <3>2 DEF Reset
    <3>6. UserInv'
      <4> SUFFICES ASSUME NEW v \in Users
                   PROVE  /\ conn'[v] # NoConn <=> upc'[v] # "idle"
                          /\ upc'[v] \in {"held", "sent"} => status'[conn'[v]] = "OK"
        OBVIOUS
      <4>1. CASE v = u
        BY <3>1, <4>1
      <4>2. CASE v # u
        BY <3>1, <4>2
      <4> QED BY <4>1, <4>2
    <3> QED BY <3>4, <3>5, <3>6
  <2> QED BY <2>2, <2>3
<1>7. ASSUME NEW u \in Users, Send(u) PROVE ConnInv'
  BY <1>7 DEF Send
<1>8. ASSUME NEW u \in Users, Receive(u) PROVE ConnInv'
  <2>1. /\ conn[u] \in Conns
        /\ \A v \in Users : v # u => conn[v] # conn[u]
    BY <1>8 DEF Receive, Apart
  <2>2. /\ status' \in [Conns -> {"OK", "BAD"}]
        /\ failures' \in Nat
        /\ \A d \in Conns : d # conn[u] => status'[d] = status[d]
    <3>1. CASE Succeeds(u)
      BY <1>8, <3>1 DEF Receive
    <3>2. CASE ~Succeeds(u)
      <4>1. /\ status' = [status EXCEPT ![conn[u]] = "BAD"]
            /\ failures' = failures + 1
        BY <1>8, <3>2 DEF Receive
      <4> QED BY <2>1, <4>1
    <3> QED BY <3>1, <3>2
  <2>3. /\ upc' \in [Users -> UserStates]
        /\ upc'[u] = "used"
        /\ \A v \in Users : v # u => upc'[v] = upc[v]
        /\ conn' = conn
    BY <1>8 DEF Receive
  <2>4. CPTypeOK' /\ BuildInv'
    BY <1>8, <2>2, <2>3 DEF Receive
  <2>5. UserInv'
    BY <2>1, <2>2, <2>3, <1>8 DEF Receive
  <2> QED BY <2>4, <2>5
<1>9. ASSUME NEW u \in Users, push_connection(u) PROVE ConnInv'
  <2>1. <<conn[u]>> \o conns_deque \in Seq(Conns)
    BY <1>9, ConsElements DEF push_connection
  <2> QED BY <1>9, <2>1 DEF push_connection
<1>10. CASE Close
  <2>1. InDeque \subseteq Conns
    BY DEF InDeque
  <2> QED BY <1>10, <2>1 DEF Close
<1>11. CASE ServerDown
  <2>1. outages + 1 \in 0..MaxOutages
    BY <1>11 DEF ServerDown
  <2>2. link' \in [Conns -> BOOLEAN]
    BY <1>11 DEF ServerDown
  <2> QED BY <1>11, <2>1, <2>2 DEF ServerDown
<1>12. CASE ServerUp
  BY <1>12 DEF ServerUp
<1>13. CASE UNCHANGED cpVars
  BY <1>13 DEF cpVars
<1> HIDE DEF Connect
<1> QED BY <1>0, <1>00, <1>1, <1>2, <1>3, <1>4, <1>5, <1>6, <1>7, <1>8, <1>9, <1>10, <1>11,
           <1>12, <1>13
        DEF CPNext, UserStep, Closed

(***************************************************************************)
(* Ownership.                                                              *)
(***************************************************************************)

\* A user that pops a connection holds it, alone.
LEMMA PopTakes ==
    ASSUME ConnInv, NEW u \in Users, Pop(u)
    PROVE  /\ conns_deque # <<>>
           /\ conns_deque' = Tail(conns_deque)
           /\ conn'[u] = Head(conns_deque)
           /\ \A v \in Users : v # u => conn'[v] = conn[v]
           /\ InUse' = InUse \cup {Head(conns_deque)}
<1>1. /\ conns_deque # <<>>
      /\ conns_deque' = Tail(conns_deque)
      /\ conn'[u] = Head(conns_deque)
      /\ \A v \in Users : v # u => conn'[v] = conn[v]
      /\ conn[u] = NoConn
  BY DEF Pop, ConnInv, CPTypeOK, UserInv
<1>2. Head(conns_deque) # NoConn
  BY <1>1, TailElements, ConnectionPoolAssumption DEF ConnInv, CPTypeOK
<1> QED BY <1>1, <1>2 DEF InUse

\* A user that gives its connection away, or up, has none.
LEMMA ReleaseFrees ==
    ASSUME ConnInv, Apart, NEW u \in Users, upc[u] # "idle",
           conn' = [conn EXCEPT ![u] = NoConn]
    PROVE  /\ conn[u] \in Conns
           /\ conn[u] \in InUse
           /\ InUse' = InUse \ {conn[u]}
           /\ Apart'
<1>1. conn[u] # NoConn /\ conn[u] \in Conns
  BY DEF ConnInv, CPTypeOK, UserInv
<1>2. /\ conn'[u] = NoConn
      /\ \A v \in Users : v # u => conn'[v] = conn[v]
  BY DEF ConnInv, CPTypeOK
<1>3. \A v \in Users : v # u => conn[v] # conn[u]
  BY <1>1 DEF Apart
<1> QED BY <1>1, <1>2, <1>3 DEF InUse, Apart

LEMMA OwnershipStep == ConnInv /\ ExclusiveOwnership /\ [CPNext]_cpVars => ExclusiveOwnership'
<1> SUFFICES ASSUME ConnInv, ExclusiveOwnership, [CPNext]_cpVars PROVE ExclusiveOwnership'
  OBVIOUS
<1>a. /\ conns_deque \in Seq(Conns)
      /\ Distinct(conns_deque)
      /\ Apart
      /\ collected \in Nat
  BY ConnectionPoolAssumption DEF ConnInv, CPTypeOK, ExclusiveOwnership, Distinct, Apart
<1>b. InDeque = Elements(conns_deque) /\ InDeque' = Elements(conns_deque')
  BY DEF InDeque, Elements
<1>u. upc \in [Users -> UserStates]
  BY DEF ConnInv, CPTypeOK
<1> USE DEF buildVars, envVars, userVars
<1>0. ASSUME UNCHANGED <<conns_deque, conn, leaked, finished, Pooled>>
      PROVE  ExclusiveOwnership'
  BY <1>0 DEF ExclusiveOwnership, InDeque, InUse
<1>1. ASSUME NEW c \in Conns, Connect(c) PROVE ExclusiveOwnership'
  <2>1. c \notin 1..collected
    BY <1>1 DEF Connect, TryToConnect, ConnInv, BuildInv
  <2>2. \A d \in 1..collected : attempt'[d] = attempt[d]
    <3>1. 1..collected \subseteq Conns
      BY ConnectionPoolAssumption DEF ConnInv, CPTypeOK, Conns
    <3>2. \A d \in Conns : d # c => attempt'[d] = attempt[d]
      BY <1>1 DEF Connect, TryToConnect, ConnInv, CPTypeOK
    <3> QED BY <2>1, <3>1, <3>2
  <2>3. Pooled' = Pooled
    BY <1>1, <2>2 DEF Connect, TryToConnect, Pooled
  <2> QED BY <1>0, <1>1, <2>3 DEF Connect, TryToConnect
<1>2. ASSUME NEW c \in Conns, Collect(c) PROVE ExclusiveOwnership'
  <2>1. c \notin Pooled /\ collected' = collected + 1 /\ c = collected + 1
    BY <1>2, <1>a DEF Collect, Pooled
  <2>2. UNCHANGED <<attempt, conn, leaked, finished, InUse>>
    BY <1>2 DEF Collect, InUse
  <2>3. CASE attempt[c] = "established"
    <3>1. Pooled' = Pooled \cup {c}
      BY <2>1, <2>2, <2>3, <1>a DEF Pooled
    <3>2. conns_deque' = Append(conns_deque, c)
      BY <1>2, <2>3 DEF Collect
    <3>3. c \notin InDeque /\ c \notin InUse /\ c \notin leaked /\ c \notin finished
      BY <2>1 DEF ExclusiveOwnership
    <3>4. InDeque' = InDeque \cup {c} /\ Distinct(conns_deque')
      BY <1>a, <1>b, <3>2, <3>3, AppendElements
    <3> QED BY <2>2, <3>1, <3>3, <3>4 DEF ExclusiveOwnership, Distinct
  <2>4. CASE attempt[c] # "established"
    <3>1. Pooled' = Pooled
      BY <2>1, <2>2, <2>4, <1>a DEF Pooled
    <3> QED BY <1>0, <1>2, <2>4, <3>1 DEF Collect
  <2> QED BY <2>3, <2>4
<1>3. ASSUME NEW u \in Users, Pop(u) PROVE ExclusiveOwnership'
  <2> DEFINE h == Head(conns_deque)
  <2>1. /\ conns_deque # <<>>
        /\ conns_deque' = Tail(conns_deque)
        /\ conn'[u] = h
        /\ \A v \in Users : v # u => conn'[v] = conn[v]
        /\ InUse' = InUse \cup {h}
    BY <1>3, PopTakes
  <2>2. /\ h \in Conns
        /\ InDeque = {h} \cup InDeque'
        /\ h \notin InDeque'
        /\ Distinct(conns_deque')
    BY <2>1, <1>a, <1>b, TailElements
  <2>3. UNCHANGED <<Pooled, leaked, finished>>
    BY <1>3 DEF Pop, Pooled
  <2>4. \A v \in Users : v # u => conn[v] # h
    <3> SUFFICES ASSUME NEW v \in Users, conn[v] = h PROVE FALSE
      OBVIOUS
    <3>1. h \in InUse
      BY <2>2, ConnectionPoolAssumption DEF InUse
    <3> QED BY <2>2, <3>1 DEF ExclusiveOwnership
  <2>5. Apart'
    BY <2>1, <2>4, <1>a DEF Apart
  <2> HIDE DEF h
  <2> QED BY <2>1, <2>2, <2>3, <2>5 DEF ExclusiveOwnership, Distinct, Apart
<1>4. ASSUME NEW u \in Users, Reset(u) PROVE ExclusiveOwnership'
  <2>1. UNCHANGED <<conns_deque, finished, Pooled>>
    BY <1>4 DEF Reset, Pooled
  <2>2. CASE upc'[u] = "held"
    BY <1>0, <1>4, <2>1, <2>2, <1>u DEF Reset
  <2>3. CASE upc'[u] # "held"
    <3>1. /\ upc[u] # "idle"
          /\ conn' = [conn EXCEPT ![u] = NoConn]
          /\ leaked' = leaked \cup {conn[u]}
      BY <1>4, <2>3, <1>u DEF Reset
    <3>2. /\ conn[u] \in InUse
          /\ InUse' = InUse \ {conn[u]}
          /\ Apart'
      BY <1>a, <3>1, ReleaseFrees
    <3>3. UNCHANGED InDeque
      BY <2>1 DEF InDeque
    <3> QED BY <2>1, <3>1, <3>2, <3>3 DEF ExclusiveOwnership, Apart
  <2> QED BY <1>4, <2>2, <2>3 DEF Reset
<1>5. ASSUME NEW u \in Users, push_connection(u) PROVE ExclusiveOwnership'
  <2>1. /\ upc[u] # "idle"
        /\ conn' = [conn EXCEPT ![u] = NoConn]
        /\ conns_deque' = <<conn[u]>> \o conns_deque
    BY <1>5 DEF push_connection
  <2>2. /\ conn[u] \in Conns
        /\ conn[u] \in InUse
        /\ InUse' = InUse \ {conn[u]}
        /\ Apart'
    BY <1>a, <2>1, ReleaseFrees
  <2>3. conn[u] \notin InDeque
    BY <2>2 DEF ExclusiveOwnership
  <2>4. InDeque' = InDeque \cup {conn[u]} /\ Distinct(conns_deque')
    BY <1>a, <1>b, <2>1, <2>2, <2>3, ConsElements
  <2>5. UNCHANGED <<Pooled, leaked, finished>>
    BY <1>5 DEF push_connection, Pooled
  <2> QED BY <2>2, <2>4, <2>5 DEF ExclusiveOwnership, Distinct, Apart
<1>6. CASE Close
  <2>1. InUse = {}
    BY <1>6 DEF Close, ConnInv, UserInv, InUse
  <2>2. /\ UNCHANGED <<Pooled, conn, InUse, leaked>>
        /\ finished = {} /\ finished' = InDeque
        /\ conns_deque' = <<>>
    BY <1>6 DEF Close, Pooled, InUse, ConnInv, BuildInv
  <2>3. InDeque' = {}
    BY <2>2 DEF InDeque
  <2> QED BY <2>1, <2>2, <2>3 DEF ExclusiveOwnership
<1>7. ASSUME NEW u \in Users, CheckStatus(u) \/ Send(u) \/ Receive(u) PROVE ExclusiveOwnership'
  BY <1>0, <1>7 DEF CheckStatus, Send, Receive, Pooled
<1>9. CASE WithoutParameters
  BY <1>0, <1>9 DEF WithoutParameters, Pooled
<1>10. CASE make_connections
  <2>1. collected = 0 /\ collected' = 0
    BY <1>10 DEF make_connections, ConnInv, BuildInv
  <2>2. Pooled' = Pooled
    BY <2>1 DEF Pooled
  <2> QED BY <1>0, <1>10, <2>2 DEF make_connections
<1>8. CASE Established \/ ServerDown \/ ServerUp \/ UNCHANGED cpVars
  BY <1>0, <1>8 DEF Established, ServerDown, ServerUp, cpVars, Pooled
<1> QED BY <1>1, <1>2, <1>3, <1>4, <1>5, <1>6, <1>7, <1>8, <1>9, <1>10 DEF CPNext, UserStep, Closed

PoolInv == ConnInv /\ ExclusiveOwnership

LEMMA PoolInvariant == CPSpec => []PoolInv
<1>1. CPInit => PoolInv
  <2> SUFFICES ASSUME CPInit PROVE PoolInv
    OBVIOUS
  <2>1. Pooled = {} /\ InDeque = {} /\ InUse = {}
    BY DEF CPInit, Pooled, InDeque, InUse
  <2> QED BY <2>1, ConnInit DEF PoolInv, CPInit, ExclusiveOwnership
<1>2. PoolInv /\ [CPNext]_cpVars => PoolInv'
  BY ConnStep, OwnershipStep DEF PoolInv, ExclusiveOwnership, Apart
<1> QED BY <1>1, <1>2, PTL DEF CPSpec

(* Every variable keeps its type: a connection is tried at most Attempts   *)
(* times, and no user runs a command without one.                          *)
THEOREM ConnectionPoolTypes == CPSpec => []CPTypeOK
BY PoolInvariant, PTL DEF PoolInv, ConnInv

(* A PGconn* is in one place at a time: no two threads ever use the same,  *)
(* and none disappears but by a reset that failed.                         *)
THEOREM Ownership == CPSpec => []ExclusiveOwnership
BY PoolInvariant, PTL DEF PoolInv

(* No command is sent over a connection known to be bad.                   *)
THEOREM GoodConnections == CPSpec => []HandedOutIsGood
BY PoolInvariant, PTL DEF PoolInv, ConnInv, UserInv

-------------------------------------------------------------------------------
(***************************************************************************)
(* What an outage costs.                                                   *)
(***************************************************************************)

\* The connections whose loss has not shown yet.
Stale == {c \in Conns : status[c] = "OK" /\ ~link[c]}

\* Every outage pays for one failure over each connection.
CostInv == failures + Cardinality(Stale) <= outages * ConnCount

LEMMA ConnsFinite ==
    /\ IsFiniteSet(Conns) /\ Cardinality(Conns) = ConnCount
    /\ \A S \in SUBSET Conns :
           IsFiniteSet(S) /\ Cardinality(S) \in Nat /\ Cardinality(S) <= ConnCount
<1>1. IsFiniteSet(Conns) /\ Cardinality(Conns) = ConnCount
  BY FS_Interval, ConnectionPoolAssumption DEF Conns
<1> QED BY <1>1, FS_Subset, FS_CardinalityType

LEMMA CostStep == PoolInv /\ CostInv /\ [CPNext]_cpVars => CostInv'
<1> SUFFICES ASSUME PoolInv, CostInv, [CPNext]_cpVars PROVE CostInv'
  OBVIOUS
<1>a. /\ failures \in Nat /\ outages \in Nat
      /\ IsFiniteSet(Stale) /\ Cardinality(Stale) \in Nat
      /\ ConnCount \in Nat /\ outages * ConnCount \in Nat
  <2>1. Stale \in SUBSET Conns
    BY DEF Stale
  <2> QED BY <2>1, ConnsFinite, ConnectionPoolAssumption DEF PoolInv, ConnInv, CPTypeOK
<1> USE DEF buildVars, envVars, userVars
\* A step that spoils no connection and fails no command.
<1>1. ASSUME Stale' \subseteq Stale, UNCHANGED <<failures, outages>> PROVE CostInv'
  <2>1. Cardinality(Stale') \in Nat /\ Cardinality(Stale') <= Cardinality(Stale)
    BY <1>1, <1>a, FS_Subset, FS_CardinalityType
  <2> HIDE DEF Stale
  <2> QED BY <1>1, <1>a, <2>1 DEF CostInv
<1>2. ASSUME NEW c \in Conns, Connect(c) PROVE CostInv'
  <2>1. Stale' \subseteq Stale
    BY <1>2 DEF Connect, TryToConnect, Stale, PoolInv, ConnInv, CPTypeOK
  <2> QED BY <1>1, <1>2, <2>1 DEF Connect, TryToConnect
<1>3. ASSUME NEW u \in Users, Reset(u) PROVE CostInv'
  <2>1. Stale' \subseteq Stale
    BY <1>3 DEF Reset, Stale, PoolInv, ConnInv, CPTypeOK
  <2> QED BY <1>1, <1>3, <2>1 DEF Reset
<1>4. ASSUME NEW u \in Users, Receive(u) PROVE CostInv'
  <2>1. CASE Succeeds(u)
    BY <1>1, <1>4, <2>1 DEF Receive, Stale
  <2>2. CASE ~Succeeds(u)
    <3>1. /\ status' = [status EXCEPT ![conn[u]] = "BAD"]
          /\ failures' = failures + 1
          /\ UNCHANGED <<link, outages>>
      BY <1>4, <2>2 DEF Receive
    <3>2. conn[u] \in Stale
      <4>1. conn[u] \in Conns /\ status[conn[u]] = "OK"
        BY <1>4 DEF Receive, PoolInv, ConnInv, CPTypeOK, UserInv, HandedOutIsGood
      <4> QED BY <2>2, <4>1 DEF Stale, Succeeds
    <3>3. Stale' = Stale \ {conn[u]}
      BY <3>1 DEF Stale, PoolInv, ConnInv, CPTypeOK
    <3>4. Cardinality(Stale') = Cardinality(Stale) - 1
      BY <1>a, <3>2, <3>3, FS_RemoveElement
    <3> QED BY <1>a, <3>1, <3>4 DEF CostInv
  <2> QED BY <2>1, <2>2
<1>5. CASE ServerDown
  <2>1. outages' = outages + 1 /\ failures' = failures
    BY <1>5 DEF ServerDown
  <2>2. Cardinality(Stale') \in Nat /\ Cardinality(Stale') <= ConnCount
    <3>1. Stale' \in SUBSET Conns
      BY DEF Stale
    <3> QED BY <3>1, ConnsFinite
  <2>3. (outages + 1) * ConnCount = outages * ConnCount + ConnCount
    BY <1>a
  <2> QED BY <1>a, <2>1, <2>2, <2>3 DEF CostInv
<1>6. ASSUME NEW c \in Conns, Collect(c) PROVE CostInv'
  BY <1>1, <1>6 DEF Collect, Stale
<1>7. ASSUME NEW u \in Users, Pop(u) \/ CheckStatus(u) \/ Send(u) \/ push_connection(u)
      PROVE  CostInv'
  BY <1>1, <1>7 DEF Pop, CheckStatus, Send, push_connection, Stale
<1>8. CASE WithoutParameters \/ make_connections \/ Established \/ Close \/ ServerUp
           \/ UNCHANGED cpVars
  BY <1>1, <1>8 DEF WithoutParameters, make_connections, Established, Close, ServerUp, cpVars, Stale
<1> QED BY <1>2, <1>3, <1>4, <1>5, <1>6, <1>7, <1>8 DEF CPNext, UserStep, Closed

(* An outage makes at most one command fail per connection, however many   *)
(* threads use the pool.                                                   *)
THEOREM OutageCost == CPSpec => []FailuresBounded
<1>1. CPInit => CostInv
  <2> SUFFICES ASSUME CPInit PROVE CostInv
    OBVIOUS
  <2>1. Stale = {} /\ failures = 0 /\ outages = 0
    BY DEF CPInit, Stale
  <2>2. 0 * ConnCount = 0
    BY ConnectionPoolAssumption
  <2> QED BY <2>1, <2>2, FS_EmptySet DEF CostInv
<1>2. PoolInv /\ CostInv => FailuresBounded
  <2> SUFFICES ASSUME PoolInv, CostInv PROVE FailuresBounded
    OBVIOUS
  <2>1. Stale \in SUBSET Conns
    BY DEF Stale
  <2>2. /\ Cardinality(Stale) \in Nat
        /\ failures \in Nat
        /\ outages * ConnCount \in Nat
    BY <2>1, ConnsFinite, ConnectionPoolAssumption DEF PoolInv, ConnInv, CPTypeOK
  <2> QED BY <2>2 DEF CostInv, FailuresBounded
<1> QED BY <1>1, <1>2, CostStep, PoolInvariant, PTL DEF CPSpec

-------------------------------------------------------------------------------
(***************************************************************************)
(* What a refusal costs, and a server that stays up.                       *)
(***************************************************************************)

Connected == {c \in Conns : attempt[c] = "established"}
Missing   == {c \in Conns : attempt[c] = "nullptr"}

\* Nobody pulls before the constructor has returned.
EarlyInv == phase \in {"called", "connecting"} => \A u \in Users : upc[u] = "idle"

\* Every attempt made at a connection that is not there was refused.
RefusedInv ==
    /\ \A c \in Conns : attempt[c] = "trying" => \A n \in 1..tries[c] : <<c, n>> \in refused
    /\ \A c \in Missing : \A n \in 1..Attempts : <<c, n>> \in refused

\* The deque gets the connections that were established.
TallyInv ==
    /\ phase = "connecting" => Len(conns_deque) = Cardinality(Pooled)
    /\ phase \in {"open", "closed"} =>
           \/ \A c \in Conns : attempt[c] = "none"
           \/ /\ Conns = Connected \cup Missing
              /\ conns_established = Cardinality(Connected)

Good(c) == attempt[c] = "established" => status[c] = "OK" /\ link[c]

HealthInv ==
    outages = 0 =>
        /\ \A c \in Conns : Good(c)
        /\ \A u \in Users : upc[u] # "reset"
        /\ phase = "open" => Len(conns_deque) + Cardinality(InUse) = conns_established

LEMMA EarlyStep == ConnInv /\ EarlyInv /\ [CPNext]_cpVars => EarlyInv'
<1> SUFFICES ASSUME ConnInv, EarlyInv, [CPNext]_cpVars,
                    phase' \in {"called", "connecting"}, NEW v \in Users
             PROVE  upc'[v] = "idle"
  BY DEF EarlyInv
<1> USE DEF userVars
<1>1. CASE phase \in {"called", "connecting"}
  <2>1. \A u \in Users : ~UserStep(u)
    BY <1>1 DEF EarlyInv, UserStep, Pop, CheckStatus, Reset, Send, Receive, push_connection
  <2>2. upc' = upc
    BY <1>1, <2>1 DEF CPNext, Closed, WithoutParameters, make_connections, Connect, TryToConnect,
                      Collect, Established, Close, ServerDown, ServerUp, cpVars
  <2> QED BY <1>1, <2>2 DEF EarlyInv
<1>2. CASE phase \notin {"called", "connecting"}
  BY <1>2 DEF CPNext, UserStep, Closed, WithoutParameters, make_connections, Connect, TryToConnect,
              Collect, Established, Pop, CheckStatus, Reset, Send, Receive, push_connection, Close,
              ServerDown, ServerUp, cpVars
<1> QED BY <1>1, <1>2

LEMMA RefusedStep == ConnInv /\ RefusedInv /\ [CPNext]_cpVars => RefusedInv'
<1> SUFFICES ASSUME ConnInv, RefusedInv, [CPNext]_cpVars PROVE RefusedInv'
  OBVIOUS
<1> USE DEF buildVars
<1>1. ASSUME NEW c \in Conns, Connect(c) PROVE RefusedInv'
  <2>1. /\ tries \in [Conns -> 0..Attempts]
        /\ attempt \in [Conns -> {"none", "trying", "established", "nullptr"}]
        /\ attempt[c] = "trying"
        /\ Attempts \in Nat
    BY <1>1, ConnectionPoolAssumption DEF Connect, TryToConnect, ConnInv, CPTypeOK
  <2>2. /\ tries'[c] = tries[c] + 1
        /\ tries[c] \in Nat
        /\ refused \subseteq refused'
        /\ \A d \in Conns : d # c => attempt'[d] = attempt[d] /\ tries'[d] = tries[d]
    BY <1>1, <2>1 DEF Connect, TryToConnect
  <2>3. \A n \in 1..tries[c] : <<c, n>> \in refused
    BY <2>1 DEF RefusedInv
  <2>4. CASE attempt'[c] = "established"
    BY <2>2, <2>4 DEF RefusedInv, Missing
  <2>5. CASE attempt'[c] # "established"
    <3>1. /\ <<c, tries[c] + 1>> \in refused'
          /\ attempt'[c] = "nullptr" => tries[c] + 1 = Attempts
      BY <1>1, <2>1, <2>2, <2>5 DEF Connect, TryToConnect
    <3>2. \A n \in 1..(tries[c] + 1) : <<c, n>> \in refused'
      <4> SUFFICES ASSUME NEW n \in 1..(tries[c] + 1) PROVE <<c, n>> \in refused'
        OBVIOUS
      <4>1. n \in 1..tries[c] \/ n = tries[c] + 1
        BY <2>2
      <4> QED BY <4>1, <2>2, <2>3, <3>1
    <3> QED BY <2>2, <2>5, <3>1, <3>2 DEF RefusedInv, Missing
  <2> QED BY <2>4, <2>5
<1>2. CASE make_connections
  <2>1. \A c \in Conns : tries'[c] = 0 /\ attempt'[c] = "trying"
    BY <1>2 DEF make_connections, ConnInv, BuildInv
  <2> QED BY <2>1 DEF RefusedInv, Missing
<1>3. ASSUME UNCHANGED <<tries, attempt, refused>> PROVE RefusedInv'
  BY <1>3 DEF RefusedInv, Missing
<1>4. ASSUME NEW u \in Users, UserStep(u) PROVE UNCHANGED <<tries, attempt, refused>>
  BY <1>4 DEF UserStep, Pop, CheckStatus, Reset, Send, Receive, push_connection
<1> QED BY <1>1, <1>2, <1>3, <1>4
        DEF CPNext, Closed, WithoutParameters, Collect, Established, Close, ServerDown, ServerUp, cpVars

LEMMA PooledFinite ==
    ASSUME ConnInv
    PROVE  /\ collected \in Nat
           /\ Pooled \subseteq Conns /\ IsFiniteSet(Pooled) /\ Cardinality(Pooled) \in Nat
<1>1. collected \in Nat /\ Pooled \in SUBSET Conns
  BY ConnectionPoolAssumption DEF ConnInv, CPTypeOK, Pooled, Conns
<1> QED BY <1>1, ConnsFinite

LEMMA TallyStep == PoolInv /\ EarlyInv /\ TallyInv /\ [CPNext]_cpVars => TallyInv'
<1> SUFFICES ASSUME PoolInv, EarlyInv, TallyInv, [CPNext]_cpVars PROVE TallyInv'
  OBVIOUS
<1>a. conns_deque \in Seq(Conns) /\ Len(conns_deque) \in Nat
  BY DEF PoolInv, ConnInv, CPTypeOK
<1> USE DEF buildVars, PoolInv
<1>1. CASE WithoutParameters
  BY <1>1 DEF WithoutParameters, TallyInv, ConnInv, BuildInv
<1>2. CASE make_connections
  <2>1. Pooled' = {} /\ conns_deque' = <<>> /\ phase' = "connecting"
    BY <1>2 DEF make_connections, ConnInv, BuildInv, Pooled
  <2> QED BY <2>1, FS_EmptySet DEF TallyInv
<1>3. ASSUME NEW c \in Conns, Connect(c) PROVE TallyInv'
  <2>1. /\ c \notin 1..collected /\ attempt[c] = "trying"
        /\ UNCHANGED <<phase, conns_deque, collected, conns_established>>
    BY <1>3 DEF Connect, TryToConnect, ConnInv, BuildInv
  <2>2. \A d \in Conns : d # c => attempt'[d] = attempt[d]
    BY <1>3 DEF Connect, TryToConnect, ConnInv, CPTypeOK
  <2>3. 1..collected \subseteq Conns
    BY ConnectionPoolAssumption DEF ConnInv, CPTypeOK, Conns
  <2>4. Pooled' = Pooled
    BY <2>1, <2>2, <2>3 DEF Pooled
  <2>5. phase \notin {"open", "closed"}
    BY <2>1 DEF TallyInv, Connected, Missing
  <2> QED BY <2>1, <2>4, <2>5 DEF TallyInv
<1>4. ASSUME NEW c \in Conns, Collect(c) PROVE TallyInv'
  <2>1. c \notin Pooled /\ collected' = collected + 1 /\ c = collected + 1
    BY <1>4, PooledFinite DEF Collect, Pooled
  <2>2. UNCHANGED <<attempt, phase>> /\ phase = "connecting"
    BY <1>4 DEF Collect
  <2>3. CASE attempt[c] = "established"
    <3>1. Pooled' = Pooled \cup {c}
      BY <2>1, <2>2, <2>3, PooledFinite DEF Pooled
    <3>2. Cardinality(Pooled') = Cardinality(Pooled) + 1
      BY <2>1, <3>1, PooledFinite, FS_AddElement
    <3>3. Len(conns_deque') = Len(conns_deque) + 1
      BY <1>4, <1>a, <2>3, AppendElements DEF Collect
    <3> QED BY <1>a, <2>2, <3>2, <3>3 DEF TallyInv
  <2>4. CASE attempt[c] # "established"
    <3>1. Pooled' = Pooled
      BY <2>1, <2>2, <2>4, PooledFinite DEF Pooled
    <3> QED BY <1>4, <2>2, <2>4, <3>1 DEF Collect, TallyInv
  <2> QED BY <2>3, <2>4
<1>5. CASE Established
  <2>1. /\ collected = ConnCount /\ phase = "connecting" /\ phase' = "open"
        /\ conns_established' = Len(conns_deque)
        /\ attempt' = attempt
    BY <1>5 DEF Established
  <2>2. \A c \in Conns : attempt[c] \in {"established", "nullptr"}
    BY <2>1 DEF ConnInv, BuildInv, CPTypeOK, Conns
  <2>3. Conns = Connected \cup Missing
    BY <2>2 DEF Connected, Missing
  <2>4. Pooled = Connected
    BY <2>1 DEF Pooled, Connected, Conns
  <2>5. Connected' = Connected /\ Missing' = Missing
    BY <2>1 DEF Connected, Missing
  <2> QED BY <2>1, <2>3, <2>4, <2>5 DEF TallyInv
<1>6. CASE Close
  <2>1. Connected' = Connected /\ Missing' = Missing
    BY <1>6 DEF Close, Connected, Missing
  <2> QED BY <1>6, <2>1 DEF Close, TallyInv
<1>7. ASSUME UNCHANGED <<phase, attempt, collected, conns_established>>,
             phase = "connecting" => UNCHANGED conns_deque
      PROVE  TallyInv'
  <2>1. Connected' = Connected /\ Missing' = Missing /\ Pooled' = Pooled
    BY <1>7 DEF Connected, Missing, Pooled
  <2> QED BY <1>7, <2>1 DEF TallyInv
<1>8. ASSUME NEW u \in Users, UserStep(u), ~push_connection(u)
      PROVE  /\ UNCHANGED <<phase, attempt, collected, conns_established>>
             /\ phase = "connecting" => UNCHANGED conns_deque
  BY <1>8 DEF UserStep, Pop, CheckStatus, Reset, Send, Receive
<1>9. ASSUME NEW u \in Users, push_connection(u) PROVE TallyInv'
  BY <1>9, <1>7 DEF EarlyInv, push_connection
<1> QED BY <1>1, <1>2, <1>3, <1>4, <1>5, <1>6, <1>7, <1>8, <1>9
        DEF CPNext, UserStep, Closed, ServerDown, ServerUp, cpVars

\* A connection in use has been established and works.
LEMMA InUseGood ==
    ASSUME PoolInv, HealthInv, outages = 0, NEW u \in Users, upc[u] # "idle"
    PROVE  conn[u] \in Conns /\ conn[u] \in InUse /\ status[conn[u]] = "OK" /\ link[conn[u]]
<1>1. conn[u] \in Conns /\ conn[u] # NoConn
  BY DEF PoolInv, ConnInv, CPTypeOK, UserInv
<1>2. conn[u] \in InUse
  BY <1>1 DEF InUse
<1>3. conn[u] \in Pooled
  BY <1>2 DEF PoolInv, ExclusiveOwnership
<1> QED BY <1>1, <1>2, <1>3 DEF HealthInv, Good, Pooled

LEMMA HealthStep == PoolInv /\ EarlyInv /\ HealthInv /\ [CPNext]_cpVars => HealthInv'
<1> SUFFICES ASSUME PoolInv, EarlyInv, HealthInv, [CPNext]_cpVars PROVE HealthInv'
  OBVIOUS
<1>a. /\ conns_deque \in Seq(Conns) /\ Len(conns_deque) \in Nat
      /\ collected \in Nat /\ outages \in Nat
      /\ InUse \subseteq Conns /\ IsFiniteSet(InUse) /\ Cardinality(InUse) \in Nat
  <2>1. /\ conns_deque \in Seq(Conns)
        /\ collected \in Nat /\ outages \in Nat
    BY ConnectionPoolAssumption DEF PoolInv, ConnInv, CPTypeOK
  <2>2. InUse \in SUBSET Conns
    BY DEF InUse, PoolInv, ConnInv, CPTypeOK
  <2> QED BY <2>1, <2>2, ConnsFinite
<1>b. phase \in {"called", "connecting"} => InUse = {} /\ Cardinality(InUse) = 0
  <2>1. phase \in {"called", "connecting"} => InUse = {}
    BY DEF EarlyInv, PoolInv, ConnInv, UserInv, InUse
  <2> QED BY <2>1, FS_EmptySet
<1>c. outages' = 0 => outages = 0 /\ ~ServerDown
  <2>1. CASE ServerDown
    BY <1>a, <2>1 DEF ServerDown
  <2>2. CASE ~ServerDown
    <3>1. outages' = outages
      BY <2>2 DEF CPNext, UserStep, Closed, WithoutParameters, make_connections, Connect,
                  TryToConnect, Collect, Established, Pop, CheckStatus, Reset, Send, Receive,
                  push_connection, Close, ServerUp, cpVars, envVars
    <3> QED BY <2>2, <3>1
  <2> QED BY <2>1, <2>2
<1> SUFFICES ASSUME outages = 0, outages' = 0, ~ServerDown PROVE HealthInv'
  BY <1>c DEF HealthInv
<1> USE DEF buildVars, envVars, userVars
\* What a step has to keep when it leaves the construction and the server alone.
<1>1. ASSUME UNCHANGED <<attempt, status, link, phase, conns_established>>,
             \A u \in Users : upc'[u] # "reset",
             phase = "open" =>
                 Len(conns_deque') + Cardinality(InUse') = Len(conns_deque) + Cardinality(InUse)
      PROVE  HealthInv'
  BY <1>1 DEF HealthInv, Good
<1>2. ASSUME NEW c \in Conns, Connect(c) PROVE HealthInv'
  <2>1. \A d \in Conns : Good(d)'
    BY <1>2 DEF Connect, TryToConnect, HealthInv, Good, PoolInv, ConnInv, CPTypeOK
  <2>2. UNCHANGED <<upc, phase, conns_deque, InUse, conns_established>>
    BY <1>2 DEF Connect, TryToConnect, InUse
  <2> QED BY <2>1, <2>2 DEF HealthInv
<1>3. ASSUME NEW c \in Conns, Collect(c) PROVE HealthInv'
  BY <1>1, <1>3 DEF Collect, HealthInv
<1>4. CASE Established \/ WithoutParameters
  <2>1. InUse' = {} /\ Cardinality(InUse') = 0
    BY <1>4, <1>b DEF Established, WithoutParameters, InUse
  <2>2. Len(conns_deque') = conns_established'
    <3>1. CASE Established
      BY <3>1 DEF Established
    <3>2. CASE WithoutParameters
      BY <3>2 DEF WithoutParameters, PoolInv, ConnInv, BuildInv
    <3> QED BY <1>4, <3>1, <3>2
  <2>3. UNCHANGED <<attempt, status, link, upc, conns_deque>>
    BY <1>4 DEF Established, WithoutParameters
  <2> QED BY <1>a, <2>1, <2>2, <2>3 DEF HealthInv, Good
<1>5. CASE make_connections
  <2>1. \A c \in Conns : attempt'[c] = "trying"
    BY <1>5 DEF make_connections
  <2> QED BY <1>5, <2>1 DEF make_connections, HealthInv, Good
<1>6. ASSUME NEW u \in Users, Pop(u) PROVE HealthInv'
  <2>1. /\ conns_deque # <<>>
        /\ conns_deque' = Tail(conns_deque)
        /\ InUse' = InUse \cup {Head(conns_deque)}
    BY <1>6, PopTakes DEF PoolInv
  <2>2. Head(conns_deque) \in InDeque /\ Len(conns_deque') = Len(conns_deque) - 1
    BY <1>a, <2>1, TailElements DEF InDeque, Elements
  <2>3. Head(conns_deque) \notin InUse
    BY <2>2 DEF PoolInv, ExclusiveOwnership
  <2>4. Cardinality(InUse') = Cardinality(InUse) + 1
    BY <1>a, <2>1, <2>3, FS_AddElement
  <2>5. Len(conns_deque') + Cardinality(InUse') = Len(conns_deque) + Cardinality(InUse)
    BY <1>a, <2>2, <2>4
  <2>6. \A v \in Users : upc'[v] # "reset"
    BY <1>6 DEF Pop, HealthInv, PoolInv, ConnInv, CPTypeOK
  <2>7. UNCHANGED <<attempt, status, link, phase, conns_established>>
    BY <1>6 DEF Pop
  <2> QED BY <1>1, <2>5, <2>6, <2>7
<1>7. ASSUME NEW u \in Users, CheckStatus(u) \/ Send(u) \/ Receive(u) PROVE HealthInv'
  <2>1. /\ CheckStatus(u) => status[conn[u]] = "OK"
        /\ Receive(u) => Succeeds(u)
    BY <1>7, InUseGood DEF CheckStatus, Receive, Succeeds
  <2>2. \A v \in Users : upc'[v] # "reset"
    BY <1>7, <2>1 DEF CheckStatus, Send, Receive, HealthInv, PoolInv, ConnInv, CPTypeOK
  <2>3. UNCHANGED <<attempt, status, link, phase, conns_established, conns_deque, InUse>>
    BY <1>7, <2>1 DEF CheckStatus, Send, Receive, InUse
  <2> QED BY <1>1, <2>2, <2>3
<1>8. ASSUME NEW u \in Users, push_connection(u) PROVE HealthInv'
  <2>1. /\ upc[u] # "idle"
        /\ conn' = [conn EXCEPT ![u] = NoConn]
        /\ conns_deque' = <<conn[u]>> \o conns_deque
    BY <1>8 DEF push_connection
  <2>2. /\ conn[u] \in Conns
        /\ conn[u] \in InUse
        /\ InUse' = InUse \ {conn[u]}
    BY <2>1, ReleaseFrees DEF PoolInv, ExclusiveOwnership, Apart
  <2>3. Cardinality(InUse') = Cardinality(InUse) - 1
    BY <1>a, <2>2, FS_RemoveElement
  <2>4. Len(conns_deque') = Len(conns_deque) + 1
    BY <1>a, <2>1, <2>2, ConsElements
  <2>5. Len(conns_deque') + Cardinality(InUse') = Len(conns_deque) + Cardinality(InUse)
    BY <1>a, <2>3, <2>4
  <2>6. \A v \in Users : upc'[v] # "reset"
    BY <1>8 DEF push_connection, HealthInv, PoolInv, ConnInv, CPTypeOK
  <2>7. UNCHANGED <<attempt, status, link, phase, conns_established>>
    BY <1>8 DEF push_connection
  <2> QED BY <1>1, <2>5, <2>6, <2>7
<1>9. CASE Close
  BY <1>9 DEF Close, HealthInv, Good
<1>10. CASE ServerUp \/ UNCHANGED cpVars
  BY <1>1, <1>10 DEF ServerUp, cpVars, InUse, HealthInv
<1>11. ASSUME NEW u \in Users PROVE ~Reset(u)
  BY DEF Reset, HealthInv
<1> QED BY <1>2, <1>3, <1>4, <1>5, <1>6, <1>7, <1>8, <1>9, <1>10, <1>11
        DEF CPNext, UserStep, Closed

\* A missing connection has used up its attempts.
LEMMA MissingCost ==
    ASSUME ConnInv, RefusedInv
    PROVE  Cardinality(Missing) \in Nat /\ Attempts * Cardinality(Missing) <= Cardinality(refused)
<1>1. IsFiniteSet(Missing) /\ Cardinality(Missing) \in Nat
  <2>1. Missing \in SUBSET Conns
    BY DEF Missing
  <2> QED BY <2>1, ConnsFinite
<1>2. IsFiniteSet(1..Attempts) /\ Cardinality(1..Attempts) = Attempts /\ Attempts \in Nat
  BY FS_Interval, ConnectionPoolAssumption
<1>3. /\ IsFiniteSet(Missing \X (1..Attempts))
      /\ Cardinality(Missing \X (1..Attempts)) = Cardinality(Missing) * Attempts
  BY <1>1, <1>2, FS_Product
<1>4. IsFiniteSet(refused)
  <2>1. IsFiniteSet(Conns \X (1..Attempts))
    BY <1>2, ConnsFinite, FS_Product
  <2> QED BY <2>1, FS_Subset DEF ConnInv, CPTypeOK
<1>5. Missing \X (1..Attempts) \subseteq refused
  BY DEF RefusedInv
<1>6. Cardinality(Missing \X (1..Attempts)) <= Cardinality(refused)
  BY <1>4, <1>5, FS_Subset
<1> HIDE DEF Missing
<1>7. Cardinality(Missing) * Attempts = Attempts * Cardinality(Missing)
  BY <1>1, <1>2
<1> QED BY <1>1, <1>3, <1>6, <1>7

RefusalInv == EarlyInv /\ RefusedInv /\ TallyInv /\ HealthInv

LEMMA RefusalEnough == PoolInv /\ RefusalInv => RefusalsTolerated
<1> SUFFICES ASSUME PoolInv, RefusalInv, phase = "open",
                    ~(\A c \in Conns : attempt[c] = "none")
             PROVE  Attempts * (ConnCount - conns_established) <= Cardinality(refused)
  BY DEF RefusalsTolerated, RefusalInv, HealthInv
<1>1. Conns = Connected \cup Missing /\ conns_established = Cardinality(Connected)
  BY DEF RefusalInv, TallyInv
<1>2. IsFiniteSet(Conns) /\ Cardinality(Conns) = ConnCount
  BY ConnsFinite
<1>3. Missing = Conns \ Connected /\ Connected \subseteq Conns
  BY <1>1 DEF Missing, Connected
<1>4. IsFiniteSet(Connected) /\ Cardinality(Connected) \in Nat
  BY <1>2, <1>3, FS_Subset, FS_CardinalityType
<1>5. Cardinality(Missing) = ConnCount - Cardinality(Connected)
  <2>1. Conns \cap Connected = Connected
    BY <1>3
  <2> QED BY <1>2, <1>3, <2>1, FS_Difference
<1> QED BY <1>1, <1>5, MissingCost DEF PoolInv, RefusalInv

(* A connection is missing only at the price of as many refusals as there  *)
(* are attempts, and a server that never goes down costs the pool no       *)
(* connection later, for any number of connections, attempts and users.    *)
THEOREM RefusalsCost == CPSpec => []RefusalsTolerated
<1>1. CPInit => RefusalInv
  <2> SUFFICES ASSUME CPInit PROVE RefusalInv
    OBVIOUS
  <2> QED BY DEF CPInit, RefusalInv, EarlyInv, RefusedInv, TallyInv, HealthInv, Missing, Good
<1>2. PoolInv /\ RefusalInv /\ [CPNext]_cpVars => RefusalInv'
  BY EarlyStep, RefusedStep, TallyStep, HealthStep DEF PoolInv, RefusalInv
<1> QED BY <1>1, <1>2, RefusalEnough, PoolInvariant, PTL DEF CPSpec

-------------------------------------------------------------------------------
(***************************************************************************)
(* A DB_module runs its two pools: whatever holds of a pool alone holds of *)
(* the pool inside the module.                                             *)
(***************************************************************************)

LEMMA PoolSteps == [Next]_vars => [TPNext]_tpVars /\ [CPNext]_cpVars
<1> SUFFICES ASSUME [Next]_vars PROVE [TPNext]_tpVars /\ [CPNext]_cpVars
  OBVIOUS
<1> USE DBModuleAssumption
<1>1. CASE BuildConnections \/ Environment
  <2>1. UNCHANGED tpVars
    BY <1>1 DEF BuildConnections, Environment
  <2>2. CPNext
    BY <1>1 DEF BuildConnections, Environment, CPNext
  <2> QED BY <2>1, <2>2
<1>2. CASE StartThreads \/ DestroyThreads
  <2>1. UNCHANGED cpVars
    BY <1>2 DEF StartThreads, DestroyThreads
  <2>2. TPNext
    BY <1>2 DEF StartThreads, DestroyThreads, TPNext
  <2> QED BY <2>1, <2>2
<1>3. ASSUME NEW w \in Workers, PoolStep(w) PROVE TPNext /\ UNCHANGED cpVars
  BY <1>3 DEF PoolStep, TPNext
<1>4. ASSUME NEW w \in Workers, PullConnection(w) \/ Execute(w) \/ TakeResult(w)
      PROVE  CPNext /\ UNCHANGED tpVars
  <2>1. UserStep(w)
    BY <1>4 DEF PullConnection, Execute, TakeResult, UserStep
  <2> QED BY <1>4, <2>1 DEF PullConnection, Execute, TakeResult, CPNext
<1>5. ASSUME NEW w \in Workers, Spin(w) \/ SetValue(w) PROVE UNCHANGED <<tpVars, cpVars>>
  BY <1>5 DEF Spin, SetValue, vars
<1>6. ASSUME NEW w \in Workers, ReturnConnection(w) PROVE TPNext /\ CPNext
  <2>1. WorkerFinish(w) /\ UserStep(w)
    BY <1>6 DEF ReturnConnection, UserStep
  <2> QED BY <2>1 DEF TPNext, CPNext
<1>7. ASSUME NEW c \in Clients, Notify(c) \/ (\E t \in Tasks : exec_command(c, t))
      PROVE  TPNext /\ UNCHANGED cpVars
  BY <1>7 DEF Notify, exec_command, TPNext
<1>8. CASE DestroyModule \/ Ended \/ UNCHANGED vars
  BY <1>8 DEF DestroyModule, Ended, vars
<1>9. CASE JoinThreads
  BY <1>9 DEF JoinThreads, TPNext
<1>10. CASE DestroyConnections
  BY <1>10 DEF DestroyConnections, CPNext
<1> QED BY <1>1, <1>2, <1>3, <1>4, <1>5, <1>6, <1>7, <1>8, <1>9, <1>10 DEF Next, TaskStep

(* Every behaviour of a DB_module is one of a thread pool and one of a     *)
(* connection pool: the module disturbs neither.                           *)
THEOREM ModuleRunsPools == Spec => TPSpec /\ CPSpec
<1>1. Init => TPInit /\ CPInit
  BY DEF Init
<1> QED BY <1>1, PoolSteps, PTL DEF Spec, TPSpec, CPSpec

\* What the proofs about the module take from its pools.
PoolsInv == ThreadInv /\ TaskConservation /\ PoolInv

LEMMA PoolsInvariant == Spec => []PoolsInv
BY ModuleRunsPools, ThreadInvariant, TasksConserved, PoolInvariant, PTL DEF PoolsInv

-------------------------------------------------------------------------------
(***************************************************************************)
(* The life of the module: what its pools still do when it is gone.        *)
(***************************************************************************)

\* A connection is out only while a task runs; the threads go before the module.
LifeInv ==
    /\ \A w \in Workers : upc[w] # "idle" => wpc[w] = "run"
    /\ module = "gone" => owner = "gone"

LEMMA LifeStep == PoolsInv /\ LifeInv /\ [Next]_vars => LifeInv'
<1> SUFFICES ASSUME PoolsInv, LifeInv, [Next]_vars PROVE LifeInv'
  OBVIOUS
<1>a. /\ wpc \in [Workers -> WorkerStates]
      /\ upc \in [Workers -> UserStates]
      /\ Users = Workers
  BY DBModuleAssumption DEF PoolsInv, ThreadInv, TPTypeOK, PoolInv, ConnInv, CPTypeOK
<1> USE <1>a DEF LifeInv, tpVars, cpVars, dbVars, ownerVars, clientVars, history, buildVars,
        envVars, userVars
<1>1. CASE BuildConnections \/ Environment
  BY <1>1 DEF BuildConnections, Environment, WithoutParameters, make_connections, Connect,
              TryToConnect, Collect, Established, ServerDown, ServerUp
<1>2. CASE StartThreads
  <2>1. ASSUME NEW w \in Workers, StartThread(w) PROVE LifeInv'
    BY <1>2, <2>1 DEF StartThreads, StartThread
  <2>2. CASE Constructed
    BY <1>2, <2>2 DEF StartThreads, Constructed
  <2> QED BY <1>2, <2>1, <2>2 DEF StartThreads
<1>3. ASSUME NEW w \in Workers, PoolStep(w) PROVE LifeInv'
  <2>1. /\ wpc[w] # "run" /\ UNCHANGED <<upc, module, owner>>
        /\ \A v \in Workers : v # w => wpc'[v] = wpc[v]
    BY <1>3 DEF PoolStep, WorkerStep, SpuriousWakeup, Goto, WorkerLoop, WorkerLock, WorkerPred,
                WorkerBlock, WorkerCheck, WorkerTake
  <2> QED BY <2>1
<1>4. ASSUME NEW w \in Workers, PullConnection(w) \/ Execute(w) \/ TakeResult(w) PROVE LifeInv'
  <2>1. wpc[w] = "run" /\ UNCHANGED <<wpc, module, owner>>
    BY <1>4 DEF PullConnection, Execute, TakeResult, Runs
  <2>2. \A v \in Workers : v # w => upc'[v] = upc[v]
    BY <1>4 DEF PullConnection, Execute, TakeResult, Pop, CheckStatus, Reset, Send, Receive
  <2> QED BY <2>1, <2>2
<1>5. ASSUME NEW w \in Workers, Spin(w) \/ SetValue(w) PROVE LifeInv'
  BY <1>5 DEF Spin, SetValue, vars
<1>6. ASSUME NEW w \in Workers, ReturnConnection(w) PROVE LifeInv'
  <2>1. /\ upc'[w] = "idle" /\ UNCHANGED <<module, owner>>
        /\ \A v \in Workers : v # w => upc'[v] = upc[v] /\ wpc'[v] = wpc[v]
    BY <1>6 DEF ReturnConnection, push_connection, WorkerFinish, Goto
  <2> QED BY <2>1
<1>7. ASSUME NEW c \in Clients, Notify(c) PROVE LifeInv'
  BY <1>7 DEF Notify, NotifyOne, Blocked
<1>8. ASSUME NEW c \in Clients, NEW t \in Tasks, exec_command(c, t) PROVE LifeInv'
  BY <1>8 DEF exec_command, push_task_back, push_task_front
<1>9. CASE DestroyModule \/ Ended \/ UNCHANGED vars
  BY <1>9 DEF DestroyModule, Ended, vars
<1>10. CASE DestroyThreads
  <2>1. CASE SetDone
    BY <1>10, <2>1 DEF DestroyThreads, SetDone
  <2>2. CASE NotifyAll
    BY <1>10, <2>2 DEF DestroyThreads, NotifyAll, Blocked
  <2> QED BY <1>10, <2>1, <2>2 DEF DestroyThreads
<1>11. CASE JoinThreads
  BY <1>11 DEF JoinThreads, JoinAll
<1>12. CASE DestroyConnections
  BY <1>12 DEF DestroyConnections, Close
<1> QED BY <1>1, <1>2, <1>3, <1>4, <1>5, <1>6, <1>7, <1>8, <1>9, <1>10, <1>11, <1>12
        DEF Next, TaskStep

LEMMA LifeInvariant == Spec => []LifeInv
<1>1. Init => LifeInv
  BY DBModuleAssumption DEF Init, TPInit, CPInit, LifeInv
<1> QED BY <1>1, LifeStep, PoolsInvariant, PTL DEF Spec

\* A pool that has joined its threads runs nothing.
LEMMA JoinedIsIdle ==
    ASSUME PoolsInv, owner = "gone", NEW w \in Workers
    PROVE  wpc[w] # "run"
<1>1. task[w] # NoTask <=> wpc[w] = "run"
  BY DEF PoolsInv, ThreadInv, WorkerInv
<1>2. wpc[w] \notin {"unborn", "failed"} => w \in threads
  BY DEF PoolsInv, ThreadInv, WorkerInv
<1>3. \A v \in threads : wpc[v] = "exited"
  BY DEF PoolsInv, ThreadInv, OwnerInv, NoThreadOutlivesPool
<1> QED BY <1>2, <1>3

(* No task runs, and so none refers to its DB_module, when the DB_module   *)
(* is gone.                                                                *)
THEOREM ModuleOutlivesTasks == Spec => []NoUseAfterDestruction
<1>1. ASSUME PoolsInv, LifeInv PROVE NoUseAfterDestruction
  <2> SUFFICES ASSUME module = "gone" PROVE Running = {}
    BY DEF NoUseAfterDestruction
  <2>1. \A w \in Workers : task[w] = NoTask
    BY <1>1, JoinedIsIdle DEF LifeInv, PoolsInv, ThreadInv, WorkerInv
  <2> QED BY <2>1 DEF Running
<1>2. PoolsInv /\ LifeInv => NoUseAfterDestruction
  BY <1>1
<1> QED BY <1>2, PoolsInvariant, LifeInvariant, PTL

(* Connections are driven by the tasks alone, one each, and all come back  *)
(* before the threads are joined, save those that were given up.           *)
THEOREM ConnectionsWithTasks == Spec => []ConnectionsFollowTasks
<1>1. ASSUME PoolsInv, LifeInv PROVE ConnectionsFollowTasks
  <2> USE DBModuleAssumption
  <2>1. \A v, w \in Workers : conn[v] = conn[w] /\ conn[v] # NoConn => v = w
    BY <1>1 DEF PoolsInv, PoolInv, ExclusiveOwnership
  <2>2. \A w \in Workers : upc[w] # "idle" => task[w] # NoTask
    BY <1>1 DEF LifeInv, PoolsInv, ThreadInv, WorkerInv
  <2>3. ASSUME owner = "gone" PROVE Pooled = InDeque \cup leaked \cup finished
    <3>1. \A w \in Workers : conn[w] = NoConn
      BY <1>1, <2>3, JoinedIsIdle DEF LifeInv, PoolsInv, PoolInv, ConnInv, UserInv
    <3>2. InUse = {}
      BY <3>1 DEF InUse
    <3> QED BY <1>1, <3>2 DEF PoolsInv, PoolInv, ExclusiveOwnership
  <2> QED BY <2>1, <2>2, <2>3 DEF ConnectionsFollowTasks
<1>2. PoolsInv /\ LifeInv => ConnectionsFollowTasks
  BY <1>1
<1> QED BY <1>2, PoolsInvariant, LifeInvariant, PTL
-------------------------------------------------------------------------------
(***************************************************************************)
(* What the futures say of the database.  A waiting command was executed   *)
(* by nobody; a running one was executed by its worker, once, by the time  *)
(* the result is there.                                                    *)
(***************************************************************************)

ModuleTypes ==
    /\ future \in [Tasks -> {"none", "pending", "ok", "error", "broken"}]
    /\ result \in [Workers -> {"none", "ok", "error"}]
    /\ applied \in [Tasks -> Nat]

WaitInv ==
    \A t \in Tasks :
        /\ stamp[t] = 0 => future[t] = "none"
        /\ t \in Queued => future[t] = "pending" /\ applied[t] = 0

RunInv ==
    \A w \in Workers : Runs(w) =>
        /\ upc[w] \notin {"sent", "used"} => applied[task[w]] = 0
        /\ upc[w] = "sent" /\ link[conn[w]] => applied[task[w]] = 1
        /\ upc[w] = "used" => /\ result[w] \in {"ok", "error"}
                              /\ result[w] = "ok" => applied[task[w]] = 1

AnswerInv == ModuleTypes /\ WaitInv /\ RunInv /\ AnswersAreTrue

\* Two workers run two tasks, and none of them waits or is still to be pushed.
LEMMA TasksApart ==
    ASSUME PoolsInv, NEW w \in Workers, wpc[w] = "run"
    PROVE  /\ task[w] \in Tasks
           /\ task[w] \notin Queued
           /\ stamp[task[w]] # 0
           /\ \A v \in Workers : v # w => task[v] # task[w]
<1>1. task[w] # NoTask
  BY DEF PoolsInv, ThreadInv, WorkerInv
<1>2. task[w] \in Tasks
  BY <1>1 DEF PoolsInv, ThreadInv, TPTypeOK
<1>3. task[w] \in Running
  BY <1>1 DEF Running
<1>4. task[w] \in Pushed /\ task[w] \notin Queued
  BY <1>3 DEF PoolsInv, TaskConservation
<1>5. \A v \in Workers : v # w => task[v] # task[w]
  BY <1>1 DEF PoolsInv, TaskConservation
<1> QED BY <1>2, <1>4, <1>5 DEF Pushed

\* What waits has been pushed.
LEMMA WaitersPushed ==
    ASSUME PoolsInv, NEW t \in Queued
    PROVE  t \in Tasks /\ stamp[t] # 0
BY DEF PoolsInv, TaskConservation, Pushed

\* A step that leaves the futures, the results and the database alone.
LEMMA QuietStep ==
    ASSUME PoolsInv, LifeInv, AnswerInv, UNCHANGED <<future, result, applied, stamp>>,
           Queued' \subseteq Queued,
           \A w \in Workers : Runs(w)' =>
               \/ /\ Runs(w) /\ task'[w] = task[w]
                  /\ \/ upc'[w] = upc[w] /\ conn'[w] = conn[w]
                     \/ upc[w] \notin {"sent", "used"} /\ upc'[w] \notin {"sent", "used"}
                  /\ upc'[w] = "sent" /\ link'[conn'[w]] => link[conn[w]]
               \/ task'[w] \in Queued /\ upc'[w] = "idle"
    PROVE  AnswerInv'
<1>1. ModuleTypes' /\ AnswersAreTrue'
  BY DEF AnswerInv, ModuleTypes, AnswersAreTrue
<1>2. WaitInv'
  BY DEF AnswerInv, WaitInv
<1>3. RunInv'
  <2> SUFFICES ASSUME NEW w \in Workers, Runs(w)'
               PROVE  /\ upc'[w] \notin {"sent", "used"} => applied[task'[w]] = 0
                      /\ upc'[w] = "sent" /\ link'[conn'[w]] => applied[task'[w]] = 1
                      /\ upc'[w] = "used" => /\ result[w] \in {"ok", "error"}
                                             /\ result[w] = "ok" => applied[task'[w]] = 1
    BY DEF RunInv
  <2>1. CASE task'[w] \in Queued /\ upc'[w] = "idle"
    <3>1. task'[w] \in Tasks
      BY <2>1, WaitersPushed
    <3> QED BY <2>1, <3>1 DEF AnswerInv, WaitInv
  <2>2. CASE ~(task'[w] \in Queued /\ upc'[w] = "idle")
    <3>1. /\ Runs(w) /\ task'[w] = task[w]
          /\ \/ upc'[w] = upc[w] /\ conn'[w] = conn[w]
             \/ upc[w] \notin {"sent", "used"} /\ upc'[w] \notin {"sent", "used"}
          /\ upc'[w] = "sent" /\ link'[conn'[w]] => link[conn[w]]
      BY <2>2
    <3> QED BY <3>1 DEF AnswerInv, RunInv
  <2> QED BY <2>1, <2>2
<1> QED BY <1>1, <1>2, <1>3 DEF AnswerInv

LEMMA AnswerStep == PoolsInv /\ LifeInv /\ AnswerInv /\ [Next]_vars => AnswerInv'
<1> SUFFICES ASSUME PoolsInv, LifeInv, AnswerInv, [Next]_vars PROVE AnswerInv'
  OBVIOUS
<1>a. /\ wpc \in [Workers -> WorkerStates]
      /\ upc \in [Workers -> UserStates]
      /\ conn \in [Workers -> Conns \cup {NoConn}]
      /\ task \in [Workers -> Tasks \cup {NoTask}]
      /\ link \in [Conns -> BOOLEAN]
      /\ Users = Workers
  BY DBModuleAssumption DEF PoolsInv, ThreadInv, TPTypeOK, PoolInv, ConnInv, CPTypeOK
<1>b. /\ future \in [Tasks -> {"none", "pending", "ok", "error", "broken"}]
      /\ result \in [Workers -> {"none", "ok", "error"}]
      /\ applied \in [Tasks -> Nat]
  BY DEF AnswerInv, ModuleTypes
<1>c. \A w \in Workers : upc[w] # "idle" => conn[w] \in Conns /\ attempt[conn[w]] # "trying"
  <2> SUFFICES ASSUME NEW w \in Workers, upc[w] # "idle"
               PROVE  conn[w] \in Conns /\ attempt[conn[w]] # "trying"
    OBVIOUS
  <2>1. conn[w] # NoConn
    BY <1>a DEF PoolsInv, PoolInv, ConnInv, UserInv
  <2>2. conn[w] \in Pooled
    BY <1>a, <2>1 DEF PoolsInv, PoolInv, ExclusiveOwnership, InUse
  <2> QED BY <1>a, <2>1, <2>2 DEF Pooled
<1>d. \A v, w \in Workers : v # w /\ upc[w] # "idle" => conn[v] # conn[w]
  BY <1>a DEF PoolsInv, PoolInv, ConnInv, UserInv, ExclusiveOwnership
<1> USE DEF tpVars, cpVars, dbVars, ownerVars, clientVars, history, buildVars, envVars, userVars
<1>q. ASSUME UNCHANGED <<future, result, applied, stamp, task_deque, wpc, task, upc, conn>>,
             \A w \in Workers : upc[w] = "sent" /\ link'[conn[w]] => link[conn[w]]
      PROVE  AnswerInv'
  <2>1. Queued' = Queued
    BY <1>q DEF Queued
  <2> QED BY <1>q, <2>1, QuietStep DEF Runs
<1>1. ASSUME NEW c \in Conns, BuildConnections, Connect(c) PROVE AnswerInv'
  <2>1. \A d \in Conns : d # c => link'[d] = link[d]
    BY <1>1, <1>a DEF Connect, TryToConnect
  <2>2. \A w \in Workers : upc[w] = "sent" => conn[w] \in Conns /\ conn[w] # c
    BY <1>1, <1>c DEF Connect, TryToConnect
  <2> QED BY <1>1, <1>q, <2>1, <2>2 DEF BuildConnections, Connect, TryToConnect
<1>2. ASSUME BuildConnections,
             \/ WithoutParameters \/ make_connections \/ Established
             \/ \E c \in Conns : Collect(c)
      PROVE  AnswerInv'
  BY <1>2, <1>q DEF BuildConnections, WithoutParameters, make_connections, Collect, Established
<1>3. CASE Environment
  <2>1. CASE ServerDown
    BY <1>3, <1>c, <1>q, <2>1 DEF Environment, ServerDown
  <2>2. CASE ServerUp
    BY <1>3, <1>q, <2>2 DEF Environment, ServerUp
  <2> QED BY <1>3, <2>1, <2>2 DEF Environment
<1>4. CASE StartThreads
  <2>1. Queued' = Queued
    BY <1>4 DEF StartThreads, StartThread, Constructed, Queued
  <2>2. \A w \in Workers : wpc'[w] = "run" => wpc[w] = "run"
    BY <1>4, <1>a DEF StartThreads, StartThread, Constructed
  <2> QED BY <1>4, <2>1, <2>2, QuietStep DEF StartThreads, StartThread, Constructed, Runs
<1>5. ASSUME NEW w \in Workers, PoolStep(w), ~WorkerTake(w) PROVE AnswerInv'
  <2>1. /\ UNCHANGED <<task_deque, task, stamp, cpVars, dbVars>>
        /\ wpc'[w] # "run"
        /\ \A v \in Workers : v # w => wpc'[v] = wpc[v]
    BY <1>5, <1>a DEF PoolStep, WorkerStep, SpuriousWakeup, Goto, WorkerLoop, WorkerLock,
                      WorkerPred, WorkerBlock, WorkerCheck
  <2>2. Queued' = Queued
    BY <2>1 DEF Queued
  <2> QED BY <2>1, <2>2, QuietStep DEF Runs
<1>6. ASSUME NEW w \in Workers, PoolStep(w), WorkerTake(w) PROVE AnswerInv'
  <2>1. /\ wpc[w] = "take"
        /\ task'[w] = Head(task_deque)
        /\ task_deque' = Tail(task_deque)
        /\ \A v \in Workers : v # w => wpc'[v] = wpc[v] /\ task'[v] = task[v]
        /\ UNCHANGED <<stamp, cpVars, dbVars>>
    BY <1>6, <1>a DEF PoolStep, WorkerTake, pull_task, Goto
  <2>2. task_deque # <<>> /\ task_deque \in Seq(Tasks)
    BY <2>1 DEF PoolsInv, ThreadInv, WorkerInv, TPTypeOK
  <2>3. task'[w] \in Queued /\ Queued' \subseteq Queued
    BY <2>1, <2>2, TailElements DEF Queued, Elements
  <2>4. upc'[w] = "idle"
    BY <2>1 DEF LifeInv
  <2> QED BY <2>1, <2>3, <2>4, QuietStep DEF Runs
<1>7. ASSUME NEW w \in Workers, PullConnection(w) PROVE AnswerInv'
  <2>1. /\ upc[w] \notin {"sent", "used"} /\ upc'[w] \notin {"sent", "used"}
        /\ \A v \in Workers : v # w => upc'[v] = upc[v] /\ conn'[v] = conn[v]
        /\ UNCHANGED <<tpVars, dbVars>>
    BY <1>7, <1>a DEF PullConnection, Pop, CheckStatus, Reset
  <2>2. ASSUME NEW v \in Workers, v # w, upc[v] = "sent" PROVE link'[conn[v]] = link[conn[v]]
    <3>1. link' = link \/ (upc[w] = "reset" /\ link' = [link EXCEPT ![conn[w]] = TRUE])
      BY <1>7 DEF PullConnection, Pop, CheckStatus, Reset
    <3>2. upc[w] = "reset" => conn[w] # conn[v] /\ conn[w] \in Conns /\ conn[v] \in Conns
      BY <2>2, <1>c, <1>d
    <3> QED BY <1>a, <3>1, <3>2
  <2>3. Queued' = Queued
    BY <2>1 DEF Queued
  <2> QED BY <2>1, <2>2, <2>3, QuietStep DEF Runs
<1>8. ASSUME UNCHANGED vars PROVE AnswerInv'
  BY <1>8, <1>q DEF vars
<1>9. ASSUME NEW w \in Workers, Execute(w) PROVE AnswerInv'
  <2> DEFINE t == task[w]
  <2>1. /\ Runs(w) /\ upc[w] = "held" /\ upc'[w] = "sent"
        /\ \A v \in Workers : v # w => upc'[v] = upc[v]
        /\ UNCHANGED <<tpVars, conn, link, future, result>>
        /\ applied' = IF link[conn[w]] THEN [applied EXCEPT ![t] = @ + 1] ELSE applied
    BY <1>9, <1>a DEF Execute, Send
  <2>2. /\ t \in Tasks /\ t \notin Queued
        /\ \A v \in Workers : v # w => task[v] # t
    BY <2>1, TasksApart DEF Runs
  <2>3. applied[t] = 0 /\ future[t] = "pending"
    BY <2>1 DEF AnswerInv, RunInv, Runs
  <2> HIDE DEF t
  <2>4. /\ applied' \in [Tasks -> Nat]
        /\ applied'[t] \in 0..1
        /\ link[conn[w]] => applied'[t] = 1
        /\ \A s \in Tasks : s # t => applied'[s] = applied[s]
    BY <1>b, <2>1, <2>2, <2>3
  <2>5. ModuleTypes' /\ AnswersAreTrue'
    BY <2>1, <2>2, <2>3, <2>4 DEF AnswerInv, ModuleTypes, AnswersAreTrue
  <2>6. WaitInv'
    BY <2>1, <2>2, <2>4 DEF AnswerInv, WaitInv, Queued
  <2>7. ASSUME NEW v \in Workers, v # w, Runs(v) PROVE applied'[task[v]] = applied[task[v]]
    BY <2>2, <2>4, <2>7, TasksApart DEF Runs
  <2>8. RunInv'
    BY <2>1, <2>4, <2>7 DEF AnswerInv, RunInv, Runs, t
  <2> QED BY <2>5, <2>6, <2>8 DEF AnswerInv
<1>10. ASSUME NEW w \in Workers, TakeResult(w) PROVE AnswerInv'
  <2>1. /\ Runs(w) /\ upc[w] = "sent" /\ upc'[w] = "used"
        /\ \A v \in Workers : v # w => upc'[v] = upc[v]
        /\ UNCHANGED <<tpVars, conn, link, future, applied>>
        /\ result' = [result EXCEPT ![w] = IF link[conn[w]] THEN "ok" ELSE "error"]
    BY <1>10, <1>a DEF TakeResult, Receive
  <2>2. ModuleTypes' /\ AnswersAreTrue' /\ WaitInv'
    BY <2>1 DEF AnswerInv, ModuleTypes, AnswersAreTrue, WaitInv, Queued
  <2>3. RunInv'
    BY <1>b, <2>1 DEF AnswerInv, RunInv, Runs
  <2> QED BY <2>2, <2>3 DEF AnswerInv
<1>11. ASSUME NEW w \in Workers, SetValue(w) PROVE AnswerInv'
  <2> DEFINE t == task[w]
  <2>1. /\ Runs(w) /\ upc[w] = "used"
        /\ UNCHANGED <<tpVars, cpVars, applied>>
        /\ future' = [future EXCEPT ![t] = result[w]]
        /\ result' = [result EXCEPT ![w] = "none"]
    BY <1>11 DEF SetValue
  <2>2. /\ t \in Tasks /\ t \notin Queued /\ stamp[t] # 0
        /\ \A v \in Workers : v # w => task[v] # t
    BY <2>1, TasksApart DEF Runs
  <2>3. result[w] \in {"ok", "error"} /\ (result[w] = "ok" => applied[t] = 1)
    BY <2>1 DEF AnswerInv, RunInv
  <2> HIDE DEF t
  <2>4. /\ future' \in [Tasks -> {"none", "pending", "ok", "error", "broken"}]
        /\ future'[t] = result[w]
        /\ \A s \in Tasks : s # t => future'[s] = future[s]
        /\ result' \in [Workers -> {"none", "ok", "error"}]
        /\ \A v \in Workers : v # w => result'[v] = result[v]
    BY <1>b, <2>1, <2>2
  <2>5. ModuleTypes'
    BY <2>1, <2>4 DEF AnswerInv, ModuleTypes
  <2>6. AnswersAreTrue'
    BY <2>1, <2>2, <2>3, <2>4 DEF AnswerInv, AnswersAreTrue
  <2>7. WaitInv'
    BY <2>1, <2>2, <2>4 DEF AnswerInv, WaitInv, Queued
  <2>8. ASSUME NEW v \in Workers, Runs(v)' PROVE v # w /\ Runs(v)
    <3>1. v # w
      BY <2>1, <2>3, <2>4, <2>8 DEF Runs, t
    <3>2. task[v] \in Tasks /\ task[v] # t
      BY <2>1, <2>2, <2>8, <3>1, TasksApart DEF Runs
    <3> QED BY <2>1, <2>4, <2>8, <3>1, <3>2 DEF Runs
  <2>9. RunInv'
    BY <2>1, <2>4, <2>8 DEF AnswerInv, RunInv
  <2> QED BY <2>5, <2>6, <2>7, <2>9 DEF AnswerInv
<1>12. ASSUME NEW w \in Workers, ReturnConnection(w) PROVE AnswerInv'
  <2>1. /\ wpc'[w] = "loop"
        /\ \A v \in Workers : v # w => /\ wpc'[v] = wpc[v] /\ task'[v] = task[v]
                                        /\ upc'[v] = upc[v] /\ conn'[v] = conn[v]
        /\ UNCHANGED <<task_deque, stamp, link, dbVars>>
    BY <1>12, <1>a DEF ReturnConnection, push_connection, WorkerFinish, Goto
  <2>2. Queued' = Queued
    BY <2>1 DEF Queued
  <2> QED BY <2>1, <2>2, QuietStep DEF Runs
<1>13. ASSUME NEW c \in Clients, Notify(c) PROVE AnswerInv'
  <2>1. /\ UNCHANGED <<task_deque, task, stamp, cpVars, dbVars>>
        /\ \A w \in Workers : wpc'[w] = "run" => wpc[w] = "run"
    BY <1>13, <1>a DEF Notify, NotifyOne, Blocked
  <2>2. Queued' = Queued
    BY <2>1 DEF Queued
  <2> QED BY <2>1, <2>2, QuietStep DEF Runs
<1>14. ASSUME NEW c \in Clients, NEW t \in Tasks, exec_command(c, t) PROVE AnswerInv'
  <2>1. /\ stamp[t] = 0
        /\ future' = [future EXCEPT ![t] = "pending"]
        /\ UNCHANGED <<wpc, task, cpVars, result, applied>>
        /\ task_deque' = Append(task_deque, t) \/ task_deque' = <<t>> \o task_deque
    BY <1>14 DEF exec_command, push_task_back, push_task_front, CanPush
  <2>2. stamp' \in [Tasks -> Nat] /\ stamp'[t] # 0 /\ \A s \in Tasks : s # t => stamp'[s] = stamp[s]
    <3>1. stamp' = Stamped(t)
      BY <1>14 DEF exec_command, push_task_back, push_task_front
    <3>2. Cardinality(Pushed) \in Nat /\ stamp \in [Tasks -> Nat]
      BY FS_CardinalityType DEF PoolsInv, ThreadInv, StampInv, TPTypeOK
    <3> QED BY <3>1, <3>2 DEF Stamped
  <2>3. Queued' = Queued \cup {t}
    <3>1. task_deque \in Seq(Tasks)
      BY DEF PoolsInv, ThreadInv, TPTypeOK
    <3>2. CASE task_deque' = Append(task_deque, t)
      BY <3>1, <3>2, AppendElements DEF Queued, Elements
    <3>3. CASE task_deque' = <<t>> \o task_deque
      BY <3>1, <3>3, ConsElements DEF Queued, Elements
    <3> QED BY <2>1, <3>2, <3>3
  <2>4. /\ future' \in [Tasks -> {"none", "pending", "ok", "error", "broken"}]
        /\ future'[t] = "pending"
        /\ \A s \in Tasks : s # t => future'[s] = future[s]
    BY <1>b, <2>1
  <2>5. applied[t] = 0
    BY <2>1 DEF AnswerInv, WaitInv, AnswersAreTrue
  <2>6. ModuleTypes' /\ AnswersAreTrue'
    BY <2>1, <2>4, <2>5 DEF AnswerInv, ModuleTypes, AnswersAreTrue
  <2>7. WaitInv'
    BY <2>1, <2>2, <2>3, <2>4, <2>5 DEF AnswerInv, WaitInv
  <2>8. ASSUME NEW w \in Workers, Runs(w)' PROVE Runs(w)
    <3>1. task[w] \in Tasks /\ task[w] # t
      BY <2>1, <2>8, TasksApart DEF Runs
    <3> QED BY <2>1, <2>4, <2>8, <3>1 DEF Runs
  <2>9. RunInv'
    BY <2>1, <2>8 DEF AnswerInv, RunInv
  <2> QED BY <2>6, <2>7, <2>9 DEF AnswerInv
<1>15. CASE DestroyModule
  BY <1>15, <1>q DEF DestroyModule
<1>16. CASE DestroyThreads
  <2>1. /\ UNCHANGED <<task_deque, task, stamp, cpVars, dbVars>>
        /\ \A w \in Workers : wpc'[w] = "run" => wpc[w] = "run"
    BY <1>16, <1>a DEF DestroyThreads, SetDone, NotifyAll, Blocked
  <2>2. Queued' = Queued
    BY <2>1 DEF Queued
  <2> QED BY <2>1, <2>2, QuietStep DEF Runs
<1>17. CASE JoinThreads
  <2>1. /\ UNCHANGED <<wpc, task, stamp, cpVars, result, applied>>
        /\ task_deque' = <<>>
        /\ future' = [t \in Tasks |-> IF t \in Queued THEN "broken" ELSE future[t]]
    BY <1>17 DEF JoinThreads, JoinAll
  <2>2. Queued' = {}
    BY <2>1 DEF Queued
  <2>3. ModuleTypes' /\ WaitInv'
    BY <1>b, <2>1, <2>2, WaitersPushed DEF AnswerInv, ModuleTypes, WaitInv
  <2>4. AnswersAreTrue'
    BY <2>1 DEF AnswerInv, WaitInv, AnswersAreTrue
  <2>5. ASSUME NEW w \in Workers, Runs(w)' PROVE Runs(w)
    <3>1. task[w] \in Tasks /\ task[w] \notin Queued
      BY <2>1, <2>5, TasksApart DEF Runs
    <3> QED BY <2>1, <2>5, <3>1 DEF Runs
  <2>6. RunInv'
    BY <2>1, <2>5 DEF AnswerInv, RunInv
  <2> QED BY <2>3, <2>4, <2>6 DEF AnswerInv
<1>18. CASE DestroyConnections
  BY <1>18, <1>q DEF DestroyConnections, Close
<1>19. BuildConnections => AnswerInv'
  BY <1>1, <1>2 DEF BuildConnections
<1>20. ASSUME NEW w \in Workers, PoolStep(w) \/ TaskStep(w) PROVE AnswerInv'
  BY <1>5, <1>6, <1>7, <1>8, <1>9, <1>10, <1>11, <1>12, <1>20
     DEF TaskStep, Spin
<1> QED BY <1>3, <1>4, <1>8, <1>13, <1>14, <1>15, <1>16, <1>17, <1>18, <1>19, <1>20
        DEF Next, Ended

(* A success was executed exactly once, a broken promise never, and no     *)
(* command twice, whatever the server, the threads and the owner do.       *)
THEOREM AnswersTrue == Spec => []AnswersAreTrue
<1>1. Init => AnswerInv
  BY DEF Init, TPInit, CPInit, AnswerInv, ModuleTypes, WaitInv, RunInv, Runs, AnswersAreTrue,
         Queued
<1>2. AnswerInv => AnswersAreTrue
  BY DEF AnswerInv
<1> QED BY <1>1, <1>2, AnswerStep, PoolsInvariant, LifeInvariant, PTL DEF Spec

==============================================================================
