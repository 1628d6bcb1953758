---------------------------- MODULE ConnectionPool ----------------------------
(***************************************************************************)
(* connection_pool (DB_module.h, DB_module.cpp): the PGconn* that its      *)
(* constructor could establish, kept in a deque.  A thread pulls one,      *)
(* resets it if it has failed, runs a command over it and pushes it back.  *)
(* The database server may go down, which ends every session, and come up  *)
(* again; a PGconn* shows the loss only after a command failed over it.    *)
(* A server that is up may still refuse a session (a wrong database name   *)
(* or password, too many connections).                                     *)
(*                                                                         *)
(* pull_connection on an empty deque returns false and changes nothing: it *)
(* is a stuttering step.  A "Slip" is a variant of the definition after it *)
(* with a plausible mistake, used only to see a property fail.             *)
(***************************************************************************)
EXTENDS Naturals, Sequences, FiniteSets

CONSTANTS
    ConnCount,  \* how many connections the constructor tries to establish
    Attempts,   \* attempts_overall: how often it tries each
    Users,      \* the threads that pull and push connections
    NoConn,     \* the user has no connection
    MaxOutages  \* bound: how often the server goes down

Conns == 1..ConnCount

ASSUME ConnectionPoolAssumption ==
    /\ ConnCount \in Nat
    /\ Attempts \in Nat \ {0}
    /\ NoConn \notin Conns
    /\ MaxOutages \in Nat

VARIABLES
    phase,              \* of the pool's life: "called", "connecting", "open" or "closed"
    tries,              \* how often each connection was tried
    attempt,            \* what each asynchronous call has come to; "none": not made
    collected,          \* how many of the futures the constructor has read
    conns_deque,        \* the connections ready for use, front first
    conns_established,  \* how many the constructor established
    status,             \* what PQstatus says of each connection
    upc,                \* where each user is between a pull and a push
    conn,               \* the connection each user has popped
    server,             \* environment: the server is up
    link,               \* environment: the server still has the session
    outages,            \* history: how often the server went down
    refused,            \* history: which attempt at which connection was refused
    leaked,             \* history: the connections a failed pull gave up
    finished,           \* history: the connections closed by the destructor
    failures            \* history: the commands that failed

buildVars == <<tries, attempt, collected, conns_established, refused>>
envVars   == <<server, link, outages>>
userVars  == <<upc, conn>>
cpVars == <<phase, buildVars, conns_deque, status, userVars, envVars, leaked,
          finished, failures>>

(* A user has popped a connection at "check", found it bad at "reset", may *)
(* use it at "held", waits for the result at "sent" and has it at "used".  *)
UserStates == {"idle", "check", "reset", "held", "sent", "used"}

InDeque == {conns_deque[i] : i \in 1..Len(conns_deque)}
InUse   == {conn[u] : u \in Users} \ {NoConn}

CPTypeOK ==
    /\ phase \in {"called", "connecting", "open", "closed"}
    /\ tries \in [Conns -> 0..Attempts]
    /\ attempt \in [Conns -> {"none", "trying", "established", "nullptr"}]
    /\ collected \in 0..ConnCount
    /\ conns_deque \in Seq(Conns)
    /\ conns_established \in Nat
    /\ status \in [Conns -> {"OK", "BAD"}]
    /\ upc \in [Users -> UserStates]
    /\ conn \in [Users -> Conns \cup {NoConn}]
    /\ server \in BOOLEAN
    /\ link \in [Conns -> BOOLEAN]
    /\ outages \in 0..MaxOutages
    /\ refused \subseteq Conns \X (1..Attempts)
    /\ leaked \subseteq Conns
    /\ finished \subseteq Conns
    /\ failures \in Nat

CPInit ==
    /\ phase = "called"
    /\ tries = [c \in Conns |-> 0]
    /\ attempt = [c \in Conns |-> "none"]
    /\ collected = 0
    /\ conns_deque = <<>>
    /\ conns_established = 0
    /\ status = [c \in Conns |-> "BAD"]
    /\ upc = [u \in Users |-> "idle"]
    /\ conn = [u \in Users |-> NoConn]
    /\ server = TRUE
    /\ link = [c \in Conns |-> FALSE]
    /\ outages = 0
    /\ refused = {}
    /\ leaked = {}
    /\ finished = {}
    /\ failures = 0

-------------------------------------------------------------------------------
(* The constructor.  Without parameters it returns at once, with an empty  *)
(* pool.  make_connections tries every connection in an asynchronous call  *)
(* of its own, and reads the futures in order.                             *)

WithoutParameters ==
    /\ phase = "called"
    /\ phase' = "open"
    /\ UNCHANGED <<buildVars, conns_deque, status, userVars, envVars, leaked,
                   finished, failures>>

make_connections ==
    /\ phase = "called"
    /\ phase' = "connecting"
    /\ attempt' = [c \in Conns |-> "trying"]
    /\ UNCHANGED <<tries, collected, conns_established, refused, conns_deque, status,
                   userVars, envVars, leaked, finished, failures>>

\* An attempt that a server which is up may accept, and any server may refuse.
TryToConnect(c, lastTry) ==
    /\ attempt[c] = "trying"
    /\ tries' = [tries EXCEPT ![c] = @ + 1]
    /\ \/ /\ server
          /\ attempt' = [attempt EXCEPT ![c] = "established"]
          /\ status' = [status EXCEPT ![c] = "OK"]
          /\ link' = [link EXCEPT ![c] = TRUE]
          /\ UNCHANGED refused
       \/ /\ refused' = refused \cup {<<c, tries'[c]>>}
          /\ attempt' = IF lastTry
                        THEN [attempt EXCEPT ![c] = "nullptr"] ELSE attempt
          /\ UNCHANGED <<status, link>>
    /\ UNCHANGED <<phase, collected, conns_established, conns_deque, userVars,
                   server, outages, leaked, finished, failures>>

\* Slip: i <= attempts_overall instead of i != attempts_overall.
Connect_once_more(c) == TryToConnect(c, tries[c] = Attempts)

\* Anything but CONNECTION_OK is tried again, attempts_overall times in all.
Connect(c) == TryToConnect(c, tries[c] + 1 = Attempts)

\* The next future is read when its call has returned; nullptr is skipped.
Collect(c) ==
    /\ phase = "connecting"
    /\ c = collected + 1
    /\ attempt[c] # "trying"
    /\ collected' = c
    /\ conns_deque' = IF attempt[c] = "established"
                      THEN Append(conns_deque, c) ELSE conns_deque
    /\ UNCHANGED <<phase, tries, attempt, conns_established, refused, status, userVars,
                   envVars, leaked, finished, failures>>

\* Slip: the last future is left unread.
Established_early ==
    /\ phase = "connecting"
    /\ collected + 1 >= ConnCount
    /\ conns_established' = Len(conns_deque)
    /\ phase' = "open"
    /\ UNCHANGED <<tries, attempt, collected, refused, conns_deque, status, userVars,
                   envVars, leaked, finished, failures>>

Established ==
    /\ phase = "connecting"
    /\ collected = ConnCount
    /\ conns_established' = Len(conns_deque)
    /\ phase' = "open"
    /\ UNCHANGED <<tries, attempt, collected, refused, conns_deque, status, userVars,
                   envVars, leaked, finished, failures>>

-------------------------------------------------------------------------------
(* pull_connection: the pop is under the mutex, what follows is not.       *)

\* Slip: the popped connection stays in the deque.
Pop_copy(u) ==
    /\ phase = "open"
    /\ upc[u] = "idle"
    /\ conns_deque # <<>>
    /\ conn' = [conn EXCEPT ![u] = Head(conns_deque)]
    /\ upc' = [upc EXCEPT ![u] = "check"]
    /\ UNCHANGED <<phase, buildVars, conns_deque, status, envVars, leaked,
                   finished, failures>>

Pop(u) ==
    /\ phase = "open"
    /\ upc[u] = "idle"
    /\ conns_deque # <<>>
    /\ conn' = [conn EXCEPT ![u] = Head(conns_deque)]
    /\ conns_deque' = Tail(conns_deque)
    /\ upc' = [upc EXCEPT ![u] = "check"]
    /\ UNCHANGED <<phase, buildVars, status, envVars, leaked, finished, failures>>

\* Slip: the status is not looked at.
CheckStatus_skipped(u) ==
    /\ upc[u] = "check"
    /\ upc' = [upc EXCEPT ![u] = "held"]
    /\ UNCHANGED <<phase, buildVars, conns_deque, status, conn, envVars, leaked,
                   finished, failures>>

CheckStatus(u) ==
    /\ upc[u] = "check"
    /\ upc' = [upc EXCEPT ![u] = IF status[conn[u]] = "OK" THEN "held" ELSE "reset"]
    /\ UNCHANGED <<phase, buildVars, conns_deque, status, conn, envVars, leaked,
                   finished, failures>>

\* Slip: a reset connection is taken to be a good one.
Reset_trusted(u) ==
    /\ upc[u] = "reset"
    /\ upc' = [upc EXCEPT ![u] = "held"]
    /\ status' = [status EXCEPT ![conn[u]] = IF server THEN "OK" ELSE "BAD"]
    /\ link' = [link EXCEPT ![conn[u]] = server]
    /\ UNCHANGED <<phase, buildVars, conns_deque, conn, server, outages, leaked,
                   finished, failures>>

\* A server that is up may refuse this too.  A connection that cannot be reset is
\* returned to nobody: pull_connection returns false and its caller tries again
\* with another.
Reset(u) ==
    /\ upc[u] = "reset"
    /\ \/ /\ server
          /\ status' = [status EXCEPT ![conn[u]] = "OK"]
          /\ link' = [link EXCEPT ![conn[u]] = TRUE]
          /\ upc' = [upc EXCEPT ![u] = "held"]
          /\ UNCHANGED <<conn, leaked>>
       \/ /\ leaked' = leaked \cup {conn[u]}
          /\ upc' = [upc EXCEPT ![u] = "idle"]
          /\ conn' = [conn EXCEPT ![u] = NoConn]
          /\ UNCHANGED <<status, link>>
    /\ UNCHANGED <<phase, buildVars, conns_deque, server, outages, finished, failures>>

-------------------------------------------------------------------------------
(* PQexec over the connection held, by the code that pulled it.            *)

\* The command leaves; a server that still has the session executes it.
Send(u) ==
    /\ upc[u] = "held"
    /\ upc' = [upc EXCEPT ![u] = "sent"]
    /\ UNCHANGED <<phase, buildVars, conns_deque, status, conn, envVars, leaked,
                   finished, failures>>

Succeeds(u) == link[conn[u]]

\* The result arrives, or the loss of the session shows.
Receive(u) ==
    /\ upc[u] = "sent"
    /\ upc' = [upc EXCEPT ![u] = "used"]
    /\ IF Succeeds(u)
       THEN UNCHANGED <<status, failures>>
       ELSE /\ status' = [status EXCEPT ![conn[u]] = "BAD"]
            /\ failures' = failures + 1
    /\ UNCHANGED <<phase, buildVars, conns_deque, conn, envVars, leaked, finished>>

-------------------------------------------------------------------------------

push_connection(u) ==
    /\ upc[u] = "used"
    /\ conns_deque' = <<conn[u]>> \o conns_deque
    /\ upc' = [upc EXCEPT ![u] = "idle"]
    /\ conn' = [conn EXCEPT ![u] = NoConn]
    /\ UNCHANGED <<phase, buildVars, status, envVars, leaked, finished, failures>>

\* ~connection_pool closes what is in the deque.  Nobody may be using the pool.
Close ==
    /\ phase = "open"
    /\ \A u \in Users : upc[u] = "idle"
    /\ phase' = "closed"
    /\ finished' = InDeque
    /\ conns_deque' = <<>>
    /\ UNCHANGED <<buildVars, status, userVars, envVars, leaked, failures>>

-------------------------------------------------------------------------------
(* The server.                                                             *)

ServerDown ==
    /\ server
    /\ outages < MaxOutages
    /\ server' = FALSE
    /\ link' = [c \in Conns |-> FALSE]
    /\ outages' = outages + 1
    /\ UNCHANGED <<phase, buildVars, conns_deque, status, userVars, leaked,
                   finished, failures>>

ServerUp ==
    /\ ~server
    /\ server' = TRUE
    /\ UNCHANGED <<phase, buildVars, conns_deque, status, userVars, link, outages,
                   leaked, finished, failures>>

\* The end of the pool's life.
Closed == phase = "closed" /\ UNCHANGED cpVars

UserStep(u) ==
    \/ Pop(u)
    \/ CheckStatus(u)
    \/ Reset(u)
    \/ Send(u)
    \/ Receive(u)
    \/ push_connection(u)

CPNext ==
    \/ WithoutParameters
    \/ make_connections
    \/ \E c \in Conns : Connect(c) \/ Collect(c)
    \/ Established
    \/ \E u \in Users : UserStep(u)
    \/ Close
    \/ ServerDown
    \/ ServerUp
    \/ Closed

CPSpec == CPInit /\ [][CPNext]_cpVars

-------------------------------------------------------------------------------
(* Properties.                                                             *)

(* A connection the constructor has put into the deque is in one place at  *)
(* a time: once in the deque, with one user, given up by a failed pull or  *)
(* closed - so that no two threads ever run commands over one PGconn*.     *)
Pooled == {c \in 1..collected : attempt[c] = "established"}

ExclusiveOwnership ==
    /\ Pooled = InDeque \cup InUse \cup leaked \cup finished
    /\ \A i, j \in 1..Len(conns_deque) : conns_deque[i] = conns_deque[j] => i = j
    /\ \A u, v \in Users : conn[u] = conn[v] /\ conn[u] # NoConn => u = v
    /\ InDeque \cap (InUse \cup leaked \cup finished) = {}
    /\ InUse \cap (leaked \cup finished) = {}
    /\ leaked \cap finished = {}

(* No command is sent over a connection known to be bad: pull_connection   *)
(* hands out a connection only when PQstatus has said CONNECTION_OK, and   *)
(* nobody else can spoil it before it is used.                             *)
HandedOutIsGood == \A u \in Users : upc[u] \in {"held", "sent"} => status[conn[u]] = "OK"

(* One loss of the server makes at most one command fail per connection:   *)
(* the failure marks the connection, and the next pull resets it or gives  *)
(* it up before another command can fail over it.                          *)
FailuresBounded == failures <= outages * ConnCount

(* The pool lacks a connection it was asked for only when each of the      *)
(* attempts at it was refused, so that n refusals cost at most n \div      *)
(* Attempts connections; and while the server has never gone down none of  *)
(* those that were established is given up.  (Without parameters there is  *)
(* no attempt and no connection.)                                          *)
RefusalsTolerated ==
    phase = "open" =>
        /\ \/ \A c \in Conns : attempt[c] = "none"
           \/ Attempts * (ConnCount - conns_established) <= Cardinality(refused)
        /\ outages = 0 => Len(conns_deque) + Cardinality(InUse) = conns_established
===============================================================================
