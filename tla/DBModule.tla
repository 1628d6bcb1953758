------------------------------- MODULE DBModule -------------------------------
(***************************************************************************)
(* DB_module: exec_command wraps an SQL command and a promise into a task  *)
(* for the thread pool (module ThreadPool) and returns the future; the     *)
(* worker that runs the task spins until it has pulled a connection        *)
(* (module ConnectionPool), executes the command over it, sets the         *)
(* promise, and pushes the connection back.                                *)
(*                                                                         *)
(* The module has pools of its own: their state is part of its state, and  *)
(* every action is an action of one of them, or of both at once, with what *)
(* it means to the futures and to the database.  A task is one command.  A *)
(* "Slip" is a variant of the definition after it with a plausible         *)
(* mistake, used only to see a property fail.                              *)
(***************************************************************************)
EXTENDS ThreadPool, ConnectionPool

\* The threads that pull connections are the workers.
ASSUME DBModuleAssumption == Users = Workers

VARIABLES
    module,     \* the DB_module object, which every task refers to: "alive",
                \* "dying" while it destroys its pools, "gone"
    future,     \* what the future of each command holds
    result,     \* the PG_result a worker has and has not set yet
    applied     \* history: how often the database executed each command

dbVars == <<module, future, result, applied>>
vars   == <<tpVars, cpVars, dbVars>>

Init ==
    /\ TPInit
    /\ CPInit
    /\ module = "alive"
    /\ future = [t \in Tasks |-> "none"]
    /\ result = [w \in Workers |-> "none"]
    /\ applied = [t \in Tasks |-> 0]

-------------------------------------------------------------------------------
(* Steps of one pool alone.                                                *)

\* Construction: the connections first, then the threads.
BuildConnections ==
    /\ \/ WithoutParameters
       \/ make_connections
       \/ \E c \in Conns : Connect(c) \/ Collect(c)
       \/ Established
    /\ UNCHANGED <<tpVars, dbVars>>

StartThreads ==
    /\ phase = "open"
    /\ \/ \E w \in Workers : StartThread(w)
       \/ Constructed
    /\ UNCHANGED <<cpVars, dbVars>>

PoolStep(w) ==
    /\ WorkerStep(w) \/ SpuriousWakeup(w)
    /\ UNCHANGED <<cpVars, dbVars>>

Notify(c) ==
    /\ NotifyOne(c)
    /\ UNCHANGED <<cpVars, dbVars>>

Environment ==
    /\ ServerDown \/ ServerUp
    /\ UNCHANGED <<tpVars, dbVars>>

-------------------------------------------------------------------------------
(* exec_command: the promise and its future are made, the task is pushed.  *)

exec_command(c, t) ==
    /\ module = "alive"
    /\ push_task_back(c, t) \/ push_task_front(c, t)
    /\ future' = [future EXCEPT ![t] = "pending"]
    /\ UNCHANGED <<cpVars, module, result, applied>>

-------------------------------------------------------------------------------
(* The task.  A pull that fails leaves the worker before its next pull.    *)

Runs(w) == wpc[w] = "run" /\ future[task[w]] = "pending"

PullConnection(w) ==
    /\ Runs(w)
    /\ Pop(w) \/ CheckStatus(w) \/ Reset(w)
    /\ UNCHANGED <<tpVars, dbVars>>

\* An empty deque: yield and try again.
Spin(w) ==
    /\ Runs(w)
    /\ upc[w] = "idle"
    /\ conns_deque = <<>>
    /\ UNCHANGED vars

Execute(w) ==
    /\ Runs(w)
    /\ Send(w)
    /\ applied' = IF link[conn[w]] THEN [applied EXCEPT ![task[w]] = @ + 1] ELSE applied
    /\ UNCHANGED <<tpVars, module, future, result>>

\* Slip: every result is taken for a success.
TakeResult_unchecked(w) ==
    /\ Runs(w)
    /\ Receive(w)
    /\ result' = [result EXCEPT ![w] = "ok"]
    /\ UNCHANGED <<tpVars, module, future, applied>>

TakeResult(w) ==
    /\ Runs(w)
    /\ Receive(w)
    /\ result' = [result EXCEPT ![w] = IF link[conn[w]] THEN "ok" ELSE "error"]
    /\ UNCHANGED <<tpVars, module, future, applied>>

\* Slip: the promise is set on success only.
SetValue_success_only(w) ==
    /\ Runs(w)
    /\ upc[w] = "used"
    /\ result[w] = "ok"
    /\ future' = [future EXCEPT ![task[w]] = result[w]]
    /\ result' = [result EXCEPT ![w] = "none"]
    /\ UNCHANGED <<tpVars, cpVars, module, applied>>

\* set_value: the client sees the result before the connection is back.
SetValue(w) ==
    /\ Runs(w)
    /\ upc[w] = "used"
    /\ future' = [future EXCEPT ![task[w]] = result[w]]
    /\ result' = [result EXCEPT ![w] = "none"]
    /\ UNCHANGED <<tpVars, cpVars, module, applied>>

\* Slip: the connection is not returned.
ReturnConnection_forgotten(w) ==
    /\ wpc[w] = "run"
    /\ future[task[w]] # "pending"
    /\ upc[w] = "used"
    /\ WorkerFinish(w)
    /\ UNCHANGED <<cpVars, dbVars>>

\* The connection goes back and the task is over.
ReturnConnection(w) ==
    /\ wpc[w] = "run"
    /\ future[task[w]] # "pending"
    /\ push_connection(w)
    /\ WorkerFinish(w)
    /\ UNCHANGED dbVars

TaskStep(w) ==
    \/ PullConnection(w)
    \/ Spin(w)
    \/ Execute(w)
    \/ TakeResult(w)
    \/ SetValue(w)
    \/ ReturnConnection(w)

-------------------------------------------------------------------------------
(* Destruction of a module that owns its pools: it joins the threads while *)
(* it is still there.                                                      *)

DestroyModule ==
    /\ module = "alive"
    /\ owner = "alive"
    /\ \A c \in Clients : cpc[c] = "idle"
    /\ module' = "dying"
    /\ UNCHANGED <<tpVars, cpVars, future, result, applied>>

DestroyThreads ==
    /\ module # "alive"
    /\ SetDone \/ NotifyAll
    /\ UNCHANGED <<cpVars, dbVars>>

\* The tasks left in the deque are destroyed, and their promises with them.
JoinThreads ==
    /\ JoinAll
    /\ future' = [t \in Tasks |-> IF t \in Queued THEN "broken" ELSE future[t]]
    /\ UNCHANGED <<cpVars, module, result, applied>>

\* Slip: the members are destroyed in the opposite order.
DestroyConnections_first ==
    /\ owner # "starting"
    /\ Close
    /\ module' = "gone"
    /\ UNCHANGED <<tpVars, future, result, applied>>

DestroyConnections ==
    /\ owner = "gone"
    /\ Close
    /\ module' = "gone"
    /\ UNCHANGED <<tpVars, future, result, applied>>

\* Everything has been destroyed.
Ended == phase = "closed" /\ UNCHANGED vars

-------------------------------------------------------------------------------

Next ==
    \/ BuildConnections
    \/ StartThreads
    \/ \E w \in Workers : PoolStep(w) \/ TaskStep(w)
    \/ \E c \in Clients : Notify(c) \/ (\E t \in Tasks : exec_command(c, t))
    \/ Environment
    \/ DestroyModule
    \/ DestroyThreads
    \/ JoinThreads
    \/ DestroyConnections
    \/ Ended

Spec == Init /\ [][Next]_vars

(* The scheduler runs every thread that can run.  Nothing is said of the   *)
(* server here, of clients or of the owner's decision to destroy.          *)
Fairness ==
    /\ WF_vars(BuildConnections)
    /\ WF_vars(StartThreads)
    /\ \A w \in Workers :
          /\ WF_vars(WorkerStep(w) /\ UNCHANGED <<cpVars, dbVars>>)
          /\ WF_vars(TaskStep(w))
    /\ \A c \in Clients : WF_vars(Notify(c))

FairSpec == Spec /\ Fairness

\* The server always comes back.
RecoveringSpec ==
    FairSpec /\ WF_vars(ServerUp /\ UNCHANGED <<tpVars, dbVars>>)

-------------------------------------------------------------------------------
(* Properties.                                                             *)

(* A future tells the truth: the database executed a command at most once, *)
(* exactly once when the result is a success, and never when the promise   *)
(* was broken by the destruction of the pool.  (A command whose result is  *)
(* an error may have been executed: the session was lost before the result *)
(* arrived.)                                                               *)
AnswersAreTrue ==
    \A t \in Tasks :
        /\ applied[t] <= 1
        /\ future[t] = "ok" => applied[t] = 1
        /\ future[t] \in {"none", "broken"} => applied[t] = 0

(* Two threads never drive one connection, and a connection is out of the  *)
(* pool only while the task that pulled it runs: when the threads have     *)
(* been joined, ~connection_pool finds every connection that is not lost.  *)
ConnectionsFollowTasks ==
    /\ \A v, w \in Workers : conn[v] = conn[w] /\ conn[v] # NoConn => v = w
    /\ \A w \in Workers : upc[w] # "idle" => task[w] # NoTask
    /\ owner = "gone" => Pooled = InDeque \cup leaked \cup finished

(* A task never refers to a DB_module that has been destroyed: the threads *)
(* are joined first.                                                       *)
NoUseAfterDestruction == module = "gone" => Running = {}

(* The only thing that keeps a pending command from being answered, or     *)
(* dropped with the pool, is that there is no thread or that no connection *)
(* is left: none was established, or every one was given up.               *)
Stranded == threads = {} \/ (conns_deque = <<>> /\ InUse = {})

AnsweredUnlessStranded ==
    \A t \in Tasks :
        (future[t] = "pending")
            ~> (future[t] # "pending" \/ owner \notin {"starting", "alive"} \/ Stranded)

(* "Return connection to pool of connections", says exec_command: every    *)
(* connection goes back, so that with a server that always comes back a    *)
(* command is answered if there is a thread and there ever was a           *)
(* connection.                                                             *)
AnsweredWhenServerReturns ==
    \A t \in Tasks :
        (future[t] = "pending" /\ conns_established > 0 /\ threads # {})
            ~> (future[t] # "pending" \/ owner # "alive")

===============================================================================
