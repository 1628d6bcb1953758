------------------------------ MODULE ThreadPool ------------------------------
(***************************************************************************)
(* thread_pool (DB_module.h, DB_module.cpp): worker threads that take      *)
(* tasks from one deque under a mutex and a condition variable, threads    *)
(* that push tasks to its back or to its front, and the owner that         *)
(* constructs and destroys the pool.                                       *)
(*                                                                         *)
(* A critical section is one action when nothing can be seen between its   *)
(* lock and its unlock.  The worker's is split: the destructor sets done   *)
(* and notifies without the mutex, so that it may act between the          *)
(* evaluation of the wait's predicate and the wait, and between the test   *)
(* of done and the pull.  What a task does is left out.  A definition      *)
(* marked "Slip" is a variant of the one that follows it, with a plausible *)
(* mistake: it is used only to see a property fail.                        *)
(***************************************************************************)
EXTENDS Naturals, Sequences, FiniteSets

CONSTANTS
    Workers,    \* the threads the constructor tries to start
    Tasks,      \* the tasks there are to push; each is pushed at most once
    Clients,    \* the threads that push tasks
    Nobody,     \* the mutex is free
    NoTask      \* the worker has no task

\* thread_pool(int) throws on a count that is not positive.
ASSUME ThreadPoolAssumption ==
    /\ Workers # {}
    /\ Nobody \notin Workers
    /\ NoTask \notin Tasks

VARIABLES
    task_deque, \* the tasks that wait, front first
    done,       \* the flag of the destructor; atomic, not under the mutex
    mut,        \* the worker that holds the mutex between two of its steps
    threads,    \* the threads that started
    wpc,        \* where each worker is in worker_thread
    task,       \* the task each worker has pulled
    cpc,        \* where each client is in push_task_back / push_task_front
    owner,      \* where the owner is in the pool's lifetime
    stamp,      \* history: when each task was pushed, 0 if it was not
    front,      \* history: the tasks pushed to the front
    completed,  \* history: the tasks run to their end
    dropped,    \* history: the tasks destroyed with the deque
    late        \* history: how many tasks were pulled after done was set

ownerVars  == <<done, threads, owner>>
clientVars == <<cpc, stamp, front>>
history    == <<completed, dropped, late>>
tpVars == <<task_deque, done, mut, threads, wpc, task, cpc, owner, stamp, front,
          completed, dropped, late>>

(* A worker evaluates while(!done) at "loop", locks at "lock", evaluates   *)
(* the predicate of the wait at "pred", is about to wait at "block", waits *)
(* at "blocked", tests done again at "check", pulls at "take" and runs the *)
(* task at "run".                                                          *)
WorkerStates == {"unborn", "failed", "loop", "lock", "pred", "block",
                 "blocked", "check", "take", "run", "exited"}
Holding      == {"pred", "block", "check", "take"}
OwnerStates  == {"starting", "alive", "notify", "join", "gone"}

Queued  == {task_deque[i] : i \in 1..Len(task_deque)}
Running == {task[w] : w \in Workers} \ {NoTask}
Pushed  == {t \in Tasks : stamp[t] > 0}

TPTypeOK ==
    /\ task_deque \in Seq(Tasks)
    /\ done \in BOOLEAN
    /\ mut \in Workers \cup {Nobody}
    /\ threads \subseteq Workers
    /\ wpc \in [Workers -> WorkerStates]
    /\ task \in [Workers -> Tasks \cup {NoTask}]
    /\ cpc \in [Clients -> {"idle", "notify"}]
    /\ owner \in OwnerStates
    /\ stamp \in [Tasks -> Nat]
    /\ front \subseteq Tasks
    /\ completed \subseteq Tasks
    /\ dropped \subseteq Tasks
    /\ late \in Nat

TPInit ==
    /\ task_deque = <<>>
    /\ done = FALSE
    /\ mut = Nobody
    /\ threads = {}
    /\ wpc = [w \in Workers |-> "unborn"]
    /\ task = [w \in Workers |-> NoTask]
    /\ cpc = [c \in Clients |-> "idle"]
    /\ owner = "starting"
    /\ stamp = [t \in Tasks |-> 0]
    /\ front = {}
    /\ completed = {}
    /\ dropped = {}
    /\ late = 0

-------------------------------------------------------------------------------
(* starting_threads.  Each thread runs as soon as it is made; one that the *)
(* system refuses to start is skipped.                                     *)

StartThread(w) ==
    /\ owner = "starting"
    /\ wpc[w] = "unborn"
    /\ \/ /\ threads' = threads \cup {w}
          /\ wpc' = [wpc EXCEPT ![w] = "loop"]
       \/ /\ threads' = threads
          /\ wpc' = [wpc EXCEPT ![w] = "failed"]
    /\ UNCHANGED <<task_deque, done, mut, task, owner, clientVars, history>>

Constructed ==
    /\ owner = "starting"
    /\ \A w \in Workers : wpc[w] # "unborn"
    /\ owner' = "alive"
    /\ UNCHANGED <<task_deque, done, mut, threads, wpc, task, clientVars, history>>

-------------------------------------------------------------------------------
(* The clients: push under the mutex, then notify one after the unlock.    *)

CanPush(c, t) ==
    /\ owner = "alive"
    /\ cpc[c] = "idle"
    /\ mut = Nobody
    /\ stamp[t] = 0

Stamped(t) == [stamp EXCEPT ![t] = Cardinality(Pushed) + 1]

\* Slip: notifies only when the deque was empty.
push_task_back_if_empty(c, t) ==
    /\ CanPush(c, t)
    /\ task_deque' = Append(task_deque, t)
    /\ cpc' = IF task_deque = <<>> THEN [cpc EXCEPT ![c] = "notify"] ELSE cpc
    /\ stamp' = Stamped(t)
    /\ UNCHANGED <<mut, wpc, task, front, ownerVars, history>>

push_task_back(c, t) ==
    /\ CanPush(c, t)
    /\ task_deque' = Append(task_deque, t)
    /\ cpc' = [cpc EXCEPT ![c] = "notify"]
    /\ stamp' = Stamped(t)
    /\ UNCHANGED <<mut, wpc, task, front, ownerVars, history>>

\* Slips: pushes to the wrong end; does not notify.
push_task_front_back(c, t) ==
    /\ CanPush(c, t)
    /\ task_deque' = Append(task_deque, t)
    /\ cpc' = [cpc EXCEPT ![c] = "notify"]
    /\ stamp' = Stamped(t)
    /\ front' = front \cup {t}
    /\ UNCHANGED <<mut, wpc, task, ownerVars, history>>

push_task_front_silent(c, t) ==
    /\ CanPush(c, t)
    /\ task_deque' = <<t>> \o task_deque
    /\ stamp' = Stamped(t)
    /\ front' = front \cup {t}
    /\ UNCHANGED <<cpc, mut, wpc, task, ownerVars, history>>

push_task_front(c, t) ==
    /\ CanPush(c, t)
    /\ task_deque' = <<t>> \o task_deque
    /\ cpc' = [cpc EXCEPT ![c] = "notify"]
    /\ stamp' = Stamped(t)
    /\ front' = front \cup {t}
    /\ UNCHANGED <<mut, wpc, task, ownerVars, history>>

Blocked == {w \in Workers : wpc[w] = "blocked"}

\* notify_one wakes one of the waiting workers, if there is one.
NotifyOne(c) ==
    /\ cpc[c] = "notify"
    /\ cpc' = [cpc EXCEPT ![c] = "idle"]
    /\ \/ /\ Blocked = {}
          /\ wpc' = wpc
       \/ \E w \in Blocked : wpc' = [wpc EXCEPT ![w] = "lock"]
    /\ UNCHANGED <<task_deque, mut, task, stamp, front, ownerVars, history>>

-------------------------------------------------------------------------------
(* worker_thread.                                                          *)

Goto(w, pc) == wpc' = [wpc EXCEPT ![w] = pc]

WorkerLoop(w) ==
    /\ wpc[w] = "loop"
    /\ IF done THEN Goto(w, "exited") ELSE Goto(w, "lock")
    /\ UNCHANGED <<task_deque, mut, task, ownerVars, clientVars, history>>

WorkerLock(w) ==
    /\ wpc[w] = "lock"
    /\ mut = Nobody
    /\ mut' = w
    /\ Goto(w, "pred")
    /\ UNCHANGED <<task_deque, task, ownerVars, clientVars, history>>

\* Slip: the predicate ignores done.
WorkerPred_deaf(w) ==
    /\ wpc[w] = "pred"
    /\ IF task_deque # <<>> THEN Goto(w, "check") ELSE Goto(w, "block")
    /\ UNCHANGED <<task_deque, mut, task, ownerVars, clientVars, history>>

WorkerPred(w) ==
    /\ wpc[w] = "pred"
    /\ IF task_deque # <<>> \/ done THEN Goto(w, "check") ELSE Goto(w, "block")
    /\ UNCHANGED <<task_deque, mut, task, ownerVars, clientVars, history>>

\* The wait releases the mutex and joins the waiters in one step.
WorkerBlock(w) ==
    /\ wpc[w] = "block"
    /\ mut' = Nobody
    /\ Goto(w, "blocked")
    /\ UNCHANGED <<task_deque, task, ownerVars, clientVars, history>>

\* A condition variable may wake a waiter that nobody notified.
SpuriousWakeup(w) ==
    /\ wpc[w] = "blocked"
    /\ Goto(w, "lock")
    /\ UNCHANGED <<task_deque, mut, task, ownerVars, clientVars, history>>

\* Slip: a destructor waits until the deque is drained.
WorkerCheck_drain(w) ==
    /\ wpc[w] = "check"
    /\ \/ /\ task_deque = <<>>
          /\ Goto(w, "exited")
          /\ mut' = Nobody
       \/ /\ task_deque # <<>>
          /\ Goto(w, "take")
          /\ mut' = mut
    /\ UNCHANGED <<task_deque, task, ownerVars, clientVars, history>>

\* break: the unique_lock unlocks on the way out.
WorkerCheck(w) ==
    /\ wpc[w] = "check"
    /\ \/ /\ done
          /\ Goto(w, "exited")
          /\ mut' = Nobody
       \/ /\ ~done
          /\ Goto(w, "take")
          /\ mut' = mut
    /\ UNCHANGED <<task_deque, task, ownerVars, clientVars, history>>

\* Slips: no pop_front; the back instead of the front.
pull_task_no_pop(w) ==
    /\ task' = [task EXCEPT ![w] = Head(task_deque)]
    /\ task_deque' = task_deque

pull_task_back(w) ==
    /\ task' = [task EXCEPT ![w] = task_deque[Len(task_deque)]]
    /\ task_deque' = SubSeq(task_deque, 1, Len(task_deque) - 1)

\* pull_task moves the front task out and pops it.
pull_task(w) ==
    /\ task' = [task EXCEPT ![w] = Head(task_deque)]
    /\ task_deque' = Tail(task_deque)

WorkerTake(w) ==
    /\ wpc[w] = "take"
    /\ pull_task(w)
    /\ mut' = Nobody
    /\ late' = IF done THEN late + 1 ELSE late
    /\ Goto(w, "run")
    /\ UNCHANGED <<completed, dropped, ownerVars, clientVars>>

\* Slip: the task is noted as completed after it was cleared.
WorkerFinish_swapped(w) ==
    /\ wpc[w] = "run"
    /\ task' = [task EXCEPT ![w] = NoTask]
    /\ completed' = completed \cup {task'[w]}
    /\ Goto(w, "loop")
    /\ UNCHANGED <<task_deque, mut, dropped, late, ownerVars, clientVars>>

WorkerFinish(w) ==
    /\ wpc[w] = "run"
    /\ task' = [task EXCEPT ![w] = NoTask]
    /\ completed' = completed \cup {task[w]}
    /\ Goto(w, "loop")
    /\ UNCHANGED <<task_deque, mut, dropped, late, ownerVars, clientVars>>

-------------------------------------------------------------------------------
(* ~thread_pool.  Nobody may push to an object that is being destroyed.    *)

SetDone ==
    /\ owner = "alive"
    /\ \A c \in Clients : cpc[c] = "idle"
    /\ done' = TRUE
    /\ owner' = "notify"
    /\ UNCHANGED <<task_deque, mut, threads, wpc, task, clientVars, history>>

\* Slip: the destructor joins without a notification.
NotifyAll_forgotten ==
    /\ owner = "notify"
    /\ owner' = "join"
    /\ UNCHANGED <<task_deque, done, mut, threads, wpc, task, clientVars, history>>

NotifyAll ==
    /\ owner = "notify"
    /\ wpc' = [w \in Workers |-> IF w \in Blocked THEN "lock" ELSE wpc[w]]
    /\ owner' = "join"
    /\ UNCHANGED <<task_deque, done, mut, threads, task, clientVars, history>>

\* Every thread is joined, then the members are destroyed with what they hold.
JoinAll ==
    /\ owner = "join"
    /\ \A w \in threads : wpc[w] = "exited"
    /\ owner' = "gone"
    /\ dropped' = dropped \cup Queued
    /\ task_deque' = <<>>
    /\ UNCHANGED <<done, mut, threads, wpc, task, clientVars, completed, late>>

\* The end of the pool's life: nothing more happens to it.
Gone == owner = "gone" /\ UNCHANGED tpVars

WorkerStep(w) ==
    \/ WorkerLoop(w)
    \/ WorkerLock(w)
    \/ WorkerPred(w)
    \/ WorkerBlock(w)
    \/ WorkerCheck(w)
    \/ WorkerTake(w)

TPNext ==
    \/ \E w \in Workers : \/ StartThread(w)
                          \/ WorkerStep(w)
                          \/ WorkerFinish(w)
                          \/ SpuriousWakeup(w)
    \/ \E c \in Clients : \/ \E t \in Tasks : push_task_back(c, t)
                          \/ \E t \in Tasks : push_task_front(c, t)
                          \/ NotifyOne(c)
    \/ Constructed
    \/ SetDone
    \/ NotifyAll
    \/ JoinAll
    \/ Gone

TPSpec == TPInit /\ [][TPNext]_tpVars

(* The scheduler runs every thread that can run, and tasks come to an end. *)
(* Nothing obliges a client to push, the owner to destroy the pool, or the *)
(* system to wake a waiter spuriously.                                     *)
TPFairness ==
    /\ \A w \in Workers : /\ WF_tpVars(StartThread(w))
                          /\ WF_tpVars(WorkerStep(w))
                          /\ WF_tpVars(WorkerFinish(w))
    /\ \A c \in Clients : WF_tpVars(NotifyOne(c))
    /\ WF_tpVars(Constructed)
    /\ WF_tpVars(NotifyAll)
    /\ WF_tpVars(JoinAll)

TPFairSpec == TPSpec /\ TPFairness

-------------------------------------------------------------------------------
(* Properties.                                                             *)

(* No task is lost and none is run twice: a pushed task is in exactly one  *)
(* place - once in the deque, with one worker, completed, or dropped by    *)
(* the destructor - and nothing is run that was not pushed.                *)
TaskConservation ==
    /\ Pushed = Queued \cup Running \cup completed \cup dropped
    /\ Queued \cap (Running \cup completed \cup dropped) = {}
    /\ Running \cap (completed \cup dropped) = {}
    /\ completed \cap dropped = {}
    /\ \A i, j \in 1..Len(task_deque) : task_deque[i] = task_deque[j] => i = j
    /\ \A v, w \in Workers : task[v] = task[w] /\ task[v] # NoTask => v = w

(* The deque serves tasks pushed to the front before all others and the    *)
(* latest of them first, the rest in the order they were pushed: "command  *)
(* have to be executed out of turn" of DB_module.h.                        *)
Precedes(s, t) ==
    \/ s \in front /\ t \notin front
    \/ s \in front /\ t \in front /\ stamp[s] > stamp[t]
    \/ s \notin front /\ t \notin front /\ stamp[s] < stamp[t]

ServiceOrder ==
    \A i, j \in 1..Len(task_deque) :
        i < j => Precedes(task_deque[i], task_deque[j])

(* No wakeup by a producer is lost: while the pool lives, a worker sleeps  *)
(* through queued tasks only if each of them has a notification under way  *)
(* or a worker that will look at the deque before it sleeps.               *)
Awake == {w \in Workers : wpc[w] \in {"loop", "lock", "pred", "check", "take"}}
NoTaskSleptThrough ==
    ~done /\ Blocked # {} =>
        Len(task_deque) <= Cardinality(Awake)
                           + Cardinality({c \in Clients : cpc[c] = "notify"})

(* Once every worker has passed the destructor's notify_all, at most one   *)
(* of them can have missed it: the one that had evaluated the predicate    *)
(* and not yet begun to wait when done was set.                            *)
AtMostOneSleeper ==
    owner = "join" => Cardinality({w \in Workers : wpc[w] \in {"block", "blocked"}}) <= 1

(* When the destructor has returned no thread touches the pool again.      *)
NoThreadOutlivesPool == owner = "gone" => \A w \in threads : wpc[w] = "exited"

(* A destructor that has begun stops the intake: only a worker that had    *)
(* passed its test of done when it was set can still pull a task, and the  *)
(* mutex allows one such worker.                                           *)
AtMostOneLateTask == late <= 1

(* A queued task is run, whatever the interleaving of pushes,              *)
(* notifications and waits, unless its pool is destroyed first or has no   *)
(* thread at all.                                                          *)
EveryTaskServed ==
    \A t \in Tasks :
        (t \in Queued) ~> (t \in completed \/ owner # "alive" \/ threads = {})

(* The destructor returns from its joins unless a worker missed its        *)
(* notification.                                                           *)
DestructorReturnsIfNoneMissed ==
    (owner = "join" /\ \A w \in Workers : wpc[w] \notin {"block", "blocked"})
        ~> owner = "gone"

(* The destructor returns: "I'll wait for notifying condition variable" in *)
(* worker_thread relies on ~thread_pool to notify every waiting worker.    *)
DestructorReturns == (owner = "notify") ~> (owner = "gone")

(* The pool is a queue of tasks: the abstract specification of TaskQueue.  *)
TQ == INSTANCE TaskQueue WITH
          pending <- task_deque, running <- Running, finished <- completed,
          discarded <- dropped, open <- ~done

ImplementsTaskQueue == TQ!Spec

===============================================================================
