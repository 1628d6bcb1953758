------------------------------ MODULE TaskQueue ------------------------------
(***************************************************************************)
(* What a pool of threads promises to those who hand it tasks, without its *)
(* mutex, condition variable and worker loops: a task submitted while the  *)
(* queue is open is started at most once and from the front of the queue,  *)
(* it is finished or, once the queue is closed, discarded without having   *)
(* been started, and nothing runs after the discarding.  ThreadPool        *)
(* implements it.                                                          *)
(***************************************************************************)
EXTENDS Naturals, Sequences

CONSTANT Tasks

VARIABLES
    pending,    \* the tasks submitted and not started, in the order of service
    running,    \* the tasks being run
    finished,   \* the tasks run to their end
    discarded,  \* the tasks thrown away unstarted when the queue was destroyed
    open        \* tasks may still be submitted

vars == <<pending, running, finished, discarded, open>>

Waiting == {pending[i] : i \in 1..Len(pending)}
Known   == Waiting \cup running \cup finished \cup discarded

Init ==
    /\ pending = <<>>
    /\ running = {}
    /\ finished = {}
    /\ discarded = {}
    /\ open = TRUE

\* A new task goes behind all the others or, out of turn, before them.
Submit(t) ==
    /\ open
    /\ t \notin Known
    /\ pending' \in {Append(pending, t), <<t>> \o pending}
    /\ UNCHANGED <<running, finished, discarded, open>>

Start ==
    /\ pending # <<>>
    /\ running' = running \cup {Head(pending)}
    /\ pending' = Tail(pending)
    /\ UNCHANGED <<finished, discarded, open>>

Finish(t) ==
    /\ t \in running
    /\ running' = running \ {t}
    /\ finished' = finished \cup {t}
    /\ UNCHANGED <<pending, discarded, open>>

Close ==
    /\ open
    /\ open' = FALSE
    /\ UNCHANGED <<pending, running, finished, discarded>>

\* The end of a closed queue waits for what is running.
Discard ==
    /\ ~open
    /\ running = {}
    /\ discarded' = discarded \cup Waiting
    /\ pending' = <<>>
    /\ UNCHANGED <<running, finished, open>>

Next ==
    \/ \E t \in Tasks : Submit(t) \/ Finish(t)
    \/ Start
    \/ Close
    \/ Discard

Spec == Init /\ [][Next]_vars

==============================================================================
