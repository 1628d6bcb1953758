------------------------------- MODULE ClientHttp -------------------------------
(***************************************************************************)
(* Client_HTTP: one session per server, each a coroutine, on the threads   *)
(* of one io_context.  The sessions share the list of targets through      *)
(* three atomics, the terminal through one mutex, and, where there are     *)
(* fewer download directories than servers, the last directory.            *)
(*                                                                         *)
(* A coroutine keeps its thread from one wait for the network to the next, *)
(* so sessions interleave within the choice of a target only on different  *)
(* threads, and a session at the prompt takes a thread from the others.    *)
(* Every access to an atomic is a step.  Every server sends a file of the  *)
(* same name, in a body of one or two blocks.  A "Slip" is a variant of    *)
(* the definition after it with a plausible mistake, used only to see a    *)
(* property fail.                                                          *)
(***************************************************************************)
EXTENDS Integers, Sequences, FiniteSets, FiniteSetsExt

CONSTANTS
    num_coroutines,     \* servers, numbered from 0
    num_threads,        \* threads in ioc.run()
    targets_size,       \* targets in the configuration file
    Loops,              \* how many times the user wants them
    dirs,               \* download directories
    MaxTyped            \* bound: targets the user types

ASSUME ClientHttpAssumption ==
    /\ num_coroutines \in Nat \ {0} /\ num_threads \in Nat \ {0}
    /\ targets_size \in Nat \ {0} /\ Loops \in Nat /\ dirs \in Nat \ {0}
    /\ MaxTyped \in Nat

VARIABLES
    targets_loops, targets_index, targets_looping_over,     \* the atomics
    pc,             \* where each session is
    temp_loops,     \* its copy of targets_loops, 0 when it needs it no more
    temp_index,     \* its copy of targets_index, 0 when it needs it no more
    target,         \* what it asks for: the parts appended to "/"
    received,       \* its file: blocks written so far, and in all
    file,           \* each directory's file: who wrote its blocks
    defined,        \* no access beyond the list of targets so far
    asked,          \* history: requests for each target, counted up to Loops + 1
    raced,          \* history: a session ended a loop while another chose its target
    expected,       \* history: what each file holds if its last opener writes it all
    disturbed,      \* history: that opener was not alone, or failed
    typed           \* history, for the bound

atomics == <<targets_loops, targets_index, targets_looping_over>>
choice  == <<temp_loops, temp_index>>
files   == <<received, file, expected, disturbed>>
vars == <<atomics, pc, choice, target, files, defined, asked, raced, typed>>

Sessions  == 0..(num_coroutines - 1)
Typed     == 0              \* stands for what the user types; targets count from 1
Directory == 1..dirs
Nobody    == num_coroutines \* wrote a block that is missing from a file

dir(s) == IF s > dirs - 1 THEN dirs ELSE s + 1

Wrapping == {"loops--", "index=0", "again?", "next", "over"}
Choosing == {"loops", "index", "append?"} \cup Wrapping
Asking   == {"prompt", "name"}
Waiting  == {"connecting", "asked", "receiving"}

TypeOK ==
    /\ targets_loops \in Int /\ targets_index \in Nat
    /\ targets_looping_over \in BOOLEAN
    /\ pc \in [Sessions -> {"head", "ended"} \cup Choosing \cup Asking \cup Waiting]
    /\ temp_loops \in [Sessions -> Int] /\ temp_index \in [Sessions -> Nat]
    /\ target \in [Sessions -> {<<>>} \cup {<<i>> : i \in 0..targets_size}
                                      \cup {<<i, Typed>> : i \in 1..targets_size}]
    /\ received \in [Sessions -> [blocks : 0..2, size : 0..2]]
    /\ file \in [Directory -> UNION {[1..n -> Sessions \cup {Nobody}] : n \in 0..2}]
    /\ expected \in [Directory -> UNION {[1..n -> Sessions] : n \in 0..2}]
    /\ asked \in [1..targets_size -> 0..Loops + 1]
    /\ defined \in BOOLEAN /\ raced \in BOOLEAN /\ disturbed \in [Directory -> BOOLEAN]
    /\ typed \in 0..MaxTyped

NoFile == [blocks |-> 0, size |-> 0]

Init ==
    /\ targets_loops = Loops
    /\ targets_index = 0
    /\ targets_looping_over = (Loops = 0)
    /\ pc = [s \in Sessions |-> "connecting"]
    /\ temp_loops = [s \in Sessions |-> 0]
    /\ temp_index = [s \in Sessions |-> 0]
    /\ target = [s \in Sessions |-> <<>>]
    /\ received = [s \in Sessions |-> NoFile]
    /\ file = [d \in Directory |-> <<>>]
    /\ asked = [i \in 1..targets_size |-> 0]
    /\ defined = TRUE /\ raced = FALSE
    /\ expected = [d \in Directory |-> <<>>]
    /\ disturbed = [d \in Directory |-> FALSE]
    /\ typed = 0

\* A thread is free to resume a session whose wait is over.
Free == Cardinality({s \in Sessions : pc[s] \notin Waiting \cup {"ended"}}) < num_threads

Resumed(s, wait) == defined /\ Free /\ pc[s] = wait

Race(l) == \E s, t \in Sessions : s # t /\ l[s] \in Wrapping /\ l[t] \in Choosing

Goto(s, l) ==
    /\ pc' = [pc EXCEPT ![s] = l]
    /\ raced' = (raced \/ Race(pc'))

At(s, l) == defined /\ pc[s] = l

\* An atomic's compare_exchange_strong: the value it leaves.
Exchanged(value, old, new) == IF value = old THEN new ELSE value

-------------------------------------------------------------------------------
(* do_session, up to its loop.                                             *)

Connect(s) ==
    /\ Resumed(s, "connecting")
    /\ Goto(s, "head")
    /\ UNCHANGED <<atomics, choice, target, files, defined, asked, typed>>

-------------------------------------------------------------------------------
(* The choice of the target.  targets_looping_over never becomes false     *)
(* again, so that whoever finds it true here finds it true at the prompt.  *)

LoadOver(s) ==
    /\ At(s, "head")
    /\ Goto(s, IF targets_looping_over THEN "prompt" ELSE "loops")
    /\ UNCHANGED <<atomics, choice, target, files, defined, asked, typed>>

LoadLoops(s) ==
    /\ At(s, "loops")
    /\ temp_loops' = [temp_loops EXCEPT ![s] = targets_loops]
    /\ Goto(s, "index")
    /\ UNCHANGED <<atomics, temp_index, target, files, defined, asked, typed>>

\* fetch_add; beyond the list the copy is incremented too.
TakeIndex(s) ==
    /\ At(s, "index")
    /\ targets_index' = targets_index + 1
    /\ IF targets_index < targets_size
       THEN /\ target' = [target EXCEPT ![s] = Append(@, targets_index + 1)]
            /\ temp_loops' = [temp_loops EXCEPT ![s] = 0]
            /\ Goto(s, "append?")
            /\ UNCHANGED temp_index
       ELSE /\ temp_index' = [temp_index EXCEPT ![s] = targets_index + 1]
            /\ Goto(s, "loops--")
            /\ UNCHANGED <<temp_loops, target>>
    /\ UNCHANGED <<targets_loops, targets_looping_over, files, defined, asked, typed>>

\* Slip: the copy is decremented before it is compared, so that the exchange never
\* succeeds.
EndLoop_stale(s) ==
    /\ At(s, "loops--")
    /\ targets_loops' = Exchanged(targets_loops, temp_loops[s] - 1, temp_loops[s] - 1)
    /\ temp_loops' = [temp_loops EXCEPT ![s] = 0]
    /\ Goto(s, "index=0")
    /\ UNCHANGED <<targets_index, targets_looping_over, temp_index, target, files, defined,
                   asked, typed>>

EndLoop(s) ==
    /\ At(s, "loops--")
    /\ targets_loops' = Exchanged(targets_loops, temp_loops[s], temp_loops[s] - 1)
    /\ temp_loops' = [temp_loops EXCEPT ![s] = 0]
    /\ Goto(s, "index=0")
    /\ UNCHANGED <<targets_index, targets_looping_over, temp_index, target, files, defined,
                   asked, typed>>

\* Slip: the copy is not incremented, so that the exchange never succeeds.
ResetIndex_stale(s) ==
    /\ At(s, "index=0")
    /\ targets_index' = Exchanged(targets_index, temp_index[s] - 1, 0)
    /\ temp_index' = [temp_index EXCEPT ![s] = 0]
    /\ Goto(s, "again?")
    /\ UNCHANGED <<targets_loops, targets_looping_over, temp_loops, target, files, defined,
                   asked, typed>>

ResetIndex(s) ==
    /\ At(s, "index=0")
    /\ targets_index' = Exchanged(targets_index, temp_index[s], 0)
    /\ temp_index' = [temp_index EXCEPT ![s] = 0]
    /\ Goto(s, "again?")
    /\ UNCHANGED <<targets_loops, targets_looping_over, temp_loops, target, files, defined,
                   asked, typed>>

LoadLoopsAgain(s) ==
    /\ At(s, "again?")
    /\ Goto(s, IF targets_loops > 0 THEN "next" ELSE "over")
    /\ UNCHANGED <<atomics, choice, target, files, defined, asked, typed>>

\* The index is not compared with the size: beyond the list anything may follow.
TakeFirst(s) ==
    /\ At(s, "next")
    /\ targets_index' = targets_index + 1
    /\ IF targets_index < targets_size
       THEN target' = [target EXCEPT ![s] = Append(@, targets_index + 1)] /\ UNCHANGED defined
       ELSE defined' = FALSE /\ UNCHANGED target
    /\ Goto(s, "append?")
    /\ UNCHANGED <<targets_loops, targets_looping_over, choice, files, asked, typed>>

StoreOver(s) ==
    /\ At(s, "over")
    /\ targets_looping_over' = TRUE
    /\ Goto(s, "prompt")
    /\ UNCHANGED <<targets_loops, targets_index, choice, target, files, defined, asked,
                   typed>>

-------------------------------------------------------------------------------
(* The request.  The prompt blocks the thread: one session has the mutex   *)
(* and waits for a line, the others wait for the mutex.                    *)

Ask(s, t) ==
    /\ Goto(s, "asked")
    /\ target' = [target EXCEPT ![s] = t]
    /\ asked' = [i \in DOMAIN asked |->
                    IF t = <<i>> /\ asked[i] <= Loops THEN asked[i] + 1 ELSE asked[i]]

\* Who has a target finds the looping over meanwhile, and is asked for another.
AskListed(s) ==
    /\ At(s, "append?")
    /\ \/ targets_looping_over /\ Goto(s, "prompt") /\ UNCHANGED <<target, asked>>
       \/ ~targets_looping_over /\ Ask(s, target[s])
    /\ UNCHANGED <<atomics, choice, files, defined, typed>>

\* What is typed is appended to the target, ":q" too.
Type(s) ==
    /\ At(s, "prompt")
    /\ typed < MaxTyped
    /\ typed' = typed + 1
    /\ Ask(s, Append(target[s], Typed))
    /\ UNCHANGED <<atomics, choice, files, defined>>

Quit(s) ==
    /\ At(s, "prompt")
    /\ target[s] = <<>>
    /\ Goto(s, "ended")
    /\ UNCHANGED <<atomics, choice, target, files, defined, asked, typed>>

-------------------------------------------------------------------------------
(* The answer: a text, or a file, whose header may lack a name.            *)

\* Slip: the previous target is not cleared.
Done_uncleared(s) == Goto(s, "head") /\ UNCHANGED target

Done(s) ==
    /\ Goto(s, "head")
    /\ target' = [target EXCEPT ![s] = <<>>]

ReceiveText(s) ==
    /\ Resumed(s, "asked")
    /\ Done(s)
    /\ UNCHANGED <<atomics, choice, files, defined, asked, typed>>

Receiving(d) == {s \in Sessions : pc[s] = "receiving" /\ dir(s) = d}

Begins(s, n) ==
    /\ received' = [received EXCEPT ![s] = [blocks |-> 0, size |-> n]]
    /\ expected' = [expected EXCEPT ![dir(s)] = [i \in 1..n |-> s]]
    /\ disturbed' = [disturbed EXCEPT ![dir(s)] = Receiving(dir(s)) # {}]
    /\ Goto(s, "receiving")

\* Slip: file_mode::write_existing, which keeps what is there.
OpenFile_existing(s) == \E n \in 1..2 : Begins(s, n) /\ UNCHANGED file

\* set_params_file_body_parser: file_mode::write empties an existing file.
OpenFile(s) == \E n \in 1..2 : Begins(s, n) /\ file' = [file EXCEPT ![dir(s)] = <<>>]

ReceiveHeader(s) ==
    /\ Resumed(s, "asked")
    /\ OpenFile(s) \/ (Goto(s, "name") /\ UNCHANGED files)
    /\ UNCHANGED <<atomics, choice, target, defined, asked, typed>>

Name(s) ==
    /\ At(s, "name")
    /\ OpenFile(s)
    /\ UNCHANGED <<atomics, choice, target, defined, asked, typed>>

\* A session writes at its own position, over what others wrote there and after
\* what they left out.
Written(s) ==
    LET old == file[dir(s)]
        pos == received[s].blocks + 1
    IN  [i \in 1..Max({pos, Len(old)}) |->
            IF i = pos THEN s ELSE IF i \in DOMAIN old THEN old[i] ELSE Nobody]

ReceiveBlock(s) ==
    /\ Resumed(s, "receiving")
    /\ file' = [file EXCEPT ![dir(s)] = Written(s)]
    /\ LET n == received[s].blocks + 1
       IN  \/ /\ n < received[s].size
              /\ received' = [received EXCEPT ![s] = [blocks |-> n, size |-> @.size]]
              /\ UNCHANGED <<pc, raced, target>>
           \/ /\ n = received[s].size
              /\ received' = [received EXCEPT ![s] = NoFile]
              /\ Done(s)
    /\ UNCHANGED <<atomics, choice, expected, disturbed, defined, asked, typed>>

\* What the session waits for ends with an error or the timeout, or no file or
\* directory can be made: reported, and the end of the session.  What is written
\* so far stays.
Fail(s) ==
    /\ \/ pc[s] \in Waiting /\ Resumed(s, pc[s])
       \/ At(s, "name")
    /\ Goto(s, "ended")
    /\ received' = [received EXCEPT ![s] = NoFile]
    /\ disturbed' = [disturbed EXCEPT ![dir(s)] = @ \/ pc[s] = "receiving"]
    /\ UNCHANGED <<atomics, choice, target, file, expected, defined, asked, typed>>

-------------------------------------------------------------------------------
ChooseTarget(s) ==
    \/ LoadOver(s) \/ LoadLoops(s) \/ TakeIndex(s) \/ EndLoop(s) \/ ResetIndex(s)
    \/ LoadLoopsAgain(s) \/ TakeFirst(s) \/ StoreOver(s) \/ AskListed(s)

Receive(s) == ReceiveText(s) \/ ReceiveHeader(s) \/ ReceiveBlock(s)


\* What the timeouts guarantee of a wait: it ends, with or without success.
WaitEnds(s) ==
    \/ Connect(s) \/ Receive(s)
    \/ pc[s] \in Waiting /\ Fail(s)

User(s) == Type(s) \/ Quit(s) \/ Name(s)

do_session(s) == Connect(s) \/ ChooseTarget(s) \/ Receive(s) \/ Fail(s)

Next == \E s \in Sessions : do_session(s) \/ User(s)

Spec == Init /\ [][Next]_vars

(* A running thread runs on.  Servers and the user owe nothing, but every  *)
(* wait for a server has a timeout of a minute, and the io_context resumes *)
(* the sessions in the order their waits end.                              *)
Fairness == \A s \in Sessions : WF_vars(ChooseTarget(s)) /\ SF_vars(WaitEnds(s))

FairSpec == Spec /\ Fairness

-------------------------------------------------------------------------------
(* Properties.                                                             *)

(* targets_loops: "Tells how many times to loop through the target vector" *)
(* (client_http.h:104).  No matter how the sessions share the targets out, *)
(* each target is asked for so many times when the looping is over, and    *)
(* never more often.                                                       *)
Choosers == {s \in Sessions : pc[s] \in Choosing}

LoopsAsEntered ==
    \A i \in 1..targets_size :
        /\ asked[i] <= Loops
        /\ targets_looping_over /\ Choosers = {} => asked[i] = Loops

(* So it is, and the list is not read beyond its end, as long as no        *)
(* session ended a loop while another was choosing its target.             *)
LoopsExactUnlessRaced == raced \/ (defined /\ LoopsAsEntered)

(* A file nobody is writing holds the whole answer of the session that     *)
(* opened it last, and nothing else, unless another session was writing it *)
(* at that time, or this one failed.                                       *)
FileCompleteUnlessDisturbed ==
    \A d \in Directory : Receiving(d) = {} /\ ~disturbed[d] => file[d] = expected[d]

(* The looping comes to an end: sessions that race may lose targets, but   *)
(* do not loop for ever.  Only a user who gives no name for a file can     *)
(* hold it up.                                                             *)
LoopingEnds ==
    \/ <>(targets_looping_over \/ ~defined \/ \A s \in Sessions : pc[s] = "ended")
    \/ \E s \in Sessions : <>[](pc[s] = "name")

================================================================================
