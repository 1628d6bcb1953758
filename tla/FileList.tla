------------------------------- MODULE FileList -------------------------------
(***************************************************************************)
(* How the list of the files, song_table, follows the files folder: the    *)
(* kernel queues inotify events; main lists the folder once and pushes a   *)
(* refresh and then one add per file; the watching thread of               *)
(* Inotify_module reads the events in batches and hands each one to        *)
(* Inotify_DB_handler, which turns it into an SQL command for DB_module.   *)
(*                                                                         *)
(* DB_module appears here as module DBModule shows it to a client: each    *)
(* command is pushed to the FRONT of a deque, several workers take from    *)
(* that front, and each executes its command some time after taking it, or *)
(* fails to, or never comes to it because no connection is left (there,    *)
(* Stranded).  The handler's own thread pool is left out: its tasks wait    *)
(* for a result and print it if it is an error.                            *)
(*                                                                         *)
(* "disturbed" is the history of the names whose rows the code does not    *)
(* promise to keep right, and why (see Disturbance below).  A "Slip" is a  *)
(* variant of the definition after it with a plausible mistake, used only  *)
(* to see a property fail.                                                 *)
(***************************************************************************)
EXTENDS Naturals, Sequences, FiniteSets, SequencesExt

CONSTANTS
    Names,          \* names of files (of directories, see the README)
    Workers,        \* threads of the database's pool
    QueueLimit,     \* events the kernel keeps (max_queued_events)
    MaxChanges, MaxFailures, MaxStarts,     \* bounds of the runs
    Everyone,       \* the target of a command about all names
    NoCommand

Kinds     == {"add", "delete", "dir_del", "refresh"}
Targets   == Names \cup {Everyone}
Commands  == [kind : Kinds, name : Targets, no : Nat]
FileMasks == {"IN_CREATE", "IN_MOVED_TO", "IN_DELETE", "IN_MOVED_FROM"}
SelfMasks == {"IN_DELETE_SELF", "IN_MOVE_SELF"}
Events    == [mask : FileMasks \cup SelfMasks, name : Targets]

ASSUME FileListAssumption ==
    /\ IsFiniteSet(Names) /\ Everyone \notin Names
    /\ NoCommand \notin Commands
    /\ QueueLimit \in Nat \ {0}
    /\ MaxChanges \in Nat /\ MaxFailures \in Nat /\ MaxStarts \in Nat

VARIABLES
    folder,     \* the entries of the directory that was the files folder at first
    dir,        \* that directory is "here", "moved" elsewhere or "deleted"
    events,     \* the kernel's queue of inotify events
    mpc,        \* main: "off", "list", "truncate", "adding", "watching",
                \* "stopping", "draining"
    toAdd,      \* files listed by refresh_file_list and not handed over yet
    refreshed,  \* the result of the refresh command: "none", "ok", "error"
    batch,      \* events read and not handled yet by read_handle_event
    done,       \* Inotify_module::done
    cleared,    \* arguments[FILES_FOLDER] was cleared
    queue,      \* task_deque of the database's pool
    executing,  \* the command each worker has taken
    stranded,   \* no connection to the database is left: the workers spin
    rows,       \* song_table: how many rows each name has
    disturbed,  \* history: names that may be listed wrongly
    changes, failed, starts     \* history, for the bounds

mainVars    == <<mpc, toAdd, refreshed>>
watchVars   == <<batch, done, cleared>>
commandVars == <<queue, executing, stranded>>
boundVars   == <<changes, failed, starts>>
vars == <<folder, dir, events, mainVars, watchVars, commandVars, rows,
          disturbed, boundVars>>

\* What the service can hand out.
Available == IF dir = "here" THEN folder ELSE {}

TypeOK ==
    /\ folder \subseteq Names
    /\ dir \in {"here", "moved", "deleted"}
    /\ events \in Seq(Events) /\ Len(events) <= QueueLimit
    /\ mpc \in {"off", "list", "truncate", "adding", "watching",
                "stopping", "draining"}
    /\ toAdd \subseteq Names
    /\ refreshed \in {"none", "ok", "error"}
    /\ batch \in Seq(Events) /\ Len(batch) <= QueueLimit
    /\ done \in BOOLEAN /\ cleared \in BOOLEAN
    /\ queue \in Seq(Commands)
    /\ executing \in [Workers -> Commands \cup {NoCommand}]
    /\ stranded \in BOOLEAN
    /\ rows \in [Names -> Nat]
    /\ disturbed \subseteq Names
    /\ changes \in 0..MaxChanges /\ failed \in 0..MaxFailures /\ starts \in 0..MaxStarts

Init ==
    /\ folder \in SUBSET Names
    /\ dir = "here"
    /\ events = <<>>
    /\ mpc = "off" /\ toAdd = {} /\ refreshed = "none"
    /\ batch = <<>> /\ done = FALSE /\ cleared = FALSE
    /\ queue = <<>> /\ executing = [w \in Workers |-> NoCommand] /\ stranded = FALSE
    /\ rows = [n \in Names |-> 0]
    /\ disturbed = {}
    /\ changes = 0 /\ failed = 0 /\ starts = 0

-------------------------------------------------------------------------------
(* The folder and the kernel.  Events are queued while there is a watch; an *)
(* event beyond the limit is lost (the code ignores IN_Q_OVERFLOW).         *)

Watched == mpc \notin {"off", "draining"}

Event(mask, n) == [mask |-> mask, name |-> n]

First(s, k) == SubSeq(s, 1, Min({k, Len(s)}))

About(n) == IF n = Everyone THEN Names ELSE {n}

\* Bound: changes while the program ends are as good as changes after its end,
\* and those after its last end concern nobody.
Observable == mpc \notin {"stopping", "draining"} /\ (mpc = "off" => starts < MaxStarts)

\* The names of the events of es that do not fit into the kernel's queue.
Lost(es) ==
    UNION {About(es[i].name) : i \in {j \in DOMAIN es : Len(events) + j > QueueLimit}}

Emit(es, others) ==
    /\ events' = IF Watched
                 THEN First(events \o es, QueueLimit)
                 ELSE events
    /\ disturbed' = IF Watched THEN disturbed \cup others \cup Lost(es) ELSE disturbed
    /\ changes < MaxChanges
    /\ Observable
    /\ changes' = changes + 1
    /\ UNCHANGED <<mainVars, watchVars, commandVars, rows, failed, starts>>

CreateFile(n) ==
    /\ dir # "deleted" /\ n \notin folder
    /\ folder' = folder \cup {n}
    /\ Emit(<<Event("IN_CREATE", n)>>, {})
    /\ UNCHANGED dir

DeleteFile(n) ==
    /\ dir # "deleted" /\ n \in folder
    /\ folder' = folder \ {n}
    /\ Emit(<<Event("IN_DELETE", n)>>, {})
    /\ UNCHANGED dir

\* rename(2) inside the folder; a file that had the new name is replaced
\* without an event of its own, so that the name is added once more.
RenameFile(n, k) ==
    /\ dir # "deleted" /\ n \in folder /\ n # k
    /\ folder' = (folder \ {n}) \cup {k}
    /\ Emit(<<Event("IN_MOVED_FROM", n), Event("IN_MOVED_TO", k)>>, folder \cap {k})
    /\ UNCHANGED dir

\* The watch follows a directory that is moved; a deleted one is empty.
RemoveFolder ==
    /\ dir = "here"
    /\ \/ /\ dir' = "moved"
          /\ Emit(<<Event("IN_MOVE_SELF", Everyone)>>, {})
       \/ /\ folder = {}
          /\ dir' = "deleted"
          /\ Emit(<<Event("IN_DELETE_SELF", Everyone)>>, {})
    /\ UNCHANGED folder

Folder ==
    \/ \E n \in Names : CreateFile(n) \/ DeleteFile(n)
    \/ \E n, k \in Names : RenameFile(n, k)
    \/ RemoveFolder

-------------------------------------------------------------------------------
(* Inotify_DB_handler: a command is pushed to the front of the deque.       *)

Pending == ToSet(queue) \cup ({executing[w] : w \in Workers} \ {NoCommand})

\* History: the pending commands are numbered in the order of their pushes.
Latest == Cardinality(Pending) + 1

exec_command(kind, n) ==
    /\ queue' = <<[kind |-> kind, name |-> n, no |-> Latest]>> \o queue
    /\ UNCHANGED <<executing, stranded>>

-------------------------------------------------------------------------------
(* main: the pools are made, perhaps without a connection, then the watch;  *)
(* the folder is listed, the table refreshed, and then the watching thread  *)
(* started.                                                                 *)

create_inotify ==
    /\ mpc = "off" /\ dir = "here"
    /\ starts < MaxStarts
    /\ starts' = starts + 1
    /\ mpc' = "list"
    /\ stranded' \in BOOLEAN
    /\ UNCHANGED <<folder, dir, events, toAdd, refreshed, watchVars, queue, executing,
                   rows, disturbed, changes, failed>>

\* The names whose next queued event creates them: listed, they come twice.
Announced ==
    {n \in Names : \E i \in DOMAIN events :
        /\ events[i] \in {Event("IN_CREATE", n), Event("IN_MOVED_TO", n)}
        /\ \A j \in 1..(i - 1) : events[j].name # n}

\* Slip: the refresh is not waited for.
refresh_file_list_unblocked ==
    /\ mpc = "list" /\ dir = "here"
    /\ toAdd' = folder
    /\ disturbed' = disturbed \cup (toAdd' \cap Announced)
    /\ exec_command("refresh", Everyone)
    /\ mpc' = "adding"
    /\ UNCHANGED <<folder, dir, events, refreshed, watchVars, rows,
                   boundVars>>

refresh_file_list ==
    /\ mpc = "list" /\ dir = "here"
    /\ toAdd' = folder
    /\ disturbed' = disturbed \cup (toAdd' \cap Announced)
    /\ exec_command("refresh", Everyone)
    /\ mpc' = "truncate"
    /\ UNCHANGED <<folder, dir, events, refreshed, watchVars, rows,
                   boundVars>>

\* The memory of the process ends with it.
Exit ==
    /\ mpc' = "off"
    /\ events' = <<>>
    /\ toAdd' = {} /\ refreshed' = "none"
    /\ batch' = <<>> /\ done' = FALSE /\ cleared' = FALSE
    /\ queue' = <<>> /\ stranded' = FALSE
    /\ disturbed' = {}
    /\ UNCHANGED <<folder, dir, boundVars>>

\* Listing a directory that is gone throws, and nothing catches it.
ListThrows ==
    /\ mpc = "list" /\ dir # "here"
    /\ Exit
    /\ UNCHANGED <<executing, rows>>

\* The refresh has its result; an error is printed and nothing is added.
Refreshed ==
    /\ mpc = "truncate" /\ refreshed # "none"
    /\ mpc' = "adding"
    /\ refreshed' = "none"
    /\ toAdd' = IF refreshed = "ok" THEN toAdd ELSE {}
    /\ UNCHANGED <<folder, dir, events, watchVars, commandVars, rows, disturbed,
                   boundVars>>

AddListed(n) ==
    /\ mpc = "adding" /\ n \in toAdd
    /\ toAdd' = toAdd \ {n}
    /\ exec_command("add", n)
    /\ UNCHANGED <<folder, dir, events, mpc, refreshed, watchVars, rows,
                   disturbed, boundVars>>

start_watching ==
    /\ mpc = "adding" /\ toAdd = {}
    /\ mpc' = "watching"
    /\ UNCHANGED <<folder, dir, events, toAdd, refreshed, watchVars, commandVars,
                   rows, disturbed, boundVars>>

-------------------------------------------------------------------------------
(* The watching thread: it reads all the events there are, and handles them *)
(* one after the other, also those that follow the end of the folder.       *)

\* Slip: more events are read before those of the last batch are handled.
watching_ahead ==
    /\ mpc \in {"watching", "stopping"} /\ ~done
    /\ events # <<>>
    /\ batch' = batch \o events
    /\ events' = <<>>
    /\ UNCHANGED <<folder, dir, mainVars, done, cleared, commandVars, rows,
                   disturbed, boundVars>>

watching ==
    /\ mpc \in {"watching", "stopping"} /\ ~done
    /\ batch = <<>> /\ events # <<>>
    /\ batch' = events
    /\ events' = <<>>
    /\ UNCHANGED <<folder, dir, mainVars, done, cleared, commandVars, rows,
                   disturbed, boundVars>>

\* Slip: only the first event of a batch is handled.
NextEvent_first == batch' = <<>>

NextEvent == batch' = Tail(batch)

Added ==
    /\ Head(batch).mask \in {"IN_CREATE", "IN_MOVED_TO"}
    /\ exec_command("add", Head(batch).name)
    /\ disturbed' = disturbed \cup (IF cleared THEN {Head(batch).name} ELSE {})
    /\ UNCHANGED <<done, cleared>>

Deleted ==
    /\ Head(batch).mask \in {"IN_DELETE", "IN_MOVED_FROM"}
    /\ exec_command("delete", Head(batch).name)
    /\ UNCHANGED <<done, cleared, disturbed>>

FolderGone ==
    /\ Head(batch).mask \in SelfMasks
    /\ exec_command("dir_del", Everyone)
    /\ cleared' = TRUE
    /\ done' = TRUE
    /\ UNCHANGED disturbed

read_handle_event ==
    /\ batch # <<>>
    /\ NextEvent
    /\ Added \/ Deleted \/ FolderGone
    /\ UNCHANGED <<folder, dir, events, mainVars, rows, boundVars>>

-------------------------------------------------------------------------------
(* The database's workers.  The table is locked for each command.           *)

Conflict(c, d) == c.name = d.name \/ Everyone \in {c.name, d.name}

\* The names of commands that c overtakes.
Overtaken(c) ==
    UNION {About(c.name) \cap About(d.name) :
           d \in {e \in Pending : e.no < c.no /\ Conflict(c, e)}}

Apply(c) ==
    rows' = CASE c.kind = "add"    -> [rows EXCEPT ![c.name] = @ + 1]
              [] c.kind = "delete" -> [rows EXCEPT ![c.name] = 0]
              [] OTHER             -> [n \in Names |-> 0]

TakeCommand(w) ==
    /\ executing[w] = NoCommand
    /\ queue # <<>>
    /\ executing' = [executing EXCEPT ![w] = Head(queue)]
    /\ queue' = Tail(queue)
    /\ UNCHANGED <<stranded, folder, dir, events, mainVars, watchVars, rows,
                   disturbed, boundVars>>

\* Only the refresh is waited for.
Answer(c, result) == refreshed' = IF c.kind = "refresh" THEN result ELSE refreshed

\* The number of d once c is pending no more.
Without(c, d) == IF d # NoCommand /\ d.no > c.no THEN [d EXCEPT !.no = @ - 1] ELSE d

Executed(w) ==
    LET c == executing[w] IN
    /\ c # NoCommand /\ ~stranded
    /\ executing' = [v \in Workers |-> IF v = w THEN NoCommand ELSE Without(c, executing[v])]
    /\ queue' = [i \in DOMAIN queue |-> Without(c, queue[i])]
    /\ \/ /\ Apply(c)
          /\ disturbed' = disturbed \cup Overtaken(c)
          /\ Answer(c, "ok")
          /\ UNCHANGED failed
       \* A failed connection leaves open whether the command took effect.
       \/ /\ failed < MaxFailures
          /\ failed' = failed + 1
          /\ UNCHANGED rows \/ Apply(c)
          /\ disturbed' = disturbed \cup About(c.name)
          /\ Answer(c, "error")
    /\ UNCHANGED <<stranded, folder, dir, events, mpc, toAdd, watchVars, changes, starts>>

\* Connections that have failed and cannot be reset are given up, the last one too.
ConnectionsLost ==
    /\ mpc # "off" /\ failed > 0
    /\ stranded' = TRUE
    /\ UNCHANGED <<folder, dir, events, mainVars, watchVars, queue, executing, rows,
                   disturbed, boundVars>>

-------------------------------------------------------------------------------
(* The end of main: the watching thread is joined and its descriptor        *)
(* closed, then the handler and the DB_module are destroyed, and only then  *)
(* the database's pool with what it has not begun: its threads run tasks    *)
(* that refer to the destroyed DB_module.                                   *)

\* Slip: the watching thread is not told.
Stop_untold ==
    /\ mpc = "watching" /\ starts < MaxStarts
    /\ mpc' = "stopping"
    /\ UNCHANGED <<folder, dir, events, toAdd, refreshed, batch, done, cleared,
                   commandVars, rows, disturbed, boundVars>>

\* Bound: only a program that is started again is stopped.
Stop ==
    /\ mpc = "watching" /\ starts < MaxStarts
    /\ mpc' = "stopping"
    /\ done' = TRUE
    /\ UNCHANGED <<folder, dir, events, toAdd, refreshed, batch, cleared,
                   commandVars, rows, disturbed, boundVars>>

WatcherJoined ==
    /\ mpc = "stopping" /\ done /\ batch = <<>>
    /\ mpc' = "draining"
    /\ events' = <<>>
    /\ UNCHANGED <<folder, dir, toAdd, refreshed, watchVars, commandVars, rows,
                   disturbed, boundVars>>

\* Slip: the database's threads are not joined.
DatabasePoolJoined_detached ==
    /\ mpc = "draining"
    /\ Exit
    /\ UNCHANGED <<executing, rows>>

DatabasePoolJoined ==
    /\ mpc = "draining"
    /\ \A w \in Workers : executing[w] = NoCommand
    /\ Exit
    /\ UNCHANGED <<executing, rows>>

\* What a task finds in the place of its DB_module may still be as it was; if not,
\* the process ends.  The database has settled its command by the next start.
TaskCrashes(w) ==
    /\ mpc = "draining"
    /\ executing[w] # NoCommand
    /\ Exit
    /\ executing' = [v \in Workers |-> NoCommand]
    /\ UNCHANGED rows \/ Apply(executing[w])

-------------------------------------------------------------------------------
Main ==
    \/ create_inotify \/ refresh_file_list \/ ListThrows \/ Refreshed
    \/ \E n \in Names : AddListed(n)
    \/ start_watching
    \/ WatcherJoined \/ DatabasePoolJoined

Watcher == watching \/ read_handle_event

Worker(w) == TakeCommand(w) \/ Executed(w)

Next ==
    \/ Folder
    \/ Main \/ Stop
    \/ Watcher
    \/ \E w \in Workers : Worker(w) \/ TaskCrashes(w)
    \/ ConnectionsLost

Spec == Init /\ [][Next]_vars

(* Every thread goes on while it can.  Nothing obliges the folder to change, *)
(* a key to be pressed, or the program to be started again; and nothing      *)
(* makes the destruction of the database's pool return, which may hang       *)
(* (module ThreadPool, finding DestructorReturns).                           *)
FairSpec ==
    /\ Spec
    /\ WF_vars(Main /\ mpc \notin {"off", "draining"})
    /\ WF_vars(Watcher)
    /\ \A w \in Workers : WF_vars(Worker(w))

-------------------------------------------------------------------------------
(* Properties                                                              *)

\* All that was known has been worked off.
Quiet ==
    /\ mpc = "watching"
    /\ batch = <<>>
    /\ done \/ events = <<>>
    /\ Pending = {}

(***************************************************************************)
(* A file's row can be wrong for one of six reasons only: a command about  *)
(* it overtook an older one (Overtaken), a command about it failed         *)
(* (Executed), the listing and the event of its creation both   *)
(* added it (Announced), the kernel's queue was full (Lost), it was        *)
(* replaced by a rename (RenameFile), or it was created in a folder that   *)
(* had been moved away (Added).  Otherwise, whenever everything is worked  *)
(* off, also after a restart, a file has one row if it is in the folder    *)
(* and none if not.                                                        *)
(***************************************************************************)
ListedExactlyUnlessDisturbed ==
    Quiet => \A n \in Names \ disturbed : rows[n] = IF n \in Available THEN 1 ELSE 0

\* "Have to block here to avoid possibility of truncating subsequent addings":
\* the command that empties the table is never pending beside another one.
RefreshStandsAlone ==
    (\E c \in Pending : c.kind = "refresh") => Cardinality(Pending) = 1

\* As long as there is a connection to the database, a program that was started
\* comes to watch its folder (or finds it gone), and whatever happens to the folder
\* is worked off in the end.  Told to stop, it stops watching, connection or not.
WorkedOff ==
    /\ mpc \in {"list", "truncate", "adding"} ~> mpc \in {"watching", "off"} \/ stranded
    /\ mpc = "watching" ~> Quiet \/ mpc # "watching" \/ stranded
    /\ mpc = "stopping" ~> mpc = "draining"
==============================================================================
