------------------------------ MODULE HttpServer ------------------------------
(***************************************************************************)
(* Server_HTTP: the io_context that num_threads threads run, the Listener  *)
(* that accepts connections, one Session per connection, and the log       *)
(* records that Logger_srvr_http posts to its strand.                      *)
(*                                                                         *)
(* A handler runs on a free thread from one asynchronous operation to the  *)
(* next, and is one action.  Only the handler of a request blocks: it      *)
(* waits for the futures of the database and keeps its thread.  A session  *)
(* has one operation outstanding, so its strand never has two handlers;    *)
(* the strand of the logger is the queue log_strand, of which the records  *)
(* about sessions are kept.                                                *)
(*                                                                         *)
(* A session stands for one connection of one client.  A request is chosen *)
(* when the session has read it; the client may have sent it ahead, and    *)
(* gone.  A "Slip" is a variant of the definition after it with a          *)
(* plausible mistake, used only to see a property fail.                    *)
(***************************************************************************)
EXTENDS Naturals, SequencesExt, FiniteSets

CONSTANTS
    num_threads,    \* the threads in ioc.run()
    Sessions,
    MaxRequests,    \* bound: requests of one client
    MaxFailures,    \* bound: operations that fail without a visible reason
    MaxPending      \* bound: records posted and not yet written

ASSUME HttpServerAssumption ==
    /\ num_threads \in Nat \ {0} /\ IsFiniteSet(Sessions)
    /\ MaxRequests \in Nat /\ MaxFailures \in Nat /\ MaxPending \in Nat

VARIABLES
    process,    \* "constructed", "up", "crashed"
    logger,     \* Srvr_hlpr_clss::logger is there
    acceptor,   \* Listener::_acceptor: "none", "listening", "broken"
    pc,         \* where each session_loop is
    close,      \* its response ends the connection
    deadline,   \* its stream's timer: "never", "armed", "expired"
    log_strand, \* records posted and not yet written
    written,    \* what the log file says of each session
    client,     \* "away", "waiting" for accept, "connected", "gone"
    taken,      \* number of requests the session has read
    answered,   \* number of responses it was sent
    stranded,   \* the database answers no more (module DBModule)
    failures    \* history, for the bound

serverVars  == <<process, logger, acceptor>>
sessionVars == <<pc, close, deadline, taken, answered>>
logVars     == <<log_strand, written>>
vars == <<serverVars, sessionVars, logVars, client, stranded, failures>>

Requests == [known : BOOLEAN, keep_alive : BOOLEAN]   \* GET or HEAD; Connection
Ends     == {"closing", "timed out"}
Kinds    == {"connected", "report"} \cup Ends
Records  == [of : Sessions, kind : Kinds]

TypeOK ==
    /\ process \in {"constructed", "up", "crashed"}
    /\ logger \in BOOLEAN /\ stranded \in BOOLEAN
    /\ acceptor \in {"none", "listening", "broken"}
    /\ pc \in [Sessions -> {"none", "started", "reading", "handling", "writing", "closed"}]
    /\ close \in [Sessions -> BOOLEAN]
    /\ deadline \in [Sessions -> {"never", "armed", "expired"}]
    /\ log_strand \in Seq(Records) /\ Len(log_strand) <= MaxPending
    /\ written \in [Sessions -> Seq(Kinds)]
    /\ client \in [Sessions -> {"away", "waiting", "connected", "gone"}]
    /\ taken \in [Sessions -> 0..MaxRequests] /\ answered \in [Sessions -> 0..MaxRequests]
    /\ failures \in 0..MaxFailures

Record(s, k) == [of |-> s, kind |-> k]

\* The constructor of Server_HTTP, whose logger may not have started.
Init ==
    /\ process = "constructed"
    /\ logger \in BOOLEAN
    /\ acceptor = "none"
    /\ pc = [s \in Sessions |-> "none"]
    /\ close = [s \in Sessions |-> FALSE]
    /\ deadline = [s \in Sessions |-> "never"]
    /\ log_strand = <<>>
    /\ written = [s \in Sessions |-> <<>>]
    /\ client = [s \in Sessions |-> "away"]
    /\ taken = [s \in Sessions |-> 0]
    /\ answered = [s \in Sessions |-> 0]
    /\ stranded = FALSE
    /\ failures = 0

\* A thread is free: the handler of a request keeps its own.
Free ==
    /\ process = "up"
    /\ Cardinality({s \in Sessions : pc[s] = "handling"}) < num_threads

Post(s, kinds) ==
    /\ Len(log_strand) + Len(kinds) <= MaxPending
    /\ log_strand' = log_strand \o [i \in DOMAIN kinds |-> Record(s, kinds[i])]
    /\ UNCHANGED written

\* What the log says of a session, or will when everything posted is written: the
\* records by their places, of which only the order matters.
Entries(s) ==
    {[at |-> i, kind |-> written[s][i]] : i \in DOMAIN written[s]}
    \cup {[at |-> Len(written[s]) + i, kind |-> log_strand[i].kind] :
          i \in {j \in DOMAIN log_strand : log_strand[j].of = s}}

Told(s) == {e.kind : e \in Entries(s)}

Fails == failures < MaxFailures /\ failures' = failures + 1

-------------------------------------------------------------------------------
(* Clients and time.                                                       *)

ClientConnects(s) ==
    /\ client[s] = "away"
    /\ process = "up" /\ acceptor = "listening"
    /\ client' = [client EXCEPT ![s] = "waiting"]
    /\ UNCHANGED <<serverVars, sessionVars, logVars, stranded, failures>>

\* It closes the connection, loses it, or sends what is no HTTP.
ClientGoes(s) ==
    /\ client[s] = "connected"
    /\ client' = [client EXCEPT ![s] = "gone"]
    /\ UNCHANGED <<serverVars, sessionVars, logVars, stranded, failures>>

\* Five minutes since expires_after, whatever the session does meanwhile.
Expire(s) ==
    /\ process = "up" /\ deadline[s] = "armed"
    /\ deadline' = [deadline EXCEPT ![s] = "expired"]
    /\ UNCHANGED <<serverVars, pc, close, taken, answered, logVars, client, stranded,
                   failures>>

DatabaseStrands ==
    /\ ~stranded
    /\ stranded' = TRUE
    /\ UNCHANGED <<serverVars, sessionVars, logVars, client, failures>>

-------------------------------------------------------------------------------
(* Server_HTTP::run and the Listener.  Without a logger the process does   *)
(* not survive the record that the server listens, which is made unless    *)
(* the acceptor could not be opened or bound.                              *)

run ==
    /\ process = "constructed"
    /\ acceptor' \in {"listening", "broken"}
    /\ \/ process' = "up" /\ (logger \/ acceptor' = "broken")
       \/ process' = "crashed" /\ ~logger
    /\ UNCHANGED <<logger, sessionVars, logVars, client, stranded, failures>>

\* The new session, which reports if the remote endpoint is not to be had, starts
\* on a strand of its own.
Accept(s) ==
    /\ Free /\ acceptor = "listening"
    /\ client[s] = "waiting"
    /\ client' = [client EXCEPT ![s] = "connected"]
    /\ pc' = [pc EXCEPT ![s] = "started"]
    /\ \/ Post(s, <<"connected">>) /\ UNCHANGED failures
       \/ Post(s, <<"report">>) /\ Fails
    /\ UNCHANGED <<serverVars, close, deadline, taken, answered, stranded>>

\* Slip: the accepting loop ends with the first failure.
AcceptFails_stop ==
    /\ Free /\ acceptor # "none"
    /\ Fails
    /\ acceptor' = "none"
    /\ UNCHANGED <<process, logger, sessionVars, logVars, client, stranded>>

\* Reported, and accepting goes on; with a broken acceptor it fails for ever.
AcceptFails ==
    /\ Free /\ acceptor # "none"
    /\ Fails
    /\ UNCHANGED <<serverVars, sessionVars, logVars, client, stranded>>

-------------------------------------------------------------------------------
(* Session::session_loop                                                   *)

\* Slip: the timeout is not set.
ReadNext_no_timeout(s) ==
    /\ pc' = [pc EXCEPT ![s] = "reading"]
    /\ close' = [close EXCEPT ![s] = FALSE]
    /\ UNCHANGED deadline

\* The head of the loop: expires_after and async_read.
ReadNext(s) ==
    /\ pc' = [pc EXCEPT ![s] = "reading"]
    /\ close' = [close EXCEPT ![s] = FALSE]
    /\ deadline' = [deadline EXCEPT ![s] = "armed"]

\* After the loop, with the records made on the way there.  The shutdown of a
\* connection that did not time out may fail.
Finish(s, kinds, ec) ==
    /\ pc' = [pc EXCEPT ![s] = "closed"]
    /\ close' = [close EXCEPT ![s] = FALSE]
    /\ deadline' = [deadline EXCEPT ![s] = "never"]
    /\ client' = [client EXCEPT ![s] = "gone"]
    /\ \/ ec = "timeout" /\ Post(s, Append(kinds, "timed out")) /\ UNCHANGED failures
       \/ ec # "timeout" /\ Post(s, Append(kinds, "closing")) /\ UNCHANGED failures
       \/ ec # "timeout" /\ Post(s, kinds \o <<"closing", "report">>) /\ Fails

\* How an operation on the stream may fail.
Error(s, ec) ==
    \/ ec = "timeout" /\ deadline[s] = "expired"
    \/ ec = "error" /\ client[s] = "gone"

Start(s) ==
    /\ Free /\ pc[s] = "started"
    /\ ReadNext(s)
    /\ UNCHANGED <<serverVars, taken, answered, logVars, client, stranded, failures>>

\* The remote host closed the connection, or an error.
ReadFails(s) ==
    /\ Free /\ pc[s] = "reading"
    /\ \E ec \in {"timeout", "error"} : Error(s, ec) /\ Finish(s, <<"report">>, ec)
    /\ UNCHANGED <<serverVars, taken, answered, stranded>>

\* Any other method than GET and HEAD is refused at once.
ReadRequest(s) ==
    /\ Free /\ pc[s] = "reading"
    /\ taken[s] < MaxRequests
    /\ taken' = [taken EXCEPT ![s] = @ + 1]
    /\ \E req \in Requests :
          /\ close' = [close EXCEPT ![s] = ~req.keep_alive]
          /\ pc' = [pc EXCEPT ![s] = IF req.known THEN "handling" ELSE "writing"]
    /\ UNCHANGED <<serverVars, deadline, answered, logVars, client, stranded, failures>>

\* The answers of the database lead to a response, some to a report as well.
HandleRequest(s) ==
    /\ process = "up" /\ pc[s] = "handling"
    /\ ~stranded
    /\ pc' = [pc EXCEPT ![s] = "writing"]
    /\ UNCHANGED <<logVars, failures>> \/ (Post(s, <<"report">>) /\ Fails)
    /\ UNCHANGED <<serverVars, close, deadline, taken, answered, client, stranded>>

\* Every request but one with a wrong target is logged first, which may trim the
\* log table; the process does not survive a trim that failed (module LogTable).
HandleCrashes(s) ==
    /\ process = "up" /\ pc[s] = "handling"
    /\ ~stranded
    /\ Fails
    /\ process' = "crashed"
    /\ UNCHANGED <<logger, acceptor, sessionVars, logVars, client, stranded>>

\* Slip: the response is written again and again.
ResponseWritten_again(s) ==
    /\ Free /\ pc[s] = "writing"
    /\ answered' = [answered EXCEPT ![s] = @ + 1]
    /\ \/ close[s] /\ Finish(s, <<>>, "none")
       \/ ~close[s] /\ UNCHANGED <<pc, close, deadline, logVars, client, failures>>
    /\ UNCHANGED <<serverVars, taken, stranded>>

\* The response is out: the end, or the next request.
ResponseWritten(s) ==
    /\ Free /\ pc[s] = "writing"
    /\ answered' = [answered EXCEPT ![s] = @ + 1]
    /\ \/ close[s] /\ Finish(s, <<>>, "none")
       \/ ~close[s] /\ ReadNext(s) /\ UNCHANGED <<logVars, client, failures>>
    /\ UNCHANGED <<serverVars, taken, stranded>>

\* Slip: the error of the write is reported and the loop goes on.
WriteFails_continue(s) ==
    /\ Free /\ pc[s] = "writing"
    /\ \E ec \in {"timeout", "error"} : Error(s, ec)
    /\ Post(s, <<"report">>)
    /\ ReadNext(s)
    /\ UNCHANGED <<serverVars, taken, answered, client, stranded, failures>>

WriteFails(s) ==
    /\ Free /\ pc[s] = "writing"
    /\ \E ec \in {"timeout", "error"} : Error(s, ec) /\ Finish(s, <<"report">>, ec)
    /\ UNCHANGED <<serverVars, taken, answered, stranded>>

\* What the session does without another request of its client.
SessionStep(s) ==
    \/ Start(s) \/ ReadFails(s) \/ HandleRequest(s) \/ HandleCrashes(s)
    \/ ResponseWritten(s) \/ WriteFails(s)

-------------------------------------------------------------------------------
(* Logger_srvr_http::make_record posts; the strand writes in that order.   *)

Written(r) == written' = [written EXCEPT ![r.of] = Append(@, r.kind)]

\* Slip: the records are posted to the io_context and not to the strand.
WriteRecord_unordered ==
    /\ Free
    /\ \E i \in 1..Len(log_strand) :
          /\ Written(log_strand[i])
          /\ log_strand' = RemoveAt(log_strand, i)
    /\ UNCHANGED <<serverVars, sessionVars, client, stranded, failures>>

WriteRecord ==
    /\ Free
    /\ log_strand # <<>>
    /\ Written(Head(log_strand))
    /\ log_strand' = Tail(log_strand)
    /\ UNCHANGED <<serverVars, sessionVars, client, stranded, failures>>

-------------------------------------------------------------------------------

Next ==
    \/ run
    \/ \E s \in Sessions :
          \/ ClientConnects(s) \/ ClientGoes(s) \/ Expire(s)
          \/ Accept(s) \/ ReadRequest(s) \/ SessionStep(s)
    \/ AcceptFails
    \/ DatabaseStrands
    \/ WriteRecord

Spec == Init /\ [][Next]_vars

(* The threads run what is ready, time passes, and the database answers    *)
(* until it is stranded.  Clients owe nothing.                             *)
Fairness ==
    /\ WF_vars(run) /\ WF_vars(WriteRecord)
    /\ \A s \in Sessions :
          WF_vars(Expire(s)) /\ WF_vars(Accept(s)) /\ WF_vars(SessionStep(s))

FairSpec == Spec /\ Fairness

-------------------------------------------------------------------------------
(* Properties.                                                             *)

(* session_loop answers the requests of a connection one after the other:  *)
(* before it reads the next one, every one it has read has been answered,  *)
(* once.  The request that a closed connection may leave without an answer *)
(* is its last, and the log holds a report of it.                          *)
OneAnswerPerRequest ==
    \A s \in Sessions :
        /\ pc[s] \in {"none", "started", "reading"} => answered[s] = taken[s]
        /\ pc[s] \in {"handling", "writing"} => taken[s] = answered[s] + 1
        /\ pc[s] = "closed" /\ answered[s] # taken[s] =>
              /\ taken[s] = answered[s] + 1
              /\ "report" \in Told(s)

(* The log tells of every connection how it began and how it ended, in     *)
(* this order, although the Listener and the session post from different   *)
(* strands: first the connection, or why there is no endpoint to name;     *)
(* then reports; the end exactly once, when the session is over; and after *)
(* it at most the failed shutdown, which a timeout does not attempt.  (A   *)
(* crash loses what was posted and not written.)                           *)
LogTellsConnections ==
    \A s \in Sessions :
        LET ends     == {e \in Entries(s) : e.kind \in Ends}
            After(e) == {d \in Entries(s) : e.at < d.at}
        IN  /\ pc[s] = "none" <=> Entries(s) = {}
            /\ \A e \in Entries(s) : e.kind = "connected" => \A d \in Entries(s) : e.at <= d.at
            /\ \A e \in ends : \E d \in Entries(s) : d.at < e.at
            /\ Cardinality(ends) = IF pc[s] = "closed" THEN 1 ELSE 0
            /\ \A e \in ends : Cardinality(After(e)) <= IF e.kind = "closing" THEN 1 ELSE 0

(* A client that waits is accepted, whatever other accepts fail, and its   *)
(* connection comes to an end even if it falls silent, unless a request    *)
(* waits for a database that answers no more: its own, or those of others  *)
(* on every thread; or a failed trim of the log table has ended the        *)
(* process.                                                                *)
Stalled(s) == stranded /\ (pc[s] = "handling" \/ ~Free)

ServedUnlessStalled ==
    \A s \in Sessions :
        (client[s] = "waiting") ~> (pc[s] = "closed" \/ Stalled(s) \/ process = "crashed")

===============================================================================
