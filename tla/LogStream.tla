------------------------------- MODULE LogStream -------------------------------
(****************************************************************************)
(* The log of one test: the loop of run_test_bundle that stores, publishes  *)
(* and indexes its lines (src/worker/tasks.py, influx_client.py), and the   *)
(* browser pages that follow it live (ws_logs and _consume_fanout,          *)
(* src/backend/main.py).                                                    *)
(*                                                                          *)
(* A line is known by the execution that read it and its line_no; a message *)
(* on the exchange by its position in everything published.  The worker is  *)
(* at                                                                       *)
(*   queued   the test's message waits in the host's queue                  *)
(*   start    status RUNNING, about to start the container                  *)
(*   stream   about to store the next line, or to see the log end           *)
(*   publish  line stored in InfluxDB, not published                        *)
(*   index    line published, LogLine row due and not committed             *)
(*   except, cleanup, return    as in Worker                                *)
(*   done     message acknowledged                                          *)
(****************************************************************************)
EXTENDS Naturals, Sequences, FiniteSets

CONSTANTS
    Lines,            \* how many lines the container prints at most
    CheckpointEvery,  \* LOG_CHECKPOINT_EVERY
    Pages,            \* the log pages' sockets
    StreamFaults,     \* the kinds of fault this instance injects
    MaxFaults         \* how many of them

ASSUME LinesAssumption == Lines \in Nat /\ CheckpointEvery \in Nat \ {0}
ASSUME StreamFaultsAssumption ==
    StreamFaults \subseteq {"influx", "amqp", "db", "crash", "kill"} /\ MaxFaults \in Nat

VARIABLES
    pc,          \* where the worker is
    run,         \* which execution of the test this is; line_no starts anew with each
    line_no,     \* the loop variable
    container,   \* the test's container exists
    status,      \* the run's row
    influx,      \* the points of the test in the bucket
    logLines,    \* its rows in log_lines
    published,   \* history: every line published to test_logs.<test_id>
    handler,     \* where each ws_logs handler is
    consumer,    \* its _consume_fanout task
    queue,       \* its temporary queue
    shown,       \* the lines in its browser's terminal
    since,       \* history: what had been published when the queue was bound
    base,        \* history: what the terminal showed then
    budget

storeVars == <<influx, logLines, published>>
workerVars == <<pc, run, line_no, container, status>>
pageVars == <<handler, consumer, queue, shown, since, base>>
vars == <<workerVars, storeVars, pageVars, budget>>

Line == [run : Nat, line_no : Nat]
ThisLine == [run |-> run, line_no |-> line_no]

WorkerPC == {"queued", "start", "stream", "publish", "index", "except", "cleanup", "return", "done"}

\* A handler checks its consumer and waits in turn; "off": not opened yet.
HandlerPC == {"off", "check", "wait", "closed"}
ConsumerPC == {"none", "connect", "listen", "dead", "cancelled"}

Init ==
    /\ pc = "queued" /\ run = 0 /\ line_no = 0 /\ container = FALSE /\ status = "DISPATCHED"
    /\ influx = {} /\ logLines = {} /\ published = <<>>
    /\ handler = [p \in Pages |-> "off"]
    /\ consumer = [p \in Pages |-> "none"]
    /\ queue = [p \in Pages |-> <<>>]
    /\ shown = [p \in Pages |-> <<>>]
    /\ since = [p \in Pages |-> 0]
    /\ base = [p \in Pages |-> 0]
    /\ budget = MaxFaults

StreamTypeOK ==
    /\ pc \in WorkerPC
    /\ run \in Nat /\ line_no \in Nat /\ container \in BOOLEAN
    /\ status \in {"DISPATCHED", "RUNNING", "PASSED", "FAILED"}
    /\ influx \subseteq Line /\ logLines \subseteq Line /\ published \in Seq(Line)
    /\ handler \in [Pages -> HandlerPC]
    /\ consumer \in [Pages -> ConsumerPC]
    /\ queue \in [Pages -> Seq(Nat)]
    /\ shown \in [Pages -> Seq(Nat)]
    /\ since \in [Pages -> Nat]
    /\ base \in [Pages -> Nat]
    /\ budget \in 0..MaxFaults

Fault(k) ==
    /\ k \in StreamFaults
    /\ budget > 0
    /\ budget' = budget - 1

-----------------------------------------------------------------------------
\* run_test_bundle

Goto(from, to) == pc = from /\ pc' = to

Deliver ==
    /\ Goto("queued", "start")
    /\ run' = run + 1
    /\ line_no' = 0
    /\ status' = "RUNNING"
    /\ UNCHANGED <<container, storeVars, pageVars, budget>>

StartContainer ==
    /\ Goto("start", "stream")
    /\ ~container
    /\ container' = TRUE
    /\ UNCHANGED <<run, line_no, status, storeVars, pageVars, budget>>

\* The container of a crashed execution still has the name.
StartRefused ==
    /\ Goto("start", "except")
    /\ container
    /\ UNCHANGED <<run, line_no, container, status, storeVars, pageVars, budget>>

\* influx.write_line, synchronous.
WriteLine ==
    /\ Goto("stream", "publish")
    /\ line_no < Lines
    /\ influx' = influx \cup {ThisLine}
    /\ UNCHANGED <<run, line_no, container, status, logLines, published, pageVars, budget>>

\* Variant: an error of the history is ignored and the line goes out live.
WriteFailsIgnored ==
    /\ Goto("stream", "publish")
    /\ line_no < Lines
    /\ Fault("influx")
    /\ UNCHANGED <<run, line_no, container, status, storeVars, pageVars>>

\* A timeout raises although the point may have been stored.
WriteFails ==
    /\ Goto("stream", "except")
    /\ line_no < Lines
    /\ Fault("influx")
    /\ influx' \in {influx, influx \cup {ThisLine}}
    /\ UNCHANGED <<run, line_no, container, status, logLines, published, pageVars>>

Bound(p) == consumer[p] = "listen"

\* Variant: the pages share one queue, and a line reaches one of them.
FanoutToOne ==
    /\ published' = Append(published, ThisLine)
    /\ \E p \in Pages : queue' = [queue EXCEPT ![p] =
          IF Bound(p) THEN Append(@, Len(published')) ELSE @]

\* The fanout exchange copies a line into every bound queue and keeps none.
Fanout ==
    /\ published' = Append(published, ThisLine)
    /\ queue' = [p \in Pages |->
          IF Bound(p) THEN Append(queue[p], Len(published')) ELSE queue[p]]

\* Every CheckpointEvery-th line is indexed before the next line is read.
PublishLine ==
    /\ pc = "publish"
    /\ Fanout
    /\ IF line_no % CheckpointEvery = 0
       THEN pc' = "index" /\ UNCHANGED line_no
       ELSE pc' = "stream" /\ line_no' = line_no + 1
    /\ UNCHANGED <<run, container, status, influx, logLines,
                   handler, consumer, shown, since, base, budget>>

\* Connecting or publishing raises, or closing the connection does after the
\* line went out: either way the run fails.
PublishFails ==
    /\ Goto("publish", "except")
    /\ Fault("amqp")
    /\ Fanout \/ UNCHANGED <<published, queue>>
    /\ UNCHANGED <<run, line_no, container, status, influx, logLines,
                   handler, consumer, shown, since, base>>

IndexLine ==
    /\ Goto("index", "stream")
    /\ logLines' = logLines \cup {ThisLine}
    /\ line_no' = line_no + 1
    /\ UNCHANGED <<run, container, status, influx, published, pageVars, budget>>

\* Variant: a failing commit ends the loop but not the run.
IndexFailsEndsLog ==
    /\ Goto("index", "cleanup")
    /\ Fault("db")
    /\ status' = "PASSED"
    /\ UNCHANGED <<run, line_no, container, storeVars, pageVars>>

\* So does a commit that was carried out before the connection broke.
IndexFails ==
    /\ Goto("index", "except")
    /\ Fault("db")
    /\ logLines' \in {logLines, logLines \cup {ThisLine}}
    /\ UNCHANGED <<run, line_no, container, status, influx, published, pageVars>>

\* The log ends with the container, whose exit code gives the verdict.
StreamEnds ==
    /\ Goto("stream", "cleanup")
    /\ status' \in {"PASSED", "FAILED"}
    /\ UNCHANGED <<run, line_no, container, storeVars, pageVars, budget>>

Except ==
    /\ Goto("except", "cleanup")
    /\ status' = "FAILED"
    /\ UNCHANGED <<run, line_no, container, storeVars, pageVars, budget>>

Cleanup ==
    /\ Goto("cleanup", "return")
    /\ container' = FALSE
    /\ UNCHANGED <<run, line_no, status, storeVars, pageVars, budget>>

Acknowledge ==
    /\ Goto("return", "done")
    /\ UNCHANGED <<run, line_no, container, status, storeVars, pageVars, budget>>

\* The worker dies: the message is queued again, the container stays.
WorkerCrash ==
    /\ pc \notin {"queued", "done"}
    /\ Fault("crash")
    /\ pc' = "queued"
    /\ UNCHANGED <<run, line_no, container, status, storeVars, pageVars>>

\* The pool process dies alone: its parent acknowledges the message, and the
\* container stays.
ProcessDies ==
    /\ pc \notin {"queued", "done"}
    /\ Fault("kill")
    /\ pc' = "done"
    /\ UNCHANGED <<run, line_no, container, status, storeVars, pageVars>>

-----------------------------------------------------------------------------
\* ws_logs

OpenPage(p) ==
    /\ handler[p] = "off"
    /\ handler' = [handler EXCEPT ![p] = "check"]
    /\ consumer' = [consumer EXCEPT ![p] = "connect"]
    /\ UNCHANGED <<workerVars, storeVars, queue, shown, since, base, budget>>

\* consumer.done(): the handler returns and the socket is closed.
CheckConsumer(p) ==
    /\ handler[p] = "check"
    /\ handler' = [handler EXCEPT ![p] = IF consumer[p] = "dead" THEN "closed" ELSE "wait"]
    /\ UNCHANGED <<workerVars, storeVars, consumer, queue, shown, since, base, budget>>

\* Variant: receive_text is awaited without a timeout; the page sends nothing.
WaitForever(p) ==
    /\ handler[p] = "wait"
    /\ UNCHANGED vars

\* wait_for gives up after a second.
WaitTimesOut(p) ==
    /\ handler[p] = "wait"
    /\ handler' = [handler EXCEPT ![p] = "check"]
    /\ UNCHANGED <<workerVars, storeVars, consumer, queue, shown, since, base, budget>>

\* WebSocketDisconnect: the consumer is cancelled, its queue goes with the
\* connection.
LeavePage(p) ==
    /\ handler[p] = "wait"
    /\ handler' = [handler EXCEPT ![p] = "closed"]
    /\ consumer' = [consumer EXCEPT ![p] = IF @ = "dead" THEN @ ELSE "cancelled"]
    /\ queue' = [queue EXCEPT ![p] = <<>>]
    /\ UNCHANGED <<workerVars, storeVars, shown, since, base, budget>>

-----------------------------------------------------------------------------
\* _consume_fanout

ConsumerBind(p) ==
    /\ consumer[p] = "connect"
    /\ consumer' = [consumer EXCEPT ![p] = "listen"]
    /\ since' = [since EXCEPT ![p] = Len(published)]
    /\ base' = [base EXCEPT ![p] = Len(shown[p])]
    /\ UNCHANGED <<workerVars, storeVars, handler, queue, shown, budget>>

\* Render, send_text, and the next message.
ShowLine(p) ==
    /\ Bound(p) /\ queue[p] # <<>>
    /\ shown' = [shown EXCEPT ![p] = Append(@, Head(queue[p]))]
    /\ queue' = [queue EXCEPT ![p] = Tail(@)]
    /\ UNCHANGED <<workerVars, storeVars, handler, consumer, since, base, budget>>

\* The connection is refused, or the iterator or send_text raises.
ConsumerDies(p) ==
    /\ consumer[p] \in {"connect", "listen"}
    /\ Fault("amqp")
    /\ consumer' = [consumer EXCEPT ![p] = "dead"]
    /\ queue' = [queue EXCEPT ![p] = <<>>]
    /\ UNCHANGED <<workerVars, storeVars, handler, shown, since, base>>

\* connect_robust restores a lost connection: it declares and binds the
\* exclusive queue again, empty.
ConsumerReconnects(p) ==
    /\ Bound(p)
    /\ Fault("amqp")
    /\ consumer' = [consumer EXCEPT ![p] = "connect"]
    /\ queue' = [queue EXCEPT ![p] = <<>>]
    /\ UNCHANGED <<workerVars, storeVars, handler, shown, since, base>>

-----------------------------------------------------------------------------
RunNext ==
    \/ Deliver     \/ StartContainer \/ StartRefused
    \/ WriteLine   \/ WriteFails
    \/ PublishLine \/ PublishFails
    \/ IndexLine   \/ IndexFails
    \/ StreamEnds  \/ Except         \/ Cleanup      \/ Acknowledge
    \/ WorkerCrash \/ ProcessDies

PageNext(p) ==
    \/ OpenPage(p)     \/ CheckConsumer(p) \/ WaitTimesOut(p) \/ LeavePage(p)
    \/ ConsumerBind(p) \/ ShowLine(p)      \/ ConsumerDies(p) \/ ConsumerReconnects(p)

Next == RunNext \/ \E p \in Pages : PageNext(p)

Spec == Init /\ [][Next]_vars

\* The event loop runs what can run and its timeouts expire.  The worker, the
\* broker connection and the reader of the page owe nothing.
Fairness ==
    \A p \in Pages : WF_vars(CheckConsumer(p)) /\ WF_vars(WaitTimesOut(p))

FairSpec == Spec /\ Fairness

-----------------------------------------------------------------------------
Before(x) == {[run |-> x.run, line_no |-> k] : k \in 0..x.line_no - 1}
Due(x) == x.line_no % CheckpointEvery = 0
Published == {published[i] : i \in DOMAIN published}

\* The three records of a log agree at every moment, whatever fails or dies in
\* the loop of run_test_bundle: what anyone may have seen live is in InfluxDB,
\* what is in InfluxDB has no gap before it in any execution, went out live and
\* was indexed up to the line before it, and the index points at nothing else.
HistoryLeads ==
    /\ Published \subseteq influx
    /\ \A x \in influx :
          /\ Before(x) \subseteq influx \cap Published
          /\ {y \in Before(x) : Due(y)} \subseteq logLines
    /\ \A x \in logLines : x \in Published /\ Due(x)

\* A run that PASSED has a whole log: every line its last execution read is in
\* InfluxDB, and every CheckpointEvery-th of them in log_lines.
PassedIsComplete ==
    status = "PASSED" =>
        LET lines == {[run |-> run, line_no |-> k] : k \in 0..line_no - 1}
        IN  /\ {x \in influx : x.run = run} = lines
            /\ {x \in logLines : x.run = run} = {x \in lines : Due(x)}

\* A page shows the lines in the order they were published and none twice;
\* while its queue is bound it misses none: what it has shown and what waits
\* for it is everything published since (main.py _consume_fanout), even if
\* other pages follow the same test.
PageFollows ==
    \A p \in Pages :
        /\ \A i, j \in DOMAIN shown[p] : i < j => shown[p][i] < shown[p][j]
        /\ Bound(p) =>
              LET new == Len(shown[p]) - base[p]
              IN  /\ \A i \in 1..new : shown[p][base[p] + i] = since[p] + i
                  /\ \A i \in DOMAIN queue[p] : queue[p][i] = since[p] + new + i
                  /\ since[p] + new + Len(queue[p]) = Len(published)

\* ws_logs, "closed rather than hanging open silently": a page whose consumer
\* has died is closed, although its browser never sends anything.
DeadPageCloses == \A p \in Pages : consumer[p] = "dead" ~> handler[p] = "closed"
================================================================================
