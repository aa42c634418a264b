------------------------------- MODULE Worker --------------------------------
(****************************************************************************)
(* A worker host: the processes of its Celery pool, the embedded beat       *)
(* scheduler, and its Docker daemon (src/worker/tasks.py,                   *)
(* src/worker/celery_app.py, src/worker/docker_engine.py).                  *)
(*                                                                          *)
(* Every task of a host, heartbeats and reaper included, goes through       *)
(* queue_<host_id> and the same pool.  Messages are acknowledged late: a    *)
(* message is redelivered if the worker or its connection dies before the   *)
(* task returns or raises.  A pool process that dies alone is another       *)
(* matter: task_reject_on_worker_lost is not set, so the worker             *)
(* acknowledges the message of the task that died.  A pool process is at    *)
(*   idle                                                                   *)
(*   begin    run_test_bundle, before its try block                         *)
(*   start    translating the config and starting the container             *)
(*   stream   following the container's log                                 *)
(*   finish   exit code known, artifacts uploading, status not written      *)
(*   except   an exception is being handled                                 *)
(*   cleanup  in finally, container not removed yet                         *)
(*   release  in finally, about to read the host's counter                  *)
(*   store    in finally, about to write the decremented counter            *)
(*   return   run_test_bundle is over, its message not acknowledged yet     *)
(*   count    publish_heartbeat, about to ask Docker for its live count     *)
(*   beat     publish_heartbeat, about to write the host's row              *)
(*   scan     reap_stale, about to query stuck runs                         *)
(*   reap     reap_stale, about to mark them FAILED                         *)
(****************************************************************************)
EXTENDS Scheduler, FiniteSets

CONSTANTS
    Procs,    \* the pool processes of all hosts
    HostOf,   \* the host each of them runs on
    Beats     \* the periodic tasks this instance schedules

ASSUME ProcsAssumption == HostOf \in [Procs -> Hosts]
ASSUME OwnerAssumption == None \notin Procs
ASSUME BeatsAssumption == Beats \subseteq BeatTasks

VARIABLES
    up,         \* the hosts whose worker is running
    task,       \* what each pool process is doing
    container   \* each Docker daemon's container named test_<test_id>

workerVars == <<up, task, container>>

\* The places of run_test_bundle, and of all tasks.
RunPC == {"begin", "start", "stream", "finish", "except", "cleanup", "release", "store", "return"}
TaskPC == RunPC \cup {"idle", "count", "beat", "scan", "reap"}

\* valid: the message can still be acknowledged on the connection it came by;
\* ok: the container exited with code 0; val: the count a step is about to
\* write; rows: the executions the reaper read.
Task == [pc : TaskPC, msg : Messages \cup {None}, valid : BOOLEAN, ok : BOOLEAN,
         val : Nat, rows : SUBSET Tests]

\* "dead": created but never started, or exited with a code other than 0.
\* owner: the process that started it and holds its handle.
ContainerState == {"none", "running", "passed", "dead"}
Container == [state : ContainerState, owner : Procs \cup {None}]

Idle == [pc |-> "idle", msg |-> None, valid |-> FALSE, ok |-> FALSE, val |-> 0, rows |-> {}]
NoContainer == [state |-> "none", owner |-> None]

\* Inside run_test_bundle the message is a test's; an idle process holds none.
TaskTypeOK ==
    /\ task \in [Procs -> Task]
    /\ \A p \in Procs : /\ task[p].pc \in RunPC => task[p].msg \in Tests
                        /\ task[p].valid => task[p].msg # None /\ task[p].pc # "idle"

WorkerTypeOK ==
    /\ up \subseteq Hosts
    /\ TaskTypeOK
    /\ container \in [Hosts -> [Tests -> Container]]

WorkerInit ==
    /\ up = Hosts
    /\ task = [p \in Procs |-> Idle]
    /\ container = [h \in Hosts |-> [t \in Tests |-> NoContainer]]

Running(p) == task[p].msg
Here(p) == container[HostOf[p]][Running(p)]
SetHere(p, c) == container' = [container EXCEPT ![HostOf[p]][Running(p)] = c]
Step(p, from, to) ==
    /\ task[p].pc = from
    /\ task' = [task EXCEPT ![p].pc = to]

\* Variant: the acknowledgement is not tied to the connection of the delivery.
EndTaskAnyConnection(p) ==
    /\ task' = [task EXCEPT ![p] = Idle]
    /\ acked' = IF task[p].msg \in Tests THEN acked \cup {task[p].msg} ELSE acked
    /\ UNCHANGED <<queue, routed, abandoned>>

\* The task is over: its message is acknowledged, unless the connection it was
\* delivered on is gone.
LeaveTask(p) ==
    /\ task' = [task EXCEPT ![p] = Idle]
    /\ acked' = IF task[p].valid /\ task[p].msg \in Tests
                THEN acked \cup {task[p].msg} ELSE acked
    /\ UNCHANGED <<queue, routed>>

\* The task returned or raised.
EndTask(p) == LeaveTask(p) /\ UNCHANGED abandoned

\* The task ends without its except and its finally.
AbandonTask(p) ==
    /\ LeaveTask(p)
    /\ abandoned' = abandoned \cup ({task[p].msg} \cap Tests)

-----------------------------------------------------------------------------
\* Delivery (worker_prefetch_multiplier=1, so only to a free process).
FirstPC(m) == CASE m = "publish_heartbeat" -> "count"
                [] m = "reap_stale" -> "scan"
                [] OTHER -> "begin"

Deliver(p, m) ==
    /\ HostOf[p] \in up
    /\ task[p].pc = "idle"
    /\ m \in queue[HostOf[p]]
    /\ queue' = [queue EXCEPT ![HostOf[p]] = @ \ {m}]
    /\ task' = [task EXCEPT ![p] = [Idle EXCEPT !.pc = FirstPC(m), !.msg = m, !.valid = TRUE]]
    /\ UNCHANGED <<tableVars, routed, acked, abandoned, budget, up, container>>

\* The beat scheduler enqueues a periodic task.  One copy in the queue stands
\* for any number of them.
Beat(h, k) ==
    /\ h \in up
    /\ k \notin queue[h]
    /\ queue' = [queue EXCEPT ![h] = @ \cup {k}]
    /\ UNCHANGED <<tableVars, routed, acked, abandoned, budget, workerVars>>

-----------------------------------------------------------------------------
\* run_test_bundle
\* Variant: the RUNNING update does not name the host.
RunBeginNoTarget(p) ==
    /\ Step(p, "begin", "start")
    /\ SetStatus(Running(p), "RUNNING")
    /\ UNCHANGED <<workerHosts, registered, lock, brokerVars, budget, up, container>>

RunBegin(p) ==
    /\ Step(p, "begin", "start")
    /\ SetStatusOn(Running(p), "RUNNING", HostOf[p])
    /\ UNCHANGED <<workerHosts, registered, lock, brokerVars, budget, up, container>>

\* init_db, DockerEngine() or the RUNNING update raises before the try block,
\* the update perhaps applied: the task ends here, without except and finally.
RunBeginFails(p) ==
    /\ task[p].pc = "begin"
    /\ \/ (\E k \in {"db", "docker"} : Fault(k)) /\ UNCHANGED executions
       \/ Fault("db") /\ SetStatusOn(Running(p), "RUNNING", HostOf[p])
    /\ AbandonTask(p)
    /\ UNCHANGED <<workerHosts, registered, lock, up, container>>

\* Docker refuses a second container of the same name in any state.
RunStart(p) ==
    /\ Step(p, "start", "stream")
    /\ Bundle[Running(p)].known_runner
    /\ Here(p).state = "none"
    /\ SetHere(p, [state |-> "running", owner |-> p])
    /\ UNCHANGED <<tableVars, brokerVars, budget, up>>

\* get_runner rejects the runner type, or the name is taken.
RunStartRefused(p) ==
    /\ Step(p, "start", "except")
    /\ ~Bundle[Running(p)].known_runner \/ Here(p).state # "none"
    /\ UNCHANGED <<tableVars, brokerVars, budget, up, container>>

\* The pull or the create fails, or the create succeeds and the start fails.
RunStartFails(p) ==
    /\ Step(p, "start", "except")
    /\ Here(p).state = "none"
    /\ Fault("docker")
    /\ \E c \in {NoContainer, [state |-> "dead", owner |-> p]} : SetHere(p, c)
    /\ UNCHANGED <<tableVars, brokerVars, up>>

\* The log stream ends with the container and wait() returns its exit code.
StreamEnds(p) ==
    /\ task[p].pc = "stream"
    /\ Here(p).owner = p
    /\ Here(p).state \in {"passed", "dead"}
    /\ task' = [task EXCEPT ![p].pc = "finish", ![p].ok = Here(p).state = "passed"]
    /\ UNCHANGED <<tableVars, brokerVars, budget, up, container>>

\* Someone else removed the container: wait() raises NotFound.
StreamBreaks(p) ==
    /\ Step(p, "stream", "except")
    /\ Here(p).owner # p
    /\ UNCHANGED <<tableVars, brokerVars, budget, up, container>>

\* The log stream, InfluxDB, the fanout publish or a LogLine commit raises.
StreamFails(p) ==
    /\ Step(p, "stream", "except")
    /\ Fault("stream")
    /\ UNCHANGED <<tableVars, brokerVars, up, container>>

RunFinish(p) ==
    /\ Step(p, "finish", "cleanup")
    /\ SetStatus(Running(p), IF task[p].ok THEN "PASSED" ELSE "FAILED")
    /\ UNCHANGED <<workerHosts, registered, lock, brokerVars, budget, up, container>>

\* The verdict's update raises, perhaps applied: the except overwrites it.
RunFinishFails(p) ==
    /\ Step(p, "finish", "except")
    /\ Fault("db")
    /\ \/ UNCHANGED executions
       \/ SetStatus(Running(p), IF task[p].ok THEN "PASSED" ELSE "FAILED")
    /\ UNCHANGED <<workerHosts, registered, lock, brokerVars, up, container>>

\* Variant: the container is removed on the successful path only.
RunExceptNoCleanup(p) ==
    /\ Step(p, "except", "release")
    /\ SetStatus(Running(p), "FAILED")
    /\ UNCHANGED <<workerHosts, registered, lock, brokerVars, budget, up, container>>

\* Variant: the exception is only logged.
RunExceptSilent(p) ==
    /\ Step(p, "except", "cleanup")
    /\ UNCHANGED <<tableVars, brokerVars, budget, up, container>>

RunExcept(p) ==
    /\ Step(p, "except", "cleanup")
    /\ SetStatus(Running(p), "FAILED")
    /\ UNCHANGED <<workerHosts, registered, lock, brokerVars, budget, up, container>>

\* The handler's own update raises; finally still runs.
RunExceptFails(p) ==
    /\ Step(p, "except", "cleanup")
    /\ Fault("db")
    /\ UNCHANGED <<tableVars, brokerVars, up, container>>

\* cleanup() removes whatever container has the test's name.
RunCleanup(p) ==
    /\ Step(p, "cleanup", "release")
    /\ SetHere(p, NoContainer)
    /\ UNCHANGED <<tableVars, brokerVars, budget, up>>

\* An APIError other than NotFound leaves finally: no decrement.
RunCleanupFails(p) ==
    /\ task[p].pc = "cleanup"
    /\ Fault("docker")
    /\ EndTask(p)
    /\ UNCHANGED <<tableVars, up, container>>

\* Variant: the decrement is not clamped at zero.
DecrementReadUnclamped(p) ==
    /\ task[p].pc = "release"
    /\ HostOf[p] \in registered
    /\ task' = [task EXCEPT ![p].pc = "store",
                            ![p].val = workerHosts[HostOf[p]].active_containers - 1]
    /\ UNCHANGED <<tableVars, brokerVars, budget, up, container>>

\* _decrement_active_containers: read ...
DecrementRead(p) ==
    /\ task[p].pc = "release"
    /\ HostOf[p] \in registered
    /\ workerHosts[HostOf[p]].active_containers > 0
    /\ task' = [task EXCEPT ![p].pc = "store",
                            ![p].val = workerHosts[HostOf[p]].active_containers - 1]
    /\ UNCHANGED <<tableVars, brokerVars, budget, up, container>>

\* ... nothing to release ...
DecrementSkip(p) ==
    /\ Step(p, "release", "return")
    /\ HostOf[p] \notin registered \/ workerHosts[HostOf[p]].active_containers = 0
    /\ UNCHANGED <<tableVars, brokerVars, budget, up, container>>

\* ... and write.
DecrementWrite(p) ==
    /\ Step(p, "store", "return")
    /\ Unlocked
    /\ workerHosts' = [workerHosts EXCEPT ![HostOf[p]].active_containers = task[p].val]
    /\ UNCHANGED <<registered, executions, lock, brokerVars, budget, up, container>>

\* The decrement raises: the task ends with it.
DecrementFails(p) ==
    /\ task[p].pc \in {"release", "store"}
    /\ Fault("db")
    /\ EndTask(p)
    /\ UNCHANGED <<tableVars, up, container>>

Acknowledge(p) ==
    /\ task[p].pc = "return"
    /\ EndTask(p)
    /\ UNCHANGED <<tableVars, budget, up, container>>

-----------------------------------------------------------------------------
\* publish_heartbeat
LiveTests(h) == {t \in Tests : container[h][t].state = "running"}

\* Variant: the heartbeat republishes the counter instead of counting.
HeartbeatCountCached(p) ==
    /\ task[p].pc = "count"
    /\ task' = [task EXCEPT ![p].pc = "beat",
                            ![p].val = workerHosts[HostOf[p]].active_containers]
    /\ UNCHANGED <<tableVars, brokerVars, budget, up, container>>

HeartbeatCount(p) ==
    /\ task[p].pc = "count"
    /\ task' = [task EXCEPT ![p].pc = "beat", ![p].val = Cardinality(LiveTests(HostOf[p]))]
    /\ UNCHANGED <<tableVars, brokerVars, budget, up, container>>

\* Docker does not answer: the last count written is used again.
HeartbeatCountFails(p) ==
    /\ task[p].pc = "count"
    /\ Fault("docker")
    /\ task' = [task EXCEPT ![p].pc = "beat",
          ![p].val = IF HostOf[p] \in registered
                     THEN workerHosts[HostOf[p]].active_containers ELSE 0]
    /\ UNCHANGED <<tableVars, brokerVars, up, container>>

\* Variant: the heartbeat's UPDATE does not wait for the row locks.
HeartbeatWriteUnlocked(p, cpu) ==
    LET h == HostOf[p]
    IN  /\ task[p].pc = "beat"
        /\ registered' = registered \cup {h}
        /\ workerHosts' = [workerHosts EXCEPT
              ![h].is_online = TRUE, ![h].active_containers = task[p].val,
              ![h].cpu_utilization = cpu, ![h].last_heartbeat = 0]
        /\ EndTask(p)
        /\ UNCHANGED <<executions, lock, budget, up, container>>

\* The first heartbeat of a host inserts its row, which no lock delays.  Reading
\* the row and updating it are one step here; in between, the ORM would leave out
\* what it read unchanged, which the next heartbeat makes up for.
HeartbeatWrite(p, cpu) ==
    LET h == HostOf[p]
    IN  /\ task[p].pc = "beat"
        /\ h \in registered => Unlocked
        /\ registered' = registered \cup {h}
        /\ workerHosts' = [workerHosts EXCEPT
              ![h].is_online = TRUE, ![h].active_containers = task[p].val,
              ![h].cpu_utilization = cpu, ![h].last_heartbeat = 0]
        /\ EndTask(p)
        /\ UNCHANGED <<executions, lock, budget, up, container>>

\* A database error ends the task; the row keeps its old heartbeat.
HeartbeatFails(p) ==
    /\ task[p].pc \in {"count", "beat"}
    /\ Fault("db")
    /\ EndTask(p)
    /\ UNCHANGED <<tableVars, up, container>>

-----------------------------------------------------------------------------
\* reap_stale
\* Variant: the reaper looks for runs that never started.
StuckRunsDispatched(h) ==
    {t \in Tests : /\ executions[t].target_host_id = h
                   /\ executions[t].status = "DISPATCHED"
                   /\ executions[t].updated_at > ReapAfter}

StuckRuns(h) ==
    {t \in Tests : /\ executions[t].target_host_id = h
                   /\ executions[t].status = "RUNNING"
                   /\ executions[t].updated_at > ReapAfter}

ReapScan(p) ==
    /\ task[p].pc = "scan"
    /\ task' = [task EXCEPT ![p].pc = "reap", ![p].rows = StuckRuns(HostOf[p])]
    /\ UNCHANGED <<tableVars, brokerVars, budget, up, container>>

ReapWrite(p) ==
    /\ task[p].pc = "reap"
    /\ FailRows(task[p].rows)
    /\ EndTask(p)
    /\ UNCHANGED <<workerHosts, registered, lock, budget, up, container>>

ReapFails(p) ==
    /\ task[p].pc \in {"scan", "reap"}
    /\ Fault("db")
    /\ EndTask(p)
    /\ UNCHANGED <<tableVars, up, container>>

-----------------------------------------------------------------------------
\* Docker and the failures of the host.

\* The test in the container ends.
ContainerExits(h, t) ==
    /\ container[h][t].state = "running"
    /\ \E s \in {"passed", "dead"} : container' = [container EXCEPT ![h][t].state = s]
    /\ UNCHANGED <<tableVars, brokerVars, budget, up, task>>

\* The messages of h whose delivery is not acknowledged.
Unacked(h) == {task[p].msg : p \in {q \in Procs : HostOf[q] = h /\ task[q].valid}}

\* Variant: messages are acknowledged when they are handed out.
RequeueNothing(h) == UNCHANGED <<queue, routed, acked, abandoned>>

Requeue(h) ==
    /\ queue' = [queue EXCEPT ![h] = @ \cup Unacked(h)]
    /\ UNCHANGED <<routed, acked, abandoned>>

\* The worker dies with all its pool processes.  The broker requeues what they
\* had not acknowledged; the containers belong to the Docker daemon and stay.
Crash(h) ==
    /\ h \in up
    /\ Fault("crash")
    /\ up' = up \ {h}
    /\ Requeue(h)
    /\ task' = [p \in Procs |-> IF HostOf[p] = h THEN Idle ELSE task[p]]
    /\ container' = [container EXCEPT
          ![h] = [t \in Tests |-> [container[h][t] EXCEPT !.owner = None]]]
    /\ UNCHANGED tableVars

\* One pool process dies alone (the kernel kills it, or it exits): the worker
\* notices, acknowledges the message of the task as lost and replaces the
\* process.  The row and the container stay as they are.
ProcessDies(p) ==
    /\ HostOf[p] \in up
    /\ task[p].pc # "idle"
    /\ Fault("kill")
    /\ AbandonTask(p)
    /\ container' = [container EXCEPT ![HostOf[p]] = [t \in Tests |->
          LET c == container[HostOf[p]][t]
          IN  IF c.owner = p THEN [c EXCEPT !.owner = None] ELSE c]]
    /\ UNCHANGED <<tableVars, up>>

Restart(h) ==
    /\ h \notin up
    /\ up' = up \cup {h}
    /\ UNCHANGED <<tableVars, brokerVars, budget, task, container>>

\* The broker drops the connection (or its delivery timeout expires): it
\* redelivers while the processes go on with the tasks they have.
ConnectionLost(h) ==
    /\ h \in up
    /\ Fault("connloss")
    /\ Requeue(h)
    /\ task' = [p \in Procs |->
          IF HostOf[p] = h THEN [task[p] EXCEPT !.valid = FALSE] ELSE task[p]]
    /\ UNCHANGED <<tableVars, up, container>>

RunStep(p) ==
    \/ RunBegin(p)       \/ RunBeginFails(p)
    \/ RunStart(p)       \/ RunStartRefused(p)  \/ RunStartFails(p)
    \/ StreamEnds(p)     \/ StreamBreaks(p)     \/ StreamFails(p)
    \/ RunFinish(p)      \/ RunFinishFails(p)
    \/ RunExcept(p)      \/ RunExceptFails(p)
    \/ RunCleanup(p)     \/ RunCleanupFails(p)
    \/ DecrementRead(p)  \/ DecrementSkip(p)
    \/ DecrementFails(p) \/ DecrementWrite(p)
    \/ Acknowledge(p)

HeartbeatStep(p) ==
    \/ HeartbeatCount(p)
    \/ HeartbeatCountFails(p)
    \/ \E cpu \in CpuLevels : HeartbeatWrite(p, cpu)
    \/ HeartbeatFails(p)

ReapStep(p) == ReapScan(p) \/ ReapWrite(p) \/ ReapFails(p)

HostStep(h) ==
    \/ \E k \in Beats : Beat(h, k)
    \/ \E t \in Tests : ContainerExits(h, t)
    \/ Crash(h)
    \/ Restart(h)
    \/ ConnectionLost(h)

WorkerNext ==
    \/ \E p \in Procs :
          \/ \E m \in Messages : Deliver(p, m)
          \/ RunStep(p)
          \/ HeartbeatStep(p)
          \/ ReapStep(p)
          \/ ProcessDies(p)
    \/ \E h \in Hosts : HostStep(h)
==============================================================================
