---------------------------- MODULE Orchestrator -----------------------------
(****************************************************************************)
(* The whole system: submissions and maintenance in the backend, workers on *)
(* their hosts, the database and the broker between them, and time.         *)
(****************************************************************************)
EXTENDS Submission, Worker, Maintenance

CONSTANTS Prompt   \* TRUE: a worker that can run its heartbeat does so every tick

ASSUME PromptAssumption == Prompt \in BOOLEAN

vars == <<tableVars, brokerVars, budget, req, workerVars, sweep>>

TypeOK ==
    /\ StoreTypeOK
    /\ SubmissionTypeOK
    /\ WorkerTypeOK
    /\ MaintenanceTypeOK

Init == StoreInit /\ SubmissionInit /\ WorkerInit /\ MaintenanceInit

-----------------------------------------------------------------------------
\* Time.

Older(age, limit) == IF age > limit THEN age ELSE age + 1

\* Every process of the pool follows the log of a container that still runs.
Saturated(h) ==
    \A p \in Procs : HostOf[p] = h =>
        /\ task[p].pc = "stream"
        /\ Here(p).owner = p
        /\ Here(p).state = "running"

\* The heartbeat of h has been written since the last tick, or it is waiting
\* in a queue nobody can serve.
BeatDone(h) ==
    \/ h \in registered /\ workerHosts[h].is_online /\ workerHosts[h].last_heartbeat = 0
    \/ Saturated(h) /\ "publish_heartbeat" \in queue[h]

\* A stamp's age is only read while the host is online (sweep) or the run is
\* RUNNING (reaper), and entering either state sets the stamp anew.
Tick ==
    /\ Prompt => \A h \in up : BeatDone(h)
    /\ workerHosts' = [h \in Hosts |->
          IF workerHosts[h].is_online
          THEN [workerHosts[h] EXCEPT !.last_heartbeat = Older(@, HeartbeatTimeout)]
          ELSE workerHosts[h]]
    /\ executions' = [t \in Tests |->
          IF executions[t].status = "RUNNING"
          THEN [executions[t] EXCEPT !.updated_at = Older(@, ReapAfter)]
          ELSE executions[t]]
    /\ UNCHANGED <<registered, lock, brokerVars, budget, req, workerVars, sweep>>

\* The backend dies: its handlers and its sweep end where they are, and the
\* database drops their locks.  It is started again at once.
BackendCrash ==
    /\ Fault("backend")
    /\ req' = [t \in Tests |->
          IF req[t].pc \in {"new", "done"} THEN req[t]
          ELSE [req[t] EXCEPT !.pc = "lost", !.survivors = {}]]
    /\ lock' = None
    /\ sweep' = SweepIdle
    /\ UNCHANGED <<workerHosts, registered, executions, brokerVars, workerVars>>

BackendNext ==
    \/ (\E t \in Tests : SubmissionStep(t)) /\ UNCHANGED <<workerVars, sweep>>
    \/ (\E e \in AdminEdits : UpdateHost(e)) /\ UNCHANGED <<workerVars, sweep>>
    \/ MaintenanceNext /\ UNCHANGED <<req, workerVars>>
    \/ BackendCrash

Next ==
    \/ BackendNext
    \/ WorkerNext /\ UNCHANGED <<req, sweep>>
    \/ Tick

Spec == Init /\ [][Next]_vars

-----------------------------------------------------------------------------
\* Fairness.  Threads, pool processes, timers and the clock keep going, and
\* the broker hands out a message that is offered again and again (queues are
\* first in, first out).  No fault is fair, and neither is Restart: nothing in
\* the deployment restarts a worker.

RequestProgress(t) ==
    \/ DispatchNone(t)
    \/ \E h \in Hosts : DispatchSelect(t, h)
    \/ CommitReservation(t)
    \/ RefetchHost(t)
    \/ Publish(t)
    \/ UndoReservation(t)
    \/ RecordDispatched(t)
    \/ RecordFailed(t)

TaskProgress(p) ==
    \/ RunBegin(p)
    \/ RunStart(p)
    \/ RunStartRefused(p)
    \/ StreamEnds(p)
    \/ StreamBreaks(p)
    \/ RunFinish(p)
    \/ RunExcept(p)
    \/ RunCleanup(p)
    \/ DecrementRead(p)
    \/ DecrementSkip(p)
    \/ DecrementWrite(p)
    \/ Acknowledge(p)
    \/ HeartbeatCount(p)
    \/ \E cpu \in CpuLevels : HeartbeatWrite(p, cpu)
    \/ ReapScan(p)
    \/ ReapWrite(p)

SweepProgress == SweepRead \/ SweepMark \/ SweepQuery \/ SweepFail

Fairness ==
    /\ \A t \in Tests : WF_vars(RequestProgress(t) /\ UNCHANGED <<workerVars, sweep>>)
    /\ \A p \in Procs : WF_vars(TaskProgress(p) /\ UNCHANGED <<req, sweep>>)
    /\ \A h \in Hosts, m \in Messages :
          SF_vars(\E p \in Procs : HostOf[p] = h /\ Deliver(p, m) /\ UNCHANGED <<req, sweep>>)
    /\ \A h \in Hosts, k \in Beats : WF_vars(Beat(h, k) /\ UNCHANGED <<req, sweep>>)
    /\ WF_vars(SweepProgress /\ UNCHANGED <<req, workerVars>>)
    /\ WF_vars(Tick)

\* The handlers alone go on: no worker, timer or tick is needed.
SubmittingSpec ==
    Spec /\ \A t \in Tests : WF_vars(RequestProgress(t) /\ UNCHANGED <<workerVars, sweep>>)

\* Every test a container runs ends some day.
TestsTerminate ==
    \A h \in Hosts, t \in Tests : WF_vars(ContainerExits(h, t) /\ UNCHANGED <<req, sweep>>)

FairSpec == Spec /\ Fairness
TerminatingSpec == FairSpec /\ TestsTerminate

-----------------------------------------------------------------------------
\* Safety.

\* Placement is sound when it takes effect.  Between the locking SELECT and
\* the commit of the reservation (scheduler.dispatch) no heartbeat, sweep,
\* decrement, admin edit or other dispatch gets in: at the commit the chosen
\* host still passes the filter and still outranks every host that was found to
\* pass it, and the commit adds exactly one container to the counter, which
\* stays within the host's cap.
PlacementSound ==
    [][\A t \in Tests : req[t].pc = "reserve" /\ req'[t].pc = "publish" =>
          LET h == req[t].host
              old == workerHosts[h]
              new == workerHosts'[h]
          IN  /\ PassesFilter(old, Bundle[t])
              /\ \A g \in req[t].survivors : Precedes(h, g)
              /\ new.active_containers = old.active_containers + 1
              /\ new.active_containers <= new.max_containers]_vars

\* p holds a delivery of t whose acknowledgement the broker will accept.
Holds(p, t) == task[p].valid /\ task[p].msg = t

\* Published, and not acknowledged.
Live(t) == routed[t] # None /\ t \notin acked

\* Late acknowledgement loses and duplicates nothing at the broker: through
\* crashes, lost connections and restarts, the message of a test that was
\* published and not acknowledged is either in the queue of the host it was
\* routed to or held by one process of that host, never both and never by two;
\* before publication and after acknowledgement it is nowhere.
ExactlyOneCopy ==
    \A t \in Tests :
        /\ Live(t) => t \in queue[routed[t]] \/ \E p \in Procs : Holds(p, t)
        /\ \A h \in Hosts : t \in queue[h] =>
              Live(t) /\ h = routed[t] /\ \A p \in Procs : ~Holds(p, t)
        /\ \A p \in Procs : Holds(p, t) =>
              Live(t) /\ HostOf[p] = routed[t] /\ \A q \in Procs : Holds(q, t) => q = p

\* A process that has not reached its cleanup of t yet.
WillCleanUp(p, t) ==
    /\ task[p].msg = t
    /\ task[p].pc \in {"begin", "start", "stream", "finish", "except", "cleanup"}

\* No container is left behind: whenever a container of a test exists, a
\* delivery of that test is waiting in the host's queue or some process there
\* has yet to run the cleanup of its finally block, even when the whole worker
\* has crashed and left the container behind.  The exception is a test whose
\* task never got to its finally although its message was acknowledged: its
\* pool process died alone, or the task raised before its try block.
ContainersCovered ==
    \A h \in Hosts, t \in Tests :
        container[h][t].state # "none" =>
            \/ t \in queue[h]
            \/ \E p \in Procs : HostOf[p] = h /\ WillCleanUp(p, t)
            \/ t \in abandoned

\* A process that has yet to write the verdict of t.
WillDecide(p, t) ==
    /\ task[p].msg = t
    /\ task[p].pc \in {"begin", "start", "stream", "finish", "except"}

\* No row is left saying RUNNING: whenever one does, the message of its test is
\* waiting in a queue or some process has yet to write the verdict, also after
\* the death of the whole worker or of its connection (run_test_bundle;
\* task_acks_late).  Only a task that ended without its except leaves its row to
\* the reaper: its process died alone and the message was acknowledged, since
\* task_reject_on_worker_lost is not set, or it raised before its try block.
RunningIsAttended ==
    \A t \in Tests : executions[t].status = "RUNNING" =>
        \/ \E h \in Hosts : t \in queue[h]
        \/ \E p \in Procs : WillDecide(p, t)
        \/ t \in abandoned

\* The row locks of the inventory are held by the one dispatch that is between
\* its SELECT ... FOR UPDATE and the end of that transaction, where it waits
\* for nobody; however the transaction ends (commit, rollback after an error,
\* backend killed), it takes the locks with it, so heartbeats, decrements,
\* sweeps, edits and other dispatches wait in vain for none of them.
LocksAreReleased == \A t \in Tests : lock = t <=> req[t].pc = "reserve"

\* An execution that is DISPATCHED or RUNNING names the host its message went
\* to, so that the sweep of that host and its reaper can find it; the worker
\* may have written the row before the submit handler did.
ActiveRunsAreFindable ==
    \A t \in Tests : executions[t].status \in ActiveStates =>
        /\ routed[t] # None
        /\ executions[t].target_host_id = routed[t]

-----------------------------------------------------------------------------
\* Liveness.

\* Reconciliation: on a host that stays up the heartbeats bring the counter
\* to the number of containers Docker runs there, and it stays there,
\* whatever reservations, undos and decrements raced before.
GaugeConverges ==
    \A h \in Hosts : <>[](h \in up) =>
        <>[](/\ h \in registered
             /\ workerHosts[h].active_containers = Cardinality(LiveTests(h)))

\* A host whose worker is gone for good ends up offline, and stays so.
DeadHostGoesOffline ==
    \A h \in Hosts : <>[](h \notin up) => <>[](~workerHosts[h].is_online)

\* Every submission is answered and its row leaves PENDING, unless the handler
\* is lost: a dispatch that waits for the inventory lock of another one gets it,
\* whichever way the other ends, a failed commit or publish and its undo
\* included (main.py submit_test, scheduler.dispatch).
RequestsComplete ==
    \A t \in Tests : executions[t].status = "PENDING" ~>
        \/ req[t].pc = "done" /\ executions[t].status # "PENDING"
        \/ req[t].pc = "lost"

\* A published test is acknowledged for good if its host stays up, and no
\* container of it is left, unless the process that ran it died alone: then
\* nothing removes the container.
PublishedIsFinished ==
    \A t \in Tests, h \in Hosts : <>[](h \in up) /\ <>(routed[t] = h) =>
        <>[](t \in acked /\ (container[h][t].state = "none" \/ t \in abandoned))

\* A run that hangs, or whose process died alone and had its message
\* acknowledged, does not stay RUNNING: the reaper of its host fails it, as
\* long as that host stays up and its pool has a process left for the reaper.
HungRunIsReaped ==
    \A t \in Tests, h \in Hosts : <>[](h \in up) =>
        ~<>[](executions[t].status = "RUNNING" /\ executions[t].target_host_id = h)

==============================================================================
