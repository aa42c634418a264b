----------------------------- MODULE TypeProofs -----------------------------
(****************************************************************************)
(* Type correctness of the orchestrator, for every fleet, pool, set of      *)
(* tests and choice of injected faults.                                     *)
(****************************************************************************)
EXTENDS Orchestrator, FiniteSetTheorems, TLAPS

USE DEF FaultKinds

-----------------------------------------------------------------------------
\* Type correctness.

LEMMA OlderType ==
    ASSUME NEW n \in Nat, NEW a \in 0..n+1
    PROVE  Older(a, n) \in 0..n+1
BY DEF Older

LEMMA TouchType ==
    ASSUME NEW row \in TestExecution, NEW new \in TestExecution
    PROVE  Touch(row, new) \in TestExecution
BY TimingAssumption DEF Touch, TestExecution

\* A status update keeps the table well typed.
LEMMA ExecutionType ==
    ASSUME executions \in [Tests -> TestExecution], NEW t \in Tests, NEW s \in TestStatus,
           NEW h \in Hosts,
           SetStatus(t, s) \/ SetStatusOn(t, s, h)
    PROVE  executions' \in [Tests -> TestExecution]
<1>1. /\ [executions[t] EXCEPT !.status = s] \in TestExecution
      /\ [executions[t] EXCEPT !.status = s, !.target_host_id = h] \in TestExecution
  BY DEF TestExecution
<1>2. CASE SetStatus(t, s)
  BY <1>1, <1>2, TouchType DEF SetStatus
<1>3. CASE SetStatusOn(t, s, h)
  BY <1>1, <1>3, TouchType DEF SetStatusOn
<1> QED BY <1>2, <1>3

LEMMA FailRowsType ==
    ASSUME executions \in [Tests -> TestExecution], NEW rows, FailRows(rows)
    PROVE  executions' \in [Tests -> TestExecution]
<1>1. ASSUME NEW t \in Tests
      PROVE  Touch(executions[t], [executions[t] EXCEPT !.status = "FAILED"]) \in TestExecution
  <2>1. [executions[t] EXCEPT !.status = "FAILED"] \in TestExecution
    BY DEF TestExecution, TestStatus
  <2> QED BY <2>1, TouchType
<1> QED BY <1>1 DEF FailRows

LEMMA ActiveType ==
    ASSUME workerHosts \in [Hosts -> WorkerHost], NEW h, NEW n \in Nat
    PROVE  [workerHosts EXCEPT ![h].active_containers = n] \in [Hosts -> WorkerHost]
BY DEF WorkerHost

LEMMA FaultType ==
    ASSUME budget \in 0..MaxFaults, NEW k, Fault(k)
    PROVE  budget' \in 0..MaxFaults
BY FaultsAssumption DEF Fault

LEMMA WorkerHostActive ==
    ASSUME StoreTypeOK, NEW h \in Hosts
    PROVE  workerHosts[h].active_containers \in Nat
BY DEF StoreTypeOK, WorkerHost

\* Every step of a submit_test handler keeps its own state and the store typed.
LEMMA SubmissionTypeStep ==
    ASSUME StoreTypeOK, SubmissionTypeOK, NEW t \in Tests, SubmissionStep(t)
    PROVE  StoreTypeOK' /\ SubmissionTypeOK'
<1> USE DEF StoreTypeOK, SubmissionTypeOK, tableVars, brokerVars
<1>0. /\ req[t] \in Request
      /\ req[t].pc \in HostChosen => req[t].host \in Hosts
      /\ \A pc \in RequestPC :
            Goto(t, pc) /\ (pc \in HostChosen => req[t].pc \in HostChosen) => SubmissionTypeOK'
  BY DEF Goto, Request
<1>1. CASE SubmitTest(t)
  <2>1. executions' \in [Tests -> TestExecution]
    BY <1>1, TouchType DEF SubmitTest, SetStatus, TestExecution, TestStatus
  <2> QED BY <1>0, <1>1, <2>1 DEF SubmitTest, RequestPC, HostChosen
<1>2. CASE DispatchNone(t)
  BY <1>0, <1>2 DEF DispatchNone, RequestPC, HostChosen
<1>3. ASSUME NEW h \in Hosts, DispatchSelect(t, h) PROVE StoreTypeOK' /\ SubmissionTypeOK'
  <2>1. Survivors(t) \subseteq Hosts
    BY DEF Survivors
  <2>2. [pc |-> "reserve", host |-> h, seen |-> workerHosts[h].active_containers,
         survivors |-> Survivors(t)] \in Request
    BY <2>1, WorkerHostActive DEF Request, RequestPC, HostChosen
  <2> QED BY <1>3, <2>2, NoneAssumption DEF DispatchSelect
<1>4. CASE DispatchError(t)
  BY <1>0, <1>4, FaultType DEF DispatchError, RequestPC, HostChosen
<1>5. CASE CommitReservation(t)
  <2>1. [req[t] EXCEPT !.pc = "publish", !.survivors = {}] \in Request
    BY <1>0 DEF Request, RequestPC, HostChosen
  <2>2. SubmissionTypeOK'
    BY <1>5, <2>1 DEF CommitReservation, HostChosen
  <2>3. req[t].seen + 1 \in Nat
    BY <1>0 DEF Request
  <2>4. workerHosts' \in [Hosts -> WorkerHost]
    BY <1>5, <2>3, ActiveType DEF CommitReservation, WriteActive
  <2> QED BY <1>5, <2>2, <2>4 DEF CommitReservation
<1>6. CASE CommitFails(t)
  <2>1. [req[t] EXCEPT !.pc = "refetch", !.survivors = {}] \in Request
    BY <1>0 DEF Request, RequestPC, HostChosen
  <2>2. SubmissionTypeOK' /\ budget' \in 0..MaxFaults
    BY <1>6, <2>1, FaultType DEF CommitFails, HostChosen
  <2>3. req[t].seen + 1 \in Nat
    BY <1>0 DEF Request
  <2>4. workerHosts' \in [Hosts -> WorkerHost]
    BY <1>6, <2>3, ActiveType DEF CommitFails, WriteActive
  <2> QED BY <1>6, <2>2, <2>4 DEF CommitFails
<1>7. CASE RefetchHost(t)
  <2>1. req[t].host \in Hosts
    BY <1>0, <1>7 DEF RefetchHost, HostChosen
  <2>2. workerHosts[req[t].host].active_containers > 0 =>
            workerHosts[req[t].host].active_containers - 1 \in Nat
    BY <2>1, WorkerHostActive
  <2>3. CASE workerHosts[req[t].host].active_containers > 0
    <3>1. [req[t] EXCEPT !.pc = "undo", !.seen = workerHosts[req[t].host].active_containers - 1]
             \in Request
      BY <1>0, <2>2, <2>3 DEF Request, RequestPC
    <3> QED BY <1>0, <1>7, <2>3, <3>1, <2>1, NoneAssumption DEF RefetchHost
  <2>4. CASE ~(workerHosts[req[t].host].active_containers > 0)
    BY <1>0, <1>7, <2>4 DEF RefetchHost, Request, RequestPC, HostChosen
  <2> QED BY <2>3, <2>4
<1>8. CASE Publish(t)
  BY <1>0, <1>8 DEF Publish, Send, Messages, Request, RequestPC, HostChosen
<1>9. CASE PublishFails(t)
  <2>1. SubmissionTypeOK' /\ budget' \in 0..MaxFaults
    BY <1>0, <1>9, FaultType DEF PublishFails, RequestPC, HostChosen
  <2>2. req[t].host \in Hosts
    BY <1>0, <1>9 DEF PublishFails, HostChosen
  <2>3. /\ queue' \in [Hosts -> SUBSET Messages]
        /\ routed' \in [Tests -> Hosts \cup {None}]
    BY <1>9, <2>2 DEF PublishFails, Send, Messages
  <2> QED BY <1>9, <2>1, <2>3 DEF PublishFails, Send
<1>10. CASE UndoReservation(t)
  <2>1. workerHosts' \in [Hosts -> WorkerHost]
    BY <1>0, <1>10, ActiveType DEF UndoReservation, WriteActive, Request
  <2> QED BY <1>0, <1>10, <2>1 DEF UndoReservation, RequestPC, HostChosen
<1>11. CASE UndoFails(t)
  BY <1>0, <1>11, FaultType DEF UndoFails, RequestPC, HostChosen
<1>12. CASE RecordDispatched(t)
  <2>1. executions' \in [Tests -> TestExecution]
    BY <1>0, <1>12, ExecutionType DEF RecordDispatched, TestStatus, HostChosen
  <2> QED BY <1>0, <1>12, <2>1 DEF RecordDispatched, RequestPC, HostChosen
<1>13. CASE RecordFailed(t)
  <2>1. executions' \in [Tests -> TestExecution]
    BY <1>13, TouchType DEF RecordFailed, SetStatus, TestExecution, TestStatus
  <2> QED BY <1>0, <1>13, <2>1 DEF RecordFailed, RequestPC, HostChosen
<1>14. CASE RecordFails(t)
  BY <1>0, <1>14, FaultType DEF RecordFails, RequestPC, HostChosen
<1> QED BY <1>1, <1>2, <1>3, <1>4, <1>5, <1>6, <1>7, <1>8, <1>9, <1>10, <1>11, <1>12,
           <1>13, <1>14 DEF SubmissionStep

\* Every step of a pool process keeps its own state and the store typed.
LEMMA StepType ==
    ASSUME TaskTypeOK, NEW p \in Procs, NEW from \in RunPC, NEW to \in RunPC, Step(p, from, to)
    PROVE  TaskTypeOK'
BY DEF TaskTypeOK, Step, Task, TaskPC, RunPC

LEMMA LeaveTaskType ==
    ASSUME StoreTypeOK, WorkerTypeOK, NEW p \in Procs, LeaveTask(p)
    PROVE  /\ TaskTypeOK'
           /\ acked' \subseteq Tests
           /\ queue' = queue /\ routed' = routed
<1>1. Idle \in Task
  BY DEF Idle, Task, TaskPC
<1>2. Idle.pc \notin RunPC /\ ~Idle.valid
  BY DEF Idle, RunPC
<1> QED BY <1>1, <1>2 DEF LeaveTask, WorkerTypeOK, TaskTypeOK, StoreTypeOK

LEMMA EndTaskType ==
    ASSUME StoreTypeOK, WorkerTypeOK, NEW p \in Procs, EndTask(p) \/ AbandonTask(p)
    PROVE  /\ TaskTypeOK'
           /\ acked' \subseteq Tests /\ abandoned' \subseteq Tests
           /\ queue' = queue /\ routed' = routed
BY LeaveTaskType DEF EndTask, AbandonTask, StoreTypeOK

LEMMA SetHereType ==
    ASSUME WorkerTypeOK, NEW p \in Procs, NEW c \in Container, SetHere(p, c)
    PROVE  container' \in [Hosts -> [Tests -> Container]]
BY DEF SetHere, WorkerTypeOK

LEMMA RunTypeStep ==
    ASSUME StoreTypeOK, WorkerTypeOK, NEW p \in Procs, RunStep(p)
    PROVE  StoreTypeOK' /\ WorkerTypeOK'
<1> USE DEF tableVars, brokerVars
<1>0. /\ TaskTypeOK
      /\ HostOf[p] \in Hosts
      /\ task[p].pc \in RunPC => Running(p) \in Tests
      /\ NoContainer \in Container
      /\ [state |-> "running", owner |-> p] \in Container
      /\ [state |-> "dead", owner |-> p] \in Container
  BY ProcsAssumption DEF WorkerTypeOK, TaskTypeOK, Running, NoContainer, Container, ContainerState
<1>1. ASSUME NEW from \in RunPC, NEW to \in RunPC, Step(p, from, to) PROVE TaskTypeOK'
  BY <1>0, <1>1, StepType
<1>2. CASE RunBegin(p)
  <2>1. executions' \in [Tests -> TestExecution]
    BY <1>0, <1>2, ExecutionType DEF RunBegin, Step, RunPC, TestStatus, StoreTypeOK
  <2>2. TaskTypeOK'
    BY <1>1, <1>2 DEF RunBegin, RunPC
  <2> QED BY <1>2, <2>1, <2>2 DEF RunBegin, StoreTypeOK, WorkerTypeOK
<1>3. CASE RunBeginFails(p)
  <2>1. executions' \in [Tests -> TestExecution]
    BY <1>0, <1>3, ExecutionType DEF RunBeginFails, RunPC, TestStatus, StoreTypeOK
  <2>2. budget' \in 0..MaxFaults
    BY <1>3, FaultType DEF RunBeginFails, StoreTypeOK
  <2> QED BY <1>3, <2>1, <2>2, EndTaskType DEF RunBeginFails, StoreTypeOK, WorkerTypeOK
<1>4. CASE RunStart(p)
  <2>1. TaskTypeOK'
    BY <1>1, <1>4 DEF RunStart, RunPC
  <2>2. container' \in [Hosts -> [Tests -> Container]]
    BY <1>0, <1>4, SetHereType DEF RunStart
  <2> QED BY <1>4, <2>1, <2>2 DEF RunStart, StoreTypeOK, WorkerTypeOK
<1>5. CASE RunStartRefused(p)
  <2>1. TaskTypeOK'
    BY <1>1, <1>5 DEF RunStartRefused, RunPC
  <2> QED BY <1>5, <2>1 DEF RunStartRefused, StoreTypeOK, WorkerTypeOK
<1>6. CASE RunStartFails(p)
  <2>1. TaskTypeOK'
    BY <1>1, <1>6 DEF RunStartFails, RunPC
  <2>2. container' \in [Hosts -> [Tests -> Container]]
    BY <1>0, <1>6, SetHereType DEF RunStartFails
  <2> QED BY <1>6, <2>1, <2>2, FaultType DEF RunStartFails, StoreTypeOK, WorkerTypeOK
<1>7. CASE StreamEnds(p)
  <2>1. [task[p] EXCEPT !.pc = "finish", !.ok = Here(p).state = "passed"] \in Task
    BY <1>0 DEF TaskTypeOK, Task, TaskPC, RunPC
  <2>2. Running(p) \in Tests
    BY <1>0, <1>7 DEF StreamEnds, RunPC
  <2>3. TaskTypeOK'
    BY <1>0, <1>7, <2>1, <2>2 DEF TaskTypeOK, StreamEnds, Running
  <2> QED BY <1>7, <2>3 DEF StreamEnds, StoreTypeOK, WorkerTypeOK
<1>8. CASE StreamBreaks(p)
  <2>1. TaskTypeOK'
    BY <1>1, <1>8 DEF StreamBreaks, RunPC
  <2> QED BY <1>8, <2>1 DEF StreamBreaks, StoreTypeOK, WorkerTypeOK
<1>9. CASE StreamFails(p) \/ RunExceptFails(p)
  <2>1. TaskTypeOK'
    BY <1>1, <1>9 DEF StreamFails, RunExceptFails, RunPC
  <2>2. budget' \in 0..MaxFaults
    BY <1>9, FaultType DEF StreamFails, RunExceptFails, StoreTypeOK
  <2> QED BY <1>9, <2>1, <2>2 DEF StreamFails, RunExceptFails, StoreTypeOK, WorkerTypeOK
<1>10. CASE RunFinish(p) \/ RunFinishFails(p) \/ RunExcept(p)
  <2>1. TaskTypeOK'
    BY <1>1, <1>10 DEF RunFinish, RunFinishFails, RunExcept, RunPC
  <2>2. executions' \in [Tests -> TestExecution]
    BY <1>0, <1>10, ExecutionType
       DEF RunFinish, RunFinishFails, RunExcept, Step, RunPC, TestStatus, StoreTypeOK
  <2>3. budget' \in 0..MaxFaults
    BY <1>10, FaultType DEF RunFinish, RunFinishFails, RunExcept, StoreTypeOK
  <2> QED BY <1>10, <2>1, <2>2, <2>3
          DEF RunFinish, RunFinishFails, RunExcept, StoreTypeOK, WorkerTypeOK
<1>11. CASE RunCleanup(p)
  <2>1. TaskTypeOK'
    BY <1>1, <1>11 DEF RunCleanup, RunPC
  <2>2. container' \in [Hosts -> [Tests -> Container]]
    BY <1>0, <1>11, SetHereType DEF RunCleanup
  <2> QED BY <1>11, <2>1, <2>2 DEF RunCleanup, StoreTypeOK, WorkerTypeOK
<1>12. CASE RunCleanupFails(p) \/ DecrementFails(p)
  BY <1>12, EndTaskType, FaultType
     DEF RunCleanupFails, DecrementFails, StoreTypeOK, WorkerTypeOK
<1>13. CASE DecrementRead(p)
  <2>1. workerHosts[HostOf[p]].active_containers - 1 \in Nat
    BY <1>0, <1>13, WorkerHostActive DEF DecrementRead
  <2>2. [task[p] EXCEPT !.pc = "store",
                        !.val = workerHosts[HostOf[p]].active_containers - 1] \in Task
    BY <1>0, <2>1 DEF TaskTypeOK, Task, TaskPC, RunPC
  <2>3. TaskTypeOK'
    BY <1>0, <1>13, <2>2 DEF TaskTypeOK, DecrementRead, Running, RunPC
  <2> QED BY <1>13, <2>3 DEF DecrementRead, StoreTypeOK, WorkerTypeOK
<1>14. CASE DecrementSkip(p)
  <2>1. TaskTypeOK'
    BY <1>1, <1>14 DEF DecrementSkip, RunPC
  <2> QED BY <1>14, <2>1 DEF DecrementSkip, StoreTypeOK, WorkerTypeOK
<1>15. CASE DecrementWrite(p)
  <2>1. TaskTypeOK'
    BY <1>1, <1>15 DEF DecrementWrite, RunPC
  <2>2. task[p].val \in Nat
    BY <1>0 DEF TaskTypeOK, Task
  <2>3. workerHosts' \in [Hosts -> WorkerHost]
    BY <1>15, <2>2, ActiveType DEF DecrementWrite, StoreTypeOK
  <2> QED BY <1>15, <2>1, <2>3 DEF DecrementWrite, StoreTypeOK, WorkerTypeOK
<1>16. CASE Acknowledge(p)
  BY <1>16, EndTaskType DEF Acknowledge, StoreTypeOK, WorkerTypeOK
<1> QED BY <1>2, <1>3, <1>4, <1>5, <1>6, <1>7, <1>8, <1>9, <1>10, <1>11, <1>12, <1>13,
           <1>14, <1>15, <1>16 DEF RunStep

LEMMA LiveTestsType ==
    ASSUME NEW h
    PROVE  Cardinality(LiveTests(h)) \in Nat
<1>1. LiveTests(h) \subseteq Tests
  BY DEF LiveTests
<1> QED BY <1>1, TestsAssumption, FS_Subset, FS_CardinalityType

LEMMA PeriodicTypeStep ==
    ASSUME StoreTypeOK, WorkerTypeOK, NEW p \in Procs, HeartbeatStep(p) \/ ReapStep(p)
    PROVE  StoreTypeOK' /\ WorkerTypeOK'
<1> USE DEF tableVars, brokerVars
<1>0. TaskTypeOK /\ HostOf[p] \in Hosts /\ task[p] \in Task
  BY ProcsAssumption DEF WorkerTypeOK, TaskTypeOK
<1>1. CASE HeartbeatCount(p) \/ HeartbeatCountFails(p)
  <2>1. PICK n \in Nat : task' = [task EXCEPT ![p].pc = "beat", ![p].val = n]
    <3>1. CASE HeartbeatCount(p)
      BY <3>1, LiveTestsType DEF HeartbeatCount
    <3>2. CASE HeartbeatCountFails(p)
      <4>1. (IF HostOf[p] \in registered
             THEN workerHosts[HostOf[p]].active_containers ELSE 0) \in Nat
        BY <1>0, WorkerHostActive
      <4> QED BY <3>2, <4>1 DEF HeartbeatCountFails
    <3> QED BY <1>1, <3>1, <3>2
  <2>2. [task[p] EXCEPT !.pc = "beat", !.val = n] \in Task
    BY <1>0 DEF Task, TaskPC
  <2>3. TaskTypeOK'
    BY <1>0, <2>1, <2>2 DEF TaskTypeOK, RunPC
  <2>4. budget' \in 0..MaxFaults
    BY <1>1, FaultType DEF HeartbeatCount, HeartbeatCountFails, StoreTypeOK
  <2> QED BY <1>1, <2>3, <2>4
          DEF HeartbeatCount, HeartbeatCountFails, StoreTypeOK, WorkerTypeOK
<1>2. ASSUME NEW cpu \in CpuLevels, HeartbeatWrite(p, cpu)
      PROVE  StoreTypeOK' /\ WorkerTypeOK'
  <2>1. task[p].val \in Nat /\ cpu \in Nat
    BY <1>0, CpuAssumption DEF Task
  <2>2. workerHosts' \in [Hosts -> WorkerHost]
    <3>1. [workerHosts[HostOf[p]] EXCEPT !.is_online = TRUE, !.active_containers = task[p].val,
              !.cpu_utilization = cpu, !.last_heartbeat = 0] \in WorkerHost
      <4>1. workerHosts[HostOf[p]] \in WorkerHost
        BY <1>0 DEF StoreTypeOK
      <4>2. 0 \in 0..HeartbeatTimeout + 1
        BY TimingAssumption
      <4> QED BY <2>1, <4>1, <4>2 DEF WorkerHost
    <3> QED BY <1>2, <3>1 DEF HeartbeatWrite, StoreTypeOK
  <2> QED BY <1>0, <1>2, <2>2, EndTaskType DEF HeartbeatWrite, StoreTypeOK, WorkerTypeOK
<1>3. CASE HeartbeatFails(p) \/ ReapFails(p)
  BY <1>3, EndTaskType, FaultType DEF HeartbeatFails, ReapFails, StoreTypeOK, WorkerTypeOK
<1>4. CASE ReapScan(p)
  <2>1. StuckRuns(HostOf[p]) \subseteq Tests
    BY DEF StuckRuns
  <2>2. [task[p] EXCEPT !.pc = "reap", !.rows = StuckRuns(HostOf[p])] \in Task
    BY <1>0, <2>1 DEF Task, TaskPC
  <2>3. TaskTypeOK'
    BY <1>0, <1>4, <2>2 DEF TaskTypeOK, ReapScan, RunPC
  <2> QED BY <1>4, <2>3 DEF ReapScan, StoreTypeOK, WorkerTypeOK
<1>5. CASE ReapWrite(p)
  <2>1. executions' \in [Tests -> TestExecution]
    BY <1>5, FailRowsType DEF ReapWrite, StoreTypeOK
  <2> QED BY <1>5, <2>1, EndTaskType DEF ReapWrite, StoreTypeOK, WorkerTypeOK
<1> QED BY <1>1, <1>2, <1>3, <1>4, <1>5 DEF HeartbeatStep, ReapStep

\* Deliveries, and what happens to a host and its containers.
LEMMA DeliverType ==
    ASSUME StoreTypeOK, WorkerTypeOK, NEW p \in Procs, NEW m \in Messages, Deliver(p, m)
    PROVE  StoreTypeOK' /\ WorkerTypeOK'
<1> DEFINE T == [Idle EXCEPT !.pc = FirstPC(m), !.msg = m, !.valid = TRUE]
<1>1. /\ T \in Task
      /\ T.pc \in RunPC => m \in Tests
      /\ T.msg = m /\ m # None /\ T.pc # "idle"
  <2>1. /\ FirstPC(m) \in TaskPC
        /\ FirstPC(m) \in RunPC => m \in Tests
        /\ FirstPC(m) # "idle" /\ m # None
    BY NoneAssumption, NamesAssumption DEF TaskPC, RunPC, FirstPC, Messages, BeatTasks
  <2>2. Idle \in Task /\ DOMAIN Idle = {"pc", "msg", "valid", "ok", "val", "rows"}
    BY DEF Idle, Task, TaskPC
  <2>3. T \in Task
    BY <2>1, <2>2 DEF Task
  <2>4. T.msg = m /\ T.pc = FirstPC(m)
    BY <2>2
  <2> QED BY <2>1, <2>3, <2>4
<1>2. HostOf[p] \in Hosts
  BY ProcsAssumption
<1>3. TaskTypeOK'
  BY <1>1 DEF Deliver, WorkerTypeOK, TaskTypeOK
<1> QED BY <1>2, <1>3 DEF Deliver, StoreTypeOK, WorkerTypeOK, tableVars

\* What the broker requeues are messages.
LEMMA RequeueType ==
    ASSUME StoreTypeOK, WorkerTypeOK, NEW h \in Hosts, Requeue(h)
    PROVE  queue' \in [Hosts -> SUBSET Messages] /\ UNCHANGED <<routed, acked, abandoned>>
<1>1. Unacked(h) \subseteq Messages
  BY DEF Unacked, WorkerTypeOK, TaskTypeOK, Task
<1> QED BY <1>1 DEF Requeue, StoreTypeOK

LEMMA HostTypeStep ==
    ASSUME StoreTypeOK, WorkerTypeOK, NEW h \in Hosts, HostStep(h)
    PROVE  StoreTypeOK' /\ WorkerTypeOK'
<1> USE DEF tableVars, brokerVars, workerVars
<1>1. ASSUME NEW k \in Beats, Beat(h, k) PROVE StoreTypeOK' /\ WorkerTypeOK'
  BY <1>1, BeatsAssumption DEF Beat, StoreTypeOK, WorkerTypeOK, TaskTypeOK, Messages
<1>2. ASSUME NEW t \in Tests, ContainerExits(h, t) PROVE StoreTypeOK' /\ WorkerTypeOK'
  <2>1. PICK s \in {"passed", "dead"} : container' = [container EXCEPT ![h][t].state = s]
    BY <1>2 DEF ContainerExits
  <2>2. container[h][t] \in Container
    BY DEF WorkerTypeOK
  <2>3. [container[h][t] EXCEPT !.state = s] \in Container
    BY <2>2 DEF Container, ContainerState
  <2>4. container' \in [Hosts -> [Tests -> Container]]
    BY <2>1, <2>3 DEF WorkerTypeOK
  <2> QED BY <1>2, <2>4 DEF ContainerExits, StoreTypeOK, WorkerTypeOK, TaskTypeOK
<1>3. CASE Crash(h)
  <2>1. Idle \in Task /\ Idle.pc \notin RunPC /\ ~Idle.valid
    BY DEF Idle, Task, TaskPC, RunPC
  <2>2. TaskTypeOK'
    BY <1>3, <2>1 DEF Crash, WorkerTypeOK, TaskTypeOK
  <2>3. ASSUME NEW t \in Tests PROVE [container[h][t] EXCEPT !.owner = None] \in Container
    BY DEF WorkerTypeOK, Container
  <2>4. container' \in [Hosts -> [Tests -> Container]]
    BY <1>3, <2>3 DEF Crash, WorkerTypeOK
  <2> QED BY <1>3, <2>2, <2>4, FaultType, RequeueType DEF Crash, StoreTypeOK, WorkerTypeOK
<1>4. CASE Restart(h)
  BY <1>4 DEF Restart, StoreTypeOK, WorkerTypeOK, TaskTypeOK
<1>5. CASE ConnectionLost(h)
  <2>1. ASSUME NEW p \in Procs
        PROVE  /\ [task[p] EXCEPT !.valid = FALSE] \in Task
               /\ task[p] \in Task
    BY DEF WorkerTypeOK, TaskTypeOK, Task
  <2>2. TaskTypeOK'
    BY <1>5, <2>1 DEF ConnectionLost, WorkerTypeOK, TaskTypeOK, Task
  <2> QED BY <1>5, <2>2, FaultType, RequeueType DEF ConnectionLost, StoreTypeOK, WorkerTypeOK
<1> QED BY <1>1, <1>2, <1>3, <1>4, <1>5 DEF HostStep

LEMMA ProcessDiesType ==
    ASSUME StoreTypeOK, WorkerTypeOK, NEW p \in Procs, ProcessDies(p)
    PROVE  StoreTypeOK' /\ WorkerTypeOK'
<1>1. HostOf[p] \in Hosts
  BY ProcsAssumption
<1>2. ASSUME NEW t \in Tests
      PROVE  /\ container[HostOf[p]][t] \in Container
             /\ [container[HostOf[p]][t] EXCEPT !.owner = None] \in Container
  BY <1>1 DEF WorkerTypeOK, Container
<1>3. container' \in [Hosts -> [Tests -> Container]]
  BY <1>1, <1>2 DEF ProcessDies, WorkerTypeOK
<1> QED BY <1>3, EndTaskType, FaultType DEF ProcessDies, StoreTypeOK, WorkerTypeOK, tableVars

-----------------------------------------------------------------------------
LEMMA MaintenanceTypeStep ==
    ASSUME StoreTypeOK, MaintenanceTypeOK, MaintenanceNext
    PROVE  StoreTypeOK' /\ MaintenanceTypeOK'
<1> USE DEF tableVars, brokerVars, StoreTypeOK, MaintenanceTypeOK
<1>1. SweepIdle \in Sweep
  BY DEF SweepIdle, Sweep
<1>2. CASE SweepRead
  <2>1. StaleHosts \subseteq Hosts
    BY DEF StaleHosts
  <2>2. [pc |-> "mark", hosts |-> StaleHosts, rows |-> {}] \in Sweep
    BY <2>1 DEF Sweep
  <2> QED BY <1>2, <2>2 DEF SweepRead
<1>3. CASE SweepMark
  <2>1. \A h \in Hosts : [workerHosts[h] EXCEPT !.is_online = FALSE] \in WorkerHost
    BY DEF WorkerHost
  <2>2. [sweep EXCEPT !.pc = "query"] \in Sweep
    BY DEF Sweep
  <2> QED BY <1>3, <2>1, <2>2 DEF SweepMark
<1>4. CASE SweepQuery
  <2>1. OrphanedRuns(sweep.hosts) \subseteq Tests
    BY DEF OrphanedRuns
  <2>2. [sweep EXCEPT !.pc = "fail", !.rows = OrphanedRuns(sweep.hosts)] \in Sweep
    BY <2>1 DEF Sweep
  <2> QED BY <1>4, <2>2 DEF SweepQuery
<1>5. CASE SweepFail
  BY <1>1, <1>5, FailRowsType DEF SweepFail
<1>6. CASE SweepAborts
  BY <1>1, <1>6, FaultType DEF SweepAborts
<1> QED BY <1>2, <1>3, <1>4, <1>5, <1>6 DEF MaintenanceNext

LEMMA TickType ==
    ASSUME TypeOK, Tick
    PROVE  TypeOK'
<1>1. \A h \in Hosts :
        [workerHosts[h] EXCEPT !.last_heartbeat = Older(@, HeartbeatTimeout)] \in WorkerHost
  BY TimingAssumption, OlderType DEF TypeOK, StoreTypeOK, WorkerHost
<1>2. \A t \in Tests :
        [executions[t] EXCEPT !.updated_at = Older(@, ReapAfter)] \in TestExecution
  BY TimingAssumption, OlderType DEF TypeOK, StoreTypeOK, TestExecution
<1>3. StoreTypeOK'
  BY <1>1, <1>2 DEF Tick, TypeOK, StoreTypeOK, brokerVars
<1> QED BY <1>3 DEF Tick, TypeOK, SubmissionTypeOK, WorkerTypeOK, TaskTypeOK,
                    MaintenanceTypeOK, workerVars

LEMMA BackendCrashType ==
    ASSUME TypeOK, BackendCrash
    PROVE  TypeOK'
<1>1. \A t \in Tests : [req[t] EXCEPT !.pc = "lost", !.survivors = {}] \in Request
  BY DEF TypeOK, SubmissionTypeOK, Request, RequestPC
<1>2. SubmissionTypeOK'
  BY <1>1 DEF BackendCrash, TypeOK, SubmissionTypeOK, HostChosen, Request
<1>3. StoreTypeOK'
  BY FaultType DEF BackendCrash, TypeOK, StoreTypeOK, brokerVars
<1>4. MaintenanceTypeOK'
  BY DEF BackendCrash, MaintenanceTypeOK, SweepIdle, Sweep
<1> QED BY <1>2, <1>3, <1>4 DEF BackendCrash, TypeOK, WorkerTypeOK, TaskTypeOK, workerVars

LEMMA UpdateHostType ==
    ASSUME StoreTypeOK, NEW e \in AdminEdits, UpdateHost(e)
    PROVE  StoreTypeOK'
<1>1. e.host_id \in Hosts /\ e.hardware_tags \subseteq Tags
      /\ e.supports_emulation \in BOOLEAN /\ AtLeastOne(e.max_containers) \in Nat \ {0}
  BY AdminAssumption DEF AdminEdit, AtLeastOne
<1>2. [workerHosts[e.host_id] EXCEPT !.hardware_tags = e.hardware_tags,
          !.supports_emulation = e.supports_emulation,
          !.max_containers = AtLeastOne(e.max_containers)] \in WorkerHost
  BY <1>1 DEF StoreTypeOK, WorkerHost
<1>3. workerHosts' = [workerHosts EXCEPT ![e.host_id] =
          [@ EXCEPT !.hardware_tags = e.hardware_tags,
                    !.supports_emulation = e.supports_emulation,
                    !.max_containers = AtLeastOne(e.max_containers)]]
  BY <1>1 DEF UpdateHost, StoreTypeOK
<1> QED BY <1>1, <1>2, <1>3 DEF UpdateHost, StoreTypeOK, brokerVars

LEMMA InitType == Init => TypeOK
<1> SUFFICES ASSUME Init PROVE TypeOK
  OBVIOUS
<1>1. StoreTypeOK
  BY DefaultMaxAssumption, TimingAssumption, FaultsAssumption
     DEF Init, StoreInit, StoreTypeOK, WorkerHost, TestExecution
<1>2. SubmissionTypeOK
  BY DEF Init, SubmissionInit, SubmissionTypeOK, Request, RequestPC, HostChosen
<1>3. WorkerTypeOK
  BY DEF Init, WorkerInit, WorkerTypeOK, TaskTypeOK, Idle, Task, TaskPC, RunPC,
         NoContainer, Container, ContainerState
<1>4. MaintenanceTypeOK
  BY DEF Init, MaintenanceInit, MaintenanceTypeOK, SweepIdle, Sweep
<1> QED BY <1>1, <1>2, <1>3, <1>4 DEF TypeOK

LEMMA NextType == TypeOK /\ [Next]_vars => TypeOK'
<1> SUFFICES ASSUME TypeOK, [Next]_vars PROVE TypeOK'
  OBVIOUS
<1> USE DEF TypeOK
<1>1. ASSUME NEW t \in Tests, SubmissionStep(t), UNCHANGED <<workerVars, sweep>> PROVE TypeOK'
  BY <1>1, SubmissionTypeStep DEF workerVars, WorkerTypeOK, TaskTypeOK, MaintenanceTypeOK
<1>2. ASSUME NEW e \in AdminEdits, UpdateHost(e), UNCHANGED <<workerVars, sweep>> PROVE TypeOK'
  BY <1>2, UpdateHostType
     DEF UpdateHost, workerVars, SubmissionTypeOK, WorkerTypeOK, TaskTypeOK, MaintenanceTypeOK
<1>3. ASSUME MaintenanceNext, UNCHANGED <<req, workerVars>> PROVE TypeOK'
  BY <1>3, MaintenanceTypeStep DEF workerVars, SubmissionTypeOK, WorkerTypeOK, TaskTypeOK
<1>4. CASE BackendCrash
  BY <1>4, BackendCrashType
<1>5. ASSUME WorkerNext, UNCHANGED <<req, sweep>> PROVE TypeOK'
  <2>1. StoreTypeOK' /\ WorkerTypeOK'
    BY <1>5, DeliverType, RunTypeStep, PeriodicTypeStep, ProcessDiesType, HostTypeStep
       DEF WorkerNext
  <2> QED BY <1>5, <2>1 DEF SubmissionTypeOK, MaintenanceTypeOK
<1>6. CASE Tick
  BY <1>6, TickType
<1>7. CASE UNCHANGED vars
  BY <1>7 DEF vars, tableVars, brokerVars, workerVars, StoreTypeOK, SubmissionTypeOK,
              WorkerTypeOK, TaskTypeOK, MaintenanceTypeOK
<1> QED BY <1>1, <1>2, <1>3, <1>4, <1>5, <1>6, <1>7 DEF Next, BackendNext

\* Every reachable state is well typed; in particular the counter of a host,
\* which heartbeats, undos and decrements overwrite in any order, is never
\* negative, and every queued or unacknowledged item is a message.
THEOREM TypeCorrect == Spec => []TypeOK
<1> QED BY InitType, NextType, PTL DEF Spec
==============================================================================
