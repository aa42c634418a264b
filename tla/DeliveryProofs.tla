--------------------------- MODULE DeliveryProofs ----------------------------
(****************************************************************************)
(* ExactlyOneCopy and ActiveRunsAreFindable: where a test's message is, and *)
(* how that ties the row of the run to its host, through every fault.       *)
(****************************************************************************)
EXTENDS TypeProofs

\* Before its handler has sent it, a message has not been routed.
UnsentUnrouted ==
    \A t \in Tests : req[t].pc \in {"new", "select", "reserve", "publish"} => 
        routed[t] = None /\ t \notin acked

DeliveryInv == UnsentUnrouted /\ ExactlyOneCopy

\* What ExactlyOneCopy says of one test, before and after a step.
Copy(t) ==
    /\ Live(t) => t \in queue[routed[t]] \/ \E q \in Procs : Holds(q, t)
    /\ \A h \in Hosts : t \in queue[h] =>
          Live(t) /\ h = routed[t] /\ \A q \in Procs : ~Holds(q, t)
    /\ \A q \in Procs : Holds(q, t) =>
          Live(t) /\ HostOf[q] = routed[t] /\ \A r \in Procs : Holds(r, t) => r = q

CopyNext(t) ==
    /\ Live(t)' => t \in queue'[routed'[t]] \/ \E q \in Procs : Holds(q, t)'
    /\ \A h \in Hosts : t \in queue'[h] =>
          Live(t)' /\ h = routed'[t] /\ \A q \in Procs : ~Holds(q, t)'
    /\ \A q \in Procs : Holds(q, t)' =>
          Live(t)' /\ HostOf[q] = routed'[t] /\ \A r \in Procs : Holds(r, t)' => r = q

\* A test whose message a step does not move.
LEMMA CopyStays ==
    ASSUME NEW t \in Tests, Copy(t), routed'[t] = routed[t], Live(t)' <=> Live(t),
           Live(t) => routed[t] \in Hosts,
           \A h \in Hosts : t \in queue'[h] <=> t \in queue[h],
           \A q \in Procs : Holds(q, t)' <=> Holds(q, t)
    PROVE  CopyNext(t)
<1>1. ASSUME Live(t)' PROVE t \in queue'[routed'[t]] \/ \E q \in Procs : Holds(q, t)'
  BY <1>1 DEF Copy
<1>2. ASSUME NEW h \in Hosts, t \in queue'[h]
      PROVE  Live(t)' /\ h = routed'[t] /\ \A q \in Procs : ~Holds(q, t)'
  BY <1>2 DEF Copy
<1>3. ASSUME NEW q \in Procs, Holds(q, t)'
      PROVE  Live(t)' /\ HostOf[q] = routed'[t] /\ \A r \in Procs : Holds(r, t)' => r = q
  BY <1>3 DEF Copy
<1> QED BY <1>1, <1>2, <1>3 DEF CopyNext

LEMMA CopyOf == ASSUME DeliveryInv, NEW t \in Tests PROVE Copy(t)
BY DEF DeliveryInv, ExactlyOneCopy, Copy

\* A step that leaves the broker's records and every valid delivery alone.
LEMMA SameDeliveries ==
    ASSUME DeliveryInv, UNCHANGED brokerVars,
           \A q \in Procs, t \in Tests : Holds(q, t)' <=> Holds(q, t)
    PROVE  ExactlyOneCopy'
<1>1. \A t \in Tests : Live(t)' <=> Live(t)
  BY DEF Live, brokerVars
<1> QED BY <1>1 DEF DeliveryInv, ExactlyOneCopy, brokerVars

LEMMA SameTasks ==
    ASSUME DeliveryInv, UNCHANGED brokerVars, task' = task
    PROVE  ExactlyOneCopy'
BY SameDeliveries DEF Holds

\* A task that ends is acknowledged and gone, or was not anyone's to acknowledge.
LEMMA LeaveTaskDelivery ==
    ASSUME TypeOK, DeliveryInv, NEW p \in Procs, LeaveTask(p)
    PROVE  ExactlyOneCopy'
<1> SUFFICES ASSUME NEW t \in Tests PROVE
        /\ Live(t)' => t \in queue[routed[t]] \/ \E q \in Procs : Holds(q, t)'
        /\ \A h \in Hosts : t \in queue[h] =>
              Live(t)' /\ h = routed[t] /\ \A q \in Procs : ~Holds(q, t)'
        /\ \A q \in Procs : Holds(q, t)' =>
              Live(t)' /\ HostOf[q] = routed[t] /\ \A r \in Procs : Holds(r, t)' => r = q
  BY DEF ExactlyOneCopy, LeaveTask
<1>1. \A q \in Procs : Holds(q, t)' <=> q # p /\ Holds(q, t)
  BY DEF Holds, LeaveTask, Idle, TypeOK, WorkerTypeOK, TaskTypeOK
<1>2. CASE Holds(p, t)
  <2>1. t \in acked'
    BY <1>2 DEF LeaveTask, Holds
  <2>2. \A q \in Procs : ~Holds(q, t)'
    BY <1>1, <1>2 DEF DeliveryInv, ExactlyOneCopy
  <2>3. \A h \in Hosts : t \notin queue[h]
    BY <1>2 DEF DeliveryInv, ExactlyOneCopy
  <2> QED BY <2>1, <2>2, <2>3 DEF Live
<1>3. CASE ~Holds(p, t)
  <2>1. Live(t)' <=> Live(t)
    BY <1>3 DEF Live, LeaveTask, Holds
  <2> QED BY <1>1, <1>3, <2>1 DEF DeliveryInv, ExactlyOneCopy
<1> QED BY <1>2, <1>3

LEMMA DeliverDelivery ==
    ASSUME TypeOK, DeliveryInv, NEW p \in Procs, NEW m \in Messages, Deliver(p, m)
    PROVE  ExactlyOneCopy'
<1> DEFINE h0 == HostOf[p]
<1>0. /\ h0 \in Hosts /\ m \in queue[h0] /\ UNCHANGED <<routed, acked>>
      /\ \A h \in Hosts, t \in Tests :
            t \in queue'[h] <=> t \in queue[h] /\ ~(h = h0 /\ t = m)
      /\ ~task[p].valid
  BY ProcsAssumption DEF Deliver, TypeOK, StoreTypeOK, WorkerTypeOK, TaskTypeOK
<1>1. \A q \in Procs, t \in Tests : Holds(q, t)' <=> Holds(q, t) \/ (q = p /\ t = m)
  <2>1. \A q \in Procs : q # p => task'[q] = task[q]
    BY DEF Deliver, TypeOK, WorkerTypeOK, TaskTypeOK
  <2>2. task'[p] = [Idle EXCEPT !.pc = FirstPC(m), !.msg = m, !.valid = TRUE]
    BY DEF Deliver, TypeOK, WorkerTypeOK, TaskTypeOK
  <2>3. task'[p].msg = m /\ task'[p].valid = TRUE
    BY <2>2 DEF Idle
  <2> QED BY <1>0, <2>1, <2>3 DEF Holds
<1>2. ASSUME NEW t \in Tests PROVE CopyNext(t)
  <2>1. /\ Live(t)' <=> Live(t)
        /\ Live(t) => routed[t] \in Hosts
    BY <1>0 DEF Live, TypeOK, StoreTypeOK
  <2> USE <1>0, <1>1, <2>1, CopyOf DEF Copy
  <2>2. CASE t = m
    <3>1. /\ Live(t) /\ h0 = routed[t]
          /\ \A q \in Procs : ~Holds(q, t)
      BY <2>2
    <3>2. \A q \in Procs : Holds(q, t)' <=> q = p
      BY <2>2, <3>1
    <3>3. \A h \in Hosts : t \notin queue'[h]
      BY <2>2, <3>1
    <3> QED BY <3>1, <3>2, <3>3 DEF CopyNext
  <2>3. CASE t # m
    <3>1. \A q \in Procs : Holds(q, t)' <=> Holds(q, t)
      BY <2>3
    <3>2. \A h \in Hosts : t \in queue'[h] <=> t \in queue[h]
      BY <2>3
    <3> QED BY <3>1, <3>2, CopyStays
  <2> QED BY <2>2, <2>3
<1> QED BY <1>2 DEF ExactlyOneCopy, CopyNext

LEMMA PublishDelivery ==
    ASSUME TypeOK, DeliveryInv, NEW t0 \in Tests, req[t0].pc = "publish", Send(t0),
           UNCHANGED task
    PROVE  ExactlyOneCopy'
<1> DEFINE h0 == req[t0].host
<1>0. /\ h0 \in Hosts /\ h0 # None /\ acked' = acked
      /\ \A h \in Hosts, t \in Tests :
            t \in queue'[h] <=> t \in queue[h] \/ (h = h0 /\ t = t0)
      /\ \A t \in Tests : routed'[t] = IF t = t0 THEN h0 ELSE routed[t]
      /\ t0 \notin acked /\ routed[t0] = None
  BY NoneAssumption
     DEF Send, TypeOK, StoreTypeOK, SubmissionTypeOK, Request, HostChosen, DeliveryInv,
         UnsentUnrouted
<1>1. \A q \in Procs, t \in Tests : Holds(q, t)' <=> Holds(q, t)
  BY DEF Holds
<1>2. ASSUME NEW t \in Tests PROVE CopyNext(t)
  <2> USE <1>0, <1>1, CopyOf DEF Copy
  <2>1. CASE t = t0
    <3>1. ~Live(t) /\ Live(t)'
      BY <2>1 DEF Live
    <3>2. \A h \in Hosts : t \in queue'[h] <=> h = h0
      BY <2>1, <3>1
    <3>3. \A q \in Procs : ~Holds(q, t)'
      BY <3>1
    <3>4. routed'[t] = h0
      BY <2>1
    <3> QED BY <3>1, <3>2, <3>3, <3>4 DEF CopyNext
  <2>2. CASE t # t0
    <3>1. /\ Live(t)' <=> Live(t)
          /\ Live(t) => routed[t] \in Hosts
          /\ routed'[t] = routed[t]
      BY <2>2 DEF Live, TypeOK, StoreTypeOK
    <3>2. \A h \in Hosts : t \in queue'[h] <=> t \in queue[h]
      BY <2>2
    <3>3. \A q \in Procs : Holds(q, t)' <=> Holds(q, t)
      OBVIOUS
    <3> QED BY <3>1, <3>2, <3>3, CopyStays
  <2> QED BY <2>1, <2>2
<1> QED BY <1>2 DEF ExactlyOneCopy, CopyNext

\* A crash or a lost connection of h0: what its processes held is queued again.
LEMMA RequeueDelivery ==
    ASSUME TypeOK, DeliveryInv, NEW h0 \in Hosts, Requeue(h0),
           \A q \in Procs, t \in Tests : Holds(q, t)' <=> HostOf[q] # h0 /\ Holds(q, t)
    PROVE  ExactlyOneCopy'
<1>0. /\ UNCHANGED <<routed, acked>>
      /\ \A h \in Hosts, t \in Tests :
            t \in queue'[h] <=> t \in queue[h] \/ (h = h0 /\ t \in Unacked(h0))
  BY DEF Requeue, TypeOK, StoreTypeOK
<1>1. \A t \in Tests : t \in Unacked(h0) <=> \E q \in Procs : HostOf[q] = h0 /\ Holds(q, t)
  BY DEF Unacked, Holds
<1>2. ASSUME NEW t \in Tests PROVE CopyNext(t)
  <2>1. /\ Live(t)' <=> Live(t)
        /\ Live(t) => routed[t] \in Hosts
    BY <1>0 DEF Live, TypeOK, StoreTypeOK
  <2> USE <1>0, <1>1, <2>1, CopyOf DEF Copy
  <2>2. CASE t \in Unacked(h0)
    <3>1. PICK p \in Procs : HostOf[p] = h0 /\ Holds(p, t)
      BY <2>2
    <3>2. Live(t) /\ routed[t] = h0 /\ \A r \in Procs : Holds(r, t) => r = p
      BY <3>1
    <3>3. \A q \in Procs : ~Holds(q, t)'
      BY <3>1, <3>2
    <3>4. \A h \in Hosts : t \in queue'[h] <=> h = h0
      BY <2>2, <3>1, <3>2
    <3> QED BY <3>2, <3>3, <3>4 DEF CopyNext
  <2>3. CASE t \notin Unacked(h0)
    <3>1. \A q \in Procs : Holds(q, t)' <=> Holds(q, t)
      BY <2>3
    <3>2. \A h \in Hosts : t \in queue'[h] <=> t \in queue[h]
      BY <2>3
    <3> QED BY <3>1, <3>2, CopyStays
  <2> QED BY <2>2, <2>3
<1> QED BY <1>2 DEF ExactlyOneCopy, CopyNext

-----------------------------------------------------------------------------
TaskStep(p) == RunStep(p) \/ HeartbeatStep(p) \/ ReapStep(p) \/ ProcessDies(p)

\* A step of a pool process either keeps its delivery or is the end of its task.
LEMMA RunKeepsDelivery ==
    ASSUME TypeOK, NEW p \in Procs, TaskStep(p), ~LeaveTask(p)
    PROVE  /\ UNCHANGED brokerVars
           /\ \A q \in Procs : task'[q].msg = task[q].msg /\ task'[q].valid = task[q].valid
<1>0. task \in [Procs -> Task]
  BY DEF TypeOK, WorkerTypeOK, TaskTypeOK
<1> DEFINE Kept == \A q \in Procs : task'[q].msg = task[q].msg /\ task'[q].valid = task[q].valid
<1>1. ASSUME NEW from, NEW to, Step(p, from, to) PROVE Kept
  BY <1>0, <1>1 DEF Step, Task
<1>2. CASE RunBegin(p) \/ RunStart(p) \/ RunStartRefused(p) \/ RunStartFails(p)
           \/ StreamBreaks(p) \/ StreamFails(p) \/ RunFinish(p) \/ RunFinishFails(p)
           \/ RunExcept(p) \/ RunExceptFails(p) \/ RunCleanup(p)
           \/ DecrementSkip(p) \/ DecrementWrite(p)
  <2>1. UNCHANGED brokerVars
    BY <1>2 DEF RunBegin, RunStart, RunStartRefused, RunStartFails, StreamBreaks, StreamFails,
                RunFinish, RunFinishFails, RunExcept, RunExceptFails, RunCleanup,
                DecrementSkip, DecrementWrite
  <2>2. \E from, to : Step(p, from, to)
    BY <1>2 DEF RunBegin, RunStart, RunStartRefused, RunStartFails, StreamBreaks, StreamFails,
                RunFinish, RunFinishFails, RunExcept, RunExceptFails, RunCleanup,
                DecrementSkip, DecrementWrite
  <2> QED BY <1>1, <2>1, <2>2
<1>3. CASE StreamEnds(p) \/ DecrementRead(p)
  BY <1>0, <1>3 DEF StreamEnds, DecrementRead, Task
<1>4. CASE HeartbeatCount(p) \/ HeartbeatCountFails(p) \/ ReapScan(p)
  BY <1>0, <1>4 DEF HeartbeatCount, HeartbeatCountFails, ReapScan, Task
<1>5. ~(\/ RunBeginFails(p) \/ RunCleanupFails(p) \/ DecrementFails(p) \/ Acknowledge(p)
        \/ HeartbeatFails(p) \/ ReapWrite(p) \/ ReapFails(p) \/ ProcessDies(p)
        \/ \E cpu \in CpuLevels : HeartbeatWrite(p, cpu))
  BY DEF RunBeginFails, RunCleanupFails, DecrementFails, Acknowledge, HeartbeatFails,
         ReapWrite, ReapFails, HeartbeatWrite, ProcessDies, EndTask, AbandonTask
<1> QED BY <1>2, <1>3, <1>4, <1>5 DEF TaskStep, RunStep, HeartbeatStep, ReapStep

\* No worker step routes or unroutes a message.
LEMMA WorkerRouted ==
    ASSUME TypeOK, WorkerNext
    PROVE  routed' = routed
<1>1. ASSUME NEW p \in Procs, TaskStep(p)
      PROVE  routed' = routed
  <2>1. CASE LeaveTask(p)
    BY <2>1 DEF LeaveTask
  <2>2. CASE ~LeaveTask(p)
    BY <1>1, <2>2, RunKeepsDelivery DEF brokerVars
  <2> QED BY <2>1, <2>2
<1>2. ASSUME NEW p \in Procs, NEW m \in Messages, Deliver(p, m) PROVE routed' = routed
  BY <1>2 DEF Deliver
<1>3. ASSUME NEW h \in Hosts, HostStep(h) PROVE routed' = routed
  BY <1>3 DEF HostStep, Beat, ContainerExits, Crash, Restart, ConnectionLost, Requeue,
              brokerVars
<1> QED BY <1>1, <1>2, <1>3 DEF WorkerNext, TaskStep

LEMMA WorkerDelivery ==
    ASSUME TypeOK, DeliveryInv, WorkerNext
    PROVE  ExactlyOneCopy'
<1>0. task \in [Procs -> Task]
  BY DEF TypeOK, WorkerTypeOK, TaskTypeOK
<1>1. ASSUME NEW p \in Procs, NEW m \in Messages, Deliver(p, m) PROVE ExactlyOneCopy'
  BY <1>1, DeliverDelivery
<1>2. ASSUME NEW p \in Procs, TaskStep(p)
      PROVE  ExactlyOneCopy'
  <2>1. CASE LeaveTask(p)
    BY <2>1, LeaveTaskDelivery
  <2>2. CASE ~LeaveTask(p)
    BY <1>2, <2>2, RunKeepsDelivery, SameDeliveries DEF Holds
  <2> QED BY <2>1, <2>2
<1>3. ASSUME NEW h \in Hosts, HostStep(h) PROVE ExactlyOneCopy'
  <2>1. ASSUME NEW k \in Beats, Beat(h, k) PROVE ExactlyOneCopy'
    <3>1. \A g \in Hosts, t \in Tests : t \in queue'[g] <=> t \in queue[g]
      BY <2>1, BeatsAssumption, NamesAssumption DEF Beat, TypeOK, StoreTypeOK
    <3>2. /\ UNCHANGED <<routed, acked, task>>
          /\ \A t \in Tests : Live(t) => routed[t] \in Hosts
      BY <2>1 DEF Beat, workerVars, Live, TypeOK, StoreTypeOK
    <3>3. ASSUME NEW t \in Tests PROVE CopyNext(t)
      BY <3>1, <3>2, CopyOf, CopyStays DEF Live, Holds
    <3> QED BY <3>3 DEF ExactlyOneCopy, CopyNext
  <2>2. ASSUME NEW t \in Tests, ContainerExits(h, t) PROVE ExactlyOneCopy'
    BY <2>2, SameTasks DEF ContainerExits
  <2>3. CASE Crash(h)
    <3>1. \A q \in Procs, t \in Tests : Holds(q, t)' <=> HostOf[q] # h /\ Holds(q, t)
      BY <2>3 DEF Crash, Holds, Idle
    <3> QED BY <2>3, <3>1, RequeueDelivery DEF Crash
  <2>4. CASE Restart(h)
    BY <2>4, SameTasks DEF Restart
  <2>5. CASE ConnectionLost(h)
    <3>1. \A q \in Procs, t \in Tests : Holds(q, t)' <=> HostOf[q] # h /\ Holds(q, t)
      BY <1>0, <2>5 DEF ConnectionLost, Holds, Task
    <3> QED BY <2>5, <3>1, RequeueDelivery DEF ConnectionLost
  <2> QED BY <1>3, <2>1, <2>2, <2>3, <2>4, <2>5 DEF HostStep
<1> QED BY <1>1, <1>2, <1>3 DEF WorkerNext, TaskStep

\* Only a test somebody holds is acknowledged.
LEMMA AckedHeld ==
    ASSUME TypeOK, DeliveryInv, WorkerNext, NEW t \in Tests, t \in acked', t \notin acked
    PROVE  Live(t)
<1>1. ASSUME NEW p \in Procs, TaskStep(p) PROVE Live(t)
  <2>1. LeaveTask(p)
    BY <1>1, RunKeepsDelivery DEF brokerVars
  <2>2. Holds(p, t)
    BY <2>1 DEF LeaveTask, Holds
  <2> QED BY <2>2, CopyOf DEF Copy
<1>2. ASSUME NEW p \in Procs, NEW m \in Messages, Deliver(p, m) PROVE Live(t)
  BY <1>2 DEF Deliver
<1>3. ASSUME NEW h \in Hosts, HostStep(h) PROVE Live(t)
  BY <1>3 DEF HostStep, Beat, ContainerExits, Crash, Restart, ConnectionLost, Requeue,
              brokerVars
<1> QED BY <1>1, <1>2, <1>3 DEF WorkerNext, TaskStep

LEMMA SubmissionDelivery ==
    ASSUME TypeOK, DeliveryInv, NEW t \in Tests, SubmissionStep(t), UNCHANGED workerVars
    PROVE  DeliveryInv'
<1> USE DEF tableVars, workerVars
<1>1. CASE (Publish(t) \/ PublishFails(t)) /\ Send(t)
  <2>1. UnsentUnrouted'
    BY <1>1 DEF Publish, PublishFails, Send, Goto, DeliveryInv, UnsentUnrouted, TypeOK,
                StoreTypeOK, SubmissionTypeOK, Request
  <2>2. req[t].pc = "publish"
    BY <1>1 DEF Publish, PublishFails
  <2> QED BY <1>1, <2>1, <2>2, PublishDelivery DEF DeliveryInv
<1>2. CASE ~Publish(t) /\ ~(PublishFails(t) /\ Send(t))
  <2>1. UNCHANGED brokerVars
    BY <1>2 DEF SubmissionStep, SubmitTest, DispatchNone, DispatchSelect, DispatchError,
                CommitReservation, CommitFails, RefetchHost, PublishFails, UndoReservation,
                UndoFails, RecordDispatched, RecordFailed, RecordFails
  <2>2. \A u \in Tests : req'[u].pc \in {"new", "select", "reserve", "publish"} =>
                         req[u].pc \in {"new", "select", "reserve", "publish"}
    <3>1. req \in [Tests -> Request]
      BY DEF TypeOK, SubmissionTypeOK
    <3>2. CASE RefetchHost(t) \/ UndoFails(t) \/ UndoReservation(t) \/ RecordDispatched(t)
               \/ RecordFailed(t) \/ RecordFails(t)
      BY <3>1, <3>2 DEF RefetchHost, UndoFails, UndoReservation, RecordDispatched,
                        RecordFailed, RecordFails, Goto, Request
    <3>3. CASE SubmitTest(t) \/ DispatchNone(t) \/ DispatchError(t) \/ CommitReservation(t)
               \/ CommitFails(t) \/ PublishFails(t) \/ \E h \in Hosts : DispatchSelect(t, h)
      BY <3>1, <3>3 DEF SubmitTest, DispatchNone, DispatchError, CommitReservation,
                        CommitFails, PublishFails, DispatchSelect, Goto, Request
    <3> QED BY <1>2, <3>2, <3>3 DEF SubmissionStep
  <2> QED BY <2>1, <2>2, SameTasks DEF DeliveryInv, UnsentUnrouted, brokerVars
<1> QED BY <1>1, <1>2 DEF Publish

LEMMA NextDelivery == TypeOK /\ DeliveryInv /\ [Next]_vars => DeliveryInv'
<1> SUFFICES ASSUME TypeOK, DeliveryInv, [Next]_vars PROVE DeliveryInv'
  OBVIOUS
<1> USE DEF workerVars
<1>0. UNCHANGED <<req, brokerVars, task>> => DeliveryInv'
  BY SameTasks DEF DeliveryInv, UnsentUnrouted, brokerVars
<1>1. ASSUME NEW t \in Tests, SubmissionStep(t), UNCHANGED workerVars PROVE DeliveryInv'
  BY <1>1, SubmissionDelivery
<1>2. ASSUME NEW e \in AdminEdits, UpdateHost(e), UNCHANGED workerVars PROVE DeliveryInv'
  BY <1>0, <1>2 DEF UpdateHost
<1>3. ASSUME MaintenanceNext, UNCHANGED <<req, workerVars>> PROVE DeliveryInv'
  BY <1>0, <1>3 DEF MaintenanceNext, SweepRead, SweepMark, SweepQuery, SweepFail, SweepAborts
<1>4. CASE BackendCrash
  <2>1. \A t \in Tests : req'[t].pc \in {"new", "select", "reserve", "publish"} =>
                         req[t].pc = "new"
    BY <1>4 DEF BackendCrash, TypeOK, SubmissionTypeOK, Request
  <2> QED BY <1>4, <2>1, SameTasks DEF BackendCrash, DeliveryInv, UnsentUnrouted, brokerVars
<1>5. ASSUME WorkerNext, UNCHANGED req PROVE DeliveryInv'
  BY <1>5, WorkerDelivery, WorkerRouted, AckedHeld DEF DeliveryInv, UnsentUnrouted, Live
<1>6. CASE Tick
  BY <1>0, <1>6 DEF Tick
<1>7. CASE UNCHANGED vars
  BY <1>0, <1>7 DEF vars
<1> QED BY <1>1, <1>2, <1>3, <1>4, <1>5, <1>6, <1>7 DEF Next, BackendNext

LEMMA InitDelivery == Init => DeliveryInv
<1> SUFFICES ASSUME Init PROVE DeliveryInv
  OBVIOUS
<1>1. \A t \in Tests, p \in Procs : ~Holds(p, t)
  BY DEF Init, WorkerInit, Idle, Holds
<1> QED BY <1>1 DEF Init, StoreInit, SubmissionInit, DeliveryInv, UnsentUnrouted,
                    ExactlyOneCopy, Live

\* Late acknowledgement (task_acks_late) neither loses nor duplicates a test's
\* message at the broker, through any interleaving of crashes, restarts, lost
\* connections and failing tasks, on any number of hosts and processes.
THEOREM NothingLostOrDuplicated == Spec => []ExactlyOneCopy
<1>1. DeliveryInv => ExactlyOneCopy
  BY DEF DeliveryInv
<1> QED BY <1>1, InitDelivery, NextDelivery, TypeCorrect, PTL DEF Spec

-----------------------------------------------------------------------------
\* Whoever knows a routed message knows where it went: a process that works on
\* a test, and a handler about to record DISPATCHED.
TaskRouted == \A p \in Procs : task[p].msg \in Tests => routed[task[p].msg] = HostOf[p]
RequestRouted == \A t \in Tests : req[t].pc = "record" => routed[t] = req[t].host

RoutedInv == TaskRouted /\ RequestRouted /\ ActiveRunsAreFindable

\* What a status update does to the active rows: one that sets a status outside
\* ActiveStates makes no row active, one that sets RUNNING or DISPATCHED names
\* the host with it.
LEMMA RowsSettle ==
    ASSUME TypeOK, RoutedInv, routed' = routed,
           \/ UNCHANGED executions
           \/ \E t \in Tests, s \in {"PENDING", "PASSED", "FAILED"} : SetStatus(t, s)
           \/ \E rows \in SUBSET Tests : FailRows(rows)
    PROVE  ActiveRunsAreFindable'
<1>1. ASSUME NEW t \in Tests, executions'[t].status \in ActiveStates
      PROVE  /\ executions[t].status \in ActiveStates
             /\ executions'[t].target_host_id = executions[t].target_host_id
  <2>1. executions \in [Tests -> TestExecution]
    BY DEF TypeOK, StoreTypeOK
  <2>2. CASE \E u \in Tests, s \in {"PENDING", "PASSED", "FAILED"} : SetStatus(u, s)
    BY <1>1, <2>1, <2>2 DEF SetStatus, Touch, ActiveStates, TestExecution
  <2>3. CASE \E rows \in SUBSET Tests : FailRows(rows)
    BY <1>1, <2>1, <2>3 DEF FailRows, Touch, ActiveStates, TestExecution
  <2> QED BY <1>1, <2>2, <2>3
<1> QED BY <1>1 DEF RoutedInv, ActiveRunsAreFindable

LEMMA RowsActivated ==
    ASSUME TypeOK, RoutedInv, routed' = routed, NEW t \in Tests, NEW h \in Hosts,
           routed[t] = h, NEW s \in ActiveStates, SetStatusOn(t, s, h)
    PROVE  ActiveRunsAreFindable'
<1>1. executions \in [Tests -> TestExecution]
  BY DEF TypeOK, StoreTypeOK
<1>2. executions'[t].target_host_id = h
  BY <1>1 DEF SetStatusOn, Touch, TestExecution
<1>3. \A u \in Tests : u # t => executions'[u] = executions[u]
  BY <1>1 DEF SetStatusOn
<1>4. h # None
  BY NoneAssumption
<1> QED BY <1>2, <1>3, <1>4 DEF RoutedInv, ActiveRunsAreFindable

LEMMA WorkerRows ==
    ASSUME TypeOK, RoutedInv, WorkerNext
    PROVE  ActiveRunsAreFindable'
<1>0. routed' = routed
  BY WorkerRouted
<1>1. ASSUME NEW p \in Procs, RunBegin(p) \/ RunBeginFails(p) PROVE ActiveRunsAreFindable'
  <2>1. Running(p) \in Tests
    BY <1>1 DEF RunBegin, RunBeginFails, Step, Running, TypeOK, WorkerTypeOK, TaskTypeOK, RunPC
  <2>2. routed[Running(p)] = HostOf[p] /\ HostOf[p] \in Hosts
    BY <2>1, ProcsAssumption DEF RoutedInv, TaskRouted, Running
  <2>3. SetStatusOn(Running(p), "RUNNING", HostOf[p]) \/ UNCHANGED executions
    BY <1>1 DEF RunBegin, RunBeginFails
  <2> QED BY <1>0, <2>1, <2>2, <2>3, RowsActivated, RowsSettle DEF ActiveStates
<1>2. ASSUME NEW p \in Procs, RunFinish(p) \/ RunFinishFails(p) \/ RunExcept(p)
      PROVE  ActiveRunsAreFindable'
  <2>1. Running(p) \in Tests
    BY <1>2 DEF RunFinish, RunFinishFails, RunExcept, Step, Running, TypeOK, WorkerTypeOK,
                TaskTypeOK, RunPC
  <2>2. \/ UNCHANGED executions
        \/ SetStatus(Running(p), "PASSED") \/ SetStatus(Running(p), "FAILED")
    BY <1>2 DEF RunFinish, RunFinishFails, RunExcept
  <2> QED BY <1>0, <2>1, <2>2, RowsSettle
<1>3. ASSUME NEW p \in Procs, ReapWrite(p) PROVE ActiveRunsAreFindable'
  <2>1. task[p].rows \in SUBSET Tests
    BY DEF TypeOK, WorkerTypeOK, TaskTypeOK, Task
  <2> QED BY <1>0, <1>3, <2>1, RowsSettle DEF ReapWrite
<1>4. ASSUME NEW p \in Procs, TaskStep(p),
             ~RunBegin(p), ~RunBeginFails(p), ~RunFinish(p), ~RunFinishFails(p),
             ~RunExcept(p), ~ReapWrite(p)
      PROVE  UNCHANGED executions
  BY <1>4 DEF TaskStep, RunStep, HeartbeatStep, ReapStep, ProcessDies, tableVars, RunStart,
              RunStartRefused, RunStartFails, StreamEnds, StreamBreaks, StreamFails,
              RunExceptFails, RunCleanup, RunCleanupFails, DecrementRead,
              DecrementSkip, DecrementFails, DecrementWrite, Acknowledge, HeartbeatCount,
              HeartbeatCountFails, HeartbeatWrite, HeartbeatFails, ReapScan, ReapFails
<1>5. ASSUME NEW p \in Procs, NEW m \in Messages, Deliver(p, m) PROVE UNCHANGED executions
  BY <1>5 DEF Deliver, tableVars
<1>6. ASSUME NEW h \in Hosts, HostStep(h) PROVE UNCHANGED executions
  BY <1>6 DEF HostStep, Beat, ContainerExits, Crash, Restart, ConnectionLost, tableVars
<1> QED BY <1>0, <1>1, <1>2, <1>3, <1>4, <1>5, <1>6, RowsSettle DEF WorkerNext, TaskStep

LEMMA WorkerTaskRouted ==
    ASSUME TypeOK, DeliveryInv, RoutedInv, WorkerNext
    PROVE  TaskRouted'
<1>0. routed' = routed /\ task \in [Procs -> Task]
  BY WorkerRouted DEF TypeOK, WorkerTypeOK, TaskTypeOK
<1>1. (\A q \in Procs : task'[q].msg \in {task[q].msg, None}) => TaskRouted'
  BY <1>0, NoneAssumption DEF RoutedInv, TaskRouted, Messages
<1>2. ASSUME NEW p \in Procs, TaskStep(p) PROVE TaskRouted'
  <2>1. CASE LeaveTask(p)
    BY <1>0, <1>1, <2>1 DEF LeaveTask, Idle
  <2>2. CASE ~LeaveTask(p)
    BY <1>1, <1>2, <2>2, RunKeepsDelivery
  <2> QED BY <2>1, <2>2
<1>3. ASSUME NEW p \in Procs, NEW m \in Messages, Deliver(p, m) PROVE TaskRouted'
  <2>1. task'[p].msg = m /\ \A q \in Procs : q # p => task'[q] = task[q]
    BY <1>0, <1>3 DEF Deliver, Idle
  <2>2. m \in Tests => routed[m] = HostOf[p]
    BY <1>3, ProcsAssumption, CopyOf DEF Deliver, Copy
  <2> QED BY <1>0, <2>1, <2>2 DEF RoutedInv, TaskRouted
<1>4. ASSUME NEW h \in Hosts, HostStep(h) PROVE TaskRouted'
  <2>1. CASE Crash(h)
    BY <1>0, <1>1, <2>1 DEF Crash, Idle
  <2>2. CASE ConnectionLost(h)
    BY <1>0, <1>1, <2>2 DEF ConnectionLost, Task
  <2>3. CASE (\E k \in Beats : Beat(h, k)) \/ (\E t \in Tests : ContainerExits(h, t)) \/ Restart(h)
    BY <1>1, <2>3 DEF Beat, ContainerExits, Restart, workerVars
  <2> QED BY <1>4, <2>1, <2>2, <2>3 DEF HostStep
<1> QED BY <1>2, <1>3, <1>4 DEF WorkerNext, TaskStep

LEMMA SubmissionRouted ==
    ASSUME TypeOK, DeliveryInv, RoutedInv, NEW t \in Tests, SubmissionStep(t),
           UNCHANGED workerVars
    PROVE  RoutedInv'
<1>0. req \in [Tests -> Request] /\ routed \in [Tests -> Hosts \cup {None}]
  BY DEF TypeOK, SubmissionTypeOK, StoreTypeOK
<1>1. CASE (Publish(t) \/ PublishFails(t)) /\ Send(t)
  <2>1. routed[t] = None
    BY <1>1 DEF Publish, PublishFails, DeliveryInv, UnsentUnrouted
  <2>2. /\ routed'[t] = req[t].host /\ req'[t].host = req[t].host
        /\ \A u \in Tests : u # t => routed'[u] = routed[u] /\ req'[u] = req[u]
    BY <1>0, <1>1 DEF Publish, PublishFails, Send, Goto, Request
  <2>3. TaskRouted'
    BY <2>1, <2>2, NoneAssumption, ProcsAssumption DEF RoutedInv, TaskRouted, workerVars
  <2>4. RequestRouted'
    BY <2>2 DEF RoutedInv, RequestRouted
  <2>5. ActiveRunsAreFindable'
    BY <1>1, <2>1, <2>2 DEF Publish, PublishFails, tableVars, RoutedInv, ActiveRunsAreFindable
  <2> QED BY <2>3, <2>4, <2>5 DEF RoutedInv
<1>2. CASE RecordDispatched(t)
  <2>1. /\ routed' = routed /\ routed[t] = req[t].host /\ req[t].host \in Hosts
        /\ SetStatusOn(t, "DISPATCHED", req[t].host)
    BY <1>0, <1>2 DEF RecordDispatched, brokerVars, RoutedInv, RequestRouted, Request,
                      TypeOK, SubmissionTypeOK, HostChosen
  <2>2. ActiveRunsAreFindable'
    BY <2>1, RowsActivated DEF ActiveStates
  <2>3. RequestRouted'
    BY <1>0, <1>2, <2>1 DEF RecordDispatched, Goto, RoutedInv, RequestRouted
  <2> QED BY <2>1, <2>2, <2>3 DEF RoutedInv, TaskRouted, workerVars
<1>3. CASE ~Publish(t) /\ ~(PublishFails(t) /\ Send(t)) /\ ~RecordDispatched(t)
  <2>1. UNCHANGED brokerVars
    BY <1>3 DEF SubmissionStep, tableVars, SubmitTest, DispatchNone, DispatchSelect,
                DispatchError, CommitReservation, CommitFails, RefetchHost, PublishFails,
                UndoReservation, UndoFails, RecordFailed, RecordFails
  <2>2. \/ UNCHANGED executions
        \/ \E s \in {"PENDING", "PASSED", "FAILED"} : SetStatus(t, s)
    BY <1>3 DEF SubmissionStep, tableVars, SubmitTest, DispatchNone, DispatchSelect,
                DispatchError, CommitReservation, CommitFails, RefetchHost, PublishFails,
                UndoReservation, UndoFails, RecordFailed, RecordFails
  <2>3. ActiveRunsAreFindable'
    BY <2>1, <2>2, RowsSettle DEF brokerVars
  <2>4. \A u \in Tests : req'[u].pc = "record" => req'[u] = req[u]
    <3>1. CASE RefetchHost(t) \/ UndoFails(t) \/ UndoReservation(t)
               \/ RecordFailed(t) \/ RecordFails(t)
      BY <1>0, <3>1 DEF RefetchHost, UndoFails, UndoReservation, RecordFailed, RecordFails,
                        Goto, Request
    <3>2. CASE SubmitTest(t) \/ DispatchNone(t) \/ DispatchError(t) \/ CommitReservation(t)
               \/ CommitFails(t) \/ PublishFails(t) \/ \E h \in Hosts : DispatchSelect(t, h)
      BY <1>0, <3>2 DEF SubmitTest, DispatchNone, DispatchError, CommitReservation,
                        CommitFails, PublishFails, DispatchSelect, Goto, Request
    <3> QED BY <1>3, <3>1, <3>2 DEF SubmissionStep
  <2>5. RequestRouted'
    BY <2>1, <2>4 DEF RoutedInv, RequestRouted, brokerVars
  <2> QED BY <2>1, <2>3, <2>5 DEF RoutedInv, TaskRouted, brokerVars, workerVars
<1> QED BY <1>1, <1>2, <1>3 DEF Publish

LEMMA NextRouted == TypeOK /\ DeliveryInv /\ RoutedInv /\ [Next]_vars => RoutedInv'
<1> SUFFICES ASSUME TypeOK, DeliveryInv, RoutedInv, [Next]_vars PROVE RoutedInv'
  OBVIOUS
<1> USE DEF workerVars
<1>0. UNCHANGED <<executions, req, brokerVars, task>> => RoutedInv'
  BY DEF RoutedInv, TaskRouted, RequestRouted, ActiveRunsAreFindable, brokerVars
<1>1. ASSUME NEW t \in Tests, SubmissionStep(t), UNCHANGED workerVars PROVE RoutedInv'
  BY <1>1, SubmissionRouted
<1>2. ASSUME NEW e \in AdminEdits, UpdateHost(e), UNCHANGED workerVars PROVE RoutedInv'
  BY <1>0, <1>2 DEF UpdateHost
<1>3. ASSUME MaintenanceNext, UNCHANGED <<req, workerVars>> PROVE RoutedInv'
  <2>1. CASE SweepFail
    <3>1. sweep.rows \in SUBSET Tests /\ routed' = routed
      BY <2>1 DEF SweepFail, brokerVars, TypeOK, MaintenanceTypeOK, Sweep
    <3>2. ActiveRunsAreFindable'
      BY <2>1, <3>1, RowsSettle DEF SweepFail
    <3> QED BY <1>3, <3>1, <3>2 DEF RoutedInv, TaskRouted, RequestRouted
  <2>2. CASE SweepRead \/ SweepMark \/ SweepQuery \/ SweepAborts
    BY <1>0, <1>3, <2>2 DEF SweepRead, SweepMark, SweepQuery, SweepAborts, tableVars
  <2> QED BY <1>3, <2>1, <2>2 DEF MaintenanceNext
<1>4. CASE BackendCrash
  <2>1. \A t \in Tests : req'[t].pc = "record" => FALSE
    BY <1>4 DEF BackendCrash, TypeOK, SubmissionTypeOK, Request
  <2> QED BY <1>4, <2>1 DEF BackendCrash, RoutedInv, TaskRouted, RequestRouted,
                            ActiveRunsAreFindable, brokerVars
<1>5. ASSUME WorkerNext, UNCHANGED req PROVE RoutedInv'
  BY <1>5, WorkerRows, WorkerTaskRouted, WorkerRouted DEF RoutedInv, RequestRouted
<1>6. CASE Tick
  <2>1. \A t \in Tests : /\ executions'[t].status = executions[t].status
                         /\ executions'[t].target_host_id = executions[t].target_host_id
    BY <1>6 DEF Tick, TypeOK, StoreTypeOK, TestExecution
  <2> QED BY <1>6, <2>1 DEF Tick, RoutedInv, TaskRouted, RequestRouted,
                            ActiveRunsAreFindable, brokerVars
<1>7. CASE UNCHANGED vars
  BY <1>0, <1>7 DEF vars, tableVars
<1> QED BY <1>1, <1>2, <1>3, <1>4, <1>5, <1>6, <1>7 DEF Next, BackendNext

LEMMA InitRouted == Init => RoutedInv
<1> SUFFICES ASSUME Init PROVE RoutedInv
  OBVIOUS
<1> QED BY NoneAssumption DEF Init, StoreInit, SubmissionInit, WorkerInit, Idle, Messages,
           RoutedInv, TaskRouted, RequestRouted, ActiveRunsAreFindable, ActiveStates

\* Whoever writes DISPATCHED or RUNNING into the row of a run (the submit
\* handler or run_test_bundle, in either order) names the host its message was
\* published to, so the sweep and the reaper of that host can find the run.
THEOREM ActiveRunsNameTheirHost == Spec => []ActiveRunsAreFindable
<1>1. RoutedInv => ActiveRunsAreFindable
  BY DEF RoutedInv
<1> QED BY <1>1, InitDelivery, NextDelivery, InitRouted, NextRouted, TypeCorrect, PTL DEF Spec
==============================================================================
