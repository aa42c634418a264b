--------------------------- MODULE ContainerProofs ----------------------------
(****************************************************************************)
(* What is left behind by a run that was disturbed: no container without    *)
(* somebody to remove it (ContainersCovered), no row saying RUNNING without *)
(* somebody to write the verdict (RunningIsAttended), except those of a     *)
(* test whose task ended without its except and finally: its process died   *)
(* alone, or its preamble raised.                                           *)
(*                                                                          *)
(* Beyond these the code leaves a container behind in two ways: the removal *)
(* in the finally block fails (docker), and a worker whose first copy runs  *)
(* on with a delivery nobody will give back dies (crash after connloss).    *)
(* NoAbandoningFaults excludes exactly these; TLC finds ContainersCovered   *)
(* violated when either is let in.  NoOrphaningFaults, below, is the same   *)
(* for rows.                                                                *)
(****************************************************************************)
EXTENDS DeliveryProofs

\* A lost connection voids deliveries; where a crash is possible too, it was
\* the one fault of the instance.
NoCrashAfterLoss == "crash" \in Faults /\ "connloss" \in Faults => MaxFaults <= 1

NoAbandoningFaults == "docker" \notin Faults /\ NoCrashAfterLoss

\* Where a process is that has, or may have, a container of its own to remove,
\* and where one is that has none yet.
Inside == {"stream", "finish", "except", "cleanup"}
Before == {"begin", "start"}

Attended(h, t) ==
    \E p \in Procs : HostOf[p] = h /\ task[p].msg = t /\ task[p].pc \in Inside

Expected(h, t) ==
    \/ t \in queue[h]
    \/ \E p \in Procs : HostOf[p] = h /\ task[p].msg = t /\ task[p].pc \in Before

\* A container nobody attends to was left behind by a crash, and a delivery
\* that will find it is on its way.
Accounted ==
    \A h \in Hosts, t \in Tests :
        container[h][t].state # "none" =>
            Attended(h, t) \/ Expected(h, t) \/ t \in abandoned

\* Until the first crash every delivery a process works on can still be
\* acknowledged, so the crash gives it back to the queue.
CrashGivesBack ==
    "crash" \in Faults /\ budget > 0 =>
        \A p \in Procs : task[p].msg # None => task[p].valid

ContainerInv == Accounted /\ CrashGivesBack

LEMMA AccountedIsCovered == ContainerInv => ContainersCovered
BY DEF ContainerInv, Accounted, Attended, Expected, ContainersCovered, WillCleanUp,
       Inside, Before

-----------------------------------------------------------------------------
\* Faults are only ever used up.
Spent == budget' = budget \/ (budget > 0 /\ budget' = budget - 1)

LEMMA FaultSpends == ASSUME NEW k, Fault(k) PROVE Spent
BY DEF Fault, Spent

LEMMA BudgetWasLeft ==
    ASSUME TypeOK, Spent, budget' > 0
    PROVE  budget > 0
BY FaultsAssumption DEF Spent, TypeOK, StoreTypeOK

LEMMA DeliverSpends ==
    ASSUME NEW p \in Procs, NEW m \in Messages, Deliver(p, m) PROVE Spent
BY DEF Deliver, Spent

LEMMA HostSpends ==
    ASSUME NEW h \in Hosts, HostStep(h) PROVE Spent
BY FaultSpends DEF HostStep, Beat, ContainerExits, Crash, Restart, ConnectionLost, Spent

LEMMA RunSpends ==
    ASSUME NEW p \in Procs, RunStep(p) PROVE Spent
<1>1. CASE RunBegin(p) \/ RunStart(p) \/ RunStartRefused(p) \/ StreamEnds(p)
           \/ StreamBreaks(p) \/ RunFinish(p) \/ RunExcept(p) \/ RunCleanup(p)
           \/ DecrementRead(p) \/ DecrementSkip(p) \/ DecrementWrite(p) \/ Acknowledge(p)
  BY <1>1 DEF RunBegin, RunStart, RunStartRefused, StreamEnds, StreamBreaks, RunFinish,
              RunExcept, RunCleanup, DecrementRead, DecrementSkip, DecrementWrite,
              Acknowledge, Spent
<1>2. CASE RunBeginFails(p) \/ RunStartFails(p) \/ StreamFails(p) \/ RunFinishFails(p)
           \/ RunExceptFails(p) \/ RunCleanupFails(p) \/ DecrementFails(p)
  BY <1>2, FaultSpends DEF RunBeginFails, RunStartFails, StreamFails, RunFinishFails,
                           RunExceptFails, RunCleanupFails, DecrementFails
<1> QED BY <1>1, <1>2 DEF RunStep

LEMMA PeriodicSpends ==
    ASSUME NEW p \in Procs, HeartbeatStep(p) \/ ReapStep(p) \/ ProcessDies(p) PROVE Spent
BY FaultSpends
   DEF HeartbeatStep, HeartbeatCount, HeartbeatCountFails, HeartbeatWrite, HeartbeatFails,
       ReapStep, ReapScan, ReapWrite, ReapFails, ProcessDies, Spent

LEMMA BackendSpends ==
    ASSUME BackendNext \/ Tick \/ UNCHANGED vars PROVE Spent
<1>1. ASSUME NEW t \in Tests, SubmissionStep(t) PROVE Spent
  BY <1>1, FaultSpends
     DEF SubmissionStep, SubmitTest, DispatchNone, DispatchSelect, DispatchError,
         CommitReservation, CommitFails, RefetchHost, Publish, PublishFails,
         UndoReservation, UndoFails, RecordDispatched, RecordFailed, RecordFails, Spent
<1>2. CASE (\E e \in AdminEdits : UpdateHost(e)) \/ Tick \/ UNCHANGED vars
  BY <1>2 DEF UpdateHost, Tick, vars, Spent
<1>3. CASE MaintenanceNext
  BY <1>3, FaultSpends DEF MaintenanceNext, SweepRead, SweepMark, SweepQuery, SweepFail,
                           SweepAborts, Spent
<1>4. CASE BackendCrash
  BY <1>4, FaultSpends DEF BackendCrash
<1> QED BY <1>1, <1>2, <1>3, <1>4 DEF BackendNext

LEMMA NextSpends == [Next]_vars => Spent
BY DeliverSpends, HostSpends, RunSpends, PeriodicSpends, BackendSpends DEF Next, WorkerNext

\* A test once abandoned stays so.
LEMMA NextAbandons == [Next]_vars => abandoned \subseteq abandoned'
<1> SUFFICES ASSUME [Next]_vars PROVE abandoned \subseteq abandoned'
  OBVIOUS
<1>1. ASSUME NEW p \in Procs, TaskStep(p) PROVE abandoned \subseteq abandoned'
  BY <1>1 DEF TaskStep, RunStep, HeartbeatStep, ReapStep, ProcessDies, AbandonTask, EndTask,
              brokerVars, RunBegin, RunBeginFails, RunStart, RunStartRefused, RunStartFails,
              StreamEnds, StreamBreaks, StreamFails, RunFinish, RunFinishFails, RunExcept,
              RunExceptFails, RunCleanup, RunCleanupFails, DecrementRead, DecrementSkip,
              DecrementFails, DecrementWrite, Acknowledge, HeartbeatCount,
              HeartbeatCountFails, HeartbeatWrite, HeartbeatFails, ReapScan, ReapWrite,
              ReapFails
<1>2. ASSUME WorkerNext, ~\E p \in Procs : TaskStep(p) PROVE UNCHANGED abandoned
  BY <1>2 DEF WorkerNext, TaskStep, Deliver, HostStep, Beat, ContainerExits, Crash, Requeue,
              Restart, ConnectionLost, brokerVars
<1>3. ASSUME NEW t \in Tests, SubmissionStep(t) PROVE UNCHANGED abandoned
  BY <1>3 DEF SubmissionStep, SubmitTest, DispatchNone, DispatchSelect, DispatchError,
              CommitReservation, CommitFails, RefetchHost, Send, Publish, PublishFails,
              UndoReservation, UndoFails, RecordDispatched, RecordFailed, RecordFails,
              brokerVars
<1>4. CASE Tick \/ UNCHANGED vars
  BY <1>4 DEF Tick, vars, brokerVars
<1>5. CASE BackendNext
  BY <1>3, <1>5 DEF BackendNext, UpdateHost, MaintenanceNext, SweepRead, SweepMark,
                    SweepQuery, SweepFail, SweepAborts, BackendCrash, brokerVars
<1> QED BY <1>1, <1>2, <1>4, <1>5 DEF Next

LEMMA NextGivesBack ==
    NoCrashAfterLoss /\ TypeOK /\ CrashGivesBack /\ [Next]_vars => CrashGivesBack'
<1> SUFFICES ASSUME NoCrashAfterLoss, TypeOK, CrashGivesBack, [Next]_vars,
                    "crash" \in Faults, budget' > 0
             PROVE  \A q \in Procs : task'[q].msg # None => task'[q].valid
  BY DEF CrashGivesBack
<1>0. /\ task \in [Procs -> Task] /\ budget > 0
      /\ \A q \in Procs : task[q].msg # None => task[q].valid
  BY NextSpends, BudgetWasLeft DEF CrashGivesBack, TypeOK, WorkerTypeOK, TaskTypeOK
<1> DEFINE Good == \A q \in Procs : task'[q].msg # None => task'[q].valid
<1>1. ASSUME NEW p \in Procs, NEW m \in Messages, Deliver(p, m) PROVE Good
  <2>1. /\ task'[p] = [Idle EXCEPT !.pc = FirstPC(m), !.msg = m, !.valid = TRUE]
        /\ \A q \in Procs : q # p => task'[q] = task[q]
    BY <1>0, <1>1 DEF Deliver
  <2> QED BY <1>0, <2>1 DEF Idle
<1>2. ASSUME NEW p \in Procs, TaskStep(p) PROVE Good
  <2>1. CASE LeaveTask(p)
    BY <1>0, <2>1 DEF LeaveTask, Idle
  <2>2. CASE ~LeaveTask(p)
    BY <1>0, <1>2, <2>2, RunKeepsDelivery
  <2> QED BY <2>1, <2>2
<1>3. ASSUME NEW h \in Hosts, HostStep(h) PROVE Good
  <2>1. ~ConnectionLost(h)
    BY FaultsAssumption DEF ConnectionLost, Fault, NoCrashAfterLoss, TypeOK, StoreTypeOK
  <2>2. CASE Crash(h)
    BY <1>0, <2>2 DEF Crash, Idle
  <2>3. CASE UNCHANGED task
    BY <1>0, <2>3
  <2> QED BY <1>3, <2>1, <2>2, <2>3 DEF HostStep, Beat, ContainerExits, Restart, workerVars
<1>4. CASE BackendNext \/ Tick \/ UNCHANGED vars
  <2>1. UNCHANGED task
    BY <1>4 DEF BackendNext, BackendCrash, Tick, vars, workerVars
  <2> QED BY <1>0, <2>1
<1> QED BY <1>1, <1>2, <1>3, <1>4 DEF Next, WorkerNext, TaskStep

-----------------------------------------------------------------------------
\* A step that creates no container and neither stops a process short of its
\* cleanup nor loses what is on its way.
LEMMA AccountsStay ==
    ASSUME TypeOK, ContainerInv, abandoned \subseteq abandoned',
           \A h \in Hosts, t \in Tests :
              container'[h][t].state # "none" => container[h][t].state # "none",
           \A h \in Hosts, t \in Tests : Attended(h, t) => Attended(h, t)',
           \A h \in Hosts, t \in Tests : Expected(h, t) => Attended(h, t)' \/ Expected(h, t)'
    PROVE  Accounted'
BY DEF ContainerInv, Accounted

\* A process that goes on with its task, or ends one that is past the cleanup
\* or periodic.
LEMMA GoingOnAccounts ==
    ASSUME TypeOK, ContainerInv, abandoned \subseteq abandoned', NEW p \in Procs,
           task' = [task EXCEPT ![p] = task'[p]],
           \/ /\ task'[p].pc = "idle"
              /\ task[p].pc \notin Before \cup Inside
           \/ /\ task'[p].msg = task[p].msg /\ task'[p].valid = task[p].valid
              /\ task[p].pc # "idle"
              /\ task[p].pc \in Before => task'[p].pc \in Before \cup Inside
              /\ task[p].pc \in Inside => task'[p].pc \in Inside,
           UNCHANGED <<queue, container>>
    PROVE  Accounted'
<1>1. \A q \in Procs : q # p => task'[q] = task[q]
  BY DEF TypeOK, WorkerTypeOK, TaskTypeOK
<1>2. ASSUME NEW h \in Hosts, NEW t \in Tests, Attended(h, t) PROVE Attended(h, t)'
  <2>1. PICK q \in Procs : HostOf[q] = h /\ task[q].msg = t /\ task[q].pc \in Inside
    BY <1>2 DEF Attended
  <2>2. CASE q = p
    BY <2>1, <2>2 DEF Attended
  <2>3. CASE q # p
    BY <1>1, <2>1, <2>3 DEF Attended
  <2> QED BY <2>2, <2>3
<1>3. ASSUME NEW h \in Hosts, NEW t \in Tests, Expected(h, t)
      PROVE  Attended(h, t)' \/ Expected(h, t)'
  <2>1. CASE t \in queue[h]
    BY <2>1 DEF Expected
  <2>2. CASE \E q \in Procs : HostOf[q] = h /\ task[q].msg = t /\ task[q].pc \in Before
    <3>1. PICK q \in Procs : HostOf[q] = h /\ task[q].msg = t /\ task[q].pc \in Before
      BY <2>2
    <3>2. CASE q = p
      BY <3>1, <3>2 DEF Expected, Attended
    <3>3. CASE q # p
      BY <1>1, <3>1, <3>3 DEF Expected
    <3> QED BY <3>2, <3>3
  <2> QED BY <1>3, <2>1, <2>2 DEF Expected
<1> QED BY <1>2, <1>3, AccountsStay

\* The preamble raises, or the process dies alone: its own test is abandoned,
\* and nothing changes for the others.
LEMMA AbandonAccounts ==
    ASSUME TypeOK, ContainerInv, abandoned \subseteq abandoned', NEW p \in Procs,
           RunBeginFails(p) \/ ProcessDies(p)
    PROVE  Accounted'
<1>1. /\ \A q \in Procs : q # p => task'[q] = task[q]
      /\ task[p].msg \in Tests => task[p].msg \in abandoned'
      /\ UNCHANGED queue
  BY DEF RunBeginFails, ProcessDies, AbandonTask, LeaveTask, TypeOK, WorkerTypeOK, TaskTypeOK
<1>2. \A h \in Hosts, t \in Tests : container'[h][t].state = container[h][t].state
  <2>1. CASE RunBeginFails(p)
    BY <2>1 DEF RunBeginFails
  <2>2. CASE ProcessDies(p)
    <3>1. /\ container \in [Hosts -> [Tests -> Container]]
          /\ container' = [container EXCEPT ![HostOf[p]] = [t \in Tests |->
                LET c == container[HostOf[p]][t]
                IN  IF c.owner = p THEN [c EXCEPT !.owner = None] ELSE c]]
      BY <2>2 DEF ProcessDies, TypeOK, WorkerTypeOK
    <3> QED BY <3>1 DEF Container
  <2> QED BY <2>1, <2>2
<1> SUFFICES ASSUME NEW h \in Hosts, NEW t \in Tests, container'[h][t].state # "none",
                    t \notin abandoned'
             PROVE  Attended(h, t)' \/ Expected(h, t)'
  BY DEF Accounted
<1>3. Attended(h, t) \/ Expected(h, t)
  BY <1>2 DEF ContainerInv, Accounted
<1>4. CASE t \in queue[h]
  BY <1>1, <1>4 DEF Expected
<1>5. CASE t \notin queue[h]
  <2>1. PICK q \in Procs :
           HostOf[q] = h /\ task[q].msg = t /\ task[q].pc \in Inside \cup Before
    BY <1>3, <1>5 DEF Attended, Expected
  <2>2. task'[q] = task[q]
    BY <1>1, <2>1
  <2> QED BY <2>1, <2>2 DEF Attended, Expected
<1> QED BY <1>4, <1>5

LEMMA RunStartAccounts ==
    ASSUME TypeOK, ContainerInv, abandoned \subseteq abandoned', NEW p \in Procs, RunStart(p)
    PROVE  Accounted'
<1>1. /\ \A q \in Procs : q # p => task'[q] = task[q]
      /\ task[p].pc = "start" /\ task'[p].pc = "stream"
      /\ task'[p].msg = task[p].msg /\ task'[p].valid = task[p].valid
      /\ HostOf[p] \in Hosts /\ task[p].msg \in Tests /\ UNCHANGED queue
  BY ProcsAssumption
     DEF RunStart, Step, brokerVars, TypeOK, WorkerTypeOK, TaskTypeOK, Task, RunPC
<1>2. \A h \in Hosts, t \in Tests :
         container'[h][t].state # "none" =>
            container[h][t].state # "none" \/ (h = HostOf[p] /\ t = task[p].msg)
  BY <1>1 DEF RunStart, SetHere, Running, TypeOK, WorkerTypeOK
<1>3. \A h \in Hosts, t \in Tests : h = HostOf[p] /\ t = task[p].msg => Attended(h, t)'
  BY <1>1 DEF Attended, Inside
<1>4. ASSUME NEW h \in Hosts, NEW t \in Tests, Attended(h, t) PROVE Attended(h, t)'
  <2>1. PICK q \in Procs : HostOf[q] = h /\ task[q].msg = t /\ task[q].pc \in Inside
    BY <1>4 DEF Attended
  <2>2. q # p
    BY <1>1, <2>1 DEF Inside
  <2> QED BY <1>1, <2>1, <2>2 DEF Attended
<1>5. ASSUME NEW h \in Hosts, NEW t \in Tests, Expected(h, t)
      PROVE  Attended(h, t)' \/ Expected(h, t)'
  BY <1>1, <1>3, <1>5 DEF Expected
<1> QED BY <1>2, <1>3, <1>4, <1>5 DEF ContainerInv, Accounted

LEMMA RunCleanupAccounts ==
    ASSUME TypeOK, ContainerInv, abandoned \subseteq abandoned', NEW p \in Procs, RunCleanup(p)
    PROVE  Accounted'
<1>1. /\ \A q \in Procs : q # p => task'[q] = task[q]
      /\ task[p].pc = "cleanup" /\ task'[p].valid = task[p].valid
      /\ HostOf[p] \in Hosts /\ task[p].msg \in Tests /\ UNCHANGED queue
  BY ProcsAssumption
     DEF RunCleanup, Step, brokerVars, TypeOK, WorkerTypeOK, TaskTypeOK, Task, RunPC
<1>2. \A h \in Hosts, t \in Tests :
         container'[h][t].state # "none" =>
            container[h][t].state # "none" /\ ~(h = HostOf[p] /\ t = task[p].msg)
  BY <1>1 DEF RunCleanup, SetHere, Running, NoContainer, TypeOK, WorkerTypeOK
<1>3. ASSUME NEW h \in Hosts, NEW t \in Tests, container'[h][t].state # "none"
      PROVE  Attended(h, t)' \/ Expected(h, t)' \/ t \in abandoned'
  <2>1. CASE Attended(h, t)
    <3>1. PICK q \in Procs : HostOf[q] = h /\ task[q].msg = t /\ task[q].pc \in Inside
      BY <2>1 DEF Attended
    <3>2. q # p
      BY <1>2, <1>3, <3>1
    <3> QED BY <1>1, <3>1, <3>2 DEF Attended
  <2>2. CASE Expected(h, t)
    BY <1>1, <2>2 DEF Expected, Before
  <2> QED BY <1>2, <1>3, <2>1, <2>2 DEF ContainerInv, Accounted
<1> QED BY <1>3 DEF Accounted

LEMMA DeliverAccounts ==
    ASSUME TypeOK, ContainerInv, NEW p \in Procs, NEW m \in Messages, Deliver(p, m)
    PROVE  Accounted'
<1>0. abandoned \subseteq abandoned'
  BY DEF Deliver
<1>1. /\ \A q \in Procs : q # p => task'[q] = task[q]
      /\ task'[p] = [Idle EXCEPT !.pc = FirstPC(m), !.msg = m, !.valid = TRUE]
      /\ task[p].pc = "idle" /\ UNCHANGED container
      /\ \A h \in Hosts, t \in Tests :
            t \in queue[h] => t \in queue'[h] \/ (h = HostOf[p] /\ t = m)
  BY DEF Deliver, TypeOK, StoreTypeOK, WorkerTypeOK, TaskTypeOK
<1>2. task'[p].pc = FirstPC(m) /\ task'[p].msg = m /\ task'[p].valid
  BY <1>1 DEF Idle
<1>3. \A h \in Hosts : h = HostOf[p] /\ m \in Tests => Expected(h, m)'
  BY <1>2, NamesAssumption DEF Expected, Before, FirstPC, BeatTasks
<1>4. ASSUME NEW h \in Hosts, NEW t \in Tests, Attended(h, t) PROVE Attended(h, t)'
  <2>1. PICK q \in Procs : HostOf[q] = h /\ task[q].msg = t /\ task[q].pc \in Inside
    BY <1>4 DEF Attended
  <2>2. q # p
    BY <1>1, <2>1 DEF Inside
  <2> QED BY <1>1, <2>1, <2>2 DEF Attended
<1>5. ASSUME NEW h \in Hosts, NEW t \in Tests, Expected(h, t) PROVE Expected(h, t)'
  <2>1. CASE t \in queue[h]
    BY <1>1, <1>3, <2>1 DEF Expected
  <2>2. CASE t \notin queue[h]
    <3>1. PICK q \in Procs : HostOf[q] = h /\ task[q].msg = t /\ task[q].pc \in Before
      BY <1>5, <2>2 DEF Expected
    <3>2. q # p
      BY <1>1, <3>1 DEF Before
    <3> QED BY <1>1, <3>1, <3>2 DEF Expected
  <2> QED BY <2>1, <2>2
<1> QED BY <1>0, <1>1, <1>4, <1>5, AccountsStay

\* A crash stops the processes of its host, and gives back what they held.
LEMMA CrashAccounts ==
    ASSUME TypeOK, ContainerInv, NEW h0 \in Hosts, Crash(h0)
    PROVE  Accounted'
<1>0. UNCHANGED abandoned
  BY DEF Crash, Requeue
<1>1. /\ \A q \in Procs : task'[q] = IF HostOf[q] = h0 THEN Idle ELSE task[q]
      /\ \A h \in Hosts, t \in Tests :
            t \in queue'[h] <=> t \in queue[h] \/ (h = h0 /\ t \in Unacked(h0))
      /\ \A h \in Hosts, t \in Tests : container'[h][t].state = container[h][t].state
  BY DEF Crash, Requeue, TypeOK, StoreTypeOK, WorkerTypeOK, Container
<1>3. \A q \in Procs : task[q].msg # None => task[q].valid
  BY DEF Crash, Fault, ContainerInv, CrashGivesBack
<1>4. ASSUME NEW h \in Hosts, NEW t \in Tests, NEW q \in Procs,
             HostOf[q] = h, task[q].msg = t, task[q].pc \in Inside \cup Before
      PROVE  Attended(h, t)' \/ Expected(h, t)'
  <2>1. CASE h = h0
    <3>1. task[q].valid
      BY <1>3, <1>4, NoneAssumption DEF Messages
    <3>2. t \in Unacked(h0)
      BY <1>4, <2>1, <3>1 DEF Unacked
    <3> QED BY <1>1, <2>1, <3>2 DEF Expected
  <2>2. CASE h # h0
    <3>1. task'[q] = task[q]
      BY <1>1, <1>4, <2>2
    <3> QED BY <1>4, <3>1 DEF Attended, Expected
  <2> QED BY <2>1, <2>2
<1>5. ASSUME NEW h \in Hosts, NEW t \in Tests, Attended(h, t) \/ Expected(h, t)
      PROVE  Attended(h, t)' \/ Expected(h, t)'
  <2>1. CASE t \in queue[h]
    BY <1>1, <2>1 DEF Expected
  <2>2. CASE t \notin queue[h]
    <3>1. PICK q \in Procs :
             HostOf[q] = h /\ task[q].msg = t /\ task[q].pc \in Inside \cup Before
      BY <1>5, <2>2 DEF Attended, Expected
    <3> QED BY <1>4, <3>1
  <2> QED BY <2>1, <2>2
<1> QED BY <1>0, <1>1, <1>5 DEF ContainerInv, Accounted

\* A lost connection stops no process.
LEMMA ConnectionLostAccounts ==
    ASSUME TypeOK, ContainerInv, NEW h0 \in Hosts, ConnectionLost(h0)
    PROVE  Accounted'
<1>0. abandoned \subseteq abandoned'
  BY DEF ConnectionLost, Requeue
<1>1. /\ \A q \in Procs : task'[q].pc = task[q].pc /\ task'[q].msg = task[q].msg
      /\ \A h \in Hosts, t \in Tests : t \in queue[h] => t \in queue'[h]
      /\ UNCHANGED container
  BY DEF ConnectionLost, Requeue, TypeOK, StoreTypeOK, WorkerTypeOK, TaskTypeOK, Task
<1>2. \A h \in Hosts, t \in Tests : Attended(h, t) => Attended(h, t)'
  BY <1>1 DEF Attended
<1>3. \A h \in Hosts, t \in Tests : Expected(h, t) => Expected(h, t)'
  BY <1>1 DEF Expected
<1> QED BY <1>0, <1>1, <1>2, <1>3, AccountsStay

-----------------------------------------------------------------------------
LEMMA RunAccounts ==
    ASSUME TypeOK, ContainerInv, NoAbandoningFaults, abandoned \subseteq abandoned',
           NEW p \in Procs, RunStep(p)
    PROVE  Accounted'
<1>0. task \in [Procs -> Task]
  BY DEF TypeOK, WorkerTypeOK, TaskTypeOK
<1>1. ASSUME NEW from, NEW to, Step(p, from, to), from # "idle",
             from \in Before => to \in Before \cup Inside,
             from \in Inside => to \in Inside,
             UNCHANGED <<queue, container>>
      PROVE  Accounted'
  <2>1. /\ task' = [task EXCEPT ![p] = task'[p]]
        /\ task[p].pc = from /\ task'[p].pc = to
        /\ task'[p].msg = task[p].msg /\ task'[p].valid = task[p].valid
    BY <1>0, <1>1 DEF Step, Task
  <2> QED BY <1>0, <1>1, <2>1, GoingOnAccounts
<1>2. CASE RunBegin(p) \/ RunStartRefused(p) \/ StreamBreaks(p) \/ StreamFails(p)
           \/ RunFinish(p) \/ RunFinishFails(p) \/ RunExcept(p) \/ RunExceptFails(p)
           \/ DecrementSkip(p) \/ DecrementWrite(p)
  BY <1>1, <1>2 DEF RunBegin, RunStartRefused, StreamBreaks, StreamFails, RunFinish,
                    RunFinishFails, RunExcept, RunExceptFails, DecrementSkip,
                    DecrementWrite, brokerVars, Before, Inside
<1>3. CASE StreamEnds(p) \/ DecrementRead(p)
  <2>1. /\ task' = [task EXCEPT ![p] = task'[p]]
        /\ task'[p].msg = task[p].msg /\ task'[p].valid = task[p].valid
        /\ task[p].pc # "idle" /\ task[p].pc \notin Before
        /\ task[p].pc \in Inside => task'[p].pc \in Inside
    BY <1>0, <1>3 DEF StreamEnds, DecrementRead, Before, Inside, Task
  <2>2. UNCHANGED <<queue, container>>
    BY <1>3 DEF StreamEnds, DecrementRead, brokerVars
  <2> QED BY <1>0, <2>1, <2>2, GoingOnAccounts
<1>4. CASE DecrementFails(p) \/ Acknowledge(p)
  <2>1. task' = [task EXCEPT ![p] = Idle] /\ UNCHANGED <<queue, container>>
    BY <1>4 DEF DecrementFails, Acknowledge, EndTask, LeaveTask
  <2>2. task[p].pc \notin Before \cup Inside
    BY <1>4 DEF DecrementFails, Acknowledge, Before, Inside
  <2>3. task' = [task EXCEPT ![p] = task'[p]] /\ task'[p].pc = "idle"
    BY <1>0, <2>1 DEF Idle
  <2> QED BY <1>0, <2>1, <2>2, <2>3, GoingOnAccounts
<1>5. ~RunStartFails(p) /\ ~RunCleanupFails(p)
  BY DEF RunStartFails, RunCleanupFails, Fault, NoAbandoningFaults
<1> QED BY <1>0, <1>2, <1>3, <1>4, <1>5, AbandonAccounts, RunStartAccounts,
           RunCleanupAccounts DEF RunStep

LEMMA PeriodicAccounts ==
    ASSUME TypeOK, ContainerInv, abandoned \subseteq abandoned', NEW p \in Procs,
           HeartbeatStep(p) \/ ReapStep(p)
    PROVE  Accounted'
<1>0. task \in [Procs -> Task]
  BY DEF TypeOK, WorkerTypeOK, TaskTypeOK
<1>1. task[p].pc \in {"count", "beat", "scan", "reap"}
  BY DEF HeartbeatStep, ReapStep, HeartbeatCount, HeartbeatCountFails, HeartbeatWrite,
         HeartbeatFails, ReapScan, ReapWrite, ReapFails
<1>2. CASE HeartbeatCount(p) \/ HeartbeatCountFails(p) \/ ReapScan(p)
  <2>1. /\ task' = [task EXCEPT ![p] = task'[p]]
        /\ task'[p].msg = task[p].msg /\ task'[p].valid = task[p].valid
    BY <1>0, <1>2 DEF HeartbeatCount, HeartbeatCountFails, ReapScan, Task
  <2>2. UNCHANGED <<queue, container>>
    BY <1>2 DEF HeartbeatCount, HeartbeatCountFails, ReapScan, brokerVars
  <2> QED BY <1>0, <1>1, <2>1, <2>2, GoingOnAccounts DEF Before, Inside
<1>3. CASE (\E cpu \in CpuLevels : HeartbeatWrite(p, cpu)) \/ HeartbeatFails(p)
           \/ ReapWrite(p) \/ ReapFails(p)
  <2>1. task' = [task EXCEPT ![p] = Idle] /\ UNCHANGED <<queue, container>>
    BY <1>3 DEF HeartbeatWrite, HeartbeatFails, ReapWrite, ReapFails, EndTask, LeaveTask
  <2>2. task' = [task EXCEPT ![p] = task'[p]] /\ task'[p].pc = "idle"
    BY <1>0, <2>1 DEF Idle
  <2> QED BY <1>0, <1>1, <2>1, <2>2, GoingOnAccounts DEF Before, Inside
<1> QED BY <1>2, <1>3 DEF HeartbeatStep, ReapStep

LEMMA HostAccounts ==
    ASSUME TypeOK, ContainerInv, NEW h \in Hosts, HostStep(h)
    PROVE  Accounted'
<1>1. ASSUME UNCHANGED <<task, abandoned>>,
             \A g \in Hosts, t \in Tests : t \in queue[g] => t \in queue'[g],
             \A g \in Hosts, t \in Tests :
                container'[g][t].state # "none" => container[g][t].state # "none"
      PROVE  Accounted'
  <2>1. /\ \A g \in Hosts, t \in Tests : Attended(g, t) => Attended(g, t)'
        /\ \A g \in Hosts, t \in Tests : Expected(g, t) => Expected(g, t)'
    BY <1>1 DEF Attended, Expected
  <2> QED BY <1>1, <2>1, AccountsStay
<1>2. ASSUME NEW k \in Beats, Beat(h, k) PROVE Accounted'
  BY <1>1, <1>2 DEF Beat, workerVars, TypeOK, StoreTypeOK
<1>3. ASSUME NEW t \in Tests, ContainerExits(h, t) PROVE Accounted'
  <2>1. \A g \in Hosts, u \in Tests :
           container'[g][u].state # "none" => container[g][u].state # "none"
    <3>1. PICK s \in {"passed", "dead"} :
             container' = [container EXCEPT ![h][t].state = s]
      BY <1>3 DEF ContainerExits
    <3>2. /\ container \in [Hosts -> [Tests -> Container]]
          /\ container[h][t].state = "running"
      BY <1>3 DEF ContainerExits, TypeOK, WorkerTypeOK
    <3> QED BY <3>1, <3>2 DEF Container
  <2> QED BY <1>1, <1>3, <2>1 DEF ContainerExits, brokerVars
<1>4. CASE Restart(h)
  BY <1>1, <1>4 DEF Restart, brokerVars
<1> QED BY <1>2, <1>3, <1>4, CrashAccounts, ConnectionLostAccounts DEF HostStep

\* The backend touches no container, and only adds to the queues.
LEMMA BackendQueues ==
    ASSUME TypeOK, BackendNext \/ Tick \/ UNCHANGED vars
    PROVE  /\ UNCHANGED <<task, container>>
           /\ \A h \in Hosts, t \in Tests : t \in queue[h] => t \in queue'[h]
<1> USE DEF tableVars, brokerVars, workerVars
<1>1. UNCHANGED <<task, container>>
  BY DEF BackendNext, BackendCrash, Tick, vars
<1>2. ASSUME NEW t \in Tests, SubmissionStep(t)
      PROVE  UNCHANGED queue \/ \E h \in Hosts : queue' = [queue EXCEPT ![h] = @ \cup {t}]
  <2>1. CASE Publish(t) \/ PublishFails(t)
    BY <2>1 DEF Publish, PublishFails, Send, TypeOK, SubmissionTypeOK, Request, HostChosen
  <2>2. CASE ~Publish(t) /\ ~PublishFails(t)
    BY <1>2, <2>2
       DEF SubmissionStep, SubmitTest, DispatchNone, DispatchSelect, DispatchError,
           CommitReservation, CommitFails, RefetchHost, UndoReservation, UndoFails,
           RecordDispatched, RecordFailed, RecordFails
  <2> QED BY <2>1, <2>2
<1>3. UNCHANGED queue \/ \E t \in Tests, h \in Hosts : queue' = [queue EXCEPT ![h] = @ \cup {t}]
  BY <1>2 DEF BackendNext, BackendCrash, Tick, vars, UpdateHost, MaintenanceNext, SweepRead,
              SweepMark, SweepQuery, SweepFail, SweepAborts
<1> QED BY <1>1, <1>3 DEF TypeOK, StoreTypeOK

LEMMA BackendAccounts ==
    ASSUME TypeOK, ContainerInv, abandoned \subseteq abandoned',
           BackendNext \/ Tick \/ UNCHANGED vars
    PROVE  Accounted'
<1>1. /\ \A h \in Hosts, t \in Tests : Attended(h, t) => Attended(h, t)'
      /\ \A h \in Hosts, t \in Tests : Expected(h, t) => Expected(h, t)'
  BY BackendQueues DEF Attended, Expected
<1> QED BY <1>1, BackendQueues, AccountsStay

LEMMA NextAccounts ==
    NoAbandoningFaults /\ TypeOK /\ ContainerInv /\ [Next]_vars => ContainerInv'
<1> SUFFICES ASSUME NoAbandoningFaults, TypeOK, ContainerInv, [Next]_vars
             PROVE  ContainerInv'
  OBVIOUS
<1>1. WorkerNext => Accounted'
  BY NextAbandons, DeliverAccounts, RunAccounts, AbandonAccounts, PeriodicAccounts,
     HostAccounts DEF WorkerNext
<1>2. BackendNext \/ Tick \/ UNCHANGED vars => Accounted'
  BY NextAbandons, BackendAccounts
<1>3. NoCrashAfterLoss
  BY DEF NoAbandoningFaults
<1>4. CrashGivesBack'
  BY <1>3, NextGivesBack DEF ContainerInv
<1> QED BY <1>1, <1>2, <1>4 DEF Next, ContainerInv

LEMMA InitGivesBack == Init => CrashGivesBack
BY DEF Init, WorkerInit, Idle, CrashGivesBack

LEMMA InitAccounts == Init => ContainerInv
BY InitGivesBack DEF Init, WorkerInit, NoContainer, ContainerInv, Accounted

\* Containers are not left behind (tasks.py run_test_bundle, finally;
\* celery_app.py, task_acks_late): unless the removal itself can fail, or a
\* worker can die after its connection, every container has a delivery in the
\* queue or a process short of its cleanup, however often workers, single
\* processes, backend, database and broker fail; all but those of a test whose
\* own process died alone, or failed before its try block.
THEOREM NoContainerAbandoned == NoAbandoningFaults /\ Spec => []ContainersCovered
<1>1. Init => TypeOK /\ ContainerInv
  BY InitType, InitAccounts
<1>2. NoAbandoningFaults /\ TypeOK /\ ContainerInv /\ [Next]_vars => TypeOK' /\ ContainerInv'
  BY NextType, NextAccounts
<1>3. ASSUME NoAbandoningFaults PROVE Spec => []ContainersCovered
  <2>1. TypeOK /\ ContainerInv /\ [Next]_vars => TypeOK' /\ ContainerInv'
    BY <1>2, <1>3
  <2> QED BY <1>1, <2>1, AccountedIsCovered, PTL DEF Spec
<1> QED BY <1>3

-----------------------------------------------------------------------------
\* RunningIsAttended.  Beyond the abandoned tests, a row is left at RUNNING by
\* the except branch failing in its turn, and by a crash after a lost
\* connection.  With at most one fault, and bundles whose runner is known, the
\* first cannot happen; without database errors any number of other faults can.
KnownRunners == \A t \in Tests : Bundle[t].known_runner

NoOrphaningFaults ==
    /\ "db" \in Faults => MaxFaults <= 1 /\ KnownRunners
    /\ NoCrashAfterLoss

\* What is true until the first fault, if every runner is known: nobody is
\* handling an exception, and whoever follows a log follows that of its own
\* container.
BeforeFaults ==
    KnownRunners /\ budget = MaxFaults =>
        /\ \A p \in Procs : task[p].msg # None => task[p].valid
        /\ \A p \in Procs : task[p].pc # "except"
        /\ \A p \in Procs : task[p].pc = "stream" => Here(p).owner = p
        /\ \A h \in Hosts, t \in Tests : container[h][t].state # "none" => Attended(h, t)

\* On its way to the verdict, and on its way to a process.
Deciding == {"start", "stream", "finish", "except"}

BeingDecided(t) == \E p \in Procs : task[p].msg = t /\ task[p].pc \in Deciding

Awaited(t) ==
    \/ \E h \in Hosts : t \in queue[h]
    \/ \E p \in Procs : task[p].msg = t /\ task[p].pc = "begin"

Decided ==
    \A t \in Tests : executions[t].status = "RUNNING" =>
        BeingDecided(t) \/ Awaited(t) \/ t \in abandoned

RowInv == CrashGivesBack /\ BeforeFaults /\ Decided

LEMMA DecidedIsAttended == RowInv => RunningIsAttended
BY DEF RowInv, Decided, BeingDecided, Awaited, Deciding, RunningIsAttended, WillDecide

\* A step that sets no row to RUNNING, takes no message and ends no run short
\* of its verdict.
LEMMA RowsStay ==
    ASSUME TypeOK, RowInv, abandoned \subseteq abandoned',
           \A t \in Tests : executions'[t].status = "RUNNING" =>
              /\ executions[t].status = "RUNNING"
              /\ BeingDecided(t) => BeingDecided(t)'
              /\ Awaited(t) => BeingDecided(t)' \/ Awaited(t)'
    PROVE  Decided'
BY DEF RowInv, Decided

\* A process that goes on towards the verdict, or is past it or busy with
\* something else.
LEMMA GoingOnDecides ==
    ASSUME TypeOK, RowInv, abandoned \subseteq abandoned', NEW p \in Procs,
           task' = [task EXCEPT ![p] = task'[p]], queue' = queue,
           \A t \in Tests : executions'[t].status = "RUNNING" =>
              executions[t].status = "RUNNING" \/ (t = task[p].msg /\ task'[p].pc = "start"),
           \/ task[p].pc \notin Deciding \cup {"begin"}
           \/ task[p].msg \in Tests /\ executions'[task[p].msg].status # "RUNNING"
           \/ /\ task'[p].msg = task[p].msg
              /\ task'[p].pc \in Deciding,
           task'[p].pc = "start" => task'[p].msg = task[p].msg
    PROVE  Decided'
<1>1. \A q \in Procs : q # p => task'[q] = task[q]
  BY DEF TypeOK, WorkerTypeOK, TaskTypeOK
<1> SUFFICES ASSUME NEW t \in Tests, executions'[t].status = "RUNNING"
             PROVE  BeingDecided(t)' \/ Awaited(t)' \/ t \in abandoned'
  BY DEF Decided
<1>2. CASE task'[p].pc = "start" /\ t = task[p].msg
  BY <1>2 DEF BeingDecided, Deciding
<1>3. CASE ~(task'[p].pc = "start" /\ t = task[p].msg)
  <2>1. executions[t].status = "RUNNING"
    BY <1>3
  <2>2. ASSUME NEW q \in Procs, task[q].msg = t, task[q].pc \in Deciding \cup {"begin"}
        PROVE  BeingDecided(t)' \/ (task[q].pc = "begin" /\ Awaited(t)')
    <3>1. CASE q = p
      BY <2>2, <3>1 DEF BeingDecided
    <3>2. CASE q # p
      BY <1>1, <2>2, <3>2 DEF BeingDecided, Awaited
    <3> QED BY <3>1, <3>2
  <2>3. BeingDecided(t) => BeingDecided(t)'
    BY <2>2 DEF BeingDecided, Deciding
  <2>4. Awaited(t) => BeingDecided(t)' \/ Awaited(t)'
    BY <2>2 DEF Awaited
  <2> QED BY <2>1, <2>3, <2>4 DEF RowInv, Decided
<1> QED BY <1>2, <1>3

\* The preamble raises, or the process dies alone: whatever the row of its test
\* says then, the test is abandoned.
LEMMA AbandonDecides ==
    ASSUME TypeOK, RowInv, abandoned \subseteq abandoned', NEW p \in Procs,
           RunBeginFails(p) \/ ProcessDies(p)
    PROVE  Decided'
<1>1. /\ \A q \in Procs : q # p => task'[q] = task[q]
      /\ task[p].msg \in Tests => task[p].msg \in abandoned'
      /\ UNCHANGED queue
  BY DEF RunBeginFails, ProcessDies, AbandonTask, LeaveTask, TypeOK, WorkerTypeOK, TaskTypeOK
<1>2. \A t \in Tests : t # task[p].msg => executions'[t] = executions[t]
  BY DEF RunBeginFails, ProcessDies, SetStatusOn, Running, tableVars, TypeOK, StoreTypeOK
<1> SUFFICES ASSUME NEW t \in Tests, executions'[t].status = "RUNNING", t \notin abandoned'
             PROVE  BeingDecided(t)' \/ Awaited(t)'
  BY DEF Decided
<1>3. t # task[p].msg
  BY <1>1
<1>4. BeingDecided(t) \/ Awaited(t)
  BY <1>2, <1>3 DEF RowInv, Decided
<1>5. \A q \in Procs : task[q].msg = t => task'[q] = task[q]
  BY <1>1, <1>3
<1> QED BY <1>1, <1>4, <1>5 DEF BeingDecided, Awaited

LEMMA ExceptDecides ==
    ASSUME TypeOK, RowInv, NoOrphaningFaults, NEW p \in Procs
    PROVE  ~RunExceptFails(p)
<1> SUFFICES ASSUME RunExceptFails(p) PROVE FALSE
  OBVIOUS
<1>1. "db" \in Faults /\ budget > 0 /\ task[p].pc = "except"
  BY DEF RunExceptFails, Step, Fault
<1>2. budget = MaxFaults
  BY <1>1, FaultsAssumption DEF NoOrphaningFaults, TypeOK, StoreTypeOK
<1> QED BY <1>1, <1>2 DEF RowInv, BeforeFaults, NoOrphaningFaults

LEMMA StatusSet ==
    ASSUME TypeOK, NEW t \in Tests, NEW s, SetStatus(t, s)
    PROVE  /\ executions'[t].status = s
           /\ \A u \in Tests : u # t => executions'[u] = executions[u]
BY DEF SetStatus, Touch, TypeOK, StoreTypeOK, TestExecution

LEMMA RunDecides ==
    ASSUME TypeOK, RowInv, NoOrphaningFaults, abandoned \subseteq abandoned',
           NEW p \in Procs, RunStep(p)
    PROVE  Decided'
<1>0. task \in [Procs -> Task]
  BY DEF TypeOK, WorkerTypeOK, TaskTypeOK
<1>1. CASE RunBegin(p)
  <2>1. /\ task' = [task EXCEPT ![p] = task'[p]] /\ queue' = queue
        /\ task'[p].msg = task[p].msg /\ task'[p].pc = "start"
    BY <1>0, <1>1 DEF RunBegin, Step, brokerVars, Task
  <2>2. \A t \in Tests : t # task[p].msg => executions'[t] = executions[t]
    BY <1>1 DEF RunBegin, SetStatusOn, Running, TypeOK, StoreTypeOK
  <2> QED BY <1>0, <2>1, <2>2, GoingOnDecides DEF Deciding
<1>2. CASE RunStart(p) \/ RunStartRefused(p) \/ RunStartFails(p) \/ StreamBreaks(p)
           \/ StreamFails(p) \/ StreamEnds(p)
  <2>1. /\ task' = [task EXCEPT ![p] = task'[p]]
        /\ task'[p].msg = task[p].msg /\ task'[p].pc \in {"stream", "finish", "except"}
    BY <1>0, <1>2 DEF RunStart, RunStartRefused, RunStartFails, StreamBreaks, StreamFails,
                      StreamEnds, Step, Task
  <2>2. queue' = queue /\ executions' = executions
    BY <1>2 DEF RunStart, RunStartRefused, RunStartFails, StreamBreaks, StreamFails,
                StreamEnds, brokerVars, tableVars
  <2> QED BY <1>0, <2>1, <2>2, GoingOnDecides DEF Deciding
<1>3. CASE RunFinish(p) \/ RunExcept(p)
  <2>1. /\ task' = [task EXCEPT ![p] = task'[p]] /\ queue' = queue
        /\ task'[p].pc = "cleanup" /\ task[p].msg \in Tests
    BY <1>0, <1>3 DEF RunFinish, RunExcept, Step, brokerVars, Task, TypeOK, WorkerTypeOK,
                      TaskTypeOK, RunPC
  <2>2. PICK s : s # "RUNNING" /\ SetStatus(task[p].msg, s)
    <3>1. CASE RunFinish(p)
      BY <3>1 DEF RunFinish, Running
    <3>2. CASE RunExcept(p)
      BY <3>2 DEF RunExcept, Running
    <3> QED BY <1>3, <3>1, <3>2
  <2>3. executions'[task[p].msg].status # "RUNNING"
    BY <2>1, <2>2, StatusSet
  <2>4. \A t \in Tests : executions'[t].status = "RUNNING" => executions[t].status = "RUNNING"
    BY <2>1, <2>2, <2>3, StatusSet
  <2> QED BY <1>0, <2>1, <2>3, <2>4, GoingOnDecides
<1>5. CASE RunFinishFails(p)
  <2>1. /\ task' = [task EXCEPT ![p] = task'[p]] /\ queue' = queue
        /\ task'[p].msg = task[p].msg /\ task'[p].pc = "except" /\ task[p].msg \in Tests
    BY <1>0, <1>5 DEF RunFinishFails, Step, brokerVars, Task, TypeOK, WorkerTypeOK,
                      TaskTypeOK, RunPC
  <2>2. \A t \in Tests : executions'[t].status = "RUNNING" => executions[t].status = "RUNNING"
    <3>1. CASE UNCHANGED executions
      BY <3>1
    <3>2. ASSUME NEW s \in {"PASSED", "FAILED"}, SetStatus(task[p].msg, s)
          PROVE  \A t \in Tests :
                    executions'[t].status = "RUNNING" => executions[t].status = "RUNNING"
      BY <2>1, <3>2, StatusSet
    <3> QED BY <1>5, <3>1, <3>2 DEF RunFinishFails, Running
  <2> QED BY <1>0, <2>1, <2>2, GoingOnDecides DEF Deciding
<1>4. CASE RunCleanup(p) \/ RunCleanupFails(p) \/ DecrementRead(p) \/ DecrementSkip(p)
           \/ DecrementFails(p) \/ DecrementWrite(p) \/ Acknowledge(p)
  <2>1. task[p].pc \notin Deciding \cup {"begin"}
    BY <1>4 DEF RunCleanup, RunCleanupFails, DecrementRead, DecrementSkip, DecrementFails,
                DecrementWrite, Acknowledge, Step, Deciding
  <2>2. /\ task' = [task EXCEPT ![p] = task'[p]]
        /\ task'[p].pc # "start"
    BY <1>0, <1>4 DEF RunCleanup, RunCleanupFails, DecrementRead, DecrementSkip,
                      DecrementFails, DecrementWrite, Acknowledge, EndTask, LeaveTask,
                      Idle, Step, Task
  <2>3. queue' = queue /\ executions' = executions
    BY <1>4 DEF RunCleanup, RunCleanupFails, DecrementRead, DecrementSkip, DecrementFails,
                DecrementWrite, Acknowledge, EndTask, LeaveTask, brokerVars, tableVars
  <2> QED BY <1>0, <2>1, <2>2, <2>3, GoingOnDecides
<1> QED BY <1>1, <1>2, <1>3, <1>4, <1>5, AbandonDecides, ExceptDecides DEF RunStep

LEMMA RowsFailed ==
    ASSUME NEW rows, TypeOK, FailRows(rows)
    PROVE  \A t \in Tests : executions'[t].status = "RUNNING" => executions[t].status = "RUNNING"
BY DEF FailRows, Touch, TypeOK, StoreTypeOK, TestExecution

LEMMA PeriodicDecides ==
    ASSUME TypeOK, RowInv, abandoned \subseteq abandoned', NEW p \in Procs,
           HeartbeatStep(p) \/ ReapStep(p)
    PROVE  Decided'
<1>0. task \in [Procs -> Task]
  BY DEF TypeOK, WorkerTypeOK, TaskTypeOK
<1>1. task[p].pc \in {"count", "beat", "scan", "reap"}
  BY DEF HeartbeatStep, ReapStep, HeartbeatCount, HeartbeatCountFails, HeartbeatWrite,
         HeartbeatFails, ReapScan, ReapWrite, ReapFails
<1>2. /\ task' = [task EXCEPT ![p] = task'[p]]
      /\ task'[p].pc # "start" /\ queue' = queue
  <2>1. CASE HeartbeatCount(p) \/ HeartbeatCountFails(p) \/ ReapScan(p)
    BY <1>0, <2>1 DEF HeartbeatCount, HeartbeatCountFails, ReapScan, brokerVars, Task
  <2>2. CASE (\E cpu \in CpuLevels : HeartbeatWrite(p, cpu)) \/ HeartbeatFails(p)
             \/ ReapWrite(p) \/ ReapFails(p)
    <3>1. task' = [task EXCEPT ![p] = Idle] /\ queue' = queue
      BY <2>2 DEF HeartbeatWrite, HeartbeatFails, ReapWrite, ReapFails, EndTask, LeaveTask
    <3> QED BY <1>0, <3>1 DEF Idle
  <2> QED BY <2>1, <2>2 DEF HeartbeatStep, ReapStep
<1>3. \A t \in Tests : executions'[t].status = "RUNNING" => executions[t].status = "RUNNING"
  <2>1. CASE ReapWrite(p)
    BY <2>1, RowsFailed DEF ReapWrite
  <2>2. CASE ~ReapWrite(p)
    BY <2>2 DEF HeartbeatStep, ReapStep, HeartbeatCount, HeartbeatCountFails,
                HeartbeatWrite, HeartbeatFails, ReapScan, ReapFails, tableVars
  <2> QED BY <2>1, <2>2
<1> QED BY <1>0, <1>1, <1>2, <1>3, GoingOnDecides DEF Deciding

LEMMA DeliverDecides ==
    ASSUME TypeOK, RowInv, NEW p \in Procs, NEW m \in Messages, Deliver(p, m)
    PROVE  Decided'
<1>0. UNCHANGED <<abandoned, executions>>
  BY DEF Deliver, tableVars
<1>1. /\ \A q \in Procs : q # p => task'[q] = task[q]
      /\ task'[p] = [Idle EXCEPT !.pc = FirstPC(m), !.msg = m, !.valid = TRUE]
      /\ task[p].pc = "idle"
      /\ \A h \in Hosts, t \in Tests : t \in queue[h] => t \in queue'[h] \/ t = m
  BY DEF Deliver, TypeOK, StoreTypeOK, WorkerTypeOK, TaskTypeOK
<1>2. m \in Tests => task'[p].pc = "begin" /\ task'[p].msg = m
  BY <1>1, NamesAssumption DEF Idle, FirstPC, BeatTasks
<1>3. ASSUME NEW t \in Tests, NEW q \in Procs, task[q].msg = t,
             task[q].pc \in Deciding \cup {"begin"}
      PROVE  task'[q] = task[q]
  BY <1>1, <1>3 DEF Deciding
<1>4. \A t \in Tests : BeingDecided(t) => BeingDecided(t)'
  BY <1>3 DEF BeingDecided
<1>5. \A t \in Tests : Awaited(t) => Awaited(t)'
  BY <1>1, <1>2, <1>3 DEF Awaited
<1> QED BY <1>0, <1>4, <1>5, RowsStay

LEMMA HostDecides ==
    ASSUME TypeOK, RowInv, NEW h0 \in Hosts, HostStep(h0)
    PROVE  Decided'
<1>0. UNCHANGED <<abandoned, executions>>
  BY DEF HostStep, Beat, ContainerExits, Crash, Restart, ConnectionLost, Requeue, brokerVars,
         tableVars
<1>1. \A h \in Hosts, t \in Tests : t \in queue[h] => t \in queue'[h]
  BY DEF HostStep, Beat, ContainerExits, Crash, Restart, ConnectionLost, Requeue,
         brokerVars, TypeOK, StoreTypeOK
<1>2. CASE ~Crash(h0)
  <2>1. \A q \in Procs : task'[q].pc = task[q].pc /\ task'[q].msg = task[q].msg
    BY <1>2 DEF HostStep, Beat, ContainerExits, Restart, ConnectionLost, workerVars,
                TypeOK, WorkerTypeOK, TaskTypeOK, Task
  <2>2. /\ \A t \in Tests : BeingDecided(t) => BeingDecided(t)'
        /\ \A t \in Tests : Awaited(t) => Awaited(t)'
    BY <1>1, <2>1 DEF BeingDecided, Awaited
  <2> QED BY <1>0, <2>2, RowsStay
<1>3. CASE Crash(h0)
  <2>1. \A q \in Procs : task[q].msg # None => task[q].valid
    BY <1>3 DEF Crash, Fault, RowInv, CrashGivesBack
  <2>3. ASSUME NEW t \in Tests, NEW q \in Procs, task[q].msg = t,
               task[q].pc \in Deciding \cup {"begin"}
        PROVE  BeingDecided(t)' \/ Awaited(t)'
    <3>1. CASE HostOf[q] = h0
      <4>1. t \in Unacked(h0)
        BY <2>1, <2>3, <3>1, NoneAssumption DEF Unacked, Messages
      <4>2. t \in queue'[h0]
        BY <1>3, <4>1 DEF Crash, Requeue, TypeOK, StoreTypeOK
      <4> QED BY <4>2 DEF Awaited
    <3>2. CASE HostOf[q] # h0
      <4>1. task'[q] = task[q]
        BY <1>3, <3>2 DEF Crash
      <4> QED BY <2>3, <4>1 DEF BeingDecided, Awaited
    <3> QED BY <3>1, <3>2
  <2>4. \A t \in Tests : BeingDecided(t) \/ Awaited(t) => BeingDecided(t)' \/ Awaited(t)'
    BY <1>1, <2>3 DEF BeingDecided, Awaited
  <2> QED BY <1>0, <2>4 DEF RowInv, Decided
<1> QED BY <1>2, <1>3

\* Only a worker writes RUNNING.
LEMMA BackendDecides ==
    ASSUME TypeOK, RowInv, abandoned \subseteq abandoned',
           BackendNext \/ Tick \/ UNCHANGED vars
    PROVE  Decided'
<1> DEFINE Kept ==
       \A t \in Tests : executions'[t].status = "RUNNING" => executions[t].status = "RUNNING"
<1> USE DEF tableVars
<1>1. UNCHANGED executions => Kept
  OBVIOUS
<1>2. ASSUME NEW t \in Tests, SubmissionStep(t) PROVE Kept
  <2>1. ASSUME NEW s \in {"PENDING", "FAILED"}, SetStatus(t, s) PROVE Kept
    BY <2>1, StatusSet
  <2>2. CASE SubmitTest(t) \/ RecordFailed(t)
    BY <2>1, <2>2 DEF SubmitTest, RecordFailed
  <2>3. CASE RecordDispatched(t)
    <3>1. /\ executions'[t].status = "DISPATCHED"
          /\ \A u \in Tests : u # t => executions'[u] = executions[u]
      BY <2>3 DEF RecordDispatched, SetStatusOn, Touch, TypeOK, StoreTypeOK, TestExecution
    <3> QED BY <3>1
  <2>4. CASE ~SubmitTest(t) /\ ~RecordFailed(t) /\ ~RecordDispatched(t)
    BY <1>1, <1>2, <2>4
       DEF SubmissionStep, DispatchNone, DispatchSelect, DispatchError, CommitReservation,
           CommitFails, RefetchHost, Publish, PublishFails, UndoReservation, UndoFails,
           RecordFails
  <2> QED BY <2>2, <2>3, <2>4
<1>3. ASSUME MaintenanceNext PROVE Kept
  <2>1. CASE SweepFail
    BY <2>1, RowsFailed DEF SweepFail
  <2>2. CASE ~SweepFail
    BY <1>1, <1>3, <2>2 DEF MaintenanceNext, SweepRead, SweepMark, SweepQuery, SweepAborts
  <2> QED BY <2>1, <2>2
<1>4. ASSUME Tick PROVE Kept
  BY <1>4 DEF Tick, TypeOK, StoreTypeOK, TestExecution
<1>5. ASSUME (\E e \in AdminEdits : UpdateHost(e)) \/ BackendCrash \/ UNCHANGED vars PROVE Kept
  BY <1>1, <1>5 DEF UpdateHost, BackendCrash, vars
<1>6. Kept
  BY <1>2, <1>3, <1>4, <1>5 DEF BackendNext
<1>7. /\ \A t \in Tests : BeingDecided(t) => BeingDecided(t)'
      /\ \A t \in Tests : Awaited(t) => Awaited(t)'
  BY BackendQueues DEF BeingDecided, Awaited
<1> QED BY <1>6, <1>7, RowsStay

-----------------------------------------------------------------------------
\* BeforeFaults.  Until the first fault a test is with one process only.
LEMMA OneEach ==
    ASSUME TypeOK, DeliveryInv, NEW p \in Procs, NEW q \in Procs,
           \A r \in Procs : task[r].msg # None => task[r].valid,
           task[p].msg = task[q].msg, task[p].msg \in Tests
    PROVE  p = q
<1>1. Holds(p, task[p].msg) /\ Holds(q, task[p].msg)
  BY NoneAssumption DEF Holds, Messages
<1> QED BY <1>1 DEF DeliveryInv, ExactlyOneCopy

LEMMA NoFaultYet ==
    ASSUME TypeOK, Spent, budget' = MaxFaults
    PROVE  budget = MaxFaults /\ \A k : ~Fault(k)
BY FaultsAssumption DEF Spent, Fault, TypeOK, StoreTypeOK

\* A process that goes on without starting or following a container, or ends.
LEMMA QuietStep ==
    ASSUME TypeOK, BeforeFaults, KnownRunners, budget = MaxFaults, NEW p \in Procs,
           task' = [task EXCEPT ![p] = task'[p]], UNCHANGED container,
           task'[p].msg # None => task'[p].valid,
           task'[p].pc \notin {"except", "stream"},
           task[p].pc \in Inside => task'[p].pc \in Inside /\ task'[p].msg = task[p].msg
    PROVE  BeforeFaults'
<1>1. \A q \in Procs : q # p => task'[q] = task[q]
  BY DEF TypeOK, WorkerTypeOK, TaskTypeOK
<1>2. ASSUME NEW h \in Hosts, NEW t \in Tests, Attended(h, t) PROVE Attended(h, t)'
  <2>1. PICK q \in Procs : HostOf[q] = h /\ task[q].msg = t /\ task[q].pc \in Inside
    BY <1>2 DEF Attended
  <2>2. CASE q = p
    BY <2>1, <2>2 DEF Attended
  <2>3. CASE q # p
    BY <1>1, <2>1, <2>3 DEF Attended
  <2> QED BY <2>2, <2>3
<1>3. \A q \in Procs : task'[q].pc = "stream" => Here(q)' = Here(q) /\ task[q].pc = "stream"
  BY <1>1 DEF Here, Running
<1> QED BY <1>1, <1>2, <1>3 DEF BeforeFaults

LEMMA StartsFresh ==
    ASSUME TypeOK, DeliveryInv, BeforeFaults, KnownRunners, budget = MaxFaults,
           NEW p \in Procs, RunStart(p)
    PROVE  BeforeFaults'
<1>1. /\ \A q \in Procs : q # p => task'[q] = task[q]
      /\ task[p].pc = "start" /\ task'[p].pc = "stream"
      /\ task'[p].msg = task[p].msg /\ task'[p].valid = task[p].valid
      /\ HostOf[p] \in Hosts /\ task[p].msg \in Tests
  BY ProcsAssumption DEF RunStart, Step, TypeOK, WorkerTypeOK, TaskTypeOK, Task, RunPC
<1>2. /\ container'[HostOf[p]][task[p].msg].owner = p
      /\ \A h \in Hosts, t \in Tests :
            h # HostOf[p] \/ t # task[p].msg => container'[h][t] = container[h][t]
  BY <1>1 DEF RunStart, SetHere, Running, TypeOK, WorkerTypeOK
<1>3. \A r \in Procs : task[r].msg # None => task[r].valid
  BY DEF BeforeFaults
<1>4. ASSUME NEW q \in Procs, task'[q].pc = "stream" PROVE Here(q)'.owner = q
  <2>1. CASE q = p
    BY <1>1, <1>2, <2>1 DEF Here, Running
  <2>2. CASE q # p
    <3>1. task[q].pc = "stream" /\ task[q].msg \in Tests /\ HostOf[q] \in Hosts
      BY <1>1, <1>4, <2>2, ProcsAssumption DEF TypeOK, WorkerTypeOK, TaskTypeOK, RunPC
    <3>2. task[q].msg # task[p].msg
      BY <1>1, <1>3, <2>2, OneEach
    <3>3. container'[HostOf[q]][task[q].msg] = container[HostOf[q]][task[q].msg]
      BY <1>2, <3>1, <3>2
    <3>4. Here(q).owner = q
      BY <3>1 DEF BeforeFaults
    <3> QED BY <1>1, <2>2, <3>3, <3>4 DEF Here, Running
  <2> QED BY <2>1, <2>2
<1>5. ASSUME NEW h \in Hosts, NEW t \in Tests, container'[h][t].state # "none"
      PROVE  Attended(h, t)'
  <2>1. CASE h = HostOf[p] /\ t = task[p].msg
    BY <1>1, <2>1 DEF Attended, Inside
  <2>2. CASE h # HostOf[p] \/ t # task[p].msg
    <3>1. Attended(h, t)
      BY <1>2, <1>5, <2>2 DEF BeforeFaults
    <3>2. PICK q \in Procs : HostOf[q] = h /\ task[q].msg = t /\ task[q].pc \in Inside
      BY <3>1 DEF Attended
    <3>3. q # p
      BY <2>2, <3>2
    <3> QED BY <1>1, <3>2, <3>3 DEF Attended
  <2> QED BY <2>1, <2>2
<1>6. \A q \in Procs : task'[q].pc # "except" /\ (task'[q].msg # None => task'[q].valid)
  BY <1>1, <1>3 DEF BeforeFaults
<1> QED BY <1>4, <1>5, <1>6 DEF BeforeFaults

LEMMA RemovesOwn ==
    ASSUME TypeOK, DeliveryInv, BeforeFaults, KnownRunners, budget = MaxFaults,
           NEW p \in Procs, RunCleanup(p)
    PROVE  BeforeFaults'
<1>1. /\ \A q \in Procs : q # p => task'[q] = task[q]
      /\ task'[p].pc = "release"
      /\ task'[p].msg = task[p].msg /\ task'[p].valid = task[p].valid
      /\ HostOf[p] \in Hosts /\ task[p].msg \in Tests
  BY ProcsAssumption DEF RunCleanup, Step, TypeOK, WorkerTypeOK, TaskTypeOK, Task, RunPC
<1>2. /\ container'[HostOf[p]][task[p].msg].state = "none"
      /\ \A h \in Hosts, t \in Tests :
            h # HostOf[p] \/ t # task[p].msg => container'[h][t] = container[h][t]
  BY <1>1 DEF RunCleanup, SetHere, Running, NoContainer, TypeOK, WorkerTypeOK
<1>3. \A r \in Procs : task[r].msg # None => task[r].valid
  BY DEF BeforeFaults
<1>4. ASSUME NEW q \in Procs, task'[q].pc = "stream" PROVE Here(q)'.owner = q
  <2>1. q # p
    BY <1>1, <1>4
  <2>2. task[q].pc = "stream" /\ task[q].msg \in Tests /\ HostOf[q] \in Hosts
    BY <1>1, <1>4, <2>1, ProcsAssumption DEF TypeOK, WorkerTypeOK, TaskTypeOK, RunPC
  <2>3. task[q].msg # task[p].msg
    BY <1>1, <1>3, <2>1, OneEach
  <2>4. container'[HostOf[q]][task[q].msg] = container[HostOf[q]][task[q].msg]
    BY <1>2, <2>2, <2>3
  <2>5. Here(q).owner = q
    BY <2>2 DEF BeforeFaults
  <2> QED BY <1>1, <2>1, <2>4, <2>5 DEF Here, Running
<1>5. ASSUME NEW h \in Hosts, NEW t \in Tests, container'[h][t].state # "none"
      PROVE  Attended(h, t)'
  <2>1. h # HostOf[p] \/ t # task[p].msg
    BY <1>2, <1>5
  <2>2. Attended(h, t)
    BY <1>2, <1>5, <2>1 DEF BeforeFaults
  <2>3. PICK q \in Procs : HostOf[q] = h /\ task[q].msg = t /\ task[q].pc \in Inside
    BY <2>2 DEF Attended
  <2>4. q # p
    BY <2>1, <2>3
  <2> QED BY <1>1, <2>3, <2>4 DEF Attended
<1>6. \A q \in Procs : task'[q].pc # "except" /\ (task'[q].msg # None => task'[q].valid)
  BY <1>1, <1>3 DEF BeforeFaults
<1> QED BY <1>4, <1>5, <1>6 DEF BeforeFaults

\* Nobody's container is in the way, and nobody takes another's away.
LEMMA NothingRaises ==
    ASSUME TypeOK, DeliveryInv, BeforeFaults, KnownRunners, budget = MaxFaults, NEW p \in Procs
    PROVE  ~RunStartRefused(p) /\ ~StreamBreaks(p) /\ ~RunExcept(p)
<1>1. ~StreamBreaks(p) /\ ~RunExcept(p)
  BY DEF StreamBreaks, RunExcept, Step, BeforeFaults
<1>2. ASSUME RunStartRefused(p) PROVE FALSE
  <2>1. task[p].pc = "start" /\ task[p].msg \in Tests /\ HostOf[p] \in Hosts
    BY <1>2, ProcsAssumption
       DEF RunStartRefused, Step, TypeOK, WorkerTypeOK, TaskTypeOK, RunPC
  <2>2. container[HostOf[p]][task[p].msg].state # "none"
    BY <1>2, <2>1 DEF RunStartRefused, Here, Running, KnownRunners
  <2>3. PICK q \in Procs : task[q].msg = task[p].msg /\ task[q].pc \in Inside
    BY <2>1, <2>2 DEF BeforeFaults, Attended
  <2>4. q = p
    BY <2>1, <2>3, OneEach DEF BeforeFaults
  <2> QED BY <2>1, <2>3, <2>4 DEF Inside
<1> QED BY <1>1, <1>2

LEMMA RunBeforeFaults ==
    ASSUME TypeOK, DeliveryInv, BeforeFaults, KnownRunners, budget = MaxFaults,
           \A k : ~Fault(k), NEW p \in Procs, RunStep(p)
    PROVE  BeforeFaults'
<1>0. /\ task \in [Procs -> Task]
      /\ task[p].msg # None => task[p].valid
  BY DEF TypeOK, WorkerTypeOK, TaskTypeOK, BeforeFaults
<1>1. CASE RunBegin(p) \/ StreamEnds(p) \/ RunFinish(p) \/ DecrementRead(p)
           \/ DecrementSkip(p) \/ DecrementWrite(p)
  <2>1. /\ task' = [task EXCEPT ![p] = task'[p]]
        /\ task'[p].msg = task[p].msg /\ task'[p].valid = task[p].valid
        /\ task'[p].pc \notin {"except", "stream"}
        /\ task[p].pc \in Inside => task'[p].pc \in Inside
    BY <1>0, <1>1 DEF RunBegin, StreamEnds, RunFinish, DecrementRead, DecrementSkip,
                      DecrementWrite, Step, Task, Inside
  <2>2. UNCHANGED container
    BY <1>1 DEF RunBegin, StreamEnds, RunFinish, DecrementRead, DecrementSkip, DecrementWrite
  <2> QED BY <1>0, <2>1, <2>2, QuietStep
<1>2. CASE Acknowledge(p)
  <2>1. /\ task' = [task EXCEPT ![p] = Idle] /\ UNCHANGED container
        /\ task[p].pc \notin Inside
    BY <1>2 DEF Acknowledge, EndTask, LeaveTask, Inside
  <2>2. /\ task' = [task EXCEPT ![p] = task'[p]]
        /\ task'[p].pc = "idle" /\ task'[p].msg = None
    BY <1>0, <2>1 DEF Idle
  <2> QED BY <2>1, <2>2, QuietStep
<1>3. ~(\/ RunBeginFails(p) \/ RunStartFails(p) \/ StreamFails(p) \/ RunFinishFails(p)
        \/ RunExceptFails(p) \/ RunCleanupFails(p) \/ DecrementFails(p))
  BY DEF RunBeginFails, RunStartFails, StreamFails, RunFinishFails, RunExceptFails,
         RunCleanupFails, DecrementFails
<1> QED BY <1>1, <1>2, <1>3, NothingRaises, StartsFresh, RemovesOwn DEF RunStep

LEMMA PeriodicBeforeFaults ==
    ASSUME TypeOK, BeforeFaults, KnownRunners, budget = MaxFaults,
           \A k : ~Fault(k), NEW p \in Procs, HeartbeatStep(p) \/ ReapStep(p)
    PROVE  BeforeFaults'
<1>0. /\ task \in [Procs -> Task]
      /\ task[p].msg # None => task[p].valid
  BY DEF TypeOK, WorkerTypeOK, TaskTypeOK, BeforeFaults
<1>1. ~HeartbeatCountFails(p) /\ ~HeartbeatFails(p) /\ ~ReapFails(p)
  BY DEF HeartbeatCountFails, HeartbeatFails, ReapFails
<1>2. CASE HeartbeatCount(p) \/ ReapScan(p)
  <2>1. /\ task' = [task EXCEPT ![p] = task'[p]] /\ UNCHANGED container
        /\ task'[p].msg = task[p].msg /\ task'[p].valid = task[p].valid
        /\ task'[p].pc \in {"beat", "reap"} /\ task[p].pc \in {"count", "scan"}
    BY <1>0, <1>2 DEF HeartbeatCount, ReapScan, Task
  <2> QED BY <1>0, <2>1, QuietStep DEF Inside
<1>3. CASE (\E cpu \in CpuLevels : HeartbeatWrite(p, cpu)) \/ ReapWrite(p)
  <2>1. /\ task' = [task EXCEPT ![p] = Idle] /\ UNCHANGED container
        /\ task[p].pc \in {"beat", "reap"}
    BY <1>3 DEF HeartbeatWrite, ReapWrite, EndTask, LeaveTask
  <2>2. /\ task' = [task EXCEPT ![p] = task'[p]]
        /\ task'[p].pc = "idle" /\ task'[p].msg = None
    BY <1>0, <2>1 DEF Idle
  <2> QED BY <2>1, <2>2, QuietStep DEF Inside
<1> QED BY <1>1, <1>2, <1>3 DEF HeartbeatStep, ReapStep

LEMMA HostBeforeFaults ==
    ASSUME TypeOK, BeforeFaults, KnownRunners, budget = MaxFaults,
           \A k : ~Fault(k), NEW h0 \in Hosts, HostStep(h0)
    PROVE  BeforeFaults'
<1>1. UNCHANGED task
  BY DEF HostStep, Beat, ContainerExits, Crash, Restart, ConnectionLost, workerVars
<1>2. \A h \in Hosts, t \in Tests : /\ container'[h][t].owner = container[h][t].owner
                                    /\ container'[h][t].state # "none" => container[h][t].state # "none"
  <2>1. CASE UNCHANGED container
    BY <2>1
  <2>2. ASSUME NEW u \in Tests, ContainerExits(h0, u)
        PROVE  \A h \in Hosts, t \in Tests :
                  /\ container'[h][t].owner = container[h][t].owner
                  /\ container'[h][t].state # "none" => container[h][t].state # "none"
    <3>1. PICK s \in {"passed", "dead"} :
             container' = [container EXCEPT ![h0][u].state = s]
      BY <2>2 DEF ContainerExits
    <3>2. /\ container \in [Hosts -> [Tests -> Container]]
          /\ container[h0][u].state = "running"
      BY <2>2 DEF ContainerExits, TypeOK, WorkerTypeOK
    <3> QED BY <3>1, <3>2 DEF Container
  <2> QED BY <2>1, <2>2 DEF HostStep, Beat, Crash, Restart, ConnectionLost, workerVars
<1>3. \A h \in Hosts, t \in Tests : Attended(h, t) => Attended(h, t)'
  BY <1>1 DEF Attended
<1>4. ASSUME NEW q \in Procs, task'[q].pc = "stream" PROVE Here(q)'.owner = q
  <2>1. task[q].msg \in Tests /\ HostOf[q] \in Hosts
    BY <1>1, <1>4, ProcsAssumption DEF TypeOK, WorkerTypeOK, TaskTypeOK, RunPC
  <2>2. Here(q).owner = q
    BY <1>1, <1>4 DEF BeforeFaults
  <2> QED BY <1>1, <1>2, <2>1, <2>2 DEF Here, Running
<1> QED BY <1>1, <1>2, <1>3, <1>4 DEF BeforeFaults

LEMMA NextBeforeFaults ==
    TypeOK /\ DeliveryInv /\ BeforeFaults /\ [Next]_vars => BeforeFaults'
<1> SUFFICES ASSUME TypeOK, DeliveryInv, BeforeFaults, [Next]_vars,
                    KnownRunners, budget' = MaxFaults
             PROVE  BeforeFaults'
  BY DEF BeforeFaults
<1>1. budget = MaxFaults /\ \A k : ~Fault(k)
  BY NextSpends, NoFaultYet
<1>2. ASSUME NEW p \in Procs, NEW m \in Messages, Deliver(p, m) PROVE BeforeFaults'
  <2>1. /\ task' = [task EXCEPT ![p] = [Idle EXCEPT !.pc = FirstPC(m), !.msg = m, !.valid = TRUE]]
        /\ task[p].pc = "idle" /\ UNCHANGED container /\ task \in [Procs -> Task]
    BY <1>2 DEF Deliver, TypeOK, WorkerTypeOK, TaskTypeOK
  <2>2. /\ task' = [task EXCEPT ![p] = task'[p]]
        /\ task'[p].pc = FirstPC(m) /\ task'[p].valid
    BY <2>1 DEF Idle
  <2>3. FirstPC(m) \notin {"except", "stream"}
    BY DEF FirstPC
  <2> QED BY <1>1, <2>1, <2>2, <2>3, QuietStep DEF Inside
<1>3. ASSUME BackendNext \/ Tick \/ UNCHANGED vars PROVE BeforeFaults'
  <2>1. UNCHANGED <<task, container>>
    BY <1>3, BackendQueues
  <2>2. /\ \A h \in Hosts, t \in Tests : Attended(h, t) => Attended(h, t)'
        /\ \A q \in Procs : Here(q)' = Here(q)
    BY <2>1 DEF Attended, Here, Running
  <2> QED BY <1>1, <2>1, <2>2 DEF BeforeFaults
<1>4. ASSUME NEW p \in Procs PROVE ~ProcessDies(p)
  BY <1>1 DEF ProcessDies
<1> QED BY <1>1, <1>2, <1>3, <1>4, RunBeforeFaults, PeriodicBeforeFaults, HostBeforeFaults
        DEF Next, WorkerNext

-----------------------------------------------------------------------------
LEMMA NextDecides ==
    NoOrphaningFaults /\ TypeOK /\ DeliveryInv /\ RowInv /\ [Next]_vars => RowInv'
<1> SUFFICES ASSUME NoOrphaningFaults, TypeOK, DeliveryInv, RowInv, [Next]_vars
             PROVE  RowInv'
  OBVIOUS
<1>1. NoCrashAfterLoss
  BY DEF NoOrphaningFaults
<1>2. CrashGivesBack' /\ BeforeFaults'
  BY <1>1, NextGivesBack, NextBeforeFaults DEF RowInv
<1>3. Decided'
  BY NextAbandons, DeliverDecides, RunDecides, AbandonDecides, PeriodicDecides, HostDecides,
     BackendDecides DEF Next, WorkerNext
<1> QED BY <1>2, <1>3 DEF RowInv

LEMMA InitDecides == Init => RowInv
<1> SUFFICES ASSUME Init PROVE RowInv
  OBVIOUS
<1>1. /\ \A p \in Procs : task[p].pc = "idle" /\ task[p].msg = None
      /\ \A h \in Hosts, t \in Tests : container[h][t].state = "none"
  BY DEF Init, WorkerInit, Idle, NoContainer
<1>2. \A t \in Tests : executions[t].status = "ABSENT"
  BY DEF Init, StoreInit
<1> QED BY <1>1, <1>2, InitGivesBack DEF RowInv, BeforeFaults, Decided

\* Whoever writes RUNNING (run_test_bundle) also gets to write the verdict, or
\* dies with its whole worker and leaves the message to another who does.  A row
\* stays RUNNING only after a fault on top of a fault, or because the process
\* died alone or failed before its try block (abandoned), the message being
\* acknowledged: for these the reaper is there.
THEOREM NoRunIsOrphaned == NoOrphaningFaults /\ Spec => []RunningIsAttended
<1>1. Init => TypeOK /\ DeliveryInv /\ RowInv
  BY InitType, InitDelivery, InitDecides
<1>2. NoOrphaningFaults /\ TypeOK /\ DeliveryInv /\ RowInv /\ [Next]_vars
         => TypeOK' /\ DeliveryInv' /\ RowInv'
  BY NextType, NextDelivery, NextDecides
<1>3. ASSUME NoOrphaningFaults PROVE Spec => []RunningIsAttended
  <2>1. TypeOK /\ DeliveryInv /\ RowInv /\ [Next]_vars => TypeOK' /\ DeliveryInv' /\ RowInv'
    BY <1>2, <1>3
  <2> QED BY <1>1, <2>1, DecidedIsAttended, PTL DEF Spec
<1> QED BY <1>3
===============================================================================
