--------------------------- MODULE RefinementProofs ---------------------------
(****************************************************************************)
(* Orchestrator implements LateAck.  With exactly one copy of a live test's *)
(* message (DeliveryInv), its stage is determined by the broker's records   *)
(* alone, and each kind of step moves it as LateAck does.                   *)
(****************************************************************************)
EXTENDS DeliveryProofs, Refinement

\* The stage of a message, without the processes: not queued is held.
StageIs(t) ==
    /\ routed[t] = None => Stage(t) = "unsent"
    /\ Live(t) /\ t \in queue[routed[t]] => Stage(t) = "queued"
    /\ Live(t) /\ t \notin queue[routed[t]] => Stage(t) = "held"
    /\ routed[t] # None /\ t \in acked => Stage(t) = "done"

LEMMA StageKnown == DeliveryInv => \A t \in Tests : StageIs(t)
<1> SUFFICES ASSUME DeliveryInv, NEW t \in Tests PROVE StageIs(t)
  OBVIOUS
<1>1. Live(t) => t \in queue[routed[t]] \/ \E p \in Procs : Holds(p, t)
  BY DEF DeliveryInv, ExactlyOneCopy
<1>2. CASE routed[t] = None
  BY <1>2 DEF StageIs, Stage, Live
<1>3. CASE Live(t)
  BY <1>1, <1>3 DEF StageIs, Stage, Live
<1>4. CASE routed[t] # None /\ t \in acked
  BY <1>4 DEF StageIs, Stage, Live
<1> QED BY <1>2, <1>3, <1>4 DEF Live

LEMMA StageKnownNext == DeliveryInv' => \A t \in Tests : StageIs(t)'
<1> SUFFICES ASSUME DeliveryInv', NEW t \in Tests PROVE StageIs(t)'
  OBVIOUS
<1>1. Live(t)' => t \in queue'[routed'[t]] \/ \E p \in Procs : Holds(p, t)'
  BY DEF DeliveryInv, ExactlyOneCopy
<1>2. CASE routed'[t] = None
  BY <1>2 DEF StageIs, Stage, Live
<1>3. CASE Live(t)'
  BY <1>1, <1>3 DEF StageIs, Stage, Live
<1>4. CASE routed'[t] # None /\ t \in acked'
  BY <1>4 DEF StageIs, Stage, Live
<1> QED BY <1>2, <1>3, <1>4 DEF Live

\* One message moves and the others stay.
LEMMA MoveOne ==
    ASSUME NEW t0 \in Tests, NEW from, NEW to,
           Stage(t0) = from, Stage(t0)' = to,
           \A t \in Tests : t # t0 => Stage(t)' = Stage(t)
    PROVE  Broker!Move(t0, from, to)
BY DEF Broker!Move

LEMMA NoMove ==
    ASSUME routed' = routed, \A t \in Tests : Stage(t)' = Stage(t)
    PROVE  UNCHANGED <<[t \in Tests |-> Stage(t)], routed>>
OBVIOUS

\* No record of the broker about tests changes.
LEMMA SameStages ==
    ASSUME DeliveryInv, DeliveryInv', routed' = routed, acked' = acked,
           \A h \in Hosts, t \in Tests : t \in queue'[h] <=> t \in queue[h],
           \A t \in Tests : routed[t] \in Hosts \cup {None}
    PROVE  [Broker!Next]_<<[t \in Tests |-> Stage(t)], routed>>
<1>1. ASSUME NEW t \in Tests PROVE Stage(t)' = Stage(t)
  <2>1. StageIs(t) /\ StageIs(t)'
    BY StageKnown, StageKnownNext
  <2> QED BY <2>1 DEF StageIs, Live
<1> QED BY <1>1, NoMove

LEMMA LeaveTaskStages ==
    ASSUME TypeOK, DeliveryInv, DeliveryInv', NEW p \in Procs, LeaveTask(p)
    PROVE  [Broker!Next]_<<[t \in Tests |-> Stage(t)], routed>>
<1>1. /\ UNCHANGED <<queue, routed>>
      /\ \A t \in Tests : routed[t] \in Hosts \cup {None}
  BY DEF LeaveTask, TypeOK, StoreTypeOK
<1>2. CASE \E t \in Tests : Holds(p, t)
  <2>1. PICK t \in Tests : Holds(p, t)
    BY <1>2
  <2>2. acked' = acked \cup {t}
    BY <2>1 DEF LeaveTask, Holds
  <2>3. Live(t) /\ t \notin queue[routed[t]]
    BY <2>1, CopyOf, <1>1 DEF Copy, Live
  <2>4. \A u \in Tests : StageIs(u) /\ StageIs(u)'
    BY StageKnown, StageKnownNext
  <2>5. Stage(t) = "held" /\ Stage(t)' = "done"
    BY <1>1, <2>2, <2>3, <2>4 DEF StageIs, Live
  <2>6. \A u \in Tests : u # t => Stage(u)' = Stage(u)
    BY <1>1, <2>2, <2>4 DEF StageIs, Live
  <2> QED BY <1>1, <2>5, <2>6, MoveOne DEF Broker!Next, Broker!Finish
<1>3. CASE ~\E t \in Tests : Holds(p, t)
  <2>1. acked' = acked
    BY <1>3 DEF LeaveTask, Holds
  <2> QED BY <1>1, <2>1, SameStages
<1> QED BY <1>2, <1>3

LEMMA DeliverStages ==
    ASSUME TypeOK, DeliveryInv, DeliveryInv', NEW p \in Procs, NEW m \in Messages, Deliver(p, m)
    PROVE  [Broker!Next]_<<[t \in Tests |-> Stage(t)], routed>>
<1>1. /\ UNCHANGED <<routed, acked>>
      /\ HostOf[p] \in Hosts /\ m \in queue[HostOf[p]]
      /\ \A h \in Hosts, t \in Tests :
            t \in queue'[h] <=> t \in queue[h] /\ ~(h = HostOf[p] /\ t = m)
      /\ \A t \in Tests : routed[t] \in Hosts \cup {None}
  BY ProcsAssumption DEF Deliver, TypeOK, StoreTypeOK
<1>2. CASE m \in Tests
  <2>1. Live(m) /\ HostOf[p] = routed[m]
    BY <1>1, <1>2, CopyOf DEF Copy
  <2>2. \A u \in Tests : StageIs(u) /\ StageIs(u)'
    BY StageKnown, StageKnownNext
  <2>3. Stage(m) = "queued" /\ Stage(m)' = "held"
    BY <1>1, <1>2, <2>1, <2>2 DEF StageIs, Live
  <2>4. \A u \in Tests : u # m => Stage(u)' = Stage(u)
    BY <1>1, <2>2 DEF StageIs, Live
  <2> QED BY <1>1, <1>2, <2>3, <2>4, MoveOne DEF Broker!Next, Broker!Take
<1>3. CASE m \notin Tests
  BY <1>1, <1>3, SameStages
<1> QED BY <1>2, <1>3

LEMMA PublishStages ==
    ASSUME TypeOK, DeliveryInv, DeliveryInv', NEW t0 \in Tests,
           req[t0].pc = "publish", Send(t0)
    PROVE  [Broker!Next]_<<[t \in Tests |-> Stage(t)], routed>>
<1> DEFINE h0 == req[t0].host
<1>1. /\ h0 \in Hosts /\ h0 # None /\ acked' = acked
      /\ \A h \in Hosts, t \in Tests :
            t \in queue'[h] <=> t \in queue[h] \/ (h = h0 /\ t = t0)
      /\ routed' = [routed EXCEPT ![t0] = h0]
      /\ \A t \in Tests : routed'[t] = IF t = t0 THEN h0 ELSE routed[t]
      /\ t0 \notin acked /\ routed[t0] = None
      /\ \A t \in Tests : routed[t] \in Hosts \cup {None}
  BY NoneAssumption
     DEF Send, TypeOK, StoreTypeOK, SubmissionTypeOK, Request, HostChosen, DeliveryInv,
         UnsentUnrouted
<1>2. \A u \in Tests : StageIs(u) /\ StageIs(u)'
  BY StageKnown, StageKnownNext
<1>3. Stage(t0) = "unsent" /\ Stage(t0)' = "queued"
  BY <1>1, <1>2 DEF StageIs, Live
<1>4. \A u \in Tests : u # t0 => Stage(u)' = Stage(u)
  BY <1>1, <1>2 DEF StageIs, Live
<1>5. Broker!Send(t0, h0)
  BY <1>1, <1>3, <1>4, MoveOne DEF Broker!Send
<1> QED BY <1>1, <1>5 DEF Broker!Next

LEMMA RequeueStages ==
    ASSUME TypeOK, DeliveryInv, DeliveryInv', NEW h0 \in Hosts, Requeue(h0)
    PROVE  [Broker!Next]_<<[t \in Tests |-> Stage(t)], routed>>
<1>1. /\ UNCHANGED <<routed, acked>>
      /\ \A h \in Hosts, t \in Tests :
            t \in queue'[h] <=> t \in queue[h] \/ (h = h0 /\ t \in Unacked(h0))
      /\ \A t \in Tests : routed[t] \in Hosts \cup {None}
  BY DEF Requeue, TypeOK, StoreTypeOK
<1>2. \A t \in Tests : t \in Unacked(h0) <=> \E q \in Procs : HostOf[q] = h0 /\ Holds(q, t)
  BY DEF Unacked, Holds
<1>3. ASSUME NEW t \in Tests
      PROVE  Stage(t)' = IF Stage(t) = "held" /\ routed[t] = h0 THEN "queued" ELSE Stage(t)
  <2>1. StageIs(t) /\ StageIs(t)' /\ Copy(t)
    BY StageKnown, StageKnownNext, CopyOf
  <2>2. CASE Live(t) /\ t \notin queue[routed[t]] /\ routed[t] = h0
    <3>1. t \in queue'[h0]
      BY <1>1, <1>2, <2>1, <2>2 DEF Copy
    <3> QED BY <1>1, <2>1, <2>2, <3>1 DEF StageIs, Live
  <2>3. CASE ~(Live(t) /\ t \notin queue[routed[t]] /\ routed[t] = h0)
    BY <1>1, <2>1, <2>3 DEF StageIs, Live
  <2> QED BY <2>2, <2>3
<1>4. Broker!GiveBack(h0)
  BY <1>1, <1>3 DEF Broker!GiveBack
<1> QED BY <1>4 DEF Broker!Next

-----------------------------------------------------------------------------
\* The steps that move no message of a test.
LEMMA StutterStages ==
    ASSUME TypeOK, DeliveryInv, DeliveryInv', UNCHANGED brokerVars
    PROVE  [Broker!Next]_<<[t \in Tests |-> Stage(t)], routed>>
BY SameStages DEF brokerVars, TypeOK, StoreTypeOK

LEMMA WorkerStages ==
    ASSUME TypeOK, DeliveryInv, DeliveryInv', WorkerNext
    PROVE  [Broker!Next]_<<[t \in Tests |-> Stage(t)], routed>>
<1>1. ASSUME NEW p \in Procs, NEW m \in Messages, Deliver(p, m)
      PROVE  [Broker!Next]_<<[t \in Tests |-> Stage(t)], routed>>
  BY <1>1, DeliverStages
<1>2. ASSUME NEW p \in Procs, TaskStep(p)
      PROVE  [Broker!Next]_<<[t \in Tests |-> Stage(t)], routed>>
  <2>1. CASE LeaveTask(p)
    BY <2>1, LeaveTaskStages
  <2>2. CASE ~LeaveTask(p)
    BY <1>2, <2>2, RunKeepsDelivery, StutterStages
  <2> QED BY <2>1, <2>2
<1>3. ASSUME NEW h \in Hosts, HostStep(h)
      PROVE  [Broker!Next]_<<[t \in Tests |-> Stage(t)], routed>>
  <2>1. ASSUME NEW k \in Beats, Beat(h, k)
        PROVE  [Broker!Next]_<<[t \in Tests |-> Stage(t)], routed>>
    <3>1. \A g \in Hosts, t \in Tests : t \in queue'[g] <=> t \in queue[g]
      BY <2>1, BeatsAssumption, NamesAssumption DEF Beat, TypeOK, StoreTypeOK
    <3> QED BY <2>1, <3>1, SameStages DEF Beat, TypeOK, StoreTypeOK
  <2>2. CASE Crash(h) \/ ConnectionLost(h)
    BY <2>2, RequeueStages DEF Crash, ConnectionLost
  <2>3. CASE (\E t \in Tests : ContainerExits(h, t)) \/ Restart(h)
    BY <2>3, StutterStages DEF ContainerExits, Restart
  <2> QED BY <1>3, <2>1, <2>2, <2>3 DEF HostStep
<1> QED BY <1>1, <1>2, <1>3 DEF WorkerNext, TaskStep

LEMMA BackendStages ==
    ASSUME TypeOK, DeliveryInv, DeliveryInv', BackendNext
    PROVE  [Broker!Next]_<<[t \in Tests |-> Stage(t)], routed>>
<1> USE DEF tableVars
<1>1. ASSUME NEW t \in Tests, SubmissionStep(t)
      PROVE  [Broker!Next]_<<[u \in Tests |-> Stage(u)], routed>>
  <2>1. CASE (Publish(t) \/ PublishFails(t)) /\ Send(t)
    BY <2>1, PublishStages DEF Publish, PublishFails
  <2>2. CASE ~Publish(t) /\ ~(PublishFails(t) /\ Send(t))
    <3>1. UNCHANGED brokerVars
      BY <1>1, <2>2
         DEF SubmissionStep, SubmitTest, DispatchNone, DispatchSelect, DispatchError,
             CommitReservation, CommitFails, RefetchHost, PublishFails, UndoReservation,
             UndoFails, RecordDispatched, RecordFailed, RecordFails
    <3> QED BY <3>1, StutterStages
  <2> QED BY <2>1, <2>2 DEF Publish
<1>2. ASSUME NEW e \in AdminEdits, UpdateHost(e) PROVE UNCHANGED brokerVars
  BY <1>2 DEF UpdateHost
<1>3. CASE MaintenanceNext
  <2>1. UNCHANGED brokerVars
    BY <1>3 DEF MaintenanceNext, SweepRead, SweepMark, SweepQuery, SweepFail, SweepAborts
  <2> QED BY <2>1, StutterStages
<1>4. CASE BackendCrash
  BY <1>4, StutterStages DEF BackendCrash
<1> QED BY <1>1, <1>2, <1>3, <1>4, StutterStages DEF BackendNext

LEMMA NextStages ==
    TypeOK /\ DeliveryInv /\ DeliveryInv' /\ [Next]_vars =>
        [Broker!Next]_<<[t \in Tests |-> Stage(t)], routed>>
<1>1. CASE Tick
  BY <1>1, StutterStages DEF Tick
<1>2. CASE UNCHANGED vars
  BY <1>2, StutterStages DEF vars
<1> QED BY <1>1, <1>2, WorkerStages, BackendStages DEF Next

LEMMA InitStages == Init => Broker!Init
<1> SUFFICES ASSUME Init PROVE Broker!Init
  OBVIOUS
<1>1. \A t \in Tests : routed[t] = None /\ Stage(t) = "unsent"
  BY DEF Init, StoreInit, Stage, Live
<1>2. routed = [t \in Tests |-> None]
  BY DEF Init, StoreInit
<1> QED BY <1>1, <1>2 DEF Broker!Init

\* Delivery implements LateAck (src/worker/celery_app.py: task_acks_late, and no
\* task_reject_on_worker_lost): sent once and to one host, acknowledged only when
\* the task of the process that holds it is over, the lone death of that process
\* included, given back by a worker that crashes or loses its connection, and
\* never anywhere else.
THEOREM DeliveryImplementsLateAck == Spec => ImplementsLateAck
<1>1. TypeOK /\ DeliveryInv /\ [Next]_vars => DeliveryInv'
  BY NextDelivery
<1>2. Init => TypeOK /\ DeliveryInv /\ Broker!Init
  BY InitType, InitDelivery, InitStages
<1>3. TypeOK /\ [Next]_vars => TypeOK'
  BY NextType
<1>4. TypeOK /\ DeliveryInv /\ DeliveryInv' /\ [Next]_vars =>
        [Broker!Next]_<<[t \in Tests |-> Stage(t)], routed>>
  BY NextStages
<1> QED BY <1>1, <1>2, <1>3, <1>4, PTL DEF Spec, ImplementsLateAck, Broker!Spec
===============================================================================
