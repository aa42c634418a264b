--------------------------- MODULE PlacementProofs ---------------------------
(****************************************************************************)
(* PlacementSound: what a dispatch decided under the row locks is still     *)
(* right when its reservation commits; and the locks are held by nobody     *)
(* else and no longer (LocksAreReleased).                                   *)
(****************************************************************************)
EXTENDS TypeProofs

\* The inductive invariant: a handler between its locking SELECT and its commit
\* is the holder of the locks, and what it read of the inventory is what the
\* inventory still says.
LockProtects ==
    \A t \in Tests : req[t].pc = "reserve" =>
        /\ lock = t
        /\ req[t].host \in req[t].survivors
        /\ req[t].survivors \subseteq registered
        /\ req[t].seen = workerHosts[req[t].host].active_containers
        /\ \A g \in req[t].survivors :
              PassesFilter(workerHosts[g], Bundle[t]) /\ Precedes(req[t].host, g)

\* Two inventories agree on h as far as the filter and the ranking read it.
SameRow(h) ==
    \A f \in {"is_online", "active_containers", "max_containers", "cpu_utilization",
              "hardware_tags", "supports_emulation"} :
        workerHosts'[h][f] = workerHosts[h][f]

LEMMA LockedRows ==
    ASSUME TypeOK, LockProtects, UNCHANGED req, lock' = lock,
           registered \subseteq registered',
           \A h \in registered : SameRow(h)
    PROVE  LockProtects'
<1> SUFFICES ASSUME NEW t \in Tests, req[t].pc = "reserve" PROVE
        /\ lock = t
        /\ req[t].host \in req[t].survivors
        /\ req[t].survivors \subseteq registered
        /\ req[t].seen = workerHosts'[req[t].host].active_containers
        /\ \A g \in req[t].survivors :
              PassesFilter(workerHosts'[g], Bundle[t]) /\ Precedes(req[t].host, g)'
  BY DEF LockProtects
<1>1. /\ lock = t
      /\ req[t].host \in req[t].survivors
      /\ req[t].survivors \subseteq registered
      /\ req[t].seen = workerHosts[req[t].host].active_containers
      /\ \A g \in req[t].survivors :
            PassesFilter(workerHosts[g], Bundle[t]) /\ Precedes(req[t].host, g)
  BY DEF LockProtects
<1>2. \A g \in req[t].survivors :
         /\ workerHosts'[g].is_online = workerHosts[g].is_online
         /\ workerHosts'[g].active_containers = workerHosts[g].active_containers
         /\ workerHosts'[g].max_containers = workerHosts[g].max_containers
         /\ workerHosts'[g].cpu_utilization = workerHosts[g].cpu_utilization
         /\ workerHosts'[g].hardware_tags = workerHosts[g].hardware_tags
         /\ workerHosts'[g].supports_emulation = workerHosts[g].supports_emulation
  BY <1>1 DEF SameRow
<1> QED BY <1>1, <1>2 DEF PassesFilter, Precedes, WorkloadScore

\* A step taken while nobody holds the locks, that makes nobody hold them.
LEMMA NobodyLocked ==
    ASSUME LockProtects, Unlocked, UNCHANGED req
    PROVE  LockProtects'
BY NoneAssumption DEF LockProtects, Unlocked, Messages

\* A handler's step other than the locking SELECT: it is in no other handler's
\* way, and it is not at "reserve" afterwards.
LEMMA OtherHandlers ==
    ASSUME TypeOK, LockProtects, NEW t \in Tests,
           \A u \in Tests \ {t} : req'[u] = req[u],
           req'[t].pc # "reserve",
           \/ UNCHANGED <<workerHosts, registered, lock>>
           \/ Unlocked
           \/ req[t].pc = "reserve"
    PROVE  LockProtects'
<1>1. CASE UNCHANGED <<workerHosts, registered, lock>>
  BY <1>1 DEF LockProtects, PassesFilter, Precedes, WorkloadScore
<1>2. CASE Unlocked \/ req[t].pc = "reserve"
  <2>1. \A u \in Tests : req'[u].pc # "reserve"
    BY <1>2, NoneAssumption DEF LockProtects, Unlocked, Messages
  <2> QED BY <2>1 DEF LockProtects
<1> QED BY <1>1, <1>2

LEMMA SelectLocks ==
    ASSUME TypeOK, LockProtects, NEW t \in Tests, NEW h \in Hosts, DispatchSelect(t, h)
    PROVE  LockProtects'
<1>1. \A u \in Tests \ {t} : req'[u].pc # "reserve"
  BY NoneAssumption
     DEF DispatchSelect, LockProtects, Unlocked, Messages, TypeOK, SubmissionTypeOK
<1>2. /\ req'[t].host = h
      /\ req'[t].seen = workerHosts[h].active_containers
      /\ req'[t].survivors = Survivors(t)
      /\ lock' = t
      /\ UNCHANGED <<workerHosts, registered>>
  BY DEF DispatchSelect, TypeOK, SubmissionTypeOK
<1>3. /\ h \in Survivors(t)
      /\ \A g \in Survivors(t) : PassesFilter(workerHosts[g], Bundle[t]) /\ Precedes(h, g)
      /\ Survivors(t) \subseteq registered
  BY DEF DispatchSelect, IsChosen, Survivors
<1>4. \A g \in Survivors(t) : PassesFilter(workerHosts'[g], Bundle[t]) /\ Precedes(h, g)'
  BY <1>2, <1>3 DEF PassesFilter, Precedes, WorkloadScore
<1> QED BY <1>1, <1>2, <1>3, <1>4 DEF LockProtects, PassesFilter, Precedes, WorkloadScore

LEMMA GotoMoves ==
    ASSUME TypeOK, NEW t \in Tests, NEW pc, pc # "reserve", Goto(t, pc)
    PROVE  (\A u \in Tests \ {t} : req'[u] = req[u]) /\ req'[t].pc # "reserve"
BY DEF Goto, TypeOK, SubmissionTypeOK, Request

LEMMA SubmissionKeepsLocks ==
    ASSUME TypeOK, LockProtects, NEW t \in Tests, SubmissionStep(t)
    PROVE  LockProtects'
<1> USE DEF tableVars
<1> DEFINE Moved == (\A u \in Tests \ {t} : req'[u] = req[u]) /\ req'[t].pc # "reserve"
<1>1. CASE SubmitTest(t) \/ DispatchNone(t) \/ DispatchError(t)
  <2>1. Moved
    BY <1>1, GotoMoves DEF SubmitTest, DispatchNone, DispatchError
  <2>2. UNCHANGED <<workerHosts, registered, lock>>
    BY <1>1 DEF SubmitTest, DispatchNone, DispatchError
  <2> QED BY <2>1, <2>2, OtherHandlers
<1>2. ASSUME NEW h \in Hosts, DispatchSelect(t, h) PROVE LockProtects'
  BY <1>2, SelectLocks
<1>3. CASE CommitReservation(t) \/ CommitFails(t)
  <2>1. req[t].pc = "reserve" /\ req \in [Tests -> Request]
    BY <1>3 DEF CommitReservation, CommitFails, TypeOK, SubmissionTypeOK
  <2>2. Moved
    <3>1. PICK pc \in {"publish", "refetch"} :
             req' = [req EXCEPT ![t].pc = pc, ![t].survivors = {}]
      BY <1>3 DEF CommitReservation, CommitFails
    <3> QED BY <2>1, <3>1 DEF Request
  <2> QED BY <2>1, <2>2, OtherHandlers
<1>4. CASE RefetchHost(t)
  <2>1. Moved
    BY <1>4 DEF RefetchHost, TypeOK, SubmissionTypeOK, Request
  <2> QED BY <1>4, <2>1, OtherHandlers DEF RefetchHost
<1>5. CASE Publish(t) \/ PublishFails(t) \/ UndoFails(t)
  <2>1. Moved
    BY <1>5, GotoMoves DEF Publish, PublishFails, UndoFails
  <2>2. UNCHANGED <<workerHosts, registered, lock>>
    BY <1>5 DEF Publish, PublishFails, UndoFails
  <2> QED BY <2>1, <2>2, OtherHandlers
<1>6. CASE UndoReservation(t)
  <2>1. Moved
    BY <1>6, GotoMoves DEF UndoReservation
  <2>2. lock \in {None, t} /\ req[t].pc # "reserve"
    BY <1>6 DEF UndoReservation
  <2>3. \A u \in Tests : req'[u].pc # "reserve"
    BY <2>1, <2>2, NoneAssumption DEF LockProtects, Messages
  <2> QED BY <2>3 DEF LockProtects
<1>7. CASE RecordDispatched(t) \/ RecordFailed(t) \/ RecordFails(t)
  <2>1. Moved
    BY <1>7, GotoMoves DEF RecordDispatched, RecordFailed, RecordFails
  <2>2. UNCHANGED <<workerHosts, registered, lock>>
    BY <1>7 DEF RecordDispatched, RecordFailed, RecordFails
  <2> QED BY <2>1, <2>2, OtherHandlers
<1> QED BY <1>1, <1>2, <1>3, <1>4, <1>5, <1>6, <1>7 DEF SubmissionStep

\* A heartbeat waits for the locks, or inserts a row nobody has read.
LEMMA HeartbeatKeepsLocks ==
    ASSUME TypeOK, LockProtects, NEW p \in Procs, NEW cpu \in CpuLevels,
           HeartbeatWrite(p, cpu), UNCHANGED req
    PROVE  LockProtects'
<1>1. HostOf[p] \in Hosts
  BY ProcsAssumption
<1>2. CASE HostOf[p] \in registered
  BY <1>2, NobodyLocked DEF HeartbeatWrite
<1>3. CASE HostOf[p] \notin registered
  <2>1. \A h \in registered : workerHosts'[h] = workerHosts[h]
    BY <1>3 DEF HeartbeatWrite, TypeOK, StoreTypeOK
  <2>2. lock' = lock /\ registered \subseteq registered'
    BY DEF HeartbeatWrite
  <2> QED BY <2>1, <2>2, LockedRows DEF SameRow
<1> QED BY <1>2, <1>3

LEMMA WorkerKeepsLocks ==
    ASSUME TypeOK, LockProtects, WorkerNext, UNCHANGED req
    PROVE  LockProtects'
<1> USE DEF tableVars
<1>0. UNCHANGED <<workerHosts, registered, lock>> => LockProtects'
  BY DEF LockProtects, PassesFilter, Precedes, WorkloadScore
<1>1. ASSUME NEW p \in Procs, NEW m \in Messages, Deliver(p, m) PROVE LockProtects'
  BY <1>0, <1>1 DEF Deliver
<1>2. ASSUME NEW p \in Procs, RunStep(p) PROVE LockProtects'
  <2>1. CASE DecrementWrite(p)
    BY <2>1, NobodyLocked DEF DecrementWrite
  <2>2. CASE ~DecrementWrite(p)
    BY <1>0, <1>2, <2>2
       DEF RunStep, RunBegin, RunBeginFails, RunStart, RunStartRefused, RunStartFails,
           StreamEnds, StreamBreaks, StreamFails, RunFinish, RunFinishFails, RunExcept,
           RunExceptFails, RunCleanup, RunCleanupFails, DecrementRead, DecrementSkip,
           DecrementFails, Acknowledge
  <2> QED BY <2>1, <2>2
<1>3. ASSUME NEW p \in Procs, HeartbeatStep(p) PROVE LockProtects'
  BY <1>0, <1>3, HeartbeatKeepsLocks
     DEF HeartbeatStep, HeartbeatCount, HeartbeatCountFails, HeartbeatFails
<1>4. ASSUME NEW p \in Procs, ReapStep(p) PROVE LockProtects'
  BY <1>0, <1>4 DEF ReapStep, ReapScan, ReapWrite, ReapFails
<1>5. ASSUME NEW h \in Hosts, HostStep(h) PROVE LockProtects'
  BY <1>0, <1>5 DEF HostStep, Beat, ContainerExits, Crash, Restart, ConnectionLost
<1>6. ASSUME NEW p \in Procs, ProcessDies(p) PROVE LockProtects'
  BY <1>0, <1>6 DEF ProcessDies
<1> QED BY <1>1, <1>2, <1>3, <1>4, <1>5, <1>6 DEF WorkerNext

LEMMA NextKeepsLocks == TypeOK /\ LockProtects /\ [Next]_vars => LockProtects'
<1> SUFFICES ASSUME TypeOK, LockProtects, [Next]_vars PROVE LockProtects'
  OBVIOUS
<1> USE DEF tableVars
<1>0. UNCHANGED <<workerHosts, registered, lock, req>> => LockProtects'
  BY DEF LockProtects, PassesFilter, Precedes, WorkloadScore
<1>1. ASSUME NEW t \in Tests, SubmissionStep(t) PROVE LockProtects'
  BY <1>1, SubmissionKeepsLocks
<1>2. ASSUME NEW e \in AdminEdits, UpdateHost(e) PROVE LockProtects'
  BY <1>2, NobodyLocked DEF UpdateHost
<1>3. ASSUME MaintenanceNext, UNCHANGED req PROVE LockProtects'
  <2>1. CASE SweepMark
    BY <1>3, <2>1, NobodyLocked DEF SweepMark
  <2>2. CASE ~SweepMark
    BY <1>0, <1>3, <2>2 DEF MaintenanceNext, SweepRead, SweepQuery, SweepFail, SweepAborts
  <2> QED BY <2>1, <2>2
<1>4. CASE BackendCrash
  <2>1. \A t \in Tests : req'[t].pc # "reserve"
    BY <1>4 DEF BackendCrash, TypeOK, SubmissionTypeOK, Request
  <2> QED BY <2>1 DEF LockProtects
<1>5. ASSUME WorkerNext, UNCHANGED req PROVE LockProtects'
  BY <1>5, WorkerKeepsLocks
<1>6. CASE Tick
  <2>1. \A h \in registered : SameRow(h)
    BY <1>6 DEF Tick, SameRow, TypeOK, StoreTypeOK, WorkerHost
  <2> QED BY <1>6, <2>1, LockedRows DEF Tick
<1>7. CASE UNCHANGED vars
  BY <1>0, <1>7 DEF vars
<1> QED BY <1>1, <1>2, <1>3, <1>4, <1>5, <1>6, <1>7 DEF Next, BackendNext

\* The step that commits a reservation is CommitReservation of that test.
LEMMA OnlyCommitPublishes ==
    ASSUME TypeOK, [Next]_vars, NEW t \in Tests,
           req[t].pc = "reserve", req'[t].pc = "publish"
    PROVE  CommitReservation(t)
<1>0. req' # req /\ ~BackendCrash
  BY DEF BackendCrash, TypeOK, SubmissionTypeOK, Request
<1>1. PICK u \in Tests : SubmissionStep(u)
  BY <1>0 DEF Next, BackendNext, UpdateHost, Tick, vars
<1>2. u = t
  <2>1. \A v \in Tests \ {u} : req'[v] = req[v]
    BY <1>1 DEF SubmissionStep, SubmitTest, DispatchNone, DispatchSelect, DispatchError,
                CommitReservation, CommitFails, RefetchHost, Publish, PublishFails,
                UndoReservation, UndoFails, RecordDispatched, RecordFailed, RecordFails,
                Goto, TypeOK, SubmissionTypeOK
  <2> QED BY <2>1
<1> QED BY <1>1, <1>2
        DEF SubmissionStep, SubmitTest, DispatchNone, DispatchSelect, DispatchError,
            CommitFails, RefetchHost, Publish, PublishFails, UndoReservation, UndoFails,
            RecordDispatched, RecordFailed, RecordFails, TypeOK, SubmissionTypeOK, Request

\* In every execution, whatever heartbeats, sweeps, decrements, admin edits,
\* undos and other dispatches run beside it, a dispatch that commits its
\* reservation puts it on a host that at that moment is online, suitable, below
\* its cap and ranked first among the candidates, and adds exactly one to its
\* counter: the FOR UPDATE lock of scheduler.dispatch does its work.
THEOREM PlacementIsSound == Spec => PlacementSound
<1>1. Init => LockProtects
  BY DEF Init, SubmissionInit, LockProtects
<1>2. TypeOK /\ LockProtects /\ [Next]_vars =>
        [\A t \in Tests : req[t].pc = "reserve" /\ req'[t].pc = "publish" =>
            LET h == req[t].host
                old == workerHosts[h]
                new == workerHosts'[h]
            IN  /\ PassesFilter(old, Bundle[t])
                /\ \A g \in req[t].survivors : Precedes(h, g)
                /\ new.active_containers = old.active_containers + 1
                /\ new.active_containers <= new.max_containers]_vars
  <2> SUFFICES ASSUME TypeOK, LockProtects, [Next]_vars, NEW t \in Tests,
                      req[t].pc = "reserve", req'[t].pc = "publish"
               PROVE  /\ PassesFilter(workerHosts[req[t].host], Bundle[t])
                      /\ \A g \in req[t].survivors : Precedes(req[t].host, g)
                      /\ workerHosts'[req[t].host].active_containers =
                            workerHosts[req[t].host].active_containers + 1
                      /\ workerHosts'[req[t].host].active_containers <=
                            workerHosts'[req[t].host].max_containers
    OBVIOUS
  <2>1. CommitReservation(t)
    BY OnlyCommitPublishes
  <2>2. /\ PassesFilter(workerHosts[req[t].host], Bundle[t])
        /\ \A g \in req[t].survivors : Precedes(req[t].host, g)
        /\ req[t].seen = workerHosts[req[t].host].active_containers
        /\ req[t].host \in Hosts
    BY DEF LockProtects, TypeOK, StoreTypeOK
  <2>3. /\ workerHosts' = [workerHosts EXCEPT ![req[t].host].active_containers = req[t].seen + 1]
        /\ workerHosts[req[t].host] \in WorkerHost
    BY <2>1, <2>2 DEF CommitReservation, WriteActive, TypeOK, StoreTypeOK
  <2>4. /\ workerHosts'[req[t].host].active_containers = req[t].seen + 1
        /\ workerHosts'[req[t].host].max_containers = workerHosts[req[t].host].max_containers
    BY <2>2, <2>3 DEF WorkerHost, TypeOK, StoreTypeOK
  <2>5. req[t].seen < workerHosts[req[t].host].max_containers
    BY <2>2 DEF PassesFilter
  <2> QED BY <2>2, <2>3, <2>4, <2>5 DEF WorkerHost
<1> QED BY <1>1, <1>2, NextKeepsLocks, TypeCorrect, PTL DEF Spec, PlacementSound

-----------------------------------------------------------------------------
\* A handler's step that neither takes nor ends the locking transaction.
LEMMA LocksElsewhere ==
    ASSUME TypeOK, LocksAreReleased, NEW t \in Tests, lock' = lock,
           \A u \in Tests \ {t} : req'[u] = req[u],
           req[t].pc # "reserve", req'[t].pc # "reserve"
    PROVE  LocksAreReleased'
BY DEF LocksAreReleased

\* A step after which nobody holds the locks and nobody needs them.
LEMMA LocksGone ==
    ASSUME lock' = None, \A u \in Tests : req'[u].pc # "reserve"
    PROVE  LocksAreReleased'
BY NoneAssumption DEF LocksAreReleased, Messages

LEMMA SubmissionReleases ==
    ASSUME TypeOK, LocksAreReleased, NEW t \in Tests, SubmissionStep(t)
    PROVE  LocksAreReleased'
<1>0. req \in [Tests -> Request]
  BY DEF TypeOK, SubmissionTypeOK
<1>1. CASE CommitReservation(t) \/ CommitFails(t)
  <2>1. PICK pc \in {"publish", "refetch"} :
           req' = [req EXCEPT ![t].pc = pc, ![t].survivors = {}]
    BY <1>1 DEF CommitReservation, CommitFails
  <2>2. req[t].pc = "reserve" /\ lock' = None
    BY <1>1 DEF CommitReservation, CommitFails
  <2>3. \A u \in Tests : req'[u].pc # "reserve"
    <3> SUFFICES ASSUME NEW u \in Tests PROVE req'[u].pc # "reserve"
      OBVIOUS
    <3>1. u = t => req'[u].pc = pc
      BY <1>0, <2>1 DEF Request
    <3>2. u # t => req'[u] = req[u] /\ req[u].pc # "reserve"
      BY <1>0, <2>1, <2>2 DEF LocksAreReleased
    <3> QED BY <3>1, <3>2
  <2> QED BY <2>2, <2>3, LocksGone
<1>2. ASSUME NEW h \in Hosts, DispatchSelect(t, h) PROVE LocksAreReleased'
  <2>1. /\ lock = None /\ lock' = t /\ req'[t].pc = "reserve"
        /\ \A u \in Tests \ {t} : req'[u] = req[u]
    BY <1>0, <1>2 DEF DispatchSelect, Unlocked
  <2>2. \A u \in Tests : req[u].pc # "reserve"
    BY <2>1, NoneAssumption DEF LocksAreReleased, Messages
  <2> QED BY <2>1, <2>2 DEF LocksAreReleased
<1>3. CASE SubmitTest(t) \/ DispatchNone(t) \/ DispatchError(t) \/ Publish(t)
           \/ PublishFails(t) \/ UndoFails(t) \/ RecordDispatched(t)
           \/ RecordFailed(t) \/ RecordFails(t)
  <2>1. PICK pc : pc # "reserve" /\ Goto(t, pc)
    BY <1>3 DEF SubmitTest, DispatchNone, DispatchError, Publish, PublishFails,
                UndoFails, RecordDispatched, RecordFailed, RecordFails
  <2>2. lock' = lock /\ req[t].pc # "reserve"
    BY <1>3 DEF SubmitTest, DispatchNone, DispatchError, Publish, PublishFails, tableVars,
                UndoFails, RecordDispatched, RecordFailed, RecordFails
  <2> QED BY <2>1, <2>2, GotoMoves, LocksElsewhere
<1>4. CASE RefetchHost(t)
  <2>1. /\ lock' = lock /\ req[t].pc # "reserve" /\ req'[t].pc # "reserve"
        /\ \A u \in Tests \ {t} : req'[u] = req[u]
    BY <1>0, <1>4 DEF RefetchHost, tableVars, Request
  <2> QED BY <2>1, LocksElsewhere
<1>5. CASE UndoReservation(t)
  <2>1. lock \in {None, t} /\ lock' = None /\ req[t].pc # "reserve" /\ Goto(t, "reject")
    BY <1>5 DEF UndoReservation
  <2>2. \A u \in Tests : req[u].pc # "reserve"
    BY <2>1, NoneAssumption DEF LocksAreReleased, Messages
  <2>3. \A u \in Tests : req'[u].pc # "reserve"
    BY <2>1, <2>2, GotoMoves
  <2> QED BY <2>1, <2>3, LocksGone
<1> QED BY <1>1, <1>2, <1>3, <1>4, <1>5 DEF SubmissionStep

LEMMA NextReleases == TypeOK /\ LocksAreReleased /\ [Next]_vars => LocksAreReleased'
<1> SUFFICES ASSUME TypeOK, LocksAreReleased, [Next]_vars PROVE LocksAreReleased'
  OBVIOUS
<1>1. ASSUME NEW t \in Tests, SubmissionStep(t) PROVE LocksAreReleased'
  BY <1>1, SubmissionReleases
<1>2. CASE BackendCrash
  <2>1. \A t \in Tests : req'[t].pc # "reserve"
    BY <1>2 DEF BackendCrash, TypeOK, SubmissionTypeOK, Request
  <2> QED BY <1>2, <2>1, LocksGone DEF BackendCrash
<1>3. ASSUME UNCHANGED <<lock, req>> PROVE LocksAreReleased'
  BY <1>3 DEF LocksAreReleased
<1>4. CASE (\E e \in AdminEdits : UpdateHost(e)) \/ Tick \/ UNCHANGED vars
  BY <1>3, <1>4 DEF UpdateHost, Tick, vars, tableVars
<1>5. CASE MaintenanceNext /\ UNCHANGED req
  BY <1>3, <1>5 DEF MaintenanceNext, SweepRead, SweepMark, SweepQuery, SweepFail, SweepAborts,
                    tableVars
<1>6. CASE WorkerNext /\ UNCHANGED req
  <2>1. ASSUME NEW p \in Procs, RunStep(p) PROVE lock' = lock
    BY <2>1 DEF RunStep, RunBegin, RunBeginFails, RunStart, RunStartRefused, RunStartFails,
                StreamEnds, StreamBreaks, StreamFails, RunFinish, RunFinishFails, RunExcept,
                RunExceptFails, RunCleanup, RunCleanupFails, DecrementRead, DecrementSkip,
                DecrementFails, DecrementWrite, Acknowledge, tableVars
  <2>2. ASSUME NEW p \in Procs, HeartbeatStep(p) \/ ReapStep(p) PROVE lock' = lock
    BY <2>2 DEF HeartbeatStep, HeartbeatCount, HeartbeatCountFails, HeartbeatWrite,
                HeartbeatFails, ReapStep, ReapScan, ReapWrite, ReapFails, tableVars
  <2>3. ASSUME NEW h \in Hosts, HostStep(h) PROVE lock' = lock
    BY <2>3 DEF HostStep, Beat, ContainerExits, Crash, Restart, ConnectionLost, tableVars
  <2>4. ASSUME NEW p \in Procs, NEW m \in Messages, Deliver(p, m) PROVE lock' = lock
    BY <2>4 DEF Deliver, tableVars
  <2>5. ASSUME NEW p \in Procs, ProcessDies(p) PROVE lock' = lock
    BY <2>5 DEF ProcessDies, tableVars
  <2> QED BY <1>3, <1>6, <2>1, <2>2, <2>3, <2>4, <2>5 DEF WorkerNext
<1> QED BY <1>1, <1>2, <1>4, <1>5, <1>6 DEF Next, BackendNext

\* The locks of scheduler.dispatch are held by nobody but the dispatch between
\* its SELECT and the end of its transaction, and never outlive it: however many
\* submissions there are and whatever fails, nobody waits for a lock whose
\* holder is gone or waits itself.
THEOREM InventoryIsUnlocked == Spec => []LocksAreReleased
<1>1. Init => LocksAreReleased
  BY NoneAssumption DEF Init, StoreInit, SubmissionInit, LocksAreReleased, Messages
<1> QED BY <1>1, NextReleases, TypeCorrect, PTL DEF Spec
==============================================================================
