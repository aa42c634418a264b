----------------------------- MODULE Submission ------------------------------
(****************************************************************************)
(* The backend's side of a test run: the submit_test handler                *)
(* (src/backend/main.py), the dispatch it calls                             *)
(* (src/backend/services/scheduler.py), and the admin's update_host.        *)
(*                                                                          *)
(* Handlers run in the server's thread pool, so any number of them          *)
(* interleave; each has its own database session.  A request is at          *)
(*   new      not submitted yet                                             *)
(*   select   PENDING row committed, about to lock the inventory            *)
(*   reserve  holds the row locks, host chosen, increment not committed     *)
(*   publish  reservation committed and locks released, message not sent    *)
(*   refetch  the commit failed: rolled back, about to re-read the host     *)
(*   undo     about to write the counter it computed for the undo           *)
(*   record   message sent, about to record DISPATCHED                      *)
(*   reject   nothing was dispatched, about to record FAILED                *)
(*   done     answered                                                      *)
(*   lost     the handler died before it recorded the outcome               *)
(****************************************************************************)
EXTENDS Scheduler

CONSTANTS AdminEdits   \* the forms an admin may post to /admin/hosts

AdminEdit ==
    [host_id : Hosts, hardware_tags : SUBSET Tags, supports_emulation : BOOLEAN,
     max_containers : Nat]

ASSUME AdminAssumption == AdminEdits \subseteq AdminEdit

VARIABLES req   \* the submit_test handler of each test

RequestPC == {"new", "select", "reserve", "publish", "refetch", "undo",
              "record", "reject", "done", "lost"}

\* host, seen, survivors: the chosen row, the counter the session holds for it,
\* and the rows that passed the filter (dispatch's local variables).
Request == [pc : RequestPC, host : Hosts \cup {None}, seen : Nat, survivors : SUBSET Hosts]

\* From the locking SELECT to the record of the outcome a host is chosen.
HostChosen == {"reserve", "publish", "refetch", "undo", "record"}

SubmissionTypeOK ==
    /\ req \in [Tests -> Request]
    /\ \A t \in Tests : req[t].pc \in HostChosen => req[t].host # None

SubmissionInit ==
    req = [t \in Tests |-> [pc |-> "new", host |-> None, seen |-> 0, survivors |-> {}]]

Goto(t, pc) == req' = [req EXCEPT ![t].pc = pc]

\* The row goes in and is committed before anything is dispatched.
SubmitTest(t) ==
    /\ req[t].pc = "new"
    /\ SetStatus(t, "PENDING")
    /\ Goto(t, "select")
    /\ UNCHANGED <<workerHosts, registered, lock, brokerVars, budget>>

\* No host passes the filter: the transaction rolls back, so its locks go.
DispatchNone(t) ==
    /\ req[t].pc = "select"
    /\ Unlocked
    /\ Survivors(t) = {}
    /\ Goto(t, "reject")
    /\ UNCHANGED <<tableVars, brokerVars, budget>>

\* SELECT ... FOR UPDATE, filter, rank.  The session remembers the counter it
\* read; the increment is computed from that value.
DispatchSelect(t, h) ==
    /\ req[t].pc = "select"
    /\ Unlocked
    /\ IsChosen(h, t)
    /\ lock' = t
    /\ req' = [req EXCEPT ![t] = [pc |-> "reserve", host |-> h,
                                  seen |-> workerHosts[h].active_containers,
                                  survivors |-> Survivors(t)]]
    /\ UNCHANGED <<workerHosts, registered, executions, brokerVars, budget>>

\* The locking query itself fails (or loses a deadlock) and dispatch raises.
\* Nothing rolls the session back, so when the failure left a transaction
\* aborted the handler's last commit raises too and the row stays PENDING.
DispatchError(t) ==
    /\ req[t].pc = "select"
    /\ Fault("db")
    /\ \E pc \in {"reject", "lost"} : Goto(t, pc)
    /\ UNCHANGED <<tableVars, brokerVars>>

WriteActive(h, n) ==
    workerHosts' = [workerHosts EXCEPT ![h].active_containers = n]

\* Variant: the increment is committed without ending the locking transaction.
CommitReservationKeepsLocks(t) ==
    /\ req[t].pc = "reserve"
    /\ WriteActive(req[t].host, req[t].seen + 1)
    /\ req' = [req EXCEPT ![t].pc = "publish", ![t].survivors = {}]
    /\ UNCHANGED <<registered, executions, lock, brokerVars, budget>>

CommitReservation(t) ==
    /\ req[t].pc = "reserve"
    /\ WriteActive(req[t].host, req[t].seen + 1)
    /\ lock' = None
    /\ req' = [req EXCEPT ![t].pc = "publish", ![t].survivors = {}]
    /\ UNCHANGED <<registered, executions, brokerVars, budget>>

\* Variant: the except branch does not roll back.
CommitFailsNoRollback(t) ==
    /\ req[t].pc = "reserve"
    /\ Fault("db")
    /\ Goto(t, "refetch")
    /\ UNCHANGED <<tableVars, brokerVars>>

\* The commit raises: the increment is not applied, or it is and the answer
\* was lost.  The except branch cannot know which.
CommitFails(t) ==
    /\ req[t].pc = "reserve"
    /\ Fault("db")
    /\ UNCHANGED workerHosts \/ WriteActive(req[t].host, req[t].seen + 1)
    /\ lock' = None
    /\ req' = [req EXCEPT ![t].pc = "refetch", ![t].survivors = {}]
    /\ UNCHANGED <<registered, executions, brokerVars>>

\* rollback() expired the row, so db.get reads it again.
RefetchHost(t) ==
    LET active == workerHosts[req[t].host].active_containers
    IN  /\ req[t].pc = "refetch"
        /\ req' = IF active > 0
                  THEN [req EXCEPT ![t].pc = "undo", ![t].seen = active - 1]
                  ELSE [req EXCEPT ![t].pc = "reject"]
        /\ UNCHANGED <<tableVars, brokerVars, budget>>

\* The broker takes the message of t.
Send(t) ==
    /\ queue' = [queue EXCEPT ![req[t].host] = @ \cup {t}]
    /\ routed' = [routed EXCEPT ![t] = req[t].host]
    /\ UNCHANGED <<acked, abandoned>>

Publish(t) ==
    /\ req[t].pc = "publish"
    /\ Send(t)
    /\ Goto(t, "record")
    /\ UNCHANGED <<tableVars, budget>>

\* send_task raises, and the broker may have taken the message all the same.
\* The rollback has nothing to roll back, and db.get returns the object the
\* session still holds (expire_on_commit=False), whose counter is seen + 1: the
\* undo will write the value seen.
PublishFails(t) ==
    /\ req[t].pc = "publish"
    /\ Fault("send")
    /\ Send(t) \/ UNCHANGED brokerVars
    /\ Goto(t, "undo")
    /\ UNCHANGED tableVars

\* The commit of the undo ends the session's transaction, with any lock it has.
UndoReservation(t) ==
    /\ req[t].pc = "undo"
    /\ lock \in {None, t}
    /\ WriteActive(req[t].host, req[t].seen)
    /\ lock' = None
    /\ Goto(t, "reject")
    /\ UNCHANGED <<registered, executions, brokerVars, budget>>

\* The undo is not shielded either: its own error replaces the first one.
UndoFails(t) ==
    /\ req[t].pc \in {"refetch", "undo"}
    /\ Fault("db")
    /\ \E pc \in {"reject", "lost"} : Goto(t, pc)
    /\ UNCHANGED <<tableVars, brokerVars>>

\* The handler writes the status from what dispatch returned, whatever the
\* worker has written to the row in the meantime.
RecordDispatched(t) ==
    /\ req[t].pc = "record"
    /\ SetStatusOn(t, "DISPATCHED", req[t].host)
    /\ Goto(t, "done")
    /\ UNCHANGED <<workerHosts, registered, lock, brokerVars, budget>>

RecordFailed(t) ==
    /\ req[t].pc = "reject"
    /\ SetStatus(t, "FAILED")
    /\ Goto(t, "done")
    /\ UNCHANGED <<workerHosts, registered, lock, brokerVars, budget>>

\* The last commit raises: nothing catches it and the row keeps its status.
RecordFails(t) ==
    /\ req[t].pc \in {"record", "reject"}
    /\ Fault("db")
    /\ Goto(t, "lost")
    /\ UNCHANGED <<tableVars, brokerVars>>

SubmissionStep(t) ==
    \/ SubmitTest(t)
    \/ DispatchNone(t)
    \/ \E h \in Hosts : DispatchSelect(t, h)
    \/ DispatchError(t)
    \/ CommitReservation(t)
    \/ CommitFails(t)
    \/ RefetchHost(t)
    \/ Publish(t)
    \/ PublishFails(t)
    \/ UndoReservation(t)
    \/ UndoFails(t)
    \/ RecordDispatched(t)
    \/ RecordFailed(t)
    \/ RecordFails(t)

\* max(1, max_containers): a host can never be edited down to no capacity.
AtLeastOne(n) == IF n = 0 THEN 1 ELSE n

\* Variant: the admin's UPDATE does not wait for the row locks.
UpdateHostUnlocked(e) ==
    /\ e.host_id \in registered
    /\ workerHosts' = [workerHosts EXCEPT
          ![e.host_id].hardware_tags = e.hardware_tags,
          ![e.host_id].supports_emulation = e.supports_emulation,
          ![e.host_id].max_containers = AtLeastOne(e.max_containers)]
    /\ UNCHANGED <<registered, executions, lock, brokerVars, budget, req>>

UpdateHost(e) ==
    /\ e.host_id \in registered
    /\ Unlocked
    /\ workerHosts' = [workerHosts EXCEPT
          ![e.host_id].hardware_tags = e.hardware_tags,
          ![e.host_id].supports_emulation = e.supports_emulation,
          ![e.host_id].max_containers = AtLeastOne(e.max_containers)]
    /\ UNCHANGED <<registered, executions, lock, brokerVars, budget, req>>
==============================================================================
