----------------------------- MODULE Maintenance -----------------------------
(****************************************************************************)
(* The backend's maintenance sweep (src/backend/services/maintenance.py),   *)
(* run by one background loop (src/backend/main.py).  One sweep is two      *)
(* transactions: hosts with a stale heartbeat are marked offline, then the  *)
(* active runs on exactly those hosts are marked FAILED.  The sweep is at   *)
(*   idle                                                                   *)
(*   mark    stale hosts read, not marked yet                               *)
(*   query   marked and committed, orphaned runs not read yet               *)
(*   fail    orphaned runs read, not marked yet                             *)
(****************************************************************************)
EXTENDS Scheduler

VARIABLES sweep

Sweep == [pc : {"idle", "mark", "query", "fail"}, hosts : SUBSET Hosts, rows : SUBSET Tests]

SweepIdle == [pc |-> "idle", hosts |-> {}, rows |-> {}]

MaintenanceTypeOK == sweep \in Sweep

MaintenanceInit == sweep = SweepIdle

\* Variant: a host with containers on it is never taken for dead.
StaleIdleHosts ==
    {h \in registered : /\ workerHosts[h].is_online
                        /\ workerHosts[h].active_containers = 0
                        /\ workerHosts[h].last_heartbeat > HeartbeatTimeout}

\* hb < now - max_age.  A registered host always has a last_heartbeat.
StaleHosts ==
    {h \in registered : /\ workerHosts[h].is_online
                        /\ workerHosts[h].last_heartbeat > HeartbeatTimeout}

OrphanedRuns(hs) ==
    {t \in Tests : /\ executions[t].target_host_id \in hs
                   /\ executions[t].status \in ActiveStates}

\* A sweep that finds nothing stale changes nothing and is over at once.
SweepRead ==
    /\ sweep.pc = "idle"
    /\ StaleHosts # {}
    /\ sweep' = [pc |-> "mark", hosts |-> StaleHosts, rows |-> {}]
    /\ UNCHANGED <<tableVars, brokerVars, budget>>

SweepMark ==
    /\ sweep.pc = "mark"
    /\ Unlocked
    /\ workerHosts' = [h \in Hosts |->
          IF h \in sweep.hosts THEN [workerHosts[h] EXCEPT !.is_online = FALSE]
                               ELSE workerHosts[h]]
    /\ sweep' = [sweep EXCEPT !.pc = "query"]
    /\ UNCHANGED <<registered, executions, lock, brokerVars, budget>>

SweepQuery ==
    /\ sweep.pc = "query"
    /\ sweep' = [sweep EXCEPT !.pc = "fail", !.rows = OrphanedRuns(sweep.hosts)]
    /\ UNCHANGED <<tableVars, brokerVars, budget>>

SweepFail ==
    /\ sweep.pc = "fail"
    /\ FailRows(sweep.rows)
    /\ sweep' = SweepIdle
    /\ UNCHANGED <<workerHosts, registered, lock, brokerVars, budget>>

\* A database error is logged and the loop waits for its next turn; the hosts
\* a sweep has already marked are not in any later sweep's list.
SweepAborts ==
    /\ sweep.pc # "idle"
    /\ Fault("db")
    /\ sweep' = SweepIdle
    /\ UNCHANGED <<tableVars, brokerVars>>

MaintenanceNext == SweepRead \/ SweepMark \/ SweepQuery \/ SweepFail \/ SweepAborts
==============================================================================
