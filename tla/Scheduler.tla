------------------------------ MODULE Scheduler ------------------------------
(****************************************************************************)
(* The filter-and-rank placement of src/backend/services/scheduler.py.      *)
(****************************************************************************)
EXTENDS Store

WorkloadScore(row) == row.active_containers * 20 + row.cpu_utilization

PassesFilter(row, bundle) ==
    /\ row.is_online
    /\ row.active_containers < row.max_containers
    /\ bundle.requires_emulation => row.supports_emulation
    /\ bundle.required_hw_tags \subseteq row.hardware_tags

Survivors(t) == {h \in registered : PassesFilter(workerHosts[h], Bundle[t])}

\* The key of min(survivors, ...): lower score first, then lower host_id.
Precedes(g, h) ==
    LET sg == WorkloadScore(workerHosts[g])
        sh == WorkloadScore(workerHosts[h])
    IN  sg < sh \/ (sg = sh /\ g <= h)

IsChosen(h, t) ==
    /\ h \in Survivors(t)
    /\ \A g \in Survivors(t) : Precedes(h, g)
==============================================================================
