------------------------------- MODULE Claims --------------------------------
(****************************************************************************)
(* What the documentation and the docstrings say of the system and the code *)
(* does not do.  Each is checked by a run that finds it violated.           *)
(****************************************************************************)
EXTENDS Orchestrator

\* update_host: max_containers is the "Maximum concurrent containers the host
\* accepts".  A heartbeat between a reservation and the start of its container
\* overwrites the reservation, and the slot is given out twice.
LiveWithinMax ==
    \A h \in registered : Cardinality(LiveTests(h)) <= workerHosts[h].max_containers

\* SETUP_AND_TESTING.md: a run goes DISPATCHED -> RUNNING and "then flips to
\* PASSED".  When the submit handler records DISPATCHED after the worker has
\* written RUNNING or a verdict, the verdict is lost for good.
SubmittedRunSettles ==
    \A t \in Tests : executions[t].status = "PENDING" ~> [](executions[t].status \in Terminal)

\* maintenance.py: the sweep fails runs "stranded on dead hosts".  Tests that
\* occupy the whole pool keep the heartbeat of a live host waiting in its
\* queue until the sweep takes the host for dead.
SweptHostsAreDown == sweep.hosts \cap up = {}

\* maintenance.py: the sweep fails "any execution still DISPATCHED/RUNNING on
\* a now-offline host".  A run recorded DISPATCHED after the sweep of its host
\* is never looked at again.
NoRunStrandedOnDeadHost ==
    \A h \in Hosts : <>[](h \notin up) =>
        []<>(\A t \in Tests : executions[t].target_host_id = h =>
                                 executions[t].status \notin ActiveStates)
==============================================================================
