------------------------------ MODULE Refinement ------------------------------
(****************************************************************************)
(* The orchestrator implements LateAck: the broker's queues, the deliveries *)
(* the pool processes hold and the acknowledgements are its three stages    *)
(* after sending.                                                           *)
(****************************************************************************)
EXTENDS Orchestrator

\* A message that is neither acknowledged, queued nor held would be "lost",
\* which is no stage of LateAck.
Stage(t) ==
    CASE routed[t] = None               -> "unsent"
      [] Live(t) /\ t \in queue[routed[t]] -> "queued"
      [] Live(t) /\ t \notin queue[routed[t]] /\ (\E p \in Procs : Holds(p, t)) -> "held"
      [] routed[t] # None /\ t \in acked -> "done"
      [] OTHER                          -> "lost"

Broker == INSTANCE LateAck WITH stage <- [t \in Tests |-> Stage(t)], home <- routed

\* Delivery follows LateAck through crashes, lost connections and restarts
\* (src/worker/celery_app.py): every step of the system sends, takes, finishes
\* or gives back messages as LateAck allows, or moves none.
ImplementsLateAck == Broker!Spec
===============================================================================
