------------------------------- MODULE LateAck -------------------------------
(****************************************************************************)
(* What late acknowledgement promises (task_acks_late, without              *)
(* task_reject_on_worker_lost, in src/worker/celery_app.py): the message of *)
(* a test is sent once, to one host, and is then either waiting in that     *)
(* host's queue or held by one process there, until it is acknowledged.  A  *)
(* worker that dies, or whose connection does, gives everything it holds    *)
(* back; the death of one process of its pool gives nothing back.           *)
(****************************************************************************)
CONSTANTS Hosts, Tests, None

VARIABLES
    stage,   \* where each test's message is
    home     \* the host it was sent to

Stages == {"unsent", "queued", "held", "done"}

Init ==
    /\ stage = [t \in Tests |-> "unsent"]
    /\ home = [t \in Tests |-> None]

Move(t, from, to) ==
    /\ stage[t] = from
    /\ stage' = [stage EXCEPT ![t] = to]

Send(t, h) ==
    /\ Move(t, "unsent", "queued")
    /\ home' = [home EXCEPT ![t] = h]

Take(t) == Move(t, "queued", "held") /\ UNCHANGED home

\* The task returned or raised, or the process that ran it died alone.
Finish(t) == Move(t, "held", "done") /\ UNCHANGED home

\* The worker of h is gone, or its connection is.
GiveBack(h) ==
    /\ stage' = [t \in Tests |->
          IF stage[t] = "held" /\ home[t] = h THEN "queued" ELSE stage[t]]
    /\ UNCHANGED home

Next ==
    \/ \E t \in Tests : (\E h \in Hosts : Send(t, h)) \/ Take(t) \/ Finish(t)
    \/ \E h \in Hosts : GiveBack(h)

Spec == Init /\ [][Next]_<<stage, home>>
==============================================================================
