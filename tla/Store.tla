-------------------------------- MODULE Store --------------------------------
(****************************************************************************)
(* The state every part of the orchestrator shares: the two PostgreSQL      *)
(* tables the scheduling logic reads and writes (worker_hosts and           *)
(* test_executions, src/backend/models.py), the row locks of the inventory, *)
(* and the RabbitMQ queues, one per worker host.                            *)
(*                                                                          *)
(* The database runs at READ COMMITTED and SQLAlchemy writes absolute       *)
(* column values.  A transaction whose written values do not depend on what *)
(* it read is one step; one that computes a value from a row it read before *)
(* is a reading step followed by a writing step.                            *)
(****************************************************************************)
EXTENDS Naturals, FiniteSets

CONSTANTS
    Hosts,             \* worker hosts; their order is the order of host_id
    Tests,             \* test ids
    Tags,              \* hardware tags
    Bundle,            \* what each submitted bundle asks for
    CpuLevels,         \* CPU percentages a heartbeat can report
    DefaultMax,        \* max_containers a host registers with
    HeartbeatTimeout,  \* settings.heartbeat_timeout_seconds, in ticks
    ReapAfter,         \* the reaper's two-hour cutoff, in ticks
    Faults,            \* the kinds of fault this instance injects
    MaxFaults,         \* how many faults it injects in one behaviour
    None               \* no host, no test, no lock holder

FaultKinds ==
    {"db", "send", "docker", "stream", "crash", "kill", "connloss", "backend"}

BundleRequest ==
    [required_hw_tags : SUBSET Tags, requires_emulation : BOOLEAN, known_runner : BOOLEAN]

ASSUME HostsAssumption == Hosts \subseteq Nat
ASSUME TestsAssumption == IsFiniteSet(Tests)
ASSUME BundleAssumption == Bundle \in [Tests -> BundleRequest]
ASSUME CpuAssumption == CpuLevels \subseteq Nat
ASSUME DefaultMaxAssumption == DefaultMax \in Nat \ {0}
ASSUME TimingAssumption == HeartbeatTimeout \in Nat /\ ReapAfter \in Nat
ASSUME FaultsAssumption == Faults \subseteq FaultKinds /\ MaxFaults \in Nat

\* What a worker can find in its queue: a test to run, or one of the two
\* tasks the beat scheduler puts there.
BeatTasks == {"publish_heartbeat", "reap_stale"}
Messages == Tests \cup BeatTasks

ASSUME NamesAssumption == Tests \cap BeatTasks = {}
ASSUME NoneAssumption == None \notin Hosts /\ None \notin Messages

VARIABLES
    workerHosts,   \* table worker_hosts, by host_id
    registered,    \* the hosts that have a row in it
    executions,    \* table test_executions, by test_id
    lock,          \* the dispatch that holds the rows FOR UPDATE, or None
    queue,         \* queue_<host_id>: the messages the broker has not handed out
    routed,        \* history: the host a test's message was published to
    acked,         \* history: the tests whose message was acknowledged
    abandoned,     \* history: the tests a task dropped without except and finally
    budget         \* faults still to inject

tableVars  == <<workerHosts, registered, executions, lock>>
brokerVars == <<queue, routed, acked, abandoned>>

TestStatus == {"PENDING", "DISPATCHED", "RUNNING", "PASSED", "FAILED"}
ActiveStates == {"DISPATCHED", "RUNNING"}

\* last_heartbeat and updated_at are kept as ages in ticks, counted only as
\* far as the comparison that reads them can tell ages apart.
WorkerHost ==
    [is_online : BOOLEAN, active_containers : Nat, max_containers : Nat \ {0},
     cpu_utilization : Nat, hardware_tags : SUBSET Tags,
     supports_emulation : BOOLEAN, last_heartbeat : 0..HeartbeatTimeout + 1]

\* status "ABSENT": the row has not been inserted yet.
TestExecution ==
    [status : TestStatus \cup {"ABSENT"}, target_host_id : Hosts \cup {None},
     updated_at : 0..ReapAfter + 1]

StoreTypeOK ==
    /\ workerHosts \in [Hosts -> WorkerHost]
    /\ registered \subseteq Hosts
    /\ executions \in [Tests -> TestExecution]
    /\ lock \in Tests \cup {None}
    /\ queue \in [Hosts -> SUBSET Messages]
    /\ routed \in [Tests -> Hosts \cup {None}]
    /\ acked \subseteq Tests
    /\ abandoned \subseteq Tests
    /\ budget \in 0..MaxFaults

StoreInit ==
    /\ workerHosts = [h \in Hosts |->
          [is_online |-> FALSE, active_containers |-> 0, max_containers |-> DefaultMax,
           cpu_utilization |-> 0, hardware_tags |-> {}, supports_emulation |-> FALSE,
           last_heartbeat |-> 0]]
    /\ registered = {}
    /\ executions = [t \in Tests |->
          [status |-> "ABSENT", target_host_id |-> None, updated_at |-> 0]]
    /\ lock = None
    /\ queue = [h \in Hosts |-> {}]
    /\ routed = [t \in Tests |-> None]
    /\ acked = {}
    /\ abandoned = {}
    /\ budget = MaxFaults

\* A fault of kind k happens in this step.
Fault(k) ==
    /\ k \in Faults
    /\ budget > 0
    /\ budget' = budget - 1

\* An UPDATE of an execution.  The ORM writes only columns that change, and
\* updated_at is stamped (onupdate) only when something is written.
Touch(row, new) == IF new = row THEN row ELSE [new EXCEPT !.updated_at = 0]

SetStatus(t, s) ==
    executions' = [executions EXCEPT ![t] = Touch(@, [@ EXCEPT !.status = s])]

SetStatusOn(t, s, h) ==
    executions' = [executions EXCEPT
        ![t] = Touch(@, [@ EXCEPT !.status = s, !.target_host_id = h])]

\* Every row of the set is marked FAILED and committed together.
FailRows(rows) ==
    executions' = [t \in Tests |->
        IF t \in rows THEN Touch(executions[t], [executions[t] EXCEPT !.status = "FAILED"])
                      ELSE executions[t]]

\* An UPDATE of an inventory row waits for the dispatch that locked it.
Unlocked == lock = None

Terminal == {"PASSED", "FAILED"}
==============================================================================
