SPECIFICATION Spec
CONSTANTS
    Hosts = {1}
    Tests = {t1}
    Tags = {}
    Bundle <- PlainBundles
    CpuLevels = {0}
    DefaultMax = 2
    HeartbeatTimeout = 0
    ReapAfter = 0
    Faults = {"db", "send", "docker", "stream", "crash", "kill", "connloss", "backend"}
    MaxFaults = 1
    None = None
    Procs = {p1, p2}
    HostOf <- AllOnHostOne
    Beats = {"publish_heartbeat", "reap_stale"}
    AdminEdits <- NoEdits
    Prompt = FALSE
SYMMETRY PoolSymmetry
INVARIANT TypeOK
INVARIANT ExactlyOneCopy
INVARIANT ActiveRunsAreFindable
INVARIANT RunningIsAttended
INVARIANT LocksAreReleased
PROPERTY ImplementsLateAck
