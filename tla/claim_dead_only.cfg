SPECIFICATION Spec
CONSTANTS
    Hosts = {1}
    Tests = {t1}
    Tags = {}
    Bundle <- PlainBundles
    CpuLevels = {0}
    DefaultMax = 2
    HeartbeatTimeout = 1
    ReapAfter = 0
    Faults = {}
    MaxFaults = 0
    None = None
    Procs = {p1}
    HostOf <- AllOnHostOne
    Beats = {"publish_heartbeat"}
    AdminEdits <- NoEdits
    Prompt = TRUE
SYMMETRY PoolSymmetry
INVARIANT SweptHostsAreDown
