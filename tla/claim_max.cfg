SPECIFICATION Spec
CONSTANTS
    Hosts = {1}
    Tests = {t1, t2}
    Tags = {}
    Bundle <- PlainBundles
    CpuLevels = {0}
    DefaultMax = 1
    HeartbeatTimeout = 0
    ReapAfter = 0
    Faults = {}
    MaxFaults = 0
    None = None
    Procs = {p1, p2}
    HostOf <- AllOnHostOne
    Beats = {"publish_heartbeat"}
    AdminEdits <- NoEdits
    Prompt = FALSE
SYMMETRY PoolSymmetry
INVARIANT LiveWithinMax
