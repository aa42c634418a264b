SPECIFICATION TerminatingSpec
CONSTANTS
    Hosts = {1}
    Tests = {t1}
    Tags = {}
    Bundle <- PlainBundles
    CpuLevels = {0}
    DefaultMax = 2
    HeartbeatTimeout = 0
    ReapAfter = 0
    Faults = {"crash"}
    MaxFaults = 1
    None = None
    Procs = {p1}
    HostOf <- AllOnHostOne
    Beats = {"publish_heartbeat"}
    AdminEdits <- NoEdits
    Prompt = TRUE
PROPERTY NoRunStrandedOnDeadHost
