SPECIFICATION FairSpec
CONSTANTS
    Hosts = {1}
    Tests = {t1}
    Tags = {}
    Bundle <- PlainBundles
    CpuLevels = {0}
    DefaultMax = 2
    HeartbeatTimeout = 0
    ReapAfter = 0
    Faults = {}
    MaxFaults = 0
    None = None
    Procs = {p1, p2}
    HostOf <- AllOnHostOne
    Beats = {"publish_heartbeat", "reap_stale"}
    AdminEdits <- NoEdits
    Prompt = FALSE
PROPERTY HungRunIsReaped
PROPERTY GaugeConverges
