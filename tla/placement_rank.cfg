SPECIFICATION Spec
CONSTANTS
    Hosts = {1, 2}
    Tests = {t1}
    Tags = {}
    Bundle <- PlainBundles
    CpuLevels = {0, 30}
    DefaultMax = 1
    HeartbeatTimeout = 0
    ReapAfter = 0
    Faults = {}
    MaxFaults = 0
    None = None
    Procs <- TwoHostProcs
    HostOf <- OnePerHost
    Beats = {"publish_heartbeat"}
    AdminEdits <- NoEdits
    Prompt = TRUE
PROPERTY PlacementSound
