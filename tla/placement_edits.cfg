SPECIFICATION SubmittingSpec
CONSTANTS
    Hosts = {1}
    Tests = {t1, t2}
    Tags <- MCTags
    Bundle <- MixedBundles
    CpuLevels = {0}
    DefaultMax = 2
    HeartbeatTimeout = 0
    ReapAfter = 0
    Faults = {"send"}
    MaxFaults = 1
    None = None
    Procs = {p1}
    HostOf <- AllOnHostOne
    Beats = {"publish_heartbeat"}
    AdminEdits <- SomeEdits
    Prompt = FALSE
PROPERTY PlacementSound
PROPERTY RequestsComplete
