SPECIFICATION FairSpec
CONSTANTS
    Engineers = {"alice", "bob"}
    Browsers = {b1, b2}
    SessionTTL = 1
    MaxTime = 2
    MaxSessions = 2
    FrontendFaults = {"db", "crash"}
    MaxFaults = 1
    None = None
    NoReservation = NoReservation
    PerPercent = 10
    PerMB = 1024
    PerGB = 262144
    Forms <- SomeForms
    Readings <- SomeReadings
INVARIANT FrontendTypeOK
INVARIANT OneAccountPerEngineer
INVARIANT WaitsForOneCommit
INVARIANT RunIsAccountable
INVARIANT AcceptedIsReadable
INVARIANT RunsWhatWasAsked
INVARIANT EveryReportShows
INVARIANT TableIsTrue
PROPERTY LoginEnds
CHECK_DEADLOCK FALSE
