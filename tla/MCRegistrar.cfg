CONSTANTS
    Sources <- RtspAndWhep
    Foreign <- SomebodyElses
    Versions <- FewVersions
    MaxFaults = 2
    MaxUpsets = 2
SPECIFICATION FairSpec
INVARIANTS
    TypeOK
    NoNeedlessWrite
PROPERTIES
    ReportIsTrue
    SelfHeals
CHECK_DEADLOCK FALSE
