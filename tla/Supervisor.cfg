SPECIFICATION FairSpec
CONSTANTS
    Lanes <- MCLanes
    Concurrency <- MCConcurrency
    BaseBackoff = 500
    MaxBackoff = 30000
    LaneBackoff = 100
    MaxLaneBackoff = 5000
    MaxFailures = 5
    MaxSleeps = 8
INVARIANTS
    TypeOK
    BackoffTracksOutage
    DlqPaired
PROPERTIES
    ImplementsReplica
    LaneResumes
