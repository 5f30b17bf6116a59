\* Three attempts to find a host that starts twice, of either version.
CONSTANTS
    MaxRetry = 3
    MaxHost = 2
SPECIFICATION FairSpec
INVARIANTS TypeOK RunningMeansSubscribed UnreadOnlyInTearDown
PROPERTIES SetupEnds HostGoneEndsSession
