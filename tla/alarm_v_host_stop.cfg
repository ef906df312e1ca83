SPECIFICATION FairSpec
CONSTANTS
    MaxAlarms = 1
    MaxTime = 1
    MaxStarts = 1
    Stoppers = {"host"}
PROPERTY HostStopCompletes
