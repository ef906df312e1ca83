SPECIFICATION FairSpec
CONSTANTS
    MaxAlarms = 2
    MaxTime = 2
    MaxStarts = 3
    Stoppers = {"guest"}
INVARIANT NoThreadOverwritten
PROPERTIES CancelledNeverFires AlarmSettled GuestStopReachesWorker
