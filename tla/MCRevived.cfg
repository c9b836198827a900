SPECIFICATION Spec
CONSTANTS
    t1 = t1  t2 = t2
    Threads <- TwoThreads
    IntervalHours <- SomeIntervals
    RetentionDays = 1
    MaxTime = 3
    MaxFaults = 0
PROPERTIES
    OnlyStaleThreadsAreDeleted
