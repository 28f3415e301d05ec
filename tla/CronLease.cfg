SPECIFICATION FairSpec
CONSTANTS
    Runner = {sched, manual}
    Scheduler = sched
    Run = {r1, r2, r3}
    NoRun = NoRun
    MaxRequests = 1
    MaxFaults = 2
INVARIANTS
    RunsAlone
PROPERTIES
    OnlyOrphansAreReaped
    ErrorIsFinal
    EveryRunEnds
    JobRunsAgain
