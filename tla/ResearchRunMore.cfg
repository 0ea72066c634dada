CONSTANTS
    t1 = t1
    t2 = t2
    Tabs = {t1, t2}
    Sessions <- MCSessions
SPECIFICATION FairSpec
INVARIANTS
    TypeOK
    RepetitionStopsRun
    DemoRunsAsExpected
CHECK_DEADLOCK FALSE
