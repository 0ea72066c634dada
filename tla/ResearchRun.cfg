CONSTANTS
    t1 = t1
    t2 = t2
    Tabs = {t1, t2}
    Sessions <- MCSessions
SPECIFICATION FairSpec
INVARIANTS
    CeilingsHold
    ReadyIsEarned
    NoAuthorityNoReview
    StoredIdsUnique
PROPERTY
    EverySubmissionSettles
CHECK_DEADLOCK FALSE
