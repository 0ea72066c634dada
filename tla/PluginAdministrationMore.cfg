CONSTANTS
    t1 = t1
    t2 = t2
    o1 = o1
    o2 = o2
    NoOrg = NoOrg
    Tabs = {t1, t2}
    Orgs = {o1, o2}
    Memberships <- MCMemberships
    Profiles <- MCProfiles
    MaxPosts = 2
    MaxVersion = 2
SPECIFICATION Spec
INVARIANTS
    TypeOK
    ScoreMatchesProfile
PROPERTY
    VersionIsKept
CHECK_DEADLOCK FALSE
