SPECIFICATION FairSpec
CONSTANTS
    p1 = p1
    p2 = p2
    p3 = p3
    o1 = o1
    o2 = o2
    c1 = c1
    Tabs = {t1, t2}
    PromotionRequests = {p1}
    Organizations = {o1}
    Correlations = {c1}
    OrganizationOf <- OneRequestOrganization
    CorrelationOf <- OneRequestCorrelation
    ReviewOutcomes = {"PASS"}
    KfsaErrors = {}
    MaxAttempts = 1
PROPERTIES
    EveryPostAnswered
    AbandonedAttemptRecovered
