SPECIFICATION Spec
SYMMETRY TabSymmetry
CONSTANTS
    p1 = p1
    p2 = p2
    o1 = o1
    o2 = o2
    c1 = c1
    Tabs = {t1, t2}
    PromotionRequests = {p1, p2, p3}
    p3 = p3
    Organizations = {o1, o2}
    Correlations = {c1}
    OrganizationOf <- TwoTenants
    CorrelationOf <- SharedCorrelation
    ReviewOutcomes = {"PASS"}
    KfsaErrors = {}
    MaxAttempts = 1
CONSTRAINT OneNeighbour
INVARIANTS
    ConflictWithinTenant
    EvaluatedAnswersAgree
