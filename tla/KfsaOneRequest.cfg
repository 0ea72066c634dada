SPECIFICATION Spec
SYMMETRY TabSymmetry
CONSTANTS
    p1 = p1
    p2 = p2
    p3 = p3
    o1 = o1
    o2 = o2
    c1 = c1
    Tabs = {t1, t2}
    PromotionRequests = {p1}
    Organizations = {o1}
    Correlations = {c1}
    OrganizationOf <- OneRequestOrganization
    CorrelationOf <- OneRequestCorrelation
    ReviewOutcomes = {"PASS", "FAIL"}
    KfsaErrors = {"timeout", "unauthorized"}
    MaxAttempts = 2
INVARIANTS
    TypeOK
    AttemptsInSequence
    CompletedIsDurable
    EvaluatedAnswersAgree
    FailedAnswerIsRecorded
    LateArrivalNeverCalls
    ThrowsOnlyAfterStaleness
PROPERTY
    ImplementsRegister
