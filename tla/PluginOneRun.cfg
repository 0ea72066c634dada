SPECIFICATION Spec
SYMMETRY TabSymmetry
CONSTANTS
    Tabs = {t1, t2}
    Correlations = {c1}
    Skills = {"intake", "qualification"}
    Implemented = {"intake"}
    Handled = {"intake"}
    ConnectorsGranted = {"intake", "qualification"}
    ProfileNeeded = {"intake"}
INVARIANTS
    TypeOK
    ExecutedOnce
    CompletedRunEvidenced
    AnswersFollowRun
    RequestStaysSubmittable
