\* Every sequence of extensions of an agent with at most one thing missing.
SPECIFICATION Spec
CONSTANTS
    t1 = t1
    Tools <- MCTools
    Tool <- MCTool
    Dossiers <- MCDossiers
CONSTRAINT NearlyComplete
INVARIANTS
    TypeOK
    PublishedExamplesHold
CHECK_DEADLOCK FALSE
