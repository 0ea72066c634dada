\* The requirement the validator does not enforce.
SPECIFICATION Spec
CONSTANTS
    t1 = t1
    Tools <- MCTools
    Tool <- MCTool
    Dossiers <- MCDossiers
CONSTRAINT NearlyComplete
INVARIANT EveryRequirementEnforced
CHECK_DEADLOCK FALSE
