\* Up to two answers away from two baselines; eight evaluations, seven callers.
SPECIFICATION Spec
CONSTANTS
    UseCases <- MCUseCases
    Observations <- MCObservations
    Callers <- MCCallers
INVARIANTS
    EscalationReachesAuthority
    ReadyMeansClean
    BlockingNeverPasses
PROPERTY
    ObjectionsSurvive
