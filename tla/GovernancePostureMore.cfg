SPECIFICATION Spec
CONSTANTS
  Subjects <- MCSubjects
  MaxEdits = 2
INVARIANTS
    TypeOK
    ShippedPortfolioIsSound
    DashboardReconciles
    UrgentListFollowsGateOrder
    NewUseCaseShowsItsGaps
CHECK_DEADLOCK FALSE
