SPECIFICATION Spec
CONSTANTS
  Subjects <- MCSubjects
  MaxEdits = 2
INVARIANTS
    OversightChecksAgree
    SeverityMatchesGap
PROPERTY
    MendingNeverWorsens
CHECK_DEADLOCK FALSE
