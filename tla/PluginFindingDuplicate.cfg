SPECIFICATION Spec
CONSTANTS
    Tabs = {t1, t2}
    Correlations = {c1}
    Skills = {"intake"}
    Implemented = {"intake"}
    Handled = {"intake"}
    ConnectorsGranted = {"intake"}
    ProfileNeeded = {"intake"}
INVARIANTS
    DuplicateIsHandled
