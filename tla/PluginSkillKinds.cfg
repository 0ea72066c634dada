SPECIFICATION FairSpec
CONSTANTS
    Tabs = {t1}
    Correlations = {c1}
    Skills = {"intake", "qualification", "unconnected", "unhandled"}
    Implemented = {"intake", "unconnected", "unhandled"}
    Handled = {"intake", "unconnected"}
    ConnectorsGranted = {"intake", "qualification", "unhandled"}
    ProfileNeeded = {"intake", "unconnected"}
INVARIANT
    RunFollowsItsContext
PROPERTY
    EveryPostAnswered
