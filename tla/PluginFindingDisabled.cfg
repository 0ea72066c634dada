SPECIFICATION Spec
CONSTANTS
    Tabs = {t1}
    Correlations = {c1}
    Skills = {"intake"}
    Implemented = {"intake"}
    Handled = {"intake"}
    ConnectorsGranted = {"intake"}
    ProfileNeeded = {"intake"}
PROPERTIES
    NoRunWhileDisabled
