SPECIFICATION FilteredSpec
CONSTANTS
    Configs = {"c1"}
    Fields = {}
    MaxChanges = 1
    MaxErrors = 0
PROPERTY OwnClustersEngaged
CHECK_DEADLOCK FALSE
