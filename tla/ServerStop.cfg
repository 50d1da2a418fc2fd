CONSTANTS
    me = me
    a = a
    b = b
    Ids <- MCIds
    Self = me
    Configs <- MCConfigs
    MaxActive = 2
    MaxConns = 5
SPECIFICATION Spec
CHECK_DEADLOCK FALSE
PROPERTIES StopTerminates
