CONSTANTS
    c = c
    n = n
    Instance = {c, n}
    Coordinators = {c}
    Defect = {"none", "parse", "static"}
    MaxEdits = 2
SPECIFICATION SupervisingSpec
INVARIANTS SupervisorTypeOK OneProcess
PROPERTIES FilesApplied ShutdownEnds
CHECK_DEADLOCK FALSE
