SPECIFICATION ExportSpec
CONSTANTS
    a = a  b = b
    Group = {a, b}
    NoGroup = NoGroup
    NoArg = NoArg
    WorkersArg = 2
    Cpus = 4
    BufferLen = 1
    Jobs <- MCJobs
INVARIANTS ExportTypeOK PrintedOnce GroupsContiguous MissingIsTheDeads
PROPERTY ExportEnds
CHECK_DEADLOCK FALSE
