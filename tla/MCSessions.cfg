SPECIFICATION MCSpec
CONSTANTS
    Logs <- MCLogs
    Whole <- MCWhole
    MaxLines = 2
    MaxWrites = 4
    MaxFaults = 1
    Absent = Absent
    NoCursor = NoCursor
    Entities = {e1, e2}
    Workers <- MCWorkers
    MaxRecords = 8
    MaxClaudeRecords = 6
CHECK_DEADLOCK FALSE
INVARIANTS
    EvidenceIsSound
    NeverPhantom
    WorkIsShown
PROPERTIES
    ImplementsEvidence
    CatchesUp
