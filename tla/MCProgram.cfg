SPECIFICATION Spec
CONSTANTS
    Workflows = {1, 2}
    Tasks <- MCTasks
    ShownResults = 2
    Page = 2
    Far = 3
    MaxRuns = 2
    MaxEdits = 1
CHECK_DEADLOCK FALSE
INVARIANT
    TerminalIsGivenBack
PROPERTIES
    SelectionRestored
    KeysActOnWhatIsSeen
