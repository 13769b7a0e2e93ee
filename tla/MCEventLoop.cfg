SPECIFICATION MCSpec
CONSTANTS
    NoSlot = NoSlot
    Nothing = Nothing
    Loading = Loading
    NoWorker = NoWorker
    NoRoom = NoRoom
    Dirs <- MCDirs
    Entities <- MCOne
    MaxSignals = 1
    MaxEvents = 1
INVARIANTS
    SlotsAreSound
    WatchedChangesArePending
    WorkersAnswer
PROPERTY
    ChangesReachScreen
