SPECIFICATION Spec
CONSTANTS
    NoSlot = NoSlot
    Nothing = Nothing
    Loading = Loading
    NoWorker = NoWorker
    NoRoom = NoRoom
    Dirs <- MCDirs
    Entities = {}
    MaxSignals = 1
    MaxEvents = 1
INVARIANT
    SwitchStartsWatcher
