SPECIFICATION Spec
CONSTANTS
    Dirs = {1, 2, 3, 4}
    Top = 1
    NameWidth <- MCNameWidth
    Starts <- MCStarts
    PressedKeys <- MCKeys
CHECK_DEADLOCK FALSE
INVARIANTS
    KeysAreSound
    WalkIsExact
    ProseIsItsOwn
    GraphIsTrue
