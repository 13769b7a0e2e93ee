SPECIFICATION Spec
CONSTANTS
    Items <- MCItems
    Entities <- MCEntities
    GateRooms <- MCGateRooms
    Reviews <- MCReviews
    Bytes <- MCBytes
    Starts <- MCStarts
    Report = "i"
    MaxRounds = 2
    MaxDepth = 3
    MaxEdits = 1
INVARIANTS PreviewIsBound PathIsReal
PROPERTIES CursorFollowsItem NothingSwapped
