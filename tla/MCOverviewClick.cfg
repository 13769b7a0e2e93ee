SPECIFICATION Spec
CONSTANTS
    Tasks <- MCTasks
    Stages <- MCStages
    Contents <- MCContents
    Given <- MCGiven
    Height = 2
    MaxScroll = 2
    MaxEdits = 1
    NoRow = NoRow
    NoTask = NoTask
    NoRead = NoRead
INVARIANT
    ClickHitsDrawnRow
