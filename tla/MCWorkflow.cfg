SPECIFICATION MCSpec
CONSTANTS
    Stages <- MCStages
    Report <- MCReport
    Slugs <- MCSlugs
    Worktrees <- MCWorktrees
    IdStyle = "slug"
    TopologyVerified = TRUE
    MainContents <- MCMain
    CopyContents <- MCCopy
    Folders <- MCFolders
    Commits <- MCCommits
    FileName <- MCFileName
    MarkdownNames <- MCMarkdown
    Others <- MCOthers
    MaxCommits = 3
    MaxSkew = 1
    MaxEdits = 2
    MaxLoads = 3
CHECK_DEADLOCK FALSE
INVARIANTS
    RowsAreTrue
    MainDecides
    ApprovalIsRecorded
    HistoryIsTrue
