\* The pure functions over all small inputs.
SPECIFICATION MCSpec
CONSTANTS
    Key = {"a", "b"}
    Value = {"v", "w"}
    Empty = Empty
    None = None
    Include <- MCInclude
    Compared <- MCCompared
INVARIANTS
    InputIsCoveredLeaves
    DiffTellsTheChange
    OnlyPlainKeysAreJudgedAsRead
    OnlyMessageContentIsShown
    LastValueOfEachName
