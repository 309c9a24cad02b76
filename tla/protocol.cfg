SPECIFICATION FairSpec
CONSTANTS
    Tasks = {t1, t2}
    Ender = Ender
    MaxCmds = 2
    MaxRetries = 1
    ColLen = 1
    Replies <- SomeReplies
    RepliesToReads <- NoErrorInRows
    RepliesAfterErr <- NoRows
    AuxLists <- SomeAux
    UsesFailed = FALSE
    AuxMayFail <- AuxErrors
    RepliesToExec <- ExecReplies
    ExecsOnStaleFlag = FALSE
INVARIANTS NothingUnread OneReader EndedIsUnusable NothingLeaked
PROPERTIES CallsReturn
CHECK_DEADLOCK FALSE
