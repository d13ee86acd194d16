SPECIFICATION Spec
CONSTANTS
    c1 = c1
    c2 = c2
    k1 = k1
    k2 = k2
    k3 = k3
    f1 = f1
    f2 = f2
    f3 = f3
    s1 = s1
    s2 = s2
    p1 = p1
    p2 = p2
    None = None
    Caller = {c1, c2}
    Full = 7
    Cost = 3
    Refill = 1
    Second = 2
    LastTick = 9
    File = {f1, f2, f3}
    Groups <- MCGroups
    KeyAt <- MCKeyAt
    Trimmed <- MCTrimmed
    ContentOf <- MCContentOf
    Concurrency = 2
    Attempts <- MCAttempts
    MaxWait = 1
    Advised = {1}
    MaxNode = 3
    MaxLost <- MCMaxLost
    Pick = {f1, f2}
    Top = {"a", "d1"}
    Day = {1, 2}
    DayTitle <- MCDayTitle
    Title = {"t"}
    Grouping = {"auto", "folder", "date", "single"}
    Shot = {p1, p2}
    SizeOf <- MCSizeOf
    Caption <- MCCaption
    Words = {s2}
    Listing <- MCListing
INVARIANTS
    TypeOK
    WindowBound
    AdviceSuffices
    CountedIsStored
    NoNeedlessNode
    RerunAddsNothing
    EmittedNodesStay
    ExportFaithful
PROPERTIES
    FailsForCause
