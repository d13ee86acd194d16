SPECIFICATION Spec
CONSTANTS
    x1 = x1
    x2 = x2
    w1 = w1
    w2 = w2
    w3 = w3
    l1 = l1
    r1 = r1
    s1 = s1
    s2 = s2
    None = None
    Node = {1, 2, 3}
    Date = {1, 2}
    Editor = {x1, x2}
    Limit = 1
    Write = {w1, w2, w3}
    Quiet = {w3}
    Reader = {x1, x2}
    TTL = 2
    Letter = {l1}
    Visitor = {x1, x2}
    Owner = {x1, x2}
    MaxMoment = 2
    Album = {x1, x2}
    Pic = {1, 2, 3}
    ShaOf <- MCShaOf
    Req = {r1}
    Gap = 1
    Half = 3
    AskedOrd <- MCAskedOrd
    Lists <- MCLists
INVARIANTS
    TypeOK
    SteadyShownOnce
    StatsReadYourWrites
    UploadShowsLast
    PatchedAsAsked
PROPERTIES
    MovedOnlyByName
    StatsAtMostMinuteOld
    NoLetterEarly
    FirstReadStays
    ReorderIsWhole
SYMMETRY Interchangeable
