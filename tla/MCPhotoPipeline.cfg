SPECIFICATION Spec
CONSTANTS
    p1 = p1
    p2 = p2
    good = good
    bad = bad
    None = None
    Photo = {p1, p2}
    Worker = {w1, w2}
    Caller = {r1, scanner}
    Scanner = scanner
    QueueCap = 1
    Sha = {good, bad}
    ShaOf <- MCShaOf
    Broken = {bad}
    Variant = {"thumb", "md"}
    MaxFaults = 1
    MaxEdits = 1
    MaxRestarts = 1
INVARIANTS
    TypeOK
    InflightExact
    OneHandlerPerPhoto
    BlobFirst
    SoundPhotoFailsForCause
PROPERTY
    LifecycleRefined
    PoolRefined
