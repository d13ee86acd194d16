SPECIFICATION Spec
CONSTANTS
    p1 = p1
    p2 = p2
    n1 = n1
    n2 = n2
    r1 = r1
    r2 = r2
    s1 = s1
    s2 = s2
    gc = gc
    None = None
    Photo = {p1, p2}
    Node = {n1}
    Sha = {s1}
    Request = {r1, gc}
    GC = gc
    Overlapping = TRUE
    MaxStamp = 2
    MaxAborts = 1
PROPERTIES
    TrashEmptied
    OrphansGo
