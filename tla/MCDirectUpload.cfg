SPECIFICATION Spec
CONSTANTS
    p1 = p1
    pic = pic
    text = text
    odd = odd
    r1 = r1
    r2 = r2
    p2 = p2
    n1 = n1
    None = None
    Photo = {p1, p2}
    Node = {n1}
    NodeOf <- MCNodeOf
    Request = {r1, r2}
    Content = {pic, text, odd}
    MayPut <- MCMayPut
    Image = {pic, odd}
    Sized = {pic, text}
    Overlapping = FALSE
    MaxMishaps = 1
INVARIANTS
    TypeOK
    UploadedHasOriginal
    ConfirmedIsKept
    DuplicateHasTwin
    SameVerdict
SYMMETRY Requests
