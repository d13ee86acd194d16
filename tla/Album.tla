------------------------------- MODULE Album --------------------------------
(***************************************************************************)
(* The photos of a node and their order (service/timeline.go 505-707,      *)
(* store/photos.go, the end of UploadLocal).                               *)
(*                                                                         *)
(* A photo shows at (ord, id).  A new photo is given the largest ord of    *)
(* its node plus a gap: an upload reads that number and inserts the row    *)
(* later, a move does both in one transaction.  PatchPhoto applies the     *)
(* fields it is given in statements of their own, BatchPhotos goes through *)
(* its photos one by one, ReorderPhotos renumbers a node in a transaction. *)
(* What happens to photos when whole nodes go is in Trash; here all nodes  *)
(* are live.                                                               *)
(***************************************************************************)
EXTENDS Integers, FiniteSets, Sequences, SequencesExt, Absent

CONSTANTS
    Album,      \* nodes
    Pic,        \* photo ids: the ids break ties, so they are numbers
    ShaOf,      \* the content of each photo
    Req,        \* requests that take several steps
    Gap,        \* distance between order numbers (100)
    Half,       \* order numbers are signed: -Half .. Half - 1 (2^63)
    AskedOrd,   \* order numbers a request may ask for
    Lists       \* the lists of ids that batches and reorders name

ASSUME AlbumAssumption ==
    /\ Pic \subseteq Nat
    /\ Gap \in Nat \ {0}
    /\ Half \in Nat \ {0}
    /\ Gap < Half
    /\ AskedOrd \subseteq -Half .. Half - 1
    /\ Lists \subseteq Seq(Pic)
    \* No list is so long that its numbers wrap around.
    /\ \A ids \in Lists : Len(ids) * Gap < Half
    /\ None \notin Req
    /\ None \notin [album : Album, ord : -Half .. Half - 1, live : BOOLEAN]

VARIABLES
    pic,        \* the photo rows: a row or None
    req,        \* what each request still has to do
    base,       \* history: photos an upload has to come after
    undisturbed \* history: requests whose photo no other one has written

albumVars == <<pic, req, base, undisturbed>>

Ord == -Half .. Half - 1

Row == [album : Album, ord : Ord, live : BOOLEAN]

UploadJob == [op : {"upload"}, pic : Pic, album : Album,
              ord : Ord \cup {None}]

PatchJob == [op : {"patch"}, pic : Pic, album : Album \cup {None},
             ord : Ord \cup {None}, todo : SUBSET {"move", "ord"}]

BatchJob == [op : {"batch"}, ids : Seq(Pic), album : Album \cup {None},
             seen : SUBSET Pic]

AlbumTypeOK ==
    /\ pic \in [Pic -> Row \cup {None}]
    /\ req \in [Req -> UploadJob \cup PatchJob \cup BatchJob \cup {None}]
    /\ base \in [Req -> SUBSET Pic]
    /\ undisturbed \subseteq Req

LivePics == {p \in Pic : pic[p] # None /\ pic[p].live}

In(a) == {p \in LivePics : pic[p].album = a}

AlbumInit ==
    /\ pic = [p \in Pic |-> None]
    /\ req = [r \in Req |-> None]
    /\ base = [r \in Req |-> {}]
    /\ undisturbed = {}

-----------------------------------------------------------------------------
(* Order numbers *)

\* Mutated form of Wrap: the number is taken to have no bound.
WrapNot(i) == i

\* int64 arithmetic.
Wrap(i) == ((i + Half) % (2 * Half)) - Half

Largest(ords) == CHOOSE i \in ords : \A j \in ords : j <= i

\* Mutated form of NextOrd: the photos are counted.
NextOrdByCount(a) == Wrap((Cardinality(In(a)) + 1) * Gap)

\* The largest ord of the node's live photos plus the gap; MAX of none is 0.
NextOrd(a) ==
    IF In(a) = {} THEN Gap
    ELSE Wrap(Largest({pic[p].ord : p \in In(a)}) + Gap)

\* The next number does not wrap around.
Roomy(a) == \A p \in In(a) : pic[p].ord + Gap < Half

\* The order a node shows its photos in: ORDER BY ord, id.
Before(p, q) ==
    pic[p].ord < pic[q].ord \/ (pic[p].ord = pic[q].ord /\ p < q)

ShownOrder(a) ==
    CHOOSE s \in [1..Cardinality(In(a)) -> In(a)] :
        \A i, j \in DOMAIN s : i < j => Before(s[i], s[j])

\* The unique index on (node, content) of live photos.
TakenIn(a, p) == \E q \in In(a) : q # p /\ ShaOf[q] = ShaOf[p]

-----------------------------------------------------------------------------
(* History *)

\* The rows of `photos` are written by r, or by nobody named.
Touch(photos, r) ==
    /\ base' = [q \in Req |-> base[q] \ photos]
    /\ undisturbed' = {q \in undisturbed :
                          q = r \/ req[q] = None \/ req[q].op # "patch"
                            \/ req[q].pic \notin photos}

-----------------------------------------------------------------------------
(* Uploads *)

\* UploadLocal has found no duplicate and stored the blob.
BeginUpload(r, p, a) ==
    /\ req[r] = None
    /\ pic[p] = None
    /\ \A q \in Req : req[q] # None => req[q].op # "upload" \/ req[q].pic # p
    /\ ~TakenIn(a, p)
    /\ req' = [req EXCEPT ![r] = [op |-> "upload", pic |-> p, album |-> a,
                                  ord |-> None]]
    /\ UNCHANGED <<pic, base, undisturbed>>

ReadNextOrd(r) ==
    /\ req[r] # None /\ req[r].op = "upload" /\ req[r].ord = None
    /\ req' = [req EXCEPT ![r].ord = NextOrd(req[r].album)]
    /\ base' = [base EXCEPT ![r] = IF Roomy(req[r].album)
                                  THEN In(req[r].album) ELSE {}]
    /\ UNCHANGED <<pic, undisturbed>>

\* The insert: fails on the unique index, or the photo shows.
InsertPic(r) ==
    /\ req[r] # None /\ req[r].op = "upload" /\ req[r].ord # None
    /\ pic' = IF TakenIn(req[r].album, req[r].pic) THEN pic
              ELSE [pic EXCEPT ![req[r].pic] =
                       [album |-> req[r].album, ord |-> req[r].ord,
                        live |-> TRUE]]
    /\ req' = [req EXCEPT ![r] = None]
    /\ base' = [base EXCEPT ![r] = {}]
    /\ UNCHANGED undisturbed

-----------------------------------------------------------------------------
(* MovePhoto, and the statements that change one row *)

MoveAnswer(p, a) ==
    IF p \notin LivePics THEN "notfound"
    ELSE IF pic[p].album = a THEN "nothing"
    ELSE IF TakenIn(a, p) THEN "duplicate"
    ELSE "moved"

\* The rows after the move transaction, done or rolled back.
AfterMove(p, a) ==
    IF MoveAnswer(p, a) = "moved"
    THEN [pic EXCEPT ![p].album = a, ![p].ord = NextOrd(a)]
    ELSE pic

SoftDeletePic(p) ==
    /\ p \in LivePics
    /\ pic' = [pic EXCEPT ![p].live = FALSE]
    /\ Touch({p}, None)
    /\ UNCHANGED req

\* RestorePhoto; the unique index refuses a second copy of a picture.
RestorePic(p) ==
    /\ pic[p] # None /\ ~pic[p].live
    /\ ~TakenIn(pic[p].album, p)
    /\ pic' = [pic EXCEPT ![p].live = TRUE]
    /\ Touch({p}, None)
    /\ UNCHANGED req

-----------------------------------------------------------------------------
(* PatchPhoto *)

BeginPatch(r, p, a, o) ==
    /\ req[r] = None
    /\ a # None \/ o # None
    /\ req' = [req EXCEPT ![r] =
                  [op |-> "patch", pic |-> p, album |-> a, ord |-> o,
                   todo |-> (IF a # None THEN {"move"} ELSE {})
                              \cup (IF o # None THEN {"ord"} ELSE {})]]
    /\ undisturbed' = undisturbed \cup {r}
    /\ UNCHANGED <<pic, base>>

\* Mutated form of FieldOrder: the number first, the move after it.
FieldOrderSwapped == <<"ord", "move">>

\* "Move first, or the move resets ord" (timeline.go:522).
FieldOrder == <<"move", "ord">>

NextField(todo) ==
    FieldOrder[CHOOSE i \in 1..2 :
                  /\ FieldOrder[i] \in todo
                  /\ \A j \in 1..2 : FieldOrder[j] \in todo => i <= j]

\* The rows after the statement of field f, and whether it succeeded.
AfterField(r, f) ==
    LET p == req[r].pic IN
    CASE f = "move" -> AfterMove(p, req[r].album)
      [] f = "ord" /\ p \in LivePics -> [pic EXCEPT ![p].ord = req[r].ord]
      [] OTHER -> pic

FieldApplied(r, f) ==
    IF f = "move" THEN MoveAnswer(req[r].pic, req[r].album)
                         \in {"moved", "nothing"}
    ELSE req[r].pic \in LivePics

\* One statement.  The first that fails ends the request with an error and
\* leaves what came before it applied.
PatchField(r) ==
    /\ req[r] # None /\ req[r].op = "patch" /\ req[r].todo # {}
    /\ LET f == NextField(req[r].todo) IN
         /\ pic' = AfterField(r, f)
         /\ req' = [req EXCEPT ![r] =
                       IF FieldApplied(r, f)
                       THEN [req[r] EXCEPT !.todo = @ \ {f}] ELSE None]
         /\ IF pic' # pic THEN Touch({req[r].pic}, r)
            ELSE UNCHANGED <<base, undisturbed>>

\* A statement fails, or a caption or note turns out too long: those two are
\* validated and written between the move and the number.
PatchFails(r) ==
    /\ req[r] # None /\ req[r].op = "patch" /\ req[r].todo # {}
    /\ req' = [req EXCEPT ![r] = None]
    /\ undisturbed' = undisturbed \ {r}
    /\ UNCHANGED <<pic, base>>

\* Every field is applied and the request answered.
PatchDone(r) ==
    /\ req[r] # None /\ req[r].op = "patch" /\ req[r].todo = {}
    /\ req' = [req EXCEPT ![r] = None]
    /\ undisturbed' = undisturbed \ {r}
    /\ UNCHANGED <<pic, base>>

-----------------------------------------------------------------------------
(* BatchPhotos: a move to album a, or a deletion when a is None *)

BeginBatch(r, ids, a) ==
    /\ req[r] = None
    /\ req' = [req EXCEPT ![r] =
                  [op |-> "batch", ids |-> ids, album |-> a,
                   seen |-> {}]]
    /\ UNCHANGED <<pic, base, undisturbed>>

\* One photo of the batch, in a transaction or statement of its own; one that
\* is gone or has its like in the other node is reported and passed over, and
\* so is an id that is repeated.
BatchStep(r) ==
    /\ req[r] # None /\ req[r].op = "batch" /\ req[r].ids # <<>>
    /\ LET p == Head(req[r].ids)
           a == req[r].album
       IN /\ pic' = IF p \in req[r].seen THEN pic
                    ELSE IF a # None THEN AfterMove(p, a)
                    ELSE IF p \in LivePics THEN [pic EXCEPT ![p].live = FALSE]
                    ELSE pic
          /\ req' = [req EXCEPT ![r].ids = Tail(@), ![r].seen = @ \cup {p}]
          /\ IF pic' # pic THEN Touch({p}, r)
             ELSE UNCHANGED <<base, undisturbed>>

\* All ids are done and the report is sent, or a database error ends it.
BatchDone(r) ==
    /\ req[r] # None /\ req[r].op = "batch" /\ req[r].ids = <<>>
    /\ req' = [req EXCEPT ![r] = None]
    /\ UNCHANGED <<pic, base, undisturbed>>

BatchAborts(r) ==
    /\ req[r] # None /\ req[r].op = "batch" /\ req[r].ids # <<>>
    /\ req' = [req EXCEPT ![r] = None]
    /\ UNCHANGED <<pic, base, undisturbed>>

-----------------------------------------------------------------------------
(* ReorderPhotos *)

\* Mutated form of ExactSet: only that the ids belong to the node.
ExactSetLoose(a, ids) == ToSet(ids) \subseteq In(a)

\* The ids are those of the node's live photos, each of them once.
ExactSet(a, ids) == Len(ids) = Cardinality(In(a)) /\ ToSet(ids) \subseteq In(a)

ReorderPhotos(a, ids) ==
    /\ ids # <<>>
    /\ IsInjective(ids)
    /\ ExactSet(a, ids)
    /\ pic' = [p \in Pic |->
                  IF p \in ToSet(ids)
                  THEN [pic[p] EXCEPT !.ord =
                           (CHOOSE i \in DOMAIN ids : ids[i] = p) * Gap]
                  ELSE pic[p]]
    /\ Touch(ToSet(ids), None)
    /\ UNCHANGED req

-----------------------------------------------------------------------------

AlbumNext ==
    \/ \E r \in Req :
         \/ \E p \in Pic, a \in Album : BeginUpload(r, p, a)
         \/ ReadNextOrd(r)
         \/ InsertPic(r)
         \/ \E p \in Pic, a \in Album \cup {None},
               o \in AskedOrd \cup {None} : BeginPatch(r, p, a, o)
         \/ PatchField(r)
         \/ PatchFails(r)
         \/ PatchDone(r)
         \/ \E ids \in Lists, a \in Album \cup {None} : BeginBatch(r, ids, a)
         \/ BatchStep(r)
         \/ BatchDone(r)
         \/ BatchAborts(r)
    \/ \E p \in Pic : SoftDeletePic(p) \/ RestorePic(p)
    \/ \E a \in Album, ids \in Lists : ReorderPhotos(a, ids)

AlbumSpec == AlbumInit /\ [][AlbumNext]_albumVars

-----------------------------------------------------------------------------
(* What the order promises *)

\* A new photo shows after every photo that was in its node when the upload
\* read the next number and that nobody has renumbered, moved or deleted
\* since, however other uploads and moves came in between; only a number that
\* a request asked for, within a gap of the largest integer, voids this
\* (upload.go:126, store/photos.go:78).
UploadShowsLast ==
    \A r \in Req :
        (req[r] # None /\ req[r].op = "upload" /\ req[r].ord # None)
          => \A p \in base[r] : pic[p].ord < req[r].ord

\* After a reorder the node shows exactly the ids of the request in their
\* order: a node that gained or lost a photo since the page was loaded
\* refuses it as a whole (store/photos.go:234).
ReorderIsWhole ==
    [][(pic' # pic /\ req' = req) =>
         \A a \in Album, ids \in Lists :
            ReorderPhotos(a, ids) => ShownOrder(a)' = ids]_albumVars

\* A patch that moves a photo and numbers it leaves it with that number in
\* that node, unless another request wrote the photo in between
\* (timeline.go:522).
PatchedAsAsked ==
    \A r \in Req :
        (/\ req[r] # None /\ req[r].op = "patch" /\ req[r].todo = {}
         /\ r \in undisturbed)
          => /\ req[r].ord # None => pic[req[r].pic].ord = req[r].ord
             /\ req[r].album # None => pic[req[r].pic].album = req[r].album
=============================================================================
