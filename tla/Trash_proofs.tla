----------------------------- MODULE Trash_proofs -----------------------------
(***************************************************************************)
(* For any photos, nodes, contents and requests, any number of deletions   *)
(* and aborted requests: types and the unique index hold, restoring a node *)
(* is exact, and, as long as uploads, moves and restores do not overlap a  *)
(* purge, a row keeps its original and a purge removes only trash.         *)
(*                                                                         *)
(* RestoreIsExact speaks of live nodes and is not inductive.  Its          *)
(* strengthening says how a photo deleted alone is told from one that went *)
(* along with its node, in a deleted node too: by a stamp that is not the  *)
(* node's.  The unique index survives RestoreNode because copies that are  *)
(* deleted at the same moment are one copy.                                *)
(***************************************************************************)
EXTENDS Trash, TLAPS

\* Rows of one node and content differ in when they were deleted.
CopiesApart ==
    \A p, q \in Rows :
        (home[p] = home[q] /\ sha[p] = sha[q] /\ gone[p] = gone[q]) => p = q

\* No deletion has a stamp yet to be given out.
StampsPast ==
    /\ \A p \in Photo : gone[p] <= stamp
    /\ \A n \in Node : nodeGone[n] <= stamp

\* A photo was deleted alone exactly when its stamp is not its node's.
AloneApart ==
    \A p \in Rows : p \in alone <=> gone[p] \notin {0, nodeGone[home[p]]}

\* Only a row has been deleted.
OnlyRowsGone == \A p \in Photo : p \notin Rows => gone[p] = 0 /\ p \notin alone

\* An upload knows its node, content and photo, and nobody else has that one.
UploadsApart ==
    \A c \in Request :
        /\ Uploading(c) => node[c] # None /\ photo[c] # None /\ file[c] # None
        /\ photo[c] # None =>
             /\ row[photo[c]] = "fresh"
             /\ \A d \in Request : photo[d] = photo[c] => d = c

\* A purge has rows on its lists that are there or were.
ListsKnown ==
    \A c \in Request : \A l \in lists[c] : \A p \in l.photos : row[p] # "fresh"

RowsInv ==
    /\ CopiesApart
    /\ StampsPast
    /\ AloneApart
    /\ OnlyRowsGone

TrashInv ==
    /\ TypeOK
    /\ RowsInv
    /\ UploadsApart
    /\ ListsKnown

\* What else holds when nothing overlaps a purge.
Exclusive == \A c, d \in Request : ~(Uploading(c) /\ Purging(d))

\* An upload that is about to create its row has its original.
OriginalFirst == \A c \in Request : pc[c] = "create" => file[c] \in origs

\* A sha whose object is about to be deleted has no row.
UnlinksUnreferenced ==
    \A c \in Request : pc[c] \in {"unlink", "drop"} => Unreferenced(file[c])

\* What a purge is about to delete is in the trash.
PurgesTrash ==
    \A c \in Request :
        /\ (lists[c] # {} => Purging(c))
        /\ pc[c] = "collect" =>
             \A p \in RowsOf(node[c]) : nodeGone[node[c]] # 0
        /\ \A l \in lists[c] : \A p \in l.photos \cap Rows :
             gone[p] # 0 \/ nodeGone[home[p]] # 0

ApartInv ==
    /\ Exclusive
    /\ RowHasOriginal
    /\ OriginalFirst
    /\ UnlinksUnreferenced
    /\ PurgesTrash

-----------------------------------------------------------------------------
(* The initial state *)

LEMMA InitTrashInv == Init => TrashInv
<1> SUFFICES ASSUME Init PROVE TrashInv
  OBVIOUS
<1>1. TypeOK
  BY TrashAssumption DEF Init, TypeOK, Rows, RowsOf, Copies
<1>2. RowsInv
  BY DEF Init, RowsInv, CopiesApart, StampsPast, AloneApart, OnlyRowsGone,
     Rows
<1>3. UploadsApart /\ ListsKnown
  BY DEF Init, UploadsApart, ListsKnown, Uploading
<1>4. QED
  BY <1>1, <1>2, <1>3 DEF TrashInv

-----------------------------------------------------------------------------
(* Deleting, restoring and moving *)

\* What the requests know does not change when these leave it alone.
LEMMA QuietRequests ==
    ASSUME TrashInv, UNCHANGED <<row, pc, argVars, workVars>>
    PROVE  UploadsApart' /\ ListsKnown'
  BY DEF TrashInv, UploadsApart, ListsKnown, Uploading, argVars, workVars

LEMMA DeletePhotoInv ==
    ASSUME TrashInv, NEW p \in Photo, DeletePhoto(p)
    PROVE  TrashInv'
<1>1. UploadsApart' /\ ListsKnown'
  BY QuietRequests DEF DeletePhoto
<1>2. TypeOK'
  BY TrashAssumption DEF TrashInv, TypeOK, DeletePhoto, NextStamp, Rows,
     RowsOf, Copies, blobVars, argVars, workVars
<1>3. RowsInv'
  BY TrashAssumption DEF TrashInv, TypeOK, RowsInv, CopiesApart, StampsPast,
     AloneApart, OnlyRowsGone, DeletePhoto, NextStamp, Rows
<1>4. QED
  BY <1>1, <1>2, <1>3 DEF TrashInv

LEMMA RestorePhotoInv ==
    ASSUME TrashInv, NEW p \in Photo, RestorePhoto(p)
    PROVE  TrashInv'
<1>1. UploadsApart' /\ ListsKnown'
  BY QuietRequests DEF RestorePhoto
<1>2. TypeOK'
  BY TrashAssumption DEF TrashInv, TypeOK, RestorePhoto, Rows,
     RowsOf, Copies, blobVars, argVars, workVars
<1>3. RowsInv'
  BY TrashAssumption DEF TrashInv, TypeOK, RowsInv, CopiesApart, StampsPast,
     AloneApart, OnlyRowsGone, RestorePhoto, Rows, RowsOf, Copies
<1>4. QED
  BY <1>1, <1>2, <1>3 DEF TrashInv

LEMMA MovePhotoInv ==
    ASSUME TrashInv, NEW p \in Photo, NEW n \in Node, MovePhoto(p, n)
    PROVE  TrashInv'
<1>1. UploadsApart' /\ ListsKnown'
  BY QuietRequests DEF MovePhoto
<1>2. TypeOK'
  BY TrashAssumption DEF TrashInv, TypeOK, MovePhoto, NodeLive, HasCopy, Rows,
     RowsOf, Copies, blobVars, argVars, workVars
<1>3. RowsInv'
  BY TrashAssumption DEF TrashInv, TypeOK, RowsInv, CopiesApart, StampsPast,
     AloneApart, OnlyRowsGone, MovePhoto, NodeLive, HasCopy, Rows, RowsOf,
     Copies
<1>4. QED
  BY <1>1, <1>2, <1>3 DEF TrashInv

LEMMA DeleteNodeInv ==
    ASSUME TrashInv, NEW n \in Node, DeleteNode(n)
    PROVE  TrashInv'
<1>1. UploadsApart' /\ ListsKnown'
  BY QuietRequests DEF DeleteNode
<1>2. TypeOK'
  BY TrashAssumption DEF TrashInv, TypeOK, DeleteNode, NextStamp, Rows,
     RowsOf, Copies, blobVars, argVars, workVars
<1>3. RowsInv'
  BY TrashAssumption DEF TrashInv, TypeOK, RowsInv, CopiesApart, StampsPast,
     AloneApart, OnlyRowsGone, DeleteNode, NodeLive, NextStamp, Rows, RowsOf
<1>4. QED
  BY <1>1, <1>2, <1>3 DEF TrashInv

LEMMA RestoreNodeInv ==
    ASSUME TrashInv, NEW n \in Node, RestoreNode(n)
    PROVE  TrashInv'
<1>1. UploadsApart' /\ ListsKnown'
  BY QuietRequests DEF RestoreNode
<1>2. RowsInv'
  BY TrashAssumption DEF TrashInv, TypeOK, RowsInv, CopiesApart, StampsPast,
     AloneApart, OnlyRowsGone, RestoreNode, TakenAlong, Rows, RowsOf, Copies
<1>3. TypeOK'
  BY TrashAssumption, <1>2 DEF TrashInv, TypeOK, RowsInv, CopiesApart,
     RestoreNode, Rows, RowsOf, Copies, blobVars, argVars, workVars
<1>4. QED
  BY <1>1, <1>2, <1>3 DEF TrashInv

-----------------------------------------------------------------------------
(* Uploading *)

\* What is said of the rows does not change when they do not.
LEMMA QuietRows ==
    ASSUME RowsInv, UNCHANGED trashVars
    PROVE  RowsInv'
  BY DEF RowsInv, CopiesApart, StampsPast, AloneApart, OnlyRowsGone, Rows,
     trashVars

\* A request may leave at any time.
LEMMA LeaveTypes ==
    ASSUME TypeOK, NEW c \in Request, Leave(c), UNCHANGED trashVars,
           UNCHANGED <<blobVars, cutoff, aborts>>
    PROVE  TypeOK'
  BY TrashAssumption DEF TypeOK, Leave, Goto, Rows, RowsOf, Copies, trashVars,
     blobVars

LEMMA UploadInv ==
    ASSUME TrashInv, NEW c \in Request, NEW n \in Node, NEW s \in Sha,
           Upload(c, n, s)
    PROVE  TrashInv'
<1>1. RowsInv'
  BY QuietRows DEF TrashInv, Upload
<1>2. TypeOK'
  BY TrashAssumption DEF TrashInv, TypeOK, Upload, Goto, Rows, RowsOf, Copies,
     trashVars, blobVars, workVars
<1>3. UploadsApart'
  BY TrashAssumption DEF TrashInv, TypeOK, UploadsApart, Uploading, Upload,
     Goto, trashVars
<1>4. ListsKnown'
  BY DEF TrashInv, ListsKnown, Upload, workVars, trashVars
<1>5. QED
  BY <1>1, <1>2, <1>3, <1>4 DEF TrashInv

LEMMA UploadCheckInv ==
    ASSUME TrashInv, NEW c \in Request,
           FindDuplicate(c) \/ StatOrig(c) \/ PutOrig(c)
    PROVE  TrashInv'
<1>1. RowsInv'
  BY QuietRows DEF TrashInv, FindDuplicate, StatOrig, PutOrig
<1>2. TypeOK'
  <2>1. CASE FindDuplicate(c)
    <3>1. CASE Leave(c)
      BY <2>1, <3>1, LeaveTypes DEF TrashInv, FindDuplicate
    <3>2. CASE Goto(c, "stat") /\ UNCHANGED <<argVars, workVars>>
      BY <2>1, <3>2, TrashAssumption DEF TrashInv, TypeOK, FindDuplicate, Goto,
         Rows, RowsOf, Copies, trashVars, blobVars, argVars, workVars
    <3>3. QED
      BY <2>1, <3>1, <3>2 DEF FindDuplicate
  <2>2. CASE StatOrig(c)
    BY <2>2, TrashAssumption DEF TrashInv, TypeOK, StatOrig, Goto, Rows, RowsOf,
       Copies, trashVars, blobVars, argVars, workVars
  <2>3. CASE PutOrig(c)
    <3>1. file[c] \in Sha
      BY <2>3 DEF TrashInv, TypeOK, UploadsApart, Uploading, PutOrig
    <3>2. QED
      BY <2>3, <3>1, TrashAssumption DEF TrashInv, TypeOK, PutOrig, Goto, Rows,
         RowsOf, Copies, trashVars, argVars, workVars
  <2>4. QED
    BY <2>1, <2>2, <2>3
<1>3. UploadsApart'
  BY TrashAssumption DEF TrashInv, TypeOK, UploadsApart, Uploading,
     FindDuplicate, StatOrig, PutOrig, Goto, Leave, trashVars, argVars
<1>4. ListsKnown'
  BY DEF TrashInv, TypeOK, ListsKnown, FindDuplicate, StatOrig, PutOrig, Leave,
     trashVars, workVars
<1>5. QED
  BY <1>1, <1>2, <1>3, <1>4 DEF TrashInv

LEMMA CreatePhotoInv ==
    ASSUME TrashInv, NEW c \in Request, CreatePhoto(c)
    PROVE  TrashInv'
<1>1. /\ node[c] \in Node /\ photo[c] \in Photo /\ file[c] \in Sha
      /\ row[photo[c]] = "fresh"
  BY DEF TrashInv, TypeOK, UploadsApart, Uploading, CreatePhoto
<1>2. RowsInv'
  BY <1>1, TrashAssumption DEF TrashInv, TypeOK, RowsInv, CopiesApart,
     StampsPast, AloneApart, OnlyRowsGone, CreatePhoto, Rows, RowsOf, Copies
<1>3. TypeOK'
  <2>1. \A n \in Node, s \in Sha : \A p, q \in Copies(n, s)' : p = q
    BY <1>2 DEF RowsInv, CopiesApart, Copies, RowsOf, Rows
  <2>2. \A p \in Rows' : home'[p] \in nodes' /\ sha'[p] # None
    BY <1>1, TrashAssumption DEF TrashInv, TypeOK, CreatePhoto, Rows
  <2>3. /\ row' \in [Photo -> {"fresh", "there", "purged"}]
        /\ home' \in [Photo -> Node \cup {None}]
        /\ sha' \in [Photo -> Sha \cup {None}]
    BY <1>1 DEF TrashInv, TypeOK, CreatePhoto
  <2>4. QED
    BY <2>1, <2>2, <2>3, TrashAssumption DEF TrashInv, TypeOK, CreatePhoto,
       Goto, Leave, blobVars
<1>4. UploadsApart'
  BY <1>1, TrashAssumption DEF TrashInv, TypeOK, UploadsApart, Uploading,
     CreatePhoto, Goto, Leave
<1>5. ListsKnown'
  BY <1>1 DEF TrashInv, TypeOK, ListsKnown, CreatePhoto, Leave
<1>6. QED
  BY <1>2, <1>3, <1>4, <1>5 DEF TrashInv

-----------------------------------------------------------------------------
(* Purging *)

\* Steps of a purge that start on new lists of rows.
LEMMA DoomInv ==
    ASSUME TrashInv, NEW c \in Request,
           NEW ls \in SUBSET [node : Node \cup {None}, photos : SUBSET Rows],
           ~Uploading(c), Doom(c, ls),
           UNCHANGED <<trashVars, blobVars, cutoff, aborts>>
    PROVE  TrashInv'
<1>1. RowsInv'
  BY QuietRows DEF TrashInv
<1>2. Rows \subseteq Photo
  BY DEF Rows
<1>3. {sha[p] : p \in UNION {l.photos : l \in ls}} \subseteq Sha
  BY <1>2 DEF TrashInv, TypeOK
<1>4. ls \in SUBSET [node : Node \cup {None}, photos : SUBSET Photo]
  BY <1>2
<1>5. TypeOK'
  BY <1>3, <1>4, TrashAssumption DEF TrashInv, TypeOK, Doom, Goto, Rows,
     RowsOf, Copies, trashVars, blobVars, argVars
<1>6. UploadsApart'
  BY TrashAssumption DEF TrashInv, TypeOK, UploadsApart, Uploading, Doom, Goto,
     trashVars, argVars
<1>7. ListsKnown'
  BY DEF TrashInv, TypeOK, ListsKnown, Doom, Rows, trashVars
<1>8. QED
  BY <1>1, <1>5, <1>6, <1>7 DEF TrashInv

\* The steps of a purge, and of time, that only move a request along.
LEMMA PurgeWalkInv ==
    ASSUME TrashInv, NEW c \in Request,
           \/ \E n \in Node : PurgeNode(c, n)
           \/ CountRefs(c)
           \/ Unlink(c)
           \/ Done(c)
           \/ Abort(c)
    PROVE  TrashInv'
<1>1. RowsInv'
  BY QuietRows DEF TrashInv, PurgeNode, CountRefs, Unlink, Done, Abort
<1>2. TypeOK'
  <2>1. CASE \E n \in Node : PurgeNode(c, n)
    BY <2>1, TrashAssumption DEF TrashInv, TypeOK, PurgeNode, Goto, Rows,
       RowsOf, Copies, trashVars, blobVars, workVars
  <2>2. CASE CountRefs(c)
    BY <2>2, TrashAssumption DEF TrashInv, TypeOK, CountRefs, Goto, Rows,
       RowsOf, Copies, trashVars, blobVars
  <2>3. CASE Unlink(c)
    BY <2>3, TrashAssumption DEF TrashInv, TypeOK, Unlink, Goto, Rows, RowsOf,
       Copies, trashVars, workVars
  <2>4. CASE Done(c)
    <3>1. CASE Leave(c)
      BY <2>4, <3>1, LeaveTypes DEF TrashInv, Done
    <3>2. CASE ~Leave(c)
      <4>1. /\ Goto(c, "sweep")
            /\ shas' = [shas EXCEPT ![c] = origs]
            /\ UNCHANGED <<argVars, lists, trashVars, blobVars, cutoff, aborts>>
        BY <2>4, <3>2 DEF Done, Listed
      <4>2. QED
        BY <4>1, TrashAssumption DEF TrashInv, TypeOK, Goto, Rows, RowsOf,
           Copies, trashVars, blobVars, argVars
    <3>3. QED
      BY <3>1, <3>2
  <2>5. CASE Abort(c)
    BY <2>5, TrashAssumption DEF TrashInv, TypeOK, Abort, Goto, Leave, Rows,
       RowsOf, Copies, trashVars, blobVars
  <2>6. QED
    BY <2>1, <2>2, <2>3, <2>4, <2>5
<1>3. UploadsApart'
  BY TrashAssumption DEF TrashInv, TypeOK, UploadsApart, Uploading, PurgeNode,
     CountRefs, Unlink, Done, Abort, Goto, Leave, trashVars, argVars
<1>4. ListsKnown'
  BY DEF TrashInv, TypeOK, ListsKnown, PurgeNode, CountRefs, Unlink, Done,
     Abort, Leave, trashVars, workVars
<1>5. QED
  BY <1>1, <1>2, <1>3, <1>4 DEF TrashInv

LEMMA DeleteRowsInv ==
    ASSUME TrashInv, NEW c \in Request, DeleteRows(c)
    PROVE  TrashInv'
<1>1. PICK l \in lists[c] :
        /\ row' = [p \in Photo |-> IF p \in l.photos THEN "purged" ELSE row[p]]
        /\ home' = [p \in Photo |-> IF p \in l.photos THEN None ELSE home[p]]
        /\ sha' = [p \in Photo |-> IF p \in l.photos THEN None ELSE sha[p]]
        /\ gone' = [p \in Photo |-> IF p \in l.photos THEN 0 ELSE gone[p]]
        /\ alone' = alone \ l.photos
        /\ lists' = [lists EXCEPT ![c] = @ \ {l}]
        /\ node' = [node EXCEPT ![c] = l.node]
        /\ Goto(c, AfterRows(c, l))
  BY DEF DeleteRows
<1>2. l \in [node : Node \cup {None}, photos : SUBSET Photo]
  BY DEF TrashInv, TypeOK
<1>3. AfterRows(c, l) \in {"node", "nodes", "blobs"}
  BY <1>2 DEF AfterRows
<1>4. Rows' = Rows \ l.photos
  BY <1>1 DEF Rows
<1>5. RowsInv'
  BY <1>1, <1>4, TrashAssumption DEF TrashInv, TypeOK, RowsInv, CopiesApart,
     StampsPast, AloneApart, OnlyRowsGone, DeleteRows, Rows
<1>6. TypeOK'
  BY <1>1, <1>2, <1>3, <1>4, TrashAssumption DEF TrashInv, TypeOK, DeleteRows,
     Goto, Rows, RowsOf, Copies, blobVars
<1>7. UploadsApart'
  BY <1>1, <1>2, <1>3 DEF TrashInv, TypeOK, UploadsApart, ListsKnown,
     Uploading, DeleteRows, Goto
<1>8. ListsKnown'
  BY <1>1, <1>2 DEF TrashInv, TypeOK, ListsKnown
<1>9. QED
  BY <1>5, <1>6, <1>7, <1>8 DEF TrashInv

LEMMA DeleteNodeRowInv ==
    ASSUME TrashInv, NEW c \in Request, DeleteNodeRow(c)
    PROVE  TrashInv'
<1>1. RowsInv'
  BY TrashAssumption DEF TrashInv, TypeOK, RowsInv, CopiesApart, StampsPast,
     AloneApart, OnlyRowsGone, DeleteNodeRow, Rows, RowsOf
<1>2. TypeOK'
  <2>1. CASE RowsOf(node[c]) = {}
    <3>1. /\ nodes' = nodes \ {node[c]}
          /\ nodeGone' = [nodeGone EXCEPT ![node[c]] = 0]
          /\ node' = [node EXCEPT ![c] = None]
          /\ Goto(c, IF lists[c] = {} THEN "blobs" ELSE "rows")
          /\ UNCHANGED <<photo, file, workVars, row, home, sha, gone, alone,
                         stamp, blobVars, cutoff, aborts>>
      BY <2>1 DEF DeleteNodeRow
    <3>2. \A p \in Rows' : home'[p] \in nodes' /\ sha'[p] # None
      BY <2>1, <3>1 DEF TrashInv, TypeOK, DeleteNodeRow, Rows, RowsOf
    <3>3. \A n \in Node, s \in Sha : \A p, q \in Copies(n, s)' : p = q
      BY DEF TrashInv, TypeOK, DeleteNodeRow, Rows, RowsOf, Copies
    <3>4. /\ nodes' \subseteq Node
          /\ nodeGone' \in [Node -> 0..MaxStamp]
      <4>1. nodes \subseteq Node /\ nodeGone \in [Node -> 0..MaxStamp]
        BY DEF TrashInv, TypeOK
      <4>2. /\ nodes' = nodes \ {node[c]}
            /\ nodeGone' = [nodeGone EXCEPT ![node[c]] = 0]
        BY <3>1
      <4>3. 0 \in 0..MaxStamp
        BY TrashAssumption
      <4>4. QED
        BY <4>1, <4>2, <4>3
    <3>5. /\ pc' = [pc EXCEPT ![c] = "blobs"] \/ pc' = [pc EXCEPT ![c] = "rows"]
          /\ node' \in [Request -> Node \cup {None}]
      BY <3>1 DEF TrashInv, TypeOK, Goto
    <3>6. QED
      BY <3>1, <3>2, <3>3, <3>4, <3>5 DEF TrashInv, TypeOK, blobVars, workVars
  <2>2. CASE RowsOf(node[c]) # {}
    BY <2>2, LeaveTypes DEF TrashInv, DeleteNodeRow, trashVars
  <2>3. QED
    BY <2>1, <2>2
<1>3. UploadsApart'
  BY TrashAssumption DEF TrashInv, TypeOK, UploadsApart, Uploading,
     DeleteNodeRow, Goto, Leave
<1>4. ListsKnown'
  BY DEF TrashInv, TypeOK, ListsKnown, DeleteNodeRow, Leave, workVars
<1>5. QED
  BY <1>1, <1>2, <1>3, <1>4 DEF TrashInv

-----------------------------------------------------------------------------
(* Every step *)

\* The three ways to start on lists, and PhotoRowsOfNode.
LEMMA DoomStepInv ==
    ASSUME TrashInv, NEW c \in Request,
           \/ \E p \in Photo : PurgePhoto(c, p)
           \/ Collect(c)
           \/ c = GC /\ (StartGC \/ ListNodes)
    PROVE  TrashInv'
<1> DEFINE Lists == [node : Node \cup {None}, photos : SUBSET Rows]
<1>1. ASSUME NEW p \in Photo, PurgePhoto(c, p) PROVE TrashInv'
  <2>1. {[node |-> None, photos |-> {p}]} \in SUBSET Lists
    BY <1>1 DEF PurgePhoto, InTrash
  <2>2. QED
    BY <1>1, <2>1, DoomInv DEF PurgePhoto, Uploading
<1>2. CASE Collect(c)
  <2>1. {[node |-> node[c], photos |-> RowsOf(node[c])]} \in SUBSET Lists
    BY DEF TrashInv, TypeOK, RowsOf
  <2>2. QED
    BY <1>2, <2>1, DoomInv DEF Collect, Uploading
<1>3. CASE c = GC /\ StartGC
  <2> DEFINE overdue == {p \in Rows : /\ gone[p] \in 1..(cutoff - 1)
                                      /\ nodeGone[home[p]] = 0}
  <2>1. {[node |-> None, photos |-> overdue]} \in SUBSET Lists
    OBVIOUS
  <2>2. Doom(c, {[node |-> None, photos |-> overdue]})
    BY <1>3 DEF StartGC
  <2>3. QED
    BY <1>3, <2>1, <2>2, DoomInv DEF StartGC, Uploading
<1>4. CASE c = GC /\ ListNodes
  <2>1. CASE OverdueNodes = {}
    <3>1. RowsInv'
      BY <1>4, QuietRows DEF TrashInv, ListNodes
    <3>2. TypeOK'
      BY <1>4, <2>1, TrashAssumption DEF TrashInv, TypeOK, ListNodes, Goto,
         Rows, RowsOf, Copies, trashVars, blobVars, argVars, workVars
    <3>3. UploadsApart' /\ ListsKnown'
      BY <1>4, <2>1, TrashAssumption DEF TrashInv, TypeOK, UploadsApart,
         ListsKnown, Uploading, ListNodes, Goto, trashVars, argVars, workVars
    <3>4. QED
      BY <3>1, <3>2, <3>3 DEF TrashInv
  <2>2. CASE OverdueNodes # {}
    <3>1. {[node |-> n, photos |-> RowsOf(n)] : n \in OverdueNodes}
            \in SUBSET Lists
      BY DEF TrashInv, TypeOK, OverdueNodes, RowsOf
    <3>2. QED
      BY <1>4, <2>2, <3>1, DoomInv DEF ListNodes, Uploading
  <2>3. QED
    BY <2>1, <2>2
<1>5. QED
  BY <1>1, <1>2, <1>3, <1>4

\* Time passes.
LEMMA TimeInv ==
    ASSUME TrashInv, \/ TimePasses
                     \/ \E s \in Sha : Age(s)
                     \/ UNCHANGED vars
    PROVE  TrashInv'
<1>1. RowsInv'
  BY QuietRows DEF TrashInv, TimePasses, Age, vars
<1>2. TypeOK'
  BY TrashAssumption DEF TrashInv, TypeOK, TimePasses, Age, Rows, RowsOf,
     Copies, vars, trashVars, blobVars, argVars, workVars
<1>3. UploadsApart' /\ ListsKnown'
  BY QuietRequests DEF TimePasses, Age, vars, trashVars
<1>4. QED
  BY <1>1, <1>2, <1>3 DEF TrashInv

LEMMA TrashStep == TrashInv /\ [Next]_vars => TrashInv'
<1> SUFFICES ASSUME TrashInv, [Next]_vars PROVE TrashInv'
  OBVIOUS
<1>1. ASSUME NEW p \in Photo, DeletePhoto(p) \/ RestorePhoto(p)
      PROVE  TrashInv'
  BY <1>1, DeletePhotoInv, RestorePhotoInv
<1>2. ASSUME NEW p \in Photo, NEW n \in Node, MovePhoto(p, n)
      PROVE  TrashInv'
  BY <1>2, MovePhotoInv
<1>3. ASSUME NEW n \in Node, DeleteNode(n) \/ RestoreNode(n)
      PROVE  TrashInv'
  BY <1>3, DeleteNodeInv, RestoreNodeInv
<1>4. ASSUME NEW c \in Request,
             (\E n \in Node, s \in Sha : Upload(c, n, s)) \/ UploadStep(c)
      PROVE  TrashInv'
  BY <1>4, UploadInv, UploadCheckInv, CreatePhotoInv DEF UploadStep
<1>5. ASSUME NEW c \in Request,
             \/ \E p \in Photo : PurgePhoto(c, p)
             \/ \E n \in Node : PurgeNode(c, n)
             \/ PurgeStep(c)
             \/ Abort(c)
      PROVE  TrashInv'
  BY <1>5, DoomStepInv, PurgeWalkInv, DeleteRowsInv, DeleteNodeRowInv
     DEF PurgeStep
<1>6. CASE StartGC
  BY <1>6, DoomStepInv, TrashAssumption
<1>7. CASE TimePasses \/ (\E s \in Sha : Age(s)) \/ UNCHANGED vars
  BY <1>7, TimeInv
<1>8. QED
  BY <1>1, <1>2, <1>3, <1>4, <1>5, <1>6, <1>7 DEF Next

\* The inductive invariant of the trash, whatever overlaps: it holds in every
\* state of PurgeTrashItem, GC and the requests around them.
THEOREM TrashInvariant == Spec => []TrashInv
<1>1. QED
  BY InitTrashInv, TrashStep, PTL DEF Spec

\* Types, the foreign key and the unique index uq_node_sha hold.
THEOREM TrashTypeCorrect == Spec => []TypeOK
<1>1. TrashInv => TypeOK
  BY DEF TrashInv
<1>2. QED
  BY <1>1, TrashInvariant, PTL

\* Restoring a node brings back the photos that were deleted with it and no
\* others (RestoreNode, store/nodes.go): also for any number of nodes,
\* photos and deletions, with purges and uploads going on.
THEOREM TrashRestoreIsExact == Spec => []RestoreIsExact
<1>1. TrashInv => RestoreIsExact
  BY DEF TrashInv, TypeOK, RowsInv, AloneApart, RestoreIsExact, NodeLive, Rows
<1>2. QED
  BY <1>1, TrashInvariant, PTL

-----------------------------------------------------------------------------
(* When uploads, moves and restores do not overlap a purge *)

LEMMA InitApartInv == Init => ApartInv
  BY DEF Init, ApartInv, Exclusive, RowHasOriginal, OriginalFirst,
     UnlinksUnreferenced, PurgesTrash, Uploading, Purging, Rows

\* Between two purges nothing is on the lists and nothing about to be
\* unlinked, so edits and uploads have only the rows to keep right.
LEMMA NoPurgeNoLists ==
    ASSUME PurgesTrash, \A c \in Request : ~Purging(c)
    PROVE  /\ \A c \in Request : lists[c] = {}
           /\ \A c \in Request :
                pc[c] \in {"idle", "dup", "stat", "put", "create"}
  BY DEF PurgesTrash, Purging, Uploading

LEMMA EditApart ==
    ASSUME ~Overlapping, TrashInv, ApartInv,
           \/ \E p \in Photo : \/ RestorePhoto(p)
                               \/ \E n \in Node : MovePhoto(p, n)
           \/ \E n \in Node : RestoreNode(n)
    PROVE  ApartInv'
<1>1. UNCHANGED <<row, sha, blobVars, pc, argVars, workVars>>
  BY DEF RestorePhoto, MovePhoto, RestoreNode
<1>2. \A c \in Request : ~Purging(c)
  BY DEF RestorePhoto, MovePhoto, RestoreNode, MayEdit
<1>3. Exclusive' /\ RowHasOriginal' /\ OriginalFirst' /\ UnlinksUnreferenced'
  BY <1>1 DEF ApartInv, Exclusive, RowHasOriginal, OriginalFirst,
     UnlinksUnreferenced, Unreferenced, RowsWith, Rows, Uploading, Purging,
     argVars, blobVars
<1>4. PurgesTrash'
  BY <1>1, <1>2, NoPurgeNoLists DEF ApartInv, PurgesTrash, workVars
<1>5. QED
  BY <1>3, <1>4 DEF ApartInv

LEMMA DeleteApart ==
    ASSUME TrashInv, ApartInv,
           \/ \E p \in Photo : DeletePhoto(p)
           \/ \E n \in Node : DeleteNode(n)
    PROVE  ApartInv'
<1>1. UNCHANGED <<row, home, sha, blobVars, pc, argVars, workVars>>
  BY DEF DeletePhoto, DeleteNode
<1>2. Exclusive' /\ RowHasOriginal' /\ OriginalFirst' /\ UnlinksUnreferenced'
  BY <1>1 DEF ApartInv, Exclusive, RowHasOriginal, OriginalFirst,
     UnlinksUnreferenced, Unreferenced, RowsWith, Rows, Uploading, Purging,
     argVars, blobVars
<1>3. /\ \A p \in Photo : gone[p] # 0 => gone'[p] # 0
      /\ \A n \in Node : nodeGone[n] # 0 => nodeGone'[n] # 0
  BY TrashAssumption DEF TrashInv, TypeOK, DeletePhoto, DeleteNode, NextStamp
<1>4. PurgesTrash'
  BY <1>1, <1>3, TrashAssumption DEF TrashInv, TypeOK, ApartInv, PurgesTrash,
     Purging, Uploading, Rows, RowsOf, argVars, workVars
<1>5. QED
  BY <1>2, <1>4 DEF ApartInv

LEMMA UploadApart ==
    ASSUME ~Overlapping, TrashInv, ApartInv, NEW c \in Request,
           (\E n \in Node, s \in Sha : Upload(c, n, s)) \/ UploadStep(c)
    PROVE  ApartInv'
<1>1. \A d \in Request : ~Purging(d)
  BY DEF ApartInv, Exclusive, Upload, UploadStep, FindDuplicate, StatOrig,
     PutOrig, CreatePhoto, MayEdit, Uploading
<1>2. /\ \A d \in Request \ {c} : pc'[d] = pc[d] /\ file'[d] = file[d]
      /\ \A d \in Request : lists[d] = {} /\ lists'[d] = {}
      /\ origs \subseteq origs'
      /\ pc'[c] \in {"idle", "dup", "stat", "put", "create"}
  BY <1>1, NoPurgeNoLists DEF TrashInv, TypeOK, ApartInv, Upload, UploadStep,
     FindDuplicate, StatOrig, PutOrig, CreatePhoto, Goto, Leave, argVars,
     workVars, blobVars
<1>3. \A d \in Request : pc'[d] \in {"idle", "dup", "stat", "put", "create"}
  BY <1>1, <1>2, NoPurgeNoLists DEF ApartInv
<1>4. Exclusive' /\ UnlinksUnreferenced' /\ PurgesTrash'
  BY <1>2, <1>3 DEF Exclusive, UnlinksUnreferenced, PurgesTrash, Purging,
     Uploading
<1>5. OriginalFirst'
  <2>1. pc'[c] = "create" => file'[c] \in origs'
    BY DEF TrashInv, TypeOK, Upload, UploadStep, FindDuplicate, StatOrig,
       PutOrig, CreatePhoto, Goto, Leave, argVars, blobVars
  <2>2. QED
    BY <1>2, <2>1 DEF ApartInv, OriginalFirst
<1>6. RowHasOriginal'
  <2>1. CASE UNCHANGED <<row, sha>>
    BY <1>2, <2>1 DEF ApartInv, RowHasOriginal, Rows
  <2>2. CASE CreatePhoto(c)
    BY <1>2, <2>2 DEF TrashInv, TypeOK, ApartInv, RowHasOriginal,
       OriginalFirst, CreatePhoto, Rows
  <2>3. QED
    BY <2>1, <2>2 DEF Upload, UploadStep, FindDuplicate, StatOrig, PutOrig,
       trashVars
<1>7. QED
  BY <1>4, <1>5, <1>6 DEF ApartInv

\* A purge that starts on lists of rows in the trash.
LEMMA DoomApart ==
    ASSUME TrashInv, ApartInv, NEW c \in Request,
           \A d \in Request : ~Uploading(d),
           NEW ls, Doom(c, ls), UNCHANGED <<trashVars, blobVars>>,
           \A l \in ls : \A p \in l.photos \cap Rows :
               gone[p] # 0 \/ nodeGone[home[p]] # 0
    PROVE  ApartInv'
<1>1. /\ pc' = [pc EXCEPT ![c] = "rows"]
      /\ lists' = [lists EXCEPT ![c] = ls]
      /\ UNCHANGED argVars
  BY DEF Doom, Goto
<1>2. Exclusive' /\ OriginalFirst' /\ UnlinksUnreferenced'
  BY <1>1 DEF TrashInv, TypeOK, ApartInv, Exclusive, OriginalFirst,
     UnlinksUnreferenced, Unreferenced, RowsWith, Rows, Uploading, argVars,
     trashVars
<1>3. RowHasOriginal'
  BY DEF ApartInv, RowHasOriginal, Rows, trashVars, blobVars
<1>4. PurgesTrash'
  BY <1>1 DEF TrashInv, TypeOK, ApartInv, PurgesTrash, Purging, Uploading,
     Rows, RowsOf, argVars, trashVars
<1>5. QED
  BY <1>2, <1>3, <1>4 DEF ApartInv

\* What a purge lists is in the trash at that moment.
LEMMA DoomStepApart ==
    ASSUME ~Overlapping, TrashInv, ApartInv, NEW c \in Request,
           \/ \E p \in Photo : PurgePhoto(c, p)
           \/ Collect(c)
           \/ c = GC /\ (StartGC \/ ListNodes)
    PROVE  ApartInv'
<1>0. 0 \notin 1..(cutoff - 1)
  BY TrashAssumption DEF TrashInv, TypeOK
<1>1. \A d \in Request : ~Uploading(d)
  BY DEF ApartInv, Exclusive, PurgePhoto, Collect, StartGC, ListNodes,
     MayPurge, Purging, Uploading
<1>2. ASSUME NEW p \in Photo, PurgePhoto(c, p) PROVE ApartInv'
  BY <1>1, <1>2, DoomApart DEF PurgePhoto, InTrash
<1>3. CASE Collect(c)
  BY <1>1, <1>3, DoomApart DEF Collect, ApartInv, PurgesTrash, RowsOf
<1>4. CASE c = GC /\ StartGC
  <2> DEFINE overdue == {p \in Rows : /\ gone[p] \in 1..(cutoff - 1)
                                      /\ nodeGone[home[p]] = 0}
  <2>1. /\ Doom(c, {[node |-> None, photos |-> overdue]})
        /\ UNCHANGED <<trashVars, blobVars>>
    BY <1>4 DEF StartGC
  <2>2. \A p \in overdue : gone[p] # 0
    BY <1>0
  <2>3. QED
    BY <1>1, <2>1, <2>2, DoomApart
<1>5. CASE c = GC /\ ListNodes
  <2> DEFINE ls == {[node |-> n, photos |-> RowsOf(n)] : n \in OverdueNodes}
  <2>1. CASE Doom(c, ls)
    <3>1. \A l \in ls : \A p \in l.photos : nodeGone[home[p]] # 0
      <4>1. \A n \in OverdueNodes : nodeGone[n] # 0
        BY <1>0 DEF OverdueNodes
      <4>2. \A n \in OverdueNodes : \A p \in RowsOf(n) : nodeGone[home[p]] # 0
        BY <4>1 DEF RowsOf
      <4>3. ASSUME NEW l \in ls, NEW p \in l.photos
            PROVE  nodeGone[home[p]] # 0
        <5>1. PICK n \in OverdueNodes :
                l = [node |-> n, photos |-> RowsOf(n)]
          OBVIOUS
        <5>2. p \in RowsOf(n)
          BY <5>1
        <5>3. QED
          BY <4>2, <5>2
      <4>4. QED
        BY <4>3
    <3>2. QED
      BY <1>1, <1>5, <2>1, <3>1, DoomApart DEF ListNodes
  <2>2. CASE Goto(c, "blobs") /\ UNCHANGED <<argVars, workVars>>
    BY <1>1, <1>5, <2>2 DEF ListNodes, Goto, TrashInv, TypeOK, ApartInv,
       Exclusive, RowHasOriginal, OriginalFirst, UnlinksUnreferenced,
       Unreferenced, PurgesTrash, Purging, Uploading, RowsWith, RowsOf, Rows,
       argVars, workVars, trashVars, blobVars
  <2>3. QED
    BY <1>5, <2>1, <2>2 DEF ListNodes
<1>6. QED
  BY <1>2, <1>3, <1>4, <1>5

LEMMA PurgeNodeApart ==
    ASSUME ~Overlapping, TrashInv, ApartInv, NEW c \in Request, NEW n \in Node,
           PurgeNode(c, n)
    PROVE  ApartInv'
<1>1. \A d \in Request : ~Uploading(d)
  BY DEF PurgeNode, MayPurge
<1>2. /\ pc' = [pc EXCEPT ![c] = "collect"]
      /\ node' = [node EXCEPT ![c] = n]
      /\ nodeGone[n] # 0
      /\ UNCHANGED <<trashVars, blobVars, photo, file, workVars>>
  BY DEF PurgeNode, Goto
<1>3. Exclusive' /\ OriginalFirst' /\ UnlinksUnreferenced'
  BY <1>1, <1>2 DEF TrashInv, TypeOK, ApartInv, Exclusive, OriginalFirst,
     UnlinksUnreferenced, Unreferenced, RowsWith, Rows, Uploading, trashVars
<1>4. RowHasOriginal'
  BY <1>2 DEF ApartInv, RowHasOriginal, Rows, trashVars, blobVars
<1>5. PurgesTrash'
  BY <1>2 DEF TrashInv, TypeOK, ApartInv, PurgesTrash, Purging, Uploading,
     Rows, RowsOf, trashVars, workVars
<1>6. QED
  BY <1>3, <1>4, <1>5 DEF ApartInv

\* HardDeletePhotos takes rows away and adds none.
LEMMA DeleteRowsApart ==
    ASSUME TrashInv, ApartInv, NEW c \in Request, DeleteRows(c)
    PROVE  ApartInv'
<1>1. PICK l \in lists[c] :
        /\ row' = [p \in Photo |-> IF p \in l.photos THEN "purged" ELSE row[p]]
        /\ home' = [p \in Photo |-> IF p \in l.photos THEN None ELSE home[p]]
        /\ sha' = [p \in Photo |-> IF p \in l.photos THEN None ELSE sha[p]]
        /\ gone' = [p \in Photo |-> IF p \in l.photos THEN 0 ELSE gone[p]]
        /\ lists' = [lists EXCEPT ![c] = @ \ {l}]
        /\ node' = [node EXCEPT ![c] = l.node]
        /\ Goto(c, AfterRows(c, l))
  BY DEF DeleteRows
<1>2. AfterRows(c, l) \in {"node", "nodes", "blobs"}
  BY DEF AfterRows
<1>3. pc' = [pc EXCEPT ![c] = AfterRows(c, l)] /\ pc[c] = "rows"
  BY <1>1 DEF DeleteRows, Goto
<1>4. /\ Rows' = Rows \ l.photos
      /\ \A p \in Rows' : /\ p \in Photo
                          /\ home'[p] = home[p]
                          /\ sha'[p] = sha[p]
                          /\ gone'[p] = gone[p]
  BY <1>1 DEF Rows
<1>5. UNCHANGED <<nodes, nodeGone, origs, file>>
  BY DEF DeleteRows, blobVars
<1>6. Exclusive' /\ OriginalFirst'
  BY <1>2, <1>3, <1>5 DEF TrashInv, TypeOK, ApartInv, Exclusive, OriginalFirst,
     Uploading, Purging
<1>7. RowHasOriginal'
  BY <1>4, <1>5 DEF ApartInv, RowHasOriginal
<1>8. UnlinksUnreferenced'
  BY <1>2, <1>3, <1>4, <1>5 DEF TrashInv, TypeOK, ApartInv,
     UnlinksUnreferenced, Unreferenced, RowsWith
<1>9. PurgesTrash'
  <2>1. \A d \in Request : lists'[d] \subseteq lists[d]
    BY <1>1 DEF TrashInv, TypeOK
  <2>2. \A d \in Request : lists'[d] # {} => Purging(d)'
    BY <1>2, <1>3, <2>1 DEF TrashInv, TypeOK, ApartInv, PurgesTrash, Purging,
       Uploading
  <2>3. \A d \in Request : pc'[d] = "collect" =>
          pc[d] = "collect" /\ node'[d] = node[d]
    BY <1>1, <1>2, <1>3 DEF TrashInv, TypeOK
  <2>4. \A n : RowsOf(n)' \subseteq RowsOf(n)
    BY <1>4 DEF RowsOf
  <2>5. QED
    BY <1>4, <1>5, <2>1, <2>2, <2>3, <2>4 DEF ApartInv, PurgesTrash
<1>10. QED
  BY <1>6, <1>7, <1>8, <1>9 DEF ApartInv

LEMMA DeleteNodeRowApart ==
    ASSUME TrashInv, ApartInv, NEW c \in Request, DeleteNodeRow(c)
    PROVE  ApartInv'
<1>1. UNCHANGED <<row, home, sha, gone, origs>>
  BY DEF DeleteNodeRow, blobVars
<1>2. /\ pc[c] = "node"
      /\ \/ pc' = [pc EXCEPT ![c] = "idle"] /\ lists' = [lists EXCEPT ![c] = {}]
         \/ pc' = [pc EXCEPT ![c] = "blobs"] /\ UNCHANGED lists
         \/ pc' = [pc EXCEPT ![c] = "rows"] /\ UNCHANGED lists
  BY DEF DeleteNodeRow, Goto, Leave, workVars
<1>3. \A d \in Request \ {c} : node'[d] = node[d] /\ file'[d] = file[d]
  BY DEF TrashInv, TypeOK, DeleteNodeRow, Leave
<1>4. \A p \in Rows : nodeGone'[home[p]] = nodeGone[home[p]]
  BY DEF TrashInv, TypeOK, DeleteNodeRow, RowsOf, Rows
<1>5. Exclusive' /\ OriginalFirst'
  BY <1>1, <1>2, <1>3 DEF TrashInv, TypeOK, ApartInv, Exclusive, OriginalFirst,
     Uploading, Purging
<1>6. RowHasOriginal' /\ UnlinksUnreferenced'
  BY <1>1, <1>2, <1>3 DEF TrashInv, TypeOK, ApartInv, RowHasOriginal,
     UnlinksUnreferenced, Unreferenced, RowsWith, Rows
<1>7. PurgesTrash'
  <2>1. Rows' = Rows /\ \A n : RowsOf(n)' = RowsOf(n)
    BY <1>1 DEF Rows, RowsOf
  <2>2. \A d \in Request :
          /\ lists'[d] \subseteq lists[d]
          /\ lists'[d] # {} => Purging(d)'
          /\ pc'[d] = "collect" => pc[d] = "collect" /\ node'[d] = node[d]
    BY <1>2, <1>3 DEF TrashInv, TypeOK, ApartInv, PurgesTrash, Purging,
       Uploading
  <2>3. \A d \in Request : \A p \in RowsOf(node[d]) :
          nodeGone'[node[d]] = nodeGone[node[d]]
    BY <1>4 DEF RowsOf
  <2>4. QED
    BY <1>1, <1>4, <2>1, <2>2, <2>3 DEF ApartInv, PurgesTrash
<1>8. QED
  BY <1>5, <1>6, <1>7 DEF ApartInv

\* Counting references, leaving and going on touch no row and no object.
LEMMA PurgeWalkApart ==
    ASSUME TrashInv, ApartInv, NEW c \in Request,
           CountRefs(c) \/ Done(c) \/ Abort(c)
    PROVE  ApartInv'
<1>1. UNCHANGED <<trashVars, blobVars>>
  BY DEF CountRefs, Done, Abort
<1>2. RowHasOriginal'
  BY <1>1 DEF ApartInv, RowHasOriginal, Rows, trashVars, blobVars
<1>3. Exclusive'
  BY DEF TrashInv, TypeOK, ApartInv, Exclusive, CountRefs, Done, Abort, Goto,
     Leave, Uploading, Purging
<1>4. OriginalFirst'
  BY DEF TrashInv, TypeOK, ApartInv, OriginalFirst, CountRefs, Done, Abort,
     Goto, Leave, blobVars, argVars
<1>5. UnlinksUnreferenced'
  BY DEF TrashInv, TypeOK, ApartInv, UnlinksUnreferenced, Unreferenced,
     RowsWith, Rows, CountRefs, Done, Abort, Goto, Leave, trashVars, argVars
<1>6. PurgesTrash'
  BY <1>1 DEF TrashInv, TypeOK, ApartInv, PurgesTrash, CountRefs, Done, Abort,
     Goto, Leave, Purging, Uploading, RowsOf, Rows, trashVars, argVars
<1>7. QED
  BY <1>2, <1>3, <1>4, <1>5, <1>6 DEF ApartInv

\* No upload is under way, so nobody relies on the object that goes.
LEMMA UnlinkApart ==
    ASSUME TrashInv, ApartInv, NEW c \in Request, Unlink(c)
    PROVE  ApartInv'
<1>1. \A d \in Request : ~Uploading(d)
  BY DEF ApartInv, Exclusive, Unlink, Purging, Uploading
<1>2. /\ pc[c] \in {"unlink", "drop"}
      /\ origs' = origs \ {file[c]}
      /\ pc' = [pc EXCEPT ![c] = "blobs"] \/ pc' = [pc EXCEPT ![c] = "sweep"]
      /\ file' = [file EXCEPT ![c] = None]
      /\ UNCHANGED <<trashVars, node, workVars>>
  BY DEF Unlink, Goto
<1>3. RowHasOriginal'
  BY <1>2 DEF ApartInv, RowHasOriginal, UnlinksUnreferenced, Unreferenced,
     RowsWith, Rows, trashVars
<1>4. Exclusive' /\ OriginalFirst' /\ UnlinksUnreferenced'
  BY <1>1, <1>2 DEF TrashInv, TypeOK, ApartInv, Exclusive, OriginalFirst,
     UnlinksUnreferenced, Unreferenced, RowsWith, Rows, Uploading, trashVars
<1>5. PurgesTrash'
  BY <1>2 DEF TrashInv, TypeOK, ApartInv, PurgesTrash, Purging, Uploading,
     RowsOf, Rows, trashVars, workVars
<1>6. QED
  BY <1>3, <1>4, <1>5 DEF ApartInv

LEMMA TimeApart ==
    ASSUME ApartInv, TimePasses \/ (\E s \in Sha : Age(s)) \/ UNCHANGED vars
    PROVE  ApartInv'
<1>1. UNCHANGED <<trashVars, origs, pc, argVars, workVars>>
  BY DEF TimePasses, Age, vars, blobVars
<1>2. QED
  BY <1>1 DEF ApartInv, Exclusive, RowHasOriginal, OriginalFirst,
     UnlinksUnreferenced, Unreferenced, PurgesTrash, Purging, Uploading,
     RowsWith, RowsOf, Rows, trashVars, argVars, workVars

LEMMA ApartStep ==
    ASSUME ~Overlapping, TrashInv, ApartInv, [Next]_vars
    PROVE  ApartInv'
<1>1. ASSUME NEW p \in Photo,
             \/ DeletePhoto(p)
             \/ RestorePhoto(p)
             \/ \E n \in Node : MovePhoto(p, n)
      PROVE  ApartInv'
  BY <1>1, DeleteApart, EditApart
<1>2. ASSUME NEW n \in Node, DeleteNode(n) \/ RestoreNode(n)
      PROVE  ApartInv'
  BY <1>2, DeleteApart, EditApart
<1>3. ASSUME NEW c \in Request,
             (\E n \in Node, s \in Sha : Upload(c, n, s)) \/ UploadStep(c)
      PROVE  ApartInv'
  BY <1>3, UploadApart
<1>4. ASSUME NEW c \in Request,
             \/ \E p \in Photo : PurgePhoto(c, p)
             \/ \E n \in Node : PurgeNode(c, n)
             \/ PurgeStep(c)
             \/ Abort(c)
      PROVE  ApartInv'
  BY <1>4, DoomStepApart, PurgeNodeApart, DeleteRowsApart, DeleteNodeRowApart,
     PurgeWalkApart, UnlinkApart DEF PurgeStep
<1>5. CASE StartGC
  BY <1>5, DoomStepApart, TrashAssumption
<1>6. CASE TimePasses \/ (\E s \in Sha : Age(s)) \/ UNCHANGED vars
  BY <1>6, TimeApart
<1>7. QED
  BY <1>1, <1>2, <1>3, <1>4, <1>5, <1>6 DEF Next

\* What holds besides when uploads, moves and restores do not overlap a purge.
THEOREM TrashApart ==
    ASSUME ~Overlapping
    PROVE  Spec => []ApartInv
<1>1. TrashInv /\ ApartInv /\ [Next]_vars => ApartInv'
  BY ApartStep
<1>2. QED
  BY <1>1, InitApartInv, TrashInvariant, PTL DEF Spec

\* Every row, in the trash or not, has its original ("as long as any row
\* refers to the sha", store/photos.go:392), purges, GC and sweep included.
THEOREM TrashRowHasOriginal ==
    ASSUME ~Overlapping
    PROVE  Spec => []RowHasOriginal
<1>1. ApartInv => RowHasOriginal
  BY DEF ApartInv
<1>2. QED
  BY <1>1, TrashApart, PTL

\* Only a purge removes rows, and it removes only what is in the trash in that
\* very step, alone or with its node (maintenance.go:137).
LEMMA PurgesOnlyTrashStep ==
    ASSUME TrashInv, ApartInv, [Next]_vars
    PROVE  \A p \in Rows :
             p \notin Rows' => gone[p] # 0 \/ nodeGone[home[p]] # 0
<1>1. ASSUME NEW c \in Request, DeleteRows(c)
      PROVE  \A p \in Rows :
               p \notin Rows' => gone[p] # 0 \/ nodeGone[home[p]] # 0
  BY <1>1 DEF ApartInv, PurgesTrash, DeleteRows, Rows
<1>2. ASSUME NEW c \in Request, CreatePhoto(c)
      PROVE  Rows \subseteq Rows'
  BY <1>2 DEF TrashInv, TypeOK, CreatePhoto, Rows
<1>3. CASE UNCHANGED row
  BY <1>3 DEF Rows
<1>4. \/ UNCHANGED row
      \/ \E c \in Request : DeleteRows(c) \/ CreatePhoto(c)
  BY DEF Next, DeletePhoto, RestorePhoto, MovePhoto, DeleteNode, RestoreNode,
     Upload, UploadStep, FindDuplicate, StatOrig, PutOrig, PurgePhoto,
     PurgeNode, PurgeStep, Collect, ListNodes, DeleteNodeRow, CountRefs, Unlink,
     Done, Abort, StartGC, TimePasses, Age, vars, trashVars
<1>5. QED
  BY <1>1, <1>2, <1>3, <1>4

\* A purge never becomes a way around the trash (maintenance.go:137).
THEOREM TrashPurgesOnlyTrash ==
    ASSUME ~Overlapping
    PROVE  Spec => PurgesOnlyTrash
<1>1. TrashInv /\ ApartInv /\ [Next]_vars =>
        [\A p \in Rows : p \notin Rows' => gone[p] # 0 \/ nodeGone[home[p]] # 0
        ]_vars
  BY PurgesOnlyTrashStep
<1>2. QED
  BY <1>1, TrashInvariant, TrashApart, PTL DEF Spec, PurgesOnlyTrash
===============================================================================
