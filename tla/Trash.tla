-------------------------------- MODULE Trash ---------------------------------
(***************************************************************************)
(* The trash: soft deletion with its cascade, restoring, and the two ways  *)
(* an item is physically removed, PurgeTrashItem and the daily GC, next to *)
(* the local upload that creates rows and originals (service/              *)
(* maintenance.go, service/upload.go, store/nodes.go, store/photos.go).    *)
(*                                                                         *)
(* A statement or transaction of the store is one step, as its writer has  *)
(* one connection; between two of them any other request may run.  An      *)
(* original stands for all objects of its sha, variants included.  A crash *)
(* is an Abort of every request: nothing else is lost with the process.    *)
(***************************************************************************)
EXTENDS Naturals

CONSTANTS
    Photo,          \* photo ids
    Node,           \* nodes; all exist at first
    Sha,            \* contents
    Request,        \* request goroutines, the daily GC among them
    GC,             \* the GC's goroutine
    None,           \* no node, photo or sha
    Overlapping,    \* may uploads, moves and restores overlap a purge?
    MaxStamp,       \* bound: soft deletions
    MaxAborts       \* bound: requests cut short

ASSUME TrashAssumption ==
    /\ GC \in Request
    /\ None \notin Photo \cup Node \cup Sha
    /\ Overlapping \in BOOLEAN
    /\ MaxStamp \in Nat
    /\ MaxAborts \in Nat

VARIABLES
    nodes,      \* node rows
    nodeGone,   \* nodes.deleted_at, 0 for NULL
    row,        \* has a photo a row: "fresh", "there" or "purged"
    home,       \* photos.node_id
    sha,        \* photos.sha256
    gone,       \* photos.deleted_at, 0 for NULL
    alone,      \* photos the owner deleted one by one, and did not restore
    origs,      \* originals
    old,        \* originals written more than 48 hours ago
    stamp,      \* the last deleted_at given out
    cutoff,     \* stamps below it are older than the trash's time to live
    pc,         \* where each request stands
    node,       \* the node it is about
    photo,      \* the photo it is about to create
    file,       \* the sha it is about
    lists,      \* the rows it is going to delete, node by node
    shas,       \* the shas whose objects it is going to look at
    aborts      \* requests cut short so far

trashVars == <<nodes, nodeGone, row, home, sha, gone, alone, stamp>>
blobVars  == <<origs, old>>
argVars   == <<node, photo, file>>
workVars  == <<lists, shas>>

vars == <<trashVars, blobVars, cutoff, pc, argVars, workVars, aborts>>

Rows == {p \in Photo : row[p] = "there"}
RowsOf(n) == {p \in Rows : home[p] = n}
RowsWith(s) == {p \in Rows : sha[p] = s}

\* Live rows of node n with sha s, which the index uq_node_sha keeps to one.
Copies(n, s) == {p \in RowsOf(n) : gone[p] = 0 /\ sha[p] = s}

NodeLive(n) == n \in nodes /\ nodeGone[n] = 0

TypeOK ==
    /\ nodes \subseteq Node
    /\ nodeGone \in [Node -> 0..MaxStamp]
    /\ row \in [Photo -> {"fresh", "there", "purged"}]
    /\ home \in [Photo -> Node \cup {None}]
    /\ sha \in [Photo -> Sha \cup {None}]
    /\ gone \in [Photo -> 0..MaxStamp]
    /\ alone \subseteq Photo
    /\ old \subseteq origs
    /\ origs \subseteq Sha
    /\ stamp \in 0..MaxStamp
    /\ cutoff \in 1..(MaxStamp + 1)
    /\ pc \in [Request -> {"idle", "dup", "stat", "put", "create", "collect",
                           "rows", "node", "nodes", "blobs", "unlink", "sweep",
                           "drop"}]
    /\ node \in [Request -> Node \cup {None}]
    /\ photo \in [Request -> Photo \cup {None}]
    /\ file \in [Request -> Sha \cup {None}]
    /\ lists \in [Request -> SUBSET [node : Node \cup {None},
                                    photos : SUBSET Photo]]
    /\ shas \in [Request -> SUBSET Sha]
    /\ aborts \in 0..MaxAborts
    /\ \A p \in Rows : home[p] \in nodes /\ sha[p] # None
    /\ \A n \in Node, s \in Sha : \A p, q \in Copies(n, s) : p = q

Init ==
    /\ nodes = Node
    /\ nodeGone = [n \in Node |-> 0]
    /\ row = [p \in Photo |-> "fresh"]
    /\ home = [p \in Photo |-> None]
    /\ sha = [p \in Photo |-> None]
    /\ gone = [p \in Photo |-> 0]
    /\ alone = {}
    /\ origs = {}
    /\ old = {}
    /\ stamp = 0
    /\ cutoff = 1
    /\ pc = [c \in Request |-> "idle"]
    /\ node = [c \in Request |-> None]
    /\ photo = [c \in Request |-> None]
    /\ file = [c \in Request |-> None]
    /\ lists = [c \in Request |-> {}]
    /\ shas = [c \in Request |-> {}]
    /\ aborts = 0

-----------------------------------------------------------------------------

Uploading(c) == pc[c] \in {"dup", "stat", "put", "create"}
Purging(c) == pc[c] # "idle" /\ ~Uploading(c)

\* What the environment lets overlap.
MayEdit == Overlapping \/ ~\E c \in Request : Purging(c)
MayPurge == Overlapping \/ ~\E c \in Request : Uploading(c)

Goto(c, s) == pc' = [pc EXCEPT ![c] = s]

\* The request is over; its locals are gone.
Leave(c) ==
    /\ Goto(c, "idle")
    /\ node' = [node EXCEPT ![c] = None]
    /\ photo' = [photo EXCEPT ![c] = None]
    /\ file' = [file EXCEPT ![c] = None]
    /\ lists' = [lists EXCEPT ![c] = {}]
    /\ shas' = [shas EXCEPT ![c] = {}]

-----------------------------------------------------------------------------
(* Deleting, restoring and moving: one transaction each *)

\* Every soft deletion has a stamp of its own, which a clock of milliseconds
\* gives to requests sent one after the other.
NextStamp == stamp < MaxStamp /\ stamp' = stamp + 1

DeletePhoto(p) ==
    /\ p \in Rows
    /\ gone[p] = 0
    /\ NextStamp
    /\ gone' = [gone EXCEPT ![p] = stamp']
    /\ alone' = alone \cup {p}
    /\ UNCHANGED <<nodes, nodeGone, row, home, sha, blobVars, cutoff, pc,
                   argVars, workVars, aborts>>

\* The node must be alive, and uq_node_sha may refuse.
RestorePhoto(p) ==
    /\ MayEdit
    /\ p \in Rows
    /\ gone[p] # 0
    /\ NodeLive(home[p])
    /\ Copies(home[p], sha[p]) = {}
    /\ gone' = [gone EXCEPT ![p] = 0]
    /\ alone' = alone \ {p}
    /\ UNCHANGED <<nodes, nodeGone, row, home, sha, stamp, blobVars, cutoff, pc,
                   argVars, workVars, aborts>>

\* SoftDeleteNode takes the live photos along, under the node's stamp.
DeleteNode(n) ==
    /\ NodeLive(n)
    /\ NextStamp
    /\ nodeGone' = [nodeGone EXCEPT ![n] = stamp']
    /\ gone' = [p \in Photo |-> IF p \in RowsOf(n) /\ gone[p] = 0
                                THEN stamp' ELSE gone[p]]
    /\ UNCHANGED <<nodes, row, home, sha, alone, blobVars, cutoff, pc, argVars,
                   workVars, aborts>>

\* Mutated form of TakenAlong: restoring a node empties the trash into it.
TakenAlongAll(n) == {p \in RowsOf(n) : gone[p] # 0}

\* The photos deleted with the node: they carry its stamp.
TakenAlong(n) == {p \in RowsOf(n) : gone[p] = nodeGone[n]}

\* RestoreNode; a photo uploaded meanwhile makes uq_node_sha refuse it.
RestoreNode(n) ==
    /\ MayEdit
    /\ n \in nodes
    /\ nodeGone[n] # 0
    /\ \A p \in TakenAlong(n) : Copies(n, sha[p]) = {}
    /\ nodeGone' = [nodeGone EXCEPT ![n] = 0]
    /\ gone' = [p \in Photo |-> IF p \in TakenAlong(n) THEN 0 ELSE gone[p]]
    /\ UNCHANGED <<nodes, row, home, sha, alone, stamp, blobVars, cutoff, pc,
                   argVars, workVars, aborts>>

\* Mutated form of HasCopy: a move looks for no duplicate.
HasNoCopyEver(n, s) == FALSE

HasCopy(n, s) == Copies(n, s) # {}

MovePhoto(p, n) ==
    /\ MayEdit
    /\ p \in Rows
    /\ gone[p] = 0
    /\ NodeLive(n)
    /\ home[p] # n
    /\ ~HasCopy(n, sha[p])
    /\ home' = [home EXCEPT ![p] = n]
    /\ UNCHANGED <<nodes, nodeGone, row, sha, gone, alone, stamp, blobVars,
                   cutoff, pc, argVars, workVars, aborts>>

-----------------------------------------------------------------------------
(* UploadLocal *)

\* GetNode; the photo's id is chosen here, which nobody else can see.
Upload(c, n, s) ==
    /\ pc[c] = "idle"
    /\ c # GC
    /\ MayEdit
    /\ NodeLive(n)
    /\ \E p \in Photo : /\ row[p] = "fresh"
                       /\ \A d \in Request : photo[d] # p
                       /\ photo' = [photo EXCEPT ![c] = p]
    /\ Goto(c, "dup")
    /\ node' = [node EXCEPT ![c] = n]
    /\ file' = [file EXCEPT ![c] = s]
    /\ UNCHANGED <<trashVars, blobVars, cutoff, workVars, aborts>>

FindDuplicate(c) ==
    /\ pc[c] = "dup"
    /\ IF Copies(node[c], file[c]) # {}
       THEN Leave(c)
       ELSE Goto(c, "stat") /\ UNCHANGED <<argVars, workVars>>
    /\ UNCHANGED <<trashVars, blobVars, cutoff, aborts>>

StatOrig(c) ==
    /\ pc[c] = "stat"
    /\ Goto(c, IF file[c] \in origs THEN "create" ELSE "put")
    /\ UNCHANGED <<trashVars, blobVars, cutoff, argVars, workVars, aborts>>

PutOrig(c) ==
    /\ pc[c] = "put"
    /\ origs' = origs \cup {file[c]}
    /\ old' = old \ {file[c]}
    /\ Goto(c, "create")
    /\ UNCHANGED <<trashVars, cutoff, argVars, workVars, aborts>>

\* CreatePhoto; the foreign key and uq_node_sha may refuse it.
CreatePhoto(c) ==
    /\ pc[c] = "create"
    /\ IF node[c] \in nodes /\ Copies(node[c], file[c]) = {}
       THEN /\ row' = [row EXCEPT ![photo[c]] = "there"]
            /\ home' = [home EXCEPT ![photo[c]] = node[c]]
            /\ sha' = [sha EXCEPT ![photo[c]] = file[c]]
       ELSE UNCHANGED <<row, home, sha>>
    /\ Leave(c)
    /\ UNCHANGED <<nodes, nodeGone, gone, alone, stamp, blobVars, cutoff,
                   aborts>>

UploadStep(c) ==
    FindDuplicate(c) \/ StatOrig(c) \/ PutOrig(c) \/ CreatePhoto(c)

-----------------------------------------------------------------------------
(* PurgeTrashItem and GC *)

\* Start on these lists of rows, and on the shas they refer to.
Doom(c, ls) ==
    /\ Goto(c, "rows")
    /\ lists' = [lists EXCEPT ![c] = ls]
    /\ shas' = [shas EXCEPT ![c] =
                  @ \cup {sha[p] : p \in UNION {l.photos : l \in ls}}]
    /\ UNCHANGED argVars

\* Mutated form of InTrash: any photo may be purged.
InTrashAny(p) == p \in Rows

InTrash(p) == p \in Rows /\ gone[p] # 0

\* PurgeTrashItem of a photo: GetPhoto finds it deleted.
PurgePhoto(c, p) ==
    /\ pc[c] = "idle"
    /\ c # GC
    /\ MayPurge
    /\ InTrash(p)
    /\ Doom(c, {[node |-> None, photos |-> {p}]})
    /\ UNCHANGED <<trashVars, blobVars, cutoff, aborts>>

\* PurgeTrashItem of a node: GetNode finds it deleted.
PurgeNode(c, n) ==
    /\ pc[c] = "idle"
    /\ c # GC
    /\ MayPurge
    /\ n \in nodes
    /\ nodeGone[n] # 0
    /\ node' = [node EXCEPT ![c] = n]
    /\ Goto(c, "collect")
    /\ UNCHANGED <<trashVars, blobVars, cutoff, photo, file, workVars, aborts>>

\* PhotoRowsOfNode.
Collect(c) ==
    /\ pc[c] = "collect"
    /\ Doom(c, {[node |-> node[c], photos |-> RowsOf(node[c])]})
    /\ UNCHANGED <<trashVars, blobVars, cutoff, aborts>>

\* The GC's tick: ListPurgeablePhotos.
StartGC ==
    /\ pc[GC] = "idle"
    /\ MayPurge
    /\ Doom(GC, {[node |-> None,
                  photos |-> {p \in Rows : /\ gone[p] \in 1..(cutoff - 1)
                                           /\ nodeGone[home[p]] = 0}]})
    /\ UNCHANGED <<trashVars, blobVars, cutoff, aborts>>

\* Mutated form of OverdueNodes: a node is purged only once its photos are.
OverdueNodesEmpty ==
    {n \in nodes : nodeGone[n] \in 1..(cutoff - 1) /\ RowsOf(n) = {}}

OverdueNodes == {n \in nodes : nodeGone[n] \in 1..(cutoff - 1)}

\* ListPurgeableNodes, each with all of its photo rows.
ListNodes ==
    /\ pc[GC] = "nodes"
    /\ IF OverdueNodes = {}
       THEN Goto(GC, "blobs") /\ UNCHANGED <<argVars, workVars>>
       ELSE Doom(GC, {[node |-> n, photos |-> RowsOf(n)] : n \in OverdueNodes})
    /\ UNCHANGED <<trashVars, blobVars, cutoff, aborts>>

\* What comes after the rows of list l: its node, the next list, the GC's
\* second listing (only after the first one), or the objects.
AfterRows(c, l) ==
    CASE l.node # None            -> "node"
      [] l.node = None /\ c = GC  -> "nodes"
      [] OTHER                    -> "blobs"

\* HardDeletePhotos: no condition but the ids.
DeleteRows(c) ==
    /\ pc[c] = "rows"
    /\ \E l \in lists[c] :
         /\ row' = [p \in Photo |-> IF p \in l.photos THEN "purged" ELSE row[p]]
         /\ home' = [p \in Photo |-> IF p \in l.photos THEN None ELSE home[p]]
         /\ sha' = [p \in Photo |-> IF p \in l.photos THEN None ELSE sha[p]]
         /\ gone' = [p \in Photo |-> IF p \in l.photos THEN 0 ELSE gone[p]]
         /\ alone' = alone \ l.photos
         /\ lists' = [lists EXCEPT ![c] = @ \ {l}]
         /\ node' = [node EXCEPT ![c] = l.node]
         /\ Goto(c, AfterRows(c, l))
    /\ UNCHANGED <<nodes, nodeGone, stamp, blobVars, cutoff, photo, file, shas,
                   aborts>>

\* HardDeleteNode: a row that came meanwhile makes the foreign key refuse it,
\* and the purge ends with an error, its objects left to a later GC.
DeleteNodeRow(c) ==
    /\ pc[c] = "node"
    /\ IF RowsOf(node[c]) = {}
       THEN /\ nodes' = nodes \ {node[c]}
            /\ nodeGone' = [nodeGone EXCEPT ![node[c]] = 0]
            /\ node' = [node EXCEPT ![c] = None]
            /\ Goto(c, IF lists[c] = {} THEN "blobs" ELSE "rows")
            /\ UNCHANGED <<photo, file, workVars>>
       ELSE Leave(c) /\ UNCHANGED <<nodes, nodeGone>>
    /\ UNCHANGED <<row, home, sha, gone, alone, stamp, blobVars, cutoff,
                   aborts>>

\* Mutated form of Unreferenced: rows in the trash do not count.
UnreferencedLive(s) == \A p \in RowsWith(s) : gone[p] # 0

\* CountAnySHARefs is zero.
Unreferenced(s) == RowsWith(s) = {}

\* Look at the references of one sha, after the rows are deleted ("blobs") or
\* in reconcileOrphans ("sweep"), which spares the objects younger than 48
\* hours.
CountRefs(c) ==
    /\ pc[c] \in {"blobs", "sweep"}
    /\ \E s \in shas[c] :
         /\ shas' = [shas EXCEPT ![c] = @ \ {s}]
         /\ IF Unreferenced(s) /\ (pc[c] = "sweep" => s \in old)
            THEN /\ file' = [file EXCEPT ![c] = s]
                 /\ Goto(c, IF pc[c] = "blobs" THEN "unlink" ELSE "drop")
            ELSE UNCHANGED <<pc, file>>
    /\ UNCHANGED <<trashVars, blobVars, cutoff, node, photo, lists, aborts>>

\* deleteBlobsForSHA, or the Delete of an orphan.
Unlink(c) ==
    /\ pc[c] \in {"unlink", "drop"}
    /\ origs' = origs \ {file[c]}
    /\ old' = old \ {file[c]}
    /\ file' = [file EXCEPT ![c] = None]
    /\ Goto(c, IF pc[c] = "unlink" THEN "blobs" ELSE "sweep")
    /\ UNCHANGED <<trashVars, cutoff, node, photo, workVars, aborts>>

\* Mutated form of Listed: the sweep lists no originals.
ListedNone == {}

\* List: the shas that have an object.
Listed == origs

\* No sha is left: the GC goes on to list the objects, and any other ends.
Done(c) ==
    /\ pc[c] \in {"blobs", "sweep"}
    /\ shas[c] = {}
    /\ IF c = GC /\ pc[c] = "blobs"
       THEN /\ Goto(c, "sweep")
            /\ shas' = [shas EXCEPT ![c] = Listed]
            /\ UNCHANGED <<argVars, lists>>
       ELSE Leave(c)
    /\ UNCHANGED <<trashVars, blobVars, cutoff, aborts>>

PurgeStep(c) ==
    \/ Collect(c)
    \/ c = GC /\ ListNodes
    \/ DeleteRows(c)
    \/ DeleteNodeRow(c)
    \/ CountRefs(c)
    \/ Unlink(c)
    \/ Done(c)

-----------------------------------------------------------------------------

\* A call fails, the client leaves or the process dies.
Abort(c) ==
    /\ pc[c] # "idle"
    /\ aborts < MaxAborts
    /\ aborts' = aborts + 1
    /\ Leave(c)
    /\ UNCHANGED <<trashVars, blobVars, cutoff>>

\* Days pass: the next stamp is out of time.
TimePasses ==
    /\ cutoff <= stamp
    /\ cutoff' = cutoff + 1
    /\ UNCHANGED <<trashVars, blobVars, pc, argVars, workVars, aborts>>

\* An original turns 48 hours old; no upload of it takes that long.
Age(s) ==
    /\ s \in origs \ old
    /\ \A c \in Request : Uploading(c) => file[c] # s
    /\ old' = old \cup {s}
    /\ UNCHANGED <<trashVars, origs, cutoff, pc, argVars, workVars, aborts>>

Next ==
    \/ \E p \in Photo : \/ DeletePhoto(p)
                        \/ RestorePhoto(p)
                        \/ \E n \in Node : MovePhoto(p, n)
    \/ \E n \in Node : DeleteNode(n) \/ RestoreNode(n)
    \/ \E c \in Request :
         \/ \E n \in Node, s \in Sha : Upload(c, n, s)
         \/ UploadStep(c)
         \/ \E p \in Photo : PurgePhoto(c, p)
         \/ \E n \in Node : PurgeNode(c, n)
         \/ PurgeStep(c)
         \/ Abort(c)
    \/ StartGC
    \/ TimePasses
    \/ \E s \in Sha : Age(s)

\* Handlers run to their end, time passes and the GC runs once a day.  Owners
\* owe nothing.
Fairness ==
    /\ \A c \in Request : WF_vars(UploadStep(c)) /\ WF_vars(PurgeStep(c))
    /\ WF_vars(StartGC)
    /\ WF_vars(TimePasses)
    /\ \A s \in Sha : WF_vars(Age(s))

Spec == Init /\ [][Next]_vars /\ Fairness

-----------------------------------------------------------------------------
(* Properties *)

\* "As long as any row refers to the sha, trash included, the blob must stay,
\* or restoring breaks" (store/photos.go:392): every row, deleted or not, has
\* its original.
RowHasOriginal == \A p \in Rows : sha[p] \in origs

\* README, note 9: restoring a node brings back the photos that were deleted
\* with it, and no others.  In a live node the deleted photos are exactly the
\* ones the owner deleted one by one.
RestoreIsExact ==
    \A p \in Rows : NodeLive(home[p]) => (gone[p] # 0 <=> p \in alone)

\* "Only what is soft-deleted can be purged; this must never become a way
\* around the trash" (maintenance.go:137): a row that is removed was in the
\* trash, or its node was, in that very step.
PurgesOnlyTrash ==
    [][\A p \in Rows : p \notin Rows' => gone[p] # 0 \/ nodeGone[home[p]] # 0
      ]_vars

\* What stays in the trash beyond its time is purged (maintenance.go:66), by
\* whatever requests it is surrounded and though a GC may fail half way.
TrashEmptied ==
    /\ \A p \in Photo :
         (p \in Rows /\ gone[p] \in 1..(cutoff - 1)) ~> gone[p] = 0
    /\ \A n \in Node :
         (n \in nodes /\ nodeGone[n] \in 1..(cutoff - 1)) ~> nodeGone[n] = 0

\* An original nobody refers to goes in the end, or is taken up again by an
\* upload (design document, line 168).
OrphansGo ==
    \A s \in Sha :
        (s \in origs /\ Unreferenced(s)) ~> (s \notin origs \/ ~Unreferenced(s))
=============================================================================
