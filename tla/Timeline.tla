------------------------------ MODULE Timeline ------------------------------
(***************************************************************************)
(* The timeline: nodes under (date, id) in descending order, read page by  *)
(* page with a cursor (service/timeline.go, store/nodes.go).               *)
(*                                                                         *)
(* A reader follows the cursor from the newest node to the oldest while    *)
(* the owner creates, patches, deletes and restores nodes.  The cursor is  *)
(* the (date, id) of the last row shown, not a row number, and the next    *)
(* page is whatever lies strictly below it when it is asked for.           *)
(*                                                                         *)
(* PatchNode is not atomic either: it reads the row, merges the fields the *)
(* request names, and writes ALL fields back in a later statement.  Of the *)
(* fields only the date is kept here: it is the one the order depends on.  *)
(***************************************************************************)
EXTENDS Naturals, FiniteSets, Absent

CONSTANTS
    Node,       \* node ids: ULIDs are compared, so they are numbers here
    Date,       \* dates, numbers for the same reason
    Editor,     \* PATCH requests
    Limit       \* rows on a page (1 to 50 in the code)

\* Where the date a request is about to write comes from: its own body, the
\* row as it still is, or the row as it was before another write of it.
Basis == {"named", "current", "stale"}

ASSUME TimelineAssumption ==
    /\ Node \subseteq Nat
    /\ IsFiniteSet(Node)
    /\ Date \subseteq Nat
    /\ Limit \in Nat \ {0}
    /\ None \notin Date
    /\ None \notin [date : Date, live : BOOLEAN]
    /\ None \notin Date \X Node
    /\ None \notin [node : Node, date : Date, date_is : Basis]

VARIABLES
    node,       \* the table of nodes: a row or None
    patch,      \* what each PATCH request is about to write, or None
    walk,       \* the reader: pages shown, cursor, whether there is more
    steady      \* history: nodes live and undated since the walk began

timelineVars == <<node, patch, walk, steady>>

Key == Date \X Node

\* The order of the timeline: date first, then id.
Above(k, l) == k[1] > l[1] \/ (k[1] = l[1] /\ k[2] > l[2])

TimelineTypeOK ==
    /\ node \in [Node -> [date : Date, live : BOOLEAN] \cup {None}]
    /\ patch \in [Editor -> [node : Node, date : Date, date_is : Basis]
                             \cup {None}]
    /\ walk \in [open : BOOLEAN, cursor : Key \cup {None},
                 page : SUBSET Key, earlier : SUBSET Key]
    /\ steady \subseteq Node

Live == {n \in Node : node[n] # None /\ node[n].live}

KeyOf(n) == <<node[n].date, n>>

TimelineInit ==
    /\ node = [n \in Node |-> None]
    /\ patch = [e \in Editor |-> None]
    /\ walk = [open |-> FALSE, cursor |-> None, page |-> {}, earlier |-> {}]
    /\ steady = {}

-----------------------------------------------------------------------------
(* The owner *)

\* A row is written: the others that have read it hold an old copy.
Outdated(n, except) ==
    patch' = [e \in Editor |->
                 IF e = except THEN None
                 ELSE IF patch[e] # None /\ patch[e].node = n
                           /\ patch[e].date_is = "current"
                      THEN [patch[e] EXCEPT !.date_is = "stale"]
                      ELSE patch[e]]

CreateNode(n, d) ==
    /\ node[n] = None
    /\ node' = [node EXCEPT ![n] = [date |-> d, live |-> TRUE]]
    /\ UNCHANGED <<patch, walk, steady>>

\* Mutated form of Merged: a request that does not name the date resets it,
\* as a handler that fills absent fields with defaults does.
MergedWithDefault(n, d) == IF d = None THEN CHOOSE x \in Date : TRUE ELSE d

\* The date that is written back: the one the request names or the one read.
Merged(n, d) == IF d = None THEN node[n].date ELSE d

\* PatchNode reads the row and merges; d is the new date, None if the request
\* names other fields only.
ReadForPatch(e, n, d) ==
    /\ patch[e] = None
    /\ n \in Live
    /\ patch' = [patch EXCEPT ![e] =
                    [node |-> n, date |-> Merged(n, d),
                     date_is |-> IF d = None THEN "current" ELSE "named"]]
    /\ UNCHANGED <<node, walk, steady>>

\* Mutated form of Patchable: the update forgets "deleted_at IS NULL".
PatchableInTrash(n) == node[n] # None

\* The condition of the UPDATE.
Patchable(n) == n \in Live

\* UpdateNode writes the whole row.
WritePatch(e) ==
    LET n == patch[e].node IN
    /\ patch[e] # None
    /\ Patchable(n)
    /\ node' = [node EXCEPT ![n].date = patch[e].date]
    /\ Outdated(n, e)
    /\ steady' = IF node[n].date = patch[e].date THEN steady
                 ELSE steady \ {n}
    /\ UNCHANGED walk

\* No row matches, or the statement fails: the request is answered with an
\* error and nothing is written.
PatchRefused(e) ==
    /\ patch[e] # None
    /\ patch' = [patch EXCEPT ![e] = None]
    /\ UNCHANGED <<node, walk, steady>>

SoftDeleteNode(n) ==
    /\ n \in Live
    /\ node' = [node EXCEPT ![n].live = FALSE]
    /\ steady' = steady \ {n}
    /\ UNCHANGED <<patch, walk>>

RestoreNode(n) ==
    /\ node[n] # None
    /\ ~node[n].live
    /\ node' = [node EXCEPT ![n].live = TRUE]
    /\ UNCHANGED <<patch, walk, steady>>

-----------------------------------------------------------------------------
(* The reader *)

\* The WHERE of the page query: no cursor, or strictly below it.
After(c, k) == c = None \/ Above(c, k)

\* ORDER BY date DESC, id DESC LIMIT count.
First(keys, count) ==
    {k \in keys : Cardinality({l \in keys : Above(l, k)}) < count}

\* The rows the query returns: one more than a page holds.
Fetched ==
    First({KeyOf(n) : n \in {m \in Live : After(walk.cursor, KeyOf(m))}},
          Limit + 1)

Page == First(Fetched, Limit)

\* Mutated form of CursorRow: the cursor is taken before the extra row is cut
\* off, so that row is never shown.
CursorRowUncut(k) ==
    k \in Fetched /\ \A l \in Fetched : l = k \/ Above(l, k)

\* The last row of the page.
CursorRow(k) ==
    k \in Page /\ \A l \in Page : l = k \/ Above(l, k)

StartWalk ==
    /\ walk' = [open |-> TRUE, cursor |-> None, page |-> {}, earlier |-> {}]
    /\ steady' = Live
    /\ UNCHANGED <<node, patch>>

\* A page with more to come carries a cursor.
ShowPage ==
    /\ walk.open
    /\ Fetched # Page
    /\ \E k \in Key :
         /\ CursorRow(k)
         /\ walk' = [open |-> TRUE, cursor |-> k, page |-> Page,
                     earlier |-> walk.earlier \cup walk.page]
    /\ UNCHANGED <<node, patch, steady>>

ShowLastPage ==
    /\ walk.open
    /\ Fetched = Page
    /\ walk' = [open |-> FALSE, cursor |-> None, page |-> Page,
                earlier |-> walk.earlier \cup walk.page]
    /\ UNCHANGED <<node, patch, steady>>

-----------------------------------------------------------------------------

TimelineNext ==
    \/ \E n \in Node :
         \/ \E d \in Date : CreateNode(n, d)
         \/ SoftDeleteNode(n)
         \/ RestoreNode(n)
    \/ \E e \in Editor :
         \/ \E n \in Node, d \in Date \cup {None} : ReadForPatch(e, n, d)
         \/ WritePatch(e)
         \/ PatchRefused(e)
    \/ StartWalk
    \/ ShowPage
    \/ ShowLastPage

TimelineSpec == TimelineInit /\ [][TimelineNext]_timelineVars

-----------------------------------------------------------------------------
(* What the timeline promises *)

Shown == walk.earlier \cup walk.page

\* A reader scrolls strictly downwards: whatever is edited between two
\* pages, no row of a page is level with or above a row of an earlier one,
\* so no row is repeated unless its date moved (store/nodes.go:142).
PagesDescend ==
    \A k \in walk.earlier, l \in walk.page : Above(k, l)

\* A node that was live when the walk began and was neither deleted nor
\* redated since is shown by the time the walk ends, under its one date, and
\* until then lies below the cursor (timeline.go:81-84).  The importer relies
\* on it when it lists the nodes it may reuse (importer/client.go ListNodes).
SteadyShownOnce ==
    \A n \in steady :
        /\ n \in Live
        /\ \A k \in Shown : k[2] = n => k = KeyOf(n)
        /\ \/ KeyOf(n) \in Shown
           \/ walk.open /\ After(walk.cursor, KeyOf(n))

\* A node moves on the timeline only by a request that names a date, or by a
\* stale one: a request that read the row before another write of it
\* committed puts the old date back (timeline.go:334-357).  A node in the
\* trash does not move at all, so a restore brings back what was deleted.
MovedOnlyByName ==
    [][\A n \in Node :
         (node[n] # None /\ node'[n] # None /\ node'[n].date # node[n].date)
           => /\ node[n].live
              /\ \E e \in Editor :
                   /\ patch[e] # None
                   /\ patch[e].node = n
                   /\ patch[e].date_is \in {"named", "stale"}]_timelineVars
=============================================================================
