-------------------------- MODULE Timeline_proofs --------------------------
(***************************************************************************)
(* Proofs about the timeline, for any nodes, dates, edits and page size,   *)
(* and about the photos of its nodes, for any requests.                    *)
(*                                                                         *)
(* Two facts about a page carry the argument.  A page is closed upwards:   *)
(* a row that lies above a row of the page and matches the query is on the *)
(* page too, so whatever is missing lies below its last row.  And a query  *)
(* that fetches no more than a page has fetched everything.  Both come     *)
(* from counting the rows above a row, over a finite table.                *)
(*                                                                         *)
(* Of the photos: who writes a row disturbs the other requests only by the *)
(* photos it names, and what an upload is to insert no one else has.  A    *)
(* finite set has one enumeration in an order, which is what a node shows. *)
(***************************************************************************)
EXTENDS Timeline, Album, FiniteSetTheorems, TLAPS

-----------------------------------------------------------------------------
(* The order and the pages *)

Ups(keys, k) == {l \in keys : Above(l, k)}

Downs(keys, k) == {l \in keys : Above(k, l)}

\* The order is total and strict on keys.
LEMMA AboveOrder ==
    /\ \A k \in Key : ~Above(k, k)
    /\ \A k, l \in Key : k # l => Above(k, l) \/ Above(l, k)
    /\ \A k, l \in Key : Above(k, l) => ~Above(l, k)
    /\ \A k, l, m \in Key : Above(k, l) /\ Above(l, m) => Above(k, m)
<1>1. \A k \in Key : k[1] \in Nat /\ k[2] \in Nat
  <2> SUFFICES ASSUME NEW k \in Key
               PROVE  k[1] \in Nat /\ k[2] \in Nat
    OBVIOUS
  <2>1. k[1] \in Date /\ k[2] \in Node
    BY DEF Key
  <2> QED
    BY <2>1, TimelineAssumption DEF TimelineAssumption
<1>2. \A k, l \in Key : k[1] = l[1] /\ k[2] = l[2] => k = l
  BY DEF Key
<1> USE DEF Above
<1>3. \A k \in Key : ~Above(k, k)
  BY <1>1
<1>4. \A k, l \in Key : k # l => Above(k, l) \/ Above(l, k)
  BY <1>2, <1>1
<1>5. \A k, l \in Key : Above(k, l) => ~Above(l, k)
  BY <1>1
<1>6. \A k, l, m \in Key : Above(k, l) /\ Above(l, m) => Above(k, m)
  BY <1>1
<1> QED
  BY <1>3, <1>4, <1>5, <1>6

\* A finite set of keys has a highest one.
LEMMA Highest ==
    ASSUME NEW keys, keys \subseteq Key, IsFiniteSet(keys), keys # {}
    PROVE  \E k \in keys : \A l \in keys : ~Above(l, k)
<1> DEFINE T == {Ups(keys, k) : k \in keys}
<1>1. T \subseteq FiniteSubsetsOf(keys)
  <2> SUFFICES ASSUME NEW k \in keys
               PROVE  Ups(keys, k) \in FiniteSubsetsOf(keys)
    OBVIOUS
  <2>1. Ups(keys, k) \in SUBSET keys
    BY DEF Ups
  <2> QED
    BY <2>1, FS_Subset DEF FiniteSubsetsOf
<1>2. T # {}
  OBVIOUS
<1>3. PICK u \in T : \A v \in T : <<v, u>> \notin StrictSubsetOrdering(keys)
  <2> HIDE DEF T
  <2> QED
    BY <1>1, <1>2, FS_StrictSubsetOrderingWellFounded, WFMin
<1>4. PICK k \in keys : u = Ups(keys, k)
  BY <1>3
<1>5. ASSUME NEW l \in keys, Above(l, k)
      PROVE  FALSE
  <2>1. Ups(keys, l) \subseteq Ups(keys, k)
    BY <1>5, AboveOrder DEF Ups
  <2>2. l \in Ups(keys, k) /\ l \notin Ups(keys, l)
    BY <1>5, AboveOrder DEF Ups
  <2>3. Ups(keys, l) \in SUBSET keys /\ Ups(keys, k) \in SUBSET keys
    BY DEF Ups
  <2>4. <<Ups(keys, l), Ups(keys, k)>> \in StrictSubsetOrdering(keys)
    BY <2>1, <2>2, <2>3 DEF StrictSubsetOrdering
  <2> QED
    BY <2>4, <1>3, <1>4
<1> QED
  BY <1>5

\* ... and a lowest one.
LEMMA Lowest ==
    ASSUME NEW keys, keys \subseteq Key, IsFiniteSet(keys), keys # {}
    PROVE  \E k \in keys : \A l \in keys : l = k \/ Above(l, k)
<1> DEFINE T == {Downs(keys, k) : k \in keys}
<1>1. T \subseteq FiniteSubsetsOf(keys)
  <2> SUFFICES ASSUME NEW k \in keys
               PROVE  Downs(keys, k) \in FiniteSubsetsOf(keys)
    OBVIOUS
  <2>1. Downs(keys, k) \in SUBSET keys
    BY DEF Downs
  <2> QED
    BY <2>1, FS_Subset DEF FiniteSubsetsOf
<1>2. T # {}
  OBVIOUS
<1>3. PICK u \in T : \A v \in T : <<v, u>> \notin StrictSubsetOrdering(keys)
  <2> HIDE DEF T
  <2> QED
    BY <1>1, <1>2, FS_StrictSubsetOrderingWellFounded, WFMin
<1>4. PICK k \in keys : u = Downs(keys, k)
  BY <1>3
<1>5. ASSUME NEW l \in keys, Above(k, l)
      PROVE  FALSE
  <2>1. Downs(keys, l) \subseteq Downs(keys, k)
    BY <1>5, AboveOrder DEF Downs
  <2>2. l \in Downs(keys, k) /\ l \notin Downs(keys, l)
    BY <1>5, AboveOrder DEF Downs
  <2>3. Downs(keys, l) \in SUBSET keys /\ Downs(keys, k) \in SUBSET keys
    BY DEF Downs
  <2>4. <<Downs(keys, l), Downs(keys, k)>> \in StrictSubsetOrdering(keys)
    BY <2>1, <2>2, <2>3 DEF StrictSubsetOrdering
  <2> QED
    BY <2>4, <1>3, <1>4
<1> QED
  BY <1>5, AboveOrder

\* A page is closed upwards.
LEMMA FirstClosed ==
    ASSUME NEW keys, keys \subseteq Key, IsFiniteSet(keys),
           NEW count \in Nat, NEW l \in First(keys, count),
           NEW k \in keys, Above(k, l)
    PROVE  k \in First(keys, count)
<1>1. Ups(keys, k) \in SUBSET Ups(keys, l)
  BY AboveOrder DEF Ups, First
<1>2. Ups(keys, l) \in SUBSET keys
  BY DEF Ups
<1>3. IsFiniteSet(Ups(keys, l))
  BY <1>2, FS_Subset
<1>4. Cardinality(Ups(keys, k)) <= Cardinality(Ups(keys, l))
  BY <1>1, <1>3, FS_Subset
<1>5. IsFiniteSet(Ups(keys, k))
  BY <1>1, <1>3, FS_Subset
<1>6. /\ Cardinality(Ups(keys, k)) \in Nat
      /\ Cardinality(Ups(keys, l)) \in Nat
  BY <1>3, <1>5, FS_CardinalityType
<1>7. Cardinality(Ups(keys, l)) < count
  BY DEF First, Ups
<1>8. Cardinality(Ups(keys, k)) < count
  BY <1>4, <1>6, <1>7
<1> QED
  BY <1>8 DEF First, Ups

\* A query that fetches one row more than a page holds, and gets no more than
\* a page, has fetched everything.
LEMMA FirstAll ==
    ASSUME NEW keys, keys \subseteq Key, IsFiniteSet(keys),
           NEW count \in Nat,
           First(First(keys, count + 1), count) = First(keys, count + 1)
    PROVE  First(keys, count + 1) = keys
<1> DEFINE some == First(keys, count + 1)
<1> DEFINE rest == keys \ some
<1>1. some \subseteq keys /\ rest \subseteq keys
  BY DEF First
<1> SUFFICES ASSUME rest # {}
             PROVE  FALSE
  BY <1>1
<1>2. IsFiniteSet(some) /\ IsFiniteSet(rest)
  BY <1>1, FS_Subset
<1>3. PICK x \in rest : \A y \in rest : ~Above(y, x)
  <2> HIDE DEF rest
  <2> QED
    BY <1>1, <1>2, Highest
<1> DEFINE above == Ups(keys, x)
<1>4. above \subseteq some
  BY <1>3 DEF Ups
<1>5. above \in SUBSET keys /\ above \in SUBSET Key
  BY DEF Ups
<1>6. IsFiniteSet(above) /\ Cardinality(above) \in Nat
  BY <1>5, FS_Subset, FS_CardinalityType
<1>7. ~(Cardinality(above) < count + 1)
  BY <1>3 DEF First, Ups
<1>8. above # {}
  <2> SUFFICES ASSUME above = {}
               PROVE  FALSE
    OBVIOUS
  <2>1. Cardinality(above) = 0
    BY FS_EmptySet
  <2> QED
    BY <2>1, <1>7
<1>9. PICK m \in above : \A l \in above : l = m \/ Above(l, m)
  <2> HIDE DEF above
  <2> QED
    BY <1>5, <1>6, <1>8, Lowest
<1> DEFINE higher == Ups(some, m)
<1>10. above \ {m} \in SUBSET higher
  BY <1>4, <1>9 DEF Ups
<1>11. higher \in SUBSET some
  BY DEF Ups
<1>12. IsFiniteSet(higher) /\ Cardinality(higher) \in Nat
  BY <1>2, <1>11, FS_Subset, FS_CardinalityType
<1>13. Cardinality(above \ {m}) <= Cardinality(higher)
  BY <1>10, <1>12, FS_Subset
<1>14. Cardinality(above \ {m}) = Cardinality(above) - 1
  BY <1>6, <1>9, FS_RemoveElement
<1>15. Cardinality(higher) < count
  <2>1. m \in First(some, count)
    BY <1>4, <1>9
  <2> QED
    BY <2>1 DEF First, Ups
<1> QED
  BY <1>6, <1>7, <1>12, <1>13, <1>14, <1>15

-----------------------------------------------------------------------------
(* Types *)

\* Type correctness of the timeline.
THEOREM TimelineTypeCorrect == TimelineSpec => []TimelineTypeOK
<1>1. TimelineInit => TimelineTypeOK
  BY DEF TimelineInit, TimelineTypeOK
<1>2. TimelineTypeOK /\ [TimelineNext]_timelineVars => TimelineTypeOK'
  <2> SUFFICES ASSUME TimelineTypeOK, [TimelineNext]_timelineVars
               PROVE  TimelineTypeOK'
    OBVIOUS
  <2> USE TimelineAssumption DEF TimelineTypeOK
  <2>1. ASSUME NEW n \in Node, NEW d \in Date, CreateNode(n, d)
        PROVE  TimelineTypeOK'
    BY <2>1 DEF CreateNode
  <2>2. ASSUME NEW n \in Node, SoftDeleteNode(n)
        PROVE  TimelineTypeOK'
    <3>1. node[n] \in [date : Date, live : BOOLEAN]
      BY <2>2 DEF SoftDeleteNode, Live
    <3> QED
      BY <2>2, <3>1 DEF SoftDeleteNode, Live
  <2>3. ASSUME NEW n \in Node, RestoreNode(n)
        PROVE  TimelineTypeOK'
    BY <2>3 DEF RestoreNode
  <2>4. ASSUME NEW e \in Editor, NEW n \in Node,
               NEW d \in Date \cup {None}, ReadForPatch(e, n, d)
        PROVE  TimelineTypeOK'
    <3>1. node[n] \in [date : Date, live : BOOLEAN]
      BY <2>4 DEF ReadForPatch, Live
    <3>2. Merged(n, d) \in Date
      BY <3>1 DEF Merged
    <3> DEFINE new == [node |-> n, date |-> Merged(n, d),
                       date_is |-> IF d = None THEN "current" ELSE "named"]
    <3>3. new \in [node : Node, date : Date, date_is : Basis]
      BY <3>2 DEF Basis
    <3>4. patch' = [patch EXCEPT ![e] = new]
          /\ UNCHANGED <<node, walk, steady>>
      BY <2>4 DEF ReadForPatch
    <3> QED
      BY <3>3, <3>4
  <2>5. ASSUME NEW e \in Editor, WritePatch(e)
        PROVE  TimelineTypeOK'
    <3> DEFINE n == patch[e].node
    <3>1. patch[e] \in [node : Node, date : Date, date_is : Basis]
      BY <2>5 DEF WritePatch
    <3>2. node[n] \in [date : Date, live : BOOLEAN]
      BY <2>5, <3>1 DEF WritePatch, Patchable, Live
    <3>3. node' \in [Node -> [date : Date, live : BOOLEAN] \cup {None}]
      BY <2>5, <3>1, <3>2 DEF WritePatch
    <3>4. patch' \in [Editor -> [node : Node, date : Date, date_is : Basis]
                                \cup {None}]
      BY <2>5 DEF WritePatch, Outdated, Basis
    <3>5. steady' \subseteq Node /\ UNCHANGED walk
      BY <2>5 DEF WritePatch
    <3> QED
      BY <3>3, <3>4, <3>5
  <2>6. ASSUME NEW e \in Editor, PatchRefused(e)
        PROVE  TimelineTypeOK'
    BY <2>6 DEF PatchRefused
  <2>7. CASE StartWalk
    BY <2>7 DEF StartWalk, Live
  <2>8. Page \subseteq Key
    <3>1. \A n \in Live : KeyOf(n) \in Key
      BY DEF Live, KeyOf, Key
    <3> QED
      BY <3>1 DEF Page, Fetched, First
  <2>9. CASE ShowPage
    BY <2>8, <2>9 DEF ShowPage
  <2>10. CASE ShowLastPage
    BY <2>8, <2>10 DEF ShowLastPage
  <2>11. CASE UNCHANGED timelineVars
    BY <2>11 DEF timelineVars
  <2> QED
    BY <2>1, <2>2, <2>3, <2>4, <2>5, <2>6, <2>7, <2>9, <2>10, <2>11
       DEF TimelineNext
<1> QED
  BY <1>1, <1>2, PTL DEF TimelineSpec

-----------------------------------------------------------------------------
(* The walk *)

\* What was shown is not below the cursor.
CursorBelow ==
    walk.cursor # None =>
        \A k \in Shown : k = walk.cursor \/ Above(k, walk.cursor)

\* A walk without a cursor has shown nothing yet.
NothingYet == walk.open /\ walk.cursor = None => Shown = {}

\* A request that holds the row as it still is holds its date.
CurrentIsRead ==
    \A e \in Editor :
        patch[e] # None /\ patch[e].date_is = "current" =>
            /\ node[patch[e].node] # None
            /\ node[patch[e].node].date = patch[e].date

WalkInv == PagesDescend /\ SteadyShownOnce /\ CursorBelow /\ NothingYet

\* The rows the page query matches.
Matching == {KeyOf(n) : n \in {m \in Live : After(walk.cursor, KeyOf(m))}}

\* They are keys, and finitely many.
LEMMA MatchingFinite ==
    ASSUME TimelineTypeOK
    PROVE  Matching \subseteq Key /\ IsFiniteSet(Matching)
<1> DEFINE rows == {m \in Live : After(walk.cursor, KeyOf(m))}
<1> DEFINE f == [n \in rows |-> KeyOf(n)]
<1>1. Matching \subseteq Key
  <2>1. \A n \in Live : KeyOf(n) \in Key
    BY DEF Live, KeyOf, Key, TimelineTypeOK
  <2> QED
    BY <2>1 DEF Matching
<1>2. rows \in SUBSET Node
  BY DEF Live
<1>3. IsFiniteSet(rows)
  BY <1>2, TimelineAssumption, FS_Subset DEF TimelineAssumption
<1>4. f \in Surjection(rows, Matching)
  <2>1. f \in [rows -> Matching]
    BY DEF Matching
  <2>2. \A k \in Matching : \E n \in rows : f[n] = k
    BY DEF Matching
  <2> HIDE DEF f, rows
  <2> QED
    BY <2>1, <2>2 DEF Surjection
<1>5. IsFiniteSet(Matching)
  <2> HIDE DEF f, rows
  <2> QED
    BY <1>3, <1>4, FS_Surjection
<1> QED
  BY <1>1, <1>5

\* The walk is undisturbed by a step that moves no row of a steady node.
LEMMA WalkUndisturbed ==
    ASSUME WalkInv, walk' = walk, steady' \subseteq steady,
           \A n \in steady' : /\ n \in Live'
                              /\ node'[n].date = node[n].date
    PROVE  WalkInv'
<1>1. Shown' = Shown
  BY DEF Shown
<1>2. PagesDescend'
  BY DEF WalkInv, PagesDescend
<1>3. CursorBelow' /\ NothingYet'
  BY <1>1 DEF WalkInv, CursorBelow, NothingYet
<1>4. SteadyShownOnce'
  <2> SUFFICES ASSUME NEW n \in steady'
               PROVE  /\ n \in Live'
                      /\ \A k \in Shown' : k[2] = n => k = KeyOf(n)'
                      /\ \/ KeyOf(n)' \in Shown'
                         \/ (walk.open /\ After(walk.cursor, KeyOf(n)))'
    BY DEF SteadyShownOnce
  <2>1. n \in steady /\ n \in Live' /\ KeyOf(n)' = KeyOf(n)
    BY DEF KeyOf
  <2>2. /\ \A k \in Shown : k[2] = n => k = KeyOf(n)
        /\ \/ KeyOf(n) \in Shown
           \/ walk.open /\ After(walk.cursor, KeyOf(n))
    BY <2>1 DEF WalkInv, SteadyShownOnce
  <2>3. (walk.open /\ After(walk.cursor, KeyOf(n)))'
           <=> walk.open /\ After(walk.cursor, KeyOf(n))
    BY <2>1 DEF After
  <2> QED
    BY <1>1, <2>1, <2>2, <2>3
<1> QED
  BY <1>2, <1>3, <1>4 DEF WalkInv

\* A page, the last or another, keeps the walk in order.
LEMMA PageKeepsWalk ==
    ASSUME TimelineTypeOK, WalkInv, walk.open,
           UNCHANGED <<node, patch, steady>>,
           walk'.page = Page, walk'.earlier = walk.earlier \cup walk.page
    PROVE  /\ PagesDescend'
           /\ Shown' = Shown \cup Page
           /\ \A n \in steady :
                /\ n \in Live' /\ KeyOf(n)' = KeyOf(n)
                /\ \A k \in Shown' : k[2] = n => k = KeyOf(n)
<1>1. Page \subseteq Matching /\ Matching \subseteq Key
  BY MatchingFinite DEF Page, Fetched, First, Matching
<1>2. \A k \in Matching : After(walk.cursor, k)
  BY DEF Matching
<1>3. Shown' = Shown \cup Page
  BY DEF Shown
<1>4. Shown \subseteq Key
  BY DEF Shown, TimelineTypeOK
<1>5. PagesDescend'
  <2> SUFFICES ASSUME NEW k \in Shown, NEW l \in Page
               PROVE  Above(k, l)
    BY DEF PagesDescend, Shown
  <2>1. walk.cursor # None
    BY DEF WalkInv, NothingYet
  <2>2. Above(walk.cursor, l)
    BY <1>1, <1>2, <2>1, TimelineAssumption DEF After
  <2>3. k = walk.cursor \/ Above(k, walk.cursor)
    BY <2>1 DEF WalkInv, CursorBelow
  <2>4. walk.cursor \in Key /\ k \in Key /\ l \in Key
    BY <1>1, <1>4, <2>1 DEF TimelineTypeOK
  <2> QED
    BY <2>2, <2>3, <2>4, AboveOrder
<1>6. ASSUME NEW n \in steady
      PROVE  /\ n \in Live' /\ KeyOf(n)' = KeyOf(n)
             /\ \A k \in Shown' : k[2] = n => k = KeyOf(n)
  <2>1. n \in Live /\ \A k \in Shown : k[2] = n => k = KeyOf(n)
    BY DEF WalkInv, SteadyShownOnce
  <2>2. n \in Live' /\ KeyOf(n)' = KeyOf(n)
    BY <2>1 DEF Live, KeyOf
  <2>3. \A k \in Matching : k = KeyOf(k[2])
    <3> SUFFICES ASSUME NEW k \in Matching
                 PROVE  k = KeyOf(k[2])
      OBVIOUS
    <3>1. PICK m \in Live : k = KeyOf(m)
      BY DEF Matching
    <3> QED
      BY <3>1 DEF KeyOf
  <2> QED
    BY <1>1, <1>3, <2>1, <2>2, <2>3
<1> QED
  BY <1>3, <1>5, <1>6

\* A page with more to come: what it does not show lies below its last row.
LEMMA ShowPageKeepsWalk ==
    ASSUME TimelineTypeOK, WalkInv, ShowPage
    PROVE  WalkInv'
<1>1. PICK c \in Key :
         /\ CursorRow(c)
         /\ walk' = [open |-> TRUE, cursor |-> c, page |-> Page,
                     earlier |-> walk.earlier \cup walk.page]
  BY DEF ShowPage
<1>2. walk.open /\ UNCHANGED <<node, patch, steady>>
  BY DEF ShowPage
<1>3. /\ PagesDescend'
      /\ Shown' = Shown \cup Page
      /\ \A n \in steady :
           /\ n \in Live' /\ KeyOf(n)' = KeyOf(n)
           /\ \A k \in Shown' : k[2] = n => k = KeyOf(n)
  BY <1>1, <1>2, PageKeepsWalk
<1>4. walk'.cursor = c /\ c # None /\ walk'.open
  BY <1>1, TimelineAssumption DEF TimelineAssumption, Key
<1>5. c \in Page /\ \A l \in Page : l = c \/ Above(l, c)
  BY <1>1 DEF CursorRow
<1>6. /\ walk'.page = Page
      /\ walk'.earlier = Shown
  BY <1>1 DEF Shown
<1>7. CursorBelow'
  BY <1>3, <1>4, <1>5, <1>6 DEF CursorBelow, PagesDescend
<1>8. NothingYet'
  BY <1>4 DEF NothingYet
<1>9. SteadyShownOnce'
  <2> SUFFICES ASSUME NEW n \in steady
               PROVE  KeyOf(n) \in Shown' \/ Above(c, KeyOf(n))
    BY <1>2, <1>3, <1>4 DEF SteadyShownOnce, After
  <2> SUFFICES ASSUME KeyOf(n) \notin Shown, KeyOf(n) \notin Page
               PROVE  Above(c, KeyOf(n))
    BY <1>3
  <2>1. KeyOf(n) \in Matching
    BY DEF WalkInv, SteadyShownOnce, Matching
  <2>2. /\ Matching \subseteq Key /\ IsFiniteSet(Matching)
        /\ Fetched \subseteq Matching /\ Fetched = First(Matching, Limit + 1)
    BY MatchingFinite DEF Fetched, First, Matching
  <2>3. IsFiniteSet(Fetched)
    BY <2>2, FS_Subset
  <2>4. c \in First(Fetched, Limit) /\ c \in Fetched
    BY <1>5 DEF Page, First
  <2>5. Limit \in Nat /\ Limit + 1 \in Nat
    BY TimelineAssumption DEF TimelineAssumption
  <2>6. ASSUME Above(KeyOf(n), c)
        PROVE  FALSE
    <3>1. KeyOf(n) \in Fetched
      BY <2>1, <2>2, <2>4, <2>5, <2>6, FirstClosed
    <3>2. KeyOf(n) \in First(Fetched, Limit)
      BY <2>2, <2>3, <2>4, <2>5, <2>6, <3>1, FirstClosed
    <3> QED
      BY <3>2 DEF Page
  <2>7. KeyOf(n) # c
    BY <1>5
  <2> QED
    BY <2>1, <2>2, <2>6, <2>7, AboveOrder
<1> QED
  BY <1>3, <1>7, <1>8, <1>9 DEF WalkInv

\* The last page: it shows everything that was left.
LEMMA ShowLastPageKeepsWalk ==
    ASSUME TimelineTypeOK, WalkInv, ShowLastPage
    PROVE  WalkInv'
<1>1. /\ walk' = [open |-> FALSE, cursor |-> None, page |-> Page,
                  earlier |-> walk.earlier \cup walk.page]
      /\ walk.open /\ UNCHANGED <<node, patch, steady>>
      /\ Fetched = Page
  BY DEF ShowLastPage
<1>2. /\ PagesDescend'
      /\ Shown' = Shown \cup Page
      /\ \A n \in steady :
           /\ n \in Live' /\ KeyOf(n)' = KeyOf(n)
           /\ \A k \in Shown' : k[2] = n => k = KeyOf(n)
  BY <1>1, PageKeepsWalk
<1>3. CursorBelow' /\ NothingYet'
  BY <1>1 DEF CursorBelow, NothingYet
<1>4. Page = Matching
  <2>1. Matching \subseteq Key /\ IsFiniteSet(Matching)
    BY MatchingFinite
  <2>2. Fetched = First(Matching, Limit + 1)
    BY DEF Fetched, Matching
  <2>3. First(First(Matching, Limit + 1), Limit)
           = First(Matching, Limit + 1)
    BY <1>1, <2>2 DEF Page
  <2>4. Limit \in Nat
    BY TimelineAssumption DEF TimelineAssumption
  <2> QED
    BY <1>1, <2>1, <2>2, <2>3, <2>4, FirstAll
<1>5. SteadyShownOnce'
  <2> SUFFICES ASSUME NEW n \in steady
               PROVE  KeyOf(n) \in Shown'
    BY <1>1, <1>2 DEF SteadyShownOnce
  <2>1. KeyOf(n) \in Shown \/ KeyOf(n) \in Matching
    BY DEF WalkInv, SteadyShownOnce, Matching
  <2> QED
    BY <1>2, <1>4, <2>1
<1> QED
  BY <1>2, <1>3, <1>5 DEF WalkInv

\* The inductive invariant: what has been shown lies at or above the cursor,
\* what is steady and not shown lies below it, and a request that holds the
\* row as it still is holds its date.
TimelineInv == TimelineTypeOK /\ WalkInv /\ CurrentIsRead

THEOREM TimelineInvariant == TimelineSpec => []TimelineInv
<1>1. TimelineInit => WalkInv /\ CurrentIsRead
  BY DEF TimelineInit, WalkInv, PagesDescend, SteadyShownOnce, CursorBelow,
         NothingYet, CurrentIsRead
<1>2. TimelineTypeOK /\ WalkInv /\ CurrentIsRead /\ [TimelineNext]_timelineVars
        => WalkInv' /\ CurrentIsRead'
  <2> SUFFICES ASSUME TimelineTypeOK, WalkInv, CurrentIsRead,
                      [TimelineNext]_timelineVars
               PROVE  WalkInv' /\ CurrentIsRead'
    OBVIOUS
  <2>0. \A n \in steady : n \in Live
    BY DEF WalkInv, SteadyShownOnce
  <2>1. ASSUME NEW n \in Node, NEW d \in Date, CreateNode(n, d)
        PROVE  WalkInv' /\ CurrentIsRead'
    <3>1. \A m \in Live : m \in Live' /\ node'[m] = node[m]
      BY <2>1 DEF CreateNode, Live, TimelineTypeOK
    <3>2. WalkInv'
      BY <2>0, <2>1, <3>1, WalkUndisturbed DEF CreateNode
    <3>3. \A m \in Node : node[m] # None => node'[m] = node[m]
      BY <2>1 DEF CreateNode, TimelineTypeOK
    <3>4. CurrentIsRead'
      BY <2>1, <3>3 DEF CreateNode, CurrentIsRead, TimelineTypeOK
    <3> QED
      BY <3>2, <3>4
  <2>2. ASSUME NEW n \in Node, SoftDeleteNode(n)
        PROVE  WalkInv' /\ CurrentIsRead'
    <3>1. \A m \in Live \ {n} : m \in Live' /\ node'[m] = node[m]
      BY <2>2 DEF SoftDeleteNode, Live, TimelineTypeOK
    <3>2. WalkInv'
      BY <2>0, <2>2, <3>1, WalkUndisturbed DEF SoftDeleteNode
    <3>3. \A m \in Node : node[m] # None =>
                            node'[m] # None /\ node'[m].date = node[m].date
      BY <2>2, TimelineAssumption
         DEF SoftDeleteNode, Live, TimelineTypeOK, TimelineAssumption
    <3>4. CurrentIsRead'
      BY <2>2, <3>3 DEF SoftDeleteNode, CurrentIsRead, TimelineTypeOK
    <3> QED
      BY <3>2, <3>4
  <2>3. ASSUME NEW n \in Node, RestoreNode(n)
        PROVE  WalkInv' /\ CurrentIsRead'
    <3>1. \A m \in Live : m \in Live' /\ node'[m] = node[m]
      BY <2>3 DEF RestoreNode, Live, TimelineTypeOK
    <3>2. WalkInv'
      BY <2>0, <2>3, <3>1, WalkUndisturbed DEF RestoreNode
    <3>3. \A m \in Node : node[m] # None =>
                            node'[m] # None /\ node'[m].date = node[m].date
      BY <2>3, TimelineAssumption
         DEF RestoreNode, Live, TimelineTypeOK, TimelineAssumption
    <3>4. CurrentIsRead'
      BY <2>3, <3>3 DEF RestoreNode, CurrentIsRead, TimelineTypeOK
    <3> QED
      BY <3>2, <3>4
  <2>4. ASSUME NEW e \in Editor, NEW n \in Node,
               NEW d \in Date \cup {None}, ReadForPatch(e, n, d)
        PROVE  WalkInv' /\ CurrentIsRead'
    <3>1. UNCHANGED <<node, walk, steady>> /\ n \in Live
      BY <2>4 DEF ReadForPatch
    <3>2. WalkInv'
      BY <2>0, <3>1, WalkUndisturbed DEF Live
    <3>3. patch' = [patch EXCEPT ![e] =
             [node |-> n, date |-> Merged(n, d),
              date_is |-> IF d = None THEN "current" ELSE "named"]]
      BY <2>4 DEF ReadForPatch
    <3>4. CurrentIsRead'
      BY <3>1, <3>3 DEF CurrentIsRead, Merged, Live, TimelineTypeOK
    <3> QED
      BY <3>2, <3>4
  <2>5. ASSUME NEW e \in Editor, WritePatch(e)
        PROVE  WalkInv' /\ CurrentIsRead'
    <3> DEFINE n == patch[e].node
    <3>1. n \in Live /\ n \in Node
      BY <2>5 DEF WritePatch, Patchable, Live
    <3>2. node' = [node EXCEPT ![n].date = patch[e].date]
      BY <2>5 DEF WritePatch
    <3>3. /\ \A m \in Live : m \in Live'
          /\ \A m \in Node \ {n} : node'[m] = node[m]
          /\ node'[n].date = patch[e].date
      <4>1. node[n] \in [date : Date, live : BOOLEAN] /\ node[n].live
        BY <3>1 DEF Live, TimelineTypeOK
      <4>2. patch[e].date \in Date
        BY <2>5 DEF WritePatch, TimelineTypeOK
      <4>3. node'[n] = [date |-> patch[e].date, live |-> TRUE]
        BY <3>1, <3>2, <4>1, <4>2 DEF TimelineTypeOK
      <4>4. node'[n] # None /\ node'[n].live
        <5>1. node'[n] \in [date : Date, live : BOOLEAN]
          BY <4>2, <4>3
        <5>2. None \notin [date : Date, live : BOOLEAN]
          BY TimelineAssumption DEF TimelineAssumption
        <5>3. node'[n] # None
          BY <5>1, <5>2, Zenon
        <5>4. node'[n].live
          BY <4>3
        <5> QED
          BY <5>3, <5>4
      <4>5. \A m \in Node \ {n} : node'[m] = node[m]
        BY <3>1, <3>2 DEF TimelineTypeOK
      <4> QED
        BY <4>3, <4>4, <4>5 DEF Live
    <3>4. WalkInv'
      <4>1. /\ walk' = walk /\ steady' \subseteq steady
            /\ n \in steady' => node[n].date = patch[e].date
        BY <2>5 DEF WritePatch
      <4> QED
        BY <2>0, <3>3, <4>1, WalkUndisturbed DEF Live
    <3>5. CurrentIsRead'
      <4> SUFFICES ASSUME NEW g \in Editor, patch'[g] # None,
                          patch'[g].date_is = "current"
                   PROVE  /\ node'[patch'[g].node] # None
                          /\ node'[patch'[g].node].date = patch'[g].date
        BY DEF CurrentIsRead
      <4>1. /\ patch[g] # None /\ patch'[g] = patch[g]
            /\ patch[g].node # n
        BY <2>5 DEF WritePatch, Outdated, TimelineTypeOK
      <4>2. patch[g].node \in Node
        BY <4>1 DEF TimelineTypeOK
      <4> QED
        BY <3>3, <4>1, <4>2 DEF CurrentIsRead
    <3> QED
      BY <3>4, <3>5
  <2>6. ASSUME NEW e \in Editor, PatchRefused(e)
        PROVE  WalkInv' /\ CurrentIsRead'
    <3>1. UNCHANGED <<node, walk, steady>>
          /\ patch' = [patch EXCEPT ![e] = None]
      BY <2>6 DEF PatchRefused
    <3>2. WalkInv'
      BY <2>0, <3>1, WalkUndisturbed DEF Live
    <3>3. CurrentIsRead'
      BY <3>1 DEF CurrentIsRead, TimelineTypeOK
    <3> QED
      BY <3>2, <3>3
  <2>7. CASE StartWalk
    <3>1. /\ walk' = [open |-> TRUE, cursor |-> None, page |-> {},
                      earlier |-> {}]
          /\ steady' = Live /\ UNCHANGED <<node, patch>>
      BY <2>7 DEF StartWalk
    <3>2. Shown' = {}
      BY <3>1 DEF Shown
    <3>3. PagesDescend' /\ CursorBelow' /\ NothingYet'
      BY <3>1, <3>2 DEF PagesDescend, CursorBelow, NothingYet
    <3>4. SteadyShownOnce'
      BY <3>1, <3>2 DEF SteadyShownOnce, After, Live
    <3> QED
      BY <3>1, <3>3, <3>4 DEF WalkInv, CurrentIsRead
  <2>8. CASE ShowPage
    BY <2>8, ShowPageKeepsWalk DEF ShowPage, CurrentIsRead
  <2>9. CASE ShowLastPage
    BY <2>9, ShowLastPageKeepsWalk DEF ShowLastPage, CurrentIsRead
  <2>10. CASE UNCHANGED timelineVars
    BY <2>0, <2>10, WalkUndisturbed DEF timelineVars, CurrentIsRead, Live
  <2> QED
    BY <2>1, <2>2, <2>3, <2>4, <2>5, <2>6, <2>7, <2>8, <2>9, <2>10
       DEF TimelineNext
<1> QED
  BY <1>1, <1>2, TimelineTypeCorrect, PTL DEF TimelineSpec, TimelineInv

\* For any nodes, dates and page size: a reader scrolls strictly downwards.
THEOREM TimelinePagesDescend == TimelineSpec => []PagesDescend
<1>1. TimelineInv => PagesDescend
  BY DEF TimelineInv, WalkInv
<1> QED
  BY <1>1, TimelineInvariant, PTL

\* ... and meets every node that stays where it is, once.
THEOREM TimelineSteadyShown == TimelineSpec => []SteadyShownOnce
<1>1. TimelineInv => SteadyShownOnce
  BY DEF TimelineInv, WalkInv
<1> QED
  BY <1>1, TimelineInvariant, PTL

\* A node moves only by a request that names a date or that read the row
\* before another write of it: one that holds the row as it still is writes
\* the date that is there.
THEOREM TimelineMovedByName == TimelineSpec => MovedOnlyByName
<1> DEFINE Named(n) ==
        (node[n] # None /\ node'[n] # None /\ node'[n].date # node[n].date)
           => /\ node[n].live
              /\ \E e \in Editor :
                   /\ patch[e] # None
                   /\ patch[e].node = n
                   /\ patch[e].date_is \in {"named", "stale"}
<1>1. TimelineInv /\ [TimelineNext]_timelineVars
        => [\A n \in Node : Named(n)]_timelineVars
  <2> SUFFICES ASSUME TimelineInv, TimelineNext, NEW n \in Node,
                      node[n] # None, node'[n].date # node[n].date
               PROVE  /\ node[n].live
                      /\ \E e \in Editor :
                           /\ patch[e] # None
                           /\ patch[e].node = n
                           /\ patch[e].date_is \in {"named", "stale"}
    OBVIOUS
  <2>1. PICK e \in Editor : WritePatch(e)
    <3>1. ASSUME NEW m \in Node, NEW d \in Date, CreateNode(m, d)
          PROVE  FALSE
      BY <3>1 DEF CreateNode, TimelineInv, TimelineTypeOK
    <3>2. ASSUME NEW m \in Node, SoftDeleteNode(m)
          PROVE  FALSE
      BY <3>2 DEF SoftDeleteNode, Live, TimelineInv, TimelineTypeOK
    <3>3. ASSUME NEW m \in Node, RestoreNode(m)
          PROVE  FALSE
      BY <3>3 DEF RestoreNode, TimelineInv, TimelineTypeOK
    <3> QED
      BY <3>1, <3>2, <3>3 DEF TimelineNext, ReadForPatch, PatchRefused,
                              StartWalk, ShowPage, ShowLastPage
  <2>2. patch[e] # None /\ patch[e].node \in Live
        /\ node' = [node EXCEPT ![patch[e].node].date = patch[e].date]
    BY <2>1 DEF WritePatch, Patchable
  <2>3. patch[e] \in [node : Node, date : Date, date_is : Basis]
    BY <2>2 DEF TimelineInv, TimelineTypeOK
  <2>4. patch[e].node = n
    BY <2>2, <2>3 DEF TimelineInv, TimelineTypeOK
  <2>5. patch[e].date # node[n].date
    BY <2>2, <2>4 DEF TimelineInv, TimelineTypeOK, Live
  <2>6. patch[e].date_is # "current"
    BY <2>2, <2>4, <2>5 DEF TimelineInv, CurrentIsRead
  <2> QED
    BY <2>2, <2>3, <2>4, <2>6 DEF Live, Basis
<1> QED
  BY <1>1, TimelineInvariant, PTL DEF TimelineSpec, MovedOnlyByName

-----------------------------------------------------------------------------
(* Album: order numbers and types *)

\* A nonempty set of order numbers has a largest.
LEMMA LargestIsIn ==
    ASSUME NEW S, S \subseteq Ord, S # {}
    PROVE  /\ Largest(S) \in S
           /\ \A j \in S : j <= Largest(S)
<1> DEFINE above(i) == {j \in S : j > i}
<1> DEFINE T == {above(i) : i \in S}
<1>0. Half \in Nat /\ \A i \in S : i \in Int
  BY AlbumAssumption DEF AlbumAssumption, Ord
<1>1. IsFiniteSet(S)
  <2>1. IsFiniteSet(-Half .. Half - 1)
    BY <1>0, FS_Interval
  <2>2. S \in SUBSET (-Half .. Half - 1)
    BY DEF Ord
  <2> QED
    BY <2>1, <2>2, FS_Subset
<1>2. T \subseteq FiniteSubsetsOf(S) /\ T # {}
  <2> SUFFICES ASSUME NEW i \in S
               PROVE  above(i) \in FiniteSubsetsOf(S)
    OBVIOUS
  <2>1. above(i) \in SUBSET S
    OBVIOUS
  <2> HIDE DEF above
  <2> QED
    BY <1>1, <2>1, FS_Subset DEF FiniteSubsetsOf
<1>3. PICK u \in T : \A v \in T : <<v, u>> \notin StrictSubsetOrdering(S)
  <2> HIDE DEF T
  <2> QED
    BY <1>2, FS_StrictSubsetOrderingWellFounded, WFMin
<1>4. PICK i \in S : u = above(i)
  BY <1>3
<1>5. \A j \in S : j <= i
  <2> SUFFICES ASSUME NEW j \in S, j > i
               PROVE  FALSE
    BY <1>0
  <2>1. above(j) \subseteq above(i) /\ above(j) # above(i)
    <3>1. \A k \in S : k > j => k > i
      BY <1>0
    <3>2. j \in above(i) /\ j \notin above(j)
      BY <1>0
    <3> QED
      BY <3>1, <3>2
  <2>2. <<above(j), above(i)>> \in StrictSubsetOrdering(S)
    BY <2>1 DEF StrictSubsetOrdering
  <2> HIDE DEF above
  <2> QED
    BY <1>3, <1>4, <2>2
<1>6. \E k \in S : \A j \in S : j <= k
  BY <1>5
<1> QED
  BY <1>6 DEF Largest

\* A sum that wraps around is an order number, one that fits is itself.
LEMMA WrapIs ==
    ASSUME NEW i \in Int
    PROVE  /\ Wrap(i) \in Ord
           /\ i \in Ord => Wrap(i) = i
<1>1. Half \in Nat \ {0}
  BY AlbumAssumption DEF AlbumAssumption
<1>2. (i + Half) % (2 * Half) \in 0 .. 2 * Half - 1
  BY <1>1
<1>3. ASSUME i \in Ord
      PROVE  (i + Half) % (2 * Half) = i + Half
  <2>1. i + Half \in 0 .. 2 * Half - 1
    BY <1>1, <1>3 DEF Ord
  <2> QED
    BY <1>1, <2>1
<1> QED
  BY <1>1, <1>2, <1>3 DEF Wrap, Ord

LEMMA RowsAre ==
    ASSUME AlbumTypeOK
    PROVE  \A p \in LivePics :
              pic[p] \in Row /\ pic[p].ord \in Ord /\ pic[p].album \in Album
BY DEF AlbumTypeOK, LivePics, Row

\* The next number is one, and the largest if it does not wrap around.
LEMMA NextOrdIs ==
    ASSUME AlbumTypeOK, NEW a
    PROVE  /\ NextOrd(a) \in Ord
           /\ Roomy(a) => \A p \in In(a) : pic[p].ord < NextOrd(a)
<1>0. Half \in Nat \ {0} /\ Gap \in Nat \ {0} /\ Gap < Half
  BY AlbumAssumption DEF AlbumAssumption
<1>1. CASE In(a) = {}
  BY <1>0, <1>1 DEF NextOrd, Ord
<1>2. CASE In(a) # {}
  <2> DEFINE S == {pic[p].ord : p \in In(a)}
             top == Largest(S)
  <2>1. S \subseteq Ord /\ S # {}
    BY <1>2, RowsAre DEF In
  <2>2. top \in S /\ \A j \in S : j <= top
    <3> HIDE DEF S
    <3> QED
      BY <2>1, LargestIsIn
  <2>3. NextOrd(a) = Wrap(top + Gap)
    BY <1>2 DEF NextOrd
  <2>4. top \in Ord /\ top \in Int
    BY <2>1, <2>2 DEF Ord
  <2>5. NextOrd(a) \in Ord
    <3> HIDE DEF top
    <3> QED
      BY <1>0, <2>3, <2>4, WrapIs
  <2>6. ASSUME Roomy(a), NEW q \in In(a)
        PROVE  pic[q].ord < NextOrd(a)
    <3>1. PICK p \in In(a) : top = pic[p].ord
      BY <2>2
    <3>2. top + Gap < Half
      BY <2>6, <3>1 DEF Roomy
    <3>3. pic[q].ord <= top /\ pic[q].ord \in Ord
      BY <2>1, <2>2
    <3> HIDE DEF top
    <3>4. top + Gap \in Ord
      BY <1>0, <2>4, <3>2 DEF Ord
    <3>5. NextOrd(a) = top + Gap
      BY <1>0, <2>3, <2>4, <3>4, WrapIs
    <3> QED
      BY <1>0, <2>4, <3>3, <3>5 DEF Ord
  <2> QED
    BY <2>5, <2>6
<1> QED
  BY <1>1, <1>2

LEMMA NoRow == None \notin Row
BY AlbumAssumption DEF AlbumAssumption, Row, Ord

\* What a move does to the rows.
LEMMA MovedRows ==
    ASSUME AlbumTypeOK, NEW p \in Pic, NEW a \in Album
    PROVE  /\ AfterMove(p, a) \in [Pic -> Row \cup {None}]
           /\ \A q \in Pic : q # p => AfterMove(p, a)[q] = pic[q]
           /\ AfterMove(p, a) # pic => p \in LivePics
           /\ p \in LivePics => AfterMove(p, a)[p] # None
           /\ MoveAnswer(p, a) \in {"moved", "nothing"}
                 => /\ p \in LivePics
                    /\ AfterMove(p, a)[p].album = a
<1>1. CASE MoveAnswer(p, a) = "moved"
  <2>1. p \in LivePics
    BY <1>1 DEF MoveAnswer
  <2>2. pic[p] \in Row
    BY <2>1, RowsAre
  <2>3. NextOrd(a) \in Ord
    BY NextOrdIs
  <2>4. AfterMove(p, a) = [pic EXCEPT ![p].album = a, ![p].ord = NextOrd(a)]
    BY <1>1 DEF AfterMove
  <2>5. [pic[p] EXCEPT !.album = a, !.ord = NextOrd(a)] \in Row
    BY <2>2, <2>3 DEF Row
  <2> QED
    BY <2>1, <2>2, <2>3, <2>4, <2>5, NoRow DEF AlbumTypeOK, Row
<1>2. CASE MoveAnswer(p, a) = "nothing"
  BY <1>2 DEF AfterMove, MoveAnswer, AlbumTypeOK, LivePics
<1>3. CASE MoveAnswer(p, a) \notin {"moved", "nothing"}
  BY <1>3 DEF AfterMove, AlbumTypeOK, LivePics
<1> QED
  BY <1>1, <1>2, <1>3

\* The next field is one that is left, and the move before the number.
LEMMA NextFieldIs ==
    ASSUME NEW todo \in SUBSET {"move", "ord"}, todo # {}
    PROVE  /\ NextField(todo) \in todo
           /\ "move" \in todo => NextField(todo) = "move"
<1> DEFINE Turn(i) == /\ FieldOrder[i] \in todo
                      /\ \A j \in 1..2 : FieldOrder[j] \in todo => i <= j
           first == CHOOSE i \in 1..2 : Turn(i)
<1>0. FieldOrder[1] = "move" /\ FieldOrder[2] = "ord"
  BY DEF FieldOrder
<1>1. \E i \in 1..2 : Turn(i)
  <2>1. CASE "move" \in todo
    <3>1. Turn(1)
      BY <1>0, <2>1
    <3> QED
      BY <3>1
  <2>2. CASE "move" \notin todo
    <3>1. "ord" \in todo
      BY <2>2
    <3>2. Turn(2)
      BY <1>0, <2>2, <3>1
    <3> QED
      BY <3>2
  <2> QED
    BY <2>1, <2>2
<1>2. first \in 1..2 /\ Turn(first)
  <2> HIDE DEF Turn
  <2> QED
    BY <1>1
<1>3. NextField(todo) = FieldOrder[first]
  BY DEF NextField
<1>4. "move" \in todo => first = 1
  <2> HIDE DEF first
  <2> QED
    BY <1>0, <1>2
<1> QED
  BY <1>0, <1>2, <1>3, <1>4

LEMMA JobsAre ==
    ASSUME AlbumTypeOK, NEW r \in Req, req[r] # None
    PROVE  /\ req[r].op = "upload" => req[r] \in UploadJob
           /\ req[r].op = "patch" => req[r] \in PatchJob
           /\ req[r].op = "batch" => req[r] \in BatchJob
BY DEF AlbumTypeOK, UploadJob, PatchJob, BatchJob

\* A patch that is to move a photo names a node and has the number, if it
\* names one, still before it.
TodoAsked ==
    \A r \in Req : req[r] # None /\ req[r].op = "patch" =>
        /\ "move" \in req[r].todo =>
              /\ req[r].album # None
              /\ "ord" \in req[r].todo \/ req[r].ord = None
        /\ "ord" \in req[r].todo => req[r].ord # None

\* What one statement of a patch does.
LEMMA FieldRows ==
    ASSUME AlbumTypeOK, TodoAsked, NEW r \in Req,
           req[r] # None, req[r].op = "patch", NEW f \in req[r].todo
    PROVE  LET p == req[r].pic IN
           /\ p \in Pic
           /\ AfterField(r, f) \in [Pic -> Row \cup {None}]
           /\ \A q \in Pic : q # p => AfterField(r, f)[q] = pic[q]
           /\ AfterField(r, f) # pic => p \in LivePics
           /\ p \in LivePics => AfterField(r, f)[p] # None
           /\ FieldApplied(r, f) =>
                /\ p \in LivePics
                /\ f = "move" => AfterField(r, f)[p].album = req[r].album
                /\ f = "ord" => /\ AfterField(r, f)[p].ord = req[r].ord
                                /\ AfterField(r, f)[p].album = pic[p].album
<1> DEFINE p == req[r].pic
<1>0. req[r] \in PatchJob
  BY JobsAre
<1>1. p \in Pic /\ f \in {"move", "ord"}
  BY <1>0 DEF PatchJob
<1>2. CASE f = "move"
  <2>1. AfterField(r, f) = AfterMove(p, req[r].album)
    BY <1>2 DEF AfterField
  <2>2. req[r].album \in Album
    BY <1>0, <1>2 DEF PatchJob, TodoAsked
  <2>3. FieldApplied(r, f) <=>
          MoveAnswer(p, req[r].album) \in {"moved", "nothing"}
    BY <1>2 DEF FieldApplied
  <2> HIDE DEF p
  <2>4. QED
    BY <1>1, <1>2, <2>1, <2>2, <2>3, MovedRows DEF p
<1>3. CASE f = "ord" /\ p \in LivePics
  <2>1. AfterField(r, f) = [pic EXCEPT ![p].ord = req[r].ord]
    BY <1>3 DEF AfterField
  <2>2. req[r].ord \in Ord
    BY <1>0, <1>3 DEF PatchJob, TodoAsked
  <2>3. pic[p] \in Row
    BY <1>3, RowsAre
  <2>4. [pic[p] EXCEPT !.ord = req[r].ord] \in Row
    BY <2>2, <2>3 DEF Row
  <2> QED
    BY <1>1, <1>3, <2>1, <2>2, <2>3, <2>4, NoRow DEF AlbumTypeOK, Row
<1>4. CASE f = "ord" /\ p \notin LivePics
  <2>1. AfterField(r, f) = pic /\ ~FieldApplied(r, f)
    BY <1>4 DEF AfterField, FieldApplied
  <2> QED
    BY <1>1, <1>4, <2>1 DEF AlbumTypeOK
<1> QED
  BY <1>1, <1>2, <1>3, <1>4

-----------------------------------------------------------------------------
(* Album: the inductive invariant *)

\* No row is there before its upload inserts it, and no other upload is to
\* insert it.
UploadsApart ==
    \A r \in Req : req[r] # None /\ req[r].op = "upload" =>
        /\ pic[req[r].pic] = None
        /\ \A q \in Req :
             (q # r /\ req[q] # None /\ req[q].op = "upload")
               => req[q].pic # req[r].pic

\* The photos an upload has to come after are there.
BaseThere == \A r \in Req : \A p \in base[r] : pic[p] # None

\* What an undisturbed patch has done so far is still so.
PatchSoFar(r) ==
    (req[r] # None /\ req[r].op = "patch" /\ r \in undisturbed) =>
        /\ (req[r].album # None /\ "move" \notin req[r].todo) =>
              /\ pic[req[r].pic] # None
              /\ pic[req[r].pic].album = req[r].album
        /\ (req[r].ord # None /\ "ord" \notin req[r].todo) =>
              /\ pic[req[r].pic] # None
              /\ pic[req[r].pic].ord = req[r].ord

AlbumInv ==
    /\ AlbumTypeOK
    /\ TodoAsked
    /\ UploadsApart
    /\ BaseThere
    /\ UploadShowsLast
    /\ \A r \in Req : PatchSoFar(r)

\* A request, or the owner at once, writes some photos that are there: no
\* other request finds its own promise broken.
LEMMA WritesKeepInv ==
    ASSUME AlbumInv, NEW photos \in SUBSET Pic, NEW r,
           pic' \in [Pic -> Row \cup {None}],
           \A p \in Pic \ photos : pic'[p] = pic[p],
           \A p \in photos : pic[p] # None /\ pic'[p] # None,
           Touch(photos, r),
           \A q \in Req : q # r => req'[q] = req[q],
           \A q \in Req : req'[q] # None =>
              req[q] # None /\ req'[q].op = req[q].op
                /\ (q = r => req[q].op # "upload"),
           req' \in [Req -> UploadJob \cup PatchJob \cup BatchJob \cup {None}]
    PROVE  /\ AlbumTypeOK'
           /\ UploadsApart' /\ BaseThere' /\ UploadShowsLast'
           /\ \A q \in Req : q # r => PatchSoFar(q)'
<1> USE DEF AlbumInv
<1>0. \A q \in Req : req[q] # None /\ req[q].op \in {"upload", "patch"}
                       => req[q].pic \in Pic
  BY JobsAre DEF UploadJob, PatchJob
<1>1. AlbumTypeOK'
  <2>1. base' \in [Req -> SUBSET Pic] /\ undisturbed' \subseteq Req
    BY DEF Touch, AlbumTypeOK
  <2> QED
    BY <2>1 DEF AlbumTypeOK
<1>2. UploadsApart'
  <2> SUFFICES ASSUME NEW q \in Req, req'[q] # None, req'[q].op = "upload"
               PROVE  /\ pic'[req'[q].pic] = None
                      /\ \A o \in Req :
                           (o # q /\ req'[o] # None /\ req'[o].op = "upload")
                             => req'[o].pic # req'[q].pic
    BY DEF UploadsApart
  <2>1. \A o \in Req : (req'[o] # None /\ req'[o].op = "upload")
                         => o # r /\ req'[o] = req[o]
    OBVIOUS
  <2>2. req'[q] = req[q]
    BY <2>1
  <2>3. req[q].pic \in Pic \ photos
    BY <1>0, <2>2 DEF UploadsApart
  <2> QED
    BY <2>1, <2>2, <2>3 DEF UploadsApart
<1>3. BaseThere'
  <2> SUFFICES ASSUME NEW q \in Req, NEW p \in base'[q]
               PROVE  pic'[p] # None
    BY DEF BaseThere
  <2>1. p \in base[q] /\ p \in Pic \ photos
    BY DEF Touch, AlbumTypeOK
  <2> QED
    BY <2>1 DEF BaseThere
<1>4. UploadShowsLast'
  <2> SUFFICES ASSUME NEW q \in Req, req'[q] # None, req'[q].op = "upload",
                      req'[q].ord # None, NEW p \in base'[q]
               PROVE  pic'[p].ord < req'[q].ord
    BY DEF UploadShowsLast
  <2>1. p \in base[q] /\ p \in Pic \ photos
    BY DEF Touch, AlbumTypeOK
  <2>2. req'[q] = req[q]
    OBVIOUS
  <2> QED
    BY <2>1, <2>2 DEF UploadShowsLast
<1>5. ASSUME NEW q \in Req, q # r
      PROVE  PatchSoFar(q)'
  <2> SUFFICES ASSUME req'[q] # None, req'[q].op = "patch",
                      q \in undisturbed'
               PROVE  PatchSoFar(q)'
    BY DEF PatchSoFar
  <2>1. req'[q] = req[q]
    BY <1>5
  <2>2. q \in undisturbed /\ req[q].pic \notin photos
    BY <1>5, <2>1 DEF Touch
  <2>3. pic'[req[q].pic] = pic[req[q].pic]
    BY <1>0, <2>1, <2>2
  <2> QED
    BY <2>1, <2>2, <2>3 DEF PatchSoFar
<1> QED
  BY <1>1, <1>2, <1>3, <1>4, <1>5

\* A request goes on or ends without writing a photo or being an upload.
LEMMA AsidesKeepInv ==
    ASSUME AlbumInv, NEW r \in Req, UNCHANGED <<pic, base>>,
           undisturbed' \in SUBSET (undisturbed \cup {r}),
           NEW job \in PatchJob \cup BatchJob \cup {None},
           req' = [req EXCEPT ![r] = job]
    PROVE  /\ AlbumTypeOK'
           /\ UploadsApart' /\ BaseThere' /\ UploadShowsLast'
           /\ \A q \in Req : q # r => PatchSoFar(q)'
<1> USE DEF AlbumInv
<1>0. /\ req'[r] = job /\ \A q \in Req : q # r => req'[q] = req[q]
      /\ job # None => job.op # "upload"
  BY DEF AlbumTypeOK, PatchJob, BatchJob
<1>1. AlbumTypeOK'
  BY <1>0 DEF AlbumTypeOK
<1>2. UploadsApart'
  BY <1>0 DEF UploadsApart
<1>3. BaseThere'
  BY DEF BaseThere
<1>4. UploadShowsLast'
  BY <1>0 DEF UploadShowsLast
<1>5. \A q \in Req : q # r => PatchSoFar(q)'
  BY <1>0 DEF PatchSoFar
<1> QED
  BY <1>1, <1>2, <1>3, <1>4, <1>5

\* The steps of an upload.
LEMMA UploadSteps ==
    ASSUME AlbumInv, NEW r \in Req,
           \/ \E p \in Pic, a \in Album : BeginUpload(r, p, a)
           \/ ReadNextOrd(r)
           \/ InsertPic(r)
    PROVE  AlbumInv'
<1> USE DEF AlbumInv
<1>1. ASSUME NEW p \in Pic, NEW a \in Album, BeginUpload(r, p, a)
      PROVE  AlbumInv'
  <2> DEFINE job == [op |-> "upload", pic |-> p, album |-> a, ord |-> None]
  <2>1. /\ UNCHANGED <<pic, base, undisturbed>>
        /\ req' = [req EXCEPT ![r] = job]
        /\ req'[r] = job /\ \A q \in Req : q # r => req'[q] = req[q]
        /\ pic[p] = None
        /\ \A q \in Req : req[q] # None => req[q].op # "upload"
                                             \/ req[q].pic # p
    BY <1>1 DEF BeginUpload, AlbumTypeOK
  <2>2. job \in UploadJob
    BY DEF UploadJob
  <2>3. job.op = "upload" /\ job.pic = p /\ job.ord = None
    OBVIOUS
  <2> HIDE DEF job
  <2>4. AlbumTypeOK'
    BY <2>1, <2>2 DEF AlbumTypeOK
  <2>5. TodoAsked'
    BY <2>1, <2>3 DEF TodoAsked
  <2>6. UploadsApart'
    BY <2>1, <2>3 DEF UploadsApart
  <2>7. BaseThere'
    BY <2>1 DEF BaseThere
  <2>8. UploadShowsLast'
    BY <2>1, <2>3 DEF UploadShowsLast
  <2>9. \A q \in Req : PatchSoFar(q)'
    BY <2>1, <2>3 DEF PatchSoFar
  <2> QED
    BY <2>4, <2>5, <2>6, <2>7, <2>8, <2>9
<1>2. CASE ReadNextOrd(r)
  <2> DEFINE a == req[r].album
             n == NextOrd(a)
  <2>1. /\ req[r] # None /\ req[r].op = "upload" /\ req[r] \in UploadJob
        /\ UNCHANGED <<pic, undisturbed>>
        /\ req' = [req EXCEPT ![r] = [req[r] EXCEPT !.ord = n]]
        /\ base' = [base EXCEPT ![r] = IF Roomy(a) THEN In(a) ELSE {}]
    BY <1>2, JobsAre DEF ReadNextOrd
  <2>2. n \in Ord /\ (Roomy(a) => \A p \in In(a) : pic[p].ord < n)
    BY NextOrdIs
  <2>3. In(a) \subseteq Pic /\ \A p \in In(a) : pic[p] # None
    BY DEF In, LivePics
  <2> HIDE DEF n, a
  <2> DEFINE job == [req[r] EXCEPT !.ord = n]
  <2>4. /\ job \in UploadJob /\ job.op = "upload" /\ job.pic = req[r].pic
        /\ job.ord = n
    BY <2>1, <2>2 DEF UploadJob
  <2>5. req'[r] = job /\ \A q \in Req : q # r => req'[q] = req[q]
    BY <2>1 DEF AlbumTypeOK
  <2> HIDE DEF job
  <2>6. /\ base'[r] = IF Roomy(a) THEN In(a) ELSE {}
        /\ \A q \in Req : q # r => base'[q] = base[q]
    BY <2>1 DEF AlbumTypeOK
  <2>7. AlbumTypeOK'
    BY <2>1, <2>3, <2>4, <2>5 DEF AlbumTypeOK
  <2>8. TodoAsked'
    BY <2>4, <2>5 DEF TodoAsked
  <2>9. UploadsApart'
    BY <2>1, <2>4, <2>5 DEF UploadsApart
  <2>10. BaseThere'
    BY <2>1, <2>3, <2>6 DEF BaseThere
  <2>11. UploadShowsLast'
    BY <2>1, <2>2, <2>4, <2>5, <2>6 DEF UploadShowsLast
  <2>12. \A q \in Req : PatchSoFar(q)'
    BY <2>1, <2>4, <2>5 DEF PatchSoFar
  <2> QED
    BY <2>7, <2>8, <2>9, <2>10, <2>11, <2>12
<1>3. CASE InsertPic(r)
  <2> DEFINE p == req[r].pic
             row == [album |-> req[r].album, ord |-> req[r].ord,
                     live |-> TRUE]
  <2>1. /\ req[r] # None /\ req[r].op = "upload" /\ req[r].ord # None
        /\ req[r] \in UploadJob
        /\ pic' = IF TakenIn(req[r].album, p) THEN pic
                  ELSE [pic EXCEPT ![p] = row]
        /\ req' = [req EXCEPT ![r] = None]
        /\ base' = [base EXCEPT ![r] = {}]
        /\ UNCHANGED undisturbed
    BY <1>3, JobsAre DEF InsertPic
  <2>2. p \in Pic /\ row \in Row /\ pic[p] = None
    BY <2>1 DEF UploadJob, Row, UploadsApart
  <2>3. /\ pic' \in [Pic -> Row \cup {None}]
        /\ \A q \in Pic : q # p => pic'[q] = pic[q]
        /\ \A q \in Pic : pic[q] # None => pic'[q] = pic[q]
    BY <2>1, <2>2 DEF AlbumTypeOK
  <2>4. req'[r] = None /\ \A q \in Req : q # r => req'[q] = req[q]
    BY <2>1 DEF AlbumTypeOK
  <2>5. \A q \in Req : base'[q] \in SUBSET base[q]
                        /\ (q # r => base'[q] = base[q])
    BY <2>1 DEF AlbumTypeOK
  <2>6. \A q \in Req : req[q] # None /\ req[q].op = "upload"
                         => req[q].pic \in Pic
    BY JobsAre DEF UploadJob
  <2>7. \A q \in Req : req[q] # None /\ req[q].op = "patch"
                         => req[q].pic \in Pic
    BY JobsAre DEF PatchJob
  <2>8. \A q \in Req : \A x \in base[q] : x \in Pic
    BY DEF AlbumTypeOK
  <2>9. AlbumTypeOK'
    BY <2>1, <2>3, <2>4 DEF AlbumTypeOK
  <2>10. TodoAsked'
    BY <2>4 DEF TodoAsked
  <2>11. UploadsApart'
    BY <2>1, <2>3, <2>4, <2>6 DEF UploadsApart
  <2>12. BaseThere'
    BY <2>3, <2>5, <2>8 DEF BaseThere
  <2>13. UploadShowsLast'
    BY <2>3, <2>4, <2>5, <2>8 DEF UploadShowsLast, BaseThere
  <2>14. \A q \in Req : PatchSoFar(q)'
    <3> SUFFICES ASSUME NEW q \in Req, req'[q] # None,
                        req'[q].op = "patch", q \in undisturbed'
                 PROVE  PatchSoFar(q)'
      BY DEF PatchSoFar
    <3>1. req'[q] = req[q] /\ q \in undisturbed /\ req[q].pic \in Pic
      BY <2>1, <2>4, <2>7
    <3> QED
      BY <2>3, <3>1 DEF PatchSoFar
  <2> QED
    BY <2>9, <2>10, <2>11, <2>12, <2>13, <2>14
<1> QED
  BY <1>1, <1>2, <1>3

\* The steps of a patch.
LEMMA PatchSteps ==
    ASSUME AlbumInv, NEW r \in Req,
           \/ \E p \in Pic, a \in Album \cup {None},
                 o \in AskedOrd \cup {None} : BeginPatch(r, p, a, o)
           \/ PatchField(r)
           \/ PatchFails(r)
           \/ PatchDone(r)
    PROVE  AlbumInv'
<1> USE DEF AlbumInv
<1>1. ASSUME NEW p \in Pic, NEW a \in Album \cup {None},
             NEW o \in AskedOrd \cup {None}, BeginPatch(r, p, a, o)
      PROVE  AlbumInv'
  <2> DEFINE todo == (IF a # None THEN {"move"} ELSE {})
                       \cup (IF o # None THEN {"ord"} ELSE {})
             job == [op |-> "patch", pic |-> p, album |-> a, ord |-> o,
                     todo |-> todo]
  <2>1. /\ UNCHANGED <<pic, base>> /\ undisturbed' = undisturbed \cup {r}
        /\ req' = [req EXCEPT ![r] = job]
    BY <1>1 DEF BeginPatch
  <2>2. /\ "move" \in todo <=> a # None
        /\ "ord" \in todo <=> o # None
        /\ todo \in SUBSET {"move", "ord"}
    OBVIOUS
  <2>3. AskedOrd \subseteq Ord
    BY AlbumAssumption DEF AlbumAssumption, Ord
  <2> HIDE DEF todo
  <2>4. /\ job \in PatchJob /\ job.op = "patch" /\ job.pic = p
        /\ job.album = a /\ job.ord = o /\ job.todo = todo
    BY <2>2, <2>3 DEF PatchJob
  <2> HIDE DEF job
  <2>5. req'[r] = job /\ \A q \in Req : q # r => req'[q] = req[q]
    BY <2>1 DEF AlbumTypeOK
  <2>6. TodoAsked'
    BY <2>2, <2>4, <2>5 DEF TodoAsked
  <2>7. PatchSoFar(r)'
    BY <2>2, <2>4, <2>5 DEF PatchSoFar
  <2> QED
    BY <2>1, <2>4, <2>6, <2>7, AsidesKeepInv
<1>2. CASE PatchFails(r) \/ PatchDone(r)
  <2>1. /\ UNCHANGED <<pic, base>> /\ undisturbed' = undisturbed \ {r}
        /\ req' = [req EXCEPT ![r] = None]
    BY <1>2 DEF PatchFails, PatchDone
  <2>2. req'[r] = None /\ \A q \in Req : q # r => req'[q] = req[q]
    BY <2>1 DEF AlbumTypeOK
  <2>3. TodoAsked' /\ PatchSoFar(r)'
    BY <2>2 DEF TodoAsked, PatchSoFar
  <2> QED
    BY <2>1, <2>3, AsidesKeepInv
<1>3. CASE PatchField(r)
  <2> DEFINE f == NextField(req[r].todo)
             p == req[r].pic
             left == req[r].todo \ {f}
             job == IF FieldApplied(r, f) THEN [req[r] EXCEPT !.todo = left]
                    ELSE None
  <2>1. /\ req[r] # None /\ req[r].op = "patch" /\ req[r].todo # {}
        /\ pic' = AfterField(r, f)
        /\ req' = [req EXCEPT ![r] = job]
        /\ IF pic' # pic THEN Touch({p}, r) ELSE UNCHANGED <<base, undisturbed>>
    BY <1>3 DEF PatchField
  <2>2. req[r] \in PatchJob
    BY <2>1, JobsAre
  <2>3. /\ f \in req[r].todo /\ f \in {"move", "ord"}
        /\ "move" \in req[r].todo => f = "move"
    <3>1. req[r].todo \in SUBSET {"move", "ord"}
      BY <2>2 DEF PatchJob
    <3> QED
      BY <2>1, <3>1, NextFieldIs
  <2> HIDE DEF f
  <2>4. /\ p \in Pic
        /\ pic' \in [Pic -> Row \cup {None}]
        /\ \A q \in Pic : q # p => pic'[q] = pic[q]
        /\ pic' # pic => p \in LivePics
        /\ FieldApplied(r, f) =>
             /\ p \in LivePics
             /\ f = "move" => pic'[p].album = req[r].album
             /\ f = "ord" => /\ pic'[p].ord = req[r].ord
                             /\ pic'[p].album = pic[p].album
    BY <2>1, <2>3, FieldRows
  <2>5. p \in LivePics => pic[p] # None
    BY DEF LivePics
  <2>6. p \in LivePics => pic'[p] # None
    BY <2>1, <2>3, FieldRows
  <2>7. job \in PatchJob \cup {None}
    BY <2>2 DEF PatchJob
  <2>8. job # None => /\ FieldApplied(r, f) /\ job.op = "patch"
                      /\ job.pic = p /\ job.todo = left
                      /\ job.album = req[r].album /\ job.ord = req[r].ord
    BY <2>2 DEF PatchJob
  <2> HIDE DEF job
  <2>9. req'[r] = job /\ \A q \in Req : q # r => req'[q] = req[q]
    BY <2>1 DEF AlbumTypeOK
  <2>10. TodoAsked'
    <3>1. "move" \notin left
      BY <2>3
    <3> QED
      BY <2>1, <2>8, <2>9, <3>1 DEF TodoAsked
  <2>11. PatchSoFar(r)'
    <3> SUFFICES ASSUME job # None, r \in undisturbed'
                 PROVE  /\ (job.album # None /\ "move" \notin job.todo) =>
                              pic'[p] # None /\ pic'[p].album = job.album
                        /\ (job.ord # None /\ "ord" \notin job.todo) =>
                              pic'[p] # None /\ pic'[p].ord = job.ord
      BY <2>8, <2>9 DEF PatchSoFar
    <3>1. r \in undisturbed
      BY <2>1 DEF Touch
    <3>2. FieldApplied(r, f) /\ pic'[p] # None
      BY <2>4, <2>6, <2>8
    <3>3. CASE f = "move"
      BY <2>1, <2>3, <2>4, <2>8, <3>2, <3>3 DEF TodoAsked
    <3>4. CASE f = "ord"
      BY <2>1, <2>3, <2>4, <2>8, <3>1, <3>2, <3>4 DEF PatchSoFar
    <3> QED
      BY <2>3, <3>3, <3>4
  <2>12. CASE pic' # pic
    <3>1. Touch({p}, r)
      BY <2>1, <2>12
    <3>2. req' \in [Req -> UploadJob \cup PatchJob \cup BatchJob \cup {None}]
      BY <2>1, <2>7 DEF AlbumTypeOK
    <3>3. \A q \in Req : req'[q] # None =>
              req[q] # None /\ req'[q].op = req[q].op
                /\ (q = r => req[q].op # "upload")
      BY <2>1, <2>8, <2>9
    <3>4. \A q \in {p} : pic[q] # None /\ pic'[q] # None
      BY <2>4, <2>5, <2>6, <2>12
    <3>5. /\ AlbumTypeOK'
          /\ UploadsApart' /\ BaseThere' /\ UploadShowsLast'
          /\ \A q \in Req : q # r => PatchSoFar(q)'
      BY <2>4, <2>9, <3>1, <3>2, <3>3, <3>4, WritesKeepInv
    <3> QED
      BY <2>10, <2>11, <3>5
  <2>13. CASE pic' = pic
    <3>1. UNCHANGED <<pic, base, undisturbed>>
      BY <2>1, <2>13
    <3>2. /\ AlbumTypeOK'
          /\ UploadsApart' /\ BaseThere' /\ UploadShowsLast'
          /\ \A q \in Req : q # r => PatchSoFar(q)'
      BY <2>1, <2>7, <3>1, AsidesKeepInv
    <3> QED
      BY <2>10, <2>11, <3>2
  <2> QED
    BY <2>12, <2>13
<1> QED
  BY <1>1, <1>2, <1>3

\* The steps of a batch.
LEMMA BatchSteps ==
    ASSUME AlbumInv, NEW r \in Req,
           \/ \E ids \in Lists, a \in Album \cup {None} : BeginBatch(r, ids, a)
           \/ BatchStep(r)
           \/ BatchDone(r)
           \/ BatchAborts(r)
    PROVE  AlbumInv'
<1> USE DEF AlbumInv
<1>1. ASSUME NEW ids \in Lists, NEW a \in Album \cup {None},
             BeginBatch(r, ids, a)
      PROVE  AlbumInv'
  <2> DEFINE job == [op |-> "batch", ids |-> ids, album |-> a, seen |-> {}]
  <2>1. /\ UNCHANGED <<pic, base, undisturbed>>
        /\ req' = [req EXCEPT ![r] = job]
    BY <1>1 DEF BeginBatch
  <2>2. job \in BatchJob /\ job.op = "batch"
    BY AlbumAssumption DEF AlbumAssumption, BatchJob
  <2> HIDE DEF job
  <2>3. req'[r] = job /\ \A q \in Req : q # r => req'[q] = req[q]
    BY <2>1 DEF AlbumTypeOK
  <2>4. TodoAsked' /\ PatchSoFar(r)'
    BY <2>2, <2>3 DEF TodoAsked, PatchSoFar
  <2> QED
    BY <2>1, <2>2, <2>4, AsidesKeepInv
<1>2. CASE BatchDone(r) \/ BatchAborts(r)
  <2>1. /\ UNCHANGED <<pic, base, undisturbed>>
        /\ req' = [req EXCEPT ![r] = None]
    BY <1>2 DEF BatchDone, BatchAborts
  <2>2. req'[r] = None /\ \A q \in Req : q # r => req'[q] = req[q]
    BY <2>1 DEF AlbumTypeOK
  <2>3. TodoAsked' /\ PatchSoFar(r)'
    BY <2>2 DEF TodoAsked, PatchSoFar
  <2> QED
    BY <2>1, <2>3, AsidesKeepInv
<1>3. CASE BatchStep(r)
  <2> DEFINE p == Head(req[r].ids)
             a == req[r].album
             job == [req[r] EXCEPT !.ids = Tail(req[r].ids),
                                   !.seen = req[r].seen \cup {p}]
  <2>1. /\ req[r] # None /\ req[r].op = "batch" /\ req[r].ids # <<>>
        /\ pic' = IF p \in req[r].seen THEN pic
                  ELSE IF a # None THEN AfterMove(p, a)
                  ELSE IF p \in LivePics
                       THEN [pic EXCEPT ![p] = [pic[p] EXCEPT !.live = FALSE]]
                  ELSE pic
        /\ req' = [req EXCEPT ![r].ids = Tail(@), ![r].seen = @ \cup {p}]
        /\ IF pic' # pic THEN Touch({p}, r)
           ELSE UNCHANGED <<base, undisturbed>>
    BY <1>3 DEF BatchStep
  <2>2. req[r] \in BatchJob
    BY <2>1, JobsAre
  <2>3. /\ p \in Pic /\ Tail(req[r].ids) \in Seq(Pic)
        /\ a \in Album \cup {None} /\ req[r].seen \in SUBSET Pic
    BY <2>1, <2>2 DEF BatchJob
  <2>4. /\ job \in BatchJob /\ job.op = "batch"
    BY <2>2, <2>3 DEF BatchJob
  <2>5. req' = [req EXCEPT ![r] = job]
    BY <2>1, <2>2 DEF AlbumTypeOK, BatchJob
  <2>6. req'[r] = job /\ \A q \in Req : q # r => req'[q] = req[q]
    BY <2>5 DEF AlbumTypeOK
  <2> HIDE DEF p, a, job
  <2>7. /\ pic' \in [Pic -> Row \cup {None}]
        /\ \A q \in Pic : q # p => pic'[q] = pic[q]
        /\ pic' # pic => p \in LivePics
        /\ p \in LivePics => pic'[p] # None
    <3>1. CASE pic' = pic
      BY <3>1 DEF AlbumTypeOK, LivePics
    <3>2. CASE pic' = AfterMove(p, a) /\ a # None
      BY <2>3, <3>2, MovedRows
    <3>3. CASE p \in LivePics
               /\ pic' = [pic EXCEPT ![p] = [pic[p] EXCEPT !.live = FALSE]]
      <4>1. [pic[p] EXCEPT !.live = FALSE] \in Row
        BY <3>3, RowsAre DEF Row
      <4> QED
        BY <2>3, <3>3, <4>1, NoRow DEF AlbumTypeOK
    <3> QED
      BY <2>1, <3>1, <3>2, <3>3
  <2>8. TodoAsked' /\ PatchSoFar(r)'
    BY <2>4, <2>6 DEF TodoAsked, PatchSoFar
  <2>9. CASE pic' # pic
    <3>1. Touch({p}, r)
      BY <2>1, <2>9
    <3>2. req' \in [Req -> UploadJob \cup PatchJob \cup BatchJob \cup {None}]
      BY <2>4, <2>5 DEF AlbumTypeOK
    <3>3. \A q \in Req : req'[q] # None =>
              req[q] # None /\ req'[q].op = req[q].op
                /\ (q = r => req[q].op # "upload")
      BY <2>1, <2>4, <2>6
    <3>4. \A q \in {p} : pic[q] # None /\ pic'[q] # None
      BY <2>7, <2>9 DEF LivePics
    <3>5. /\ AlbumTypeOK'
          /\ UploadsApart' /\ BaseThere' /\ UploadShowsLast'
          /\ \A q \in Req : q # r => PatchSoFar(q)'
      BY <2>3, <2>6, <2>7, <3>1, <3>2, <3>3, <3>4, WritesKeepInv
    <3> QED
      BY <2>8, <3>5
  <2>10. CASE pic' = pic
    <3>1. UNCHANGED <<pic, base, undisturbed>>
      BY <2>1, <2>10
    <3>2. /\ AlbumTypeOK'
          /\ UploadsApart' /\ BaseThere' /\ UploadShowsLast'
          /\ \A q \in Req : q # r => PatchSoFar(q)'
      BY <2>4, <2>5, <3>1, AsidesKeepInv
    <3> QED
      BY <2>8, <3>2
  <2> QED
    BY <2>9, <2>10
<1> QED
  BY <1>1, <1>2, <1>3

\* What the owner does at once.
LEMMA OwnerSteps ==
    ASSUME AlbumInv,
           \/ \E p \in Pic : SoftDeletePic(p) \/ RestorePic(p)
           \/ \E a \in Album, ids \in Lists : ReorderPhotos(a, ids)
    PROVE  AlbumInv'
<1> USE DEF AlbumInv
<1>1. ASSUME NEW photos \in SUBSET Pic, UNCHANGED req, Touch(photos, None),
             pic' \in [Pic -> Row \cup {None}],
             \A p \in Pic \ photos : pic'[p] = pic[p],
             \A p \in photos : pic[p] # None /\ pic'[p] # None
      PROVE  AlbumInv'
  <2>1. None \notin Req
    BY AlbumAssumption DEF AlbumAssumption
  <2>3. TodoAsked'
    BY <1>1 DEF TodoAsked
  <2>4. req' \in [Req -> UploadJob \cup PatchJob \cup BatchJob \cup {None}]
    BY <1>1 DEF AlbumTypeOK
  <2>5. /\ AlbumTypeOK'
        /\ UploadsApart' /\ BaseThere' /\ UploadShowsLast'
        /\ \A q \in Req : q # None => PatchSoFar(q)'
    BY <1>1, <2>1, <2>4, WritesKeepInv
  <2> QED
    BY <2>1, <2>3, <2>5
<1>2. ASSUME NEW p \in Pic, SoftDeletePic(p) \/ RestorePic(p)
      PROVE  AlbumInv'
  <2>1. /\ UNCHANGED req /\ Touch({p}, None) /\ pic[p] # None
        /\ \E b \in BOOLEAN : pic' = [pic EXCEPT ![p].live = b]
    BY <1>2 DEF SoftDeletePic, RestorePic, LivePics
  <2>2. PICK b \in BOOLEAN : pic' = [pic EXCEPT ![p].live = b]
    BY <2>1
  <2>3. [pic[p] EXCEPT !.live = b] \in Row
    BY <2>1 DEF AlbumTypeOK, Row
  <2>4. /\ pic' \in [Pic -> Row \cup {None}] /\ pic'[p] # None
        /\ \A q \in Pic \ {p} : pic'[q] = pic[q]
    BY <2>2, <2>3, NoRow DEF AlbumTypeOK
  <2> QED
    BY <1>1, <2>1, <2>4
<1>3. ASSUME NEW a \in Album, NEW ids \in Lists, ReorderPhotos(a, ids)
      PROVE  AlbumInv'
  <2> DEFINE photos == ToSet(ids)
             place(p) == CHOOSE i \in DOMAIN ids : ids[i] = p
             row(p) == [pic[p] EXCEPT !.ord = place(p) * Gap]
  <2>1. /\ UNCHANGED req /\ Touch(photos, None)
        /\ photos \subseteq In(a)
        /\ pic' = [p \in Pic |-> IF p \in photos THEN row(p) ELSE pic[p]]
    BY <1>3 DEF ReorderPhotos, ExactSet
  <2>2. photos \in SUBSET Pic /\ \A p \in photos : pic[p] # None
    BY <2>1 DEF In, LivePics
  <2>3. ASSUME NEW p \in photos
        PROVE  row(p) \in Row
    <3>1. /\ ids \in Seq(Pic) /\ Len(ids) * Gap < Half
          /\ Gap \in Nat \ {0} /\ Half \in Nat \ {0}
      BY AlbumAssumption DEF AlbumAssumption
    <3>2. \E i \in DOMAIN ids : ids[i] = p
      BY DEF ToSet
    <3>3. place(p) \in DOMAIN ids
      BY <3>2
    <3> HIDE DEF place
    <3>4. place(p) \in 1..Len(ids) /\ Len(ids) \in Nat
      BY <3>1, <3>3
    <3>5. place(p) * Gap \in Ord
      <4>1. \A i, n, g \in Nat : i <= n => i * g <= n * g
        OBVIOUS
      <4>2. place(p) * Gap <= Len(ids) * Gap
        BY <3>1, <3>4, <4>1
      <4>3. place(p) * Gap \in Nat /\ Len(ids) * Gap \in Nat
        BY <3>1, <3>4
      <4> QED
        BY <3>1, <4>2, <4>3 DEF Ord
    <3>6. pic[p] \in Row
      BY <2>1, RowsAre DEF In
    <3> QED
      BY <3>5, <3>6 DEF Row
  <2> HIDE DEF photos, row
  <2>4. /\ pic' \in [Pic -> Row \cup {None}]
        /\ \A p \in Pic \ photos : pic'[p] = pic[p]
        /\ \A p \in photos : pic'[p] # None
    BY <2>1, <2>2, <2>3, NoRow DEF AlbumTypeOK
  <2> QED
    BY <1>1, <2>1, <2>2, <2>4
<1> QED
  BY <1>2, <1>3

\* Types, and what each request may count on, hold whatever requests come in
\* between.
THEOREM AlbumInvariant == AlbumSpec => []AlbumInv
<1>1. AlbumInit => AlbumInv
  BY DEF AlbumInit, AlbumInv, AlbumTypeOK, TodoAsked, UploadsApart, BaseThere,
         UploadShowsLast, PatchSoFar
<1>2. AlbumInv /\ [AlbumNext]_albumVars => AlbumInv'
  <2>1. AlbumInv /\ UNCHANGED albumVars => AlbumInv'
    BY DEF albumVars, AlbumInv, AlbumTypeOK, TodoAsked, UploadsApart,
           BaseThere, UploadShowsLast, PatchSoFar, LivePics, In
  <2> QED
    BY <2>1, UploadSteps, PatchSteps, BatchSteps, OwnerSteps DEF AlbumNext
<1> QED
  BY <1>1, <1>2, PTL DEF AlbumSpec

\* Type correctness of the photos and of the requests under way.
THEOREM AlbumTypeCorrect == AlbumSpec => []AlbumTypeOK
<1>1. AlbumInv => AlbumTypeOK
  BY DEF AlbumInv
<1> QED
  BY <1>1, AlbumInvariant, PTL

\* For any number of requests: a new photo shows after all that were there.
THEOREM AlbumShowsLast == AlbumSpec => []UploadShowsLast
<1>1. AlbumInv => UploadShowsLast
  BY DEF AlbumInv
<1> QED
  BY <1>1, AlbumInvariant, PTL

\* A patch that nobody disturbs leaves the photo as asked.
THEOREM AlbumPatchedAsAsked == AlbumSpec => []PatchedAsAsked
<1>1. AlbumInv => PatchedAsAsked
  BY DEF AlbumInv, PatchSoFar, PatchedAsAsked
<1> QED
  BY <1>1, AlbumInvariant, PTL
-----------------------------------------------------------------------------
(* Album: what a node shows *)

\* A nonempty set of indices has a least one.
LEMMA LeastIndex ==
    ASSUME NEW n \in Nat, NEW S, S \subseteq 1..n, S # {}
    PROVE  \E k \in S : \A i \in S : k <= i
<1> DEFINE below(i) == {j \in S : j < i}
           T == {below(i) : i \in S}
<1>1. T \subseteq FiniteSubsetsOf(S) /\ T # {}
  <2>1. IsFiniteSet(S)
    <3>1. IsFiniteSet(1..n) /\ S \in SUBSET (1..n)
      BY FS_Interval
    <3> QED
      BY <3>1, FS_Subset
  <2> SUFFICES ASSUME NEW i \in S
               PROVE  below(i) \in FiniteSubsetsOf(S)
    OBVIOUS
  <2>2. below(i) \in SUBSET S
    OBVIOUS
  <2> HIDE DEF below
  <2> QED
    BY <2>1, <2>2, FS_Subset DEF FiniteSubsetsOf
<1>2. PICK u \in T : \A v \in T : <<v, u>> \notin StrictSubsetOrdering(S)
  <2> HIDE DEF T
  <2> QED
    BY <1>1, FS_StrictSubsetOrderingWellFounded, WFMin
<1>3. PICK k \in S : u = below(k)
  BY <1>2
<1>4. ASSUME NEW i \in S, i < k PROVE FALSE
  <2>1. below(i) \subseteq below(k) /\ below(i) # below(k)
    <3>1. i \in below(k) /\ i \notin below(i)
      BY <1>4
    <3>2. \A j \in S : j < i => j < k
      BY <1>4
    <3> QED
      BY <3>1, <3>2
  <2>2. <<below(i), below(k)>> \in StrictSubsetOrdering(S)
    BY <2>1 DEF StrictSubsetOrdering
  <2> HIDE DEF below
  <2> QED
    BY <1>2, <1>3, <2>2
<1> QED
  BY <1>4

\* A finite set is enumerated in a strict order in one way only.
LEMMA SortedOnce ==
    ASSUME NEW S, IsFiniteSet(S), NEW order,
           \A x, y \in S :
              <<x, y>> \in order => <<y, x>> \notin order,
           NEW n, n = Cardinality(S),
           NEW s \in [1..n -> S], NEW t \in [1..n -> S],
           \A i, j \in 1..n : i < j => <<s[i], s[j]>> \in order,
           \A i, j \in 1..n : i < j => <<t[i], t[j]>> \in order
    PROVE  s = t
<1>0. n \in Nat
  BY FS_CardinalityType
<1>1. ASSUME NEW f \in [1..n -> S],
             \A i, j \in 1..n : i < j => <<f[i], f[j]>> \in order
      PROVE  /\ \A i, j \in 1..n : f[i] = f[j] => i = j
             /\ \A x \in S : \E i \in 1..n : f[i] = x
  <2>1. \A i, j \in 1..n : f[i] = f[j] => i = j
    <3> SUFFICES ASSUME NEW i \in 1..n, NEW j \in 1..n, f[i] = f[j], i < j
                 PROVE  FALSE
      BY <1>0
    <3> QED
      BY <1>1
  <2>2. f \in Injection(1..n, S)
    BY <2>1 DEF Injection, IsInjective
  <2>3. Cardinality(1..n) = n /\ IsFiniteSet(1..n)
    BY <1>0, FS_Interval
  <2>4. f \in Surjection(1..n, S)
    BY <2>2, <2>3, FS_Injection
  <2> QED
    BY <2>1, <2>4 DEF Surjection
<1> DEFINE apart == {i \in 1..n : s[i] # t[i]}
<1>11. /\ \A i, j \in 1..n : s[i] = s[j] => i = j
       /\ \A x \in S : \E i \in 1..n : s[i] = x
  BY <1>1
<1>12. /\ \A i, j \in 1..n : t[i] = t[j] => i = j
       /\ \A x \in S : \E i \in 1..n : t[i] = x
  BY <1>1
<1>2. SUFFICES ASSUME apart # {} PROVE FALSE
  <2>1. ASSUME apart = {} PROVE s = t
    <3>1. \A i \in 1..n : s[i] = t[i]
      BY <2>1
    <3>2. /\ s = [i \in 1..n |-> s[i]]
          /\ t = [i \in 1..n |-> t[i]]
      OBVIOUS
    <3> HIDE DEF apart
    <3> QED
      BY <3>1, <3>2, Zenon
  <2> HIDE DEF apart
  <2> QED
    BY <2>1
<1>3. PICK k \in apart : \A i \in apart : k <= i
  <2> HIDE DEF apart
  <2>1. apart \subseteq 1..n
    BY DEF apart
  <2> QED
    BY <1>0, <1>2, <2>1, LeastIndex
<1>4. \A i \in 1..n : i < k => s[i] = t[i]
  BY <1>0, <1>3
<1>13. k \in 1..n /\ s[k] # t[k] /\ s[k] \in S /\ t[k] \in S
  BY <1>3
<1>5. PICK i \in 1..n : s[i] = t[k]
  BY <1>11, <1>13
<1>6. PICK j \in 1..n : t[j] = s[k]
  BY <1>12, <1>13
<1>7. i > k
  <2>1. i # k
    BY <1>13, <1>5
  <2>2. ~(i < k)
    BY <1>12, <1>13, <1>4, <1>5, <2>1
  <2> QED
    BY <1>0, <1>13, <2>1, <2>2
<1>8. j > k
  <2>1. j # k
    BY <1>13, <1>6
  <2>2. ~(j < k)
    BY <1>11, <1>13, <1>4, <1>6, <2>1
  <2> QED
    BY <1>0, <1>13, <2>1, <2>2
<1>9. <<s[k], t[k]>> \in order /\ <<t[k], s[k]>> \in order
  BY <1>13, <1>5, <1>6, <1>7, <1>8
<1> QED
  BY <1>13, <1>9

\* Rows are inserted one at a time.
RowsFinite == IsFiniteSet({p \in Pic : pic[p] # None})

LEMMA RowsStayFinite ==
    ASSUME AlbumInv, RowsFinite, [AlbumNext]_albumVars
    PROVE  RowsFinite'
<1> DEFINE rows == {p \in Pic : pic[p] # None}
<1>1. \E q : \A p \in Pic : pic'[p] # None => pic[p] # None \/ p = q
  <2>1. CASE UNCHANGED pic
    BY <2>1
  <2>2. ASSUME NEW r \in Req, InsertPic(r)
        PROVE  \A p \in Pic : pic'[p] # None =>
                  pic[p] # None \/ p = req[r].pic
    BY <2>2 DEF InsertPic, AlbumInv, AlbumTypeOK
  <2>3. ASSUME NEW r \in Req, PatchField(r)
        PROVE  \A p \in Pic : pic'[p] # None => pic[p] # None
    <3>1. req[r] # None /\ req[r].op = "patch" /\ req[r].todo # {}
      BY <2>3 DEF PatchField
    <3>2. req[r].todo \in SUBSET {"move", "ord"}
      BY <3>1, JobsAre DEF AlbumInv, PatchJob
    <3>3. PICK f \in req[r].todo : pic' = AfterField(r, f)
      BY <2>3, <3>1, <3>2, NextFieldIs DEF PatchField
    <3> QED
      BY <3>1, <3>3, FieldRows DEF AlbumInv, LivePics
  <2>4. ASSUME NEW r \in Req, BatchStep(r)
        PROVE  \A p \in Pic : pic'[p] # None => pic[p] # None
    <3> DEFINE h == Head(req[r].ids)
               a == req[r].album
    <3>1. req[r] \in BatchJob /\ req[r].ids # <<>>
      BY <2>4, JobsAre DEF AlbumInv, BatchStep
    <3>2. h \in Pic /\ a \in Album \cup {None}
      BY <3>1 DEF BatchJob
    <3>3. \/ pic' = pic
          \/ a # None /\ pic' = AfterMove(h, a)
          \/ h \in LivePics /\
             pic' = [pic EXCEPT ![h] = [pic[h] EXCEPT !.live = FALSE]]
      BY <2>4 DEF BatchStep
    <3> HIDE DEF h, a
    <3>4. CASE a # None /\ pic' = AfterMove(h, a)
      BY <3>2, <3>4, MovedRows DEF AlbumInv, LivePics
    <3> QED
      BY <3>2, <3>3, <3>4 DEF AlbumInv, AlbumTypeOK, LivePics
  <2>5. ASSUME NEW q \in Pic, SoftDeletePic(q) \/ RestorePic(q)
        PROVE  \A p \in Pic : pic'[p] # None => pic[p] # None
    BY <2>5 DEF SoftDeletePic, RestorePic, AlbumInv, AlbumTypeOK, LivePics
  <2>6. ASSUME NEW a \in Album, NEW ids \in Lists, ReorderPhotos(a, ids)
        PROVE  \A p \in Pic : pic'[p] # None => pic[p] # None
    BY <2>6 DEF ReorderPhotos, ExactSet, In, LivePics
  <2>7. ASSUME NEW r \in Req,
               \/ \E p \in Pic, a \in Album : BeginUpload(r, p, a)
               \/ ReadNextOrd(r)
               \/ \E p \in Pic, a \in Album \cup {None},
                     o \in AskedOrd \cup {None} : BeginPatch(r, p, a, o)
               \/ PatchFails(r)
               \/ PatchDone(r)
               \/ \E ids \in Lists, a \in Album \cup {None} :
                     BeginBatch(r, ids, a)
               \/ BatchDone(r)
               \/ BatchAborts(r)
        PROVE  UNCHANGED pic
    BY <2>7 DEF BeginUpload, ReadNextOrd, BeginPatch, PatchFails, PatchDone,
       BeginBatch, BatchDone, BatchAborts
  <2> QED
    BY <2>1, <2>2, <2>3, <2>4, <2>5, <2>6, <2>7 DEF AlbumNext, albumVars
<1>2. PICK q : \A p \in Pic : pic'[p] # None => p \in rows \/ p = q
  BY <1>1
<1>3. IsFiniteSet(rows \cup {q})
  BY FS_AddElement DEF RowsFinite
<1>4. {p \in Pic : pic'[p] # None} \in SUBSET (rows \cup {q})
  BY <1>2
<1> QED
  BY <1>3, <1>4, FS_Subset DEF RowsFinite

\* Of the photos of a node, the numbers and then the ids decide.
LEMMA ReorderShows ==
    ASSUME AlbumTypeOK, RowsFinite, NEW a \in Album, NEW ids \in Lists,
           ReorderPhotos(a, ids)
    PROVE  ShownOrder(a)' = ids
<1> DEFINE S == In(a)
           n == Cardinality(S)
           place(p) == CHOOSE i \in DOMAIN ids : ids[i] = p
           order == {e \in S \X S :
                       \/ pic'[e[1]].ord < pic'[e[2]].ord
                       \/ pic'[e[1]].ord = pic'[e[2]].ord /\ e[1] < e[2]}
           Sorts(s) == \A i, j \in DOMAIN s : i < j => Before(s[i], s[j])'
<1>1. IsFiniteSet(S) /\ n \in Nat
  <2>1. S \in SUBSET {p \in Pic : pic[p] # None}
    BY DEF In, LivePics
  <2> QED
    BY <2>1, FS_Subset, FS_CardinalityType DEF RowsFinite
<1>2. /\ ids \in Seq(Pic) /\ Pic \subseteq Nat
      /\ Gap \in Nat \ {0}
  BY AlbumAssumption DEF AlbumAssumption
<1>3. /\ ids \in [1..n -> S] /\ Len(ids) = n
      /\ \A i, j \in 1..n : ids[i] = ids[j] => i = j
  <2>1. Len(ids) = n /\ ToSet(ids) \subseteq S /\ IsInjective(ids)
    BY DEF ReorderPhotos, ExactSet
  <2>2. \A i \in DOMAIN ids : ids[i] \in ToSet(ids)
    BY DEF ToSet
  <2> HIDE DEF S, n
  <2>3. DOMAIN ids = 1..n
    BY <1>2, <2>1
  <2> QED
    BY <1>2, <2>1, <2>2, <2>3 DEF IsInjective
<1>4. \A p \in S : \E i \in 1..n : ids[i] = p
  <2> HIDE DEF S, n
  <2>1. ids \in Injection(1..n, S)
    BY <1>3 DEF Injection, IsInjective
  <2>2. Cardinality(1..n) = n /\ IsFiniteSet(1..n)
    BY <1>1, FS_Interval
  <2>3. ids \in Surjection(1..n, S)
    BY <1>1, <2>1, <2>2, FS_Injection DEF n
  <2> QED
    BY <2>3 DEF Surjection
<1>5. \A i \in 1..n : /\ pic[ids[i]] \in Row
                      /\ pic'[ids[i]] = [pic[ids[i]] EXCEPT !.ord = i * Gap]
  <2> SUFFICES ASSUME NEW i \in 1..n
               PROVE  /\ pic[ids[i]] \in Row
                      /\ pic'[ids[i]] =
                            [pic[ids[i]] EXCEPT !.ord = i * Gap]
    OBVIOUS
  <2>1. DOMAIN ids = 1..n
    BY <1>3
  <2>2. ids[i] \in ToSet(ids)
    BY <2>1 DEF ToSet
  <2>3. place(ids[i]) = i
    BY <1>3, <2>1
  <2>4. ids[i] \in Pic /\ pic[ids[i]] \in Row
    BY <1>3, RowsAre DEF In, LivePics
  <2> QED
    BY <2>2, <2>3, <2>4 DEF ReorderPhotos
<1>6. In(a)' = S
  <2>1. \A p \in Pic \ S : pic'[p] = pic[p]
    BY DEF ReorderPhotos, ExactSet
  <2>2. \A p \in S : /\ pic'[p] # None /\ pic'[p].live
                     /\ pic'[p].album = a
    <3> SUFFICES ASSUME NEW i \in 1..n
                 PROVE  LET p == ids[i]
                        IN  /\ pic'[p] # None /\ pic'[p].live
                            /\ pic'[p].album = a
      BY <1>4
    <3>1. /\ pic[ids[i]].live /\ pic[ids[i]].album = a
          /\ ids[i] \in Pic
      BY <1>3 DEF In, LivePics
    <3>2. i * Gap \in Ord
      <4>1. Len(ids) * Gap < Half /\ Half \in Nat
        BY AlbumAssumption DEF AlbumAssumption
      <4>2. \A j, m, g \in Nat : j <= m => j * g <= m * g
        OBVIOUS
      <4>3. i * Gap <= n * Gap /\ i * Gap \in Nat /\ n * Gap \in Nat
        BY <1>1, <1>2, <4>2
      <4> QED
        BY <1>3, <4>1, <4>3 DEF Ord
    <3>3. pic'[ids[i]] \in Row
      BY <1>5, <3>2 DEF Row
    <3> QED
      BY <1>5, <3>1, <3>3, NoRow DEF Row
  <2>3. S \subseteq Pic
    BY DEF In, LivePics
  <2> QED
    BY <2>1, <2>2, <2>3 DEF In, LivePics
<1>7. \A s \in [1..n -> S] :
         Sorts(s) <=>
           \A i, j \in 1..n : i < j => <<s[i], s[j]>> \in order
  BY DEF Before
<1>8. Sorts(ids)
  <2> SUFFICES ASSUME NEW i \in 1..n, NEW j \in 1..n, i < j
               PROVE  Before(ids[i], ids[j])'
    BY <1>3
  <2>1. pic'[ids[i]].ord = i * Gap /\ pic'[ids[j]].ord = j * Gap
    BY <1>5 DEF Row
  <2>2. \A k, m, g \in Nat : k < m /\ g # 0 => k * g < m * g
    <3> SUFFICES ASSUME NEW k \in Nat, NEW m \in Nat, NEW g \in Nat,
                        k < m, g # 0
                 PROVE  k * g < m * g
      OBVIOUS
    <3>1. (k + 1) * g <= m * g
      <4>1. \A x, y, z \in Nat : x <= y => x * z <= y * z
        OBVIOUS
      <4> QED
        BY <4>1
    <3>2. (k + 1) * g = k * g + g /\ k * g \in Nat /\ m * g \in Nat
      OBVIOUS
    <3> QED
      BY <3>1, <3>2
  <2>3. i * Gap < j * Gap
    BY <1>1, <1>2, <2>2
  <2> QED
    BY <2>1, <2>3 DEF Before
<1>9. \A x, y \in S : <<x, y>> \in order => <<y, x>> \notin order
  <2>1. \A x \in S : pic'[x].ord \in Int /\ x \in Nat
    <3>1. \A i \in 1..n : pic'[ids[i]].ord \in Int /\ ids[i] \in Nat
      <4> SUFFICES ASSUME NEW i \in 1..n
                   PROVE  pic'[ids[i]].ord \in Int /\ ids[i] \in Nat
        OBVIOUS
      <4>1. i \in Nat /\ i * Gap \in Int
        BY <1>1, <1>2
      <4>2. ids[i] \in Nat
        BY <1>2, <1>3 DEF In, LivePics
      <4> QED
        BY <1>5, <4>1, <4>2 DEF Row
    <3> QED
      BY <1>4, <3>1
  <2> QED
    BY <2>1
<1>10. \A s \in [1..n -> S] : Sorts(s) => s = ids
  <2> SUFFICES ASSUME NEW s \in [1..n -> S], Sorts(s)
               PROVE  s = ids
    OBVIOUS
  <2>1. /\ \A i, j \in 1..n : i < j => <<s[i], s[j]>> \in order
        /\ \A i, j \in 1..n : i < j => <<ids[i], ids[j]>> \in order
    BY <1>3, <1>7, <1>8
  <2> HIDE DEF S, n, order, Sorts
  <2> QED
    BY <1>1, <1>3, <1>9, <2>1, SortedOnce DEF n
<1>11. ShownOrder(a)' = CHOOSE s \in [1..n -> S] : Sorts(s)
  BY <1>6 DEF ShownOrder
<1> QED
  <2> HIDE DEF S, n, Sorts
  <2> QED
    BY <1>3, <1>8, <1>10, <1>11

\* store/photos.go:234: a reorder that succeeds leaves the node in exactly the
\* order asked for, whatever it held before, for any number of photos.
THEOREM AlbumReorderIsWhole == AlbumSpec => ReorderIsWhole
<1>1. AlbumInit => RowsFinite
  <2>1. AlbumInit => {p \in Pic : pic[p] # None} = {}
    BY DEF AlbumInit
  <2> QED
    BY <2>1, FS_EmptySet DEF RowsFinite
<1>2. AlbumInv /\ RowsFinite /\ [AlbumNext]_albumVars => RowsFinite'
  BY RowsStayFinite
<1>3. AlbumInv /\ RowsFinite /\ [AlbumNext]_albumVars
        => [(pic' # pic /\ req' = req) =>
              \A a \in Album, ids \in Lists :
                 ReorderPhotos(a, ids) => ShownOrder(a)' = ids]_albumVars
  BY ReorderShows DEF AlbumInv
<1> QED
  BY <1>1, <1>2, <1>3, AlbumInvariant, PTL DEF AlbumSpec, ReorderIsWhole
=============================================================================
