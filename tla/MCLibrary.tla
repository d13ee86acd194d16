----------------------------- MODULE MCLibrary ------------------------------
(***************************************************************************)
(* What owner and visitors do beside uploads and trash, for TLC: the       *)
(* timeline, the cached statistics, the letters, the photos of a node.     *)
(*                                                                         *)
(* The modules share no variable, so no interleaving of their steps shows  *)
(* more than each of them alone: `part` names the one that moves and the   *)
(* others rest in their initial state.  The timeline moves as two parts,   *)
(* three nodes with one patch at a time or two nodes with two patches.     *)
(***************************************************************************)
EXTENDS Timeline, StatsCache, Letters, Album, TLC

CONSTANTS x1, x2, w1, w2, w3, l1, r1, s1, s2

VARIABLE part

\* Photos 1 and 3 are the same picture.
MCShaOf == 1 :> s1 @@ 2 :> s2 @@ 3 :> s1

MCLists == {<<1, 2>>, <<2, 1>>, <<3>>, <<1, 1>>}

MCAskedOrd == {2}

vars == <<part, timelineVars, statsVars, lettersVars, albumVars>>

Init ==
    /\ part \in {"nodes", "patches", "stats", "letters", "album"}
    /\ TimelineInit /\ StatsInit /\ LettersInit /\ AlbumInit

NodesPart ==
    /\ part = "nodes"
    /\ TimelineNext
    /\ Cardinality({e \in Editor : patch'[e] # None}) <= 1
    /\ UNCHANGED <<part, statsVars, lettersVars, albumVars>>

PatchesPart ==
    /\ part = "patches"
    /\ TimelineNext
    /\ node'[3] = None
    /\ UNCHANGED <<part, statsVars, lettersVars, albumVars>>

StatsPart ==
    /\ part = "stats"
    /\ StatsNext
    /\ UNCHANGED <<part, timelineVars, lettersVars, albumVars>>

LettersPart ==
    /\ part = "letters"
    /\ LettersNext
    /\ UNCHANGED <<part, timelineVars, statsVars, albumVars>>

AlbumPart ==
    /\ part = "album"
    /\ AlbumNext
    /\ UNCHANGED <<part, timelineVars, statsVars, lettersVars>>

Next == NodesPart \/ PatchesPart \/ StatsPart \/ LettersPart \/ AlbumPart

Spec == Init /\ [][Next]_vars

\* The type invariant of each module, for the part that moves.
TypeOK ==
    /\ part \in {"nodes", "patches"} => TimelineTypeOK
    /\ part = "stats" => StatsTypeOK
    /\ part = "letters" => LettersTypeOK
    /\ part = "album" => AlbumTypeOK

\* Editors, readers, visitors, owners and nodes with photos go by the same two
\* names in their parts, which are swapped together.
Interchangeable == Permutations({x1, x2})
=============================================================================
