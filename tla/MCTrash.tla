------------------------------- MODULE MCTrash --------------------------------
(***************************************************************************)
(* Trash for TLC: two nodes, two photos with the same content, and two     *)
(* requests next to the GC.                                                *)
(***************************************************************************)
EXTENDS Trash, TLC

CONSTANTS p1, p2, n1, n2, r1, r2, s1, s2, gc

Interchangeable ==
    Permutations({p1, p2}) \cup Permutations({n1, n2})
        \cup Permutations({r1, r2})
=============================================================================
