---------------------------- MODULE MCDirectUpload ----------------------------
(***************************************************************************)
(* DirectUpload for TLC: two photos uploaded to one node, the first always *)
(* a picture, the second the same picture, a text or a file of another     *)
(* size than declared.                                                     *)
(***************************************************************************)
EXTENDS DirectUpload, TLC

CONSTANTS p1, p2, r1, r2, n1, pic, text, odd

MCNodeOf == p1 :> n1 @@ p2 :> n1

MCMayPut == p1 :> {pic} @@ p2 :> {pic, text, odd}

Requests == Permutations({r1, r2})
=============================================================================
