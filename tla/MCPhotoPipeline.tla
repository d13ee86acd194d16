--------------------------- MODULE MCPhotoPipeline ---------------------------
(***************************************************************************)
(* PhotoPipeline for TLC.  Two photos compete for a channel of one place;  *)
(* one content is an image, the other one never decodes.                   *)
(***************************************************************************)
EXTENDS PhotoPipeline, TLC

CONSTANTS p1, p2, good, bad

MCShaOf == p1 :> good @@ p2 :> bad
=============================================================================
