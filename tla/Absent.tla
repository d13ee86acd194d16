------------------------------- MODULE Absent -------------------------------
(* What stands where there is no row, request, cursor or result: one name   *)
(* for the modules of the library and of the importer.                      *)

CONSTANT None
=============================================================================
