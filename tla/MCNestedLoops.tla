--------------------------- MODULE MCNestedLoops ----------------------------
(* A small instance of NestedLoops. *)
EXTENDS NestedLoops
=============================================================================
