---------------------------- MODULE MCPointStream ----------------------------
(* Three ranks, and a communicator without rank 0. *)
EXTENDS PointStream

TheRanks == 0 .. 2
TheComms == {0 .. 2, 1 .. 2}
=============================================================================
