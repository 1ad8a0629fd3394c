------------------------------ MODULE MCStartUp ------------------------------
(* Two ranks, and a communicator without rank 0. *)
EXTENDS StartUp

TheRanks == 0 .. 1
TheComms == {0 .. 1, {1}}
=============================================================================
