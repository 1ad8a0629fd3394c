------------------------- MODULE MCInjectionPoints --------------------------
(* Small instances of InjectionPoints. *)
EXTENDS InjectionPoints
=============================================================================
