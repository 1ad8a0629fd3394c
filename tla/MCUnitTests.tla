----------------------------- MODULE MCUnitTests -----------------------------
(* Five unit tests on four ranks. *)
EXTENDS UnitTests

CONSTANTS large, trio, left, right, zero

\* One test is too large, one leaves a rank idle, two share the next batch, and
\* one asks for nobody.
TheCores ==
  [t \in {large, trio, left, right, zero} |->
     CASE t = large -> 5 [] t = trio -> 3 [] t = zero -> 0 [] OTHER -> 2]
=============================================================================
