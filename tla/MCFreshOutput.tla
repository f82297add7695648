--------------------------- MODULE MCFreshOutput ---------------------------
(***************************************************************************)
(* Instances of FreshOutput for TLC.  e1 and e2 run export, a1 runs assess;*)
(* m is a required metadata file, p a planned file, x an unplanned one.    *)
(***************************************************************************)
EXTENDS FreshOutput
CONSTANTS e1, e2, a1, m, p, x
============================================================================
