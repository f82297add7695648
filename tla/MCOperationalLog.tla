-------------------------- MODULE MCOperationalLog --------------------------
(* Instances of OperationalLog for TLC. *)
EXTENDS OperationalLog
CONSTANTS r1, r2
=============================================================================
