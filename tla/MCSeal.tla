------------------------------- MODULE MCSeal -------------------------------
(* Instances of Seal for TLC: s1 signs, s2 may, s3 asks for no archive; m   *)
(* is a metadata document and e an evidence file.                           *)
EXTENDS Seal
CONSTANTS s1, s2, s3, z1, z2, m, e
SharedTarget == [s \in Sealers |-> IF s = s3 THEN NoZip ELSE z1]
OwnTarget == [s \in Sealers |-> IF s = s1 THEN z1 ELSE IF s = s2 THEN z2 ELSE NoZip]
=============================================================================
