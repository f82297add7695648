---------------------------- MODULE MCOutputPlan ----------------------------
(***************************************************************************)
(* OutputPlan for TLC.  d/f is a file below d; n/x is a file in a namespace*)
(* of the engine; r is the name of a core document, r/y a path below it.   *)
(***************************************************************************)
EXTENDS OutputPlan
CONSTANTS d, df, n, nx, r, ry

MCAbove == [q \in OutputPaths |-> IF q = df THEN {d} ELSE IF q = nx THEN {n} ELSE IF q = ry THEN {r} ELSE {}]

MCClaims ==
  [path : OutputPaths, kind : {"file", "dir"}, by : {"pack"}, always : BOOLEAN]
    \cup [path : {n, nx}, kind : {"file"}, by : {"engine"}, always : {TRUE}]
    \cup [path : {r}, kind : {"core"}, by : {"engine"}, always : {TRUE}]
=============================================================================
