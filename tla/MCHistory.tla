------------------------------ MODULE MCHistory ------------------------------
(* A small instance of History for TLC: three scans of overlapping targets   *)
(* and an audit.                                                             *)
EXTENDS History, TLC

CONSTANTS first, second, third, audit, a, b

MCTargetsOf == first :> {a, b} @@ second :> {b} @@ third :> {a} @@ audit :> {}
=============================================================================
