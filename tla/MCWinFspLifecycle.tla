------------------------- MODULE MCWinFspLifecycle -------------------------
(* Values for model checking WinFspLifecycle.                              *)
EXTENDS WinFspLifecycle

MCUpper == [p \in Points |-> IF p = "z:" THEN "Z:" ELSE p]
=============================================================================
