--------------------------- MODULE MCCaptureTable ---------------------------
(* The capture table with two kinds of event that are interchangeable.      *)
EXTENDS CaptureTable, TLC

Symmetry == Permutations(Kinds)
=============================================================================
