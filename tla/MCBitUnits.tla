----------------------------- MODULE MCBitUnits -----------------------------
(* Two objects of up to five bits, in units of two. *)
EXTENDS BitUnits, TLC

CONSTANTS a, b
MCNames == {a, b}
MCSymmetry == Permutations(MCNames)
=============================================================================
