------------------------------ MODULE MCToolLoop ------------------------------
(***************************************************************************)
(* For TLC: signatures are interchangeable, and so are outcomes.           *)
(***************************************************************************)
EXTENDS ToolLoop, TLC

Symmetry == Permutations(Signatures) \cup Permutations(Outcomes)
=============================================================================
