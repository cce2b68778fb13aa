--------------------------- MODULE MCJustificatifs ---------------------------
(* The instances of Justificatifs that TLC checks. *)
EXTENDS Justificatifs, TLC

Symmetry == Permutations(Handlers) \cup Permutations(Files)
=============================================================================
