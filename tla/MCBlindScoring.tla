--------------------------- MODULE MCBlindScoring ---------------------------
(* Small instances of BlindScoring.                                         *)
EXTENDS BlindScoring, TLC

CONSTANTS s1, s2

TwoSheets == {s1, s2}

\* No action tells one sheet from the other.
Symmetry == Permutations(TwoSheets)
=============================================================================
