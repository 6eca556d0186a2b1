-------------------------- MODULE MCFullTextPaper --------------------------
EXTENDS FullTextPaper, TLC
CONSTANTS w1, w2, small, large, r1, r2
MCSize == small :> 1 @@ large :> 2
MCElsewhere == <<small, large>>
MCSymmetry == Permutations({w1, w2}) \cup Permutations({r1, r2})
=============================================================================
