---------------------------- MODULE MCEnrichItem ----------------------------
(* The handlers under the policy that only fills in what is empty.         *)
EXTENDS EnrichItem, TLC

CONSTANTS p1, p2
MCSymmetry == Permutations({p1, p2})
=============================================================================
