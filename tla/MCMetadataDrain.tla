--------------------------- MODULE MCMetadataDrain ---------------------------
(* Two workers, in two drains or in one.                                   *)
EXTENDS MetadataDrain, TLC

CONSTANTS w1, w2, d1, d2, j1, k1

MCBoth == [{w1, w2} -> {d1, d2}]
MCTwoDrains == {f \in MCBoth : f[w1] # f[w2]}
MCSymmetry == Permutations({w1, w2}) \cup Permutations({d1, d2})
MCClient == (Worker \X {"main", "beat"}) \cup Drain \cup {Intake}

(* Handlers write in the one drain only: what a worker writes is no matter *)
(* to a worker of another process.                                         *)
MCSpec ==
  DrainInit /\ [][ DrainNext /\ (layout \in MCTwoDrains =>
                     \A w \in Worker : work'[w].pc # "writing") ]_dvars

(* Left out of the fingerprints: what no action of a drain reads           *)
(* (updated_at, the events, the tokens granted) and created_at, which only *)
(* orders the rows of a table with one row.                                *)
MCRow(row) == [row EXCEPT !.created = 0, !.updated = 0]
MCView == <<now, [j \in Job |-> MCRow(jobs[j])], calls, own, layout>>
=============================================================================
