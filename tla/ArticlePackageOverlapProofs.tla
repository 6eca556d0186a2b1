-------------------- MODULE ArticlePackageOverlapProofs ---------------------
(***************************************************************************)
(* Proofs about article packages, second part: two calls that overlap, and *)
(* the theorems.                                                           *)
(*                                                                         *)
(* A step of x beside y keeps Both(x, y), the clauses in which each relies *)
(* on the other, and StayGone(x, y), that neither puts back a tree that is *)
(* replaced; there is a lemma of each kind for every action.  A third call *)
(* waits (OneTrouble), and the clauses are symmetric, so this is enough for*)
(* any number of calls: Overlap says whether one, two or none of them run. *)
(***************************************************************************)
EXTENDS ArticlePackageProofs

-----------------------------------------------------------------------------
(* What a step of one call beside another is computed from.                *)

\* What a step of x beside y is computed from.
Own(x, y) ==
  /\ pc[x] = "claimed" <=> claim[x] # NoTree
  /\ Unpublished(x) =>
       /\ x \notin {package, backup[x], backup[y], claim[x], claim[y],
                    local[y].owner}
       /\ pc[x] \notin Recovering \cup {"claimed", "stage"} => x \in whole
  /\ Unmoved(x) => backup[x] = NoTree
  /\ pc[x] \in {"idle", "list"} => local[x] = NoLocals
  /\ local[x].todo \subseteq Backup
  /\ x \notin local[x].todo /\ (y \in local[x].todo => ~Unmoved(y))
  /\ pc[x] \in {"recheck", "restore", "restored"} => Mine(x)
  /\ \/ pc[x] \in {"recheck", "restore", "restored"}
     \/ pc[x] \in {"claim", "claimed"} /\ Mine(x)
     => /\ local[x].pick \in Backup \ {x}
        /\ local[x].pick = y => ~Unmoved(y)
  /\ local[x].target \in Backup \cup {Package} /\ local[x].target # x
  /\ local[x].target = y => ~Unmoved(y)
  /\ pc[x] \in Verifying \cup {"tidied", "undoing", "torn"}
       => local[x].published
  /\ pc[x] \in {"own", "moveAway"} \cup Moved => ~local[x].published
  /\ pc[x] \in {"movedAway", "tidied", "putBack", "drop", "dropped"}
       => local[x].pick = x
  /\ pc[x] \in Promoting /\ local[x].pick = x => local[x].owner # NoTree
  /\ pc[x] = "moveAway" => local[x].owner # NoTree
  /\ pc[x] \in {"check", "choose", "recheck", "claim", "claimed", "moveAway"}
       \cup Promoting => local[x].owner # x

LeftApart(x, y) ==
  \A b \in Backup : b \notin {x, y} /\ backup[b] # NoTree =>
    backup[b] \notin {package, backup[x], backup[y], claim[x], claim[y]}

\* What is left of other calls is in the list of a recovery.
LeftListed(x, y) ==
  /\ pc[x] \in Recovering \cup {"claimed"} /\ pc[x] \notin {"idle", "list"}
  /\ ~NoneLeft(x, y)
  => \/ \E b \in local[x].todo : backup[b] \in whole /\ b \notin {x, y}
     \/ /\ pc[x] = "claim" /\ ~Mine(x) /\ local[x].target \in Backup
        /\ backup[local[x].target] \in whole

PairFacts(x, y) ==
  /\ x # y /\ x # NoTree /\ y # NoTree /\ NoTree \notin whole
  /\ x \in Backup /\ y \in Backup /\ Package \notin Backup
  /\ pc[x] \in Label \ {"dead"} /\ pc[y] \in Label \ {"dead"}
  /\ LeftWhole(x, y) /\ Gap(x, y) /\ TornPackage(x, y)
  /\ Beside(x, y) /\ Beside(y, x)
  /\ NoneLeft(y, x) <=> NoneLeft(x, y)
  /\ backup[x] # NoTree =>
       backup[x] \notin {package, backup[y], claim[x], claim[y]}
  /\ backup[y] # NoTree => backup[y] \notin {package, claim[x], claim[y]}
  /\ package # NoTree => package \notin {claim[x], claim[y]}
  /\ claim[x] # NoTree => claim[x] # claim[y]
  /\ Own(x, y) /\ Own(y, x) /\ LeftApart(x, y)
  /\ LeftListed(x, y) /\ LeftListed(y, x)

LEMMA Pair ==
  ASSUME PackageTypeOK, Structure,
         NEW x \in Writer, NEW y \in Writer \ {x}, Both(x, y)
  PROVE  PairFacts(x, y)
<1>1. /\ x # y /\ x # NoTree /\ y # NoTree /\ NoTree \notin whole
      /\ x \in Backup /\ y \in Backup /\ Package \notin Backup
      /\ pc[x] \in Label \ {"dead"} /\ pc[y] \in Label \ {"dead"}
  BY PackageAssumption DEF PackageTypeOK, Both, Tree, Backup
<1>2. NoneLeft(y, x) <=> NoneLeft(x, y)
  BY DEF NoneLeft
<1>3. OnePlace
  BY DEF Structure
<1>4. ASSUME NEW v \in {x, y}, NEW w \in {x, y} \ {v}
      PROVE  Own(v, w)
  <2>1. ClaimHeld(v) /\ Fresh(v) /\ BackupFree(v) /\ LocalsOK(v)
    BY DEF Structure
  <2>2. /\ v \in Writer /\ w \in Writer /\ v \in Backup /\ w \in Backup
        /\ local[v].target \in Backup \cup {Package}
        /\ local[v].todo \subseteq Backup
        /\ pc[v] # "dead"
    BY <1>1, Types DEF Locals
  <2>3. /\ pc[v] = "claimed" <=> claim[v] # NoTree
        /\ Unmoved(v) => backup[v] = NoTree
    BY <2>1, <2>2 DEF ClaimHeld, BackupFree
  <2>4. Unpublished(v) =>
          /\ v \notin {package, backup[v], backup[w], claim[v], claim[w],
                       local[w].owner}
          /\ pc[v] \notin Recovering \cup {"claimed", "stage"} => v \in whole
    BY <2>1, <2>2 DEF Fresh
  <2>5. /\ v \notin local[v].todo /\ (w \in local[v].todo => ~Unmoved(w))
        /\ local[v].target # v /\ (local[v].target = w => ~Unmoved(w))
    BY <2>1, <2>2, <1>1 DEF LocalsOK, Named
  <2>6. pc[v] \in {"idle", "list"} => local[v] = NoLocals
    BY <2>1 DEF LocalsOK
  <2>7. \/ pc[v] \in {"recheck", "restore", "restored"}
        \/ pc[v] \in {"claim", "claimed"} /\ Mine(v)
        => /\ local[v].pick \in Backup \ {v}
           /\ local[v].pick = w => ~Unmoved(w)
    BY <2>1, <2>2 DEF LocalsOK, Named, Mine
  <2>8. /\ pc[v] \in {"recheck", "restore", "restored"} => Mine(v)
        /\ pc[v] \in Verifying \cup {"tidied", "undoing", "torn"}
             => local[v].published
        /\ pc[v] \in {"own", "moveAway"} \cup Moved => ~local[v].published
        /\ pc[v] \in {"movedAway", "tidied", "putBack", "drop", "dropped"}
             => local[v].pick = v
        /\ pc[v] \in Promoting /\ local[v].pick = v => local[v].owner # NoTree
        /\ pc[v] = "moveAway" => local[v].owner # NoTree
        /\ pc[v] \in {"check", "choose", "recheck", "claim", "claimed",
             "moveAway"} \cup Promoting => local[v].owner # v
    BY <2>1 DEF LocalsOK, Mine
  <2> QED
    BY <2>2, <2>3, <2>4, <2>5, <2>6, <2>7, <2>8 DEF Own
<1>5. LeftApart(x, y)
  BY <1>1, <1>3 DEF LeftApart, OnePlace
<1>6. Own(x, y) /\ Own(y, x)
  BY <1>4
<1>7. LeftListed(x, y) /\ LeftListed(y, x)
  BY <1>1 DEF LeftListed, NoneLeft, Both, Beside, RecoveryBeside, Listed,
    LeftWhole, Mine
<1> QED
  BY <1>1, <1>2, <1>3, <1>5, <1>6, <1>7 DEF PairFacts, Both, OnePlace

-----------------------------------------------------------------------------
(* Two calls, step by step: each clause of Both, in both directions.       *)

LEMMA BothStart ==
  ASSUME PackageTypeOK, Structure,
         NEW x \in Writer, NEW y \in Writer \ {x}, Both(x, y), Start(x)
  PROVE  Both(x, y)'
<1>p. PairFacts(x, y)
  BY Pair
<1> USE DEF Recovering, Reading, Building, Moved, Verifying, Promoting, Off,
      Ended, Mine, Torn, Tearing, Late, Looking, Undoing, Keeps, PairFacts,
      Beside, BackupsBeside, RecoveryBeside, RemovalBeside, SweepBeside,
      PromotionBeside, RollbackBeside, StartEffect
<1>1. StartEffect(x)
  BY StartStep
<1>2. /\ NoneLeft(x, y)' <=> NoneLeft(x, y)
      /\ NoneLeft(y, x)' <=> NoneLeft(x, y)
  BY <1>p, <1>1 DEF NoneLeft
<1>3. LeftWhole(x, y)' /\ Gap(x, y)' /\ TornPackage(x, y)'
  BY <1>p, <1>1, <1>2 DEF Gap, LeftWhole, TornPackage, LeftApart
<1>4. BackupsBeside(x, y)' /\ BackupsBeside(y, x)'
  BY <1>p, <1>1, <1>2 DEF BackupOwner, EndedWhole, RollbackWhole, UndoBacked
<1>5. RecoveryBeside(x, y)' /\ RecoveryBeside(y, x)'
  BY <1>p, <1>1, <1>2 DEF Early, FoundTorn, Listed, ListedOther, OwnerSeen,
    OwnerWhole, RestoreBeside, RestoredGone, SeenStill, Own
<1>6. RemovalBeside(x, y)'
  BY <1>p, <1>1, <1>2 DEF CatchForeign, ClaimCatches, Claimed, Restored,
    Smooth, Own
<1>7. RemovalBeside(y, x)'
  BY <1>p, <1>1, <1>2 DEF CatchForeign, ClaimCatches, Claimed, Restored,
    Smooth, Own, Unpublished, Unmoved
<1>8. SweepBeside(x, y)' /\ SweepBeside(y, x)'
  BY <1>p, <1>1, <1>2 DEF SweepOther, SweepOwner, SweepSafe, Own, Reaching
<1>9. PromotionBeside(x, y)' /\ PromotionBeside(y, x)'
  BY <1>p, <1>1, <1>2 DEF MoveOwn, MovedBeside, MovedOther, MovedTorn,
    UndoBeside, Own, Unpublished, Unmoved
<1>10. RollbackBeside(x, y)' /\ RollbackBeside(y, x)'
  BY <1>p, <1>1, <1>2 DEF TearingOther, TornLeft, TornVictim, Own, Unpublished,
    Unmoved
<1> QED
  BY <1>p, <1>1, <1>3, <1>4, <1>5, <1>6, <1>7, <1>8, <1>9, <1>10 DEF Both

LEMMA BothListBackups ==
  ASSUME PackageTypeOK, Structure,
         NEW x \in Writer, NEW y \in Writer \ {x}, Both(x, y), ListBackups(x)
  PROVE  Both(x, y)'
<1>p. PairFacts(x, y)
  BY Pair
<1> USE DEF Recovering, Reading, Building, Moved, Verifying, Promoting, Off,
      Ended, Mine, Torn, Tearing, Late, Looking, Undoing, Keeps, PairFacts,
      Beside, BackupsBeside, RecoveryBeside, RemovalBeside, SweepBeside,
      PromotionBeside, RollbackBeside, ListBackupsEffect
<1>1. ListBackupsEffect(x)
  BY ListBackupsStep
<1>2. /\ \A b \in Backup : b \in Found <=> backup[b] # NoTree
      /\ y \in Found <=> backup[y] # NoTree
      /\ Found = {} => NoneLeft(x, y) /\ backup[y] = NoTree
  BY <1>p DEF Found, NoneLeft
<1>3. /\ NoneLeft(x, y)' <=> NoneLeft(x, y)
      /\ NoneLeft(y, x)' <=> NoneLeft(x, y)
  BY <1>p, <1>1 DEF NoneLeft
<1>4. LeftWhole(x, y)' /\ Gap(x, y)' /\ TornPackage(x, y)'
  BY <1>p, <1>1, <1>2, <1>3 DEF Gap, LeftWhole, TornPackage, LeftApart
<1>5. BackupsBeside(x, y)' /\ BackupsBeside(y, x)'
  BY <1>p, <1>1, <1>2, <1>3 DEF BackupOwner, EndedWhole, RollbackWhole,
    UndoBacked
<1>6. RecoveryBeside(x, y)'
  BY <1>p, <1>1, <1>2, <1>3 DEF Early, FoundTorn, Listed, ListedOther,
    MovedBeside, OwnerSeen, OwnerWhole, RestoreBeside, RestoredGone, SeenStill,
    Smooth, Own
<1>7. RecoveryBeside(y, x)'
  BY <1>p, <1>1, <1>2, <1>3 DEF Early, FoundTorn, Listed, ListedOther,
    OwnerSeen, OwnerWhole, RestoreBeside, RestoredGone, SeenStill, Own
<1>8. RemovalBeside(x, y)'
  BY <1>p, <1>1, <1>2, <1>3 DEF CatchForeign, ClaimCatches, Claimed, Restored,
    Smooth, Own
<1>9. RemovalBeside(y, x)'
  BY <1>p, <1>1, <1>2, <1>3 DEF CatchForeign, ClaimCatches, Claimed, Restored,
    Smooth, Own, Unpublished, Unmoved
<1>10. SweepBeside(x, y)' /\ SweepBeside(y, x)'
  BY <1>p, <1>1, <1>2, <1>3 DEF SweepOther, SweepOwner, SweepSafe, Own,
    Reaching
<1>11. PromotionBeside(x, y)' /\ PromotionBeside(y, x)'
  BY <1>p, <1>1, <1>2, <1>3 DEF MoveOwn, MovedBeside, MovedOther, MovedTorn,
    UndoBeside, Own, Unpublished, Unmoved
<1>12. RollbackBeside(x, y)' /\ RollbackBeside(y, x)'
  BY <1>p, <1>1, <1>2, <1>3 DEF TearingOther, TornLeft, TornPackage,
    TornVictim, UndoBacked, Own, Unpublished, Unmoved
<1> QED
  BY <1>p, <1>1, <1>4, <1>5, <1>6, <1>7, <1>8, <1>9, <1>10, <1>11, <1>12 DEF
    Both

LEMMA BothSeePackage ==
  ASSUME PackageTypeOK, Structure,
         NEW x \in Writer, NEW y \in Writer \ {x}, Both(x, y), SeePackage(x)
  PROVE  Both(x, y)'
<1>p. PairFacts(x, y)
  BY Pair
<1> USE DEF Recovering, Reading, Building, Moved, Verifying, Promoting, Off,
      Ended, Mine, Torn, Tearing, Late, Looking, Undoing, Keeps, PairFacts,
      Beside, BackupsBeside, RecoveryBeside, RemovalBeside, SweepBeside,
      PromotionBeside, RollbackBeside, SeePackageEffect
<1>1. SeePackageEffect(x)
  BY SeePackageStep
<1>2. /\ NoneLeft(x, y)' <=> NoneLeft(x, y)
      /\ NoneLeft(y, x)' <=> NoneLeft(x, y)
  BY <1>p, <1>1 DEF NoneLeft
<1>3. LeftWhole(x, y)' /\ Gap(x, y)' /\ TornPackage(x, y)'
  BY <1>p, <1>1, <1>2 DEF Gap, LeftWhole, TornPackage, LeftApart
<1>4. BackupsBeside(x, y)' /\ BackupsBeside(y, x)'
  BY <1>p, <1>1, <1>2 DEF BackupOwner, EndedWhole, RollbackWhole, UndoBacked
<1>5. RecoveryBeside(x, y)'
  BY <1>p, <1>1, <1>2 DEF Early, FoundTorn, Listed, ListedOther, OwnerSeen,
    OwnerWhole, RestoreBeside, RestoredGone, SeenStill, Own
<1>6. RecoveryBeside(y, x)'
  BY <1>p, <1>1, <1>2 DEF Early, FoundTorn, Listed, ListedOther, OwnerSeen,
    OwnerWhole, RestoreBeside, RestoredGone, SeenStill, Own
<1>7. RemovalBeside(x, y)'
  BY <1>p, <1>1, <1>2 DEF CatchForeign, ClaimCatches, Claimed, Restored,
    Smooth, Own
<1>8. RemovalBeside(y, x)'
  BY <1>p, <1>1, <1>2 DEF CatchForeign, ClaimCatches, Claimed, Restored,
    Smooth, Own, Unpublished, Unmoved
<1>9. SweepBeside(x, y)' /\ SweepBeside(y, x)'
  BY <1>p, <1>1, <1>2 DEF SweepOther, SweepOwner, SweepSafe, Own, Reaching
<1>10. PromotionBeside(x, y)' /\ PromotionBeside(y, x)'
  BY <1>p, <1>1, <1>2 DEF MoveOwn, MovedBeside, MovedOther, MovedTorn,
    UndoBeside, Own, Unpublished, Unmoved
<1>11. RollbackBeside(x, y)' /\ RollbackBeside(y, x)'
  BY <1>p, <1>1, <1>2 DEF TearingOther, TornLeft, TornVictim, Own, Unpublished,
    Unmoved
<1> QED
  BY <1>p, <1>1, <1>3, <1>4, <1>5, <1>6, <1>7, <1>8, <1>9, <1>10, <1>11 DEF
    Both

LEMMA BothNoteOwner ==
  ASSUME PackageTypeOK, Structure,
         NEW x \in Writer, NEW y \in Writer \ {x}, Both(x, y), NoteOwner(x)
  PROVE  Both(x, y)'
<1>p. PairFacts(x, y)
  BY Pair
<1> USE DEF Recovering, Reading, Building, Moved, Verifying, Promoting, Off,
      Ended, Mine, Torn, Tearing, Late, Looking, Undoing, Keeps, PairFacts,
      Beside, BackupsBeside, RecoveryBeside, RemovalBeside, SweepBeside,
      PromotionBeside, RollbackBeside, NoteOwnerEffect
<1>1. NoteOwnerEffect(x)
  BY NoteOwnerStep
<1>2. /\ NoneLeft(x, y)' <=> NoneLeft(x, y)
      /\ NoneLeft(y, x)' <=> NoneLeft(x, y)
  BY <1>p, <1>1 DEF NoneLeft
<1>3. LeftWhole(x, y)' /\ Gap(x, y)' /\ TornPackage(x, y)'
  BY <1>p, <1>1, <1>2 DEF Gap, LeftWhole, TornPackage, LeftApart
<1>4. BackupsBeside(x, y)' /\ BackupsBeside(y, x)'
  BY <1>p, <1>1, <1>2 DEF BackupOwner, EndedWhole, RollbackWhole, UndoBacked,
    Own, Unpublished, Unmoved
<1>5. RecoveryBeside(x, y)' /\ RecoveryBeside(y, x)'
  BY <1>p, <1>1, <1>2 DEF Early, FoundTorn, Listed, ListedOther, OwnerSeen,
    OwnerWhole, RestoreBeside, RestoredGone, SeenStill, Own
<1>6. RemovalBeside(x, y)'
  BY <1>p, <1>1, <1>2 DEF CatchForeign, ClaimCatches, Claimed, Restored,
    Smooth, Own
<1>7. RemovalBeside(y, x)'
  BY <1>p, <1>1, <1>2 DEF CatchForeign, ClaimCatches, Claimed, Restored,
    Smooth, Own, Unpublished, Unmoved
<1>8. SweepBeside(x, y)' /\ SweepBeside(y, x)'
  BY <1>p, <1>1, <1>2 DEF SweepOther, SweepOwner, SweepSafe, Own, Reaching
<1>9. PromotionBeside(x, y)' /\ PromotionBeside(y, x)'
  BY <1>p, <1>1, <1>2 DEF MoveOwn, MovedBeside, MovedOther, MovedTorn,
    UndoBeside, Own, Unpublished, Unmoved
<1>10. RollbackBeside(x, y)' /\ RollbackBeside(y, x)'
  BY <1>p, <1>1, <1>2 DEF TearingOther, TornLeft, TornVictim, Own, Unpublished,
    Unmoved
<1> QED
  BY <1>p, <1>1, <1>3, <1>4, <1>5, <1>6, <1>7, <1>8, <1>9, <1>10 DEF Both

LEMMA BothCheckPackage ==
  ASSUME PackageTypeOK, Structure,
         NEW x \in Writer, NEW y \in Writer \ {x}, Both(x, y), CheckPackage(x)
  PROVE  Both(x, y)'
<1>p. PairFacts(x, y)
  BY Pair
<1> USE DEF Recovering, Reading, Building, Moved, Verifying, Promoting, Off,
      Ended, Mine, Torn, Tearing, Late, Looking, Undoing, Keeps, PairFacts,
      Beside, BackupsBeside, RecoveryBeside, RemovalBeside, SweepBeside,
      PromotionBeside, RollbackBeside, CheckPackageEffect
<1>1. CheckPackageEffect(x)
  BY CheckPackageStep
<1>2. /\ NoneLeft(x, y)' <=> NoneLeft(x, y)
      /\ NoneLeft(y, x)' <=> NoneLeft(x, y)
  BY <1>p, <1>1 DEF NoneLeft
<1>3. LeftWhole(x, y)' /\ Gap(x, y)' /\ TornPackage(x, y)'
  BY <1>p, <1>1, <1>2 DEF Gap, LeftWhole, TornPackage, LeftApart
<1>4. BackupsBeside(x, y)' /\ BackupsBeside(y, x)'
  BY <1>p, <1>1, <1>2 DEF BackupOwner, EndedWhole, RollbackWhole, UndoBacked
<1>5. RecoveryBeside(x, y)' /\ RecoveryBeside(y, x)'
  BY <1>p, <1>1, <1>2 DEF Early, FoundTorn, Listed, ListedOther, OwnerSeen,
    OwnerWhole, RestoreBeside, RestoredGone, SeenStill, Own, TornLeft
<1>6. RemovalBeside(x, y)'
  BY <1>p, <1>1, <1>2 DEF CatchForeign, ClaimCatches, Claimed, Restored,
    Smooth, Own
<1>7. RemovalBeside(y, x)'
  BY <1>p, <1>1, <1>2 DEF CatchForeign, ClaimCatches, Claimed, Restored,
    Smooth, Own, Unpublished, Unmoved
<1>8. SweepBeside(x, y)' /\ SweepBeside(y, x)'
  BY <1>p, <1>1, <1>2 DEF ListedOther, SweepOther, SweepOwner, SweepSafe, Own,
    Reaching
<1>9. PromotionBeside(x, y)' /\ PromotionBeside(y, x)'
  BY <1>p, <1>1, <1>2 DEF MoveOwn, MovedBeside, MovedOther, MovedTorn,
    UndoBeside, Own, Unpublished, Unmoved
<1>10. RollbackBeside(x, y)' /\ RollbackBeside(y, x)'
  BY <1>p, <1>1, <1>2 DEF TearingOther, TornLeft, TornVictim, Own, Unpublished,
    Unmoved
<1> QED
  BY <1>p, <1>1, <1>3, <1>4, <1>5, <1>6, <1>7, <1>8, <1>9, <1>10 DEF Both

LEMMA BothChooseBackup ==
  ASSUME PackageTypeOK, Structure,
         NEW x \in Writer, NEW y \in Writer \ {x}, Both(x, y), ChooseBackup(x)
  PROVE  Both(x, y)'
<1>p. PairFacts(x, y)
  BY Pair
<1> USE DEF Recovering, Reading, Building, Moved, Verifying, Promoting, Off,
      Ended, Mine, Torn, Tearing, Late, Looking, Undoing, Keeps, PairFacts,
      Beside, BackupsBeside, RecoveryBeside, RemovalBeside, SweepBeside,
      PromotionBeside, RollbackBeside, ChooseNoneEffect, ChooseEffect
<1>1. CASE pc'[x] = "stage"
  <2>1. ChooseNoneEffect(x)
    BY <1>1, ChooseNoneStep
  <2>2. NoneLeft(x, y)
    BY <1>p, <2>1 DEF LeftListed
  <2>3. /\ NoneLeft(x, y)' <=> NoneLeft(x, y)
        /\ NoneLeft(y, x)' <=> NoneLeft(x, y)
    BY <1>p, <2>1 DEF NoneLeft
  <2>4. LeftWhole(x, y)' /\ Gap(x, y)' /\ TornPackage(x, y)'
    BY <1>p, <2>1, <2>2, <2>3 DEF Gap, LeftWhole, TornPackage, LeftApart
  <2>5. BackupsBeside(x, y)' /\ BackupsBeside(y, x)'
    BY <1>p, <2>1, <2>2, <2>3 DEF BackupOwner, EndedWhole, RollbackWhole,
      UndoBacked
  <2>6. RecoveryBeside(x, y)' /\ RecoveryBeside(y, x)'
    BY <1>p, <2>1, <2>2, <2>3 DEF Early, FoundTorn, Listed, ListedOther,
      OwnerSeen, OwnerWhole, RestoreBeside, RestoredGone, SeenStill, Own,
      LeftWhole
  <2>7. RemovalBeside(x, y)'
    BY <1>p, <2>1, <2>2, <2>3 DEF CatchForeign, ClaimCatches, Claimed,
      Restored, Smooth, Own
  <2>8. RemovalBeside(y, x)'
    BY <1>p, <2>1, <2>2, <2>3 DEF CatchForeign, ClaimCatches, Claimed,
      LeftWhole, Listed, Restored, Smooth, Own, Unpublished, Unmoved
  <2>9. SweepBeside(x, y)' /\ SweepBeside(y, x)'
    BY <1>p, <2>1, <2>2, <2>3 DEF SweepOther, SweepOwner, SweepSafe, Own,
      Reaching
  <2>10. PromotionBeside(x, y)' /\ PromotionBeside(y, x)'
    BY <1>p, <2>1, <2>2, <2>3 DEF MoveOwn, MovedBeside, MovedOther, MovedTorn,
      UndoBeside, Own, Unpublished, Unmoved
  <2>11. RollbackBeside(x, y)' /\ RollbackBeside(y, x)'
    BY <1>p, <2>1, <2>2, <2>3 DEF LeftWhole, Listed, TearingOther, TornLeft,
      TornPackage, TornVictim, Smooth, UndoBacked, Own, Unpublished, Unmoved
  <2> QED
    BY <1>p, <2>1, <2>4, <2>5, <2>6, <2>7, <2>8, <2>9, <2>10, <2>11 DEF Both
<1>2. CASE pc'[x] # "stage"
  <2>1. ChooseEffect(x)
    BY <1>2, ChooseStep
  <2>2. /\ NoneLeft(x, y) => local'[x].pick = y
        /\ local'[x].pick \in Backup \ {x}
    BY <1>p, <2>1 DEF Own, NoneLeft
  <2>3. /\ NoneLeft(x, y)' <=> NoneLeft(x, y)
        /\ NoneLeft(y, x)' <=> NoneLeft(x, y)
    BY <1>p, <2>1 DEF NoneLeft
  <2>4. LeftWhole(x, y)' /\ Gap(x, y)' /\ TornPackage(x, y)'
    BY <1>p, <2>1, <2>2, <2>3 DEF Gap, LeftWhole, TornPackage, Own,
      Unpublished, Unmoved, LeftApart
  <2>5. BackupsBeside(x, y)' /\ BackupsBeside(y, x)'
    BY <1>p, <2>1, <2>2, <2>3 DEF BackupOwner, EndedWhole, RollbackWhole,
      UndoBacked
  <2>6. RecoveryBeside(x, y)'
    BY <1>p, <2>1, <2>2, <2>3 DEF Early, FoundTorn, Listed, ListedOther,
      OwnerSeen, OwnerWhole, RestoreBeside, RestoredGone, SeenStill, Smooth,
      Own, Unpublished, Unmoved
  <2>7. RecoveryBeside(y, x)'
    BY <1>p, <2>1, <2>2, <2>3 DEF Early, FoundTorn, Listed, ListedOther,
      OwnerSeen, OwnerWhole, RestoreBeside, RestoredGone, SeenStill, Own,
      Unpublished, Unmoved
  <2>8. RemovalBeside(x, y)'
    BY <1>p, <2>1, <2>2, <2>3 DEF CatchForeign, ClaimCatches, Claimed,
      Restored, Smooth, Own, Unpublished, Unmoved
  <2>9. RemovalBeside(y, x)'
    BY <1>p, <2>1, <2>2, <2>3 DEF CatchForeign, ClaimCatches, Claimed,
      Restored, Smooth, Own, Unpublished, Unmoved
  <2>10. SweepBeside(x, y)' /\ SweepBeside(y, x)'
    BY <1>p, <2>1, <2>2, <2>3 DEF SweepOther, SweepOwner, SweepSafe, Own,
      Reaching, Unpublished, Unmoved
  <2>11. PromotionBeside(x, y)' /\ PromotionBeside(y, x)'
    BY <1>p, <2>1, <2>2, <2>3 DEF MoveOwn, MovedBeside, MovedOther, MovedTorn,
      UndoBeside, Own, Unpublished, Unmoved, Smooth
  <2>12. RollbackBeside(x, y)' /\ RollbackBeside(y, x)'
    BY <1>p, <2>1, <2>2, <2>3 DEF TearingOther, TornLeft, TornVictim, Smooth,
      Own, Unpublished, Unmoved
  <2> QED
    BY <1>p, <2>1, <2>4, <2>5, <2>6, <2>7, <2>8, <2>9, <2>10, <2>11, <2>12 DEF
      Both
<1> QED
  BY <1>1, <1>2

LEMMA BothRecheck ==
  ASSUME PackageTypeOK, Structure,
         NEW x \in Writer, NEW y \in Writer \ {x}, Both(x, y), Recheck(x)
  PROVE  Both(x, y)'
<1>p. PairFacts(x, y)
  BY Pair
<1> USE DEF Recovering, Reading, Building, Moved, Verifying, Promoting, Off,
      Ended, Mine, Torn, Tearing, Late, Looking, Undoing, Keeps, PairFacts,
      Beside, BackupsBeside, RecoveryBeside, RemovalBeside, SweepBeside,
      PromotionBeside, RollbackBeside, RecheckNoEffect, RecheckGoneEffect,
      RecheckYesEffect
<1>1. CASE ~PackageSame(x)
  <2>1. RecheckNoEffect(x)
    BY <1>1, RecheckNoStep
  <2>2. /\ NoneLeft(x, y)' <=> NoneLeft(x, y)
        /\ NoneLeft(y, x)' <=> NoneLeft(x, y)
    BY <1>p, <2>1 DEF NoneLeft
  <2>3. LeftWhole(x, y)' /\ Gap(x, y)' /\ TornPackage(x, y)'
    BY <1>p, <2>1, <2>2 DEF Gap, LeftWhole, TornPackage, LeftListed, Reaching,
      LeftApart
  <2>4. BackupsBeside(x, y)' /\ BackupsBeside(y, x)'
    BY <1>p, <2>1, <2>2 DEF BackupOwner, EndedWhole, RollbackWhole, UndoBacked,
      LeftListed, Reaching
  <2>5. RecoveryBeside(x, y)' /\ RecoveryBeside(y, x)'
    BY <1>p, <2>1, <2>2 DEF Early, FoundTorn, Listed, ListedOther, OwnerSeen,
      OwnerWhole, RestoreBeside, RestoredGone, SeenStill, Own, LeftListed,
      Reaching
  <2>6. RemovalBeside(x, y)'
    BY <1>p, <2>1, <2>2 DEF CatchForeign, ClaimCatches, Claimed, Restored,
      Smooth, Own, LeftListed, Reaching
  <2>7. RemovalBeside(y, x)'
    BY <1>p, <2>1, <2>2 DEF CatchForeign, ClaimCatches, Claimed, Restored,
      SeenStill, Smooth, Own, Unpublished, Unmoved, LeftListed, Reaching
  <2>8. SweepBeside(x, y)' /\ SweepBeside(y, x)'
    BY <1>p, <2>1, <2>2 DEF SweepOther, SweepOwner, SweepSafe, Own, Reaching,
      LeftListed
  <2>9. PromotionBeside(x, y)' /\ PromotionBeside(y, x)'
    BY <1>p, <2>1, <2>2 DEF MoveOwn, MovedBeside, MovedOther, MovedTorn,
      UndoBeside, LeftListed, Reaching, Own, Unpublished, Unmoved
  <2>10. RollbackBeside(x, y)' /\ RollbackBeside(y, x)'
    BY <1>p, <2>1, <2>2 DEF Listed, SeenStill, SweepSafe, TearingOther,
      TornLeft, TornPackage, TornVictim, Reaching, LeftListed, Smooth,
      UndoBacked, Own, Unpublished, Unmoved
  <2> QED
    BY <1>p, <2>1, <2>3, <2>4, <2>5, <2>6, <2>7, <2>8, <2>9, <2>10 DEF Both
<1>2. CASE PackageSame(x) /\ backup[local[x].pick] = NoTree
  <2>1. RecheckGoneEffect(x)
    BY <1>2, RecheckGoneStep
  <2>2. /\ NoneLeft(x, y)' <=> NoneLeft(x, y)
        /\ NoneLeft(y, x)' <=> NoneLeft(x, y)
    BY <1>p, <2>1 DEF NoneLeft
  <2>3. LeftWhole(x, y)' /\ Gap(x, y)' /\ TornPackage(x, y)'
    BY <1>p, <2>1, <2>2 DEF Gap, LeftWhole, TornPackage, LeftApart
  <2>4. BackupsBeside(x, y)' /\ BackupsBeside(y, x)'
    BY <1>p, <2>1, <2>2 DEF BackupOwner, EndedWhole, RollbackWhole, UndoBacked
  <2>5. RecoveryBeside(x, y)' /\ RecoveryBeside(y, x)'
    BY <1>p, <2>1, <2>2 DEF Early, FoundTorn, Listed, ListedOther, OwnerSeen,
      OwnerWhole, RestoreBeside, RestoredGone, SeenStill, Own
  <2>6. RemovalBeside(x, y)'
    BY <1>p, <2>1, <2>2 DEF CatchForeign, ClaimCatches, Claimed, Restored,
      Smooth, Own
  <2>7. RemovalBeside(y, x)'
    BY <1>p, <2>1, <2>2 DEF CatchForeign, ClaimCatches, Claimed, Restored,
      Smooth, Own, Unpublished, Unmoved
  <2>8. SweepBeside(x, y)' /\ SweepBeside(y, x)'
    BY <1>p, <2>1, <2>2 DEF SweepOther, SweepOwner, SweepSafe, Own, Reaching
  <2>9. PromotionBeside(x, y)' /\ PromotionBeside(y, x)'
    BY <1>p, <2>1, <2>2 DEF MoveOwn, MovedBeside, MovedOther, MovedTorn,
      UndoBeside, Own, Unpublished, Unmoved
  <2>10. RollbackBeside(x, y)' /\ RollbackBeside(y, x)'
    BY <1>p, <2>1, <2>2 DEF TearingOther, TornLeft, TornVictim, Own,
      Unpublished, Unmoved
  <2> QED
    BY <1>p, <2>1, <2>3, <2>4, <2>5, <2>6, <2>7, <2>8, <2>9, <2>10 DEF Both
<1>3. CASE PackageSame(x) /\ backup[local[x].pick] # NoTree
  <2>1. RecheckYesEffect(x)
    BY <1>3, RecheckYesStep
  <2>2. /\ NoneLeft(x, y)' <=> NoneLeft(x, y)
        /\ NoneLeft(y, x)' <=> NoneLeft(x, y)
    BY <1>p, <2>1 DEF NoneLeft
  <2>3. LeftWhole(x, y)' /\ Gap(x, y)' /\ TornPackage(x, y)'
    BY <1>p, <2>1, <2>2 DEF Gap, LeftWhole, TornPackage, LeftApart
  <2>4. BackupsBeside(x, y)' /\ BackupsBeside(y, x)'
    BY <1>p, <2>1, <2>2 DEF BackupOwner, EndedWhole, RollbackWhole, UndoBacked
  <2>5. RecoveryBeside(x, y)'
    BY <1>p, <2>1, <2>2 DEF Early, FoundTorn, Listed, ListedOther, OwnerSeen,
      OwnerWhole, RestoreBeside, RestoredGone, SeenStill, Smooth, TornPackage,
      Own, Unpublished, Unmoved
  <2>6. RecoveryBeside(y, x)'
    BY <1>p, <2>1, <2>2 DEF Early, FoundTorn, Listed, ListedOther, OwnerSeen,
      OwnerWhole, RestoreBeside, RestoredGone, SeenStill, TornLeft, Own
  <2>7. RemovalBeside(x, y)'
    <3>1. Smooth(x, y)'
      BY <1>p, <2>1, <2>2 DEF Smooth
    <3>2. Claimed(x, y)'
      BY <1>p, <2>1, <2>2 DEF Claimed
    <3>3. Restored(x, y)'
      BY <1>p, <2>1, <2>2 DEF Restored
    <3>4. ClaimCatches(x, y)'
      BY <1>p, <2>1, <2>2 DEF ClaimCatches, Early, FoundTorn, OwnerSeen,
        Smooth, TornLeft, TornPackage, UndoBacked, Own, Unpublished, Unmoved
    <3>5. CatchForeign(x, y)'
      BY <1>p, <2>1, <2>2 DEF CatchForeign, FoundTorn
    <3> QED
      BY <3>1, <3>2, <3>3, <3>4, <3>5
  <2>8. RemovalBeside(y, x)'
    <3>1. Smooth(y, x)'
      BY <1>p, <2>1, <2>2 DEF Smooth, Own, Unpublished, Unmoved
    <3>2. Claimed(y, x)'
      BY <1>p, <2>1, <2>2 DEF Claimed, Own, Unpublished, Unmoved
    <3>3. Restored(y, x)'
      BY <1>p, <2>1, <2>2 DEF Restored
    <3>4. ClaimCatches(y, x)'
      BY <1>p, <2>1, <2>2 DEF ClaimCatches, OwnerSeen, Own, Unpublished,
        Unmoved
    <3>5. CatchForeign(y, x)'
      BY <1>p, <2>1, <2>2 DEF CatchForeign
    <3> QED
      BY <3>1, <3>2, <3>3, <3>4, <3>5
  <2>9. SweepBeside(x, y)' /\ SweepBeside(y, x)'
    BY <1>p, <2>1, <2>2 DEF SweepOther, SweepOwner, SweepSafe, Own, Reaching
  <2>10. PromotionBeside(x, y)' /\ PromotionBeside(y, x)'
    BY <1>p, <2>1, <2>2 DEF MoveOwn, MovedBeside, MovedOther, MovedTorn,
      UndoBeside, Own, Unpublished, Unmoved
  <2>11. RollbackBeside(x, y)' /\ RollbackBeside(y, x)'
    BY <1>p, <2>1, <2>2 DEF TearingOther, TornLeft, TornVictim, Own,
      Unpublished, Unmoved
  <2> QED
    BY <1>p, <2>1, <2>3, <2>4, <2>5, <2>6, <2>7, <2>8, <2>9, <2>10, <2>11 DEF
      Both
<1> QED
  BY <1>1, <1>2, <1>3

LEMMA BothRestoreBackup ==
  ASSUME PackageTypeOK, Structure,
         NEW x \in Writer, NEW y \in Writer \ {x}, Both(x, y), RestoreBackup(x)
  PROVE  Both(x, y)'
<1>p. PairFacts(x, y)
  BY Pair
<1> USE DEF Recovering, Reading, Building, Moved, Verifying, Promoting, Off,
      Ended, Mine, Torn, Tearing, Late, Looking, Undoing, Keeps, PairFacts,
      Beside, BackupsBeside, RecoveryBeside, RemovalBeside, SweepBeside,
      PromotionBeside, RollbackBeside, RestoreYesEffect, RestoreNoEffect
<1>1. CASE package = NoTree /\ backup[local[x].pick] # NoTree
  <2>1. RestoreYesEffect(x)
    BY <1>1, RestoreYesStep
  <2>2. /\ NoneLeft(x, y) => NoneLeft(x, y)'
        /\ NoneLeft(y, x)' <=> NoneLeft(x, y)'
        /\ local[x].pick # y => ~NoneLeft(x, y)
        /\ local[x].pick = y => (NoneLeft(x, y)' <=> NoneLeft(x, y))
        /\ local[x].pick \in Backup \ {x}
    BY <1>p, <2>1 DEF NoneLeft, Own
  <2>3. LeftWhole(x, y)' /\ Gap(x, y)' /\ TornPackage(x, y)'
    BY <1>p, <2>1, <2>2 DEF Gap, LeftWhole, TornPackage, Own, Unpublished,
      Unmoved, LeftApart
  <2>4. BackupsBeside(x, y)' /\ BackupsBeside(y, x)'
    BY <1>p, <2>1, <2>2 DEF BackupOwner, EndedWhole, RollbackWhole, UndoBacked,
      LeftWhole, Smooth, Own, Unpublished, Unmoved
  <2>5. RecoveryBeside(x, y)'
    BY <1>p, <2>1, <2>2 DEF Early, FoundTorn, Listed, ListedOther, OwnerSeen,
      OwnerWhole, RestoreBeside, RestoredGone, SeenStill, Own, Unpublished,
      Unmoved
  <2>6. RecoveryBeside(y, x)'
    BY <1>p, <2>1, <2>2 DEF Early, FoundTorn, Listed, ListedOther, OwnerSeen,
      OwnerWhole, RestoreBeside, RestoredGone, SeenStill, Own
  <2>7. RemovalBeside(x, y)'
    BY <1>p, <2>1, <2>2 DEF CatchForeign, ClaimCatches, Claimed, Restored,
      Smooth, Own
  <2>8. RemovalBeside(y, x)'
    <3>1. Smooth(y, x)'
      BY <1>p, <2>1, <2>2 DEF Smooth, Own, Unpublished, Unmoved
    <3>2. Claimed(y, x)'
      BY <1>p, <2>1, <2>2 DEF Claimed, Own, Unpublished, Unmoved
    <3>3. Restored(y, x)'
      BY <1>p, <2>1, <2>2 DEF Restored
    <3>4. ClaimCatches(y, x)'
      BY <1>p, <2>1, <2>2 DEF CatchForeign, ClaimCatches, LeftWhole, Own,
        Unpublished, Unmoved
    <3>5. CatchForeign(y, x)'
      BY <1>p, <2>1, <2>2 DEF CatchForeign
    <3> QED
      BY <3>1, <3>2, <3>3, <3>4, <3>5
  <2>9. SweepBeside(x, y)' /\ SweepBeside(y, x)'
    BY <1>p, <2>1, <2>2 DEF SweepOther, SweepOwner, SweepSafe, Own, Reaching
  <2>10. PromotionBeside(x, y)' /\ PromotionBeside(y, x)'
    BY <1>p, <2>1, <2>2 DEF MoveOwn, MovedBeside, MovedOther, MovedTorn,
      UndoBeside, Own, Unpublished, Unmoved, Smooth
  <2>11. RollbackBeside(x, y)' /\ RollbackBeside(y, x)'
    BY <1>p, <2>1, <2>2 DEF LeftWhole, MovedTorn, Smooth, TearingOther,
      TornLeft, TornVictim, Own, Unpublished, Unmoved
  <2> QED
    BY <1>p, <2>1, <2>3, <2>4, <2>5, <2>6, <2>7, <2>8, <2>9, <2>10, <2>11 DEF
      Both
<1>2. CASE ~(package = NoTree /\ backup[local[x].pick] # NoTree)
  <2>1. RestoreNoEffect(x)
    BY <1>2, RestoreNoStep
  <2>2. /\ NoneLeft(x, y)' <=> NoneLeft(x, y)
        /\ NoneLeft(y, x)' <=> NoneLeft(x, y)
    BY <1>p, <2>1 DEF NoneLeft
  <2>3. LeftWhole(x, y)' /\ Gap(x, y)' /\ TornPackage(x, y)'
    BY <1>p, <2>1, <2>2 DEF Gap, LeftWhole, TornPackage, LeftApart
  <2>4. BackupsBeside(x, y)' /\ BackupsBeside(y, x)'
    BY <1>p, <2>1, <2>2 DEF BackupOwner, EndedWhole, RollbackWhole, UndoBacked,
      Own, Unpublished, Unmoved
  <2>5. RecoveryBeside(x, y)' /\ RecoveryBeside(y, x)'
    BY <1>p, <2>1, <2>2 DEF Early, FoundTorn, Listed, ListedOther, OwnerSeen,
      OwnerWhole, RestoreBeside, RestoredGone, SeenStill, Own
  <2>6. RemovalBeside(x, y)'
    BY <1>p, <2>1, <2>2 DEF CatchForeign, ClaimCatches, Claimed, Restored,
      Smooth, Own
  <2>7. RemovalBeside(y, x)'
    BY <1>p, <2>1, <2>2 DEF CatchForeign, ClaimCatches, Claimed, Restored,
      SeenStill, Smooth, Own, Unpublished, Unmoved
  <2>8. SweepBeside(x, y)' /\ SweepBeside(y, x)'
    BY <1>p, <2>1, <2>2 DEF SweepOther, SweepOwner, SweepSafe, Own, Reaching
  <2>9. PromotionBeside(x, y)' /\ PromotionBeside(y, x)'
    BY <1>p, <2>1, <2>2 DEF MoveOwn, MovedBeside, MovedOther, MovedTorn,
      UndoBeside, Own, Unpublished, Unmoved
  <2>10. RollbackBeside(x, y)' /\ RollbackBeside(y, x)'
    BY <1>p, <2>1, <2>2 DEF TearingOther, TornLeft, TornVictim, Smooth,
      UndoBacked, Own, Unpublished, Unmoved
  <2> QED
    BY <1>p, <2>1, <2>3, <2>4, <2>5, <2>6, <2>7, <2>8, <2>9, <2>10 DEF Both
<1> QED
  BY <1>1, <1>2

LEMMA BothVerifyRestored ==
  ASSUME PackageTypeOK, Structure,
         NEW x \in Writer, NEW y \in Writer \ {x}, Both(x, y), VerifyRestored(x)
  PROVE  Both(x, y)'
<1>p. PairFacts(x, y)
  BY Pair
<1> USE DEF Recovering, Reading, Building, Moved, Verifying, Promoting, Off,
      Ended, Mine, Torn, Tearing, Late, Looking, Undoing, Keeps, PairFacts,
      Beside, BackupsBeside, RecoveryBeside, RemovalBeside, SweepBeside,
      PromotionBeside, RollbackBeside, VerifyRestoredEffect
<1>1. VerifyRestoredEffect(x)
  BY VerifyRestoredStep
<1>2. /\ NoneLeft(x, y)' <=> NoneLeft(x, y)
      /\ NoneLeft(y, x)' <=> NoneLeft(x, y)
  BY <1>p, <1>1 DEF NoneLeft
<1>3. LeftWhole(x, y)' /\ Gap(x, y)' /\ TornPackage(x, y)'
  BY <1>p, <1>1, <1>2 DEF Gap, LeftWhole, TornPackage, LeftApart
<1>4. BackupsBeside(x, y)' /\ BackupsBeside(y, x)'
  BY <1>p, <1>1, <1>2 DEF BackupOwner, EndedWhole, RollbackWhole, UndoBacked,
    Own, Unpublished, Unmoved
<1>5. RecoveryBeside(x, y)'
  BY <1>p, <1>1, <1>2 DEF Early, FoundTorn, Listed, ListedOther, OwnerSeen,
    OwnerWhole, RestoreBeside, RestoredGone, SeenStill, Own
<1>6. RecoveryBeside(y, x)'
  BY <1>p, <1>1, <1>2 DEF Early, FoundTorn, Listed, ListedOther, OwnerSeen,
    OwnerWhole, RestoreBeside, Restored, RestoredGone, SeenStill, Own
<1>7. RemovalBeside(x, y)'
  BY <1>p, <1>1, <1>2 DEF CatchForeign, ClaimCatches, Claimed, Restored,
    Smooth, Own
<1>8. RemovalBeside(y, x)'
  BY <1>p, <1>1, <1>2 DEF CatchForeign, ClaimCatches, Claimed, Restored,
    Smooth, Own, Unpublished, Unmoved
<1>9. SweepBeside(x, y)' /\ SweepBeside(y, x)'
  BY <1>p, <1>1, <1>2 DEF ListedOther, Restored, RollbackWhole, Smooth,
    SweepOther, SweepOwner, SweepSafe, TornLeft, Own, Reaching
<1>10. PromotionBeside(x, y)' /\ PromotionBeside(y, x)'
  BY <1>p, <1>1, <1>2 DEF MoveOwn, MovedBeside, MovedOther, MovedTorn,
    UndoBeside, Own, Unpublished, Unmoved
<1>11. RollbackBeside(x, y)' /\ RollbackBeside(y, x)'
  BY <1>p, <1>1, <1>2 DEF TearingOther, TornLeft, TornVictim, Own, Unpublished,
    Unmoved
<1> QED
  BY <1>p, <1>1, <1>3, <1>4, <1>5, <1>6, <1>7, <1>8, <1>9, <1>10, <1>11 DEF
    Both

LEMMA BothSweepBackups ==
  ASSUME PackageTypeOK, Structure,
         NEW x \in Writer, NEW y \in Writer \ {x}, Both(x, y), SweepBackups(x)
  PROVE  Both(x, y)'
<1>p. PairFacts(x, y)
  BY Pair
<1> USE DEF Recovering, Reading, Building, Moved, Verifying, Promoting, Off,
      Ended, Mine, Torn, Tearing, Late, Looking, Undoing, Keeps, PairFacts,
      Beside, BackupsBeside, RecoveryBeside, RemovalBeside, SweepBeside,
      PromotionBeside, RollbackBeside, SweepEndEffect, SweepEffect
<1>1. CASE pc'[x] = "stage"
  <2>1. SweepEndEffect(x)
    BY <1>1, SweepEndStep
  <2>2. NoneLeft(x, y)
    BY <1>p, <2>1 DEF LeftListed
  <2>3. /\ NoneLeft(x, y)' <=> NoneLeft(x, y)
        /\ NoneLeft(y, x)' <=> NoneLeft(x, y)
    BY <1>p, <2>1 DEF NoneLeft
  <2>4. LeftWhole(x, y)' /\ Gap(x, y)' /\ TornPackage(x, y)'
    BY <1>p, <2>1, <2>2, <2>3 DEF Gap, LeftWhole, TornPackage, LeftApart
  <2>5. BackupsBeside(x, y)' /\ BackupsBeside(y, x)'
    BY <1>p, <2>1, <2>2, <2>3 DEF BackupOwner, EndedWhole, RollbackWhole,
      UndoBacked
  <2>6. RecoveryBeside(x, y)' /\ RecoveryBeside(y, x)'
    BY <1>p, <2>1, <2>2, <2>3 DEF Early, FoundTorn, Listed, ListedOther,
      OwnerSeen, OwnerWhole, RestoreBeside, RestoredGone, SeenStill, Own
  <2>7. RemovalBeside(x, y)'
    BY <1>p, <2>1, <2>2, <2>3 DEF CatchForeign, ClaimCatches, Claimed,
      Restored, Smooth, Own
  <2>8. RemovalBeside(y, x)'
    BY <1>p, <2>1, <2>2, <2>3 DEF CatchForeign, ClaimCatches, Claimed, Listed,
      Restored, Smooth, Own, Unpublished, Unmoved
  <2>9. SweepBeside(x, y)' /\ SweepBeside(y, x)'
    BY <1>p, <2>1, <2>2, <2>3 DEF SweepOther, SweepOwner, SweepSafe, Own,
      Reaching
  <2>10. PromotionBeside(x, y)' /\ PromotionBeside(y, x)'
    BY <1>p, <2>1, <2>2, <2>3 DEF MoveOwn, MovedBeside, MovedOther, MovedTorn,
      UndoBeside, Own, Unpublished, Unmoved
  <2>11. RollbackBeside(x, y)' /\ RollbackBeside(y, x)'
    BY <1>p, <2>1, <2>2, <2>3 DEF TearingOther, TornLeft, TornVictim, Smooth,
      UndoBacked, Own, Unpublished, Unmoved
  <2> QED
    BY <1>p, <2>1, <2>4, <2>5, <2>6, <2>7, <2>8, <2>9, <2>10, <2>11 DEF Both
<1>2. CASE pc'[x] # "stage"
  <2>1. SweepEffect(x)
    BY <1>2, SweepStep
  <2>2. /\ NoneLeft(x, y) /\ backup[local'[x].target] # NoTree
             => local'[x].target = y
        /\ local'[x].target \in Backup \ {x} /\ local'[x].target # Package
    BY <1>p, <2>1 DEF Own, NoneLeft
  <2>3. /\ NoneLeft(x, y)' <=> NoneLeft(x, y)
        /\ NoneLeft(y, x)' <=> NoneLeft(x, y)
    BY <1>p, <2>1 DEF NoneLeft
  <2>4. LeftWhole(x, y)' /\ Gap(x, y)' /\ TornPackage(x, y)'
    BY <1>p, <2>1, <2>2, <2>3 DEF Gap, LeftWhole, TornPackage, LeftApart
  <2>5. BackupsBeside(x, y)' /\ BackupsBeside(y, x)'
    BY <1>p, <2>1, <2>2, <2>3 DEF BackupOwner, EndedWhole, RollbackWhole,
      UndoBacked
  <2>6. RecoveryBeside(x, y)'
    BY <1>p, <2>1, <2>2, <2>3 DEF Early, FoundTorn, Listed, ListedOther,
      OwnerSeen, OwnerWhole, RestoreBeside, RestoredGone, SeenStill,
      SweepOther, Own, Unpublished, Unmoved
  <2>7. RecoveryBeside(y, x)'
    BY <1>p, <2>1, <2>2, <2>3 DEF Early, FoundTorn, Listed, ListedOther,
      OwnerSeen, OwnerWhole, RestoreBeside, RestoredGone, SeenStill,
      SweepOther, Own
  <2>8. RemovalBeside(x, y)'
    BY <1>p, <2>1, <2>2, <2>3 DEF CatchForeign, ClaimCatches, Claimed,
      Restored, Smooth, Own
  <2>9. RemovalBeside(y, x)'
    BY <1>p, <2>1, <2>2, <2>3 DEF CatchForeign, ClaimCatches, Claimed,
      Restored, Smooth, SweepOther, Own, Unpublished, Unmoved
  <2>10. SweepBeside(x, y)'
    BY <1>p, <2>1, <2>2, <2>3 DEF SweepOther, SweepOwner, SweepSafe, Own,
      Unpublished, Unmoved, Reaching
  <2>11. SweepBeside(y, x)'
    BY <1>p, <2>1, <2>2, <2>3 DEF SweepOther, SweepOwner, SweepSafe, Own,
      Reaching
  <2>12. PromotionBeside(x, y)' /\ PromotionBeside(y, x)'
    BY <1>p, <2>1, <2>2, <2>3 DEF MoveOwn, MovedBeside, MovedOther, MovedTorn,
      SweepOther, UndoBeside, Own, Unpublished, Unmoved
  <2>13. RollbackBeside(x, y)' /\ RollbackBeside(y, x)'
    BY <1>p, <2>1, <2>2, <2>3 DEF TearingOther, TornLeft, TornVictim,
      SweepOther, Own, Unpublished, Unmoved
  <2> QED
    BY <1>p, <2>1, <2>4, <2>5, <2>6, <2>7, <2>8, <2>9, <2>10, <2>11, <2>12,
      <2>13 DEF Both
<1> QED
  BY <1>1, <1>2

LEMMA BothClaimPath ==
  ASSUME PackageTypeOK, Structure,
         NEW x \in Writer, NEW y \in Writer \ {x}, Both(x, y), ClaimPath(x)
  PROVE  Both(x, y)'
<1>p. PairFacts(x, y)
  BY Pair
<1> USE DEF Recovering, Reading, Building, Moved, Verifying, Promoting, Off,
      Ended, Mine, Torn, Tearing, Late, Looking, Undoing, Keeps, PairFacts,
      Beside, BackupsBeside, RecoveryBeside, RemovalBeside, SweepBeside,
      PromotionBeside, RollbackBeside, ClaimNoneEffect, ClaimPathEffect,
      ClaimNoneOtherEffect, ClaimPathOtherEffect
<1>1. CASE Mine(x) /\ package = NoTree
  <2>1. ClaimNoneEffect(x)
    BY <1>1, ClaimNoneStep
  <2>2. /\ NoneLeft(x, y)' <=> NoneLeft(x, y)
        /\ NoneLeft(y, x)' <=> NoneLeft(x, y)
    BY <1>p, <2>1 DEF NoneLeft
  <2>3. LeftWhole(x, y)' /\ Gap(x, y)' /\ TornPackage(x, y)'
    BY <1>p, <2>1, <2>2 DEF Gap, LeftWhole, TornPackage, LeftApart
  <2>4. BackupsBeside(x, y)' /\ BackupsBeside(y, x)'
    BY <1>p, <2>1, <2>2 DEF BackupOwner, EndedWhole, RollbackWhole, UndoBacked
  <2>5. RecoveryBeside(x, y)' /\ RecoveryBeside(y, x)'
    BY <1>p, <2>1, <2>2 DEF Early, FoundTorn, Listed, ListedOther, OwnerSeen,
      OwnerWhole, RestoreBeside, RestoredGone, SeenStill, Own, ClaimCatches
  <2>6. RemovalBeside(x, y)'
    BY <1>p, <2>1, <2>2 DEF CatchForeign, ClaimCatches, Claimed, Restored,
      Smooth, Own
  <2>7. RemovalBeside(y, x)'
    BY <1>p, <2>1, <2>2 DEF CatchForeign, ClaimCatches, Claimed, Restored,
      Smooth, Own, Unpublished, Unmoved
  <2>8. SweepBeside(x, y)' /\ SweepBeside(y, x)'
    BY <1>p, <2>1, <2>2 DEF ListedOther, SweepOther, SweepOwner, SweepSafe,
      Own, Reaching
  <2>9. PromotionBeside(x, y)' /\ PromotionBeside(y, x)'
    BY <1>p, <2>1, <2>2 DEF MoveOwn, MovedBeside, MovedOther, MovedTorn,
      UndoBeside, Own, Unpublished, Unmoved
  <2>10. RollbackBeside(x, y)' /\ RollbackBeside(y, x)'
    BY <1>p, <2>1, <2>2 DEF Listed, SweepSafe, TearingOther, TornLeft,
      TornPackage, TornVictim, Reaching, ClaimCatches, Own, Unpublished,
      Unmoved
  <2> QED
    BY <1>p, <2>1, <2>3, <2>4, <2>5, <2>6, <2>7, <2>8, <2>9, <2>10 DEF Both
<1>2. CASE Mine(x) /\ package # NoTree
  <2>1. ClaimPathEffect(x)
    BY <1>2, ClaimPathStep
  <2>2. /\ NoneLeft(x, y)' <=> NoneLeft(x, y)
        /\ NoneLeft(y, x)' <=> NoneLeft(x, y)
    BY <1>p, <2>1 DEF NoneLeft
  <2>3. LeftWhole(x, y)' /\ Gap(x, y)' /\ TornPackage(x, y)'
    BY <1>p, <2>1, <2>2 DEF FoundTorn, Gap, LeftWhole, SweepOther, SweepSafe,
      TornPackage, UndoBacked, Reaching, LeftApart
  <2>4. BackupsBeside(x, y)' /\ BackupsBeside(y, x)'
    BY <1>p, <2>1, <2>2 DEF BackupOwner, EndedWhole, RollbackWhole, UndoBacked,
      Smooth, SweepOther
  <2>5. RecoveryBeside(x, y)'
    BY <1>p, <2>1, <2>2 DEF ClaimCatches, Early, FoundTorn, Listed,
      ListedOther, OwnerSeen, OwnerWhole, RestoreBeside, RestoredGone,
      SeenStill, Own, Unpublished, Unmoved
  <2>6. RecoveryBeside(y, x)'
    BY <1>p, <2>1, <2>2 DEF CatchForeign, Early, FoundTorn, Listed,
      ListedOther, OwnerSeen, OwnerWhole, RestoreBeside, RestoredGone,
      SeenStill, Own
  <2>7. RemovalBeside(x, y)'
    BY <1>p, <2>1, <2>2 DEF CatchForeign, ClaimCatches, Claimed, MovedBeside,
      Restored, Smooth, TornLeft, Own
  <2>8. RemovalBeside(y, x)'
    BY <1>p, <2>1, <2>2 DEF CatchForeign, ClaimCatches, Claimed, FoundTorn,
      Restored, SeenStill, Smooth, SweepSafe, TornLeft, TornPackage, Own,
      Unpublished, Unmoved, Reaching
  <2>9. SweepBeside(x, y)' /\ SweepBeside(y, x)'
    BY <1>p, <2>1, <2>2 DEF SweepOther, SweepOwner, SweepSafe, Own, Reaching,
      FoundTorn
  <2>10. PromotionBeside(x, y)' /\ PromotionBeside(y, x)'
    BY <1>p, <2>1, <2>2 DEF MoveOwn, MovedBeside, MovedOther, MovedTorn,
      UndoBeside, Smooth, Own, Unpublished, Unmoved
  <2>11. RollbackBeside(x, y)' /\ RollbackBeside(y, x)'
    BY <1>p, <2>1, <2>2 DEF SweepSafe, TearingOther, TornLeft, TornVictim,
      Reaching, Own, Unpublished, Unmoved
  <2> QED
    BY <1>p, <2>1, <2>3, <2>4, <2>5, <2>6, <2>7, <2>8, <2>9, <2>10, <2>11 DEF
      Both
<1>3. CASE ~Mine(x) /\ backup[local[x].target] = NoTree
  <2>1. ClaimNoneOtherEffect(x)
    BY <1>3, ClaimNoneOtherStep
  <2>2. /\ NoneLeft(x, y)' <=> NoneLeft(x, y)
        /\ NoneLeft(y, x)' <=> NoneLeft(x, y)
    BY <1>p, <2>1 DEF NoneLeft
  <2>3. LeftWhole(x, y)' /\ Gap(x, y)' /\ TornPackage(x, y)'
    BY <1>p, <2>1, <2>2 DEF Gap, LeftWhole, TornPackage, LeftListed, Reaching,
      LeftApart
  <2>4. BackupsBeside(x, y)' /\ BackupsBeside(y, x)'
    BY <1>p, <2>1, <2>2 DEF BackupOwner, EndedWhole, RollbackWhole, UndoBacked,
      LeftListed, Reaching
  <2>5. RecoveryBeside(x, y)'
    BY <1>p, <2>1, <2>2 DEF Early, FoundTorn, Listed, ListedOther, OwnerSeen,
      OwnerWhole, RestoreBeside, RestoredGone, SeenStill, Own, LeftListed,
      Reaching
  <2>6. RecoveryBeside(y, x)'
    BY <1>p, <2>1, <2>2 DEF ClaimCatches, Early, FoundTorn, Listed,
      ListedOther, OwnerSeen, OwnerWhole, RestoreBeside, RestoredGone,
      SeenStill, Own, LeftListed, Reaching
  <2>7. RemovalBeside(x, y)'
    BY <1>p, <2>1, <2>2 DEF CatchForeign, ClaimCatches, Claimed, Restored,
      Smooth, Own, LeftListed, Reaching
  <2>8. RemovalBeside(y, x)'
    BY <1>p, <2>1, <2>2 DEF CatchForeign, ClaimCatches, Claimed, Restored,
      Smooth, Own, Unpublished, Unmoved, LeftListed, Reaching
  <2>9. SweepBeside(x, y)' /\ SweepBeside(y, x)'
    BY <1>p, <2>1, <2>2 DEF ListedOther, SweepOther, SweepOwner, SweepSafe,
      Own, Reaching, LeftListed
  <2>10. PromotionBeside(x, y)' /\ PromotionBeside(y, x)'
    BY <1>p, <2>1, <2>2 DEF MoveOwn, MovedBeside, MovedOther, MovedTorn,
      UndoBeside, LeftListed, Reaching, Own, Unpublished, Unmoved
  <2>11. RollbackBeside(x, y)' /\ RollbackBeside(y, x)'
    BY <1>p, <2>1, <2>2 DEF Listed, SweepSafe, TearingOther, TornLeft,
      TornPackage, TornVictim, Reaching, LeftListed, ClaimCatches, Own,
      Unpublished, Unmoved
  <2> QED
    BY <1>p, <2>1, <2>3, <2>4, <2>5, <2>6, <2>7, <2>8, <2>9, <2>10, <2>11 DEF
      Both
<1>4. CASE ~Mine(x) /\ backup[local[x].target] # NoTree
  <2>1. ClaimPathOtherEffect(x)
    BY <1>4, ClaimPathOtherStep
  <2>2. /\ NoneLeft(x, y) => NoneLeft(x, y)'
        /\ NoneLeft(y, x)' <=> NoneLeft(x, y)'
        /\ local[x].target # y => ~NoneLeft(x, y)
        /\ local[x].target = y => (NoneLeft(x, y)' <=> NoneLeft(x, y))
        /\ local[x].target \in Backup \ {x}
    BY <1>p, <2>1 DEF NoneLeft, Own
  <2>3. LeftWhole(x, y)' /\ Gap(x, y)' /\ TornPackage(x, y)'
    BY <1>p, <2>1, <2>2 DEF FoundTorn, Gap, LeftWhole, SweepOther, SweepSafe,
      TornPackage, UndoBacked, Reaching, LeftApart
  <2>4. BackupsBeside(x, y)' /\ BackupsBeside(y, x)'
    BY <1>p, <2>1, <2>2 DEF BackupOwner, EndedWhole, RollbackWhole, UndoBacked,
      Smooth, SweepOther
  <2>5. RecoveryBeside(x, y)'
    BY <1>p, <2>1, <2>2 DEF ClaimCatches, Early, FoundTorn, Listed,
      ListedOther, OwnerSeen, OwnerWhole, RestoreBeside, RestoredGone,
      SeenStill, Own, Unpublished, Unmoved
  <2>6. RecoveryBeside(y, x)'
    BY <1>p, <2>1, <2>2 DEF CatchForeign, Early, FoundTorn, Listed,
      ListedOther, OwnerSeen, OwnerWhole, RestoreBeside, RestoredGone,
      SeenStill, Own
  <2>7. RemovalBeside(x, y)'
    BY <1>p, <2>1, <2>2 DEF CatchForeign, ClaimCatches, Claimed, MovedBeside,
      Restored, Smooth, TornLeft, Own
  <2>8. RemovalBeside(y, x)'
    <3>1. Smooth(y, x)'
      BY <1>p, <2>1, <2>2 DEF Smooth, Own, Unpublished, Unmoved
    <3>2. Claimed(y, x)'
      BY <1>p, <2>1, <2>2 DEF Claimed, Own, Unpublished, Unmoved
    <3>3. Restored(y, x)'
      BY <1>p, <2>1, <2>2 DEF FoundTorn, Restored, TornLeft
    <3>4. ClaimCatches(y, x)'
      BY <1>p, <2>1, <2>2 DEF CatchForeign, ClaimCatches, SeenStill, SweepSafe,
        TornLeft, TornPackage, Own, Unpublished, Unmoved, Reaching
    <3>5. CatchForeign(y, x)'
      BY <1>p, <2>1, <2>2 DEF CatchForeign
    <3> QED
      BY <3>1, <3>2, <3>3, <3>4, <3>5
  <2>9. SweepBeside(x, y)' /\ SweepBeside(y, x)'
    BY <1>p, <2>1, <2>2 DEF SweepOther, SweepOwner, SweepSafe, Own, Reaching,
      FoundTorn
  <2>10. PromotionBeside(x, y)'
    BY <1>p, <2>1, <2>2 DEF MoveOwn, MovedBeside, MovedOther, MovedTorn,
      UndoBeside
  <2>11. PromotionBeside(y, x)'
    BY <1>p, <2>1, <2>2 DEF MoveOwn, MovedBeside, MovedOther, MovedTorn,
      Smooth, UndoBeside, Own, Unpublished, Unmoved
  <2>12. RollbackBeside(x, y)' /\ RollbackBeside(y, x)'
    BY <1>p, <2>1, <2>2 DEF SweepSafe, TearingOther, TornLeft, TornVictim,
      Reaching, Own, Unpublished, Unmoved
  <2> QED
    BY <1>p, <2>1, <2>3, <2>4, <2>5, <2>6, <2>7, <2>8, <2>9, <2>10, <2>11,
      <2>12 DEF Both
<1> QED
  BY <1>1, <1>2, <1>3, <1>4

LEMMA BothRestoreForeign ==
  ASSUME PackageTypeOK, Structure,
         NEW x \in Writer, NEW y \in Writer \ {x}, Both(x, y), RestoreForeign(x)
  PROVE  Both(x, y)'
<1>p. PairFacts(x, y)
  BY Pair
<1> USE DEF Recovering, Reading, Building, Moved, Verifying, Promoting, Off,
      Ended, Mine, Torn, Tearing, Late, Looking, Undoing, Keeps, PairFacts,
      Beside, BackupsBeside, RecoveryBeside, RemovalBeside, SweepBeside,
      PromotionBeside, RollbackBeside, RestoreForeignEffect
<1>1. CASE Mine(x)
  <2>1. RestoreForeignEffect(x)
    BY <1>1, RestoreForeignStep
  <2>2. /\ NoneLeft(x, y)' <=> NoneLeft(x, y)
        /\ NoneLeft(y, x)' <=> NoneLeft(x, y)
    BY <1>p, <2>1 DEF NoneLeft
  <2>3. LeftWhole(x, y)' /\ Gap(x, y)' /\ TornPackage(x, y)'
    BY <1>p, <2>1, <2>2 DEF ClaimCatches, Gap, LeftWhole, SweepOwner, TornLeft,
      TornPackage, Own, Unpublished, Unmoved, LeftApart
  <2>4. BackupsBeside(x, y)' /\ BackupsBeside(y, x)'
    BY <1>p, <2>1, <2>2 DEF BackupOwner, EndedWhole, RollbackWhole, UndoBacked,
      CatchForeign, Claimed, SweepOwner, TearingOther, UndoBeside, Own,
      Unpublished, Unmoved
  <2>5. RecoveryBeside(x, y)' /\ RecoveryBeside(y, x)'
    BY <1>p, <2>1, <2>2 DEF Early, FoundTorn, Listed, ListedOther, OwnerSeen,
      OwnerWhole, RestoreBeside, RestoredGone, SeenStill, SweepOwner, Own,
      CatchForeign
  <2>6. RemovalBeside(x, y)'
    BY <1>p, <2>1, <2>2 DEF CatchForeign, ClaimCatches, Claimed, Restored,
      Smooth, SweepOwner, Own
  <2>7. RemovalBeside(y, x)'
    BY <1>p, <2>1, <2>2 DEF CatchForeign, ClaimCatches, Claimed, Restored,
      Smooth, SweepOwner, Own, Unpublished, Unmoved
  <2>8. SweepBeside(x, y)' /\ SweepBeside(y, x)'
    BY <1>p, <2>1, <2>2 DEF SweepOther, SweepOwner, SweepSafe, Own, Reaching
  <2>9. PromotionBeside(x, y)' /\ PromotionBeside(y, x)'
    BY <1>p, <2>1, <2>2 DEF MoveOwn, MovedBeside, MovedOther, MovedTorn,
      SweepOwner, UndoBeside, ClaimCatches, Claimed, Own, Unpublished, Unmoved
  <2>10. RollbackBeside(x, y)' /\ RollbackBeside(y, x)'
    BY <1>p, <2>1, <2>2 DEF ClaimCatches, TearingOther, TornLeft, TornVictim,
      CatchForeign, SweepOwner
  <2> QED
    BY <1>p, <2>1, <2>3, <2>4, <2>5, <2>6, <2>7, <2>8, <2>9, <2>10 DEF Both
<1> QED
  <2>1. ~Mine(x) => claim[x] = local[x].owner
    BY Pair DEF SweepOwner, RestoreForeign
  <2> QED
    BY <1>1, <2>1 DEF RestoreForeign, ClaimForeign

LEMMA BothRemoveClaimed ==
  ASSUME PackageTypeOK, Structure,
         NEW x \in Writer, NEW y \in Writer \ {x}, Both(x, y), RemoveClaimed(x)
  PROVE  Both(x, y)'
<1>p. PairFacts(x, y)
  BY Pair
<1> USE DEF Recovering, Reading, Building, Moved, Verifying, Promoting, Off,
      Ended, Mine, Torn, Tearing, Late, Looking, Undoing, Keeps, PairFacts,
      Beside, BackupsBeside, RecoveryBeside, RemovalBeside, SweepBeside,
      PromotionBeside, RollbackBeside, RemoveClaimedEffect,
      RemoveClaimedOtherEffect
<1>1. CASE Mine(x)
  <2>1. RemoveClaimedEffect(x)
    BY <1>1, RemoveClaimedStep
  <2>2. /\ NoneLeft(x, y)' <=> NoneLeft(x, y)
        /\ NoneLeft(y, x)' <=> NoneLeft(x, y)
    BY <1>p, <2>1 DEF NoneLeft
  <2>3. LeftWhole(x, y)' /\ Gap(x, y)' /\ TornPackage(x, y)'
    BY <1>p, <2>1, <2>2 DEF Gap, LeftWhole, TornPackage, Own, Unpublished,
      Unmoved, LeftApart
  <2>4. BackupsBeside(x, y)' /\ BackupsBeside(y, x)'
    BY <1>p, <2>1, <2>2 DEF BackupOwner, EndedWhole, RollbackWhole, UndoBacked,
      Claimed, Smooth, Own, Unpublished, Unmoved
  <2>5. RecoveryBeside(x, y)'
    BY <1>p, <2>1, <2>2 DEF CatchForeign, Early, FoundTorn, Listed,
      ListedOther, OwnerSeen, OwnerWhole, RestoreBeside, RestoredGone,
      SeenStill, Own
  <2>6. RecoveryBeside(y, x)'
    BY <1>p, <2>1, <2>2 DEF ClaimCatches, Early, FoundTorn, Listed,
      ListedOther, OwnerSeen, OwnerWhole, RestoreBeside, RestoredGone,
      SeenStill, Own
  <2>7. RemovalBeside(x, y)'
    BY <1>p, <2>1, <2>2 DEF CatchForeign, ClaimCatches, Claimed, Restored,
      Smooth, Own
  <2>8. RemovalBeside(y, x)'
    <3>1. Smooth(y, x)'
      BY <1>p, <2>1, <2>2 DEF Smooth, Own, Unpublished, Unmoved
    <3>2. Claimed(y, x)'
      BY <1>p, <2>1, <2>2 DEF Claimed, Own, Unpublished, Unmoved
    <3>3. Restored(y, x)'
      BY <1>p, <2>1, <2>2 DEF Restored
    <3>4. ClaimCatches(y, x)'
      BY <1>p, <2>1, <2>2 DEF ClaimCatches, SweepSafe, TornLeft, Own,
        Unpublished, Unmoved, Reaching
    <3>5. CatchForeign(y, x)'
      BY <1>p, <2>1, <2>2 DEF CatchForeign
    <3> QED
      BY <3>1, <3>2, <3>3, <3>4, <3>5
  <2>9. SweepBeside(x, y)' /\ SweepBeside(y, x)'
    BY <1>p, <2>1, <2>2 DEF ListedOther, SweepOther, SweepOwner, SweepSafe,
      Own, Unpublished, Unmoved, Reaching
  <2>10. PromotionBeside(x, y)' /\ PromotionBeside(y, x)'
    BY <1>p, <2>1, <2>2 DEF Gap, MoveOwn, MovedBeside, MovedOther, MovedTorn,
      RestoreBeside, SweepSafe, UndoBeside, Own, Unpublished, Unmoved,
      Reaching, ClaimCatches, Claimed, Smooth
  <2>11. RollbackBeside(x, y)' /\ RollbackBeside(y, x)'
    BY <1>p, <2>1, <2>2 DEF TearingOther, TornLeft, TornVictim, Own,
      Unpublished, Unmoved
  <2> QED
    BY <1>p, <2>1, <2>3, <2>4, <2>5, <2>6, <2>7, <2>8, <2>9, <2>10, <2>11 DEF
      Both
<1>2. CASE ~Mine(x)
  <2>1. RemoveClaimedOtherEffect(x)
    BY <1>2, RemoveClaimedOtherStep
  <2>2. /\ NoneLeft(x, y)' <=> NoneLeft(x, y)
        /\ NoneLeft(y, x)' <=> NoneLeft(x, y)
    BY <1>p, <2>1 DEF NoneLeft
  <2>3. LeftWhole(x, y)' /\ Gap(x, y)' /\ TornPackage(x, y)'
    BY <1>p, <2>1, <2>2 DEF Gap, LeftWhole, TornPackage, Own, Unpublished,
      Unmoved, LeftApart
  <2>4. BackupsBeside(x, y)' /\ BackupsBeside(y, x)'
    BY <1>p, <2>1, <2>2 DEF BackupOwner, EndedWhole, RollbackWhole, UndoBacked,
      Claimed, Smooth, Own, Unpublished, Unmoved
  <2>5. RecoveryBeside(x, y)'
    BY <1>p, <2>1, <2>2 DEF CatchForeign, Early, FoundTorn, Listed,
      ListedOther, OwnerSeen, OwnerWhole, RestoreBeside, RestoredGone,
      SeenStill, Own
  <2>6. RecoveryBeside(y, x)'
    BY <1>p, <2>1, <2>2 DEF ClaimCatches, Early, FoundTorn, Listed,
      ListedOther, OwnerSeen, OwnerWhole, RestoreBeside, RestoredGone,
      SeenStill, Own
  <2>7. RemovalBeside(x, y)'
    BY <1>p, <2>1, <2>2 DEF CatchForeign, ClaimCatches, Claimed, Restored,
      Smooth, Own
  <2>8. RemovalBeside(y, x)'
    BY <1>p, <2>1, <2>2 DEF CatchForeign, ClaimCatches, Claimed, Restored,
      Smooth, SweepSafe, TornLeft, Own, Unpublished, Unmoved, Reaching
  <2>9. SweepBeside(x, y)' /\ SweepBeside(y, x)'
    BY <1>p, <2>1, <2>2 DEF ListedOther, SweepOther, SweepOwner, SweepSafe,
      Own, Unpublished, Unmoved, Reaching
  <2>10. PromotionBeside(x, y)'
    BY <1>p, <2>1, <2>2 DEF Gap, MoveOwn, MovedBeside, MovedOther, MovedTorn,
      RestoreBeside, SweepSafe, UndoBeside, Own, Unpublished, Unmoved, Reaching
  <2>11. PromotionBeside(y, x)'
    BY <1>p, <2>1, <2>2 DEF ClaimCatches, Claimed, MoveOwn, MovedBeside,
      MovedOther, MovedTorn, Smooth, UndoBeside, Own, Unpublished, Unmoved
  <2>12. RollbackBeside(x, y)' /\ RollbackBeside(y, x)'
    BY <1>p, <2>1, <2>2 DEF TearingOther, TornLeft, TornVictim, Own,
      Unpublished, Unmoved
  <2> QED
    BY <1>p, <2>1, <2>3, <2>4, <2>5, <2>6, <2>7, <2>8, <2>9, <2>10, <2>11,
      <2>12 DEF Both
<1> QED
  BY <1>1, <1>2

LEMMA BothBuildTree ==
  ASSUME PackageTypeOK, Structure,
         NEW x \in Writer, NEW y \in Writer \ {x}, Both(x, y), BuildTree(x)
  PROVE  Both(x, y)'
<1>p. PairFacts(x, y)
  BY Pair
<1> USE DEF Recovering, Reading, Building, Moved, Verifying, Promoting, Off,
      Ended, Mine, Torn, Tearing, Late, Looking, Undoing, Keeps, PairFacts,
      Beside, BackupsBeside, RecoveryBeside, RemovalBeside, SweepBeside,
      PromotionBeside, RollbackBeside, BuildTreeEffect
<1>1. BuildTreeEffect(x)
  BY BuildTreeStep
<1>2. /\ NoneLeft(x, y)' <=> NoneLeft(x, y)
      /\ NoneLeft(y, x)' <=> NoneLeft(x, y)
  BY <1>p, <1>1 DEF NoneLeft
<1>3. LeftWhole(x, y)' /\ Gap(x, y)' /\ TornPackage(x, y)'
  BY <1>p, <1>1, <1>2 DEF Gap, LeftWhole, TornPackage, LeftApart
<1>4. BackupsBeside(x, y)' /\ BackupsBeside(y, x)'
  BY <1>p, <1>1, <1>2 DEF BackupOwner, EndedWhole, RollbackWhole, UndoBacked
<1>5. RecoveryBeside(x, y)'
  BY <1>p, <1>1, <1>2 DEF Early, FoundTorn, Listed, ListedOther, OwnerSeen,
    OwnerWhole, RestoreBeside, RestoredGone, SeenStill, Own
<1>6. RecoveryBeside(y, x)'
  BY <1>p, <1>1, <1>2 DEF Early, FoundTorn, Listed, ListedOther, OwnerSeen,
    OwnerWhole, RestoreBeside, RestoredGone, SeenStill, Own, Unpublished,
    Unmoved
<1>7. RemovalBeside(x, y)'
  BY <1>p, <1>1, <1>2 DEF CatchForeign, ClaimCatches, Claimed, Restored,
    Smooth, Own
<1>8. RemovalBeside(y, x)'
  BY <1>p, <1>1, <1>2 DEF CatchForeign, ClaimCatches, Claimed, Restored,
    Smooth, TornLeft, Own, Unpublished, Unmoved
<1>9. SweepBeside(x, y)' /\ SweepBeside(y, x)'
  BY <1>p, <1>1, <1>2 DEF SweepOther, SweepOwner, SweepSafe, Own, Reaching
<1>10. PromotionBeside(x, y)' /\ PromotionBeside(y, x)'
  BY <1>p, <1>1, <1>2 DEF MoveOwn, MovedBeside, MovedOther, MovedTorn,
    UndoBeside, Own, Unpublished, Unmoved
<1>11. RollbackBeside(x, y)' /\ RollbackBeside(y, x)'
  BY <1>p, <1>1, <1>2 DEF TearingOther, TornLeft, TornVictim, Own, Unpublished,
    Unmoved
<1> QED
  BY <1>p, <1>1, <1>3, <1>4, <1>5, <1>6, <1>7, <1>8, <1>9, <1>10, <1>11 DEF
    Both

LEMMA BothBuildFails ==
  ASSUME PackageTypeOK, Structure,
         NEW x \in Writer, NEW y \in Writer \ {x}, Both(x, y), BuildFails(x)
  PROVE  Both(x, y)'
<1>p. PairFacts(x, y)
  BY Pair
<1> USE DEF Recovering, Reading, Building, Moved, Verifying, Promoting, Off,
      Ended, Mine, Torn, Tearing, Late, Looking, Undoing, Keeps, PairFacts,
      Beside, BackupsBeside, RecoveryBeside, RemovalBeside, SweepBeside,
      PromotionBeside, RollbackBeside, BuildFailsEffect
<1>1. BuildFailsEffect(x)
  BY BuildFailsStep
<1>2. /\ NoneLeft(x, y)' <=> NoneLeft(x, y)
      /\ NoneLeft(y, x)' <=> NoneLeft(x, y)
  BY <1>p, <1>1 DEF NoneLeft
<1>3. LeftWhole(x, y)' /\ Gap(x, y)' /\ TornPackage(x, y)'
  BY <1>p, <1>1, <1>2 DEF Gap, LeftWhole, TornPackage, LeftApart
<1>4. BackupsBeside(x, y)' /\ BackupsBeside(y, x)'
  BY <1>p, <1>1, <1>2 DEF BackupOwner, EndedWhole, RollbackWhole, UndoBacked,
    Own, Unpublished, Unmoved
<1>5. RecoveryBeside(x, y)' /\ RecoveryBeside(y, x)'
  BY <1>p, <1>1, <1>2 DEF Early, FoundTorn, Listed, ListedOther, OwnerSeen,
    OwnerWhole, RestoreBeside, RestoredGone, SeenStill, Own
<1>6. RemovalBeside(x, y)'
  BY <1>p, <1>1, <1>2 DEF CatchForeign, ClaimCatches, Claimed, Restored,
    Smooth, Own
<1>7. RemovalBeside(y, x)'
  BY <1>p, <1>1, <1>2 DEF CatchForeign, ClaimCatches, Claimed, Restored,
    Smooth, Own, Unpublished, Unmoved
<1>8. SweepBeside(x, y)' /\ SweepBeside(y, x)'
  BY <1>p, <1>1, <1>2 DEF SweepOther, SweepOwner, SweepSafe, Own, Reaching
<1>9. PromotionBeside(x, y)' /\ PromotionBeside(y, x)'
  BY <1>p, <1>1, <1>2 DEF MoveOwn, MovedBeside, MovedOther, MovedTorn,
    UndoBeside
<1>10. RollbackBeside(x, y)' /\ RollbackBeside(y, x)'
  BY <1>p, <1>1, <1>2 DEF TearingOther, TornLeft, TornVictim
<1> QED
  BY <1>p, <1>1, <1>3, <1>4, <1>5, <1>6, <1>7, <1>8, <1>9, <1>10 DEF Both

LEMMA BothLookForPackage ==
  ASSUME PackageTypeOK, Structure,
         NEW x \in Writer, NEW y \in Writer \ {x}, Both(x, y), LookForPackage(x)
  PROVE  Both(x, y)'
<1>p. PairFacts(x, y)
  BY Pair
<1> USE DEF Recovering, Reading, Building, Moved, Verifying, Promoting, Off,
      Ended, Mine, Torn, Tearing, Late, Looking, Undoing, Keeps, PairFacts,
      Beside, BackupsBeside, RecoveryBeside, RemovalBeside, SweepBeside,
      PromotionBeside, RollbackBeside, LookForPackageEffect
<1>1. LookForPackageEffect(x)
  BY LookForPackageStep
<1>2. /\ NoneLeft(x, y)' <=> NoneLeft(x, y)
      /\ NoneLeft(y, x)' <=> NoneLeft(x, y)
  BY <1>p, <1>1 DEF NoneLeft
<1>3. LeftWhole(x, y)' /\ Gap(x, y)' /\ TornPackage(x, y)'
  BY <1>p, <1>1, <1>2 DEF Gap, LeftWhole, TornPackage, LeftApart
<1>4. BackupsBeside(x, y)' /\ BackupsBeside(y, x)'
  BY <1>p, <1>1, <1>2 DEF BackupOwner, EndedWhole, RollbackWhole, UndoBacked,
    Own, Unpublished, Unmoved
<1>5. RecoveryBeside(x, y)' /\ RecoveryBeside(y, x)'
  BY <1>p, <1>1, <1>2 DEF Early, FoundTorn, Listed, ListedOther, OwnerSeen,
    OwnerWhole, RestoreBeside, RestoredGone, SeenStill, Own
<1>6. RemovalBeside(x, y)'
  BY <1>p, <1>1, <1>2 DEF CatchForeign, ClaimCatches, Claimed, Restored,
    Smooth, Own
<1>7. RemovalBeside(y, x)'
  BY <1>p, <1>1, <1>2 DEF CatchForeign, ClaimCatches, Claimed, Restored,
    Smooth, Own, Unpublished, Unmoved
<1>8. SweepBeside(x, y)' /\ SweepBeside(y, x)'
  BY <1>p, <1>1, <1>2 DEF SweepOther, SweepOwner, SweepSafe, Own, Reaching
<1>9. PromotionBeside(x, y)' /\ PromotionBeside(y, x)'
  BY <1>p, <1>1, <1>2 DEF MoveOwn, MovedBeside, MovedOther, MovedTorn,
    UndoBeside, Own, Unpublished, Unmoved
<1>10. RollbackBeside(x, y)' /\ RollbackBeside(y, x)'
  BY <1>p, <1>1, <1>2 DEF TearingOther, TornLeft, TornVictim, Own, Unpublished,
    Unmoved
<1> QED
  BY <1>p, <1>1, <1>3, <1>4, <1>5, <1>6, <1>7, <1>8, <1>9, <1>10 DEF Both

LEMMA BothRecordOwner ==
  ASSUME PackageTypeOK, Structure,
         NEW x \in Writer, NEW y \in Writer \ {x}, Both(x, y), RecordOwner(x)
  PROVE  Both(x, y)'
<1>p. PairFacts(x, y)
  BY Pair
<1> USE DEF Recovering, Reading, Building, Moved, Verifying, Promoting, Off,
      Ended, Mine, Torn, Tearing, Late, Looking, Undoing, Keeps, PairFacts,
      Beside, BackupsBeside, RecoveryBeside, RemovalBeside, SweepBeside,
      PromotionBeside, RollbackBeside, RecordOwnerEffect
<1>1. RecordOwnerEffect(x)
  BY RecordOwnerStep
<1>2. /\ NoneLeft(x, y)' <=> NoneLeft(x, y)
      /\ NoneLeft(y, x)' <=> NoneLeft(x, y)
  BY <1>p, <1>1 DEF NoneLeft
<1>3. LeftWhole(x, y)' /\ Gap(x, y)' /\ TornPackage(x, y)'
  BY <1>p, <1>1, <1>2 DEF Gap, LeftWhole, TornPackage, LeftApart
<1>4. BackupsBeside(x, y)' /\ BackupsBeside(y, x)'
  BY <1>p, <1>1, <1>2 DEF BackupOwner, EndedWhole, RollbackWhole, UndoBacked,
    Own, Unpublished, Unmoved
<1>5. RecoveryBeside(x, y)' /\ RecoveryBeside(y, x)'
  BY <1>p, <1>1, <1>2 DEF Early, FoundTorn, Listed, ListedOther, OwnerSeen,
    OwnerWhole, RestoreBeside, RestoredGone, SeenStill, Own
<1>6. RemovalBeside(x, y)'
  BY <1>p, <1>1, <1>2 DEF CatchForeign, ClaimCatches, Claimed, Restored,
    Smooth, Own
<1>7. RemovalBeside(y, x)'
  BY <1>p, <1>1, <1>2 DEF CatchForeign, ClaimCatches, Claimed, Restored,
    Smooth, Own, Unpublished, Unmoved
<1>8. SweepBeside(x, y)' /\ SweepBeside(y, x)'
  BY <1>p, <1>1, <1>2 DEF SweepOther, SweepOwner, SweepSafe, Own, Reaching
<1>9. PromotionBeside(x, y)' /\ PromotionBeside(y, x)'
  BY <1>p, <1>1, <1>2 DEF MoveOwn, MovedBeside, MovedOther, MovedTorn,
    UndoBeside, Own, Unpublished, Unmoved
<1>10. RollbackBeside(x, y)' /\ RollbackBeside(y, x)'
  BY <1>p, <1>1, <1>2 DEF TearingOther, TornLeft, TornVictim, Own, Unpublished,
    Unmoved
<1> QED
  BY <1>p, <1>1, <1>3, <1>4, <1>5, <1>6, <1>7, <1>8, <1>9, <1>10 DEF Both

LEMMA BothMoveAway ==
  ASSUME PackageTypeOK, Structure,
         NEW x \in Writer, NEW y \in Writer \ {x}, Both(x, y), MoveAway(x)
  PROVE  Both(x, y)'
<1>p. PairFacts(x, y)
  BY Pair
<1> USE DEF Recovering, Reading, Building, Moved, Verifying, Promoting, Off,
      Ended, Mine, Torn, Tearing, Late, Looking, Undoing, Keeps, PairFacts,
      Beside, BackupsBeside, RecoveryBeside, RemovalBeside, SweepBeside,
      PromotionBeside, RollbackBeside, MoveAwayEffect
<1>1. MoveAwayEffect(x)
  BY MoveAwayStep
<1>2. /\ NoneLeft(x, y)' <=> NoneLeft(x, y)
      /\ NoneLeft(y, x)' <=> NoneLeft(x, y)
  BY <1>p, <1>1 DEF NoneLeft
<1>3. LeftWhole(x, y)' /\ Gap(x, y)' /\ TornPackage(x, y)'
  BY <1>p, <1>1, <1>2 DEF Gap, LeftWhole, RollbackWhole, TornPackage, LeftApart
<1>4. BackupsBeside(x, y)' /\ BackupsBeside(y, x)'
  BY <1>p, <1>1, <1>2 DEF BackupOwner, EndedWhole, RollbackWhole, TearingOther,
    TornLeft, UndoBacked, Own, Unpublished, Unmoved
<1>5. RecoveryBeside(x, y)' /\ RecoveryBeside(y, x)'
  BY <1>p, <1>1, <1>2 DEF Early, FoundTorn, Listed, ListedOther, OwnerSeen,
    OwnerWhole, RestoreBeside, RestoredGone, SeenStill, Own
<1>6. RemovalBeside(x, y)'
  BY <1>p, <1>1, <1>2 DEF CatchForeign, ClaimCatches, Claimed, Restored,
    Smooth, Own
<1>7. RemovalBeside(y, x)'
  BY <1>p, <1>1, <1>2 DEF CatchForeign, ClaimCatches, Claimed, Early, MoveOwn,
    RestoreBeside, Restored, Smooth, Own, Unpublished, Unmoved
<1>8. SweepBeside(x, y)' /\ SweepBeside(y, x)'
  BY <1>p, <1>1, <1>2 DEF SweepOther, SweepOwner, SweepSafe, Own, Reaching,
    TornLeft
<1>9. PromotionBeside(x, y)' /\ PromotionBeside(y, x)'
  BY <1>p, <1>1, <1>2 DEF MoveOwn, MovedBeside, MovedOther, MovedTorn,
    TearingOther, TornLeft, UndoBeside, Own, Unpublished, Unmoved
<1>10. RollbackBeside(x, y)' /\ RollbackBeside(y, x)'
  BY <1>p, <1>1, <1>2 DEF TearingOther, TornLeft, TornVictim
<1> QED
  BY <1>p, <1>1, <1>3, <1>4, <1>5, <1>6, <1>7, <1>8, <1>9, <1>10 DEF Both

LEMMA BothVerifyBackup ==
  ASSUME PackageTypeOK, Structure,
         NEW x \in Writer, NEW y \in Writer \ {x}, Both(x, y), VerifyBackup(x)
  PROVE  Both(x, y)'
<1>p. PairFacts(x, y)
  BY Pair
<1> USE DEF Recovering, Reading, Building, Moved, Verifying, Promoting, Off,
      Ended, Mine, Torn, Tearing, Late, Looking, Undoing, Keeps, PairFacts,
      Beside, BackupsBeside, RecoveryBeside, RemovalBeside, SweepBeside,
      PromotionBeside, RollbackBeside, VerifyBackupEffect
<1>1. VerifyBackupEffect(x)
  BY VerifyBackupStep
<1>2. /\ NoneLeft(x, y)' <=> NoneLeft(x, y)
      /\ NoneLeft(y, x)' <=> NoneLeft(x, y)
  BY <1>p, <1>1 DEF NoneLeft
<1>3. LeftWhole(x, y)' /\ Gap(x, y)' /\ TornPackage(x, y)'
  BY <1>p, <1>1, <1>2 DEF Gap, LeftWhole, TornPackage, LeftApart
<1>4. BackupsBeside(x, y)' /\ BackupsBeside(y, x)'
  BY <1>p, <1>1, <1>2 DEF BackupOwner, EndedWhole, RollbackWhole, UndoBacked,
    Own, Unpublished, Unmoved
<1>5. RecoveryBeside(x, y)'
  BY <1>p, <1>1, <1>2 DEF Early, FoundTorn, Listed, ListedOther, OwnerSeen,
    OwnerWhole, RestoreBeside, RestoredGone, SeenStill, Own
<1>6. RecoveryBeside(y, x)'
  BY <1>p, <1>1, <1>2 DEF Early, FoundTorn, Gap, Listed, ListedOther,
    OwnerSeen, OwnerWhole, RestoreBeside, RestoredGone, SeenStill, Smooth, Own,
    Unpublished, Unmoved
<1>7. RemovalBeside(x, y)'
  BY <1>p, <1>1, <1>2 DEF CatchForeign, ClaimCatches, Claimed, Restored,
    Smooth, Own
<1>8. RemovalBeside(y, x)'
  BY <1>p, <1>1, <1>2 DEF CatchForeign, ClaimCatches, Claimed, Gap, Restored,
    Smooth, Own, Unpublished, Unmoved
<1>9. SweepBeside(x, y)' /\ SweepBeside(y, x)'
  BY <1>p, <1>1, <1>2 DEF SweepOther, SweepOwner, SweepSafe, Own, Reaching,
    Smooth
<1>10. PromotionBeside(x, y)' /\ PromotionBeside(y, x)'
  BY <1>p, <1>1, <1>2 DEF MoveOwn, MovedBeside, MovedOther, MovedTorn,
    UndoBeside, Own, Unpublished, Unmoved
<1>11. RollbackBeside(x, y)' /\ RollbackBeside(y, x)'
  BY <1>p, <1>1, <1>2 DEF TearingOther, TornLeft, TornVictim, Own, Unpublished,
    Unmoved
<1> QED
  BY <1>p, <1>1, <1>3, <1>4, <1>5, <1>6, <1>7, <1>8, <1>9, <1>10, <1>11 DEF
    Both

LEMMA BothPublish ==
  ASSUME PackageTypeOK, Structure,
         NEW x \in Writer, NEW y \in Writer \ {x}, Both(x, y), Publish(x)
  PROVE  Both(x, y)'
<1>p. PairFacts(x, y)
  BY Pair
<1> USE DEF Recovering, Reading, Building, Moved, Verifying, Promoting, Off,
      Ended, Mine, Torn, Tearing, Late, Looking, Undoing, Keeps, PairFacts,
      Beside, BackupsBeside, RecoveryBeside, RemovalBeside, SweepBeside,
      PromotionBeside, RollbackBeside, PublishEffect
<1>1. PublishEffect(x)
  BY PublishStep
<1>2. /\ NoneLeft(x, y)' <=> NoneLeft(x, y)
      /\ NoneLeft(y, x)' <=> NoneLeft(x, y)
  BY <1>p, <1>1 DEF NoneLeft
<1>3. LeftWhole(x, y)' /\ Gap(x, y)' /\ TornPackage(x, y)'
  BY <1>p, <1>1, <1>2 DEF Gap, LeftWhole, TornPackage, Own, Unpublished,
    Unmoved, LeftApart
<1>4. BackupsBeside(x, y)' /\ BackupsBeside(y, x)'
  BY <1>p, <1>1, <1>2 DEF BackupOwner, EndedWhole, RollbackWhole, UndoBacked,
    Own, Unpublished, Unmoved
<1>5. RecoveryBeside(x, y)' /\ RecoveryBeside(y, x)'
  BY <1>p, <1>1, <1>2 DEF Early, FoundTorn, Listed, ListedOther, OwnerSeen,
    OwnerWhole, RestoreBeside, RestoredGone, SeenStill, Own, MovedBeside
<1>6. RemovalBeside(x, y)'
  BY <1>p, <1>1, <1>2 DEF CatchForeign, ClaimCatches, Claimed, Restored,
    Smooth, Own
<1>7. RemovalBeside(y, x)'
  BY <1>p, <1>1, <1>2 DEF CatchForeign, ClaimCatches, Claimed, Gap,
    MovedBeside, Restored, Smooth, Own, Unpublished, Unmoved
<1>8. SweepBeside(x, y)' /\ SweepBeside(y, x)'
  BY <1>p, <1>1, <1>2 DEF SweepOther, SweepOwner, SweepSafe, Own, Reaching,
    Unpublished, Unmoved
<1>9. PromotionBeside(x, y)' /\ PromotionBeside(y, x)'
  BY <1>p, <1>1, <1>2 DEF MoveOwn, MovedBeside, MovedOther, MovedTorn,
    UndoBeside, Own, Unpublished, Unmoved
<1>10. RollbackBeside(x, y)' /\ RollbackBeside(y, x)'
  BY <1>p, <1>1, <1>2 DEF TearingOther, TornLeft, TornVictim, Own, Unpublished,
    Unmoved, MovedTorn
<1> QED
  BY <1>p, <1>1, <1>3, <1>4, <1>5, <1>6, <1>7, <1>8, <1>9, <1>10 DEF Both

LEMMA BothVerifyOwner ==
  ASSUME PackageTypeOK, Structure,
         NEW x \in Writer, NEW y \in Writer \ {x}, Both(x, y), VerifyOwner(x)
  PROVE  Both(x, y)'
<1>p. PairFacts(x, y)
  BY Pair
<1> USE DEF Recovering, Reading, Building, Moved, Verifying, Promoting, Off,
      Ended, Mine, Torn, Tearing, Late, Looking, Undoing, Keeps, PairFacts,
      Beside, BackupsBeside, RecoveryBeside, RemovalBeside, SweepBeside,
      PromotionBeside, RollbackBeside, VerifyOwnerEffect
<1>1. VerifyOwnerEffect(x)
  BY VerifyOwnerStep
<1>2. /\ NoneLeft(x, y)' <=> NoneLeft(x, y)
      /\ NoneLeft(y, x)' <=> NoneLeft(x, y)
  BY <1>p, <1>1 DEF NoneLeft
<1>3. LeftWhole(x, y)' /\ Gap(x, y)' /\ TornPackage(x, y)'
  BY <1>p, <1>1, <1>2 DEF Gap, LeftWhole, TornPackage, LeftApart
<1>4. BackupsBeside(x, y)' /\ BackupsBeside(y, x)'
  BY <1>p, <1>1, <1>2 DEF BackupOwner, EndedWhole, RollbackWhole, UndoBacked
<1>5. RecoveryBeside(x, y)' /\ RecoveryBeside(y, x)'
  BY <1>p, <1>1, <1>2 DEF Early, FoundTorn, Listed, ListedOther, OwnerSeen,
    OwnerWhole, RestoreBeside, RestoredGone, SeenStill, Own, Smooth
<1>6. RemovalBeside(x, y)'
  BY <1>p, <1>1, <1>2 DEF CatchForeign, ClaimCatches, Claimed, Restored,
    Smooth, Own
<1>7. RemovalBeside(y, x)'
  <2>1. Smooth(y, x)'
    BY <1>p, <1>1, <1>2 DEF Smooth
  <2>2. Claimed(y, x)'
    BY <1>p, <1>1, <1>2 DEF Claimed
  <2>3. Restored(y, x)'
    BY <1>p, <1>1, <1>2 DEF Restored, Smooth
  <2>4. ClaimCatches(y, x)'
    BY <1>p, <1>1, <1>2 DEF ClaimCatches, Claimed, Smooth, Own
  <2>5. CatchForeign(y, x)'
    BY <1>p, <1>1, <1>2 DEF CatchForeign
  <2> QED
    BY <2>1, <2>2, <2>3, <2>4, <2>5
<1>8. SweepBeside(x, y)' /\ SweepBeside(y, x)'
  BY <1>p, <1>1, <1>2 DEF SweepOther, SweepOwner, SweepSafe, Own, Reaching,
    Smooth
<1>9. PromotionBeside(x, y)' /\ PromotionBeside(y, x)'
  BY <1>p, <1>1, <1>2 DEF MoveOwn, MovedBeside, MovedOther, MovedTorn,
    UndoBeside, Own, Unpublished, Unmoved
<1>10. RollbackBeside(x, y)' /\ RollbackBeside(y, x)'
  BY <1>p, <1>1, <1>2 DEF TearingOther, TornLeft, TornVictim
<1> QED
  BY <1>p, <1>1, <1>3, <1>4, <1>5, <1>6, <1>7, <1>8, <1>9, <1>10 DEF Both

LEMMA BothVerifyTree ==
  ASSUME PackageTypeOK, Structure,
         NEW x \in Writer, NEW y \in Writer \ {x}, Both(x, y), VerifyTree(x)
  PROVE  Both(x, y)'
<1>p. PairFacts(x, y)
  BY Pair
<1> USE DEF Recovering, Reading, Building, Moved, Verifying, Promoting, Off,
      Ended, Mine, Torn, Tearing, Late, Looking, Undoing, Keeps, PairFacts,
      Beside, BackupsBeside, RecoveryBeside, RemovalBeside, SweepBeside,
      PromotionBeside, RollbackBeside, VerifyTreeEffect
<1>1. VerifyTreeEffect(x)
  BY VerifyTreeStep
<1>2. /\ NoneLeft(x, y)' <=> NoneLeft(x, y)
      /\ NoneLeft(y, x)' <=> NoneLeft(x, y)
  BY <1>p, <1>1 DEF NoneLeft
<1>3. LeftWhole(x, y)' /\ Gap(x, y)' /\ TornPackage(x, y)'
  BY <1>p, <1>1, <1>2 DEF Gap, LeftWhole, TornPackage, LeftApart
<1>4. BackupsBeside(x, y)' /\ BackupsBeside(y, x)'
  BY <1>p, <1>1, <1>2 DEF BackupOwner, EndedWhole, RollbackWhole, TearingOther,
    TornLeft, UndoBacked
<1>5. RecoveryBeside(x, y)' /\ RecoveryBeside(y, x)'
  BY <1>p, <1>1, <1>2 DEF Early, FoundTorn, Listed, ListedOther, OwnerSeen,
    OwnerWhole, RestoreBeside, RestoredGone, SeenStill, Own, Smooth, TornLeft
<1>6. RemovalBeside(x, y)'
  BY <1>p, <1>1, <1>2 DEF CatchForeign, ClaimCatches, Claimed, Restored,
    Smooth, Own
<1>7. RemovalBeside(y, x)'
  <2>1. Smooth(y, x)'
    BY <1>p, <1>1, <1>2 DEF Smooth, TornLeft
  <2>2. Claimed(y, x)'
    BY <1>p, <1>1, <1>2 DEF Claimed, TornLeft
  <2>3. Restored(y, x)'
    BY <1>p, <1>1, <1>2 DEF Restored, Smooth, TornLeft
  <2>4. ClaimCatches(y, x)'
    BY <1>p, <1>1, <1>2 DEF ClaimCatches, Claimed, Smooth, TornLeft, Own
  <2>5. CatchForeign(y, x)'
    BY <1>p, <1>1, <1>2 DEF CatchForeign
  <2> QED
    BY <2>1, <2>2, <2>3, <2>4, <2>5
<1>8. SweepBeside(x, y)' /\ SweepBeside(y, x)'
  BY <1>p, <1>1, <1>2 DEF SweepOther, SweepOwner, SweepSafe, Own, Reaching,
    Smooth, TornPackage
<1>9. PromotionBeside(x, y)' /\ PromotionBeside(y, x)'
  BY <1>p, <1>1, <1>2 DEF MoveOwn, MovedBeside, MovedOther, MovedTorn,
    TearingOther, UndoBeside, Own, Unpublished, Unmoved, TornLeft
<1>10. RollbackBeside(x, y)' /\ RollbackBeside(y, x)'
  BY <1>p, <1>1, <1>2 DEF TearingOther, TornLeft, TornVictim
<1> QED
  BY <1>p, <1>1, <1>3, <1>4, <1>5, <1>6, <1>7, <1>8, <1>9, <1>10 DEF Both

LEMMA BothTidyBackup ==
  ASSUME PackageTypeOK, Structure,
         NEW x \in Writer, NEW y \in Writer \ {x}, Both(x, y), TidyBackup(x)
  PROVE  Both(x, y)'
<1>p. PairFacts(x, y)
  BY Pair
<1> USE DEF Recovering, Reading, Building, Moved, Verifying, Promoting, Off,
      Ended, Mine, Torn, Tearing, Late, Looking, Undoing, Keeps, PairFacts,
      Beside, BackupsBeside, RecoveryBeside, RemovalBeside, SweepBeside,
      PromotionBeside, RollbackBeside, TidyBackupEffect
<1>1. TidyBackupEffect(x)
  BY TidyBackupStep
<1>2. /\ NoneLeft(x, y)' <=> NoneLeft(x, y)
      /\ NoneLeft(y, x)' <=> NoneLeft(x, y)
  BY <1>p, <1>1 DEF NoneLeft
<1>3. LeftWhole(x, y)' /\ Gap(x, y)' /\ TornPackage(x, y)'
  BY <1>p, <1>1, <1>2 DEF Claimed, Gap, LeftWhole, Smooth, TornPackage, Own,
    Unpublished, Unmoved, LeftApart
<1>4. BackupsBeside(x, y)' /\ BackupsBeside(y, x)'
  BY <1>p, <1>1, <1>2 DEF BackupOwner, EndedWhole, RollbackWhole, UndoBacked,
    Own, Unpublished, Unmoved
<1>5. RecoveryBeside(x, y)' /\ RecoveryBeside(y, x)'
  BY <1>p, <1>1, <1>2 DEF Early, FoundTorn, Listed, ListedOther, OwnerSeen,
    OwnerWhole, RestoreBeside, RestoredGone, SeenStill, Own, Smooth,
    Unpublished, Unmoved
<1>6. RemovalBeside(x, y)'
  BY <1>p, <1>1, <1>2 DEF CatchForeign, ClaimCatches, Claimed, Restored,
    Smooth, Own
<1>7. RemovalBeside(y, x)'
  BY <1>p, <1>1, <1>2 DEF BackupOwner, CatchForeign, ClaimCatches, Claimed,
    Restored, Smooth, TornLeft, Own, Unpublished, Unmoved
<1>8. SweepBeside(x, y)' /\ SweepBeside(y, x)'
  BY <1>p, <1>1, <1>2 DEF SweepOther, SweepOwner, SweepSafe, Own, Reaching,
    Smooth, Unpublished, Unmoved
<1>9. PromotionBeside(x, y)' /\ PromotionBeside(y, x)'
  BY <1>p, <1>1, <1>2 DEF MoveOwn, MovedBeside, MovedOther, MovedTorn,
    UndoBeside, Own, Unpublished, Unmoved
<1>10. RollbackBeside(x, y)' /\ RollbackBeside(y, x)'
  BY <1>p, <1>1, <1>2 DEF TearingOther, TornLeft, TornVictim, Own, Unpublished,
    Unmoved
<1> QED
  BY <1>p, <1>1, <1>3, <1>4, <1>5, <1>6, <1>7, <1>8, <1>9, <1>10 DEF Both

LEMMA BothTidyDone ==
  ASSUME PackageTypeOK, Structure,
         NEW x \in Writer, NEW y \in Writer \ {x}, Both(x, y), TidyDone(x)
  PROVE  Both(x, y)'
<1>p. PairFacts(x, y)
  BY Pair
<1> USE DEF Recovering, Reading, Building, Moved, Verifying, Promoting, Off,
      Ended, Mine, Torn, Tearing, Late, Looking, Undoing, Keeps, PairFacts,
      Beside, BackupsBeside, RecoveryBeside, RemovalBeside, SweepBeside,
      PromotionBeside, RollbackBeside, TidyDoneEffect
<1>1. TidyDoneEffect(x)
  BY TidyDoneStep
<1>2. /\ NoneLeft(x, y)' <=> NoneLeft(x, y)
      /\ NoneLeft(y, x)' <=> NoneLeft(x, y)
  BY <1>p, <1>1 DEF NoneLeft
<1>3. LeftWhole(x, y)' /\ Gap(x, y)' /\ TornPackage(x, y)'
  BY <1>p, <1>1, <1>2 DEF Gap, LeftWhole, TornPackage, LeftApart
<1>4. BackupsBeside(x, y)' /\ BackupsBeside(y, x)'
  BY <1>p, <1>1, <1>2 DEF BackupOwner, EndedWhole, RollbackWhole, UndoBacked
<1>5. RecoveryBeside(x, y)' /\ RecoveryBeside(y, x)'
  BY <1>p, <1>1, <1>2 DEF Early, FoundTorn, Listed, ListedOther, OwnerSeen,
    OwnerWhole, RestoreBeside, RestoredGone, SeenStill, Own
<1>6. RemovalBeside(x, y)'
  BY <1>p, <1>1, <1>2 DEF CatchForeign, ClaimCatches, Claimed, Restored,
    Smooth, Own
<1>7. RemovalBeside(y, x)'
  BY <1>p, <1>1, <1>2 DEF CatchForeign, ClaimCatches, Claimed, Restored,
    Smooth, Own
<1>8. SweepBeside(x, y)' /\ SweepBeside(y, x)'
  BY <1>p, <1>1, <1>2 DEF SweepOther, SweepOwner, SweepSafe, Own, Reaching,
    Smooth, TornLeft
<1>9. PromotionBeside(x, y)' /\ PromotionBeside(y, x)'
  BY <1>p, <1>1, <1>2 DEF MoveOwn, MovedBeside, MovedOther, MovedTorn,
    UndoBeside
<1>10. RollbackBeside(x, y)' /\ RollbackBeside(y, x)'
  BY <1>p, <1>1, <1>2 DEF TearingOther, TornLeft, TornVictim
<1> QED
  BY <1>p, <1>1, <1>3, <1>4, <1>5, <1>6, <1>7, <1>8, <1>9, <1>10 DEF Both

LEMMA BothUndoPublished ==
  ASSUME PackageTypeOK, Structure,
         NEW x \in Writer, NEW y \in Writer \ {x}, Both(x, y), UndoPublished(x)
  PROVE  Both(x, y)'
<1>p. PairFacts(x, y)
  BY Pair
<1> USE DEF Recovering, Reading, Building, Moved, Verifying, Promoting, Off,
      Ended, Mine, Torn, Tearing, Late, Looking, Undoing, Keeps, PairFacts,
      Beside, BackupsBeside, RecoveryBeside, RemovalBeside, SweepBeside,
      PromotionBeside, RollbackBeside, UndoPublishedEffect
<1>1. UndoPublishedEffect(x)
  BY UndoPublishedStep
<1>2. /\ NoneLeft(x, y)' <=> NoneLeft(x, y)
      /\ NoneLeft(y, x)' <=> NoneLeft(x, y)
  BY <1>p, <1>1 DEF NoneLeft
<1>3. LeftWhole(x, y)' /\ Gap(x, y)' /\ TornPackage(x, y)'
  BY <1>p, <1>1, <1>2 DEF Gap, LeftWhole, TornPackage, LeftApart
<1>4. BackupsBeside(x, y)' /\ BackupsBeside(y, x)'
  BY <1>p, <1>1, <1>2 DEF BackupOwner, EndedWhole, RollbackWhole, UndoBacked
<1>5. RecoveryBeside(x, y)' /\ RecoveryBeside(y, x)'
  BY <1>p, <1>1, <1>2 DEF Early, FoundTorn, Listed, ListedOther, OwnerSeen,
    OwnerWhole, RestoreBeside, RestoredGone, SeenStill, Own
<1>6. RemovalBeside(x, y)'
  BY <1>p, <1>1, <1>2 DEF CatchForeign, ClaimCatches, Claimed, Restored,
    Smooth, Own
<1>7. RemovalBeside(y, x)'
  BY <1>p, <1>1, <1>2 DEF CatchForeign, ClaimCatches, Claimed, Restored,
    Smooth, Own
<1>8. SweepBeside(x, y)' /\ SweepBeside(y, x)'
  BY <1>p, <1>1, <1>2 DEF SweepOther, SweepOwner, SweepSafe, Own, Reaching
<1>9. PromotionBeside(x, y)' /\ PromotionBeside(y, x)'
  BY <1>p, <1>1, <1>2 DEF MoveOwn, MovedBeside, MovedOther, MovedTorn,
    UndoBeside, Own, Unpublished, Unmoved
<1>10. RollbackBeside(x, y)' /\ RollbackBeside(y, x)'
  BY <1>p, <1>1, <1>2 DEF TearingOther, TornLeft, TornVictim, Own, Unpublished,
    Unmoved
<1> QED
  BY <1>p, <1>1, <1>3, <1>4, <1>5, <1>6, <1>7, <1>8, <1>9, <1>10 DEF Both

LEMMA BothTearPackage ==
  ASSUME PackageTypeOK, Structure,
         NEW x \in Writer, NEW y \in Writer \ {x}, Both(x, y), TearPackage(x)
  PROVE  Both(x, y)'
<1>p. PairFacts(x, y)
  BY Pair
<1> USE DEF Recovering, Reading, Building, Moved, Verifying, Promoting, Off,
      Ended, Mine, Torn, Tearing, Late, Looking, Undoing, Keeps, PairFacts,
      Beside, BackupsBeside, RecoveryBeside, RemovalBeside, SweepBeside,
      PromotionBeside, RollbackBeside, TearPackageEffect
<1>1. TearPackageEffect(x)
  BY TearPackageStep
<1>2. /\ NoneLeft(x, y)' <=> NoneLeft(x, y)
      /\ NoneLeft(y, x)' <=> NoneLeft(x, y)
  BY <1>p, <1>1 DEF NoneLeft
<1>3. LeftWhole(x, y)' /\ Gap(x, y)' /\ TornPackage(x, y)'
  BY <1>p, <1>1, <1>2 DEF Gap, LeftWhole, TornPackage, Own, Unpublished,
    Unmoved, LeftApart
<1>4. BackupsBeside(x, y)' /\ BackupsBeside(y, x)'
  BY <1>p, <1>1, <1>2 DEF BackupOwner, EndedWhole, RollbackWhole, UndoBacked,
    Own, Unpublished, Unmoved
<1>5. RecoveryBeside(x, y)' /\ RecoveryBeside(y, x)'
  BY <1>p, <1>1, <1>2 DEF Early, FoundTorn, Listed, ListedOther, OwnerSeen,
    OwnerWhole, RestoreBeside, RestoredGone, SeenStill, Own
<1>6. RemovalBeside(x, y)'
  BY <1>p, <1>1, <1>2 DEF CatchForeign, ClaimCatches, Claimed, Restored,
    Smooth, Own
<1>7. RemovalBeside(y, x)'
  BY <1>p, <1>1, <1>2 DEF CatchForeign, ClaimCatches, Claimed, Restored,
    RollbackWhole, Smooth, TearingOther, TornLeft, Own
<1>8. SweepBeside(x, y)' /\ SweepBeside(y, x)'
  BY <1>p, <1>1, <1>2 DEF SweepOther, SweepOwner, SweepSafe, Own, Reaching,
    Smooth, UndoBacked
<1>9. PromotionBeside(x, y)'
  BY <1>p, <1>1, <1>2 DEF MoveOwn, MovedBeside, MovedOther, MovedTorn,
    UndoBeside
<1>10. PromotionBeside(y, x)'
  BY <1>p, <1>1, <1>2 DEF MoveOwn, MovedBeside, MovedOther, MovedTorn,
    TearingOther, UndoBeside, Own, Unpublished, Unmoved
<1>11. RollbackBeside(x, y)' /\ RollbackBeside(y, x)'
  BY <1>p, <1>1, <1>2 DEF TearingOther, TornLeft, TornVictim, RollbackWhole
<1> QED
  BY <1>p, <1>1, <1>3, <1>4, <1>5, <1>6, <1>7, <1>8, <1>9, <1>10, <1>11 DEF
    Both

LEMMA BothRemovePackage ==
  ASSUME PackageTypeOK, Structure,
         NEW x \in Writer, NEW y \in Writer \ {x}, Both(x, y), RemovePackage(x)
  PROVE  Both(x, y)'
<1>p. PairFacts(x, y)
  BY Pair
<1> USE DEF Recovering, Reading, Building, Moved, Verifying, Promoting, Off,
      Ended, Mine, Torn, Tearing, Late, Looking, Undoing, Keeps, PairFacts,
      Beside, BackupsBeside, RecoveryBeside, RemovalBeside, SweepBeside,
      PromotionBeside, RollbackBeside, RemovePackageEffect
<1>1. RemovePackageEffect(x)
  BY RemovePackageStep
<1>2. /\ NoneLeft(x, y)' <=> NoneLeft(x, y)
      /\ NoneLeft(y, x)' <=> NoneLeft(x, y)
  BY <1>p, <1>1 DEF NoneLeft
<1>3. LeftWhole(x, y)' /\ Gap(x, y)' /\ TornPackage(x, y)'
  BY <1>p, <1>1, <1>2 DEF Gap, LeftWhole, RollbackWhole, TornPackage, LeftApart
<1>4. BackupsBeside(x, y)' /\ BackupsBeside(y, x)'
  BY <1>p, <1>1, <1>2 DEF BackupOwner, EndedWhole, RollbackWhole, UndoBacked
<1>5. RecoveryBeside(x, y)' /\ RecoveryBeside(y, x)'
  BY <1>p, <1>1, <1>2 DEF Early, FoundTorn, Listed, ListedOther, OwnerSeen,
    OwnerWhole, RestoreBeside, RestoredGone, SeenStill, Own, Smooth, UndoBacked
<1>6. RemovalBeside(x, y)'
  BY <1>p, <1>1, <1>2 DEF CatchForeign, ClaimCatches, Claimed, Restored,
    Smooth, Own
<1>7. RemovalBeside(y, x)'
  BY <1>p, <1>1, <1>2 DEF CatchForeign, ClaimCatches, Claimed, Restored,
    RollbackWhole, Smooth, TornLeft, TornVictim, UndoBacked, Own
<1>8. SweepBeside(x, y)' /\ SweepBeside(y, x)'
  BY <1>p, <1>1, <1>2 DEF SweepOther, SweepOwner, SweepSafe, Own, Reaching,
    TornVictim
<1>9. PromotionBeside(x, y)' /\ PromotionBeside(y, x)'
  BY <1>p, <1>1, <1>2 DEF MoveOwn, MovedBeside, MovedOther, MovedTorn,
    RollbackWhole, TornVictim, UndoBeside, Own, Unpublished, Unmoved,
    TearingOther, TornLeft, UndoBacked
<1>10. RollbackBeside(x, y)' /\ RollbackBeside(y, x)'
  BY <1>p, <1>1, <1>2 DEF TearingOther, TornLeft, TornVictim
<1> QED
  BY <1>p, <1>1, <1>3, <1>4, <1>5, <1>6, <1>7, <1>8, <1>9, <1>10 DEF Both

LEMMA BothChooseUndo ==
  ASSUME PackageTypeOK, Structure,
         NEW x \in Writer, NEW y \in Writer \ {x}, Both(x, y), ChooseUndo(x)
  PROVE  Both(x, y)'
<1>p. PairFacts(x, y)
  BY Pair
<1> USE DEF Recovering, Reading, Building, Moved, Verifying, Promoting, Off,
      Ended, Mine, Torn, Tearing, Late, Looking, Undoing, Keeps, PairFacts,
      Beside, BackupsBeside, RecoveryBeside, RemovalBeside, SweepBeside,
      PromotionBeside, RollbackBeside, ChooseUndoEffect
<1>1. ChooseUndoEffect(x)
  BY ChooseUndoStep
<1>2. /\ NoneLeft(x, y)' <=> NoneLeft(x, y)
      /\ NoneLeft(y, x)' <=> NoneLeft(x, y)
  BY <1>p, <1>1 DEF NoneLeft
<1>3. LeftWhole(x, y)' /\ Gap(x, y)' /\ TornPackage(x, y)'
  BY <1>p, <1>1, <1>2 DEF Gap, LeftWhole, TornPackage, LeftApart
<1>4. BackupsBeside(x, y)' /\ BackupsBeside(y, x)'
  BY <1>p, <1>1, <1>2 DEF BackupOwner, EndedWhole, RollbackWhole, UndoBacked,
    UndoBeside, Own, Unpublished, Unmoved
<1>5. RecoveryBeside(x, y)' /\ RecoveryBeside(y, x)'
  BY <1>p, <1>1, <1>2 DEF Early, FoundTorn, Listed, ListedOther, OwnerSeen,
    OwnerWhole, RestoreBeside, RestoredGone, SeenStill, Own
<1>6. RemovalBeside(x, y)'
  BY <1>p, <1>1, <1>2 DEF CatchForeign, ClaimCatches, Claimed, Restored,
    Smooth, Own
<1>7. RemovalBeside(y, x)'
  BY <1>p, <1>1, <1>2 DEF CatchForeign, ClaimCatches, Claimed, Restored,
    Smooth, Own, Unpublished, Unmoved
<1>8. SweepBeside(x, y)' /\ SweepBeside(y, x)'
  BY <1>p, <1>1, <1>2 DEF SweepOther, SweepOwner, SweepSafe, Own, Reaching
<1>9. PromotionBeside(x, y)' /\ PromotionBeside(y, x)'
  BY <1>p, <1>1, <1>2 DEF MoveOwn, MovedBeside, MovedOther, MovedTorn,
    UndoBeside
<1>10. RollbackBeside(x, y)' /\ RollbackBeside(y, x)'
  BY <1>p, <1>1, <1>2 DEF TearingOther, TornLeft, TornVictim
<1> QED
  BY <1>p, <1>1, <1>3, <1>4, <1>5, <1>6, <1>7, <1>8, <1>9, <1>10 DEF Both

LEMMA BothPutBack ==
  ASSUME PackageTypeOK, Structure,
         NEW x \in Writer, NEW y \in Writer \ {x}, Both(x, y), PutBack(x)
  PROVE  Both(x, y)'
<1>p. PairFacts(x, y)
  BY Pair
<1> USE DEF Recovering, Reading, Building, Moved, Verifying, Promoting, Off,
      Ended, Mine, Torn, Tearing, Late, Looking, Undoing, Keeps, PairFacts,
      Beside, BackupsBeside, RecoveryBeside, RemovalBeside, SweepBeside,
      PromotionBeside, RollbackBeside, PutBackEffect
<1>1. PutBackEffect(x)
  BY PutBackStep
<1>2. /\ NoneLeft(x, y)' <=> NoneLeft(x, y)
      /\ NoneLeft(y, x)' <=> NoneLeft(x, y)
  BY <1>p, <1>1 DEF NoneLeft
<1>3. LeftWhole(x, y)' /\ Gap(x, y)' /\ TornPackage(x, y)'
  BY <1>p, <1>1, <1>2 DEF Gap, LeftWhole, RollbackWhole, TornPackage, LeftApart
<1>4. BackupsBeside(x, y)' /\ BackupsBeside(y, x)'
  BY <1>p, <1>1, <1>2 DEF BackupOwner, EndedWhole, RollbackWhole, UndoBacked,
    MovedOther
<1>5. RecoveryBeside(x, y)' /\ RecoveryBeside(y, x)'
  BY <1>p, <1>1, <1>2 DEF Early, FoundTorn, Listed, ListedOther, OwnerSeen,
    OwnerWhole, RestoreBeside, RestoredGone, SeenStill, Own
<1>6. RemovalBeside(x, y)'
  BY <1>p, <1>1, <1>2 DEF CatchForeign, ClaimCatches, Claimed, Restored,
    Smooth, Own
<1>7. RemovalBeside(y, x)'
  BY <1>p, <1>1, <1>2 DEF CatchForeign, ClaimCatches, Claimed, Restored,
    RollbackWhole, Smooth, TornLeft, Own
<1>8. SweepBeside(x, y)' /\ SweepBeside(y, x)'
  BY <1>p, <1>1, <1>2 DEF SweepOther, SweepOwner, SweepSafe, Own, Reaching
<1>9. PromotionBeside(x, y)' /\ PromotionBeside(y, x)'
  BY <1>p, <1>1, <1>2 DEF MoveOwn, MovedBeside, MovedOther, MovedTorn,
    UndoBeside, RollbackWhole
<1>10. RollbackBeside(x, y)' /\ RollbackBeside(y, x)'
  BY <1>p, <1>1, <1>2 DEF RollbackWhole, TearingOther, TornLeft, TornVictim
<1> QED
  BY <1>p, <1>1, <1>3, <1>4, <1>5, <1>6, <1>7, <1>8, <1>9, <1>10 DEF Both

LEMMA BothDropBackup ==
  ASSUME PackageTypeOK, Structure,
         NEW x \in Writer, NEW y \in Writer \ {x}, Both(x, y), DropBackup(x)
  PROVE  Both(x, y)'
<1>p. PairFacts(x, y)
  BY Pair
<1> USE DEF Recovering, Reading, Building, Moved, Verifying, Promoting, Off,
      Ended, Mine, Torn, Tearing, Late, Looking, Undoing, Keeps, PairFacts,
      Beside, BackupsBeside, RecoveryBeside, RemovalBeside, SweepBeside,
      PromotionBeside, RollbackBeside, DropBackupEffect
<1>1. DropBackupEffect(x)
  BY DropBackupStep
<1>2. /\ NoneLeft(x, y)' <=> NoneLeft(x, y)
      /\ NoneLeft(y, x)' <=> NoneLeft(x, y)
  BY <1>p, <1>1 DEF NoneLeft
<1>3. LeftWhole(x, y)' /\ Gap(x, y)' /\ TornPackage(x, y)'
  BY <1>p, <1>1, <1>2 DEF CatchForeign, Gap, LeftWhole, SweepSafe, TornPackage,
    Own, Unpublished, Unmoved, Reaching, LeftApart
<1>4. BackupsBeside(x, y)' /\ BackupsBeside(y, x)'
  BY <1>p, <1>1, <1>2 DEF BackupOwner, EndedWhole, RollbackWhole, UndoBacked,
    Own, Unpublished, Unmoved
<1>5. RecoveryBeside(x, y)' /\ RecoveryBeside(y, x)'
  BY <1>p, <1>1, <1>2 DEF Early, FoundTorn, Listed, ListedOther, OwnerSeen,
    OwnerWhole, RestoreBeside, RestoredGone, SeenStill, Own
<1>6. RemovalBeside(x, y)'
  BY <1>p, <1>1, <1>2 DEF CatchForeign, ClaimCatches, Claimed, Restored,
    Smooth, Own
<1>7. RemovalBeside(y, x)'
  BY <1>p, <1>1, <1>2 DEF CatchForeign, ClaimCatches, Claimed, Restored,
    Smooth, TornLeft, Own
<1>8. SweepBeside(x, y)' /\ SweepBeside(y, x)'
  BY <1>p, <1>1, <1>2 DEF SweepOther, SweepOwner, SweepSafe, Own, Reaching,
    Smooth
<1>9. PromotionBeside(x, y)' /\ PromotionBeside(y, x)'
  BY <1>p, <1>1, <1>2 DEF MoveOwn, MovedBeside, MovedOther, MovedTorn,
    UndoBeside, Own, Unpublished, Unmoved
<1>10. RollbackBeside(x, y)' /\ RollbackBeside(y, x)'
  BY <1>p, <1>1, <1>2 DEF TearingOther, TornLeft, TornVictim, Own, Unpublished,
    Unmoved
<1> QED
  BY <1>p, <1>1, <1>3, <1>4, <1>5, <1>6, <1>7, <1>8, <1>9, <1>10 DEF Both

LEMMA BothDropDone ==
  ASSUME PackageTypeOK, Structure,
         NEW x \in Writer, NEW y \in Writer \ {x}, Both(x, y), DropDone(x)
  PROVE  Both(x, y)'
<1>p. PairFacts(x, y)
  BY Pair
<1> USE DEF Recovering, Reading, Building, Moved, Verifying, Promoting, Off,
      Ended, Mine, Torn, Tearing, Late, Looking, Undoing, Keeps, PairFacts,
      Beside, BackupsBeside, RecoveryBeside, RemovalBeside, SweepBeside,
      PromotionBeside, RollbackBeside, DropDoneEffect
<1>1. DropDoneEffect(x)
  BY DropDoneStep
<1>2. /\ NoneLeft(x, y)' <=> NoneLeft(x, y)
      /\ NoneLeft(y, x)' <=> NoneLeft(x, y)
  BY <1>p, <1>1 DEF NoneLeft
<1>3. LeftWhole(x, y)' /\ Gap(x, y)' /\ TornPackage(x, y)'
  BY <1>p, <1>1, <1>2 DEF Gap, LeftWhole, TornPackage, LeftApart
<1>4. BackupsBeside(x, y)' /\ BackupsBeside(y, x)'
  BY <1>p, <1>1, <1>2 DEF BackupOwner, EndedWhole, RollbackWhole, UndoBacked
<1>5. RecoveryBeside(x, y)' /\ RecoveryBeside(y, x)'
  BY <1>p, <1>1, <1>2 DEF Early, FoundTorn, Listed, ListedOther, OwnerSeen,
    OwnerWhole, RestoreBeside, RestoredGone, SeenStill, Own
<1>6. RemovalBeside(x, y)'
  BY <1>p, <1>1, <1>2 DEF CatchForeign, ClaimCatches, Claimed, Restored,
    Smooth, Own
<1>7. RemovalBeside(y, x)'
  <2>1. Smooth(y, x)'
    BY <1>p, <1>1, <1>2 DEF Smooth
  <2>2. Claimed(y, x)'
    BY <1>p, <1>1, <1>2 DEF Claimed
  <2>3. Restored(y, x)'
    BY <1>p, <1>1, <1>2 DEF Restored
  <2>4. ClaimCatches(y, x)'
    BY <1>p, <1>1, <1>2 DEF CatchForeign, ClaimCatches, TornLeft, Own
  <2>5. CatchForeign(y, x)'
    BY <1>p, <1>1, <1>2 DEF CatchForeign
  <2> QED
    BY <2>1, <2>2, <2>3, <2>4, <2>5
<1>8. SweepBeside(x, y)' /\ SweepBeside(y, x)'
  BY <1>p, <1>1, <1>2 DEF SweepOther, SweepOwner, SweepSafe, Own, Reaching
<1>9. PromotionBeside(x, y)' /\ PromotionBeside(y, x)'
  BY <1>p, <1>1, <1>2 DEF MoveOwn, MovedBeside, MovedOther, MovedTorn,
    UndoBeside
<1>10. RollbackBeside(x, y)' /\ RollbackBeside(y, x)'
  BY <1>p, <1>1, <1>2 DEF TearingOther, TornLeft, TornVictim
<1> QED
  BY <1>p, <1>1, <1>3, <1>4, <1>5, <1>6, <1>7, <1>8, <1>9, <1>10 DEF Both

-----------------------------------------------------------------------------
(* Two calls, step by step: what is gone stays gone.                       *)

\* What the steps of x do to trees that are gone is computed from.
GoneFacts(x, y) ==
  /\ StayGone(x, y) /\ ~Gone(x, y, NoTree)
  /\ Unpublished(x) => x \notin superseded
  /\ Unpublished(y) => y \notin superseded

LEMMA GonePair ==
  ASSUME PackageTypeOK, Structure, Dated,
         NEW x \in Writer, NEW y \in Writer \ {x}, StayGone(x, y)
  PROVE  GoneFacts(x, y)
<1>1. NoTree \notin superseded
  BY PackageAssumption DEF PackageTypeOK, Tree
<1>2. ASSUME NEW w \in Writer PROVE ~Replaces(w, NoTree)
  BY DEF Structure, LocalsOK, Replaces, Replaced, Verifying, Promoting
<1> QED
  BY <1>1, <1>2 DEF GoneFacts, Gone, Dated

LEMMA GoneStart ==
  ASSUME PackageTypeOK, Structure, Dated,
         NEW x \in Writer, NEW y \in Writer \ {x}, TwoRun(x, y), Start(x)
  PROVE  StayGone(x, y)'
<1>p. PairFacts(x, y) /\ GoneFacts(x, y) /\ Both(x, y)
  BY Pair, GonePair DEF TwoRun
<1> USE DEF Recovering, Reading, Building, Moved, Verifying, Promoting, Off,
      Ended, Mine, Torn, Tearing, Late, Looking, Undoing, Keeps, PairFacts,
      Beside, BackupsBeside, RecoveryBeside, RemovalBeside, SweepBeside,
      PromotionBeside, RollbackBeside, GoneFacts, StayGone, GoneBeside, Gone,
      Replaces, Replaced, StartEffect
<1>1. StartEffect(x)
  BY StartStep
<1>2. superseded' = superseded
  BY DEF Start, History
<1>3. GonePackage(x, y)' /\ GoneLeft(x, y)'
  BY <1>p, <1>1, <1>2 DEF GoneLeft, GonePackage, Sweeping, LeftApart
<1>4. GoneBeside(x, y)'
  BY <1>p, <1>1, <1>2 DEF GoneBackup, GoneClaim, GonePick, Promised,
    Publishing, WillRestore, PackageSame, RollingBack, Own, Unpublished,
    Unmoved
<1>5. GoneBeside(y, x)'
  BY <1>p, <1>1, <1>2 DEF GoneBackup, GoneClaim, GonePick, Promised, Smooth,
    Publishing, WillRestore, PackageSame, RollingBack, Own, Unpublished,
    Unmoved
<1> QED
  BY <1>3, <1>4, <1>5

LEMMA GoneListBackups ==
  ASSUME PackageTypeOK, Structure, Dated,
         NEW x \in Writer, NEW y \in Writer \ {x}, TwoRun(x, y), ListBackups(x)
  PROVE  StayGone(x, y)'
<1>p. PairFacts(x, y) /\ GoneFacts(x, y) /\ Both(x, y)
  BY Pair, GonePair DEF TwoRun
<1> USE DEF Recovering, Reading, Building, Moved, Verifying, Promoting, Off,
      Ended, Mine, Torn, Tearing, Late, Looking, Undoing, Keeps, PairFacts,
      Beside, BackupsBeside, RecoveryBeside, RemovalBeside, SweepBeside,
      PromotionBeside, RollbackBeside, GoneFacts, StayGone, GoneBeside, Gone,
      Replaces, Replaced, ListBackupsEffect
<1>1. ListBackupsEffect(x)
  BY ListBackupsStep
<1>2. superseded' = superseded
  BY DEF ListBackups, History
<1>3. /\ \A b \in Backup : b \in Found <=> backup[b] # NoTree
      /\ y \in Found <=> backup[y] # NoTree
      /\ Found = {} => NoneLeft(x, y) /\ backup[y] = NoTree
  BY <1>p DEF Found, NoneLeft
<1>4. GonePackage(x, y)' /\ GoneLeft(x, y)'
  BY <1>p, <1>1, <1>2, <1>3 DEF GoneLeft, GonePackage, Sweeping, LeftApart
<1>5. GoneBeside(x, y)'
  BY <1>p, <1>1, <1>2, <1>3 DEF GoneBackup, GoneClaim, GonePick, Promised,
    Publishing, WillRestore, PackageSame, RollingBack, Own, Unpublished,
    Unmoved
<1>6. GoneBeside(y, x)'
  BY <1>p, <1>1, <1>2, <1>3 DEF GoneBackup, GoneClaim, GonePick, Promised,
    Smooth, Publishing, WillRestore, PackageSame, RollingBack, Own,
    Unpublished, Unmoved
<1> QED
  BY <1>4, <1>5, <1>6

LEMMA GoneSeePackage ==
  ASSUME PackageTypeOK, Structure, Dated,
         NEW x \in Writer, NEW y \in Writer \ {x}, TwoRun(x, y), SeePackage(x)
  PROVE  StayGone(x, y)'
<1>p. PairFacts(x, y) /\ GoneFacts(x, y) /\ Both(x, y)
  BY Pair, GonePair DEF TwoRun
<1> USE DEF Recovering, Reading, Building, Moved, Verifying, Promoting, Off,
      Ended, Mine, Torn, Tearing, Late, Looking, Undoing, Keeps, PairFacts,
      Beside, BackupsBeside, RecoveryBeside, RemovalBeside, SweepBeside,
      PromotionBeside, RollbackBeside, GoneFacts, StayGone, GoneBeside, Gone,
      Replaces, Replaced, SeePackageEffect
<1>1. SeePackageEffect(x)
  BY SeePackageStep
<1>2. superseded' = superseded
  BY DEF SeePackage, History
<1>3. GonePackage(x, y)' /\ GoneLeft(x, y)'
  BY <1>p, <1>1, <1>2 DEF GoneLeft, GonePackage, Sweeping, LeftApart
<1>4. GoneBeside(x, y)'
  BY <1>p, <1>1, <1>2 DEF GoneBackup, GoneClaim, GonePick, Promised,
    Publishing, WillRestore, PackageSame, RollingBack, Own, Unpublished,
    Unmoved
<1>5. GoneBeside(y, x)'
  BY <1>p, <1>1, <1>2 DEF GoneBackup, GoneClaim, GonePick, Promised, Smooth,
    Publishing, WillRestore, PackageSame, RollingBack, Own, Unpublished,
    Unmoved
<1> QED
  BY <1>3, <1>4, <1>5

LEMMA GoneNoteOwner ==
  ASSUME PackageTypeOK, Structure, Dated,
         NEW x \in Writer, NEW y \in Writer \ {x}, TwoRun(x, y), NoteOwner(x)
  PROVE  StayGone(x, y)'
<1>p. PairFacts(x, y) /\ GoneFacts(x, y) /\ Both(x, y)
  BY Pair, GonePair DEF TwoRun
<1> USE DEF Recovering, Reading, Building, Moved, Verifying, Promoting, Off,
      Ended, Mine, Torn, Tearing, Late, Looking, Undoing, Keeps, PairFacts,
      Beside, BackupsBeside, RecoveryBeside, RemovalBeside, SweepBeside,
      PromotionBeside, RollbackBeside, GoneFacts, StayGone, GoneBeside, Gone,
      Replaces, Replaced, NoteOwnerEffect
<1>1. NoteOwnerEffect(x)
  BY NoteOwnerStep
<1>2. superseded' = superseded
  BY DEF NoteOwner, History
<1>3. GonePackage(x, y)' /\ GoneLeft(x, y)'
  BY <1>p, <1>1, <1>2 DEF GoneLeft, GonePackage, Sweeping, LeftApart
<1>4. GoneBeside(x, y)'
  BY <1>p, <1>1, <1>2 DEF GoneBackup, GoneClaim, GonePick, Promised,
    Publishing, WillRestore, PackageSame, RollingBack, Own, Unpublished,
    Unmoved
<1>5. GoneBeside(y, x)'
  BY <1>p, <1>1, <1>2 DEF GoneBackup, GoneClaim, GonePick, Promised, Smooth,
    Publishing, WillRestore, PackageSame, RollingBack, Own, Unpublished,
    Unmoved
<1> QED
  BY <1>3, <1>4, <1>5

LEMMA GoneCheckPackage ==
  ASSUME PackageTypeOK, Structure, Dated,
         NEW x \in Writer, NEW y \in Writer \ {x}, TwoRun(x, y), CheckPackage(x)
  PROVE  StayGone(x, y)'
<1>p. PairFacts(x, y) /\ GoneFacts(x, y) /\ Both(x, y)
  BY Pair, GonePair DEF TwoRun
<1> USE DEF Recovering, Reading, Building, Moved, Verifying, Promoting, Off,
      Ended, Mine, Torn, Tearing, Late, Looking, Undoing, Keeps, PairFacts,
      Beside, BackupsBeside, RecoveryBeside, RemovalBeside, SweepBeside,
      PromotionBeside, RollbackBeside, GoneFacts, StayGone, GoneBeside, Gone,
      Replaces, Replaced, CheckPackageEffect
<1>1. CheckPackageEffect(x)
  BY CheckPackageStep
<1>2. superseded' = superseded
  BY DEF CheckPackage, History
<1>3. GonePackage(x, y)' /\ GoneLeft(x, y)'
  BY <1>p, <1>1, <1>2 DEF GoneLeft, GonePackage, Sweeping, LeftApart
<1>4. GoneBeside(x, y)'
  BY <1>p, <1>1, <1>2 DEF GoneBackup, GoneClaim, GonePick, Promised,
    Publishing, WillRestore, PackageSame, RollingBack, Own, Unpublished,
    Unmoved
<1>5. GoneBeside(y, x)'
  BY <1>p, <1>1, <1>2 DEF GoneBackup, GoneClaim, GonePick, Promised, Smooth,
    Publishing, WillRestore, PackageSame, RollingBack, Own, Unpublished,
    Unmoved
<1> QED
  BY <1>3, <1>4, <1>5

LEMMA GoneChooseBackup ==
  ASSUME PackageTypeOK, Structure, Dated,
         NEW x \in Writer, NEW y \in Writer \ {x}, TwoRun(x, y), ChooseBackup(x)
  PROVE  StayGone(x, y)'
<1>p. PairFacts(x, y) /\ GoneFacts(x, y) /\ Both(x, y)
  BY Pair, GonePair DEF TwoRun
<1> USE DEF Recovering, Reading, Building, Moved, Verifying, Promoting, Off,
      Ended, Mine, Torn, Tearing, Late, Looking, Undoing, Keeps, PairFacts,
      Beside, BackupsBeside, RecoveryBeside, RemovalBeside, SweepBeside,
      PromotionBeside, RollbackBeside, GoneFacts, StayGone, GoneBeside, Gone,
      Replaces, Replaced, ChooseNoneEffect, ChooseEffect
<1>1. CASE pc'[x] = "stage"
  <2>1. ChooseNoneEffect(x)
    BY <1>1, ChooseNoneStep
  <2>2. superseded' = superseded
    BY DEF ChooseBackup, History
  <2>3. NoneLeft(x, y)
    BY <1>p, <2>1 DEF LeftListed
  <2>4. GonePackage(x, y)' /\ GoneLeft(x, y)'
    BY <1>p, <2>1, <2>2, <2>3 DEF GoneLeft, GonePackage, Sweeping, LeftApart
  <2>5. GoneBeside(x, y)'
    BY <1>p, <2>1, <2>2, <2>3 DEF GoneBackup, GoneClaim, GonePick, Promised,
      Publishing, WillRestore, PackageSame, RollingBack, Own, Unpublished,
      Unmoved
  <2>6. GoneBeside(y, x)'
    BY <1>p, <2>1, <2>2, <2>3 DEF GoneBackup, GoneClaim, GonePick, Promised,
      Smooth, Publishing, WillRestore, PackageSame, RollingBack, Own,
      Unpublished, Unmoved
  <2> QED
    BY <2>4, <2>5, <2>6
<1>2. CASE pc'[x] # "stage"
  <2>1. ChooseEffect(x)
    BY <1>2, ChooseStep
  <2>2. superseded' = superseded
    BY DEF ChooseBackup, History
  <2>3. /\ NoneLeft(x, y) => local'[x].pick = y
        /\ local'[x].pick \in Backup \ {x}
    BY <1>p, <2>1 DEF Own, NoneLeft
  <2>4. GonePackage(x, y)' /\ GoneLeft(x, y)'
    BY <1>p, <2>1, <2>2, <2>3 DEF GoneLeft, GonePackage, Smooth, Sweeping, Own,
      Unpublished, Unmoved, LeftApart
  <2>5. GoneBeside(x, y)'
    BY <1>p, <2>1, <2>2, <2>3 DEF GoneBackup, GoneClaim, GoneLeft, GonePick,
      OwnerWhole, Promised, Smooth, TornLeft, Publishing, WillRestore,
      PackageSame, RollingBack, Sweeping, Own, Unpublished, Unmoved
  <2>6. GoneBeside(y, x)'
    BY <1>p, <2>1, <2>2, <2>3 DEF Early, GoneBackup, GoneClaim, GonePick,
      Promised, Smooth, Publishing, WillRestore, PackageSame, RollingBack, Own,
      Unpublished, Unmoved
  <2> QED
    BY <2>4, <2>5, <2>6
<1> QED
  BY <1>1, <1>2

LEMMA GoneRecheck ==
  ASSUME PackageTypeOK, Structure, Dated,
         NEW x \in Writer, NEW y \in Writer \ {x}, TwoRun(x, y), Recheck(x)
  PROVE  StayGone(x, y)'
<1>p. PairFacts(x, y) /\ GoneFacts(x, y) /\ Both(x, y)
  BY Pair, GonePair DEF TwoRun
<1> USE DEF Recovering, Reading, Building, Moved, Verifying, Promoting, Off,
      Ended, Mine, Torn, Tearing, Late, Looking, Undoing, Keeps, PairFacts,
      Beside, BackupsBeside, RecoveryBeside, RemovalBeside, SweepBeside,
      PromotionBeside, RollbackBeside, GoneFacts, StayGone, GoneBeside, Gone,
      Replaces, Replaced, RecheckNoEffect, RecheckGoneEffect, RecheckYesEffect
<1>1. CASE ~PackageSame(x)
  <2>1. RecheckNoEffect(x)
    BY <1>1, RecheckNoStep
  <2>2. superseded' = superseded
    BY DEF Recheck, History
  <2>3. GonePackage(x, y)' /\ GoneLeft(x, y)'
    BY <1>p, <2>1, <2>2 DEF GoneLeft, GonePackage, Sweeping, LeftApart
  <2>4. GoneBeside(x, y)'
    BY <1>p, <2>1, <2>2 DEF GoneBackup, GoneClaim, GonePick, Promised,
      Publishing, WillRestore, PackageSame, RollingBack, Own, Unpublished,
      Unmoved
  <2>5. GoneBeside(y, x)'
    BY <1>p, <2>1, <2>2 DEF GoneBackup, GoneClaim, GonePick, Promised, Smooth,
      Publishing, WillRestore, PackageSame, RollingBack, Own, Unpublished,
      Unmoved
  <2> QED
    BY <2>3, <2>4, <2>5
<1>2. CASE PackageSame(x) /\ backup[local[x].pick] = NoTree
  <2>1. RecheckGoneEffect(x)
    BY <1>2, RecheckGoneStep
  <2>2. superseded' = superseded
    BY DEF Recheck, History
  <2>3. GonePackage(x, y)' /\ GoneLeft(x, y)'
    BY <1>p, <2>1, <2>2 DEF GoneLeft, GonePackage, Sweeping, LeftApart
  <2>4. GoneBeside(x, y)'
    BY <1>p, <2>1, <2>2 DEF GoneBackup, GoneClaim, GonePick, Promised,
      Publishing, WillRestore, PackageSame, RollingBack, Own, Unpublished,
      Unmoved
  <2>5. GoneBeside(y, x)'
    BY <1>p, <2>1, <2>2 DEF GoneBackup, GoneClaim, GonePick, Promised, Smooth,
      Publishing, WillRestore, PackageSame, RollingBack, Own, Unpublished,
      Unmoved
  <2> QED
    BY <2>3, <2>4, <2>5
<1>3. CASE PackageSame(x) /\ backup[local[x].pick] # NoTree
  <2>1. RecheckYesEffect(x)
    BY <1>3, RecheckYesStep
  <2>2. superseded' = superseded
    BY DEF Recheck, History
  <2>3. GonePackage(x, y)' /\ GoneLeft(x, y)'
    BY <1>p, <2>1, <2>2 DEF GoneLeft, GonePackage, Sweeping, LeftApart
  <2>4. GoneBeside(x, y)'
    BY <1>p, <2>1, <2>2 DEF GoneBackup, GoneClaim, GonePick, Promised,
      Publishing, WillRestore, PackageSame, RollingBack, Own, Unpublished,
      Unmoved
  <2>5. GoneBeside(y, x)'
    BY <1>p, <2>1, <2>2 DEF GoneBackup, GoneClaim, GonePick, Promised, Smooth,
      Publishing, WillRestore, PackageSame, RollingBack, Own, Unpublished,
      Unmoved
  <2> QED
    BY <2>3, <2>4, <2>5
<1> QED
  BY <1>1, <1>2, <1>3

LEMMA GoneRestoreBackup ==
  ASSUME PackageTypeOK, Structure, Dated,
         NEW x \in Writer, NEW y \in Writer \ {x}, TwoRun(x, y), RestoreBackup(x)
  PROVE  StayGone(x, y)'
<1>p. PairFacts(x, y) /\ GoneFacts(x, y) /\ Both(x, y)
  BY Pair, GonePair DEF TwoRun
<1> USE DEF Recovering, Reading, Building, Moved, Verifying, Promoting, Off,
      Ended, Mine, Torn, Tearing, Late, Looking, Undoing, Keeps, PairFacts,
      Beside, BackupsBeside, RecoveryBeside, RemovalBeside, SweepBeside,
      PromotionBeside, RollbackBeside, GoneFacts, StayGone, GoneBeside, Gone,
      Replaces, Replaced, RestoreYesEffect, RestoreNoEffect
<1>1. CASE package = NoTree /\ backup[local[x].pick] # NoTree
  <2>1. RestoreYesEffect(x)
    BY <1>1, RestoreYesStep
  <2>2. superseded' = superseded
    BY DEF RestoreBackup, History
  <2>3. GonePackage(x, y)' /\ GoneLeft(x, y)'
    BY <1>p, <2>1, <2>2 DEF GoneLeft, GonePackage, GonePick, WillRestore,
      PackageSame, Sweeping, LeftApart
  <2>4. GoneBeside(x, y)'
    BY <1>p, <2>1, <2>2 DEF GoneBackup, GoneClaim, GonePick, Promised,
      Publishing, WillRestore, PackageSame, RollingBack, Own, Unpublished,
      Unmoved
  <2>5. GoneBeside(y, x)'
    BY <1>p, <2>1, <2>2 DEF GoneBackup, GoneClaim, GoneLeft, GonePick,
      Promised, Smooth, Publishing, WillRestore, PackageSame, RollingBack,
      Sweeping, Own, Unpublished, Unmoved
  <2> QED
    BY <2>3, <2>4, <2>5
<1>2. CASE ~(package = NoTree /\ backup[local[x].pick] # NoTree)
  <2>1. RestoreNoEffect(x)
    BY <1>2, RestoreNoStep
  <2>2. superseded' = superseded
    BY DEF RestoreBackup, History
  <2>3. GonePackage(x, y)' /\ GoneLeft(x, y)'
    BY <1>p, <2>1, <2>2 DEF GoneLeft, GonePackage, Sweeping, LeftApart
  <2>4. GoneBeside(x, y)'
    BY <1>p, <2>1, <2>2 DEF GoneBackup, GoneClaim, GonePick, Promised,
      Publishing, WillRestore, PackageSame, RollingBack, Own, Unpublished,
      Unmoved
  <2>5. GoneBeside(y, x)'
    BY <1>p, <2>1, <2>2 DEF GoneBackup, GoneClaim, GonePick, Promised, Smooth,
      Publishing, WillRestore, PackageSame, RollingBack, Own, Unpublished,
      Unmoved
  <2> QED
    BY <2>3, <2>4, <2>5
<1> QED
  BY <1>1, <1>2

LEMMA GoneVerifyRestored ==
  ASSUME PackageTypeOK, Structure, Dated,
         NEW x \in Writer, NEW y \in Writer \ {x}, TwoRun(x, y), VerifyRestored(x)
  PROVE  StayGone(x, y)'
<1>p. PairFacts(x, y) /\ GoneFacts(x, y) /\ Both(x, y)
  BY Pair, GonePair DEF TwoRun
<1> USE DEF Recovering, Reading, Building, Moved, Verifying, Promoting, Off,
      Ended, Mine, Torn, Tearing, Late, Looking, Undoing, Keeps, PairFacts,
      Beside, BackupsBeside, RecoveryBeside, RemovalBeside, SweepBeside,
      PromotionBeside, RollbackBeside, GoneFacts, StayGone, GoneBeside, Gone,
      Replaces, Replaced, VerifyRestoredEffect
<1>1. VerifyRestoredEffect(x)
  BY VerifyRestoredStep
<1>2. superseded' = superseded
  BY DEF VerifyRestored, History
<1>3. GonePackage(x, y)' /\ GoneLeft(x, y)'
  BY <1>p, <1>1, <1>2 DEF GoneLeft, GonePackage, Sweeping, LeftApart
<1>4. GoneBeside(x, y)'
  BY <1>p, <1>1, <1>2 DEF GoneBackup, GoneClaim, GonePick, Promised,
    Publishing, WillRestore, PackageSame, RollingBack, Own, Unpublished,
    Unmoved
<1>5. GoneBeside(y, x)'
  BY <1>p, <1>1, <1>2 DEF GoneBackup, GoneClaim, GonePick, Promised, Smooth,
    Publishing, WillRestore, PackageSame, RollingBack, Own, Unpublished,
    Unmoved
<1> QED
  BY <1>3, <1>4, <1>5

LEMMA GoneSweepBackups ==
  ASSUME PackageTypeOK, Structure, Dated,
         NEW x \in Writer, NEW y \in Writer \ {x}, TwoRun(x, y), SweepBackups(x)
  PROVE  StayGone(x, y)'
<1>p. PairFacts(x, y) /\ GoneFacts(x, y) /\ Both(x, y)
  BY Pair, GonePair DEF TwoRun
<1> USE DEF Recovering, Reading, Building, Moved, Verifying, Promoting, Off,
      Ended, Mine, Torn, Tearing, Late, Looking, Undoing, Keeps, PairFacts,
      Beside, BackupsBeside, RecoveryBeside, RemovalBeside, SweepBeside,
      PromotionBeside, RollbackBeside, GoneFacts, StayGone, GoneBeside, Gone,
      Replaces, Replaced, SweepEndEffect, SweepEffect
<1>1. CASE pc'[x] = "stage"
  <2>1. SweepEndEffect(x)
    BY <1>1, SweepEndStep
  <2>2. superseded' = superseded
    BY DEF SweepBackups, History
  <2>3. NoneLeft(x, y)
    BY <1>p, <2>1 DEF LeftListed
  <2>4. GonePackage(x, y)' /\ GoneLeft(x, y)'
    BY <1>p, <2>1, <2>2, <2>3 DEF GoneLeft, GonePackage, Listed, Sweeping,
      LeftApart
  <2>5. GoneBeside(x, y)'
    BY <1>p, <2>1, <2>2, <2>3 DEF GoneBackup, GoneClaim, GonePick, Promised,
      Publishing, WillRestore, PackageSame, RollingBack, Own, Unpublished,
      Unmoved
  <2>6. GoneBeside(y, x)'
    BY <1>p, <2>1, <2>2, <2>3 DEF GoneBackup, GoneClaim, GonePick, Promised,
      Smooth, Publishing, WillRestore, PackageSame, RollingBack, Own,
      Unpublished, Unmoved
  <2> QED
    BY <2>4, <2>5, <2>6
<1>2. CASE pc'[x] # "stage"
  <2>1. SweepEffect(x)
    BY <1>2, SweepStep
  <2>2. superseded' = superseded
    BY DEF SweepBackups, History
  <2>3. /\ NoneLeft(x, y) /\ backup[local'[x].target] # NoTree
             => local'[x].target = y
        /\ local'[x].target \in Backup \ {x} /\ local'[x].target # Package
    BY <1>p, <2>1 DEF Own, NoneLeft
  <2>4. GonePackage(x, y)' /\ GoneLeft(x, y)'
    BY <1>p, <2>1, <2>2, <2>3 DEF GoneLeft, GonePackage, SweepOther, Sweeping,
      LeftApart
  <2>5. GoneBeside(x, y)'
    BY <1>p, <2>1, <2>2, <2>3 DEF GoneBackup, GoneClaim, GonePick, Promised,
      Publishing, WillRestore, PackageSame, RollingBack, Own, Unpublished,
      Unmoved
  <2>6. GoneBeside(y, x)'
    BY <1>p, <2>1, <2>2, <2>3 DEF GoneBackup, GoneClaim, GonePick, Promised,
      Smooth, SweepOther, Publishing, WillRestore, PackageSame, RollingBack,
      Own, Unpublished, Unmoved
  <2> QED
    BY <2>4, <2>5, <2>6
<1> QED
  BY <1>1, <1>2

LEMMA GoneClaimPath ==
  ASSUME PackageTypeOK, Structure, Dated,
         NEW x \in Writer, NEW y \in Writer \ {x}, TwoRun(x, y), ClaimPath(x)
  PROVE  StayGone(x, y)'
<1>p. PairFacts(x, y) /\ GoneFacts(x, y) /\ Both(x, y)
  BY Pair, GonePair DEF TwoRun
<1> USE DEF Recovering, Reading, Building, Moved, Verifying, Promoting, Off,
      Ended, Mine, Torn, Tearing, Late, Looking, Undoing, Keeps, PairFacts,
      Beside, BackupsBeside, RecoveryBeside, RemovalBeside, SweepBeside,
      PromotionBeside, RollbackBeside, GoneFacts, StayGone, GoneBeside, Gone,
      Replaces, Replaced, ClaimNoneEffect, ClaimPathEffect,
      ClaimNoneOtherEffect, ClaimPathOtherEffect
<1>1. CASE Mine(x) /\ package = NoTree
  <2>1. ClaimNoneEffect(x)
    BY <1>1, ClaimNoneStep
  <2>2. superseded' = superseded
    BY DEF ClaimPath, History
  <2>3. GonePackage(x, y)' /\ GoneLeft(x, y)'
    BY <1>p, <2>1, <2>2 DEF GoneLeft, GonePackage, Sweeping, LeftApart
  <2>4. GoneBeside(x, y)'
    BY <1>p, <2>1, <2>2 DEF GoneBackup, GoneClaim, GonePick, Promised,
      Publishing, WillRestore, PackageSame, RollingBack, Own, Unpublished,
      Unmoved
  <2>5. GoneBeside(y, x)'
    BY <1>p, <2>1, <2>2 DEF GoneBackup, GoneClaim, GonePick, Promised, Smooth,
      Publishing, WillRestore, PackageSame, RollingBack, Own, Unpublished,
      Unmoved
  <2> QED
    BY <2>3, <2>4, <2>5
<1>2. CASE Mine(x) /\ package # NoTree
  <2>1. ClaimPathEffect(x)
    BY <1>2, ClaimPathStep
  <2>2. superseded' = superseded
    BY DEF ClaimPath, History
  <2>3. GonePackage(x, y)' /\ GoneLeft(x, y)'
    BY <1>p, <2>1, <2>2 DEF GoneLeft, GonePackage, Sweeping, LeftApart,
      NoneLeft
  <2>4. GoneBeside(x, y)'
    BY <1>p, <2>1, <2>2 DEF ClaimCatches, FoundTorn, GoneBackup, GoneClaim,
      GoneLeft, GonePackage, GonePick, MovedBeside, Promised, Smooth,
      Publishing, WillRestore, PackageSame, RollingBack, Sweeping, Own,
      Unpublished, Unmoved, NoneLeft
  <2>5. GoneClaim(y, x)'
    BY <1>p, <2>1, <2>2 DEF GoneClaim, NoneLeft
  <2>6. GonePick(y, x)'
    BY <1>p, <2>1, <2>2 DEF CatchForeign, ClaimCatches, FoundTorn, GonePick,
      OwnerSeen, SeenStill, SweepSafe, WillRestore, PackageSame, Own,
      Unpublished, Unmoved, Reaching, NoneLeft
  <2>7. GoneBackup(y, x)'
    BY <1>p, <2>1, <2>2 DEF GoneBackup, Smooth, RollingBack, NoneLeft
  <2>8. Promised(y, x)'
    BY <1>p, <2>1, <2>2 DEF ClaimCatches, Promised, Smooth, Publishing,
      RollingBack, Own, Unpublished, Unmoved, NoneLeft
  <2> QED
    BY <2>3, <2>4, <2>5, <2>6, <2>7, <2>8
<1>3. CASE ~Mine(x) /\ backup[local[x].target] = NoTree
  <2>1. ClaimNoneOtherEffect(x)
    BY <1>3, ClaimNoneOtherStep
  <2>2. superseded' = superseded
    BY DEF ClaimPath, History
  <2>3. GonePackage(x, y)' /\ GoneLeft(x, y)'
    BY <1>p, <2>1, <2>2 DEF GoneLeft, GonePackage, Sweeping, LeftApart
  <2>4. GoneBeside(x, y)'
    BY <1>p, <2>1, <2>2 DEF GoneBackup, GoneClaim, GonePick, Promised,
      Publishing, WillRestore, PackageSame, RollingBack, Own, Unpublished,
      Unmoved
  <2>5. GoneBeside(y, x)'
    BY <1>p, <2>1, <2>2 DEF GoneBackup, GoneClaim, GonePick, Promised, Smooth,
      Publishing, WillRestore, PackageSame, RollingBack, Own, Unpublished,
      Unmoved
  <2> QED
    BY <2>3, <2>4, <2>5
<1>4. CASE ~Mine(x) /\ backup[local[x].target] # NoTree
  <2>1. ClaimPathOtherEffect(x)
    BY <1>4, ClaimPathOtherStep
  <2>2. superseded' = superseded
    BY DEF ClaimPath, History
  <2>3. GonePackage(x, y)' /\ GoneLeft(x, y)'
    BY <1>p, <2>1, <2>2 DEF GoneLeft, GonePackage, Sweeping, LeftApart
  <2>4. GoneBeside(x, y)'
    BY <1>p, <2>1, <2>2 DEF ClaimCatches, FoundTorn, GoneBackup, GoneClaim,
      GoneLeft, GonePackage, GonePick, MovedBeside, Promised, Smooth,
      Publishing, WillRestore, PackageSame, RollingBack, Sweeping, Own,
      Unpublished, Unmoved
  <2>5. GoneBeside(y, x)'
    BY <1>p, <2>1, <2>2 DEF CatchForeign, ClaimCatches, FoundTorn, GoneBackup,
      GoneClaim, GonePick, OwnerSeen, Promised, SeenStill, Smooth, SweepSafe,
      Publishing, WillRestore, PackageSame, RollingBack, Own, Unpublished,
      Unmoved, Reaching
  <2> QED
    BY <2>3, <2>4, <2>5
<1> QED
  BY <1>1, <1>2, <1>3, <1>4

LEMMA GoneRestoreForeign ==
  ASSUME PackageTypeOK, Structure, Dated,
         NEW x \in Writer, NEW y \in Writer \ {x}, TwoRun(x, y), RestoreForeign(x)
  PROVE  StayGone(x, y)'
<1>p. PairFacts(x, y) /\ GoneFacts(x, y) /\ Both(x, y)
  BY Pair, GonePair DEF TwoRun
<1> USE DEF Recovering, Reading, Building, Moved, Verifying, Promoting, Off,
      Ended, Mine, Torn, Tearing, Late, Looking, Undoing, Keeps, PairFacts,
      Beside, BackupsBeside, RecoveryBeside, RemovalBeside, SweepBeside,
      PromotionBeside, RollbackBeside, GoneFacts, StayGone, GoneBeside, Gone,
      Replaces, Replaced, RestoreForeignEffect
<1>1. CASE Mine(x)
  <2>1. RestoreForeignEffect(x)
    BY <1>1, RestoreForeignStep
  <2>2. superseded' = superseded
    BY DEF RestoreForeign, History
  <2>3. GonePackage(x, y)' /\ GoneLeft(x, y)'
    BY <1>p, <2>1, <2>2 DEF CatchForeign, ClaimCatches, GoneClaim, GoneLeft,
      GonePackage, SweepOwner, TornLeft, Sweeping, LeftApart
  <2>4. GoneBeside(x, y)'
    BY <1>p, <2>1, <2>2 DEF GoneBackup, GoneClaim, GonePick, Promised,
      SweepOwner, Publishing, WillRestore, PackageSame, RollingBack, Own,
      Unpublished, Unmoved
  <2>5. GoneBeside(y, x)'
    BY <1>p, <2>1, <2>2 DEF CatchForeign, Claimed, GoneBackup, GoneClaim,
      GonePick, Promised, SweepOwner, Publishing, WillRestore, PackageSame,
      RollingBack, Own, Unpublished, Unmoved
  <2> QED
    BY <2>3, <2>4, <2>5
<1> QED
  <2>1. ~Mine(x) => claim[x] = local[x].owner
    BY <1>p DEF SweepOwner, RestoreForeign
  <2> QED
    BY <1>1, <2>1 DEF RestoreForeign, ClaimForeign

LEMMA GoneRemoveClaimed ==
  ASSUME PackageTypeOK, Structure, Dated,
         NEW x \in Writer, NEW y \in Writer \ {x}, TwoRun(x, y), RemoveClaimed(x)
  PROVE  StayGone(x, y)'
<1>p. PairFacts(x, y) /\ GoneFacts(x, y) /\ Both(x, y)
  BY Pair, GonePair DEF TwoRun
<1> USE DEF Recovering, Reading, Building, Moved, Verifying, Promoting, Off,
      Ended, Mine, Torn, Tearing, Late, Looking, Undoing, Keeps, PairFacts,
      Beside, BackupsBeside, RecoveryBeside, RemovalBeside, SweepBeside,
      PromotionBeside, RollbackBeside, GoneFacts, StayGone, GoneBeside, Gone,
      Replaces, Replaced, RemoveClaimedEffect, RemoveClaimedOtherEffect
<1>1. CASE Mine(x)
  <2>1. RemoveClaimedEffect(x)
    BY <1>1, RemoveClaimedStep
  <2>2. superseded' = superseded
    BY DEF RemoveClaimed, History
  <2>3. GonePackage(x, y)' /\ GoneLeft(x, y)'
    BY <1>p, <2>1, <2>2 DEF GoneLeft, GonePackage, Sweeping, Own, Unpublished,
      Unmoved, LeftApart
  <2>4. GoneBeside(x, y)'
    BY <1>p, <2>1, <2>2 DEF GoneBackup, GoneClaim, GonePick, Promised,
      Publishing, WillRestore, PackageSame, RollingBack, Own, Unpublished,
      Unmoved
  <2>5. GoneBeside(y, x)'
    BY <1>p, <2>1, <2>2 DEF Claimed, GoneBackup, GoneClaim, GonePick, Promised,
      Smooth, Publishing, WillRestore, PackageSame, RollingBack, Own,
      Unpublished, Unmoved
  <2> QED
    BY <2>3, <2>4, <2>5
<1>2. CASE ~Mine(x)
  <2>1. RemoveClaimedOtherEffect(x)
    BY <1>2, RemoveClaimedOtherStep
  <2>2. superseded' = superseded
    BY DEF RemoveClaimed, History
  <2>3. GonePackage(x, y)' /\ GoneLeft(x, y)'
    BY <1>p, <2>1, <2>2 DEF GoneLeft, GonePackage, Sweeping, Own, Unpublished,
      Unmoved, LeftApart
  <2>4. GoneBeside(x, y)'
    BY <1>p, <2>1, <2>2 DEF GoneBackup, GoneClaim, GonePick, Promised,
      Publishing, WillRestore, PackageSame, RollingBack, Own, Unpublished,
      Unmoved
  <2>5. GoneBeside(y, x)'
    BY <1>p, <2>1, <2>2 DEF Claimed, GoneBackup, GoneClaim, GonePick, Promised,
      Smooth, Publishing, WillRestore, PackageSame, RollingBack, Own,
      Unpublished, Unmoved
  <2> QED
    BY <2>3, <2>4, <2>5
<1> QED
  BY <1>1, <1>2

LEMMA GoneBuildTree ==
  ASSUME PackageTypeOK, Structure, Dated,
         NEW x \in Writer, NEW y \in Writer \ {x}, TwoRun(x, y), BuildTree(x)
  PROVE  StayGone(x, y)'
<1>p. PairFacts(x, y) /\ GoneFacts(x, y) /\ Both(x, y)
  BY Pair, GonePair DEF TwoRun
<1> USE DEF Recovering, Reading, Building, Moved, Verifying, Promoting, Off,
      Ended, Mine, Torn, Tearing, Late, Looking, Undoing, Keeps, PairFacts,
      Beside, BackupsBeside, RecoveryBeside, RemovalBeside, SweepBeside,
      PromotionBeside, RollbackBeside, GoneFacts, StayGone, GoneBeside, Gone,
      Replaces, Replaced, BuildTreeEffect
<1>1. BuildTreeEffect(x)
  BY BuildTreeStep
<1>2. superseded' = superseded
  BY DEF BuildTree, History
<1>3. GonePackage(x, y)' /\ GoneLeft(x, y)'
  BY <1>p, <1>1, <1>2 DEF GoneLeft, GonePackage, Sweeping, LeftApart
<1>4. GoneBeside(x, y)'
  BY <1>p, <1>1, <1>2 DEF GoneBackup, GoneClaim, GonePick, Promised,
    Publishing, WillRestore, PackageSame, RollingBack, Own, Unpublished,
    Unmoved
<1>5. GoneBeside(y, x)'
  BY <1>p, <1>1, <1>2 DEF GoneBackup, GoneClaim, GonePick, Promised,
    Publishing, WillRestore, PackageSame, RollingBack, Own, Unpublished,
    Unmoved
<1> QED
  BY <1>3, <1>4, <1>5

LEMMA GoneBuildFails ==
  ASSUME PackageTypeOK, Structure, Dated,
         NEW x \in Writer, NEW y \in Writer \ {x}, TwoRun(x, y), BuildFails(x)
  PROVE  StayGone(x, y)'
<1>p. PairFacts(x, y) /\ GoneFacts(x, y) /\ Both(x, y)
  BY Pair, GonePair DEF TwoRun
<1> USE DEF Recovering, Reading, Building, Moved, Verifying, Promoting, Off,
      Ended, Mine, Torn, Tearing, Late, Looking, Undoing, Keeps, PairFacts,
      Beside, BackupsBeside, RecoveryBeside, RemovalBeside, SweepBeside,
      PromotionBeside, RollbackBeside, GoneFacts, StayGone, GoneBeside, Gone,
      Replaces, Replaced, BuildFailsEffect
<1>1. BuildFailsEffect(x)
  BY BuildFailsStep
<1>2. superseded' = superseded
  BY DEF BuildFails, History
<1>3. GonePackage(x, y)' /\ GoneLeft(x, y)'
  BY <1>p, <1>1, <1>2 DEF GoneLeft, GonePackage, Sweeping, LeftApart
<1>4. GoneBeside(x, y)'
  BY <1>p, <1>1, <1>2 DEF GoneBackup, GoneClaim, GonePick, Promised,
    Publishing, WillRestore, PackageSame, RollingBack, Own, Unpublished,
    Unmoved
<1>5. GoneBeside(y, x)'
  BY <1>p, <1>1, <1>2 DEF GoneBackup, GoneClaim, GonePick, Promised,
    Publishing, WillRestore, PackageSame, RollingBack, Own, Unpublished,
    Unmoved
<1> QED
  BY <1>3, <1>4, <1>5

LEMMA GoneLookForPackage ==
  ASSUME PackageTypeOK, Structure, Dated,
         NEW x \in Writer, NEW y \in Writer \ {x}, TwoRun(x, y), LookForPackage(x)
  PROVE  StayGone(x, y)'
<1>p. PairFacts(x, y) /\ GoneFacts(x, y) /\ Both(x, y)
  BY Pair, GonePair DEF TwoRun
<1> USE DEF Recovering, Reading, Building, Moved, Verifying, Promoting, Off,
      Ended, Mine, Torn, Tearing, Late, Looking, Undoing, Keeps, PairFacts,
      Beside, BackupsBeside, RecoveryBeside, RemovalBeside, SweepBeside,
      PromotionBeside, RollbackBeside, GoneFacts, StayGone, GoneBeside, Gone,
      Replaces, Replaced, LookForPackageEffect
<1>1. LookForPackageEffect(x)
  BY LookForPackageStep
<1>2. superseded' = superseded
  BY DEF LookForPackage, History
<1>3. GonePackage(x, y)' /\ GoneLeft(x, y)'
  BY <1>p, <1>1, <1>2 DEF GoneLeft, GonePackage, Sweeping, LeftApart
<1>4. GoneBeside(x, y)'
  BY <1>p, <1>1, <1>2 DEF GoneBackup, GoneClaim, GonePick, Promised,
    Publishing, WillRestore, PackageSame, RollingBack, Own, Unpublished,
    Unmoved
<1>5. GoneBeside(y, x)'
  BY <1>p, <1>1, <1>2 DEF GoneBackup, GoneClaim, GonePick, Promised,
    Publishing, WillRestore, PackageSame, RollingBack, Own, Unpublished,
    Unmoved
<1> QED
  BY <1>3, <1>4, <1>5

LEMMA GoneRecordOwner ==
  ASSUME PackageTypeOK, Structure, Dated,
         NEW x \in Writer, NEW y \in Writer \ {x}, TwoRun(x, y), RecordOwner(x)
  PROVE  StayGone(x, y)'
<1>p. PairFacts(x, y) /\ GoneFacts(x, y) /\ Both(x, y)
  BY Pair, GonePair DEF TwoRun
<1> USE DEF Recovering, Reading, Building, Moved, Verifying, Promoting, Off,
      Ended, Mine, Torn, Tearing, Late, Looking, Undoing, Keeps, PairFacts,
      Beside, BackupsBeside, RecoveryBeside, RemovalBeside, SweepBeside,
      PromotionBeside, RollbackBeside, GoneFacts, StayGone, GoneBeside, Gone,
      Replaces, Replaced, RecordOwnerEffect
<1>1. RecordOwnerEffect(x)
  BY RecordOwnerStep
<1>2. superseded' = superseded
  BY DEF RecordOwner, History
<1>3. GonePackage(x, y)' /\ GoneLeft(x, y)'
  BY <1>p, <1>1, <1>2 DEF GoneLeft, GonePackage, Sweeping, LeftApart
<1>4. GoneBeside(x, y)'
  BY <1>p, <1>1, <1>2 DEF GoneBackup, GoneClaim, GonePick, Promised,
    Publishing, WillRestore, PackageSame, RollingBack, Own, Unpublished,
    Unmoved
<1>5. GoneBeside(y, x)'
  BY <1>p, <1>1, <1>2 DEF GoneBackup, GoneClaim, GonePick, Promised,
    Publishing, WillRestore, PackageSame, RollingBack, Own, Unpublished,
    Unmoved
<1> QED
  BY <1>3, <1>4, <1>5

LEMMA GoneMoveAway ==
  ASSUME PackageTypeOK, Structure, Dated,
         NEW x \in Writer, NEW y \in Writer \ {x}, TwoRun(x, y), MoveAway(x)
  PROVE  StayGone(x, y)'
<1>p. PairFacts(x, y) /\ GoneFacts(x, y) /\ Both(x, y)
  BY Pair, GonePair DEF TwoRun
<1> USE DEF Recovering, Reading, Building, Moved, Verifying, Promoting, Off,
      Ended, Mine, Torn, Tearing, Late, Looking, Undoing, Keeps, PairFacts,
      Beside, BackupsBeside, RecoveryBeside, RemovalBeside, SweepBeside,
      PromotionBeside, RollbackBeside, GoneFacts, StayGone, GoneBeside, Gone,
      Replaces, Replaced, MoveAwayEffect
<1>1. MoveAwayEffect(x)
  BY MoveAwayStep
<1>2. superseded' = superseded
  BY DEF MoveAway, History
<1>3. GonePackage(x, y)' /\ GoneLeft(x, y)'
  BY <1>p, <1>1, <1>2 DEF GoneLeft, GonePackage, Sweeping, LeftApart, NoneLeft
<1>4. GoneClaim(x, y)'
  BY <1>p, <1>1, <1>2 DEF GoneClaim, NoneLeft, LeftApart
<1>5. GonePick(x, y)'
  BY <1>p, <1>1, <1>2 DEF GonePick, WillRestore, PackageSame, NoneLeft,
    LeftApart
<1>6. GoneBackup(x, y)'
  BY <1>p, <1>1, <1>2 DEF GoneBackup, GonePackage, RollingBack, Own,
    Unpublished, Unmoved, NoneLeft, LeftApart
<1>7. Promised(x, y)'
  BY <1>p, <1>1, <1>2 DEF Promised, Publishing, RollingBack, Own, Unpublished,
    Unmoved, NoneLeft, LeftApart
<1>8. GoneClaim(y, x)'
  BY <1>p, <1>1, <1>2 DEF GoneClaim, NoneLeft, LeftApart
<1>9. GonePick(y, x)'
  BY <1>p, <1>1, <1>2 DEF ClaimCatches, Early, GonePackage, GonePick,
    RestoreBeside, WillRestore, PackageSame, Own, Unpublished, Unmoved,
    NoneLeft, LeftApart
<1>10. GoneBackup(y, x)'
  BY <1>p, <1>1, <1>2 DEF GoneBackup, RollingBack, NoneLeft, LeftApart
<1>11. Promised(y, x)'
  BY <1>p, <1>1, <1>2 DEF Promised, Publishing, RollingBack, Own, Unpublished,
    Unmoved, NoneLeft, LeftApart
<1> QED
  BY <1>3, <1>4, <1>5, <1>6, <1>7, <1>8, <1>9, <1>10, <1>11

LEMMA GoneVerifyBackup ==
  ASSUME PackageTypeOK, Structure, Dated,
         NEW x \in Writer, NEW y \in Writer \ {x}, TwoRun(x, y), VerifyBackup(x)
  PROVE  StayGone(x, y)'
<1>p. PairFacts(x, y) /\ GoneFacts(x, y) /\ Both(x, y)
  BY Pair, GonePair DEF TwoRun
<1> USE DEF Recovering, Reading, Building, Moved, Verifying, Promoting, Off,
      Ended, Mine, Torn, Tearing, Late, Looking, Undoing, Keeps, PairFacts,
      Beside, BackupsBeside, RecoveryBeside, RemovalBeside, SweepBeside,
      PromotionBeside, RollbackBeside, GoneFacts, StayGone, GoneBeside, Gone,
      Replaces, Replaced, VerifyBackupEffect
<1>1. VerifyBackupEffect(x)
  BY VerifyBackupStep
<1>2. superseded' = superseded
  BY DEF VerifyBackup, History
<1>3. GonePackage(x, y)' /\ GoneLeft(x, y)'
  BY <1>p, <1>1, <1>2 DEF GoneLeft, GonePackage, Sweeping, LeftApart
<1>4. GoneBeside(x, y)'
  BY <1>p, <1>1, <1>2 DEF GoneBackup, GoneClaim, GonePick, Promised,
    Publishing, WillRestore, PackageSame, RollingBack
<1>5. GoneBeside(y, x)'
  BY <1>p, <1>1, <1>2 DEF GoneBackup, GoneClaim, GonePick, Promised,
    Publishing, WillRestore, PackageSame, RollingBack, Own, Unpublished,
    Unmoved
<1> QED
  BY <1>3, <1>4, <1>5

LEMMA GonePublish ==
  ASSUME PackageTypeOK, Structure, Dated,
         NEW x \in Writer, NEW y \in Writer \ {x}, TwoRun(x, y), Publish(x)
  PROVE  StayGone(x, y)'
<1>p. PairFacts(x, y) /\ GoneFacts(x, y) /\ Both(x, y)
  BY Pair, GonePair DEF TwoRun
<1> USE DEF Recovering, Reading, Building, Moved, Verifying, Promoting, Off,
      Ended, Mine, Torn, Tearing, Late, Looking, Undoing, Keeps, PairFacts,
      Beside, BackupsBeside, RecoveryBeside, RemovalBeside, SweepBeside,
      PromotionBeside, RollbackBeside, GoneFacts, StayGone, GoneBeside, Gone,
      Replaces, Replaced, PublishEffect
<1>1. PublishEffect(x)
  BY PublishStep
<1>2. superseded' = superseded
  BY DEF Publish, History
<1>3. GonePackage(x, y)' /\ GoneLeft(x, y)'
  BY <1>p, <1>1, <1>2 DEF GoneLeft, GonePackage, Promised, Publishing,
    RollingBack, Sweeping, Own, Unpublished, Unmoved, LeftApart
<1>4. GoneBeside(x, y)'
  BY <1>p, <1>1, <1>2 DEF GoneBackup, GoneClaim, GonePick, Promised,
    Publishing, WillRestore, PackageSame, RollingBack
<1>5. GoneBeside(y, x)'
  BY <1>p, <1>1, <1>2 DEF GoneBackup, GoneClaim, GonePick, Promised,
    Publishing, WillRestore, PackageSame, RollingBack, Own, Unpublished,
    Unmoved
<1> QED
  BY <1>3, <1>4, <1>5

LEMMA GoneVerifyOwner ==
  ASSUME PackageTypeOK, Structure, Dated,
         NEW x \in Writer, NEW y \in Writer \ {x}, TwoRun(x, y), VerifyOwner(x)
  PROVE  StayGone(x, y)'
<1>p. PairFacts(x, y) /\ GoneFacts(x, y) /\ Both(x, y)
  BY Pair, GonePair DEF TwoRun
<1> USE DEF Recovering, Reading, Building, Moved, Verifying, Promoting, Off,
      Ended, Mine, Torn, Tearing, Late, Looking, Undoing, Keeps, PairFacts,
      Beside, BackupsBeside, RecoveryBeside, RemovalBeside, SweepBeside,
      PromotionBeside, RollbackBeside, GoneFacts, StayGone, GoneBeside, Gone,
      Replaces, Replaced, VerifyOwnerEffect
<1>1. VerifyOwnerEffect(x)
  BY VerifyOwnerStep
<1>2. superseded' = superseded
  BY DEF VerifyOwner, History
<1>3. GonePackage(x, y)' /\ GoneLeft(x, y)'
  BY <1>p, <1>1, <1>2 DEF GoneLeft, GonePackage, Sweeping, LeftApart
<1>4. GoneBeside(x, y)'
  BY <1>p, <1>1, <1>2 DEF GoneBackup, GoneClaim, GonePick, Promised,
    Publishing, WillRestore, PackageSame, RollingBack
<1>5. GoneBeside(y, x)'
  BY <1>p, <1>1, <1>2 DEF GoneBackup, GoneClaim, GonePick, Promised,
    Publishing, WillRestore, PackageSame, RollingBack
<1> QED
  BY <1>3, <1>4, <1>5

LEMMA GoneVerifyTree ==
  ASSUME PackageTypeOK, Structure, Dated,
         NEW x \in Writer, NEW y \in Writer \ {x}, TwoRun(x, y), VerifyTree(x)
  PROVE  StayGone(x, y)'
<1>p. PairFacts(x, y) /\ GoneFacts(x, y) /\ Both(x, y)
  BY Pair, GonePair DEF TwoRun
<1> USE DEF Recovering, Reading, Building, Moved, Verifying, Promoting, Off,
      Ended, Mine, Torn, Tearing, Late, Looking, Undoing, Keeps, PairFacts,
      Beside, BackupsBeside, RecoveryBeside, RemovalBeside, SweepBeside,
      PromotionBeside, RollbackBeside, GoneFacts, StayGone, GoneBeside, Gone,
      Replaces, Replaced, VerifyTreeEffect
<1>1. VerifyTreeEffect(x)
  BY VerifyTreeStep
<1>2. superseded' = superseded
  BY DEF VerifyTree, History
<1>3. GonePackage(x, y)' /\ GoneLeft(x, y)'
  BY <1>p, <1>1, <1>2 DEF GoneLeft, GonePackage, Sweeping, LeftApart
<1>4. GoneBeside(x, y)'
  BY <1>p, <1>1, <1>2 DEF GoneBackup, GoneClaim, GonePick, Promised,
    Publishing, WillRestore, PackageSame, RollingBack
<1>5. GoneBeside(y, x)'
  BY <1>p, <1>1, <1>2 DEF GoneBackup, GoneClaim, GonePick, Promised, TornLeft,
    Publishing, WillRestore, PackageSame, RollingBack
<1> QED
  BY <1>3, <1>4, <1>5

LEMMA GoneTidyBackup ==
  ASSUME PackageTypeOK, Structure, Dated,
         NEW x \in Writer, NEW y \in Writer \ {x}, TwoRun(x, y), TidyBackup(x)
  PROVE  StayGone(x, y)'
<1>p. PairFacts(x, y) /\ GoneFacts(x, y) /\ Both(x, y)
  BY Pair, GonePair DEF TwoRun
<1> USE DEF Recovering, Reading, Building, Moved, Verifying, Promoting, Off,
      Ended, Mine, Torn, Tearing, Late, Looking, Undoing, Keeps, PairFacts,
      Beside, BackupsBeside, RecoveryBeside, RemovalBeside, SweepBeside,
      PromotionBeside, RollbackBeside, GoneFacts, StayGone, GoneBeside, Gone,
      Replaces, Replaced, TidyBackupEffect
<1>1. TidyBackupEffect(x)
  BY TidyBackupStep
<1>2. superseded' = IF local[x].pick = x /\ backup[x] # NoTree
                        /\ backup[x] = local[x].owner
                     THEN superseded ELSE superseded \cup Replaced(x)
  BY DEF TidyBackup
<1>3. GonePackage(x, y)' /\ GoneLeft(x, y)'
  BY <1>p, <1>1, <1>2 DEF GoneLeft, GonePackage, Sweeping, LeftApart
<1>4. GoneBeside(x, y)'
  BY <1>p, <1>1, <1>2 DEF BackupOwner, GoneBackup, GoneClaim, GonePick,
    Promised, Publishing, WillRestore, PackageSame, RollingBack, Own,
    Unpublished, Unmoved
<1>5. GoneBeside(y, x)'
  BY <1>p, <1>1, <1>2 DEF ClaimCatches, Claimed, Early, GoneBackup, GoneClaim,
    GonePick, Promised, Smooth, Publishing, WillRestore, PackageSame,
    RollingBack, Own, Unpublished, Unmoved
<1> QED
  BY <1>3, <1>4, <1>5

LEMMA GoneTidyDone ==
  ASSUME PackageTypeOK, Structure, Dated,
         NEW x \in Writer, NEW y \in Writer \ {x}, TwoRun(x, y), TidyDone(x)
  PROVE  StayGone(x, y)'
<1>p. PairFacts(x, y) /\ GoneFacts(x, y) /\ Both(x, y)
  BY Pair, GonePair DEF TwoRun
<1> USE DEF Recovering, Reading, Building, Moved, Verifying, Promoting, Off,
      Ended, Mine, Torn, Tearing, Late, Looking, Undoing, Keeps, PairFacts,
      Beside, BackupsBeside, RecoveryBeside, RemovalBeside, SweepBeside,
      PromotionBeside, RollbackBeside, GoneFacts, StayGone, GoneBeside, Gone,
      Replaces, Replaced, TidyDoneEffect
<1>1. TidyDoneEffect(x)
  BY TidyDoneStep
<1>2. superseded' = superseded \cup Replaced(x)
  BY DEF TidyDone
<1>3. GonePackage(x, y)' /\ GoneLeft(x, y)'
  BY <1>p, <1>1, <1>2 DEF GoneLeft, GonePackage, Sweeping, LeftApart
<1>4. GoneBeside(x, y)'
  BY <1>p, <1>1, <1>2 DEF GoneBackup, GoneClaim, GonePick, Promised,
    Publishing, WillRestore, PackageSame, RollingBack
<1>5. GoneBeside(y, x)'
  BY <1>p, <1>1, <1>2 DEF ClaimCatches, Claimed, Early, GoneBackup, GoneClaim,
    GonePick, Promised, Smooth, Publishing, WillRestore, PackageSame,
    RollingBack, Own, Unpublished, Unmoved
<1> QED
  BY <1>3, <1>4, <1>5

LEMMA GoneUndoPublished ==
  ASSUME PackageTypeOK, Structure, Dated,
         NEW x \in Writer, NEW y \in Writer \ {x}, TwoRun(x, y), UndoPublished(x)
  PROVE  StayGone(x, y)'
<1>p. PairFacts(x, y) /\ GoneFacts(x, y) /\ Both(x, y)
  BY Pair, GonePair DEF TwoRun
<1> USE DEF Recovering, Reading, Building, Moved, Verifying, Promoting, Off,
      Ended, Mine, Torn, Tearing, Late, Looking, Undoing, Keeps, PairFacts,
      Beside, BackupsBeside, RecoveryBeside, RemovalBeside, SweepBeside,
      PromotionBeside, RollbackBeside, GoneFacts, StayGone, GoneBeside, Gone,
      Replaces, Replaced, UndoPublishedEffect
<1>1. UndoPublishedEffect(x)
  BY UndoPublishedStep
<1>2. superseded' = superseded
  BY DEF UndoPublished, History
<1>3. GonePackage(x, y)' /\ GoneLeft(x, y)'
  BY <1>p, <1>1, <1>2 DEF GoneLeft, GonePackage, Sweeping, LeftApart
<1>4. GoneBeside(x, y)'
  BY <1>p, <1>1, <1>2 DEF GoneBackup, GoneClaim, GonePick, Promised,
    Publishing, WillRestore, PackageSame, RollingBack
<1>5. GoneBeside(y, x)'
  BY <1>p, <1>1, <1>2 DEF GoneBackup, GoneClaim, GonePick, Promised,
    Publishing, WillRestore, PackageSame, RollingBack
<1> QED
  BY <1>3, <1>4, <1>5

LEMMA GoneTearPackage ==
  ASSUME PackageTypeOK, Structure, Dated,
         NEW x \in Writer, NEW y \in Writer \ {x}, TwoRun(x, y), TearPackage(x)
  PROVE  StayGone(x, y)'
<1>p. PairFacts(x, y) /\ GoneFacts(x, y) /\ Both(x, y)
  BY Pair, GonePair DEF TwoRun
<1> USE DEF Recovering, Reading, Building, Moved, Verifying, Promoting, Off,
      Ended, Mine, Torn, Tearing, Late, Looking, Undoing, Keeps, PairFacts,
      Beside, BackupsBeside, RecoveryBeside, RemovalBeside, SweepBeside,
      PromotionBeside, RollbackBeside, GoneFacts, StayGone, GoneBeside, Gone,
      Replaces, Replaced, TearPackageEffect
<1>1. TearPackageEffect(x)
  BY TearPackageStep
<1>2. superseded' = superseded
  BY DEF TearPackage, History
<1>3. GonePackage(x, y)' /\ GoneLeft(x, y)'
  BY <1>p, <1>1, <1>2 DEF GoneLeft, GonePackage, Sweeping, LeftApart
<1>4. GoneBeside(x, y)'
  BY <1>p, <1>1, <1>2 DEF GoneBackup, GoneClaim, GonePick, Promised,
    Publishing, WillRestore, PackageSame, RollingBack
<1>5. GoneBeside(y, x)'
  BY <1>p, <1>1, <1>2 DEF GoneBackup, GoneClaim, GonePick, Promised,
    Publishing, WillRestore, PackageSame, RollingBack
<1> QED
  BY <1>3, <1>4, <1>5

LEMMA GoneRemovePackage ==
  ASSUME PackageTypeOK, Structure, Dated,
         NEW x \in Writer, NEW y \in Writer \ {x}, TwoRun(x, y), RemovePackage(x)
  PROVE  StayGone(x, y)'
<1>p. PairFacts(x, y) /\ GoneFacts(x, y) /\ Both(x, y)
  BY Pair, GonePair DEF TwoRun
<1> USE DEF Recovering, Reading, Building, Moved, Verifying, Promoting, Off,
      Ended, Mine, Torn, Tearing, Late, Looking, Undoing, Keeps, PairFacts,
      Beside, BackupsBeside, RecoveryBeside, RemovalBeside, SweepBeside,
      PromotionBeside, RollbackBeside, GoneFacts, StayGone, GoneBeside, Gone,
      Replaces, Replaced, RemovePackageEffect
<1>1. RemovePackageEffect(x)
  BY RemovePackageStep
<1>2. superseded' = superseded
  BY DEF RemovePackage, History
<1>3. GonePackage(x, y)' /\ GoneLeft(x, y)'
  BY <1>p, <1>1, <1>2 DEF GoneLeft, GonePackage, Sweeping, LeftApart
<1>4. GoneBeside(x, y)'
  BY <1>p, <1>1, <1>2 DEF GoneBackup, GoneClaim, GonePick, Promised,
    Publishing, WillRestore, PackageSame, RollingBack
<1>5. GoneBeside(y, x)'
  BY <1>p, <1>1, <1>2 DEF Claimed, GoneBackup, GoneClaim, GoneLeft, GonePick,
    Promised, Smooth, Publishing, WillRestore, PackageSame, RollingBack,
    Sweeping, Own, Unpublished, Unmoved
<1> QED
  BY <1>3, <1>4, <1>5

LEMMA GoneChooseUndo ==
  ASSUME PackageTypeOK, Structure, Dated,
         NEW x \in Writer, NEW y \in Writer \ {x}, TwoRun(x, y), ChooseUndo(x)
  PROVE  StayGone(x, y)'
<1>p. PairFacts(x, y) /\ GoneFacts(x, y) /\ Both(x, y)
  BY Pair, GonePair DEF TwoRun
<1> USE DEF Recovering, Reading, Building, Moved, Verifying, Promoting, Off,
      Ended, Mine, Torn, Tearing, Late, Looking, Undoing, Keeps, PairFacts,
      Beside, BackupsBeside, RecoveryBeside, RemovalBeside, SweepBeside,
      PromotionBeside, RollbackBeside, GoneFacts, StayGone, GoneBeside, Gone,
      Replaces, Replaced, ChooseUndoEffect
<1>1. ChooseUndoEffect(x)
  BY ChooseUndoStep
<1>2. superseded' = superseded
  BY DEF ChooseUndo, History
<1>3. GonePackage(x, y)' /\ GoneLeft(x, y)'
  BY <1>p, <1>1, <1>2 DEF GoneLeft, GonePackage, Sweeping, LeftApart
<1>4. GoneBeside(x, y)'
  BY <1>p, <1>1, <1>2 DEF GoneBackup, GoneClaim, GonePick, Promised,
    UndoBeside, Publishing, WillRestore, PackageSame, RollingBack, Own,
    Unpublished, Unmoved
<1>5. GoneBeside(y, x)'
  BY <1>p, <1>1, <1>2 DEF GoneBackup, GoneClaim, GonePick, Promised,
    UndoBeside, Publishing, WillRestore, PackageSame, RollingBack, Own,
    Unpublished, Unmoved
<1> QED
  BY <1>3, <1>4, <1>5

LEMMA GonePutBack ==
  ASSUME PackageTypeOK, Structure, Dated,
         NEW x \in Writer, NEW y \in Writer \ {x}, TwoRun(x, y), PutBack(x)
  PROVE  StayGone(x, y)'
<1>p. PairFacts(x, y) /\ GoneFacts(x, y) /\ Both(x, y)
  BY Pair, GonePair DEF TwoRun
<1> USE DEF Recovering, Reading, Building, Moved, Verifying, Promoting, Off,
      Ended, Mine, Torn, Tearing, Late, Looking, Undoing, Keeps, PairFacts,
      Beside, BackupsBeside, RecoveryBeside, RemovalBeside, SweepBeside,
      PromotionBeside, RollbackBeside, GoneFacts, StayGone, GoneBeside, Gone,
      Replaces, Replaced, PutBackEffect
<1>1. PutBackEffect(x)
  BY PutBackStep
<1>2. superseded' = superseded
  BY DEF PutBack, History
<1>3. GonePackage(x, y)' /\ GoneLeft(x, y)'
  BY <1>p, <1>1, <1>2 DEF GoneBackup, GoneLeft, GonePackage, RollingBack,
    Sweeping, LeftApart
<1>4. GoneBeside(x, y)'
  BY <1>p, <1>1, <1>2 DEF BackupOwner, GoneBackup, GoneClaim, GonePick,
    Promised, Publishing, WillRestore, PackageSame, RollingBack
<1>5. GoneBeside(y, x)'
  BY <1>p, <1>1, <1>2 DEF GoneBackup, GoneClaim, GoneLeft, GonePick, Promised,
    Smooth, Publishing, WillRestore, PackageSame, RollingBack, Sweeping, Own,
    Unpublished, Unmoved
<1> QED
  BY <1>3, <1>4, <1>5

LEMMA GoneDropBackup ==
  ASSUME PackageTypeOK, Structure, Dated,
         NEW x \in Writer, NEW y \in Writer \ {x}, TwoRun(x, y), DropBackup(x)
  PROVE  StayGone(x, y)'
<1>p. PairFacts(x, y) /\ GoneFacts(x, y) /\ Both(x, y)
  BY Pair, GonePair DEF TwoRun
<1> USE DEF Recovering, Reading, Building, Moved, Verifying, Promoting, Off,
      Ended, Mine, Torn, Tearing, Late, Looking, Undoing, Keeps, PairFacts,
      Beside, BackupsBeside, RecoveryBeside, RemovalBeside, SweepBeside,
      PromotionBeside, RollbackBeside, GoneFacts, StayGone, GoneBeside, Gone,
      Replaces, Replaced, DropBackupEffect
<1>1. DropBackupEffect(x)
  BY DropBackupStep
<1>2. superseded' = superseded
  BY DEF DropBackup, History
<1>3. GonePackage(x, y)' /\ GoneLeft(x, y)'
  BY <1>p, <1>1, <1>2 DEF GoneLeft, GonePackage, Sweeping, LeftApart
<1>4. GoneBeside(x, y)'
  BY <1>p, <1>1, <1>2 DEF GoneBackup, GoneClaim, GonePick, Promised,
    Publishing, WillRestore, PackageSame, RollingBack
<1>5. GoneBeside(y, x)'
  BY <1>p, <1>1, <1>2 DEF GoneBackup, GoneClaim, GonePick, Promised,
    Publishing, WillRestore, PackageSame, RollingBack
<1> QED
  BY <1>3, <1>4, <1>5

LEMMA GoneDropDone ==
  ASSUME PackageTypeOK, Structure, Dated,
         NEW x \in Writer, NEW y \in Writer \ {x}, TwoRun(x, y), DropDone(x)
  PROVE  StayGone(x, y)'
<1>p. PairFacts(x, y) /\ GoneFacts(x, y) /\ Both(x, y)
  BY Pair, GonePair DEF TwoRun
<1> USE DEF Recovering, Reading, Building, Moved, Verifying, Promoting, Off,
      Ended, Mine, Torn, Tearing, Late, Looking, Undoing, Keeps, PairFacts,
      Beside, BackupsBeside, RecoveryBeside, RemovalBeside, SweepBeside,
      PromotionBeside, RollbackBeside, GoneFacts, StayGone, GoneBeside, Gone,
      Replaces, Replaced, DropDoneEffect
<1>1. DropDoneEffect(x)
  BY DropDoneStep
<1>2. superseded' = superseded
  BY DEF DropDone, History
<1>3. GonePackage(x, y)' /\ GoneLeft(x, y)'
  BY <1>p, <1>1, <1>2 DEF GoneLeft, GonePackage, Sweeping, LeftApart
<1>4. GoneBeside(x, y)'
  BY <1>p, <1>1, <1>2 DEF GoneBackup, GoneClaim, GonePick, Promised,
    Publishing, WillRestore, PackageSame, RollingBack
<1>5. GoneBeside(y, x)'
  BY <1>p, <1>1, <1>2 DEF GoneBackup, GoneClaim, GonePick, Promised,
    Publishing, WillRestore, PackageSame, RollingBack, Own, Unpublished,
    Unmoved
<1> QED
  BY <1>3, <1>4, <1>5

-----------------------------------------------------------------------------
(* One call or two: how the steps fit together.                            *)

\* The steps of a call that runs, and those that make it fail or die; the
\* steps on which a look or a rename fails are Hampered.
CalmStep(w) ==
  \/ ListBackups(w) \/ SeePackage(w) \/ NoteOwner(w) \/ CheckPackage(w)
  \/ ChooseBackup(w) \/ Recheck(w) \/ RestoreBackup(w) \/ VerifyRestored(w)
  \/ SweepBackups(w) \/ ClaimPath(w) \/ RestoreForeign(w) \/ RemoveClaimed(w)
  \/ BuildTree(w) \/ BuildFails(w) \/ LookForPackage(w) \/ RecordOwner(w)
  \/ MoveAway(w) \/ VerifyBackup(w) \/ Publish(w) \/ VerifyOwner(w)
  \/ VerifyTree(w) \/ TidyBackup(w) \/ TidyDone(w) \/ UndoPublished(w)
  \/ TearPackage(w) \/ RemovePackage(w) \/ ChooseUndo(w) \/ PutBack(w)
  \/ DropBackup(w) \/ DropDone(w)
Trouble(w) == RemovalFails(w) \/ ReadFails(w) \/ TidyFails(w) \/ Crash(w)

(* Which of two calls is the first does not matter.                        *)
LEMMA BothSymmetric ==
  ASSUME NEW x, NEW y
  PROVE  (Both(x, y) => Both(y, x)) /\ (Both(x, y)' => Both(y, x)')
<1>1. /\ NoneLeft(x, y) <=> NoneLeft(y, x)
      /\ NoneLeft(x, y)' <=> NoneLeft(y, x)'
  BY DEF NoneLeft
<1>2. Both(x, y) => Both(y, x)
  BY <1>1 DEF Both, LeftWhole, Gap, TornPackage
<1>3. Both(x, y)' => Both(y, x)'
  BY <1>1 DEF Both, LeftWhole, Gap, TornPackage
<1> QED
  BY <1>2, <1>3

LEMMA RunSymmetric ==
  ASSUME NEW x, NEW y
  PROVE  (TwoRun(x, y) => TwoRun(y, x)) /\ (TwoRun(x, y)' => TwoRun(y, x)')
<1>1. StayGone(x, y) => StayGone(y, x)
  BY DEF StayGone, GonePackage, GoneLeft, GoneBeside, GoneClaim, GonePick,
    GoneBackup, Promised, Gone
<1>2. StayGone(x, y)' => StayGone(y, x)'
  BY DEF StayGone, GonePackage, GoneLeft, GoneBeside, GoneClaim, GonePick,
    GoneBackup, Promised, Gone, Replaces, Replaced
<1> QED
  BY <1>1, <1>2, BothSymmetric DEF TwoRun

(* What the two kinds of steps do to the bookkeeping of the calls, and to  *)
(* what one or two of them know.                                           *)
LEMMA CalmStepRuns ==
  ASSUME PackageTypeOK, NEW w \in Writer, CalmStep(w)
  PROVE  /\ Running(w) /\ UNCHANGED <<undisturbed, hindered, crashes, faults>>
         /\ pc'[w] # "idle"
         /\ \A v \in Writer \ {w} : pc'[v] = pc[v]
<1> USE DEF Goto, Bounds, History, Mishaps
<1>1. UNCHANGED <<undisturbed, hindered, crashes, faults>>
  BY DEF CalmStep, ListBackups, SeePackage, NoteOwner, CheckPackage,
    ChooseBackup, Recheck, RestoreBackup, VerifyRestored, SweepBackups,
    ClaimPath, RestoreForeign, RemoveClaimed, BuildTree, BuildFails,
    LookForPackage, RecordOwner, MoveAway, VerifyBackup, Publish, VerifyOwner,
    VerifyTree, TidyBackup, TidyDone, UndoPublished, TearPackage,
    RemovePackage, ChooseUndo, PutBack, DropBackup, DropDone
<1>2. Running(w)
  BY DEF CalmStep, Running, Ended, ListBackups, SeePackage, NoteOwner,
    CheckPackage, ChooseBackup, Recheck, RestoreBackup, VerifyRestored,
    SweepBackups, ClaimPath, RestoreForeign, RemoveClaimed, BuildTree,
    BuildFails, LookForPackage, RecordOwner, MoveAway, VerifyBackup, Publish,
    VerifyOwner, VerifyTree, TidyBackup, TidyDone, UndoPublished, TearPackage,
    RemovePackage, ChooseUndo, PutBack, DropBackup, DropDone
<1>3. \E l \in Label \ {"idle"} : pc' = [pc EXCEPT ![w] = l]
  BY DEF CalmStep, Label, Ended, After, ChooseFrom, ListBackups, SeePackage, NoteOwner,
    CheckPackage, ChooseBackup, Recheck, RestoreBackup, VerifyRestored,
    SweepBackups, ClaimPath, RestoreForeign, RemoveClaimed, BuildTree,
    BuildFails, LookForPackage, RecordOwner, MoveAway, VerifyBackup, Publish,
    VerifyOwner, VerifyTree, TidyBackup, TidyDone, UndoPublished, TearPackage,
    RemovePackage, ChooseUndo, PutBack, DropBackup, DropDone
<1> QED
  BY <1>1, <1>2, <1>3, Types

LEMMA TroubleRuns ==
  ASSUME PackageTypeOK, NEW w \in Writer, Trouble(w)
  PROVE  /\ Running(w) /\ w \in undisturbed /\ ~Calm' /\ pc'[w] # "idle"
         /\ hindered' = hindered
         /\ \A v \in Writer \ {w} : pc'[v] = pc[v]
<1>1. crashes \in Nat /\ faults \in Nat
  BY PackageAssumption DEF PackageTypeOK
<1> QED
  BY <1>1, Types DEF Trouble, Calm, Fault, Running, Ended, Goto, History,
    Mishaps, RemovalFails, ReadFails, TidyFails, Crash

LEMMA HamperedRuns ==
  ASSUME PackageTypeOK, Structure, NEW w \in Writer, Hampered(w), ~UndoFails(w)
  PROVE  /\ Running(w) /\ w \in undisturbed /\ ~Calm' /\ pc'[w] # "idle"
         /\ hindered' = hindered \cup {w} /\ undisturbed' = undisturbed
         /\ \A v \in Writer \ {w} : pc'[v] = pc[v]
<1>1. faults \in Nat
  BY PackageAssumption DEF PackageTypeOK
<1>2. Stumble(w) \/ RollbackFails(w)
  BY DEF Hampered
<1>3. Hinders(w)
  BY <1>2 DEF Stumble, MisreadList, MisreadPackage, MisreadBackup, MisreadMoved,
    RecoveryFails, RollbackFails
<1>4. StumbleEffect(w) \/ StopEffect(w)
  BY <1>2, StumbleStep, StopStep
<1> QED
  BY <1>1, <1>3, <1>4 DEF Hinders, Fault, Calm, Running, Ended, StumbleEffect,
    StopEffect

LEMMA CalmSolo ==
  ASSUME PackageTypeOK, Structure, NEW w \in Writer, Solo(w), CalmStep(w)
  PROVE  Solo(w)'
BY SoloListBackups, SoloSeePackage, SoloNoteOwner, SoloCheckPackage,
  SoloChooseBackup, SoloRecheck, SoloRestoreBackup, SoloVerifyRestored,
  SoloSweepBackups, SoloClaimPath, SoloRestoreForeign, SoloRemoveClaimed,
  SoloBuildTree, SoloBuildFails, SoloLookForPackage, SoloRecordOwner,
  SoloMoveAway, SoloVerifyBackup, SoloPublish, SoloVerifyOwner, SoloVerifyTree,
  SoloTidyBackup, SoloTidyDone, SoloUndoPublished, SoloTearPackage,
  SoloRemovePackage, SoloChooseUndo, SoloPutBack, SoloDropBackup, SoloDropDone
  DEF CalmStep

LEMMA AstrayAny ==
  ASSUME PackageTypeOK, Structure, NEW w \in Writer, Astray(w),
         CalmStep(w) \/ Trouble(w) \/ (Hampered(w) /\ ~UndoFails(w))
  PROVE  Astray(w)'
BY AstrayReads, AstrayMoves, AstrayPromotes, AstrayRollsBack
  DEF CalmStep, Trouble, Hampered

LEMMA CalmHeirs ==
  ASSUME PackageTypeOK, Structure, Dated, NEW w \in Writer,
         Solo(w), SoloOrdered(w), CalmStep(w)
  PROVE  SoloOrdered(w)'
BY HeirsListBackups, HeirsSeePackage, HeirsNoteOwner, HeirsCheckPackage,
  HeirsChooseBackup, HeirsRecheck, HeirsRestoreBackup, HeirsVerifyRestored,
  HeirsSweepBackups, HeirsClaimPath, HeirsRestoreForeign, HeirsRemoveClaimed,
  HeirsBuildTree, HeirsBuildFails, HeirsLookForPackage, HeirsRecordOwner,
  HeirsMoveAway, HeirsVerifyBackup, HeirsPublish, HeirsVerifyOwner,
  HeirsVerifyTree, HeirsTidyBackup, HeirsTidyDone, HeirsUndoPublished,
  HeirsTearPackage, HeirsRemovePackage, HeirsChooseUndo, HeirsPutBack,
  HeirsDropBackup, HeirsDropDone
  DEF CalmStep

LEMMA CalmBoth ==
  ASSUME PackageTypeOK, Structure, NEW x \in Writer, NEW y \in Writer \ {x},
         Both(x, y), CalmStep(x)
  PROVE  Both(x, y)'
BY BothListBackups, BothSeePackage, BothNoteOwner, BothCheckPackage,
  BothChooseBackup, BothRecheck, BothRestoreBackup, BothVerifyRestored,
  BothSweepBackups, BothClaimPath, BothRestoreForeign, BothRemoveClaimed,
  BothBuildTree, BothBuildFails, BothLookForPackage, BothRecordOwner,
  BothMoveAway, BothVerifyBackup, BothPublish, BothVerifyOwner, BothVerifyTree,
  BothTidyBackup, BothTidyDone, BothUndoPublished, BothTearPackage,
  BothRemovePackage, BothChooseUndo, BothPutBack, BothDropBackup, BothDropDone
  DEF CalmStep

LEMMA CalmGone ==
  ASSUME PackageTypeOK, Structure, Dated,
         NEW x \in Writer, NEW y \in Writer \ {x}, TwoRun(x, y), CalmStep(x)
  PROVE  StayGone(x, y)'
BY GoneListBackups, GoneSeePackage, GoneNoteOwner, GoneCheckPackage,
  GoneChooseBackup, GoneRecheck, GoneRestoreBackup, GoneVerifyRestored,
  GoneSweepBackups, GoneClaimPath, GoneRestoreForeign, GoneRemoveClaimed,
  GoneBuildTree, GoneBuildFails, GoneLookForPackage, GoneRecordOwner,
  GoneMoveAway, GoneVerifyBackup, GonePublish, GoneVerifyOwner,
  GoneVerifyTree, GoneTidyBackup, GoneTidyDone, GoneUndoPublished,
  GoneTearPackage, GoneRemovePackage, GoneChooseUndo, GonePutBack,
  GoneDropBackup, GoneDropDone
  DEF CalmStep

LEMMA CalmRun ==
  ASSUME PackageTypeOK, Structure, Dated,
         NEW x \in Writer, NEW y \in Writer \ {x}, TwoRun(x, y), CalmStep(x)
  PROVE  TwoRun(x, y)'
<1>1. Both(x, y)'
  BY CalmBoth DEF TwoRun
<1>2. StayGone(x, y)'
  BY CalmGone
<1> QED
  BY <1>1, <1>2 DEF TwoRun

(* Two calls that have ended, or not begun, leave what the next one needs: *)
(* complete backups, and nothing that was replaced.                        *)
LEMMA RunEnded ==
  ASSUME PackageTypeOK, Structure, Dated,
         NEW x \in Writer, NEW y \in Writer \ {x},
         TwoRun(x, y), ~Running(x), ~Running(y), pc[x] # "idle"
  PROVE  Quiet /\ Ordered
<1>1. PairFacts(x, y) /\ GoneFacts(x, y)
  BY Pair, GonePair DEF TwoRun
<1>2. pc[x] \in Ended /\ pc[y] \in Ended \cup {"idle"}
  BY <1>1 DEF PairFacts, Running
<1>3. EndedWhole(x) /\ EndedWhole(y)
  BY <1>1 DEF PairFacts, Beside, BackupsBeside
<1>4. \A b \in Backup : backup[b] # NoTree => backup[b] \in whole
  BY <1>1, <1>2, <1>3 DEF PairFacts, EndedWhole, LeftWhole
<1>5. package \in whole \/ \E b \in Backup : backup[b] # NoTree
  BY <1>1, <1>2 DEF PairFacts, Gap, TornPackage, Torn, Keeps, Tearing,
    NoneLeft, Ended
<1>6. backup[x] \notin superseded /\ backup[y] \notin superseded
  BY <1>1, <1>2 DEF GoneFacts, StayGone, GoneBeside, GoneBackup, RollingBack,
    Moved, Ended
<1>7. \A b \in Backup \ {x, y} : backup[b] \notin superseded
  BY <1>1, <1>2 DEF GoneFacts, StayGone, GoneLeft, Gone, Sweeping, Ended
<1>8. \A b \in Backup : backup[b] \notin superseded
  BY <1>6, <1>7
<1>9. package \notin superseded
  BY <1>1 DEF GoneFacts, StayGone, GonePackage, Gone
<1> QED
  BY <1>4, <1>5, <1>8, <1>9 DEF Quiet, Ordered, Heir

(* A call that begins when nobody runs, beside one that may begin later.   *)
LEMMA BothFirst ==
  ASSUME PackageTypeOK, Structure, NEW x \in Writer, NEW y \in Writer \ {x},
         Quiet, Start(x), pc[y] = "idle"
  PROVE  Both(x, y)'
<1> USE DEF Recovering, Reading, Building, Moved, Verifying, Promoting, Off,
  Ended, Mine, Torn, Tearing, Late, Looking, Undoing, Keeps
<1>1. /\ pc[x] = "idle" /\ pc'[x] = "list" /\ pc'[y] = pc[y]
      /\ package' = package /\ backup' = backup /\ claim' = claim
      /\ whole' = whole /\ local' = local
  BY StartStep DEF StartEffect
<1>2. /\ x \in Backup /\ y \in Backup /\ x # NoTree /\ y # NoTree
      /\ NoTree \notin whole
  BY Self DEF SelfFacts
<1>3. /\ backup[x] = NoTree /\ backup[y] = NoTree
      /\ claim[x] = NoTree /\ claim[y] = NoTree
      /\ local[x] = NoLocals /\ local[y] = NoLocals
      /\ package # x /\ package # y
      /\ \A b \in Backup : backup[b] \notin {x, y}
  BY <1>1, <1>2 DEF Structure, BackupFree, Unmoved, ClaimHeld, LocalsOK, Fresh,
    Unpublished
<1>4. LeftWhole(x, y)' /\ Gap(x, y)' /\ TornPackage(x, y)'
  BY <1>1, <1>2, <1>3 DEF Quiet, LeftWhole, Gap, TornPackage, NoneLeft
<1>5. BackupsBeside(x, y)' /\ BackupsBeside(y, x)'
  BY <1>1, <1>2, <1>3 DEF BackupsBeside, EndedWhole, RollbackWhole,
    BackupOwner, UndoBacked
<1>6. RecoveryBeside(x, y)' /\ RecoveryBeside(y, x)'
  BY <1>1, <1>2, <1>3 DEF NoLocals, RecoveryBeside, FoundTorn, OwnerSeen,
    OwnerWhole, ListedOther, RestoredGone, Early, Listed, SeenStill,
    RestoreBeside
<1>7. RemovalBeside(x, y)' /\ RemovalBeside(y, x)'
  BY <1>1, <1>2, <1>3 DEF RemovalBeside, Smooth, Claimed, Restored,
    ClaimCatches, CatchForeign
<1>s. SweepBeside(x, y)' /\ SweepBeside(y, x)'
  BY <1>1, <1>2, <1>3 DEF SweepBeside, SweepSafe, Reaching, SweepOther,
    SweepOwner
<1>8. PromotionBeside(x, y)' /\ PromotionBeside(y, x)'
  BY <1>1, <1>2, <1>3 DEF PromotionBeside, MoveOwn, MovedOther, MovedTorn,
    MovedBeside, UndoBeside
<1>9. RollbackBeside(x, y)' /\ RollbackBeside(y, x)'
  BY <1>1, <1>2, <1>3 DEF RollbackBeside, TornLeft, TearingOther, TornVictim
<1> QED
  BY <1>1, <1>4, <1>5, <1>6, <1>7, <1>s, <1>8, <1>9 DEF Both, Beside

LEMMA GoneFirst ==
  ASSUME PackageTypeOK, Structure, NEW x \in Writer, NEW y \in Writer \ {x},
         Quiet, Ordered, Start(x), pc[y] = "idle"
  PROVE  StayGone(x, y)'
<1> USE DEF Moved, Verifying
<1>1. /\ pc[x] = "idle" /\ pc'[x] = "list" /\ pc'[y] = pc[y]
      /\ package' = package /\ backup' = backup /\ whole' = whole
      /\ superseded' = superseded
  BY StartStep DEF StartEffect, Start
<1>2. backup[x] = NoTree /\ backup[y] = NoTree /\ NoTree \notin superseded
  BY <1>1, PackageAssumption DEF Structure, BackupFree, Unmoved, Recovering,
    PackageTypeOK, Tree
<1>3. GonePackage(x, y)' /\ GoneLeft(x, y)'
  BY <1>1 DEF Quiet, Ordered, GonePackage, GoneLeft, Gone, Replaces, Sweeping
<1>4. GoneBeside(x, y)' /\ GoneBeside(y, x)'
  BY <1>1, <1>2 DEF GoneBeside, GoneClaim, GonePick, WillRestore, GoneBackup,
    Replaces, Promised, Publishing
<1> QED
  BY <1>3, <1>4 DEF StayGone

(* What a call that begins knows of itself.                                *)
LEMMA SoloFirst ==
  ASSUME PackageTypeOK, Structure, NEW w \in Writer, Held, Start(w)
  PROVE  Solo(w)'
<1>1. /\ pc'[w] = "list" /\ package' = package /\ backup' = backup
      /\ whole' = whole
  BY StartStep DEF StartEffect
<1> QED
  BY <1>1 DEF Solo, Held, SoloLooks, SoloRestores, SoloSweeps, SoloPromotes,
    Building, Ended, Promoting, Moved, Verifying

LEMMA HeirsFirst ==
  ASSUME PackageTypeOK, Structure, NEW w \in Writer, Ordered, Start(w)
  PROVE  SoloOrdered(w)'
<1>1. /\ pc'[w] = "list" /\ package' = package /\ backup' = backup
      /\ whole' = whole
  BY StartStep DEF StartEffect
<1>2. made' = made /\ superseded' = superseded
  BY DEF Start, Paths
<1>3. Ordered'
  BY <1>1, <1>2 DEF Ordered, Heir, Older
<1>4. SoloHeirs(w)'
  BY <1>1 DEF SoloHeirs, Promoting, Moved, Verifying
<1> QED
  BY <1>3, <1>4 DEF SoloOrdered

LEMMA QuietHeld ==
  ASSUME Quiet
  PROVE  Held
BY DEF Quiet, Held

(* A call that begins runs by itself or is the second of two; a step of a  *)
(* running call keeps what is known of the running ones; a fault or a      *)
(* crash happens to a call by itself.                                      *)
LEMMA OverlapStart ==
  ASSUME PackageInv, Overlap, NEW w \in Writer, Start(w)
  PROVE  Overlap'
<1>1. PackageTypeOK /\ Structure /\ Dated /\ Overlap
  BY DEF PackageInv
<1>2. /\ pc[w] = "idle" /\ pc'[w] = "list"
      /\ \A v \in Writer \ {w} : pc'[v] = pc[v]
      /\ OneTrouble(w) /\ undisturbed' = IF Alone(w) THEN {w} ELSE {}
      /\ crashes' = crashes /\ faults' = faults /\ hindered' = hindered
  BY <1>1, StartStep DEF StartEffect, Start, Bounds, Mishaps
<1>3. ~Running(w) /\ (Calm' <=> Calm)
  BY <1>2 DEF Running, Calm
<1>4. CASE Alone(w)
  <2>1. NobodyRuns
    BY <1>3, <1>4 DEF Alone, NobodyRuns
  <2>2. ASSUME undisturbed = {}, Calm PROVE Quiet /\ Ordered
    <3>1. CASE TwoCalls
      BY <1>1, <2>1, <3>1, RunEnded DEF TwoCalls, NobodyRuns
    <3> QED
      BY <1>1, <2>2, <3>1 DEF Overlap
  <2>3. ASSUME NEW u \in undisturbed
        PROVE  /\ Held /\ (hindered = {} => Ordered)
               /\ Calm => Quiet /\ Ordered
    <3>1. OneCall(u) /\ u \in Writer
      BY <1>1 DEF Overlap, PackageTypeOK
    <3>2. ASSUME Calm PROVE Quiet /\ Ordered
      <4>1. u # w /\ TwoRun(u, w) /\ pc[u] # "idle"
        BY <1>2, <3>1, <3>2 DEF OneCall
      <4> QED
        BY <1>1, <2>1, <3>1, <4>1, RunEnded DEF NobodyRuns
    <3> QED
      BY <3>1, <3>2 DEF OneCall, Solo, Astray, SoloOrdered
  <2>4. /\ Held /\ (hindered = {} => Ordered)
        /\ Calm => Quiet /\ Ordered
    BY <1>1, <2>2, <2>3, QuietHeld DEF Overlap
  <2>5. /\ undisturbed' = {w} /\ Solo(w)' /\ Astray(w)'
        /\ hindered' = {} => SoloOrdered(w)'
    BY <1>1, <1>2, <1>4, <2>4, SoloFirst, SoloAstray, HeirsFirst
  <2>6. \A v \in Writer \ {w} : ~Running(v)'
    BY <1>2, <2>1 DEF NobodyRuns, Running
  <2>7. ASSUME Calm', NEW y \in Writer \ {w}, pc'[y] = "idle"
        PROVE  TwoRun(w, y)'
    <3>1. Quiet /\ Ordered /\ pc[y] = "idle"
      BY <1>2, <1>3, <2>4, <2>7
    <3> QED
      BY <1>1, <3>1, BothFirst, GoneFirst DEF TwoRun
  <2> QED
    BY <1>2, <2>5, <2>6, <2>7 DEF Overlap, OneCall
<1>5. CASE ~Alone(w)
  <2>1. undisturbed # {} /\ Calm
    BY <1>2, <1>5 DEF OneTrouble, Calm
  <2>2. PICK u \in undisturbed : OneCall(u)
    BY <1>1, <2>1 DEF Overlap
  <2>3. u \in Writer \ {w} /\ TwoRun(u, w) /\ pc[u] # "idle"
    BY <1>1, <1>2, <2>1, <2>2 DEF OneCall, PackageTypeOK
  <2>4. TwoRun(w, u)'
    <3>1. TwoRun(w, u)
      BY <2>3, RunSymmetric
    <3> QED
      BY <1>1, <2>3, <3>1, BothStart, GoneStart DEF TwoRun
  <2>5. \A v \in Writer \ {w, u} : ~Running(v)'
    BY <1>2, <2>2 DEF OneCall, Running
  <2>6. TwoCalls'
    BY <1>2, <2>3, <2>4, <2>5 DEF TwoCalls
  <2> QED
    BY <1>2, <1>3, <1>5, <2>1, <2>6 DEF Overlap
<1> QED
  BY <1>4, <1>5

LEMMA OverlapCalm ==
  ASSUME PackageInv, Overlap, NEW w \in Writer, CalmStep(w)
  PROVE  Overlap'
<1>1. PackageTypeOK /\ Structure /\ Dated /\ Overlap
  BY DEF PackageInv
<1>2. /\ Running(w) /\ undisturbed' = undisturbed /\ (Calm' <=> Calm)
      /\ hindered' = hindered
      /\ pc'[w] # "idle" /\ \A v \in Writer \ {w} : pc'[v] = pc[v]
  BY <1>1, CalmStepRuns DEF Calm
<1>3. \A v \in Writer \ {w} : Running(v)' <=> Running(v)
  BY <1>2 DEF Running
<1>4. CASE undisturbed # {}
  <2>1. ASSUME NEW x \in undisturbed PROVE OneCall(x)'
    <3>1. OneCall(x) /\ x \in Writer
      BY <1>1 DEF Overlap, PackageTypeOK
    <3>2. x = w
      BY <1>2, <3>1 DEF OneCall
    <3>3. /\ IF w \in hindered' THEN Astray(w)' ELSE Solo(w)'
          /\ hindered' = {} => SoloOrdered(w)'
      <4>1. CASE w \in hindered
        BY <1>1, <1>2, <3>1, <3>2, <4>1, AstrayAny DEF OneCall
      <4>2. CASE w \notin hindered
        BY <1>1, <1>2, <3>1, <3>2, <4>2, CalmSolo, CalmHeirs DEF OneCall
      <4> QED
        BY <4>1, <4>2
    <3>4. ASSUME Calm', NEW y \in Writer \ {w}, pc'[y] = "idle"
          PROVE  TwoRun(w, y)'
      <4>1. TwoRun(w, y)
        BY <1>2, <3>1, <3>2, <3>4 DEF OneCall
      <4> QED
        BY <1>1, <4>1, CalmRun
    <3>5. \A v \in Writer \ {w} : ~Running(v)'
      BY <1>3, <3>1, <3>2 DEF OneCall
    <3> QED
      BY <1>2, <3>2, <3>3, <3>4, <3>5 DEF OneCall
  <2> QED
    BY <1>2, <1>4, <2>1 DEF Overlap
<1>5. CASE undisturbed = {}
  <2>1. Calm /\ TwoCalls
    BY <1>1, <1>2, <1>5 DEF Overlap, NobodyRuns
  <2>a. PICK x \in Writer : \E y \in Writer \ {x} :
          /\ pc[x] # "idle" /\ pc[y] # "idle" /\ TwoRun(x, y)
          /\ \A v \in Writer \ {x, y} : ~Running(v)
    BY <2>1 DEF TwoCalls
  <2>2. PICK y \in Writer \ {x} :
          /\ pc[x] # "idle" /\ pc[y] # "idle" /\ TwoRun(x, y)
          /\ \A v \in Writer \ {x, y} : ~Running(v)
    BY <2>a
  <2>3. w \in {x, y}
    BY <1>2, <2>2
  <2>4. TwoRun(x, y)'
    <3>1. CASE w = x
      BY <1>1, <2>2, <3>1, CalmRun
    <3>2. CASE w = y
      <4>1. x \in Writer \ {y} /\ TwoRun(y, x)
        BY <2>2, RunSymmetric
      <4>2. TwoRun(y, x)'
        BY <1>1, <3>2, <4>1, CalmRun
      <4> QED
        BY <4>2, RunSymmetric
    <3> QED
      BY <2>3, <3>1, <3>2
  <2>5. \A v \in Writer \ {x, y} : ~Running(v)'
    BY <1>3, <2>2, <2>3
  <2>6. pc'[x] # "idle" /\ pc'[y] # "idle"
    BY <1>2, <2>2
  <2>7. TwoCalls'
    BY <2>2, <2>4, <2>5, <2>6 DEF TwoCalls
  <2> QED
    BY <1>2, <1>5, <2>1, <2>7 DEF Overlap
<1> QED
  BY <1>4, <1>5

LEMMA OverlapTrouble ==
  ASSUME PackageInv, Overlap, NEW w \in Writer, Trouble(w)
  PROVE  Overlap'
<1>1. PackageTypeOK /\ Structure /\ Dated /\ Overlap
  BY DEF PackageInv
<1>2. /\ Running(w) /\ w \in undisturbed /\ ~Calm' /\ pc'[w] # "idle"
      /\ hindered' = hindered
      /\ \A v \in Writer \ {w} : pc'[v] = pc[v]
  BY <1>1, TroubleRuns
<1>3. OneCall(w) /\ undisturbed = {w}
  BY <1>1, <1>2 DEF Overlap, OneCall, PackageTypeOK
<1>4. \A v \in Writer \ {w} : ~Running(v)'
  BY <1>2, <1>3 DEF OneCall, Running
<1>5. /\ IF w \in hindered THEN Astray(w) ELSE Solo(w)
      /\ hindered = {} => SoloOrdered(w)
  BY <1>3 DEF OneCall
<1>6. \/ undisturbed' = undisturbed
      \/ undisturbed' = {} /\ pc'[w] = "failed"
  BY <1>1, Types DEF Trouble, History, Goto, RemovalFails, ReadFails, TidyFails,
    Crash
<1>7. IF w \in hindered THEN Astray(w)' ELSE Held' /\
        (undisturbed' = undisturbed => Solo(w)')
  <2>1. CASE w \in hindered
    BY <1>1, <1>5, <2>1, AstrayAny
  <2>2. CASE w \notin hindered
    <3>1. CASE RemovalFails(w)
      BY <1>1, <1>3, <1>5, <2>2, <3>1, SoloRemovalFails DEF Solo
    <3>2. CASE ReadFails(w)
      BY <1>1, <1>5, <2>2, <3>2, SoloReadFails DEF Solo
    <3>3. CASE TidyFails(w)
      BY <1>1, <1>5, <2>2, <3>3, SoloTidyFails DEF Solo
    <3>4. CASE Crash(w)
      BY <1>1, <1>5, <2>2, <3>4, SoloCrash DEF Solo
    <3> QED
      BY <3>1, <3>2, <3>3, <3>4 DEF Trouble
  <2> QED
    BY <2>1, <2>2
<1>8. hindered' = {} => SoloOrdered(w)'
  <2>1. CASE hindered = {}
    <3>1. Solo(w) /\ SoloOrdered(w)
      BY <1>5, <2>1
    <3> QED
      BY <1>1, <3>1, HeirsRemovalFails, HeirsReadFails, HeirsTidyFails,
        HeirsCrash DEF Trouble
  <2> QED
    BY <1>2, <2>1
<1>9. Held'
  BY <1>7 DEF Astray
<1>10. CASE undisturbed' = undisturbed
  BY <1>2, <1>3, <1>4, <1>7, <1>8, <1>10 DEF Overlap, OneCall
<1>11. CASE undisturbed' = {} /\ pc'[w] = "failed"
  <2>1. ~Running(w)'
    BY <1>11 DEF Running, Ended
  <2> QED
    BY <1>2, <1>4, <1>8, <1>9, <1>11, <2>1 DEF Overlap, NobodyRuns, SoloOrdered
<1> QED
  BY <1>6, <1>10, <1>11

LEMMA OverlapHampered ==
  ASSUME PackageInv, Overlap, NEW w \in Writer, Hampered(w), ~UndoFails(w)
  PROVE  Overlap'
<1>1. PackageTypeOK /\ Structure /\ Overlap
  BY DEF PackageInv
<1>2. /\ Running(w) /\ w \in undisturbed /\ ~Calm' /\ pc'[w] # "idle"
      /\ hindered' = hindered \cup {w} /\ undisturbed' = undisturbed
      /\ \A v \in Writer \ {w} : pc'[v] = pc[v]
  BY <1>1, HamperedRuns
<1>3. OneCall(w) /\ undisturbed = {w}
  BY <1>1, <1>2 DEF Overlap, OneCall, PackageTypeOK
<1>4. \A v \in Writer \ {w} : ~Running(v)'
  BY <1>2, <1>3 DEF OneCall, Running
<1>5. Astray(w)
  BY <1>1, <1>3, SoloAstray DEF OneCall
<1>6. Astray(w)'
  BY <1>1, <1>5, AstrayAny
<1> QED
  BY <1>2, <1>3, <1>4, <1>6 DEF Overlap, OneCall

-----------------------------------------------------------------------------
(* The invariant and what it shows.                                        *)

LEMMA PackageStart ==
  ASSUME PackageInit
  PROVE  PackageInv
<1> DEFINE old == Earlier[1]
           new == Earlier[2]
<1>1. /\ old \in ToSet(Earlier) /\ new \in ToSet(Earlier) /\ old # new
      /\ NoTree \notin {old, new} /\ Left \in Backup
      /\ Writer \cap {old, new} = {} /\ NoTree \notin Writer
      /\ NoTree \notin Tree /\ {old, new} \subseteq Tree
      /\ Package \notin Backup
  BY PackageAssumption DEF Tree, Backup, ToSet, IsInjective
<1> HIDE DEF old, new
<1>2. /\ \/ package = new /\ backup[Left] = NoTree /\ whole = {new}
         \/ package = new /\ backup[Left] = old /\ whole = {old, new}
         \/ /\ package \in {NoTree, new} /\ backup[Left] = old /\ whole = {old}
            /\ superseded = {}
      /\ backup \in [Backup -> Tree \cup {NoTree}]
      /\ \A b \in Backup \ {Left} : backup[b] = NoTree
      /\ superseded \subseteq {old}
  BY <1>1 DEF PackageInit, LeftBehind, old, new
<1>3. /\ \A w \in Writer : /\ claim[w] = NoTree /\ pc[w] = "idle"
                           /\ local[w] = NoLocals
      /\ undisturbed = {} /\ hindered = {} /\ unrolled = FALSE
      /\ crashes = 0 /\ faults = 0
  BY DEF PackageInit
<1>4. PackageTypeOK
  <2>1. NoLocals \in Locals
    BY <1>1 DEF NoLocals, Locals
  <2>2. made \in Seq(Tree)
    BY PackageAssumption DEF PackageInit, Tree
  <2>3. /\ claim \in [Writer -> Tree \cup {NoTree}] /\ pc \in [Writer -> Label]
        /\ local \in [Writer -> Locals]
    BY <2>1 DEF PackageInit, Label
  <2>4. unrolled \in BOOLEAN
    BY <1>3
  <2>5. crashes \in 0..MaxCrashes /\ faults \in 0..MaxFaults
    BY <1>3, PackageAssumption
  <2> QED
    BY <1>1, <1>2, <1>3, <2>2, <2>3, <2>4, <2>5 DEF PackageTypeOK
<1>5. Structure
  <2>1. OnePlace
    BY <1>1, <1>2, <1>3 DEF OnePlace
  <2>2. ASSUME NEW w \in Writer
        PROVE  ClaimHeld(w) /\ Fresh(w) /\ BackupFree(w) /\ LocalsOK(w)
    <3>1. w \in Backup /\ w # Left /\ w \notin {old, new} /\ w # NoTree
      BY <1>1, PackageAssumption DEF Backup
    <3>2. \A b \in Backup : backup[b] # w
      BY <1>2, <3>1
    <3>3. ClaimHeld(w) /\ BackupFree(w)
      BY <1>2, <1>3, <3>1 DEF ClaimHeld, BackupFree
    <3>4. Fresh(w)
      <4>1. package # w
        BY <1>2, <3>1
      <4>2. \A v \in Writer : claim[v] # w /\ local[v].owner # w
        BY <1>3, <3>1 DEF NoLocals
      <4> QED
        BY <1>3, <3>2, <4>1, <4>2 DEF Fresh, Recovering, Reading
    <3>5. LocalsOK(w)
      <4>1. pc[w] = "idle" /\ local[w] = NoLocals
        BY <1>3
      <4> QED
        BY <3>1, <4>1 DEF LocalsOK, NoLocals, Moved, Verifying,
          Promoting
    <3> QED
      BY <3>3, <3>4, <3>5
  <2> QED
    BY <2>1, <2>2 DEF Structure
<1>6. made = Earlier /\ IsInjective(made)
  BY PackageAssumption DEF PackageInit
<1>7. Dated
  <2>1. whole \subseteq ToSet(made)
    BY <1>1, <1>2, <1>6
  <2>2. ASSUME NEW w \in Writer
        PROVE  w \notin ToSet(made) /\ w \notin superseded
    BY <1>1, <1>2, <1>6, PackageAssumption
  <2> QED
    BY <1>6, <2>1, <2>2 DEF Dated
<1>8. Overlap
  <2>1. Quiet
    BY <1>1, <1>2 DEF Quiet
  <2>2. NobodyRuns
    BY <1>3 DEF NobodyRuns, Running
  <2>3. Older(old, new)
    BY <1>6, PackageAssumption DEF Older, old, new
  <2>4. Ordered
    BY <1>1, <1>2, <2>3 DEF Ordered, Heir
  <2> QED
    BY <1>3, <2>1, <2>2, <2>4 DEF Overlap, Calm
<1> QED
  BY <1>4, <1>5, <1>7, <1>8 DEF PackageInv

LEMMA Unmoving ==
  ASSUME UNCHANGED pvars
  PROVE  /\ PackageTypeOK => PackageTypeOK'
         /\ Structure => Structure'
         /\ Dated => Dated'
         /\ Overlap => Overlap'
<1> USE DEF pvars, Recovering, Reading, Building, Moved, Verifying, Promoting,
      Ended, Off, Mine, Torn, Tearing, Late, Looking, Undoing, Keeps, Running
<1>1. PackageTypeOK => PackageTypeOK'
  BY DEF PackageTypeOK
<1>2. Structure => Structure'
  BY DEF Structure, OnePlace, ClaimHeld, Fresh, BackupFree, LocalsOK, Named,
    Unpublished, Unmoved
<1>d. Dated => Dated'
  BY DEF Dated, Unpublished
<1>o. Ordered => Ordered'
  BY DEF Ordered, Heir, Older
<1>h. ASSUME NEW x, SoloOrdered(x) PROVE SoloOrdered(x)'
  BY <1>h, <1>o DEF SoloOrdered, SoloHeirs, Heir, Older
<1>g. ASSUME NEW x, NEW y, StayGone(x, y) PROVE StayGone(x, y)'
  BY <1>g DEF StayGone, GonePackage, GoneLeft, Sweeping, GoneBeside, GoneClaim,
    GonePick, WillRestore, PackageSame, GoneBackup, RollingBack, Promised,
    Publishing, Gone, Replaces, Replaced
<1>3. ASSUME NEW x, NEW y, Both(x, y) PROVE Both(x, y)'
  <2>1. NoneLeft(x, y)' <=> NoneLeft(x, y)
    BY DEF NoneLeft
  <2>2. NoneLeft(y, x)' <=> NoneLeft(y, x)
    BY DEF NoneLeft
  <2>3. ASSUME NEW v, NEW w, NoneLeft(v, w)' <=> NoneLeft(v, w), Beside(v, w)
        PROVE  Beside(v, w)'
    <3>1. BackupsBeside(v, w)'
      BY <2>3 DEF Beside, BackupsBeside, EndedWhole, RollbackWhole, BackupOwner,
        UndoBacked
    <3>2. RecoveryBeside(v, w)'
      BY <2>3 DEF Beside, RecoveryBeside, FoundTorn, OwnerSeen, OwnerWhole,
        ListedOther, RestoredGone, Early, Listed, SeenStill, RestoreBeside
    <3>3. RemovalBeside(v, w)'
      BY <2>3 DEF Beside, RemovalBeside, Smooth, Claimed, Restored,
        ClaimCatches, CatchForeign
    <3>s. SweepBeside(v, w)'
      BY <2>3 DEF Beside, SweepBeside, SweepSafe, Reaching, SweepOther,
        SweepOwner
    <3>4. PromotionBeside(v, w)'
      BY <2>3 DEF Beside, PromotionBeside, MoveOwn, MovedOther, MovedTorn,
        MovedBeside, UndoBeside
    <3>5. RollbackBeside(v, w)'
      BY <2>3 DEF Beside, RollbackBeside, TornLeft, TearingOther, TornVictim
    <3> QED
      BY <3>1, <3>2, <3>3, <3>s, <3>4, <3>5 DEF Beside
  <2>4. LeftWhole(x, y)' /\ Gap(x, y)' /\ TornPackage(x, y)'
    BY <1>3, <2>1 DEF Both, LeftWhole, Gap, TornPackage
  <2> QED
    BY <1>3, <2>1, <2>2, <2>3, <2>4 DEF Both
<1>4. ASSUME NEW x, Solo(x) PROVE Solo(x)'
  BY <1>4 DEF Solo, Held, SoloLooks, SoloRestores, SoloSweeps, SoloPromotes,
    Found
<1>a. ASSUME NEW x, Astray(x) PROVE Astray(x)'
  BY <1>a DEF Astray, Held, Spare
<1>5. Overlap => Overlap'
  <2>1. ASSUME NEW x, NEW y, TwoRun(x, y) PROVE TwoRun(x, y)'
    BY <1>g, <1>3, <2>1 DEF TwoRun
  <2> QED
    BY <1>o, <1>h, <1>a, <1>4, <2>1 DEF Overlap, OneCall, TwoCalls, Calm, Quiet,
      NobodyRuns, Held
<1> QED
  BY <1>1, <1>2, <1>d, <1>5

LEMMA Unrolled ==
  ASSUME NEW w \in Writer, Step(w), unrolled
  PROVE  unrolled'
<1>1. CASE Hampered(w)
  BY <1>1 DEF Hampered, Stumble, Hinders, MisreadList, MisreadPackage,
    MisreadBackup, MisreadMoved, RecoveryFails, UndoFails, RollbackFails
<1>2. CASE ~Hampered(w)
  BY <1>2, MishapsKept
<1> QED
  BY <1>1, <1>2

LEMMA PackageStep ==
  ASSUME PackageInv, [PackageNext]_pvars
  PROVE  PackageInv'
<1>1. PackageTypeOK /\ Structure /\ Dated /\ (unrolled \/ Overlap)
  BY DEF PackageInv
<1>2. CASE UNCHANGED pvars
  <2>1. unrolled' = unrolled
    BY <1>2 DEF pvars
  <2> QED
    BY <1>1, <1>2, <2>1, Unmoving DEF PackageInv
<1>3. ASSUME NEW w \in Writer, Step(w) PROVE PackageInv'
  <2>1. PackageTypeOK'
    BY <1>1, <1>3, TypeStep
  <2>2. Structure'
    BY <1>1, <1>3, StructureStep
  <2>3. Dated'
    BY <1>1, <1>3, DatedStep
  <2>4. unrolled' \/ Overlap'
    <3>1. CASE UndoFails(w)
      BY <3>1 DEF UndoFails
    <3>2. CASE unrolled
      BY <1>1, <1>3, <3>2, Unrolled
    <3>3. CASE ~unrolled /\ ~UndoFails(w)
      BY <1>1, <1>3, <3>3, OverlapStart, OverlapCalm, OverlapTrouble,
        OverlapHampered DEF Step, CalmStep, Trouble
    <3> QED
      BY <3>1, <3>2, <3>3
  <2> QED
    BY <2>1, <2>2, <2>3, <2>4 DEF PackageInv
<1>4. PackageNext => \E w \in Writer : Step(w)
  BY DEF PackageNext, Step, Hampered, Stumble
<1> QED
  BY <1>2, <1>3, <1>4

LEMMA PackageInvariant == PackageSpec => []PackageInv
<1>1. PackageInit => PackageInv
  BY PackageStart
<1>2. PackageInv /\ [PackageNext]_pvars => PackageInv'
  BY PackageStep
<1> QED
  BY <1>1, <1>2, PTL DEF PackageSpec

(* What is held is in reach; of two calls, the one that has the tree will  *)
(* put it back.                                                            *)
LEMMA HeldNotLost ==
  ASSUME Held
  PROVE  NeverLost
BY DEF Held, NeverLost, Complete

LEMMA BothHeld ==
  ASSUME PackageTypeOK, Structure, NEW x \in Writer, NEW y \in Writer \ {x},
         Both(x, y)
  PROVE  NeverLost
<1>1. PairFacts(x, y)
  BY Pair
<1>2. LeftWhole(x, y) /\ RollbackWhole(x) /\ RollbackWhole(y)
  BY <1>1 DEF PairFacts, Beside, BackupsBeside
<1>3. CASE ~NoneLeft(x, y)
  BY <1>2, <1>3 DEF NoneLeft, LeftWhole, NeverLost, Complete
<1>4. ASSUME NEW z \in {x, y}, Keeps(z) PROVE NeverLost
  BY <1>1, <1>4 DEF PairFacts, Keeps, NeverLost, Complete, Running, Ended
<1>5. ASSUME NEW z \in {x, y}, Tearing(z) PROVE NeverLost
  BY <1>1, <1>2, <1>5 DEF PairFacts, Tearing, RollbackWhole, NeverLost,
    Complete
<1> QED
  BY <1>1, <1>3, <1>4, <1>5 DEF PairFacts, Gap, TornPackage, Torn, NeverLost,
    Complete

(* The variables of the package, its backups and the calls have their      *)
(* types.                                                                  *)
THEOREM PackageTypeCorrect == PackageSpec => []PackageTypeOK
<1>1. PackageInv => PackageTypeOK
  BY DEF PackageInv
<1> QED
  BY <1>1, PackageInvariant, PTL

(* Whatever calls, overlaps, crashes and failed looks, renames and         *)
(* removals happen, there is a complete package, or one that recovery      *)
(* finds or a running call puts back                                       *)
(* (_recover_interrupted_article_package, _promote_article_package_tree),  *)
(* until a rollback fails to remove the tree it published: it then drops   *)
(* the backup beside the torn tree.                                        *)
THEOREM NeverLostAlways == PackageSpec => []NeverLost
<1>1. PackageInv => NeverLost
  <2> SUFFICES ASSUME PackageInv, ~unrolled PROVE NeverLost
    BY DEF NeverLost
  <2>1. PackageTypeOK /\ Structure /\ Overlap
    BY DEF PackageInv
  <2>2. CASE undisturbed # {}
    BY <2>1, <2>2, HeldNotLost DEF Overlap, OneCall, Solo, Astray
  <2>3. CASE undisturbed = {} /\ TwoCalls
    BY <2>1, <2>3, BothHeld DEF TwoCalls, TwoRun
  <2>4. CASE undisturbed = {} /\ ~TwoCalls
    BY <2>1, <2>4, QuietHeld, HeldNotLost DEF Overlap
  <2> QED
    BY <2>2, <2>3, <2>4
<1> QED
  BY <1>1, PackageInvariant, PTL

(* A call that no other overlapped leaves a complete package when it ends, *)
(* whether it succeeds or fails and whatever looks and removals failed on  *)
(* calls before it, unless a look or a rename of its own recovery or       *)
(* rollback failed, or a rollback did not remove the tree it published.    *)
THEOREM CallRepairsAlways == PackageSpec => []CallRepairs
<1>1. PackageInv => CallRepairs
  BY DEF PackageInv, Overlap, OneCall, Solo, SoloSweeps, CallRepairs, Complete
<1> QED
  BY <1>1, PackageInvariant, PTL

(* No recovery and no rollback puts back a tree that a successful write    *)
(* replaced, although removals fail and leave it at a backup name, unless  *)
(* a look of a recovery failed and it passed over the newer tree.          *)
THEOREM SupersededGoneAlways == PackageSpec => []SupersededStaysGone
<1>1. PackageInv => SupersededStaysGone
  <2> SUFFICES ASSUME PackageInv, ~unrolled, hindered = {}
               PROVE  SupersededStaysGone
    BY DEF SupersededStaysGone
  <2>1. Overlap
    BY DEF PackageInv
  <2>2. CASE undisturbed # {}
    BY <2>1, <2>2 DEF Overlap, OneCall, SoloOrdered, Ordered,
      SupersededStaysGone
  <2>3. CASE undisturbed = {} /\ TwoCalls
    BY <2>3 DEF TwoCalls, TwoRun, StayGone, GonePackage, Gone,
      SupersededStaysGone
  <2>4. CASE undisturbed = {} /\ ~TwoCalls
    BY <2>1, <2>4 DEF Overlap, Ordered, SupersededStaysGone
  <2> QED
    BY <2>2, <2>3, <2>4
<1> QED
  BY <1>1, PackageInvariant, PTL
=============================================================================
