------------------------ MODULE ArticlePackageProofs ------------------------
(***************************************************************************)
(* Proofs about article packages, first part: what a step of one call does,*)
(* that types, structure and ages are kept, and what a call that no other  *)
(* overlaps keeps knowing.  ArticlePackageOverlapProofs has the rest.      *)
(*                                                                         *)
(* Every action has an effect (its guard and its changes without EXCEPT),  *)
(* and one lemma for each part of the invariant; the lemmas are in the     *)
(* order of the actions.                                                   *)
(***************************************************************************)
EXTENDS ArticlePackageInvariant, TLAPS

-----------------------------------------------------------------------------
(* What the types say, and what a call knows of its own names.             *)

LEMMA Types ==
  ASSUME PackageTypeOK
  PROVE  /\ pc \in [Writer -> Label] /\ local \in [Writer -> Locals]
         /\ backup \in [Backup -> Tree \cup {NoTree}]
         /\ claim \in [Writer -> Tree \cup {NoTree}]
         /\ Writer \subseteq Backup
BY DEF PackageTypeOK, Backup

\* What a call knows of its own names.
SelfFacts(w) ==
  /\ w \in Backup /\ Package \notin Backup /\ NoTree \notin whole
  /\ w # NoTree /\ w # Package
  /\ pc[w] \in Label /\ local[w] \in Locals /\ local[w].todo \subseteq Backup
  /\ local[w].target \in Backup \cup {Package} /\ local[w].target # w
  /\ pc[w] = "restore" => local[w].pick \in Backup \ {w}

LEMMA Self ==
  ASSUME PackageTypeOK, Structure, NEW w \in Writer
  PROVE  SelfFacts(w)
<1>1. LocalsOK(w)
  BY DEF Structure
<1>2. /\ w \in Backup /\ Package \notin Backup /\ NoTree \notin whole
      /\ w # NoTree /\ w # Package
  BY PackageAssumption DEF Backup, Tree, PackageTypeOK
<1>3. /\ pc[w] \in Label /\ local[w] \in Locals /\ local[w].todo \subseteq Backup
      /\ local[w].target \in Backup \cup {Package}
  BY Types DEF Locals
<1> QED
  BY <1>1, <1>2, <1>3 DEF LocalsOK, Named, SelfFacts

-----------------------------------------------------------------------------
(* What each step does, case by case: where the call goes, what it moves,  *)
(* and what its local variables are afterwards.  The effect says it        *)
(* field by field, so that later proofs need not open the action.          *)

StartEffect(w) ==
  /\ pc[w] = "idle"
  /\ pc'[w] = "list"
  /\ \A v \in Writer \ {w} : pc'[v] = pc[v]
  /\ package' = package
  /\ backup' = backup
  /\ claim' = claim
  /\ whole' = whole
  /\ local' = local

LEMMA StartStep ==
  ASSUME PackageTypeOK, Structure, NEW w \in Writer, Start(w)
  PROVE  StartEffect(w)
BY Types DEF StartEffect, Start, Goto, Set, Paths, Locals

ListBackupsEffect(w) ==
  /\ pc[w] = "list"
  /\ pc'[w] = IF Found = {} THEN "stage" ELSE "present"
  /\ \A v \in Writer \ {w} : pc'[v] = pc[v] /\ local'[v] = local[v]
  /\ package' = package
  /\ backup' = backup
  /\ claim' = claim
  /\ whole' = whole
  /\ local'[w].todo = Found
  /\ local'[w].pick = local[w].pick
  /\ local'[w].owner = local[w].owner
  /\ local'[w].present = local[w].present
  /\ local'[w].target = local[w].target
  /\ local'[w].published = local[w].published
  /\ local'[w].victim = local[w].victim

LEMMA ListBackupsStep ==
  ASSUME PackageTypeOK, Structure, NEW w \in Writer, ListBackups(w)
  PROVE  ListBackupsEffect(w)
BY Types DEF ListBackupsEffect, ListBackups, Goto, Set, Paths, Locals

SeePackageEffect(w) ==
  /\ pc[w] = "present"
  /\ pc'[w] = "owner"
  /\ \A v \in Writer \ {w} : pc'[v] = pc[v] /\ local'[v] = local[v]
  /\ package' = package
  /\ backup' = backup
  /\ claim' = claim
  /\ whole' = whole
  /\ local'[w].todo = local[w].todo
  /\ local'[w].pick = local[w].pick
  /\ local'[w].owner = local[w].owner
  /\ local'[w].present = (package # NoTree)
  /\ local'[w].target = local[w].target
  /\ local'[w].published = local[w].published
  /\ local'[w].victim = local[w].victim

LEMMA SeePackageStep ==
  ASSUME PackageTypeOK, Structure, NEW w \in Writer, SeePackage(w)
  PROVE  SeePackageEffect(w)
BY Types DEF SeePackageEffect, SeePackage, Goto, Set, Paths, Locals

NoteOwnerEffect(w) ==
  /\ pc[w] = "owner"
  /\ pc'[w] = IF local[w].present /\ package = NoTree THEN "failed" ELSE "check"
  /\ \A v \in Writer \ {w} : pc'[v] = pc[v] /\ local'[v] = local[v]
  /\ package' = package
  /\ backup' = backup
  /\ claim' = claim
  /\ whole' = whole
  /\ local'[w].todo = local[w].todo
  /\ local'[w].pick = local[w].pick
  /\ local'[w].owner = package
  /\ local'[w].present = local[w].present
  /\ local'[w].target = local[w].target
  /\ local'[w].published = local[w].published
  /\ local'[w].victim = local[w].victim

LEMMA NoteOwnerStep ==
  ASSUME PackageTypeOK, Structure, NEW w \in Writer, NoteOwner(w)
  PROVE  NoteOwnerEffect(w)
BY Types DEF NoteOwnerEffect, NoteOwner, Goto, Set, Paths, Locals

CheckPackageEffect(w) ==
  /\ pc[w] = "check"
  /\ pc'[w] = IF package \in whole THEN "sweep" ELSE "choose"
  /\ \A v \in Writer \ {w} : pc'[v] = pc[v] /\ local'[v] = local[v]
  /\ package' = package
  /\ backup' = backup
  /\ claim' = claim
  /\ whole' = whole
  /\ local'[w].todo = local[w].todo
  /\ local'[w].pick = local[w].pick
  /\ local'[w].owner = local[w].owner
  /\ local'[w].present = local[w].present
  /\ local'[w].target = local[w].target
  /\ local'[w].published = local[w].published
  /\ local'[w].victim = local[w].victim

LEMMA CheckPackageStep ==
  ASSUME PackageTypeOK, Structure, NEW w \in Writer, CheckPackage(w)
  PROVE  CheckPackageEffect(w)
BY Types DEF CheckPackageEffect, CheckPackage, Goto, Set, Paths, Locals,
  Complete

ChooseNoneEffect(w) ==
  /\ pc[w] = "choose"
  /\ pc'[w] = "stage"
  /\ \A v \in Writer \ {w} : pc'[v] = pc[v]
  /\ package' = package
  /\ backup' = backup
  /\ claim' = claim
  /\ whole' = whole
  /\ local' = local
  /\ \A b \in local[w].todo : backup[b] \notin whole

LEMMA ChooseNoneStep ==
  ASSUME PackageTypeOK, Structure, NEW w \in Writer, ChooseBackup(w),
         pc'[w] = "stage"
  PROVE  ChooseNoneEffect(w)
<1> USE DEF ChooseNoneEffect
<1>1. NoTree \notin whole /\ local[w].todo \subseteq Backup
  BY Self DEF SelfFacts
<1> QED
  BY <1>1, Types DEF ChooseBackup, ChooseFrom, Good, Goto, Set, Paths,
    Locals, Complete, Found

ChooseEffect(w) ==
  /\ pc[w] = "choose"
  /\ pc'[w] = "recheck"
  /\ \A v \in Writer \ {w} : pc'[v] = pc[v] /\ local'[v] = local[v]
  /\ package' = package
  /\ backup' = backup
  /\ claim' = claim
  /\ whole' = whole
  /\ local'[w].todo = local[w].todo
  /\ local'[w].owner = local[w].owner
  /\ local'[w].present = local[w].present
  /\ local'[w].target = local[w].target
  /\ local'[w].published = local[w].published
  /\ local'[w].victim = local[w].victim
  /\ local'[w].pick \in local[w].todo
  /\ backup[local'[w].pick] \in whole

LEMMA ChooseStep ==
  ASSUME PackageTypeOK, Structure, NEW w \in Writer, ChooseBackup(w),
         pc'[w] # "stage"
  PROVE  ChooseEffect(w)
<1> USE DEF ChooseEffect
<1>1. PICK b \in local[w].todo \cap Found :
        /\ Complete(backup[b])
        /\ local'[w] = [local[w] EXCEPT !.pick = b] /\ pc'[w] = "recheck"
  BY Types DEF ChooseBackup, ChooseFrom, Good, Set, Goto
<1>2. local[w] \in Locals
  BY Types
<1>3. /\ local'[w].pick = b /\ local'[w].todo = local[w].todo
      /\ local'[w].owner = local[w].owner
      /\ local'[w].target = local[w].target
      /\ local'[w].present = local[w].present
      /\ local'[w].published = local[w].published
      /\ local'[w].victim = local[w].victim
  BY <1>1, <1>2 DEF Locals
<1> QED
  BY <1>1, <1>3, Types DEF ChooseBackup, ChooseFrom, Goto, Set, Paths, Complete

RecheckNoEffect(w) ==
  /\ pc[w] = "recheck"
  /\ pc'[w] = "stage"
  /\ \A v \in Writer \ {w} : pc'[v] = pc[v]
  /\ package' = package
  /\ backup' = backup
  /\ claim' = claim
  /\ whole' = whole
  /\ local' = local
  /\ ~(IF local[w].present THEN package = local[w].owner
          ELSE package = NoTree)

LEMMA RecheckNoStep ==
  ASSUME PackageTypeOK, Structure, NEW w \in Writer, Recheck(w),
         ~PackageSame(w)
  PROVE  RecheckNoEffect(w)
BY Types DEF Recheck, Goto, Set, Paths, Locals, PackageSame, RecheckNoEffect

RecheckGoneEffect(w) ==
  /\ pc[w] = "recheck"
  /\ pc'[w] = "choose"
  /\ \A v \in Writer \ {w} : pc'[v] = pc[v] /\ local'[v] = local[v]
  /\ package' = package
  /\ backup' = backup
  /\ claim' = claim
  /\ whole' = whole
  /\ local'[w].todo = local[w].todo \ {local[w].pick}
  /\ local'[w].pick = local[w].pick
  /\ local'[w].owner = local[w].owner
  /\ local'[w].present = local[w].present
  /\ local'[w].target = local[w].target
  /\ local'[w].published = local[w].published
  /\ local'[w].victim = local[w].victim
  /\ IF local[w].present THEN package = local[w].owner
          ELSE package = NoTree
  /\ backup[local[w].pick] = NoTree

LEMMA RecheckGoneStep ==
  ASSUME PackageTypeOK, Structure, NEW w \in Writer, Recheck(w),
         PackageSame(w) /\ backup[local[w].pick] = NoTree
  PROVE  RecheckGoneEffect(w)
BY Types DEF Recheck, Goto, Set, Paths, Locals, PackageSame, RecheckGoneEffect

RecheckYesEffect(w) ==
  /\ pc[w] = "recheck"
  /\ pc'[w] = IF local[w].present THEN "claim" ELSE "restore"
  /\ \A v \in Writer \ {w} : pc'[v] = pc[v] /\ local'[v] = local[v]
  /\ package' = package
  /\ backup' = backup
  /\ claim' = claim
  /\ whole' = whole
  /\ local'[w].todo = local[w].todo
  /\ local'[w].pick = local[w].pick
  /\ local'[w].owner = local[w].owner
  /\ local'[w].present = local[w].present
  /\ local'[w].target = Package
  /\ local'[w].published = local[w].published
  /\ local'[w].victim = local[w].victim
  /\ IF local[w].present THEN package = local[w].owner
          ELSE package = NoTree
  /\ backup[local[w].pick] # NoTree

LEMMA RecheckYesStep ==
  ASSUME PackageTypeOK, Structure, NEW w \in Writer, Recheck(w),
         PackageSame(w) /\ backup[local[w].pick] # NoTree
  PROVE  RecheckYesEffect(w)
BY Types DEF Recheck, Goto, Set, Paths, Locals, PackageSame, RecheckYesEffect

RestoreYesEffect(w) ==
  /\ pc[w] = "restore"
  /\ pc'[w] = "restored"
  /\ \A v \in Writer \ {w} : pc'[v] = pc[v] /\ local'[v] = local[v]
  /\ claim' = claim
  /\ whole' = whole
  /\ package = NoTree
  /\ backup[local[w].pick] # NoTree
  /\ package' = backup[local[w].pick]
  /\ backup'[local[w].pick] = NoTree
  /\ backup'[w] = backup[w]
  /\ \A b \in Backup : b # local[w].pick => backup'[b] = backup[b]
  /\ local'[w].todo = local[w].todo
  /\ local'[w].pick = local[w].pick
  /\ local'[w].owner = backup[local[w].pick]
  /\ local'[w].present = local[w].present
  /\ local'[w].target = local[w].target
  /\ local'[w].published = local[w].published
  /\ local'[w].victim = local[w].victim

LEMMA RestoreYesStep ==
  ASSUME PackageTypeOK, Structure, NEW w \in Writer, RestoreBackup(w),
         package = NoTree /\ backup[local[w].pick] # NoTree
  PROVE  RestoreYesEffect(w)
<1> USE DEF RestoreYesEffect
<1>1. local[w].pick \in Backup \ {w} \/ pc[w] # "restore"
  BY Self DEF SelfFacts
<1> QED
  BY <1>1, Types DEF RestoreBackup, Goto, Set, Locals

RestoreNoEffect(w) ==
  /\ pc[w] = "restore"
  /\ pc'[w] = IF pc'[w] = "stage" THEN "stage" ELSE "failed"
  /\ \A v \in Writer \ {w} : pc'[v] = pc[v]
  /\ package' = package
  /\ backup' = backup
  /\ claim' = claim
  /\ whole' = whole
  /\ local' = local
  /\ package # NoTree \/ backup[local[w].pick] = NoTree

LEMMA RestoreNoStep ==
  ASSUME PackageTypeOK, Structure, NEW w \in Writer, RestoreBackup(w),
         ~(package = NoTree /\ backup[local[w].pick] # NoTree)
  PROVE  RestoreNoEffect(w)
BY Types DEF RestoreBackup, Goto, Set, Paths, Locals, RestoreNoEffect

VerifyRestoredEffect(w) ==
  /\ pc[w] = "restored"
  /\ pc'[w] = IF package = local[w].owner THEN "sweep" ELSE "failed"
  /\ \A v \in Writer \ {w} : pc'[v] = pc[v] /\ local'[v] = local[v]
  /\ package' = package
  /\ backup' = backup
  /\ claim' = claim
  /\ whole' = whole
  /\ local'[w].todo = IF package = local[w].owner
          THEN local[w].todo \ {local[w].pick} ELSE local[w].todo
  /\ local'[w].pick = local[w].pick
  /\ local'[w].owner = local[w].owner
  /\ local'[w].present = local[w].present
  /\ local'[w].target = local[w].target
  /\ local'[w].published = local[w].published
  /\ local'[w].victim = local[w].victim

LEMMA VerifyRestoredStep ==
  ASSUME PackageTypeOK, Structure, NEW w \in Writer, VerifyRestored(w)
  PROVE  VerifyRestoredEffect(w)
<1> USE DEF VerifyRestoredEffect
<1>1. CASE package = local[w].owner
  <2>1. local'[w] = [local[w] EXCEPT !.todo = @ \ {local[w].pick},
                                     !.strict = TRUE]
    BY <1>1, Types DEF VerifyRestored, Set
  <2>2. local[w] \in Locals
    BY Types
  <2>3. /\ local'[w].todo = local[w].todo \ {local[w].pick}
        /\ local'[w].pick = local[w].pick
        /\ local'[w].owner = local[w].owner
        /\ local'[w].present = local[w].present
        /\ local'[w].target = local[w].target
        /\ local'[w].published = local[w].published
        /\ local'[w].victim = local[w].victim
    BY <2>1, <2>2 DEF Locals
  <2> QED
    BY <1>1, <2>3, Types DEF VerifyRestored, Goto, Set, Paths
<1>2. CASE package # local[w].owner
  BY <1>2, Types DEF VerifyRestored, Goto, Paths
<1> QED
  BY <1>1, <1>2

SweepEndEffect(w) ==
  /\ pc[w] = "sweep"
  /\ pc'[w] = "stage"
  /\ \A v \in Writer \ {w} : pc'[v] = pc[v]
  /\ package' = package
  /\ backup' = backup
  /\ claim' = claim
  /\ whole' = whole
  /\ local' = local
  /\ local[w].todo = {}

LEMMA SweepEndStep ==
  ASSUME PackageTypeOK, Structure, NEW w \in Writer, SweepBackups(w),
         pc'[w] = "stage"
  PROVE  SweepEndEffect(w)
BY Types DEF SweepBackups, Goto, Set, Paths, Locals, SweepEndEffect

SweepEffect(w) ==
  /\ pc[w] = "sweep"
  /\ pc'[w] = IF backup[local'[w].target] = NoTree THEN "sweep" ELSE "claim"
  /\ \A v \in Writer \ {w} : pc'[v] = pc[v] /\ local'[v] = local[v]
  /\ package' = package
  /\ backup' = backup
  /\ claim' = claim
  /\ whole' = whole
  /\ local'[w].todo = local[w].todo \ {local'[w].target}
  /\ local'[w].pick = local[w].pick
  /\ local'[w].owner = backup[local'[w].target]
  /\ local'[w].present = local[w].present
  /\ local'[w].published = local[w].published
  /\ local'[w].victim = local[w].victim
  /\ local'[w].target \in local[w].todo

LEMMA SweepStep ==
  ASSUME PackageTypeOK, Structure, NEW w \in Writer, SweepBackups(w),
         pc'[w] # "stage"
  PROVE  SweepEffect(w)
<1> USE DEF SweepEffect
<1>1. PICK b \in local[w].todo :
        /\ local'[w] = [local[w] EXCEPT !.target = b, !.todo = @ \ {b},
                                        !.owner = backup[b]]
        /\ pc'[w] = IF backup[b] = NoTree THEN "sweep" ELSE "claim"
  BY Types DEF SweepBackups, Set, Goto
<1>2. local[w] \in Locals
  BY Types
<1>3. /\ local'[w].target = b /\ local'[w].todo = local[w].todo \ {b}
      /\ local'[w].owner = backup[b] /\ local'[w].pick = local[w].pick
      /\ local'[w].present = local[w].present
      /\ local'[w].published = local[w].published
      /\ local'[w].victim = local[w].victim
  BY <1>1, <1>2 DEF Locals
<1> QED
  BY <1>1, <1>3, Types DEF SweepBackups, Goto, Set, Paths

ClaimNoneEffect(w) ==
  /\ pc[w] = "claim"
  /\ pc'[w] = "stage"
  /\ \A v \in Writer \ {w} : pc'[v] = pc[v]
  /\ package' = package
  /\ backup' = backup
  /\ claim' = claim
  /\ whole' = whole
  /\ local' = local
  /\ Mine(w)
  /\ package = NoTree

LEMMA ClaimNoneStep ==
  ASSUME PackageTypeOK, Structure, NEW w \in Writer, ClaimPath(w),
         Mine(w) /\ package = NoTree
  PROVE  ClaimNoneEffect(w)
<1> USE DEF ClaimNoneEffect
<1>1. local[w].target \in Backup \cup {Package} /\ Package \notin Backup
  BY Self DEF SelfFacts
<1> QED
  BY <1>1, Types DEF ClaimPath, Goto, At, Put, After, Mine

ClaimPathEffect(w) ==
  /\ pc[w] = "claim"
  /\ pc'[w] = "claimed"
  /\ \A v \in Writer \ {w} : pc'[v] = pc[v] /\ claim'[v] = claim[v]
  /\ backup' = backup
  /\ whole' = whole
  /\ local' = local
  /\ Mine(w)
  /\ package # NoTree
  /\ package' = NoTree
  /\ claim'[w] = package

LEMMA ClaimPathStep ==
  ASSUME PackageTypeOK, Structure, NEW w \in Writer, ClaimPath(w),
         Mine(w) /\ package # NoTree
  PROVE  ClaimPathEffect(w)
<1> USE DEF ClaimPathEffect
<1>1. local[w].target \in Backup \cup {Package} /\ Package \notin Backup
  BY Self DEF SelfFacts
<1> QED
  BY <1>1, Types DEF ClaimPath, Goto, At, Put, After, Mine

ClaimNoneOtherEffect(w) ==
  /\ pc[w] = "claim"
  /\ pc'[w] = "sweep"
  /\ \A v \in Writer \ {w} : pc'[v] = pc[v]
  /\ package' = package
  /\ backup' = backup
  /\ claim' = claim
  /\ whole' = whole
  /\ local' = local
  /\ ~Mine(w)
  /\ backup[local[w].target] = NoTree

LEMMA ClaimNoneOtherStep ==
  ASSUME PackageTypeOK, Structure, NEW w \in Writer, ClaimPath(w),
         ~Mine(w) /\ backup[local[w].target] = NoTree
  PROVE  ClaimNoneOtherEffect(w)
<1> USE DEF ClaimNoneOtherEffect
<1>1. local[w].target \in Backup \cup {Package} /\ Package \notin Backup
  BY Self DEF SelfFacts
<1> QED
  BY <1>1, Types DEF ClaimPath, Goto, At, Put, After, Mine

ClaimPathOtherEffect(w) ==
  /\ pc[w] = "claim"
  /\ pc'[w] = "claimed"
  /\ \A v \in Writer \ {w} : pc'[v] = pc[v] /\ claim'[v] = claim[v]
  /\ package' = package
  /\ whole' = whole
  /\ local' = local
  /\ ~Mine(w)
  /\ backup[local[w].target] # NoTree
  /\ claim'[w] = backup[local[w].target]
  /\ backup'[local[w].target] = NoTree
  /\ backup'[w] = backup[w]
  /\ \A b \in Backup : b # local[w].target => backup'[b] = backup[b]

LEMMA ClaimPathOtherStep ==
  ASSUME PackageTypeOK, Structure, NEW w \in Writer, ClaimPath(w),
         ~Mine(w) /\ backup[local[w].target] # NoTree
  PROVE  ClaimPathOtherEffect(w)
<1> USE DEF ClaimPathOtherEffect
<1>1. /\ local[w].target \in Backup \cup {Package} /\ Package \notin Backup
      /\ local[w].target # w
  BY Self DEF SelfFacts
<1> QED
  BY <1>1, Types DEF ClaimPath, Goto, At, Put, Mine

RestoreForeignEffect(w) ==
  /\ pc[w] = "claimed"
  /\ pc'[w] = "stage"
  /\ \A v \in Writer \ {w} : pc'[v] = pc[v] /\ claim'[v] = claim[v]
  /\ backup' = backup
  /\ whole' = whole
  /\ local' = local
  /\ Mine(w)
  /\ claim[w] # local[w].owner
  /\ package' = IF package = NoTree THEN claim[w] ELSE package
  /\ claim'[w] = NoTree

LEMMA RestoreForeignStep ==
  ASSUME PackageTypeOK, Structure, NEW w \in Writer, RestoreForeign(w),
         Mine(w)
  PROVE  RestoreForeignEffect(w)
<1> USE DEF RestoreForeignEffect
<1>1. local[w].target \in Backup \cup {Package} /\ Package \notin Backup
  BY Self DEF SelfFacts
<1> QED
  BY <1>1, Types DEF RestoreForeign, Goto, At, Put, After, Mine,
    ClaimForeign

RestoreForeignOtherEffect(w) ==
  /\ pc[w] = "claimed"
  /\ pc'[w] = "sweep"
  /\ \A v \in Writer \ {w} : pc'[v] = pc[v] /\ claim'[v] = claim[v]
  /\ package' = package
  /\ whole' = whole
  /\ local' = local
  /\ ~Mine(w)
  /\ claim[w] # local[w].owner
  /\ claim'[w] = NoTree
  /\ backup'[local[w].target] = IF backup[local[w].target] = NoTree
          THEN claim[w] ELSE backup[local[w].target]
  /\ \A b \in Backup : b # local[w].target => backup'[b] = backup[b]

LEMMA RestoreForeignOtherStep ==
  ASSUME PackageTypeOK, Structure, NEW w \in Writer, RestoreForeign(w),
         ~Mine(w)
  PROVE  RestoreForeignOtherEffect(w)
<1> USE DEF RestoreForeignOtherEffect
<1>1. local[w].target \in Backup \cup {Package} /\ Package \notin Backup
  BY Self DEF SelfFacts
<1> QED
  BY <1>1, Types DEF RestoreForeign, Goto, At, Put, After, Mine,
    ClaimForeign

RemoveClaimedEffect(w) ==
  /\ pc[w] = "claimed"
  /\ pc'[w] = "restore"
  /\ \A v \in Writer \ {w} : pc'[v] = pc[v] /\ claim'[v] = claim[v]
  /\ package' = package
  /\ backup' = backup
  /\ local' = local
  /\ Mine(w)
  /\ claim[w] = local[w].owner
  /\ claim'[w] = NoTree
  /\ whole' = whole \ {claim[w]}

LEMMA RemoveClaimedStep ==
  ASSUME PackageTypeOK, Structure, NEW w \in Writer, RemoveClaimed(w),
         Mine(w)
  PROVE  RemoveClaimedEffect(w)
BY Types DEF RemoveClaimed, Goto, After, Mine, ClaimForeign,
  RemoveClaimedEffect

RemoveClaimedOtherEffect(w) ==
  /\ pc[w] = "claimed"
  /\ pc'[w] = "sweep"
  /\ \A v \in Writer \ {w} : pc'[v] = pc[v] /\ claim'[v] = claim[v]
  /\ package' = package
  /\ backup' = backup
  /\ local' = local
  /\ ~Mine(w)
  /\ claim[w] = local[w].owner
  /\ claim'[w] = NoTree
  /\ whole' = whole \ {claim[w]}

LEMMA RemoveClaimedOtherStep ==
  ASSUME PackageTypeOK, Structure, NEW w \in Writer, RemoveClaimed(w),
         ~Mine(w)
  PROVE  RemoveClaimedOtherEffect(w)
BY Types DEF RemoveClaimed, Goto, After, Mine, ClaimForeign,
  RemoveClaimedOtherEffect

RemovalFailsEffect(w) ==
  /\ pc[w] = "claimed"
  /\ pc'[w] = "failed"
  /\ \A v \in Writer \ {w} : pc'[v] = pc[v] /\ claim'[v] = claim[v]
  /\ backup' = backup
  /\ local' = local
  /\ Mine(w)
  /\ claim[w] = local[w].owner
  /\ whole' \in {whole, whole \ {claim[w]}}
  /\ package' = IF package = NoTree THEN claim[w] ELSE package
  /\ claim'[w] = NoTree

LEMMA RemovalFailsStep ==
  ASSUME PackageTypeOK, Structure, NEW w \in Writer, RemovalFails(w),
         Mine(w)
  PROVE  RemovalFailsEffect(w)
<1> USE DEF RemovalFailsEffect
<1>1. local[w].target \in Backup \cup {Package} /\ Package \notin Backup
  BY Self DEF SelfFacts
<1> QED
  BY <1>1, Types DEF RemovalFails, Goto, At, Put, After, Mine,
    ClaimForeign

RemovalFailsOtherEffect(w) ==
  /\ pc[w] = "claimed"
  /\ pc'[w] = IF local[w].strict THEN "failed" ELSE "sweep"
  /\ \A v \in Writer \ {w} : pc'[v] = pc[v] /\ claim'[v] = claim[v]
  /\ package' = package
  /\ local' = local
  /\ ~Mine(w)
  /\ claim[w] = local[w].owner
  /\ whole' \in {whole, whole \ {claim[w]}}
  /\ claim'[w] = NoTree
  /\ backup'[local[w].target] = IF backup[local[w].target] = NoTree
          THEN claim[w] ELSE backup[local[w].target]
  /\ \A b \in Backup : b # local[w].target => backup'[b] = backup[b]

LEMMA RemovalFailsOtherStep ==
  ASSUME PackageTypeOK, Structure, NEW w \in Writer, RemovalFails(w),
         ~Mine(w)
  PROVE  RemovalFailsOtherEffect(w)
<1> USE DEF RemovalFailsOtherEffect
<1>1. local[w].target \in Backup \cup {Package} /\ Package \notin Backup
  BY Self DEF SelfFacts
<1> QED
  BY <1>1, Types DEF RemovalFails, Goto, At, Put, After, Mine,
    ClaimForeign

BuildTreeEffect(w) ==
  /\ pc[w] = "stage"
  /\ pc'[w] = "look"
  /\ \A v \in Writer \ {w} : pc'[v] = pc[v]
  /\ package' = package
  /\ backup' = backup
  /\ claim' = claim
  /\ local' = local
  /\ whole' = whole \cup {w}

LEMMA BuildTreeStep ==
  ASSUME PackageTypeOK, Structure, NEW w \in Writer, BuildTree(w)
  PROVE  BuildTreeEffect(w)
BY Types DEF BuildTreeEffect, BuildTree, Goto, Set, Paths, Locals

BuildFailsEffect(w) ==
  /\ pc[w] = "stage"
  /\ pc'[w] = "failed"
  /\ \A v \in Writer \ {w} : pc'[v] = pc[v]
  /\ package' = package
  /\ backup' = backup
  /\ claim' = claim
  /\ whole' = whole
  /\ local' = local

LEMMA BuildFailsStep ==
  ASSUME PackageTypeOK, Structure, NEW w \in Writer, BuildFails(w)
  PROVE  BuildFailsEffect(w)
BY Types DEF BuildFailsEffect, BuildFails, Goto, Set, Paths, Locals

LookForPackageEffect(w) ==
  /\ pc[w] = "look"
  /\ pc'[w] = IF package = NoTree THEN "publish" ELSE "own"
  /\ \A v \in Writer \ {w} : pc'[v] = pc[v] /\ local'[v] = local[v]
  /\ package' = package
  /\ backup' = backup
  /\ claim' = claim
  /\ whole' = whole
  /\ local'[w].todo = local[w].todo
  /\ local'[w].pick = NoTree
  /\ local'[w].owner = NoTree
  /\ local'[w].present = local[w].present
  /\ local'[w].target = local[w].target
  /\ local'[w].published = FALSE
  /\ local'[w].victim = local[w].victim

LEMMA LookForPackageStep ==
  ASSUME PackageTypeOK, Structure, NEW w \in Writer, LookForPackage(w)
  PROVE  LookForPackageEffect(w)
BY Types DEF LookForPackageEffect, LookForPackage, Goto, Set, Paths, Locals

RecordOwnerEffect(w) ==
  /\ pc[w] = "own"
  /\ pc'[w] = IF package = NoTree THEN "failed" ELSE "moveAway"
  /\ \A v \in Writer \ {w} : pc'[v] = pc[v] /\ local'[v] = local[v]
  /\ package' = package
  /\ backup' = backup
  /\ claim' = claim
  /\ whole' = whole
  /\ local'[w].todo = local[w].todo
  /\ local'[w].pick = local[w].pick
  /\ local'[w].owner = IF package = NoTree THEN local[w].owner ELSE package
  /\ local'[w].present = local[w].present
  /\ local'[w].target = local[w].target
  /\ local'[w].published = local[w].published
  /\ local'[w].victim = local[w].victim

LEMMA RecordOwnerStep ==
  ASSUME PackageTypeOK, Structure, NEW w \in Writer, RecordOwner(w)
  PROVE  RecordOwnerEffect(w)
<1> USE DEF RecordOwnerEffect
<1>1. CASE package = NoTree
  BY <1>1, Types DEF RecordOwner, Goto, Set, Paths, Locals
<1>2. CASE package # NoTree
  BY <1>2, Types DEF RecordOwner, Goto, Set, Paths, Locals
<1> QED
  BY <1>1, <1>2

MoveAwayEffect(w) ==
  /\ pc[w] = "moveAway"
  /\ pc'[w] = IF package = NoTree THEN "undo" ELSE "movedAway"
  /\ \A v \in Writer \ {w} : pc'[v] = pc[v] /\ local'[v] = local[v]
  /\ claim' = claim
  /\ whole' = whole
  /\ package' = NoTree
  /\ backup'[w] = IF package = NoTree THEN backup[w] ELSE package
  /\ \A b \in Backup : b # w => backup'[b] = backup[b]
  /\ local'[w].todo = local[w].todo
  /\ local'[w].pick = w
  /\ local'[w].owner = local[w].owner
  /\ local'[w].present = local[w].present
  /\ local'[w].target = local[w].target
  /\ local'[w].published = local[w].published
  /\ local'[w].victim = local[w].victim

LEMMA MoveAwayStep ==
  ASSUME PackageTypeOK, Structure, NEW w \in Writer, MoveAway(w)
  PROVE  MoveAwayEffect(w)
<1> USE DEF MoveAwayEffect
<1>1. CASE package = NoTree
  BY <1>1, Types DEF MoveAway, Goto, Set, Paths, Locals
<1>2. CASE package # NoTree
  BY <1>2, Types DEF MoveAway, Goto, Set, Paths, Locals
<1> QED
  BY <1>1, <1>2

VerifyBackupEffect(w) ==
  /\ pc[w] = "movedAway"
  /\ pc'[w] = IF backup[w] = local[w].owner THEN "publish" ELSE "undo"
  /\ \A v \in Writer \ {w} : pc'[v] = pc[v]
  /\ package' = package
  /\ backup' = backup
  /\ claim' = claim
  /\ whole' = whole
  /\ local' = local

LEMMA VerifyBackupStep ==
  ASSUME PackageTypeOK, Structure, NEW w \in Writer, VerifyBackup(w)
  PROVE  VerifyBackupEffect(w)
BY Types DEF VerifyBackupEffect, VerifyBackup, Goto, Set, Paths, Locals

PublishEffect(w) ==
  /\ pc[w] = "publish"
  /\ pc'[w] = IF package = NoTree THEN "verify" ELSE "undo"
  /\ \A v \in Writer \ {w} : pc'[v] = pc[v] /\ local'[v] = local[v]
  /\ backup' = backup
  /\ claim' = claim
  /\ whole' = whole
  /\ package' = IF package = NoTree THEN w ELSE package
  /\ local'[w].todo = local[w].todo
  /\ local'[w].pick = local[w].pick
  /\ local'[w].owner = local[w].owner
  /\ local'[w].present = local[w].present
  /\ local'[w].target = local[w].target
  /\ local'[w].victim = local[w].victim
  /\ package = NoTree => local'[w].published
  /\ package # NoTree => local'[w].published = local[w].published

LEMMA PublishStep ==
  ASSUME PackageTypeOK, Structure, NEW w \in Writer, Publish(w)
  PROVE  PublishEffect(w)
<1> USE DEF PublishEffect
<1>1. CASE package = NoTree
  BY <1>1, Types DEF Publish, Goto, Set, Paths, Locals
<1>2. CASE package # NoTree
  BY <1>2, Types DEF Publish, Goto, Set, Paths, Locals
<1> QED
  BY <1>1, <1>2

VerifyOwnerEffect(w) ==
  /\ pc[w] = "verify"
  /\ pc'[w] = IF package = w THEN "verifyTree" ELSE "undo"
  /\ \A v \in Writer \ {w} : pc'[v] = pc[v]
  /\ package' = package
  /\ backup' = backup
  /\ claim' = claim
  /\ whole' = whole
  /\ local' = local

LEMMA VerifyOwnerStep ==
  ASSUME PackageTypeOK, Structure, NEW w \in Writer, VerifyOwner(w)
  PROVE  VerifyOwnerEffect(w)
BY Types DEF VerifyOwnerEffect, VerifyOwner, Goto, Set, Paths, Locals

VerifyTreeEffect(w) ==
  /\ pc[w] = "verifyTree"
  /\ pc'[w] = IF package = w /\ w \in whole THEN "tidy" ELSE "undo"
  /\ \A v \in Writer \ {w} : pc'[v] = pc[v]
  /\ package' = package
  /\ backup' = backup
  /\ claim' = claim
  /\ whole' = whole
  /\ local' = local

LEMMA VerifyTreeStep ==
  ASSUME PackageTypeOK, Structure, NEW w \in Writer, VerifyTree(w)
  PROVE  VerifyTreeEffect(w)
BY Types DEF VerifyTreeEffect, VerifyTree, Goto, Set, Paths, Locals, Complete

ReadFailsEffect(w) ==
  /\ pc[w] \in {"movedAway", "verify", "verifyTree"}
  /\ pc'[w] = "undo"
  /\ \A v \in Writer \ {w} : pc'[v] = pc[v]
  /\ package' = package
  /\ backup' = backup
  /\ claim' = claim
  /\ whole' = whole
  /\ local' = local

LEMMA ReadFailsStep ==
  ASSUME PackageTypeOK, Structure, NEW w \in Writer, ReadFails(w)
  PROVE  ReadFailsEffect(w)
BY Types DEF ReadFailsEffect, ReadFails, Goto, Set, Paths, Locals

TidyBackupEffect(w) ==
  /\ pc[w] = "tidy"
  /\ pc'[w] = IF local[w].pick = w /\ backup[w] # NoTree
          /\ backup[w] = local[w].owner
          THEN "tidied" ELSE "ok"
  /\ \A v \in Writer \ {w} : pc'[v] = pc[v]
  /\ package' = package
  /\ backup' = backup
  /\ claim' = claim
  /\ local' = local
  /\ whole' = IF local[w].pick = w /\ backup[w] # NoTree
          /\ backup[w] = local[w].owner
          THEN whole \ {backup[w]} ELSE whole

LEMMA TidyBackupStep ==
  ASSUME PackageTypeOK, Structure, NEW w \in Writer, TidyBackup(w)
  PROVE  TidyBackupEffect(w)
BY Types DEF TidyBackupEffect, TidyBackup, Goto, Set, Paths, Locals

TidyFailsEffect(w) ==
  /\ pc[w] = "tidy"
  /\ pc'[w] = "ok"
  /\ \A v \in Writer \ {w} : pc'[v] = pc[v]
  /\ package' = package
  /\ backup' = backup
  /\ claim' = claim
  /\ whole' = whole
  /\ local' = local

LEMMA TidyFailsStep ==
  ASSUME PackageTypeOK, Structure, NEW w \in Writer, TidyFails(w)
  PROVE  TidyFailsEffect(w)
BY Types DEF TidyFailsEffect, TidyFails, Goto, Set, Paths, Locals

TidyDoneEffect(w) ==
  /\ pc[w] = "tidied"
  /\ pc'[w] = "ok"
  /\ \A v \in Writer \ {w} : pc'[v] = pc[v]
  /\ package' = package
  /\ claim' = claim
  /\ whole' = whole
  /\ local' = local
  /\ backup'[w] = NoTree
  /\ \A b \in Backup : b # w => backup'[b] = backup[b]

LEMMA TidyDoneStep ==
  ASSUME PackageTypeOK, Structure, NEW w \in Writer, TidyDone(w)
  PROVE  TidyDoneEffect(w)
BY Types DEF TidyDoneEffect, TidyDone, Goto, Set, Paths, Locals

UndoPublishedEffect(w) ==
  /\ pc[w] = "undo"
  /\ pc'[w] = IF local[w].published /\ package = w THEN "undoing" ELSE "undone"
  /\ \A v \in Writer \ {w} : pc'[v] = pc[v]
  /\ package' = package
  /\ backup' = backup
  /\ claim' = claim
  /\ whole' = whole
  /\ local' = local

LEMMA UndoPublishedStep ==
  ASSUME PackageTypeOK, Structure, NEW w \in Writer, UndoPublished(w)
  PROVE  UndoPublishedEffect(w)
BY Types DEF UndoPublishedEffect, UndoPublished, Goto, Set, Paths, Locals,
  MayRollBack

TearPackageEffect(w) ==
  /\ pc[w] = "undoing"
  /\ pc'[w] = "torn"
  /\ \A v \in Writer \ {w} : pc'[v] = pc[v] /\ local'[v] = local[v]
  /\ package' = package
  /\ backup' = backup
  /\ claim' = claim
  /\ whole' = whole \ {package}
  /\ local'[w].todo = local[w].todo
  /\ local'[w].pick = local[w].pick
  /\ local'[w].owner = local[w].owner
  /\ local'[w].present = local[w].present
  /\ local'[w].target = local[w].target
  /\ local'[w].published = local[w].published
  /\ local'[w].victim = package

LEMMA TearPackageStep ==
  ASSUME PackageTypeOK, Structure, NEW w \in Writer, TearPackage(w)
  PROVE  TearPackageEffect(w)
BY Types DEF TearPackageEffect, TearPackage, Goto, Set, Paths, Locals

RemovePackageEffect(w) ==
  /\ pc[w] = "torn"
  /\ pc'[w] = "undone"
  /\ \A v \in Writer \ {w} : pc'[v] = pc[v]
  /\ backup' = backup
  /\ claim' = claim
  /\ whole' = whole
  /\ local' = local
  /\ package' = IF package = local[w].victim THEN NoTree ELSE package

LEMMA RemovePackageStep ==
  ASSUME PackageTypeOK, Structure, NEW w \in Writer, RemovePackage(w)
  PROVE  RemovePackageEffect(w)
BY Types DEF RemovePackageEffect, RemovePackage, Goto, Set, Paths, Locals

ChooseUndoEffect(w) ==
  /\ pc[w] = "undone"
  /\ pc'[w] = IF local[w].pick # w \/ backup[w] # local[w].owner
          THEN "failed" ELSE IF package = NoTree THEN "putBack" ELSE "drop"
  /\ \A v \in Writer \ {w} : pc'[v] = pc[v]
  /\ package' = package
  /\ backup' = backup
  /\ claim' = claim
  /\ whole' = whole
  /\ local' = local

LEMMA ChooseUndoStep ==
  ASSUME PackageTypeOK, Structure, NEW w \in Writer, ChooseUndo(w)
  PROVE  ChooseUndoEffect(w)
BY Types DEF ChooseUndoEffect, ChooseUndo, Goto, Set, Paths, Locals

PutBackEffect(w) ==
  /\ pc[w] = "putBack"
  /\ pc'[w] = "failed"
  /\ \A v \in Writer \ {w} : pc'[v] = pc[v]
  /\ claim' = claim
  /\ whole' = whole
  /\ local' = local
  /\ package' = IF package = NoTree /\ backup[w] # NoTree
          THEN backup[w] ELSE package
  /\ backup'[w] = IF package = NoTree /\ backup[w] # NoTree
          THEN NoTree ELSE backup[w]
  /\ \A b \in Backup : b # w => backup'[b] = backup[b]

LEMMA PutBackStep ==
  ASSUME PackageTypeOK, Structure, NEW w \in Writer, PutBack(w)
  PROVE  PutBackEffect(w)
BY Types DEF PutBackEffect, PutBack, Goto, Set, Paths, Locals

DropBackupEffect(w) ==
  /\ pc[w] = "drop"
  /\ pc'[w] = "dropped"
  /\ \A v \in Writer \ {w} : pc'[v] = pc[v]
  /\ package' = package
  /\ backup' = backup
  /\ claim' = claim
  /\ local' = local
  /\ whole' = whole \ {backup[w]}

LEMMA DropBackupStep ==
  ASSUME PackageTypeOK, Structure, NEW w \in Writer, DropBackup(w)
  PROVE  DropBackupEffect(w)
BY Types DEF DropBackupEffect, DropBackup, Goto, Set, Paths, Locals

DropDoneEffect(w) ==
  /\ pc[w] = "dropped"
  /\ pc'[w] = "failed"
  /\ \A v \in Writer \ {w} : pc'[v] = pc[v]
  /\ package' = package
  /\ claim' = claim
  /\ whole' = whole
  /\ local' = local
  /\ backup'[w] = NoTree
  /\ \A b \in Backup : b # w => backup'[b] = backup[b]

LEMMA DropDoneStep ==
  ASSUME PackageTypeOK, Structure, NEW w \in Writer, DropDone(w)
  PROVE  DropDoneEffect(w)
BY Types DEF DropDoneEffect, DropDone, Goto, Set, Paths, Locals

CrashEffect(w) ==
  /\ pc'[w] = "dead"
  /\ \A v \in Writer \ {w} : pc'[v] = pc[v]
  /\ package' = package
  /\ backup' = backup
  /\ claim' = claim
  /\ whole' = whole
  /\ local' = local
  /\ pc[w] \notin Ended \cup {"idle", "dead"}

LEMMA CrashStep ==
  ASSUME PackageTypeOK, Structure, NEW w \in Writer, Crash(w)
  PROVE  CrashEffect(w)
BY Types DEF CrashEffect, Crash, Goto, Set, Paths, Locals, Running

(* The five ways a look or a rename of a recovery fails have one effect:   *)
(* the call goes on as if a tree were not there or not complete.           *)

Stumble(w) ==
  \/ MisreadList(w) \/ MisreadPackage(w) \/ MisreadBackup(w)
  \/ MisreadMoved(w) \/ RecoveryFails(w)
StumbleEffect(w) ==
  LET l == local[w]  m == local'[w] IN
  /\ pc[w] \in {"list", "owner", "check", "choose", "recheck", "claim",
                 "restore", "restored"}
  /\ pc'[w] \in {"present", "choose", "recheck", "sweep", "stage", "failed"}
  /\ \A v \in Writer \ {w} : pc'[v] = pc[v] /\ local'[v] = local[v]
  /\ package' = package /\ backup' = backup
  /\ claim' = claim /\ whole' = whole
  /\ pc'[w] = "present" => pc[w] = "list"
  /\ pc'[w] \in {"choose", "recheck"} => pc[w] \in {"check", "choose", "recheck"}
  /\ pc'[w] = "recheck" => m.pick \in m.todo /\ backup[m.pick] \in whole
  /\ pc'[w] = "sweep" => pc[w] = "claim" /\ l.target # Package
  /\ m.todo \subseteq (IF pc[w] = "list" THEN Found ELSE l.todo)
  /\ m.pick = l.pick \/ pc'[w] = "recheck"
  /\ m.owner = l.owner /\ m.target = l.target
  /\ m.published = l.published /\ m.victim = l.victim

LEMMA StumbleStep ==
  ASSUME PackageTypeOK, Structure, NEW w \in Writer, Stumble(w)
  PROVE  StumbleEffect(w)
<1> USE DEF StumbleEffect, Goto, Set, Paths
<1>0. /\ local[w] \in Locals /\ pc \in [Writer -> Label]
      /\ local \in [Writer -> Locals]
      /\ pc[w] \in {"recheck", "restore"} => local[w].target = Package
  BY Types DEF Structure, LocalsOK
<1>1. CASE MisreadList(w)
  BY <1>0, <1>1 DEF MisreadList, Locals
<1>2. CASE MisreadPackage(w)
  BY <1>0, <1>2 DEF MisreadPackage, Locals
<1>3. CASE MisreadBackup(w)
  <2>1. PICK seen \in SUBSET Good(w) : ChooseFrom(w, seen)
    BY <1>3 DEF MisreadBackup, Following
  <2>2. \/ pc'[w] = "stage" /\ local' = local
        \/ \E b \in Good(w) : /\ local' = [local EXCEPT ![w].pick = b]
                              /\ pc'[w] = "recheck"
    BY <1>0, <2>1 DEF ChooseFrom
  <2>3. \A b \in Good(w) : b \in local[w].todo /\ backup[b] \in whole
    BY DEF Good, Complete
  <2> QED
    BY <1>0, <1>3, <2>2, <2>3 DEF MisreadBackup, ChooseFrom, Locals
<1>4. CASE MisreadMoved(w)
  BY <1>0, <1>4 DEF MisreadMoved, After
<1>5. CASE RecoveryFails(w)
  BY <1>0, <1>5 DEF RecoveryFails
<1> QED
  BY <1>1, <1>2, <1>3, <1>4, <1>5 DEF Stumble

(* A rollback on which a look, a rename or a removal fails.                *)
StopEffect(w) ==
  /\ \/ pc[w] \in {"undo", "undoing", "torn"} /\ pc'[w] = "undone"
     \/ /\ pc[w] \in {"undone", "putBack", "drop", "dropped"}
        /\ pc'[w] = "failed"
  /\ pc[w] = "undo" => local[w].published /\ package = w
  /\ \A v \in Writer \ {w} : pc'[v] = pc[v]
  /\ package' = package
  /\ backup' = backup
  /\ claim' = claim
  /\ whole' = whole
  /\ local' = local

LEMMA StopStep ==
  ASSUME PackageTypeOK, NEW w \in Writer, UndoFails(w) \/ RollbackFails(w)
  PROVE  StopEffect(w)
BY Types DEF StopEffect, UndoFails, RollbackFails, MayRollBack, Goto, Paths

-----------------------------------------------------------------------------
(* Types.                                                                  *)

\* A step of the call w.
Hampered(w) == Stumble(w) \/ UndoFails(w) \/ RollbackFails(w)
Step(w) ==
  \/ Start(w) \/ ListBackups(w) \/ SeePackage(w) \/ NoteOwner(w)
  \/ CheckPackage(w) \/ ChooseBackup(w) \/ Recheck(w) \/ RestoreBackup(w)
  \/ VerifyRestored(w) \/ SweepBackups(w) \/ ClaimPath(w) \/ RestoreForeign(w)
  \/ RemoveClaimed(w) \/ RemovalFails(w) \/ BuildTree(w) \/ BuildFails(w)
  \/ LookForPackage(w) \/ RecordOwner(w) \/ MoveAway(w) \/ VerifyBackup(w)
  \/ Publish(w) \/ VerifyOwner(w) \/ VerifyTree(w) \/ ReadFails(w)
  \/ TidyBackup(w) \/ TidyFails(w) \/ TidyDone(w) \/ UndoPublished(w)
  \/ TearPackage(w) \/ RemovePackage(w) \/ ChooseUndo(w) \/ PutBack(w)
  \/ DropBackup(w) \/ DropDone(w) \/ Crash(w)
  \/ Hampered(w)

LEMMA Fields ==
  ASSUME NEW l \in Locals
  PROVE  /\ \A S \in SUBSET Backup : [l EXCEPT !.todo = S] \in Locals
         /\ \A b \in Backup \cup {NoTree} : [l EXCEPT !.pick = b] \in Locals
         /\ \A t \in Tree \cup {NoTree} : [l EXCEPT !.owner = t] \in Locals
         /\ \A t \in Tree \cup {NoTree} : [l EXCEPT !.victim = t] \in Locals
         /\ \A p \in BOOLEAN : [l EXCEPT !.present = p] \in Locals
         /\ \A p \in BOOLEAN : [l EXCEPT !.strict = p] \in Locals
         /\ \A p \in BOOLEAN : [l EXCEPT !.published = p] \in Locals
         /\ \A b \in Backup \cup {Package} : [l EXCEPT !.target = b] \in Locals
         /\ \A b \in Backup, S \in SUBSET Backup, t \in Tree \cup {NoTree} :
              [l EXCEPT !.target = b, !.todo = S, !.owner = t] \in Locals
         /\ \A S \in SUBSET Backup :
              [l EXCEPT !.todo = S, !.strict = TRUE] \in Locals
         /\ [l EXCEPT !.owner = NoTree, !.pick = NoTree, !.published = FALSE]
              \in Locals
BY DEF Locals

LEMMA HamperedTypes ==
  ASSUME PackageTypeOK, Structure, NEW w \in Writer, Hampered(w)
  PROVE  PackageTypeOK'
<1> USE DEF Goto, Set, Paths, Hinders, Fault
<1>1. /\ local \in [Writer -> Locals] /\ local[w] \in Locals
      /\ local[w].todo \subseteq Backup
      /\ pc \in [Writer -> Label]
      /\ faults \in 0..MaxFaults /\ MaxFaults \in Nat
      /\ hindered \subseteq Writer /\ unrolled \in BOOLEAN
  BY PackageAssumption DEF PackageTypeOK, Locals
<1>2. \E l \in Label : pc' = [pc EXCEPT ![w] = l]
  BY DEF Hampered, Stumble, Label, Ended, After, MisreadList, MisreadPackage,
    MisreadBackup, ChooseFrom, MisreadMoved, RecoveryFails, UndoFails,
    RollbackFails
<1>3. \E r \in Locals : local' = [local EXCEPT ![w] = r]
  <2>1. CASE MisreadList(w)
    <3>1. PICK seen \in SUBSET Found :
            local' = [local EXCEPT ![w] = [local[w] EXCEPT !.todo = seen]]
      BY <2>1 DEF MisreadList
    <3>2. [local[w] EXCEPT !.todo = seen] \in Locals
      BY <1>1, Fields DEF Found
    <3> QED
      BY <3>1, <3>2
  <2>2. CASE MisreadPackage(w)
    BY <1>1, <2>2, Fields DEF MisreadPackage
  <2>3. CASE MisreadBackup(w) /\ local' # local
    <3>1. PICK b \in Good(w) :
            local' = [local EXCEPT ![w] = [local[w] EXCEPT !.pick = b]]
      BY <2>3 DEF MisreadBackup, Following, ChooseFrom
    <3>2. b \in Backup
      BY <1>1, <3>1 DEF Good
    <3> QED
      BY <1>1, <3>1, <3>2, Fields
  <2>4. CASE local' = local
    BY <1>1, <2>4
  <2> QED
    BY <2>1, <2>2, <2>3, <2>4 DEF Hampered, Stumble, MisreadMoved,
      RecoveryFails, UndoFails, RollbackFails
<1>4. UNCHANGED <<package, backup, claim, whole, made, superseded,
                  undisturbed, crashes>>
  BY DEF Hampered, Stumble, MisreadList, MisreadPackage, MisreadBackup,
    MisreadMoved, RecoveryFails, UndoFails, RollbackFails
<1>5. faults' \in 0..MaxFaults
  <2>1. faults < MaxFaults /\ faults' = faults + 1
    BY DEF Hampered, Stumble, MisreadList, MisreadPackage, MisreadBackup,
      MisreadMoved, RecoveryFails, UndoFails, RollbackFails
  <2> QED
    BY <1>1, <2>1
<1>6. /\ hindered' = hindered \/ hindered' = hindered \cup {w}
      /\ unrolled' = unrolled \/ unrolled' = TRUE
  BY DEF Hampered, Stumble, MisreadList, MisreadPackage, MisreadBackup,
    MisreadMoved, RecoveryFails, UndoFails, RollbackFails
<1>7. hindered' \subseteq Writer
  BY <1>1, <1>6
<1>8. unrolled' \in BOOLEAN
  BY <1>1, <1>6
<1>9. pc' \in [Writer -> Label] /\ local' \in [Writer -> Locals]
  BY <1>1, <1>2, <1>3
<1> QED
  BY <1>4, <1>5, <1>7, <1>8, <1>9 DEF PackageTypeOK

LEMMA MishapsKept ==
  ASSUME NEW w \in Writer, Step(w), ~Hampered(w)
  PROVE  hindered' = hindered /\ unrolled' = unrolled
BY DEF History, Mishaps, Step, Start, ListBackups, SeePackage, NoteOwner,
  CheckPackage, ChooseBackup, Recheck, RestoreBackup, VerifyRestored,
  SweepBackups, ClaimPath, RestoreForeign, RemoveClaimed, RemovalFails,
  BuildTree, BuildFails, LookForPackage, RecordOwner, MoveAway, VerifyBackup,
  Publish, VerifyOwner, VerifyTree, ReadFails, TidyBackup, TidyFails,
  TidyDone, UndoPublished, TearPackage, RemovePackage, ChooseUndo, PutBack,
  DropBackup, DropDone, Crash

LEMMA PlainTypes ==
  ASSUME PackageTypeOK, Structure, NEW w \in Writer, Step(w), ~Hampered(w)
  PROVE  PackageTypeOK'
<1> USE DEF Goto, Set, Paths, Bounds, History
<1>1. /\ package \in Tree \cup {NoTree} /\ whole \subseteq Tree
      /\ backup \in [Backup -> Tree \cup {NoTree}]
      /\ claim \in [Writer -> Tree \cup {NoTree}]
      /\ local \in [Writer -> Locals] /\ local[w] \in Locals
      /\ made \in Seq(Tree) /\ pc \in [Writer -> Label]
      /\ superseded \subseteq Tree /\ undisturbed \subseteq Writer
      /\ crashes \in 0..MaxCrashes /\ faults \in 0..MaxFaults
      /\ MaxCrashes \in Nat /\ MaxFaults \in Nat
      /\ w \in Tree /\ w \in Backup
  BY PackageAssumption DEF PackageTypeOK, Tree, Backup
<1>2. /\ local[w].todo \in SUBSET Backup
      /\ local[w].owner \in Tree \cup {NoTree}
      /\ local[w].target \in Backup \cup {Package}
  BY <1>1 DEF Locals
\* The new values of the locals.
<1>3. /\ [local[w] EXCEPT !.todo = Found] \in Locals
      /\ \A b \in Backup : [local[w] EXCEPT !.pick = b] \in Locals
      /\ [local[w] EXCEPT !.todo = @ \ {local[w].pick}] \in Locals
      /\ [local[w] EXCEPT !.target = Package] \in Locals
      /\ \A b \in Backup : [local[w] EXCEPT !.owner = backup[b]] \in Locals
      /\ [local[w] EXCEPT !.owner = package] \in Locals
      /\ [local[w] EXCEPT !.victim = package] \in Locals
      /\ [local[w] EXCEPT !.todo = @ \ {local[w].pick}, !.strict = TRUE]
           \in Locals
      /\ \A b \in local[w].todo :
           [local[w] EXCEPT !.target = b, !.todo = @ \ {b},
                            !.owner = backup[b]] \in Locals
      /\ [local[w] EXCEPT !.owner = NoTree, !.pick = NoTree,
                          !.published = FALSE] \in Locals
      /\ [local[w] EXCEPT !.published = TRUE] \in Locals
      /\ [local[w] EXCEPT !.strict = FALSE] \in Locals
      /\ [local[w] EXCEPT !.present = (package # NoTree)] \in Locals
  <2>1. Found \in SUBSET Backup
    BY DEF Found
  <2>2. /\ local[w].todo \ {local[w].pick} \in SUBSET Backup
        /\ \A b \in local[w].todo : /\ local[w].todo \ {b} \in SUBSET Backup
                                    /\ b \in Backup
        /\ \A b \in Backup : backup[b] \in Tree \cup {NoTree}
    BY <1>1, <1>2
  <2> QED
    BY <1>1, <1>2, <2>1, <2>2, Fields
\* Locals, backups and claims with one value replaced.
<1>4. /\ \A r \in Locals : [local EXCEPT ![w] = r] \in [Writer -> Locals]
      /\ \A b \in Backup : \A t \in Tree \cup {NoTree} :
           [backup EXCEPT ![b] = t] \in [Backup -> Tree \cup {NoTree}]
      /\ \A t \in Tree \cup {NoTree} :
           [claim EXCEPT ![w] = t] \in [Writer -> Tree \cup {NoTree}]
      /\ \A l \in Label : [pc EXCEPT ![w] = l] \in [Writer -> Label]
  BY <1>1
<1>5. /\ pc[w] = "restore" => local[w].pick \in Backup
      /\ pc[w] \in {"tidy", "tidied"} => Replaced(w) \subseteq Tree
      /\ local[w].target # Package => local[w].target \in Backup
      /\ \A b \in Backup : backup[b] \in Tree \cup {NoTree}
      /\ claim[w] \in Tree \cup {NoTree}
      /\ \A b \in local[w].todo : b \in Backup
      /\ \A b \in Found : b \in Backup
  BY <1>1, <1>2 DEF Structure, LocalsOK, Replaced, Promoting, Verifying, Found
<1>6. \E l \in Label : pc' = [pc EXCEPT ![w] = l]
  BY DEF Step, Label, Ended, After, ChooseFrom, Start, ListBackups, SeePackage,
    NoteOwner, CheckPackage, ChooseBackup, Recheck, RestoreBackup,
    VerifyRestored, SweepBackups, ClaimPath, RestoreForeign, RemoveClaimed,
    RemovalFails, BuildTree, BuildFails, LookForPackage, RecordOwner,
    MoveAway, VerifyBackup, Publish, VerifyOwner, VerifyTree, ReadFails,
    TidyBackup, TidyFails, TidyDone, UndoPublished, TearPackage,
    RemovePackage, ChooseUndo, PutBack, DropBackup, DropDone, Crash
<1>7. \E r \in Locals : local' = [local EXCEPT ![w] = r]
  <2>1. CASE ListBackups(w)
    BY <1>1, <1>3, <1>5, <2>1 DEF ListBackups
  <2>2. CASE SeePackage(w)
    BY <1>1, <1>3, <1>5, <2>2 DEF SeePackage
  <2>3. CASE NoteOwner(w)
    BY <1>1, <1>3, <1>5, <2>3 DEF NoteOwner
  <2>4. CASE CheckPackage(w)
    BY <1>1, <1>3, <1>5, <2>4 DEF CheckPackage
  <2>5. CASE ChooseBackup(w)
    BY <1>1, <1>3, <1>5, <2>5 DEF ChooseBackup, ChooseFrom, Good
  <2>6. CASE Recheck(w)
    BY <1>1, <1>3, <1>5, <2>6 DEF Recheck
  <2>7. CASE RestoreBackup(w)
    BY <1>1, <1>3, <1>5, <2>7 DEF RestoreBackup
  <2>8. CASE VerifyRestored(w)
    BY <1>1, <1>3, <1>5, <2>8 DEF VerifyRestored
  <2>9. CASE SweepBackups(w)
    BY <1>1, <1>3, <1>5, <2>9 DEF SweepBackups
  <2>10. CASE LookForPackage(w)
    BY <1>1, <1>3, <1>5, <2>10 DEF LookForPackage
  <2>11. CASE RecordOwner(w)
    BY <1>1, <1>3, <1>5, <2>11 DEF RecordOwner
  <2>12. CASE MoveAway(w)
    BY <1>1, <1>3, <1>5, <2>12 DEF MoveAway
  <2>13. CASE Publish(w)
    BY <1>1, <1>3, <1>5, <2>13 DEF Publish
  <2>14. CASE TearPackage(w)
    BY <1>1, <1>3, <1>5, <2>14 DEF TearPackage
  <2>15. CASE local' = local
    BY <1>1, <2>15
  <2> QED
    BY <2>1, <2>2, <2>3, <2>4, <2>5, <2>6, <2>7, <2>8, <2>9, <2>10, <2>11,
      <2>12, <2>13, <2>14, <2>15 DEF Step, Start, ClaimPath, RestoreForeign,
      RemoveClaimed, RemovalFails, BuildTree, BuildFails, VerifyBackup,
      VerifyOwner, VerifyTree, ReadFails, TidyBackup, TidyFails, TidyDone,
      UndoPublished, RemovePackage, ChooseUndo, PutBack, DropBackup,
      DropDone, Crash
<1>8. /\ package' \in Tree \cup {NoTree}
      /\ \/ backup' = backup
         \/ \E b \in Backup, t \in Tree \cup {NoTree} :
              backup' = [backup EXCEPT ![b] = t]
  BY <1>1, <1>5 DEF Step, At, Put, Start, ListBackups, SeePackage, NoteOwner,
    CheckPackage, ChooseBackup, Recheck, RestoreBackup, VerifyRestored,
    SweepBackups, ClaimPath, RestoreForeign, RemoveClaimed, RemovalFails,
    BuildTree, BuildFails, LookForPackage, RecordOwner, MoveAway,
    VerifyBackup, Publish, VerifyOwner, VerifyTree, ReadFails, TidyBackup,
    TidyFails, TidyDone, UndoPublished, TearPackage, RemovePackage,
    ChooseUndo, PutBack, DropBackup, DropDone, Crash
<1>9. \E t \in Tree \cup {NoTree} : claim' = [claim EXCEPT ![w] = t]
  BY <1>1, <1>5 DEF Step, At, Start, ListBackups, SeePackage, NoteOwner,
    CheckPackage, ChooseBackup, Recheck, RestoreBackup, VerifyRestored,
    SweepBackups, ClaimPath, RestoreForeign, RemoveClaimed, RemovalFails,
    BuildTree, BuildFails, LookForPackage, RecordOwner, MoveAway,
    VerifyBackup, Publish, VerifyOwner, VerifyTree, ReadFails, TidyBackup,
    TidyFails, TidyDone, UndoPublished, TearPackage, RemovePackage,
    ChooseUndo, PutBack, DropBackup, DropDone, Crash
<1>16. hindered' \subseteq Writer /\ unrolled' \in BOOLEAN
  BY MishapsKept DEF PackageTypeOK
<1>10. /\ whole' \subseteq Tree /\ superseded' \subseteq Tree
       /\ undisturbed' \subseteq Writer
  BY <1>1, <1>5 DEF Step, Start, ListBackups, SeePackage, NoteOwner,
    CheckPackage, ChooseBackup, Recheck, RestoreBackup, VerifyRestored,
    SweepBackups, ClaimPath, RestoreForeign, RemoveClaimed, RemovalFails,
    BuildTree, BuildFails, LookForPackage, RecordOwner, MoveAway,
    VerifyBackup, Publish, VerifyOwner, VerifyTree, ReadFails, TidyBackup,
    TidyFails, TidyDone, UndoPublished, TearPackage, RemovePackage,
    ChooseUndo, PutBack, DropBackup, DropDone, Crash
<1>11. made' = made \/ made' = Append(made, w)
  BY DEF Step, Start, ListBackups, SeePackage, NoteOwner, CheckPackage,
    ChooseBackup, Recheck, RestoreBackup, VerifyRestored, SweepBackups,
    ClaimPath, RestoreForeign, RemoveClaimed, RemovalFails, BuildTree,
    BuildFails, LookForPackage, RecordOwner, MoveAway, VerifyBackup, Publish,
    VerifyOwner, VerifyTree, ReadFails, TidyBackup, TidyFails, TidyDone,
    UndoPublished, TearPackage, RemovePackage, ChooseUndo, PutBack,
    DropBackup, DropDone, Crash
<1>12. /\ crashes' = crashes \/ (crashes < MaxCrashes /\ crashes' = crashes + 1)
       /\ faults' = faults \/ (faults < MaxFaults /\ faults' = faults + 1)
  BY DEF Step, Fault, Start, ListBackups, SeePackage, NoteOwner,
    CheckPackage, ChooseBackup, Recheck, RestoreBackup, VerifyRestored,
    SweepBackups, ClaimPath, RestoreForeign, RemoveClaimed, RemovalFails,
    BuildTree, BuildFails, LookForPackage, RecordOwner, MoveAway,
    VerifyBackup, Publish, VerifyOwner, VerifyTree, ReadFails, TidyBackup,
    TidyFails, TidyDone, UndoPublished, TearPackage, RemovePackage,
    ChooseUndo, PutBack, DropBackup, DropDone, Crash
<1>13. made' \in Seq(Tree)
  BY <1>1, <1>11
<1>14. crashes' \in 0..MaxCrashes /\ faults' \in 0..MaxFaults
  BY <1>1, <1>12
<1> QED
  BY <1>1, <1>4, <1>6, <1>7, <1>8, <1>9, <1>10, <1>13, <1>14,
    <1>16 DEF PackageTypeOK

LEMMA TypeStep ==
  ASSUME PackageTypeOK, Structure, NEW w \in Writer, Step(w)
  PROVE  PackageTypeOK'
BY HamperedTypes, PlainTypes

-----------------------------------------------------------------------------
(* Structure.                                                              *)

\* What a step of w leaves of the other calls: a tree that is moved or torn
\* was at a path before, or is its own.
Seen(w, t) ==
  \/ t \in {package, claim[w], NoTree}
  \/ \E b \in Backup : t = backup[b]
Moves(w) ==
  /\ \A v \in Writer \ {w} :
       pc'[v] = pc[v] /\ local'[v] = local[v] /\ claim'[v] = claim[v]
  /\ package' = w \/ Seen(w, package')
  /\ \A b \in Backup : Seen(w, backup'[b])
  /\ Seen(w, claim'[w])
  /\ local'[w].owner = local[w].owner \/ Seen(w, local'[w].owner)
  /\ \A t \in whole : t \in whole' \/ Seen(w, t)
Frame(w) ==
  /\ Moves(w)
  /\ \A v \in Writer \ {w} : Unmoved(v) => backup'[v] = NoTree
  /\ Unmoved(w)' => Unmoved(w)

LEMMA NamedKept ==
  ASSUME NEW w \in Writer, Frame(w), NEW u, NEW b
  PROVE  Named(u, b) => Named(u, b)'
<1>1. \A v \in Writer : Unmoved(v)' => Unmoved(v)
  BY DEF Frame, Moves, Unmoved
<1> QED
  BY <1>1 DEF Named

LEMMA FoundNamed ==
  ASSUME Structure, NEW w, NEW b \in Found
  PROVE  b = w \/ Named(w, b)
BY DEF Structure, BackupFree, Named, Found

LEMMA Others ==
  ASSUME PackageTypeOK, Structure, NEW w \in Writer, Frame(w),
         NEW v \in Writer \ {w}
  PROVE  ClaimHeld(v)' /\ Fresh(v)' /\ BackupFree(v)' /\ LocalsOK(v)'
<1>1. ClaimHeld(v) /\ Fresh(v) /\ BackupFree(v) /\ LocalsOK(v)
  BY DEF Structure
<1>2. /\ pc'[v] = pc[v] /\ local'[v] = local[v] /\ claim'[v] = claim[v]
      /\ Unpublished(v)' <=> Unpublished(v)
      /\ Unmoved(v)' <=> Unmoved(v)
  BY DEF Frame, Moves, Unpublished, Unmoved
<1>3. ClaimHeld(v)' /\ BackupFree(v)'
  BY <1>1, <1>2 DEF ClaimHeld, BackupFree, Frame
<1>4. Fresh(v)'
  <2>1. Unpublished(v) => ~Seen(w, v) /\ v # w
    BY <1>1, PackageAssumption DEF Fresh, Seen
  <2>2. Unpublished(v) =>
          /\ package' # v /\ \A b \in Backup : backup'[b] # v
          /\ \A u \in Writer : claim'[u] # v /\ local'[u].owner # v
    BY <1>1, <2>1 DEF Frame, Moves, Fresh
  <2>3. Unpublished(v) /\ v \in whole => v \in whole'
    BY <2>1 DEF Frame, Moves
  <2> QED
    BY <1>1, <1>2, <2>2, <2>3 DEF Fresh
<1>5. LocalsOK(v)'
  BY <1>1, <1>2, NamedKept DEF LocalsOK
<1> QED
  BY <1>3, <1>4, <1>5

LEMMA StructureStart ==
  ASSUME PackageTypeOK, Structure, NEW w \in Writer, Start(w)
  PROVE  Structure'
<1> USE DEF Recovering, Reading, Building, Moved, Verifying, Promoting, Ended,
      Mine, StartEffect
<1>1. StartEffect(w)
  BY StartStep
<1>2. /\ SelfFacts(w) /\ OnePlace /\ ClaimHeld(w) /\ Fresh(w)
      /\ BackupFree(w) /\ LocalsOK(w)
  BY Self DEF Structure
<1>3. OnePlace'
  BY <1>1, <1>2, Types DEF SelfFacts, OnePlace, ClaimHeld, Fresh, Unpublished,
    BackupFree, Unmoved
<1>4. Frame(w)
  BY <1>1, <1>2 DEF SelfFacts, Frame, Moves, Seen, Unmoved, LocalsOK,
    Structure, BackupFree, Named, Backup
<1>5. ClaimHeld(w)' /\ BackupFree(w)' /\ Fresh(w)'
  BY <1>1, <1>2, Types DEF SelfFacts, ClaimHeld, BackupFree, Unmoved, LocalsOK,
    Fresh, Unpublished, OnePlace
<1>6. LocalsOK(w)'
  BY <1>1, <1>2, <1>4, NamedKept DEF SelfFacts, LocalsOK, Fresh, Unpublished,
    BackupFree, Unmoved
<1> QED
  BY <1>3, <1>4, <1>5, <1>6, Others DEF Structure

LEMMA StructureListBackups ==
  ASSUME PackageTypeOK, Structure, NEW w \in Writer, ListBackups(w)
  PROVE  Structure'
<1> USE DEF Recovering, Reading, Building, Moved, Verifying, Promoting, Ended,
      Mine, ListBackupsEffect
<1>1. ListBackupsEffect(w)
  BY ListBackupsStep
<1>2. /\ SelfFacts(w) /\ OnePlace /\ ClaimHeld(w) /\ Fresh(w)
      /\ BackupFree(w) /\ LocalsOK(w)
  BY Self DEF Structure
<1>3. OnePlace'
  BY <1>1, <1>2, Types DEF SelfFacts, OnePlace, ClaimHeld, Fresh, Unpublished,
    BackupFree, Unmoved
<1>4. Frame(w)
  BY <1>1, <1>2 DEF SelfFacts, Frame, Moves, Seen, Unmoved, LocalsOK,
    Structure, BackupFree, Named, Backup
<1>5. ClaimHeld(w)' /\ BackupFree(w)' /\ Fresh(w)'
  BY <1>1, <1>2, Types DEF SelfFacts, ClaimHeld, BackupFree, Unmoved, LocalsOK,
    Fresh, Unpublished, OnePlace
<1>6. LocalsOK(w)'
  BY <1>1, <1>2, <1>4, NamedKept, FoundNamed DEF SelfFacts, LocalsOK, Fresh,
    Unpublished, BackupFree, Unmoved, NoLocals, Found
<1> QED
  BY <1>3, <1>4, <1>5, <1>6, Others DEF Structure

LEMMA StructureSeePackage ==
  ASSUME PackageTypeOK, Structure, NEW w \in Writer, SeePackage(w)
  PROVE  Structure'
<1> USE DEF Recovering, Reading, Building, Moved, Verifying, Promoting, Ended,
      Mine, SeePackageEffect
<1>1. SeePackageEffect(w)
  BY SeePackageStep
<1>2. /\ SelfFacts(w) /\ OnePlace /\ ClaimHeld(w) /\ Fresh(w)
      /\ BackupFree(w) /\ LocalsOK(w)
  BY Self DEF Structure
<1>3. OnePlace'
  BY <1>1, <1>2, Types DEF SelfFacts, OnePlace, ClaimHeld, Fresh, Unpublished,
    BackupFree, Unmoved
<1>4. Frame(w)
  BY <1>1, <1>2 DEF SelfFacts, Frame, Moves, Seen, Unmoved, LocalsOK,
    Structure, BackupFree, Named, Backup
<1>5. ClaimHeld(w)' /\ BackupFree(w)' /\ Fresh(w)'
  BY <1>1, <1>2, Types DEF SelfFacts, ClaimHeld, BackupFree, Unmoved, LocalsOK,
    Fresh, Unpublished, OnePlace
<1>6. LocalsOK(w)'
  BY <1>1, <1>2, <1>4, NamedKept DEF SelfFacts, LocalsOK, Fresh, Unpublished,
    BackupFree, Unmoved
<1> QED
  BY <1>3, <1>4, <1>5, <1>6, Others DEF Structure

LEMMA StructureNoteOwner ==
  ASSUME PackageTypeOK, Structure, NEW w \in Writer, NoteOwner(w)
  PROVE  Structure'
<1> USE DEF Recovering, Reading, Building, Moved, Verifying, Promoting, Ended,
      Mine, NoteOwnerEffect
<1>1. NoteOwnerEffect(w)
  BY NoteOwnerStep
<1>2. /\ SelfFacts(w) /\ OnePlace /\ ClaimHeld(w) /\ Fresh(w)
      /\ BackupFree(w) /\ LocalsOK(w)
  BY Self DEF Structure
<1>3. OnePlace'
  BY <1>1, <1>2, Types DEF SelfFacts, OnePlace, ClaimHeld, Fresh, Unpublished,
    BackupFree, Unmoved
<1>4. Frame(w)
  BY <1>1, <1>2 DEF SelfFacts, Frame, Moves, Seen, Unmoved, LocalsOK,
    Structure, BackupFree, Named, Backup
<1>5. ClaimHeld(w)' /\ BackupFree(w)' /\ Fresh(w)'
  BY <1>1, <1>2, Types DEF SelfFacts, ClaimHeld, BackupFree, Unmoved, LocalsOK,
    Fresh, Unpublished, OnePlace
<1>6. LocalsOK(w)'
  BY <1>1, <1>2, <1>4, NamedKept DEF SelfFacts, LocalsOK, Fresh, Unpublished,
    BackupFree, Unmoved
<1> QED
  BY <1>3, <1>4, <1>5, <1>6, Others DEF Structure

LEMMA StructureCheckPackage ==
  ASSUME PackageTypeOK, Structure, NEW w \in Writer, CheckPackage(w)
  PROVE  Structure'
<1> USE DEF Recovering, Reading, Building, Moved, Verifying, Promoting, Ended,
      Mine, CheckPackageEffect
<1>1. CheckPackageEffect(w)
  BY CheckPackageStep
<1>2. /\ SelfFacts(w) /\ OnePlace /\ ClaimHeld(w) /\ Fresh(w)
      /\ BackupFree(w) /\ LocalsOK(w)
  BY Self DEF Structure
<1>3. OnePlace'
  BY <1>1, <1>2, Types DEF SelfFacts, OnePlace, ClaimHeld, Fresh, Unpublished,
    BackupFree, Unmoved
<1>4. Frame(w)
  BY <1>1, <1>2 DEF SelfFacts, Frame, Moves, Seen, Unmoved, LocalsOK,
    Structure, BackupFree, Named, Backup
<1>5. ClaimHeld(w)' /\ BackupFree(w)' /\ Fresh(w)'
  BY <1>1, <1>2, Types DEF SelfFacts, ClaimHeld, BackupFree, Unmoved, LocalsOK,
    Fresh, Unpublished, OnePlace
<1>6. LocalsOK(w)'
  BY <1>1, <1>2, <1>4, NamedKept DEF SelfFacts, LocalsOK, Fresh, Unpublished,
    BackupFree, Unmoved
<1> QED
  BY <1>3, <1>4, <1>5, <1>6, Others DEF Structure

LEMMA StructureChooseBackup ==
  ASSUME PackageTypeOK, Structure, NEW w \in Writer, ChooseBackup(w)
  PROVE  Structure'
<1> USE DEF Recovering, Reading, Building, Moved, Verifying, Promoting, Ended,
      Mine, ChooseNoneEffect, ChooseEffect
<1>1. CASE pc'[w] = "stage"
  <2>1. ChooseNoneEffect(w)
    BY <1>1, ChooseNoneStep
  <2>2. /\ SelfFacts(w) /\ OnePlace /\ ClaimHeld(w) /\ Fresh(w)
        /\ BackupFree(w) /\ LocalsOK(w)
    BY Self DEF Structure
  <2>3. OnePlace'
    BY <2>1, <2>2, Types DEF SelfFacts, OnePlace, ClaimHeld, Fresh,
      Unpublished, BackupFree, Unmoved
  <2>4. Frame(w)
    BY <2>1, <2>2 DEF SelfFacts, Frame, Moves, Seen, Unmoved, LocalsOK,
      Structure, BackupFree, Named, Backup
  <2>5. ClaimHeld(w)' /\ BackupFree(w)' /\ Fresh(w)'
    BY <2>1, <2>2, Types DEF SelfFacts, ClaimHeld, BackupFree, Unmoved,
      LocalsOK, Fresh, Unpublished, OnePlace
  <2>6. LocalsOK(w)'
    BY <2>1, <2>2, <2>4, NamedKept DEF SelfFacts, LocalsOK, Fresh, Unpublished,
      BackupFree, Unmoved
  <2> QED
    BY <2>3, <2>4, <2>5, <2>6, Others DEF Structure
<1>2. CASE pc'[w] # "stage"
  <2>1. ChooseEffect(w)
    BY <1>2, ChooseStep
  <2>2. /\ SelfFacts(w) /\ OnePlace /\ ClaimHeld(w) /\ Fresh(w)
        /\ BackupFree(w) /\ LocalsOK(w)
    BY Self DEF Structure
  <2>3. OnePlace'
    BY <2>1, <2>2, Types DEF SelfFacts, OnePlace, ClaimHeld, Fresh,
      Unpublished, BackupFree, Unmoved
  <2>4. Frame(w)
    BY <2>1, <2>2 DEF SelfFacts, Frame, Moves, Seen, Unmoved, LocalsOK,
      Structure, BackupFree, Named, Backup
  <2>5. ClaimHeld(w)' /\ BackupFree(w)' /\ Fresh(w)'
    BY <2>1, <2>2, Types DEF SelfFacts, ClaimHeld, BackupFree, Unmoved,
      LocalsOK, Fresh, Unpublished, OnePlace
  <2>6. LocalsOK(w)'
    BY <2>1, <2>2, <2>4, NamedKept DEF SelfFacts, LocalsOK, Fresh, Unpublished,
      BackupFree, Unmoved
  <2> QED
    BY <2>3, <2>4, <2>5, <2>6, Others DEF Structure
<1> QED
  BY <1>1, <1>2

LEMMA StructureRecheck ==
  ASSUME PackageTypeOK, Structure, NEW w \in Writer, Recheck(w)
  PROVE  Structure'
<1> USE DEF Recovering, Reading, Building, Moved, Verifying, Promoting, Ended,
      Mine, RecheckNoEffect, RecheckGoneEffect, RecheckYesEffect
<1>1. CASE ~PackageSame(w)
  <2>1. RecheckNoEffect(w)
    BY <1>1, RecheckNoStep
  <2>2. /\ SelfFacts(w) /\ OnePlace /\ ClaimHeld(w) /\ Fresh(w)
        /\ BackupFree(w) /\ LocalsOK(w)
    BY Self DEF Structure
  <2>3. OnePlace'
    BY <2>1, <2>2, Types DEF SelfFacts, OnePlace, ClaimHeld, Fresh,
      Unpublished, BackupFree, Unmoved
  <2>4. Frame(w)
    BY <2>1, <2>2 DEF SelfFacts, Frame, Moves, Seen, Unmoved, LocalsOK,
      Structure, BackupFree, Named, Backup
  <2>5. ClaimHeld(w)' /\ BackupFree(w)' /\ Fresh(w)'
    BY <2>1, <2>2, Types DEF SelfFacts, ClaimHeld, BackupFree, Unmoved,
      LocalsOK, Fresh, Unpublished, OnePlace
  <2>6. LocalsOK(w)'
    BY <2>1, <2>2, <2>4, NamedKept DEF SelfFacts, LocalsOK, Fresh, Unpublished,
      BackupFree, Unmoved
  <2> QED
    BY <2>3, <2>4, <2>5, <2>6, Others DEF Structure
<1>2. CASE PackageSame(w) /\ backup[local[w].pick] = NoTree
  <2>1. RecheckGoneEffect(w)
    BY <1>2, RecheckGoneStep
  <2>2. /\ SelfFacts(w) /\ OnePlace /\ ClaimHeld(w) /\ Fresh(w)
        /\ BackupFree(w) /\ LocalsOK(w)
    BY Self DEF Structure
  <2>3. OnePlace'
    BY <2>1, <2>2, Types DEF SelfFacts, OnePlace, ClaimHeld, Fresh,
      Unpublished, BackupFree, Unmoved
  <2>4. Frame(w)
    BY <2>1, <2>2 DEF SelfFacts, Frame, Moves, Seen, Unmoved, LocalsOK,
      Structure, BackupFree, Named, Backup
  <2>5. ClaimHeld(w)' /\ BackupFree(w)' /\ Fresh(w)'
    BY <2>1, <2>2, Types DEF SelfFacts, ClaimHeld, BackupFree, Unmoved,
      LocalsOK, Fresh, Unpublished, OnePlace
  <2>6. LocalsOK(w)'
    BY <2>1, <2>2, <2>4, NamedKept DEF SelfFacts, LocalsOK, Fresh, Unpublished,
      BackupFree, Unmoved
  <2> QED
    BY <2>3, <2>4, <2>5, <2>6, Others DEF Structure
<1>3. CASE PackageSame(w) /\ backup[local[w].pick] # NoTree
  <2>1. RecheckYesEffect(w)
    BY <1>3, RecheckYesStep
  <2>2. /\ SelfFacts(w) /\ OnePlace /\ ClaimHeld(w) /\ Fresh(w)
        /\ BackupFree(w) /\ LocalsOK(w)
    BY Self DEF Structure
  <2>3. OnePlace'
    BY <2>1, <2>2, Types DEF SelfFacts, OnePlace, ClaimHeld, Fresh,
      Unpublished, BackupFree, Unmoved
  <2>4. Frame(w)
    BY <2>1, <2>2 DEF SelfFacts, Frame, Moves, Seen, Unmoved, LocalsOK,
      Structure, BackupFree, Named, Backup
  <2>5. ClaimHeld(w)' /\ BackupFree(w)' /\ Fresh(w)'
    BY <2>1, <2>2, Types DEF SelfFacts, ClaimHeld, BackupFree, Unmoved,
      LocalsOK, Fresh, Unpublished, OnePlace
  <2>6. LocalsOK(w)'
    BY <2>1, <2>2, <2>4, NamedKept DEF SelfFacts, LocalsOK, Fresh, Unpublished,
      BackupFree, Unmoved
  <2> QED
    BY <2>3, <2>4, <2>5, <2>6, Others DEF Structure
<1> QED
  BY <1>1, <1>2, <1>3

LEMMA StructureRestoreBackup ==
  ASSUME PackageTypeOK, Structure, NEW w \in Writer, RestoreBackup(w)
  PROVE  Structure'
<1> USE DEF Recovering, Reading, Building, Moved, Verifying, Promoting, Ended,
      Mine, RestoreYesEffect, RestoreNoEffect
<1>1. CASE package = NoTree /\ backup[local[w].pick] # NoTree
  <2>1. RestoreYesEffect(w)
    BY <1>1, RestoreYesStep
  <2>2. /\ SelfFacts(w) /\ OnePlace /\ ClaimHeld(w) /\ Fresh(w)
        /\ BackupFree(w) /\ LocalsOK(w)
    BY Self DEF Structure
  <2>3. OnePlace'
    BY <2>1, <2>2, Types DEF SelfFacts, OnePlace, ClaimHeld, Fresh,
      Unpublished, BackupFree, Unmoved
  <2>4. Frame(w)
    BY <2>1, <2>2 DEF SelfFacts, Frame, Moves, Seen, Unmoved, LocalsOK,
      Structure, BackupFree, Named, Backup
  <2>5. ClaimHeld(w)' /\ BackupFree(w)' /\ Fresh(w)'
    BY <2>1, <2>2, Types DEF SelfFacts, ClaimHeld, BackupFree, Unmoved,
      LocalsOK, Fresh, Unpublished, OnePlace
  <2>6. LocalsOK(w)'
    BY <2>1, <2>2, <2>4, NamedKept DEF SelfFacts, LocalsOK, Fresh, Unpublished,
      BackupFree, Unmoved
  <2> QED
    BY <2>3, <2>4, <2>5, <2>6, Others DEF Structure
<1>2. CASE ~(package = NoTree /\ backup[local[w].pick] # NoTree)
  <2>1. RestoreNoEffect(w)
    BY <1>2, RestoreNoStep
  <2>2. /\ SelfFacts(w) /\ OnePlace /\ ClaimHeld(w) /\ Fresh(w)
        /\ BackupFree(w) /\ LocalsOK(w)
    BY Self DEF Structure
  <2>3. OnePlace'
    BY <2>1, <2>2, Types DEF SelfFacts, OnePlace, ClaimHeld, Fresh,
      Unpublished, BackupFree, Unmoved
  <2>4. Frame(w)
    BY <2>1, <2>2 DEF SelfFacts, Frame, Moves, Seen, Unmoved, LocalsOK,
      Structure, BackupFree, Named, Backup
  <2>5. ClaimHeld(w)' /\ BackupFree(w)' /\ Fresh(w)'
    BY <2>1, <2>2, Types DEF SelfFacts, ClaimHeld, BackupFree, Unmoved,
      LocalsOK, Fresh, Unpublished, OnePlace
  <2>6. LocalsOK(w)'
    BY <2>1, <2>2, <2>4, NamedKept DEF SelfFacts, LocalsOK, Fresh, Unpublished,
      BackupFree, Unmoved
  <2> QED
    BY <2>3, <2>4, <2>5, <2>6, Others DEF Structure
<1> QED
  BY <1>1, <1>2

LEMMA StructureVerifyRestored ==
  ASSUME PackageTypeOK, Structure, NEW w \in Writer, VerifyRestored(w)
  PROVE  Structure'
<1> USE DEF Recovering, Reading, Building, Moved, Verifying, Promoting, Ended,
      Mine, VerifyRestoredEffect
<1>1. VerifyRestoredEffect(w)
  BY VerifyRestoredStep
<1>2. /\ SelfFacts(w) /\ OnePlace /\ ClaimHeld(w) /\ Fresh(w)
      /\ BackupFree(w) /\ LocalsOK(w)
  BY Self DEF Structure
<1>3. OnePlace'
  BY <1>1, <1>2, Types DEF SelfFacts, OnePlace, ClaimHeld, Fresh, Unpublished,
    BackupFree, Unmoved
<1>4. Frame(w)
  BY <1>1, <1>2 DEF SelfFacts, Frame, Moves, Seen, Unmoved, LocalsOK,
    Structure, BackupFree, Named, Backup
<1>5. ClaimHeld(w)' /\ BackupFree(w)' /\ Fresh(w)'
  BY <1>1, <1>2, Types DEF SelfFacts, ClaimHeld, BackupFree, Unmoved, LocalsOK,
    Fresh, Unpublished, OnePlace
<1>6. LocalsOK(w)'
  BY <1>1, <1>2, <1>4, NamedKept DEF SelfFacts, LocalsOK, Fresh, Unpublished,
    BackupFree, Unmoved
<1> QED
  BY <1>3, <1>4, <1>5, <1>6, Others DEF Structure

LEMMA StructureSweepBackups ==
  ASSUME PackageTypeOK, Structure, NEW w \in Writer, SweepBackups(w)
  PROVE  Structure'
<1> USE DEF Recovering, Reading, Building, Moved, Verifying, Promoting, Ended,
      Mine, SweepEndEffect, SweepEffect
<1>1. CASE pc'[w] = "stage"
  <2>1. SweepEndEffect(w)
    BY <1>1, SweepEndStep
  <2>2. /\ SelfFacts(w) /\ OnePlace /\ ClaimHeld(w) /\ Fresh(w)
        /\ BackupFree(w) /\ LocalsOK(w)
    BY Self DEF Structure
  <2>3. OnePlace'
    BY <2>1, <2>2, Types DEF SelfFacts, OnePlace, ClaimHeld, Fresh,
      Unpublished, BackupFree, Unmoved
  <2>4. Frame(w)
    BY <2>1, <2>2 DEF SelfFacts, Frame, Moves, Seen, Unmoved, LocalsOK,
      Structure, BackupFree, Named, Backup
  <2>5. ClaimHeld(w)' /\ BackupFree(w)' /\ Fresh(w)'
    BY <2>1, <2>2, Types DEF SelfFacts, ClaimHeld, BackupFree, Unmoved,
      LocalsOK, Fresh, Unpublished, OnePlace
  <2>6. LocalsOK(w)'
    BY <2>1, <2>2, <2>4, NamedKept DEF SelfFacts, LocalsOK, Fresh, Unpublished,
      BackupFree, Unmoved
  <2> QED
    BY <2>3, <2>4, <2>5, <2>6, Others DEF Structure
<1>2. CASE pc'[w] # "stage"
  <2>1. SweepEffect(w)
    BY <1>2, SweepStep
  <2>2. /\ SelfFacts(w) /\ OnePlace /\ ClaimHeld(w) /\ Fresh(w)
        /\ BackupFree(w) /\ LocalsOK(w)
    BY Self DEF Structure
  <2>3. OnePlace'
    BY <2>1, <2>2, Types DEF SelfFacts, OnePlace, ClaimHeld, Fresh,
      Unpublished, BackupFree, Unmoved
  <2>4. Frame(w)
    BY <2>1, <2>2 DEF SelfFacts, Frame, Moves, Seen, Unmoved, LocalsOK,
      Structure, BackupFree, Named, Backup
  <2>5. ClaimHeld(w)' /\ BackupFree(w)' /\ Fresh(w)'
    BY <2>1, <2>2, Types DEF SelfFacts, ClaimHeld, BackupFree, Unmoved,
      LocalsOK, Fresh, Unpublished, OnePlace
  <2>6. LocalsOK(w)'
    BY <2>1, <2>2, <2>4, NamedKept DEF SelfFacts, LocalsOK, Fresh, Unpublished,
      BackupFree, Unmoved
  <2> QED
    BY <2>3, <2>4, <2>5, <2>6, Others DEF Structure
<1> QED
  BY <1>1, <1>2

LEMMA StructureClaimPath ==
  ASSUME PackageTypeOK, Structure, NEW w \in Writer, ClaimPath(w)
  PROVE  Structure'
<1> USE DEF Recovering, Reading, Building, Moved, Verifying, Promoting, Ended,
      Mine, ClaimNoneEffect, ClaimPathEffect, ClaimNoneOtherEffect,
      ClaimPathOtherEffect
<1>1. CASE Mine(w) /\ package = NoTree
  <2>1. ClaimNoneEffect(w)
    BY <1>1, ClaimNoneStep
  <2>2. /\ SelfFacts(w) /\ OnePlace /\ ClaimHeld(w) /\ Fresh(w)
        /\ BackupFree(w) /\ LocalsOK(w)
    BY Self DEF Structure
  <2>3. OnePlace'
    BY <2>1, <2>2, Types DEF SelfFacts, OnePlace, ClaimHeld, Fresh,
      Unpublished, BackupFree, Unmoved
  <2>4. Frame(w)
    BY <2>1, <2>2 DEF SelfFacts, Frame, Moves, Seen, Unmoved, LocalsOK,
      Structure, BackupFree, Named, Backup
  <2>5. ClaimHeld(w)' /\ BackupFree(w)' /\ Fresh(w)'
    BY <2>1, <2>2, Types DEF SelfFacts, ClaimHeld, BackupFree, Unmoved,
      LocalsOK, Fresh, Unpublished, OnePlace
  <2>6. LocalsOK(w)'
    BY <2>1, <2>2, <2>4, NamedKept DEF SelfFacts, LocalsOK, Fresh, Unpublished,
      BackupFree, Unmoved
  <2> QED
    BY <2>3, <2>4, <2>5, <2>6, Others DEF Structure
<1>2. CASE Mine(w) /\ package # NoTree
  <2>1. ClaimPathEffect(w)
    BY <1>2, ClaimPathStep
  <2>2. /\ SelfFacts(w) /\ OnePlace /\ ClaimHeld(w) /\ Fresh(w)
        /\ BackupFree(w) /\ LocalsOK(w)
    BY Self DEF Structure
  <2>3. OnePlace'
    BY <2>1, <2>2, Types DEF SelfFacts, OnePlace, ClaimHeld, Fresh,
      Unpublished, BackupFree, Unmoved
  <2>4. Frame(w)
    BY <2>1, <2>2 DEF SelfFacts, Frame, Moves, Seen, Unmoved, LocalsOK,
      Structure, BackupFree, Named, Backup
  <2>5. ClaimHeld(w)' /\ BackupFree(w)' /\ Fresh(w)'
    BY <2>1, <2>2, Types DEF SelfFacts, ClaimHeld, BackupFree, Unmoved,
      LocalsOK, Fresh, Unpublished, OnePlace
  <2>6. LocalsOK(w)'
    BY <2>1, <2>2, <2>4, NamedKept DEF SelfFacts, LocalsOK, Fresh, Unpublished,
      BackupFree, Unmoved
  <2> QED
    BY <2>3, <2>4, <2>5, <2>6, Others DEF Structure
<1>3. CASE ~Mine(w) /\ backup[local[w].target] = NoTree
  <2>1. ClaimNoneOtherEffect(w)
    BY <1>3, ClaimNoneOtherStep
  <2>2. /\ SelfFacts(w) /\ OnePlace /\ ClaimHeld(w) /\ Fresh(w)
        /\ BackupFree(w) /\ LocalsOK(w)
    BY Self DEF Structure
  <2>3. OnePlace'
    BY <2>1, <2>2, Types DEF SelfFacts, OnePlace, ClaimHeld, Fresh,
      Unpublished, BackupFree, Unmoved
  <2>4. Frame(w)
    BY <2>1, <2>2 DEF SelfFacts, Frame, Moves, Seen, Unmoved, LocalsOK,
      Structure, BackupFree, Named, Backup
  <2>5. ClaimHeld(w)' /\ BackupFree(w)' /\ Fresh(w)'
    BY <2>1, <2>2, Types DEF SelfFacts, ClaimHeld, BackupFree, Unmoved,
      LocalsOK, Fresh, Unpublished, OnePlace
  <2>6. LocalsOK(w)'
    BY <2>1, <2>2, <2>4, NamedKept DEF SelfFacts, LocalsOK, Fresh, Unpublished,
      BackupFree, Unmoved
  <2> QED
    BY <2>3, <2>4, <2>5, <2>6, Others DEF Structure
<1>4. CASE ~Mine(w) /\ backup[local[w].target] # NoTree
  <2>1. ClaimPathOtherEffect(w)
    BY <1>4, ClaimPathOtherStep
  <2>2. /\ SelfFacts(w) /\ OnePlace /\ ClaimHeld(w) /\ Fresh(w)
        /\ BackupFree(w) /\ LocalsOK(w)
    BY Self DEF Structure
  <2>3. OnePlace'
    BY <2>1, <2>2, Types DEF SelfFacts, OnePlace, ClaimHeld, Fresh,
      Unpublished, BackupFree, Unmoved
  <2>4. Frame(w)
    BY <2>1, <2>2 DEF SelfFacts, Frame, Moves, Seen, Unmoved, LocalsOK,
      Structure, BackupFree, Named, Backup
  <2>5. ClaimHeld(w)' /\ BackupFree(w)' /\ Fresh(w)'
    BY <2>1, <2>2, Types DEF SelfFacts, ClaimHeld, BackupFree, Unmoved,
      LocalsOK, Fresh, Unpublished, OnePlace
  <2>6. LocalsOK(w)'
    BY <2>1, <2>2, <2>4, NamedKept DEF SelfFacts, LocalsOK, Fresh, Unpublished,
      BackupFree, Unmoved
  <2> QED
    BY <2>3, <2>4, <2>5, <2>6, Others DEF Structure
<1> QED
  BY <1>1, <1>2, <1>3, <1>4

LEMMA StructureRestoreForeign ==
  ASSUME PackageTypeOK, Structure, NEW w \in Writer, RestoreForeign(w)
  PROVE  Structure'
<1> USE DEF Recovering, Reading, Building, Moved, Verifying, Promoting, Ended,
      Mine, RestoreForeignEffect, RestoreForeignOtherEffect
<1>1. CASE Mine(w)
  <2>1. RestoreForeignEffect(w)
    BY <1>1, RestoreForeignStep
  <2>2. /\ SelfFacts(w) /\ OnePlace /\ ClaimHeld(w) /\ Fresh(w)
        /\ BackupFree(w) /\ LocalsOK(w)
    BY Self DEF Structure
  <2>3. OnePlace'
    BY <2>1, <2>2, Types DEF SelfFacts, OnePlace, ClaimHeld, Fresh,
      Unpublished, BackupFree, Unmoved
  <2>4. Frame(w)
    BY <2>1, <2>2 DEF SelfFacts, Frame, Moves, Seen, Unmoved, LocalsOK,
      Structure, BackupFree, Named, Backup
  <2>5. ClaimHeld(w)' /\ BackupFree(w)' /\ Fresh(w)'
    BY <2>1, <2>2, Types DEF SelfFacts, ClaimHeld, BackupFree, Unmoved,
      LocalsOK, Fresh, Unpublished, OnePlace
  <2>6. LocalsOK(w)'
    BY <2>1, <2>2, <2>4, NamedKept DEF SelfFacts, LocalsOK, Fresh, Unpublished,
      BackupFree, Unmoved
  <2> QED
    BY <2>3, <2>4, <2>5, <2>6, Others DEF Structure
<1>2. CASE ~Mine(w)
  <2>1. RestoreForeignOtherEffect(w)
    BY <1>2, RestoreForeignOtherStep
  <2>2. /\ SelfFacts(w) /\ OnePlace /\ ClaimHeld(w) /\ Fresh(w)
        /\ BackupFree(w) /\ LocalsOK(w)
    BY Self DEF Structure
  <2>3. OnePlace'
    BY <2>1, <2>2, Types DEF SelfFacts, OnePlace, ClaimHeld, Fresh,
      Unpublished, BackupFree, Unmoved
  <2>4. Frame(w)
    BY <2>1, <2>2 DEF SelfFacts, Frame, Moves, Seen, Unmoved, LocalsOK,
      Structure, BackupFree, Named, Backup
  <2>5. ClaimHeld(w)' /\ BackupFree(w)' /\ Fresh(w)'
    BY <2>1, <2>2, Types DEF SelfFacts, ClaimHeld, BackupFree, Unmoved,
      LocalsOK, Fresh, Unpublished, OnePlace
  <2>6. LocalsOK(w)'
    BY <2>1, <2>2, <2>4, NamedKept DEF SelfFacts, LocalsOK, Fresh, Unpublished,
      BackupFree, Unmoved
  <2> QED
    BY <2>3, <2>4, <2>5, <2>6, Others DEF Structure
<1> QED
  BY <1>1, <1>2

LEMMA StructureRemoveClaimed ==
  ASSUME PackageTypeOK, Structure, NEW w \in Writer, RemoveClaimed(w)
  PROVE  Structure'
<1> USE DEF Recovering, Reading, Building, Moved, Verifying, Promoting, Ended,
      Mine, RemoveClaimedEffect, RemoveClaimedOtherEffect
<1>1. CASE Mine(w)
  <2>1. RemoveClaimedEffect(w)
    BY <1>1, RemoveClaimedStep
  <2>2. /\ SelfFacts(w) /\ OnePlace /\ ClaimHeld(w) /\ Fresh(w)
        /\ BackupFree(w) /\ LocalsOK(w)
    BY Self DEF Structure
  <2>3. OnePlace'
    BY <2>1, <2>2, Types DEF SelfFacts, OnePlace, ClaimHeld, Fresh,
      Unpublished, BackupFree, Unmoved
  <2>4. Frame(w)
    BY <2>1, <2>2 DEF SelfFacts, Frame, Moves, Seen, Unmoved, LocalsOK,
      Structure, BackupFree, Named, Backup
  <2>5. ClaimHeld(w)' /\ BackupFree(w)' /\ Fresh(w)'
    BY <2>1, <2>2, Types DEF SelfFacts, ClaimHeld, BackupFree, Unmoved,
      LocalsOK, Fresh, Unpublished, OnePlace
  <2>6. LocalsOK(w)'
    BY <2>1, <2>2, <2>4, NamedKept DEF SelfFacts, LocalsOK, Fresh, Unpublished,
      BackupFree, Unmoved
  <2> QED
    BY <2>3, <2>4, <2>5, <2>6, Others DEF Structure
<1>2. CASE ~Mine(w)
  <2>1. RemoveClaimedOtherEffect(w)
    BY <1>2, RemoveClaimedOtherStep
  <2>2. /\ SelfFacts(w) /\ OnePlace /\ ClaimHeld(w) /\ Fresh(w)
        /\ BackupFree(w) /\ LocalsOK(w)
    BY Self DEF Structure
  <2>3. OnePlace'
    BY <2>1, <2>2, Types DEF SelfFacts, OnePlace, ClaimHeld, Fresh,
      Unpublished, BackupFree, Unmoved
  <2>4. Frame(w)
    BY <2>1, <2>2 DEF SelfFacts, Frame, Moves, Seen, Unmoved, LocalsOK,
      Structure, BackupFree, Named, Backup
  <2>5. ClaimHeld(w)' /\ BackupFree(w)' /\ Fresh(w)'
    BY <2>1, <2>2, Types DEF SelfFacts, ClaimHeld, BackupFree, Unmoved,
      LocalsOK, Fresh, Unpublished, OnePlace
  <2>6. LocalsOK(w)'
    BY <2>1, <2>2, <2>4, NamedKept DEF SelfFacts, LocalsOK, Fresh, Unpublished,
      BackupFree, Unmoved
  <2> QED
    BY <2>3, <2>4, <2>5, <2>6, Others DEF Structure
<1> QED
  BY <1>1, <1>2

LEMMA StructureRemovalFails ==
  ASSUME PackageTypeOK, Structure, NEW w \in Writer, RemovalFails(w)
  PROVE  Structure'
<1> USE DEF Recovering, Reading, Building, Moved, Verifying, Promoting, Ended,
      Mine, RemovalFailsEffect, RemovalFailsOtherEffect
<1>1. CASE Mine(w)
  <2>1. RemovalFailsEffect(w)
    BY <1>1, RemovalFailsStep
  <2>2. /\ SelfFacts(w) /\ OnePlace /\ ClaimHeld(w) /\ Fresh(w)
        /\ BackupFree(w) /\ LocalsOK(w)
    BY Self DEF Structure
  <2>3. OnePlace'
    BY <2>1, <2>2, Types DEF SelfFacts, OnePlace, ClaimHeld, Fresh,
      Unpublished, BackupFree, Unmoved
  <2>4. Frame(w)
    BY <2>1, <2>2 DEF SelfFacts, Frame, Moves, Seen, Unmoved, LocalsOK,
      Structure, BackupFree, Named, Backup
  <2>5. ClaimHeld(w)' /\ BackupFree(w)' /\ Fresh(w)'
    BY <2>1, <2>2, Types DEF SelfFacts, ClaimHeld, BackupFree, Unmoved,
      LocalsOK, Fresh, Unpublished, OnePlace
  <2>6. LocalsOK(w)'
    BY <2>1, <2>2, <2>4, NamedKept DEF SelfFacts, LocalsOK, Fresh, Unpublished,
      BackupFree, Unmoved
  <2> QED
    BY <2>3, <2>4, <2>5, <2>6, Others DEF Structure
<1>2. CASE ~Mine(w)
  <2>1. RemovalFailsOtherEffect(w)
    BY <1>2, RemovalFailsOtherStep
  <2>2. /\ SelfFacts(w) /\ OnePlace /\ ClaimHeld(w) /\ Fresh(w)
        /\ BackupFree(w) /\ LocalsOK(w)
    BY Self DEF Structure
  <2>3. OnePlace'
    BY <2>1, <2>2, Types DEF SelfFacts, OnePlace, ClaimHeld, Fresh,
      Unpublished, BackupFree, Unmoved
  <2>4. Frame(w)
    BY <2>1, <2>2 DEF SelfFacts, Frame, Moves, Seen, Unmoved, LocalsOK,
      Structure, BackupFree, Named, Backup
  <2>5. ClaimHeld(w)' /\ BackupFree(w)' /\ Fresh(w)'
    BY <2>1, <2>2, Types DEF SelfFacts, ClaimHeld, BackupFree, Unmoved,
      LocalsOK, Fresh, Unpublished, OnePlace
  <2>6. LocalsOK(w)'
    BY <2>1, <2>2, <2>4, NamedKept DEF SelfFacts, LocalsOK, Fresh, Unpublished,
      BackupFree, Unmoved
  <2> QED
    BY <2>3, <2>4, <2>5, <2>6, Others DEF Structure
<1> QED
  BY <1>1, <1>2

LEMMA StructureBuildTree ==
  ASSUME PackageTypeOK, Structure, NEW w \in Writer, BuildTree(w)
  PROVE  Structure'
<1> USE DEF Recovering, Reading, Building, Moved, Verifying, Promoting, Ended,
      Mine, BuildTreeEffect
<1>1. BuildTreeEffect(w)
  BY BuildTreeStep
<1>2. /\ SelfFacts(w) /\ OnePlace /\ ClaimHeld(w) /\ Fresh(w)
      /\ BackupFree(w) /\ LocalsOK(w)
  BY Self DEF Structure
<1>3. OnePlace'
  BY <1>1, <1>2, Types DEF SelfFacts, OnePlace, ClaimHeld, Fresh, Unpublished,
    BackupFree, Unmoved
<1>4. Frame(w)
  BY <1>1, <1>2 DEF SelfFacts, Frame, Moves, Seen, Unmoved, LocalsOK,
    Structure, BackupFree, Named, Backup
<1>5. ClaimHeld(w)' /\ BackupFree(w)' /\ Fresh(w)'
  BY <1>1, <1>2, Types DEF SelfFacts, ClaimHeld, BackupFree, Unmoved, LocalsOK,
    Fresh, Unpublished, OnePlace
<1>6. LocalsOK(w)'
  BY <1>1, <1>2, <1>4, NamedKept DEF SelfFacts, LocalsOK, Fresh, Unpublished,
    BackupFree, Unmoved
<1> QED
  BY <1>3, <1>4, <1>5, <1>6, Others DEF Structure

LEMMA StructureBuildFails ==
  ASSUME PackageTypeOK, Structure, NEW w \in Writer, BuildFails(w)
  PROVE  Structure'
<1> USE DEF Recovering, Reading, Building, Moved, Verifying, Promoting, Ended,
      Mine, BuildFailsEffect
<1>1. BuildFailsEffect(w)
  BY BuildFailsStep
<1>2. /\ SelfFacts(w) /\ OnePlace /\ ClaimHeld(w) /\ Fresh(w)
      /\ BackupFree(w) /\ LocalsOK(w)
  BY Self DEF Structure
<1>3. OnePlace'
  BY <1>1, <1>2, Types DEF SelfFacts, OnePlace, ClaimHeld, Fresh, Unpublished,
    BackupFree, Unmoved
<1>4. Frame(w)
  BY <1>1, <1>2 DEF SelfFacts, Frame, Moves, Seen, Unmoved, LocalsOK,
    Structure, BackupFree, Named, Backup
<1>5. ClaimHeld(w)' /\ BackupFree(w)' /\ Fresh(w)'
  BY <1>1, <1>2, Types DEF SelfFacts, ClaimHeld, BackupFree, Unmoved, LocalsOK,
    Fresh, Unpublished, OnePlace
<1>6. LocalsOK(w)'
  BY <1>1, <1>2, <1>4, NamedKept DEF SelfFacts, LocalsOK, Fresh, Unpublished,
    BackupFree, Unmoved
<1> QED
  BY <1>3, <1>4, <1>5, <1>6, Others DEF Structure

LEMMA StructureLookForPackage ==
  ASSUME PackageTypeOK, Structure, NEW w \in Writer, LookForPackage(w)
  PROVE  Structure'
<1> USE DEF Recovering, Reading, Building, Moved, Verifying, Promoting, Ended,
      Mine, LookForPackageEffect
<1>1. LookForPackageEffect(w)
  BY LookForPackageStep
<1>2. /\ SelfFacts(w) /\ OnePlace /\ ClaimHeld(w) /\ Fresh(w)
      /\ BackupFree(w) /\ LocalsOK(w)
  BY Self DEF Structure
<1>3. OnePlace'
  BY <1>1, <1>2, Types DEF SelfFacts, OnePlace, ClaimHeld, Fresh, Unpublished,
    BackupFree, Unmoved
<1>4. Frame(w)
  BY <1>1, <1>2 DEF SelfFacts, Frame, Moves, Seen, Unmoved, LocalsOK,
    Structure, BackupFree, Named, Backup
<1>5. ClaimHeld(w)' /\ BackupFree(w)' /\ Fresh(w)'
  BY <1>1, <1>2, Types DEF SelfFacts, ClaimHeld, BackupFree, Unmoved, LocalsOK,
    Fresh, Unpublished, OnePlace
<1>6. LocalsOK(w)'
  BY <1>1, <1>2, <1>4, NamedKept DEF SelfFacts, LocalsOK, Fresh, Unpublished,
    BackupFree, Unmoved
<1> QED
  BY <1>3, <1>4, <1>5, <1>6, Others DEF Structure

LEMMA StructureRecordOwner ==
  ASSUME PackageTypeOK, Structure, NEW w \in Writer, RecordOwner(w)
  PROVE  Structure'
<1> USE DEF Recovering, Reading, Building, Moved, Verifying, Promoting, Ended,
      Mine, RecordOwnerEffect
<1>1. RecordOwnerEffect(w)
  BY RecordOwnerStep
<1>2. /\ SelfFacts(w) /\ OnePlace /\ ClaimHeld(w) /\ Fresh(w)
      /\ BackupFree(w) /\ LocalsOK(w)
  BY Self DEF Structure
<1>3. OnePlace'
  BY <1>1, <1>2, Types DEF SelfFacts, OnePlace, ClaimHeld, Fresh, Unpublished,
    BackupFree, Unmoved
<1>4. Frame(w)
  BY <1>1, <1>2 DEF SelfFacts, Frame, Moves, Seen, Unmoved, LocalsOK,
    Structure, BackupFree, Named, Backup
<1>5. ClaimHeld(w)' /\ BackupFree(w)' /\ Fresh(w)'
  BY <1>1, <1>2, Types DEF SelfFacts, ClaimHeld, BackupFree, Unmoved, LocalsOK,
    Fresh, Unpublished, OnePlace
<1>6. LocalsOK(w)'
  BY <1>1, <1>2, <1>4, NamedKept DEF SelfFacts, LocalsOK, Fresh, Unpublished,
    BackupFree, Unmoved
<1> QED
  BY <1>3, <1>4, <1>5, <1>6, Others DEF Structure

LEMMA StructureMoveAway ==
  ASSUME PackageTypeOK, Structure, NEW w \in Writer, MoveAway(w)
  PROVE  Structure'
<1> USE DEF Recovering, Reading, Building, Moved, Verifying, Promoting, Ended,
      Mine, MoveAwayEffect
<1>1. MoveAwayEffect(w)
  BY MoveAwayStep
<1>2. /\ SelfFacts(w) /\ OnePlace /\ ClaimHeld(w) /\ Fresh(w)
      /\ BackupFree(w) /\ LocalsOK(w)
  BY Self DEF Structure
<1>3. OnePlace'
  BY <1>1, <1>2, Types DEF SelfFacts, OnePlace, ClaimHeld, Fresh, Unpublished,
    BackupFree, Unmoved
<1>4. Frame(w)
  BY <1>1, <1>2 DEF SelfFacts, Frame, Moves, Seen, Unmoved, LocalsOK,
    Structure, BackupFree, Named, Backup
<1>5. ClaimHeld(w)' /\ BackupFree(w)' /\ Fresh(w)'
  BY <1>1, <1>2, Types DEF SelfFacts, ClaimHeld, BackupFree, Unmoved, LocalsOK,
    Fresh, Unpublished, OnePlace
<1>6. LocalsOK(w)'
  BY <1>1, <1>2, <1>4, NamedKept DEF SelfFacts, LocalsOK, Fresh, Unpublished,
    BackupFree, Unmoved
<1> QED
  BY <1>3, <1>4, <1>5, <1>6, Others DEF Structure

LEMMA StructureVerifyBackup ==
  ASSUME PackageTypeOK, Structure, NEW w \in Writer, VerifyBackup(w)
  PROVE  Structure'
<1> USE DEF Recovering, Reading, Building, Moved, Verifying, Promoting, Ended,
      Mine, VerifyBackupEffect
<1>1. VerifyBackupEffect(w)
  BY VerifyBackupStep
<1>2. /\ SelfFacts(w) /\ OnePlace /\ ClaimHeld(w) /\ Fresh(w)
      /\ BackupFree(w) /\ LocalsOK(w)
  BY Self DEF Structure
<1>3. OnePlace'
  BY <1>1, <1>2, Types DEF SelfFacts, OnePlace, ClaimHeld, Fresh, Unpublished,
    BackupFree, Unmoved
<1>4. Frame(w)
  BY <1>1, <1>2 DEF SelfFacts, Frame, Moves, Seen, Unmoved, LocalsOK,
    Structure, BackupFree, Named, Backup
<1>5. ClaimHeld(w)' /\ BackupFree(w)' /\ Fresh(w)'
  BY <1>1, <1>2, Types DEF SelfFacts, ClaimHeld, BackupFree, Unmoved, LocalsOK,
    Fresh, Unpublished, OnePlace
<1>6. LocalsOK(w)'
  BY <1>1, <1>2, <1>4, NamedKept DEF SelfFacts, LocalsOK, Fresh, Unpublished,
    BackupFree, Unmoved
<1> QED
  BY <1>3, <1>4, <1>5, <1>6, Others DEF Structure

LEMMA StructurePublish ==
  ASSUME PackageTypeOK, Structure, NEW w \in Writer, Publish(w)
  PROVE  Structure'
<1> USE DEF Recovering, Reading, Building, Moved, Verifying, Promoting, Ended,
      Mine, PublishEffect
<1>1. PublishEffect(w)
  BY PublishStep
<1>2. /\ SelfFacts(w) /\ OnePlace /\ ClaimHeld(w) /\ Fresh(w)
      /\ BackupFree(w) /\ LocalsOK(w)
  BY Self DEF Structure
<1>3. OnePlace'
  BY <1>1, <1>2, Types DEF SelfFacts, OnePlace, ClaimHeld, Fresh, Unpublished,
    BackupFree, Unmoved
<1>4. Frame(w)
  BY <1>1, <1>2 DEF SelfFacts, Frame, Moves, Seen, Unmoved, LocalsOK,
    Structure, BackupFree, Named, Backup
<1>5. ClaimHeld(w)' /\ BackupFree(w)' /\ Fresh(w)'
  BY <1>1, <1>2, Types DEF SelfFacts, ClaimHeld, BackupFree, Unmoved, LocalsOK,
    Fresh, Unpublished, OnePlace
<1>6. LocalsOK(w)'
  BY <1>1, <1>2, <1>4, NamedKept DEF SelfFacts, LocalsOK, Fresh, Unpublished,
    BackupFree, Unmoved
<1> QED
  BY <1>3, <1>4, <1>5, <1>6, Others DEF Structure

LEMMA StructureVerifyOwner ==
  ASSUME PackageTypeOK, Structure, NEW w \in Writer, VerifyOwner(w)
  PROVE  Structure'
<1> USE DEF Recovering, Reading, Building, Moved, Verifying, Promoting, Ended,
      Mine, VerifyOwnerEffect
<1>1. VerifyOwnerEffect(w)
  BY VerifyOwnerStep
<1>2. /\ SelfFacts(w) /\ OnePlace /\ ClaimHeld(w) /\ Fresh(w)
      /\ BackupFree(w) /\ LocalsOK(w)
  BY Self DEF Structure
<1>3. OnePlace'
  BY <1>1, <1>2, Types DEF SelfFacts, OnePlace, ClaimHeld, Fresh, Unpublished,
    BackupFree, Unmoved
<1>4. Frame(w)
  BY <1>1, <1>2 DEF SelfFacts, Frame, Moves, Seen, Unmoved, LocalsOK,
    Structure, BackupFree, Named, Backup
<1>5. ClaimHeld(w)' /\ BackupFree(w)' /\ Fresh(w)'
  BY <1>1, <1>2, Types DEF SelfFacts, ClaimHeld, BackupFree, Unmoved, LocalsOK,
    Fresh, Unpublished, OnePlace
<1>6. LocalsOK(w)'
  BY <1>1, <1>2, <1>4, NamedKept DEF SelfFacts, LocalsOK, Fresh, Unpublished,
    BackupFree, Unmoved
<1> QED
  BY <1>3, <1>4, <1>5, <1>6, Others DEF Structure

LEMMA StructureVerifyTree ==
  ASSUME PackageTypeOK, Structure, NEW w \in Writer, VerifyTree(w)
  PROVE  Structure'
<1> USE DEF Recovering, Reading, Building, Moved, Verifying, Promoting, Ended,
      Mine, VerifyTreeEffect
<1>1. VerifyTreeEffect(w)
  BY VerifyTreeStep
<1>2. /\ SelfFacts(w) /\ OnePlace /\ ClaimHeld(w) /\ Fresh(w)
      /\ BackupFree(w) /\ LocalsOK(w)
  BY Self DEF Structure
<1>3. OnePlace'
  BY <1>1, <1>2, Types DEF SelfFacts, OnePlace, ClaimHeld, Fresh, Unpublished,
    BackupFree, Unmoved
<1>4. Frame(w)
  BY <1>1, <1>2 DEF SelfFacts, Frame, Moves, Seen, Unmoved, LocalsOK,
    Structure, BackupFree, Named, Backup
<1>5. ClaimHeld(w)' /\ BackupFree(w)' /\ Fresh(w)'
  BY <1>1, <1>2, Types DEF SelfFacts, ClaimHeld, BackupFree, Unmoved, LocalsOK,
    Fresh, Unpublished, OnePlace
<1>6. LocalsOK(w)'
  BY <1>1, <1>2, <1>4, NamedKept DEF SelfFacts, LocalsOK, Fresh, Unpublished,
    BackupFree, Unmoved
<1> QED
  BY <1>3, <1>4, <1>5, <1>6, Others DEF Structure

LEMMA StructureReadFails ==
  ASSUME PackageTypeOK, Structure, NEW w \in Writer, ReadFails(w)
  PROVE  Structure'
<1> USE DEF Recovering, Reading, Building, Moved, Verifying, Promoting, Ended,
      Mine, ReadFailsEffect
<1>1. ReadFailsEffect(w)
  BY ReadFailsStep
<1>2. /\ SelfFacts(w) /\ OnePlace /\ ClaimHeld(w) /\ Fresh(w)
      /\ BackupFree(w) /\ LocalsOK(w)
  BY Self DEF Structure
<1>3. OnePlace'
  BY <1>1, <1>2, Types DEF SelfFacts, OnePlace, ClaimHeld, Fresh, Unpublished,
    BackupFree, Unmoved
<1>4. Frame(w)
  BY <1>1, <1>2 DEF SelfFacts, Frame, Moves, Seen, Unmoved, LocalsOK,
    Structure, BackupFree, Named, Backup
<1>5. ClaimHeld(w)' /\ BackupFree(w)' /\ Fresh(w)'
  BY <1>1, <1>2, Types DEF SelfFacts, ClaimHeld, BackupFree, Unmoved, LocalsOK,
    Fresh, Unpublished, OnePlace
<1>6. LocalsOK(w)'
  BY <1>1, <1>2, <1>4, NamedKept DEF SelfFacts, LocalsOK, Fresh, Unpublished,
    BackupFree, Unmoved
<1> QED
  BY <1>3, <1>4, <1>5, <1>6, Others DEF Structure

LEMMA StructureTidyBackup ==
  ASSUME PackageTypeOK, Structure, NEW w \in Writer, TidyBackup(w)
  PROVE  Structure'
<1> USE DEF Recovering, Reading, Building, Moved, Verifying, Promoting, Ended,
      Mine, TidyBackupEffect
<1>1. TidyBackupEffect(w)
  BY TidyBackupStep
<1>2. /\ SelfFacts(w) /\ OnePlace /\ ClaimHeld(w) /\ Fresh(w)
      /\ BackupFree(w) /\ LocalsOK(w)
  BY Self DEF Structure
<1>3. OnePlace'
  BY <1>1, <1>2, Types DEF SelfFacts, OnePlace, ClaimHeld, Fresh, Unpublished,
    BackupFree, Unmoved
<1>4. Frame(w)
  BY <1>1, <1>2 DEF SelfFacts, Frame, Moves, Seen, Unmoved, LocalsOK,
    Structure, BackupFree, Named, Backup
<1>5. ClaimHeld(w)' /\ BackupFree(w)' /\ Fresh(w)'
  BY <1>1, <1>2, Types DEF SelfFacts, ClaimHeld, BackupFree, Unmoved, LocalsOK,
    Fresh, Unpublished, OnePlace
<1>6. LocalsOK(w)'
  BY <1>1, <1>2, <1>4, NamedKept DEF SelfFacts, LocalsOK, Fresh, Unpublished,
    BackupFree, Unmoved
<1> QED
  BY <1>3, <1>4, <1>5, <1>6, Others DEF Structure

LEMMA StructureTidyFails ==
  ASSUME PackageTypeOK, Structure, NEW w \in Writer, TidyFails(w)
  PROVE  Structure'
<1> USE DEF Recovering, Reading, Building, Moved, Verifying, Promoting, Ended,
      Mine, TidyFailsEffect
<1>1. TidyFailsEffect(w)
  BY TidyFailsStep
<1>2. /\ SelfFacts(w) /\ OnePlace /\ ClaimHeld(w) /\ Fresh(w)
      /\ BackupFree(w) /\ LocalsOK(w)
  BY Self DEF Structure
<1>3. OnePlace'
  BY <1>1, <1>2, Types DEF SelfFacts, OnePlace, ClaimHeld, Fresh, Unpublished,
    BackupFree, Unmoved
<1>4. Frame(w)
  BY <1>1, <1>2 DEF SelfFacts, Frame, Moves, Seen, Unmoved, LocalsOK,
    Structure, BackupFree, Named, Backup
<1>5. ClaimHeld(w)' /\ BackupFree(w)' /\ Fresh(w)'
  BY <1>1, <1>2, Types DEF SelfFacts, ClaimHeld, BackupFree, Unmoved, LocalsOK,
    Fresh, Unpublished, OnePlace
<1>6. LocalsOK(w)'
  BY <1>1, <1>2, <1>4, NamedKept DEF SelfFacts, LocalsOK, Fresh, Unpublished,
    BackupFree, Unmoved
<1> QED
  BY <1>3, <1>4, <1>5, <1>6, Others DEF Structure

LEMMA StructureTidyDone ==
  ASSUME PackageTypeOK, Structure, NEW w \in Writer, TidyDone(w)
  PROVE  Structure'
<1> USE DEF Recovering, Reading, Building, Moved, Verifying, Promoting, Ended,
      Mine, TidyDoneEffect
<1>1. TidyDoneEffect(w)
  BY TidyDoneStep
<1>2. /\ SelfFacts(w) /\ OnePlace /\ ClaimHeld(w) /\ Fresh(w)
      /\ BackupFree(w) /\ LocalsOK(w)
  BY Self DEF Structure
<1>3. OnePlace'
  BY <1>1, <1>2, Types DEF SelfFacts, OnePlace, ClaimHeld, Fresh, Unpublished,
    BackupFree, Unmoved
<1>4. Frame(w)
  BY <1>1, <1>2 DEF SelfFacts, Frame, Moves, Seen, Unmoved, LocalsOK,
    Structure, BackupFree, Named, Backup
<1>5. ClaimHeld(w)' /\ BackupFree(w)' /\ Fresh(w)'
  BY <1>1, <1>2, Types DEF SelfFacts, ClaimHeld, BackupFree, Unmoved, LocalsOK,
    Fresh, Unpublished, OnePlace
<1>6. LocalsOK(w)'
  BY <1>1, <1>2, <1>4, NamedKept DEF SelfFacts, LocalsOK, Fresh, Unpublished,
    BackupFree, Unmoved
<1> QED
  BY <1>3, <1>4, <1>5, <1>6, Others DEF Structure

LEMMA StructureUndoPublished ==
  ASSUME PackageTypeOK, Structure, NEW w \in Writer, UndoPublished(w)
  PROVE  Structure'
<1> USE DEF Recovering, Reading, Building, Moved, Verifying, Promoting, Ended,
      Mine, UndoPublishedEffect
<1>1. UndoPublishedEffect(w)
  BY UndoPublishedStep
<1>2. /\ SelfFacts(w) /\ OnePlace /\ ClaimHeld(w) /\ Fresh(w)
      /\ BackupFree(w) /\ LocalsOK(w)
  BY Self DEF Structure
<1>3. OnePlace'
  BY <1>1, <1>2, Types DEF SelfFacts, OnePlace, ClaimHeld, Fresh, Unpublished,
    BackupFree, Unmoved
<1>4. Frame(w)
  BY <1>1, <1>2 DEF SelfFacts, Frame, Moves, Seen, Unmoved, LocalsOK,
    Structure, BackupFree, Named, Backup
<1>5. ClaimHeld(w)' /\ BackupFree(w)' /\ Fresh(w)'
  BY <1>1, <1>2, Types DEF SelfFacts, ClaimHeld, BackupFree, Unmoved, LocalsOK,
    Fresh, Unpublished, OnePlace
<1>6. LocalsOK(w)'
  BY <1>1, <1>2, <1>4, NamedKept DEF SelfFacts, LocalsOK, Fresh, Unpublished,
    BackupFree, Unmoved
<1> QED
  BY <1>3, <1>4, <1>5, <1>6, Others DEF Structure

LEMMA StructureTearPackage ==
  ASSUME PackageTypeOK, Structure, NEW w \in Writer, TearPackage(w)
  PROVE  Structure'
<1> USE DEF Recovering, Reading, Building, Moved, Verifying, Promoting, Ended,
      Mine, TearPackageEffect
<1>1. TearPackageEffect(w)
  BY TearPackageStep
<1>2. /\ SelfFacts(w) /\ OnePlace /\ ClaimHeld(w) /\ Fresh(w)
      /\ BackupFree(w) /\ LocalsOK(w)
  BY Self DEF Structure
<1>3. OnePlace'
  BY <1>1, <1>2, Types DEF SelfFacts, OnePlace, ClaimHeld, Fresh, Unpublished,
    BackupFree, Unmoved
<1>4. Frame(w)
  BY <1>1, <1>2 DEF SelfFacts, Frame, Moves, Seen, Unmoved, LocalsOK,
    Structure, BackupFree, Named, Backup
<1>5. ClaimHeld(w)' /\ BackupFree(w)' /\ Fresh(w)'
  BY <1>1, <1>2, Types DEF SelfFacts, ClaimHeld, BackupFree, Unmoved, LocalsOK,
    Fresh, Unpublished, OnePlace
<1>6. LocalsOK(w)'
  BY <1>1, <1>2, <1>4, NamedKept DEF SelfFacts, LocalsOK, Fresh, Unpublished,
    BackupFree, Unmoved
<1> QED
  BY <1>3, <1>4, <1>5, <1>6, Others DEF Structure

LEMMA StructureRemovePackage ==
  ASSUME PackageTypeOK, Structure, NEW w \in Writer, RemovePackage(w)
  PROVE  Structure'
<1> USE DEF Recovering, Reading, Building, Moved, Verifying, Promoting, Ended,
      Mine, RemovePackageEffect
<1>1. RemovePackageEffect(w)
  BY RemovePackageStep
<1>2. /\ SelfFacts(w) /\ OnePlace /\ ClaimHeld(w) /\ Fresh(w)
      /\ BackupFree(w) /\ LocalsOK(w)
  BY Self DEF Structure
<1>3. OnePlace'
  BY <1>1, <1>2, Types DEF SelfFacts, OnePlace, ClaimHeld, Fresh, Unpublished,
    BackupFree, Unmoved
<1>4. Frame(w)
  BY <1>1, <1>2 DEF SelfFacts, Frame, Moves, Seen, Unmoved, LocalsOK,
    Structure, BackupFree, Named, Backup
<1>5. ClaimHeld(w)' /\ BackupFree(w)' /\ Fresh(w)'
  BY <1>1, <1>2, Types DEF SelfFacts, ClaimHeld, BackupFree, Unmoved, LocalsOK,
    Fresh, Unpublished, OnePlace
<1>6. LocalsOK(w)'
  BY <1>1, <1>2, <1>4, NamedKept DEF SelfFacts, LocalsOK, Fresh, Unpublished,
    BackupFree, Unmoved
<1> QED
  BY <1>3, <1>4, <1>5, <1>6, Others DEF Structure

LEMMA StructureChooseUndo ==
  ASSUME PackageTypeOK, Structure, NEW w \in Writer, ChooseUndo(w)
  PROVE  Structure'
<1> USE DEF Recovering, Reading, Building, Moved, Verifying, Promoting, Ended,
      Mine, ChooseUndoEffect
<1>1. ChooseUndoEffect(w)
  BY ChooseUndoStep
<1>2. /\ SelfFacts(w) /\ OnePlace /\ ClaimHeld(w) /\ Fresh(w)
      /\ BackupFree(w) /\ LocalsOK(w)
  BY Self DEF Structure
<1>3. OnePlace'
  BY <1>1, <1>2, Types DEF SelfFacts, OnePlace, ClaimHeld, Fresh, Unpublished,
    BackupFree, Unmoved
<1>4. Frame(w)
  BY <1>1, <1>2 DEF SelfFacts, Frame, Moves, Seen, Unmoved, LocalsOK,
    Structure, BackupFree, Named, Backup
<1>5. ClaimHeld(w)' /\ BackupFree(w)' /\ Fresh(w)'
  BY <1>1, <1>2, Types DEF SelfFacts, ClaimHeld, BackupFree, Unmoved, LocalsOK,
    Fresh, Unpublished, OnePlace
<1>6. LocalsOK(w)'
  BY <1>1, <1>2, <1>4, NamedKept DEF SelfFacts, LocalsOK, Fresh, Unpublished,
    BackupFree, Unmoved
<1> QED
  BY <1>3, <1>4, <1>5, <1>6, Others DEF Structure

LEMMA StructurePutBack ==
  ASSUME PackageTypeOK, Structure, NEW w \in Writer, PutBack(w)
  PROVE  Structure'
<1> USE DEF Recovering, Reading, Building, Moved, Verifying, Promoting, Ended,
      Mine, PutBackEffect
<1>1. PutBackEffect(w)
  BY PutBackStep
<1>2. /\ SelfFacts(w) /\ OnePlace /\ ClaimHeld(w) /\ Fresh(w)
      /\ BackupFree(w) /\ LocalsOK(w)
  BY Self DEF Structure
<1>3. OnePlace'
  BY <1>1, <1>2, Types DEF SelfFacts, OnePlace, ClaimHeld, Fresh, Unpublished,
    BackupFree, Unmoved
<1>4. Frame(w)
  BY <1>1, <1>2 DEF SelfFacts, Frame, Moves, Seen, Unmoved, LocalsOK,
    Structure, BackupFree, Named, Backup
<1>5. ClaimHeld(w)' /\ BackupFree(w)' /\ Fresh(w)'
  BY <1>1, <1>2, Types DEF SelfFacts, ClaimHeld, BackupFree, Unmoved, LocalsOK,
    Fresh, Unpublished, OnePlace
<1>6. LocalsOK(w)'
  BY <1>1, <1>2, <1>4, NamedKept DEF SelfFacts, LocalsOK, Fresh, Unpublished,
    BackupFree, Unmoved
<1> QED
  BY <1>3, <1>4, <1>5, <1>6, Others DEF Structure

LEMMA StructureDropBackup ==
  ASSUME PackageTypeOK, Structure, NEW w \in Writer, DropBackup(w)
  PROVE  Structure'
<1> USE DEF Recovering, Reading, Building, Moved, Verifying, Promoting, Ended,
      Mine, DropBackupEffect
<1>1. DropBackupEffect(w)
  BY DropBackupStep
<1>2. /\ SelfFacts(w) /\ OnePlace /\ ClaimHeld(w) /\ Fresh(w)
      /\ BackupFree(w) /\ LocalsOK(w)
  BY Self DEF Structure
<1>3. OnePlace'
  BY <1>1, <1>2, Types DEF SelfFacts, OnePlace, ClaimHeld, Fresh, Unpublished,
    BackupFree, Unmoved
<1>4. Frame(w)
  BY <1>1, <1>2 DEF SelfFacts, Frame, Moves, Seen, Unmoved, LocalsOK,
    Structure, BackupFree, Named, Backup
<1>5. ClaimHeld(w)' /\ BackupFree(w)' /\ Fresh(w)'
  BY <1>1, <1>2, Types DEF SelfFacts, ClaimHeld, BackupFree, Unmoved, LocalsOK,
    Fresh, Unpublished, OnePlace
<1>6. LocalsOK(w)'
  BY <1>1, <1>2, <1>4, NamedKept DEF SelfFacts, LocalsOK, Fresh, Unpublished,
    BackupFree, Unmoved
<1> QED
  BY <1>3, <1>4, <1>5, <1>6, Others DEF Structure

LEMMA StructureDropDone ==
  ASSUME PackageTypeOK, Structure, NEW w \in Writer, DropDone(w)
  PROVE  Structure'
<1> USE DEF Recovering, Reading, Building, Moved, Verifying, Promoting, Ended,
      Mine, DropDoneEffect
<1>1. DropDoneEffect(w)
  BY DropDoneStep
<1>2. /\ SelfFacts(w) /\ OnePlace /\ ClaimHeld(w) /\ Fresh(w)
      /\ BackupFree(w) /\ LocalsOK(w)
  BY Self DEF Structure
<1>3. OnePlace'
  BY <1>1, <1>2, Types DEF SelfFacts, OnePlace, ClaimHeld, Fresh, Unpublished,
    BackupFree, Unmoved
<1>4. Frame(w)
  BY <1>1, <1>2 DEF SelfFacts, Frame, Moves, Seen, Unmoved, LocalsOK,
    Structure, BackupFree, Named, Backup
<1>5. ClaimHeld(w)' /\ BackupFree(w)' /\ Fresh(w)'
  BY <1>1, <1>2, Types DEF SelfFacts, ClaimHeld, BackupFree, Unmoved, LocalsOK,
    Fresh, Unpublished, OnePlace
<1>6. LocalsOK(w)'
  BY <1>1, <1>2, <1>4, NamedKept DEF SelfFacts, LocalsOK, Fresh, Unpublished,
    BackupFree, Unmoved
<1> QED
  BY <1>3, <1>4, <1>5, <1>6, Others DEF Structure

LEMMA StructureCrash ==
  ASSUME PackageTypeOK, Structure, NEW w \in Writer, Crash(w)
  PROVE  Structure'
<1> USE DEF Recovering, Reading, Building, Moved, Verifying, Promoting, Ended,
      Mine, CrashEffect
<1>1. CrashEffect(w)
  BY CrashStep
<1>2. /\ SelfFacts(w) /\ OnePlace /\ ClaimHeld(w) /\ Fresh(w)
      /\ BackupFree(w) /\ LocalsOK(w)
  BY Self DEF Structure
<1>3. OnePlace'
  BY <1>1, <1>2, Types DEF SelfFacts, OnePlace, ClaimHeld, Fresh, Unpublished,
    BackupFree, Unmoved
<1>4. Frame(w)
  BY <1>1, <1>2 DEF SelfFacts, Frame, Moves, Seen, Unmoved, LocalsOK,
    Structure, BackupFree, Named, Backup
<1>5. ClaimHeld(w)' /\ BackupFree(w)' /\ Fresh(w)'
  BY <1>1, <1>2, Types DEF SelfFacts, ClaimHeld, BackupFree, Unmoved, LocalsOK,
    Fresh, Unpublished, OnePlace
<1>6. LocalsOK(w)'
  BY <1>1, <1>2, <1>4, NamedKept DEF SelfFacts, LocalsOK, Fresh, Unpublished,
    BackupFree, Unmoved
<1> QED
  BY <1>3, <1>4, <1>5, <1>6, Others DEF Structure

LEMMA StructureStumble ==
  ASSUME PackageTypeOK, Structure, NEW w \in Writer, Stumble(w)
  PROVE  Structure'
<1> USE DEF Recovering, Reading, Building, Moved, Verifying, Promoting, Ended,
      Mine, StumbleEffect
<1>1. StumbleEffect(w)
  BY StumbleStep
<1>2. /\ SelfFacts(w) /\ OnePlace /\ ClaimHeld(w) /\ Fresh(w)
      /\ BackupFree(w) /\ LocalsOK(w)
  BY Self DEF Structure
<1>3. OnePlace'
  BY <1>1, <1>2, Types DEF SelfFacts, OnePlace, ClaimHeld, Fresh, Unpublished,
    BackupFree, Unmoved
<1>4. Frame(w)
  BY <1>1, <1>2 DEF SelfFacts, Frame, Moves, Seen, Unmoved, LocalsOK,
    Structure, BackupFree, Named, Backup
<1>5. ClaimHeld(w)' /\ BackupFree(w)' /\ Fresh(w)'
  BY <1>1, <1>2, Types DEF SelfFacts, ClaimHeld, BackupFree, Unmoved, LocalsOK,
    Fresh, Unpublished, OnePlace
<1>6. LocalsOK(w)'
  <2>1. \A b \in local'[w].todo : Named(w, b)
    BY <1>1, <1>2, FoundNamed DEF LocalsOK, BackupFree, Unmoved, Found
  <2>2. \A b \in Backup : Named(w, b) => Named(w, b)'
    BY <1>4, NamedKept
  <2>3. local'[w].todo \subseteq Backup
    BY <1>1, <1>2 DEF SelfFacts, Found
  <2>4. \A b \in local'[w].todo : Named(w, b)'
    BY <2>1, <2>2, <2>3
  <2> QED
    BY <1>1, <1>2, <2>2, <2>3, <2>4 DEF SelfFacts, LocalsOK, NoLocals
<1> QED
  BY <1>3, <1>4, <1>5, <1>6, Others DEF Structure

LEMMA StructureStop ==
  ASSUME PackageTypeOK, Structure, NEW w \in Writer,
         UndoFails(w) \/ RollbackFails(w)
  PROVE  Structure'
<1> USE DEF Recovering, Reading, Building, Moved, Verifying, Promoting, Ended,
      Mine, StopEffect
<1>1. StopEffect(w)
  BY StopStep
<1>2. /\ SelfFacts(w) /\ OnePlace /\ ClaimHeld(w) /\ Fresh(w)
      /\ BackupFree(w) /\ LocalsOK(w)
  BY Self DEF Structure
<1>3. OnePlace'
  BY <1>1, <1>2, Types DEF SelfFacts, OnePlace, ClaimHeld, Fresh, Unpublished,
    BackupFree, Unmoved
<1>4. Frame(w)
  BY <1>1, <1>2 DEF SelfFacts, Frame, Moves, Seen, Unmoved, LocalsOK,
    Structure, BackupFree, Named, Backup
<1>5. ClaimHeld(w)' /\ BackupFree(w)' /\ Fresh(w)'
  BY <1>1, <1>2, Types DEF SelfFacts, ClaimHeld, BackupFree, Unmoved, LocalsOK,
    Fresh, Unpublished, OnePlace
<1>6. LocalsOK(w)'
  BY <1>1, <1>2, <1>4, NamedKept DEF SelfFacts, LocalsOK, Fresh, Unpublished,
    BackupFree, Unmoved
<1> QED
  BY <1>3, <1>4, <1>5, <1>6, Others DEF Structure

LEMMA StructureStep ==
  ASSUME PackageTypeOK, Structure, NEW w \in Writer, Step(w)
  PROVE  Structure'
BY StructureStart, StructureListBackups, StructureSeePackage,
  StructureNoteOwner, StructureCheckPackage, StructureChooseBackup,
  StructureRecheck, StructureRestoreBackup, StructureVerifyRestored,
  StructureSweepBackups, StructureClaimPath, StructureRestoreForeign,
  StructureRemoveClaimed, StructureRemovalFails, StructureBuildTree,
  StructureBuildFails, StructureLookForPackage, StructureRecordOwner,
  StructureMoveAway, StructureVerifyBackup, StructurePublish,
  StructureVerifyOwner, StructureVerifyTree, StructureReadFails,
  StructureTidyBackup, StructureTidyFails, StructureTidyDone,
  StructureUndoPublished, StructureTearPackage, StructureRemovePackage,
  StructureChooseUndo, StructurePutBack, StructureDropBackup,
  StructureDropDone, StructureCrash, StructureStumble, StructureStop
  DEF Step, Hampered

-----------------------------------------------------------------------------
(* Ages: trees are built in an order, and only the tree that a call        *)
(* replaces is added to the replaced ones.                                 *)

\* What a step of w does to the ages of the trees and to the replaced ones.
Ages(w) ==
  /\ made' = made /\ whole' \subseteq whole
  /\ superseded' \subseteq superseded \cup {local[w].owner}
  /\ \A v \in Writer \ {w} : pc'[v] = pc[v] /\ local'[v] = local[v]
  /\ pc'[w] \in Recovering \cup {"claimed", "stage"}
       => pc[w] \in Recovering \cup {"claimed", "stage"}
  /\ Unpublished(w)' => Unpublished(w) /\ superseded' = superseded

LEMMA DatedKept ==
  ASSUME Structure, Dated, NEW w \in Writer, Ages(w)
  PROVE  Dated'
<1>1. IsInjective(made)' /\ (whole \subseteq ToSet(made))'
  BY DEF Dated, Ages
<1>2. ASSUME NEW v \in Writer
      PROVE  /\ pc'[v] \in Recovering \cup {"claimed", "stage"}
                  => v \notin ToSet(made)
             /\ Unpublished(v)' => v \notin superseded'
  <2>1. CASE v = w
    BY <2>1 DEF Dated, Ages
  <2>2. CASE v # w
    <3>1. pc'[v] = pc[v] /\ local'[v] = local[v]
      BY <2>2 DEF Ages
    <3>2. Unpublished(v)' <=> Unpublished(v)
      BY <3>1 DEF Unpublished
    <3>3. Unpublished(v) => v \notin superseded /\ local[w].owner # v
      BY DEF Dated, Structure, Fresh
    <3> QED
      BY <3>1, <3>2, <3>3 DEF Dated, Ages
  <2> QED
    BY <2>1, <2>2
<1> QED
  BY <1>1, <1>2 DEF Dated, Ages

LEMMA AgesStart ==
  ASSUME PackageTypeOK, Structure, NEW w \in Writer, Start(w)
  PROVE  Ages(w)
<1> USE DEF Recovering, Reading, Building, Moved, Ended, Verifying, Promoting,
      Mine, StartEffect
<1>1. StartEffect(w)
  BY StartStep
<1>2. made' = made
  BY DEF Start, Paths
<1>3. superseded' = superseded
  BY DEF Start, History
<1>4. LocalsOK(w)
  BY DEF Structure
<1> QED
  BY <1>1, <1>2, <1>3, <1>4 DEF Ages, Unpublished, LocalsOK

LEMMA AgesListBackups ==
  ASSUME PackageTypeOK, Structure, NEW w \in Writer, ListBackups(w)
  PROVE  Ages(w)
<1> USE DEF Recovering, Reading, Building, Moved, Ended, Verifying, Promoting,
      Mine, ListBackupsEffect
<1>1. ListBackupsEffect(w)
  BY ListBackupsStep
<1>2. made' = made
  BY DEF ListBackups, Paths
<1>3. superseded' = superseded
  BY DEF ListBackups, History
<1>4. LocalsOK(w)
  BY DEF Structure
<1> QED
  BY <1>1, <1>2, <1>3, <1>4 DEF Ages, Unpublished, LocalsOK

LEMMA AgesSeePackage ==
  ASSUME PackageTypeOK, Structure, NEW w \in Writer, SeePackage(w)
  PROVE  Ages(w)
<1> USE DEF Recovering, Reading, Building, Moved, Ended, Verifying, Promoting,
      Mine, SeePackageEffect
<1>1. SeePackageEffect(w)
  BY SeePackageStep
<1>2. made' = made
  BY DEF SeePackage, Paths
<1>3. superseded' = superseded
  BY DEF SeePackage, History
<1>4. LocalsOK(w)
  BY DEF Structure
<1> QED
  BY <1>1, <1>2, <1>3, <1>4 DEF Ages, Unpublished, LocalsOK

LEMMA AgesNoteOwner ==
  ASSUME PackageTypeOK, Structure, NEW w \in Writer, NoteOwner(w)
  PROVE  Ages(w)
<1> USE DEF Recovering, Reading, Building, Moved, Ended, Verifying, Promoting,
      Mine, NoteOwnerEffect
<1>1. NoteOwnerEffect(w)
  BY NoteOwnerStep
<1>2. made' = made
  BY DEF NoteOwner, Paths
<1>3. superseded' = superseded
  BY DEF NoteOwner, History
<1>4. LocalsOK(w)
  BY DEF Structure
<1> QED
  BY <1>1, <1>2, <1>3, <1>4 DEF Ages, Unpublished, LocalsOK

LEMMA AgesCheckPackage ==
  ASSUME PackageTypeOK, Structure, NEW w \in Writer, CheckPackage(w)
  PROVE  Ages(w)
<1> USE DEF Recovering, Reading, Building, Moved, Ended, Verifying, Promoting,
      Mine, CheckPackageEffect
<1>1. CheckPackageEffect(w)
  BY CheckPackageStep
<1>2. made' = made
  BY DEF CheckPackage, Paths
<1>3. superseded' = superseded
  BY DEF CheckPackage, History
<1>4. LocalsOK(w)
  BY DEF Structure
<1> QED
  BY <1>1, <1>2, <1>3, <1>4 DEF Ages, Unpublished, LocalsOK

LEMMA AgesChooseBackup ==
  ASSUME PackageTypeOK, Structure, NEW w \in Writer, ChooseBackup(w)
  PROVE  Ages(w)
<1> USE DEF Recovering, Reading, Building, Moved, Ended, Verifying, Promoting,
      Mine, ChooseNoneEffect, ChooseEffect
<1>1. CASE pc'[w] = "stage"
  <2>1. ChooseNoneEffect(w)
    BY <1>1, ChooseNoneStep
  <2>2. made' = made
    BY DEF ChooseBackup, Paths
  <2>3. superseded' = superseded
    BY DEF ChooseBackup, History
  <2>4. LocalsOK(w)
    BY DEF Structure
  <2> QED
    BY <2>1, <2>2, <2>3, <2>4 DEF Ages, Unpublished, LocalsOK
<1>2. CASE pc'[w] # "stage"
  <2>1. ChooseEffect(w)
    BY <1>2, ChooseStep
  <2>2. made' = made
    BY DEF ChooseBackup, Paths
  <2>3. superseded' = superseded
    BY DEF ChooseBackup, History
  <2>4. LocalsOK(w)
    BY DEF Structure
  <2> QED
    BY <2>1, <2>2, <2>3, <2>4 DEF Ages, Unpublished, LocalsOK
<1> QED
  BY <1>1, <1>2

LEMMA AgesRecheck ==
  ASSUME PackageTypeOK, Structure, NEW w \in Writer, Recheck(w)
  PROVE  Ages(w)
<1> USE DEF Recovering, Reading, Building, Moved, Ended, Verifying, Promoting,
      Mine, RecheckNoEffect, RecheckGoneEffect, RecheckYesEffect
<1>1. CASE ~PackageSame(w)
  <2>1. RecheckNoEffect(w)
    BY <1>1, RecheckNoStep
  <2>2. made' = made
    BY DEF Recheck, Paths
  <2>3. superseded' = superseded
    BY DEF Recheck, History
  <2>4. LocalsOK(w)
    BY DEF Structure
  <2> QED
    BY <2>1, <2>2, <2>3, <2>4 DEF Ages, Unpublished, LocalsOK
<1>2. CASE PackageSame(w) /\ backup[local[w].pick] = NoTree
  <2>1. RecheckGoneEffect(w)
    BY <1>2, RecheckGoneStep
  <2>2. made' = made
    BY DEF Recheck, Paths
  <2>3. superseded' = superseded
    BY DEF Recheck, History
  <2>4. LocalsOK(w)
    BY DEF Structure
  <2> QED
    BY <2>1, <2>2, <2>3, <2>4 DEF Ages, Unpublished, LocalsOK
<1>3. CASE PackageSame(w) /\ backup[local[w].pick] # NoTree
  <2>1. RecheckYesEffect(w)
    BY <1>3, RecheckYesStep
  <2>2. made' = made
    BY DEF Recheck, Paths
  <2>3. superseded' = superseded
    BY DEF Recheck, History
  <2>4. LocalsOK(w)
    BY DEF Structure
  <2> QED
    BY <2>1, <2>2, <2>3, <2>4 DEF Ages, Unpublished, LocalsOK
<1> QED
  BY <1>1, <1>2, <1>3

LEMMA AgesRestoreBackup ==
  ASSUME PackageTypeOK, Structure, NEW w \in Writer, RestoreBackup(w)
  PROVE  Ages(w)
<1> USE DEF Recovering, Reading, Building, Moved, Ended, Verifying, Promoting,
      Mine, RestoreYesEffect, RestoreNoEffect
<1>1. CASE package = NoTree /\ backup[local[w].pick] # NoTree
  <2>1. RestoreYesEffect(w)
    BY <1>1, RestoreYesStep
  <2>2. made' = made
    BY DEF RestoreBackup, Paths
  <2>3. superseded' = superseded
    BY DEF RestoreBackup, History
  <2>4. LocalsOK(w)
    BY DEF Structure
  <2> QED
    BY <2>1, <2>2, <2>3, <2>4 DEF Ages, Unpublished, LocalsOK
<1>2. CASE ~(package = NoTree /\ backup[local[w].pick] # NoTree)
  <2>1. RestoreNoEffect(w)
    BY <1>2, RestoreNoStep
  <2>2. made' = made
    BY DEF RestoreBackup, Paths
  <2>3. superseded' = superseded
    BY DEF RestoreBackup, History
  <2>4. LocalsOK(w)
    BY DEF Structure
  <2> QED
    BY <2>1, <2>2, <2>3, <2>4 DEF Ages, Unpublished, LocalsOK
<1> QED
  BY <1>1, <1>2

LEMMA AgesVerifyRestored ==
  ASSUME PackageTypeOK, Structure, NEW w \in Writer, VerifyRestored(w)
  PROVE  Ages(w)
<1> USE DEF Recovering, Reading, Building, Moved, Ended, Verifying, Promoting,
      Mine, VerifyRestoredEffect
<1>1. VerifyRestoredEffect(w)
  BY VerifyRestoredStep
<1>2. made' = made
  BY DEF VerifyRestored, Paths
<1>3. superseded' = superseded
  BY DEF VerifyRestored, History
<1>4. LocalsOK(w)
  BY DEF Structure
<1> QED
  BY <1>1, <1>2, <1>3, <1>4 DEF Ages, Unpublished, LocalsOK

LEMMA AgesSweepBackups ==
  ASSUME PackageTypeOK, Structure, NEW w \in Writer, SweepBackups(w)
  PROVE  Ages(w)
<1> USE DEF Recovering, Reading, Building, Moved, Ended, Verifying, Promoting,
      Mine, SweepEndEffect, SweepEffect
<1>1. CASE pc'[w] = "stage"
  <2>1. SweepEndEffect(w)
    BY <1>1, SweepEndStep
  <2>2. made' = made
    BY DEF SweepBackups, Paths
  <2>3. superseded' = superseded
    BY DEF SweepBackups, History
  <2>4. LocalsOK(w)
    BY DEF Structure
  <2> QED
    BY <2>1, <2>2, <2>3, <2>4 DEF Ages, Unpublished, LocalsOK
<1>2. CASE pc'[w] # "stage"
  <2>1. SweepEffect(w)
    BY <1>2, SweepStep
  <2>2. made' = made
    BY DEF SweepBackups, Paths
  <2>3. superseded' = superseded
    BY DEF SweepBackups, History
  <2>4. LocalsOK(w)
    BY DEF Structure
  <2> QED
    BY <2>1, <2>2, <2>3, <2>4 DEF Ages, Unpublished, LocalsOK
<1> QED
  BY <1>1, <1>2

LEMMA AgesClaimPath ==
  ASSUME PackageTypeOK, Structure, NEW w \in Writer, ClaimPath(w)
  PROVE  Ages(w)
<1> USE DEF Recovering, Reading, Building, Moved, Ended, Verifying, Promoting,
      Mine, ClaimNoneEffect, ClaimPathEffect, ClaimNoneOtherEffect,
      ClaimPathOtherEffect
<1>1. CASE Mine(w) /\ package = NoTree
  <2>1. ClaimNoneEffect(w)
    BY <1>1, ClaimNoneStep
  <2>2. made' = made
    BY DEF ClaimPath, Paths
  <2>3. superseded' = superseded
    BY DEF ClaimPath, History
  <2>4. LocalsOK(w)
    BY DEF Structure
  <2> QED
    BY <2>1, <2>2, <2>3, <2>4 DEF Ages, Unpublished, LocalsOK
<1>2. CASE Mine(w) /\ package # NoTree
  <2>1. ClaimPathEffect(w)
    BY <1>2, ClaimPathStep
  <2>2. made' = made
    BY DEF ClaimPath, Paths
  <2>3. superseded' = superseded
    BY DEF ClaimPath, History
  <2>4. LocalsOK(w)
    BY DEF Structure
  <2> QED
    BY <2>1, <2>2, <2>3, <2>4 DEF Ages, Unpublished, LocalsOK
<1>3. CASE ~Mine(w) /\ backup[local[w].target] = NoTree
  <2>1. ClaimNoneOtherEffect(w)
    BY <1>3, ClaimNoneOtherStep
  <2>2. made' = made
    BY DEF ClaimPath, Paths
  <2>3. superseded' = superseded
    BY DEF ClaimPath, History
  <2>4. LocalsOK(w)
    BY DEF Structure
  <2> QED
    BY <2>1, <2>2, <2>3, <2>4 DEF Ages, Unpublished, LocalsOK
<1>4. CASE ~Mine(w) /\ backup[local[w].target] # NoTree
  <2>1. ClaimPathOtherEffect(w)
    BY <1>4, ClaimPathOtherStep
  <2>2. made' = made
    BY DEF ClaimPath, Paths
  <2>3. superseded' = superseded
    BY DEF ClaimPath, History
  <2>4. LocalsOK(w)
    BY DEF Structure
  <2> QED
    BY <2>1, <2>2, <2>3, <2>4 DEF Ages, Unpublished, LocalsOK
<1> QED
  BY <1>1, <1>2, <1>3, <1>4

LEMMA AgesRestoreForeign ==
  ASSUME PackageTypeOK, Structure, NEW w \in Writer, RestoreForeign(w)
  PROVE  Ages(w)
<1> USE DEF Recovering, Reading, Building, Moved, Ended, Verifying, Promoting,
      Mine, RestoreForeignEffect, RestoreForeignOtherEffect
<1>1. CASE Mine(w)
  <2>1. RestoreForeignEffect(w)
    BY <1>1, RestoreForeignStep
  <2>2. made' = made
    BY DEF RestoreForeign, Paths
  <2>3. superseded' = superseded
    BY DEF RestoreForeign, History
  <2>4. LocalsOK(w)
    BY DEF Structure
  <2> QED
    BY <2>1, <2>2, <2>3, <2>4 DEF Ages, Unpublished, LocalsOK
<1>2. CASE ~Mine(w)
  <2>1. RestoreForeignOtherEffect(w)
    BY <1>2, RestoreForeignOtherStep
  <2>2. made' = made
    BY DEF RestoreForeign, Paths
  <2>3. superseded' = superseded
    BY DEF RestoreForeign, History
  <2>4. LocalsOK(w)
    BY DEF Structure
  <2> QED
    BY <2>1, <2>2, <2>3, <2>4 DEF Ages, Unpublished, LocalsOK
<1> QED
  BY <1>1, <1>2

LEMMA AgesRemoveClaimed ==
  ASSUME PackageTypeOK, Structure, NEW w \in Writer, RemoveClaimed(w)
  PROVE  Ages(w)
<1> USE DEF Recovering, Reading, Building, Moved, Ended, Verifying, Promoting,
      Mine, RemoveClaimedEffect, RemoveClaimedOtherEffect
<1>1. CASE Mine(w)
  <2>1. RemoveClaimedEffect(w)
    BY <1>1, RemoveClaimedStep
  <2>2. made' = made
    BY DEF RemoveClaimed, Paths
  <2>3. superseded' = superseded
    BY DEF RemoveClaimed, History
  <2>4. LocalsOK(w)
    BY DEF Structure
  <2> QED
    BY <2>1, <2>2, <2>3, <2>4 DEF Ages, Unpublished, LocalsOK
<1>2. CASE ~Mine(w)
  <2>1. RemoveClaimedOtherEffect(w)
    BY <1>2, RemoveClaimedOtherStep
  <2>2. made' = made
    BY DEF RemoveClaimed, Paths
  <2>3. superseded' = superseded
    BY DEF RemoveClaimed, History
  <2>4. LocalsOK(w)
    BY DEF Structure
  <2> QED
    BY <2>1, <2>2, <2>3, <2>4 DEF Ages, Unpublished, LocalsOK
<1> QED
  BY <1>1, <1>2

LEMMA AgesRemovalFails ==
  ASSUME PackageTypeOK, Structure, NEW w \in Writer, RemovalFails(w)
  PROVE  Ages(w)
<1> USE DEF Recovering, Reading, Building, Moved, Ended, Verifying, Promoting,
      Mine, RemovalFailsEffect, RemovalFailsOtherEffect
<1>1. CASE Mine(w)
  <2>1. RemovalFailsEffect(w)
    BY <1>1, RemovalFailsStep
  <2>2. made' = made
    BY DEF RemovalFails, Paths
  <2>3. superseded' = superseded
    BY DEF RemovalFails, History
  <2>4. LocalsOK(w)
    BY DEF Structure
  <2> QED
    BY <2>1, <2>2, <2>3, <2>4 DEF Ages, Unpublished, LocalsOK
<1>2. CASE ~Mine(w)
  <2>1. RemovalFailsOtherEffect(w)
    BY <1>2, RemovalFailsOtherStep
  <2>2. made' = made
    BY DEF RemovalFails, Paths
  <2>3. superseded' = superseded
    BY DEF RemovalFails, History
  <2>4. LocalsOK(w)
    BY DEF Structure
  <2> QED
    BY <2>1, <2>2, <2>3, <2>4 DEF Ages, Unpublished, LocalsOK
<1> QED
  BY <1>1, <1>2

LEMMA DatedBuildTree ==
  ASSUME PackageTypeOK, Structure, Dated, NEW w \in Writer, BuildTree(w)
  PROVE  Dated'
<1>1. BuildTreeEffect(w) /\ made' = Append(made, w) /\ superseded' = superseded
  BY BuildTreeStep DEF BuildTree, History
<1>2. /\ made \in Seq(Tree) /\ w \in Tree /\ w \notin ToSet(made)
      /\ IsInjective(made)
  BY <1>1 DEF PackageTypeOK, Tree, Dated, BuildTreeEffect
<1>3. IsInjective(made)'
  <2> SUFFICES ASSUME NEW i \in DOMAIN made', NEW j \in DOMAIN made',
                      made'[i] = made'[j]
               PROVE  i = j
    BY DEF IsInjective
  <2>1. /\ Len(made') = Len(made) + 1 /\ made'[Len(made) + 1] = w
        /\ \A k \in 1..Len(made) : made'[k] = made[k] /\ made[k] # w
        /\ DOMAIN made' = 1..(Len(made) + 1) /\ DOMAIN made = 1..Len(made)
    BY <1>1, <1>2 DEF ToSet
  <2> QED
    BY <1>2, <2>1 DEF IsInjective
<1>4. ToSet(made)' = ToSet(made) \cup {w}
  <2>1. /\ made'[Len(made) + 1] = w
        /\ \A k \in 1..Len(made) : made'[k] = made[k]
        /\ DOMAIN made' = 1..(Len(made) + 1) /\ DOMAIN made = 1..Len(made)
    BY <1>1, <1>2
  <2> QED
    BY <1>2, <2>1 DEF ToSet
<1>5. (whole \subseteq ToSet(made))'
  BY <1>1, <1>4 DEF BuildTreeEffect, Dated
<1>6. ASSUME NEW v \in Writer
      PROVE  /\ pc'[v] \in Recovering \cup {"claimed", "stage"}
                  => v \notin ToSet(made)'
             /\ Unpublished(v)' => v \notin superseded'
  BY <1>1, <1>4 DEF BuildTreeEffect, Dated, Unpublished, Recovering, Reading,
    Building, Moved
<1> QED
  BY <1>3, <1>5, <1>6 DEF Dated

LEMMA AgesBuildFails ==
  ASSUME PackageTypeOK, Structure, NEW w \in Writer, BuildFails(w)
  PROVE  Ages(w)
<1> USE DEF Recovering, Reading, Building, Moved, Ended, Verifying, Promoting,
      Mine, BuildFailsEffect
<1>1. BuildFailsEffect(w)
  BY BuildFailsStep
<1>2. made' = made
  BY DEF BuildFails, Paths
<1>3. superseded' = superseded
  BY DEF BuildFails, History
<1>4. LocalsOK(w)
  BY DEF Structure
<1> QED
  BY <1>1, <1>2, <1>3, <1>4 DEF Ages, Unpublished, LocalsOK

LEMMA AgesLookForPackage ==
  ASSUME PackageTypeOK, Structure, NEW w \in Writer, LookForPackage(w)
  PROVE  Ages(w)
<1> USE DEF Recovering, Reading, Building, Moved, Ended, Verifying, Promoting,
      Mine, LookForPackageEffect
<1>1. LookForPackageEffect(w)
  BY LookForPackageStep
<1>2. made' = made
  BY DEF LookForPackage, Paths
<1>3. superseded' = superseded
  BY DEF LookForPackage, History
<1>4. LocalsOK(w)
  BY DEF Structure
<1> QED
  BY <1>1, <1>2, <1>3, <1>4 DEF Ages, Unpublished, LocalsOK

LEMMA AgesRecordOwner ==
  ASSUME PackageTypeOK, Structure, NEW w \in Writer, RecordOwner(w)
  PROVE  Ages(w)
<1> USE DEF Recovering, Reading, Building, Moved, Ended, Verifying, Promoting,
      Mine, RecordOwnerEffect
<1>1. RecordOwnerEffect(w)
  BY RecordOwnerStep
<1>2. made' = made
  BY DEF RecordOwner, Paths
<1>3. superseded' = superseded
  BY DEF RecordOwner, History
<1>4. LocalsOK(w)
  BY DEF Structure
<1> QED
  BY <1>1, <1>2, <1>3, <1>4 DEF Ages, Unpublished, LocalsOK

LEMMA AgesMoveAway ==
  ASSUME PackageTypeOK, Structure, NEW w \in Writer, MoveAway(w)
  PROVE  Ages(w)
<1> USE DEF Recovering, Reading, Building, Moved, Ended, Verifying, Promoting,
      Mine, MoveAwayEffect
<1>1. MoveAwayEffect(w)
  BY MoveAwayStep
<1>2. made' = made
  BY DEF MoveAway, Paths
<1>3. superseded' = superseded
  BY DEF MoveAway, History
<1>4. LocalsOK(w)
  BY DEF Structure
<1> QED
  BY <1>1, <1>2, <1>3, <1>4 DEF Ages, Unpublished, LocalsOK

LEMMA AgesVerifyBackup ==
  ASSUME PackageTypeOK, Structure, NEW w \in Writer, VerifyBackup(w)
  PROVE  Ages(w)
<1> USE DEF Recovering, Reading, Building, Moved, Ended, Verifying, Promoting,
      Mine, VerifyBackupEffect
<1>1. VerifyBackupEffect(w)
  BY VerifyBackupStep
<1>2. made' = made
  BY DEF VerifyBackup, Paths
<1>3. superseded' = superseded
  BY DEF VerifyBackup, History
<1>4. LocalsOK(w)
  BY DEF Structure
<1> QED
  BY <1>1, <1>2, <1>3, <1>4 DEF Ages, Unpublished, LocalsOK

LEMMA AgesPublish ==
  ASSUME PackageTypeOK, Structure, NEW w \in Writer, Publish(w)
  PROVE  Ages(w)
<1> USE DEF Recovering, Reading, Building, Moved, Ended, Verifying, Promoting,
      Mine, PublishEffect
<1>1. PublishEffect(w)
  BY PublishStep
<1>2. made' = made
  BY DEF Publish, Paths
<1>3. superseded' = superseded
  BY DEF Publish, History
<1>4. LocalsOK(w)
  BY DEF Structure
<1> QED
  BY <1>1, <1>2, <1>3, <1>4 DEF Ages, Unpublished, LocalsOK

LEMMA AgesVerifyOwner ==
  ASSUME PackageTypeOK, Structure, NEW w \in Writer, VerifyOwner(w)
  PROVE  Ages(w)
<1> USE DEF Recovering, Reading, Building, Moved, Ended, Verifying, Promoting,
      Mine, VerifyOwnerEffect
<1>1. VerifyOwnerEffect(w)
  BY VerifyOwnerStep
<1>2. made' = made
  BY DEF VerifyOwner, Paths
<1>3. superseded' = superseded
  BY DEF VerifyOwner, History
<1>4. LocalsOK(w)
  BY DEF Structure
<1> QED
  BY <1>1, <1>2, <1>3, <1>4 DEF Ages, Unpublished, LocalsOK

LEMMA AgesVerifyTree ==
  ASSUME PackageTypeOK, Structure, NEW w \in Writer, VerifyTree(w)
  PROVE  Ages(w)
<1> USE DEF Recovering, Reading, Building, Moved, Ended, Verifying, Promoting,
      Mine, VerifyTreeEffect
<1>1. VerifyTreeEffect(w)
  BY VerifyTreeStep
<1>2. made' = made
  BY DEF VerifyTree, Paths
<1>3. superseded' = superseded
  BY DEF VerifyTree, History
<1>4. LocalsOK(w)
  BY DEF Structure
<1> QED
  BY <1>1, <1>2, <1>3, <1>4 DEF Ages, Unpublished, LocalsOK

LEMMA AgesReadFails ==
  ASSUME PackageTypeOK, Structure, NEW w \in Writer, ReadFails(w)
  PROVE  Ages(w)
<1> USE DEF Recovering, Reading, Building, Moved, Ended, Verifying, Promoting,
      Mine, ReadFailsEffect
<1>1. ReadFailsEffect(w)
  BY ReadFailsStep
<1>2. made' = made
  BY DEF ReadFails, Paths
<1>3. superseded' = superseded
  BY DEF ReadFails, History
<1>4. LocalsOK(w)
  BY DEF Structure
<1> QED
  BY <1>1, <1>2, <1>3, <1>4 DEF Ages, Unpublished, LocalsOK

LEMMA AgesTidyBackup ==
  ASSUME PackageTypeOK, Structure, NEW w \in Writer, TidyBackup(w)
  PROVE  Ages(w)
<1> USE DEF Recovering, Reading, Building, Moved, Ended, Verifying, Promoting,
      Mine, TidyBackupEffect
<1>1. TidyBackupEffect(w)
  BY TidyBackupStep
<1>2. made' = made
  BY DEF TidyBackup, Paths
<1>3. superseded' \subseteq superseded \cup {local[w].owner}
  BY DEF TidyBackup, Replaced
<1>4. LocalsOK(w)
  BY DEF Structure
<1> QED
  BY <1>1, <1>2, <1>3, <1>4 DEF Ages, Unpublished, LocalsOK

LEMMA AgesTidyFails ==
  ASSUME PackageTypeOK, Structure, NEW w \in Writer, TidyFails(w)
  PROVE  Ages(w)
<1> USE DEF Recovering, Reading, Building, Moved, Ended, Verifying, Promoting,
      Mine, TidyFailsEffect
<1>1. TidyFailsEffect(w)
  BY TidyFailsStep
<1>2. made' = made
  BY DEF TidyFails, Paths
<1>3. superseded' \subseteq superseded \cup {local[w].owner}
  BY DEF TidyFails, Replaced
<1>4. LocalsOK(w)
  BY DEF Structure
<1> QED
  BY <1>1, <1>2, <1>3, <1>4 DEF Ages, Unpublished, LocalsOK

LEMMA AgesTidyDone ==
  ASSUME PackageTypeOK, Structure, NEW w \in Writer, TidyDone(w)
  PROVE  Ages(w)
<1> USE DEF Recovering, Reading, Building, Moved, Ended, Verifying, Promoting,
      Mine, TidyDoneEffect
<1>1. TidyDoneEffect(w)
  BY TidyDoneStep
<1>2. made' = made
  BY DEF TidyDone, Paths
<1>3. superseded' \subseteq superseded \cup {local[w].owner}
  BY DEF TidyDone, Replaced
<1>4. LocalsOK(w)
  BY DEF Structure
<1> QED
  BY <1>1, <1>2, <1>3, <1>4 DEF Ages, Unpublished, LocalsOK

LEMMA AgesUndoPublished ==
  ASSUME PackageTypeOK, Structure, NEW w \in Writer, UndoPublished(w)
  PROVE  Ages(w)
<1> USE DEF Recovering, Reading, Building, Moved, Ended, Verifying, Promoting,
      Mine, UndoPublishedEffect
<1>1. UndoPublishedEffect(w)
  BY UndoPublishedStep
<1>2. made' = made
  BY DEF UndoPublished, Paths
<1>3. superseded' = superseded
  BY DEF UndoPublished, History
<1>4. LocalsOK(w)
  BY DEF Structure
<1> QED
  BY <1>1, <1>2, <1>3, <1>4 DEF Ages, Unpublished, LocalsOK

LEMMA AgesTearPackage ==
  ASSUME PackageTypeOK, Structure, NEW w \in Writer, TearPackage(w)
  PROVE  Ages(w)
<1> USE DEF Recovering, Reading, Building, Moved, Ended, Verifying, Promoting,
      Mine, TearPackageEffect
<1>1. TearPackageEffect(w)
  BY TearPackageStep
<1>2. made' = made
  BY DEF TearPackage, Paths
<1>3. superseded' = superseded
  BY DEF TearPackage, History
<1>4. LocalsOK(w)
  BY DEF Structure
<1> QED
  BY <1>1, <1>2, <1>3, <1>4 DEF Ages, Unpublished, LocalsOK

LEMMA AgesRemovePackage ==
  ASSUME PackageTypeOK, Structure, NEW w \in Writer, RemovePackage(w)
  PROVE  Ages(w)
<1> USE DEF Recovering, Reading, Building, Moved, Ended, Verifying, Promoting,
      Mine, RemovePackageEffect
<1>1. RemovePackageEffect(w)
  BY RemovePackageStep
<1>2. made' = made
  BY DEF RemovePackage, Paths
<1>3. superseded' = superseded
  BY DEF RemovePackage, History
<1>4. LocalsOK(w)
  BY DEF Structure
<1> QED
  BY <1>1, <1>2, <1>3, <1>4 DEF Ages, Unpublished, LocalsOK

LEMMA AgesChooseUndo ==
  ASSUME PackageTypeOK, Structure, NEW w \in Writer, ChooseUndo(w)
  PROVE  Ages(w)
<1> USE DEF Recovering, Reading, Building, Moved, Ended, Verifying, Promoting,
      Mine, ChooseUndoEffect
<1>1. ChooseUndoEffect(w)
  BY ChooseUndoStep
<1>2. made' = made
  BY DEF ChooseUndo, Paths
<1>3. superseded' = superseded
  BY DEF ChooseUndo, History
<1>4. LocalsOK(w)
  BY DEF Structure
<1> QED
  BY <1>1, <1>2, <1>3, <1>4 DEF Ages, Unpublished, LocalsOK

LEMMA AgesPutBack ==
  ASSUME PackageTypeOK, Structure, NEW w \in Writer, PutBack(w)
  PROVE  Ages(w)
<1> USE DEF Recovering, Reading, Building, Moved, Ended, Verifying, Promoting,
      Mine, PutBackEffect
<1>1. PutBackEffect(w)
  BY PutBackStep
<1>2. made' = made
  BY DEF PutBack, Paths
<1>3. superseded' = superseded
  BY DEF PutBack, History
<1>4. LocalsOK(w)
  BY DEF Structure
<1> QED
  BY <1>1, <1>2, <1>3, <1>4 DEF Ages, Unpublished, LocalsOK

LEMMA AgesDropBackup ==
  ASSUME PackageTypeOK, Structure, NEW w \in Writer, DropBackup(w)
  PROVE  Ages(w)
<1> USE DEF Recovering, Reading, Building, Moved, Ended, Verifying, Promoting,
      Mine, DropBackupEffect
<1>1. DropBackupEffect(w)
  BY DropBackupStep
<1>2. made' = made
  BY DEF DropBackup, Paths
<1>3. superseded' = superseded
  BY DEF DropBackup, History
<1>4. LocalsOK(w)
  BY DEF Structure
<1> QED
  BY <1>1, <1>2, <1>3, <1>4 DEF Ages, Unpublished, LocalsOK

LEMMA AgesDropDone ==
  ASSUME PackageTypeOK, Structure, NEW w \in Writer, DropDone(w)
  PROVE  Ages(w)
<1> USE DEF Recovering, Reading, Building, Moved, Ended, Verifying, Promoting,
      Mine, DropDoneEffect
<1>1. DropDoneEffect(w)
  BY DropDoneStep
<1>2. made' = made
  BY DEF DropDone, Paths
<1>3. superseded' = superseded
  BY DEF DropDone, History
<1>4. LocalsOK(w)
  BY DEF Structure
<1> QED
  BY <1>1, <1>2, <1>3, <1>4 DEF Ages, Unpublished, LocalsOK

LEMMA AgesCrash ==
  ASSUME PackageTypeOK, Structure, NEW w \in Writer, Crash(w)
  PROVE  Ages(w)
<1> USE DEF Recovering, Reading, Building, Moved, Ended, Verifying, Promoting,
      Mine, CrashEffect
<1>1. CrashEffect(w)
  BY CrashStep
<1>2. made' = made
  BY DEF Crash, Paths
<1>3. superseded' = superseded
  BY DEF Crash, History
<1>4. LocalsOK(w)
  BY DEF Structure
<1> QED
  BY <1>1, <1>2, <1>3, <1>4 DEF Ages, Unpublished, LocalsOK

LEMMA AgesHampered ==
  ASSUME PackageTypeOK, Structure, NEW w \in Writer, Hampered(w)
  PROVE  Ages(w)
<1> USE DEF Recovering, Reading, Building, Moved, Ended, Verifying, Promoting,
      Mine, StumbleEffect, StopEffect
<1>1. StumbleEffect(w) \/ StopEffect(w)
  BY StumbleStep, StopStep DEF Hampered
<1>2. made' = made /\ superseded' = superseded
  BY DEF Hampered, Stumble, MisreadList, MisreadPackage, MisreadBackup,
    MisreadMoved, RecoveryFails, UndoFails, RollbackFails, Hinders, Paths
<1>3. LocalsOK(w)
  BY DEF Structure
<1>4. \A v \in Writer \ {w} : pc'[v] = pc[v] /\ local'[v] = local[v]
  BY <1>1
<1> QED
  BY <1>1, <1>2, <1>3, <1>4 DEF Ages, Unpublished, LocalsOK

LEMMA DatedStep ==
  ASSUME PackageTypeOK, Structure, Dated, NEW w \in Writer, Step(w)
  PROVE  Dated'
<1>1. CASE BuildTree(w)
  BY <1>1, DatedBuildTree
<1>2. CASE ~BuildTree(w)
  <2>1. Ages(w)
    BY <1>2, AgesStart, AgesListBackups, AgesSeePackage, AgesNoteOwner,
      AgesCheckPackage, AgesChooseBackup, AgesRecheck, AgesRestoreBackup,
      AgesVerifyRestored, AgesSweepBackups, AgesClaimPath, AgesRestoreForeign,
      AgesRemoveClaimed, AgesRemovalFails, AgesBuildFails, AgesLookForPackage,
      AgesRecordOwner, AgesMoveAway, AgesVerifyBackup, AgesPublish,
      AgesVerifyOwner, AgesVerifyTree, AgesReadFails, AgesTidyBackup,
      AgesTidyFails, AgesTidyDone, AgesUndoPublished, AgesTearPackage,
      AgesRemovePackage, AgesChooseUndo, AgesPutBack, AgesDropBackup,
      AgesDropDone, AgesCrash, AgesHampered DEF Step
  <2> QED
    BY <2>1, DatedKept
<1> QED
  BY <1>1, <1>2

-----------------------------------------------------------------------------
(* A call by itself, step by step: it keeps knowing what it saw.  After a  *)
(* removal that fails it may end, beside what it put back.                 *)

LEMMA SoloStart ==
  ASSUME PackageTypeOK, Structure, NEW w \in Writer, Solo(w), Start(w)
  PROVE  Solo(w)'
<1> USE DEF Recovering, Reading, Building, Moved, Verifying, Promoting, Ended,
      Mine, Held, SoloLooks, SoloRestores, SoloSweeps, SoloPromotes,
      StartEffect
<1>1. StartEffect(w)
  BY StartStep
<1>2. /\ SelfFacts(w) /\ OnePlace /\ ClaimHeld(w) /\ BackupFree(w)
      /\ LocalsOK(w)
  BY Self DEF Structure
<1>3. /\ Held /\ SoloLooks(w) /\ SoloRestores(w) /\ SoloSweeps(w)
      /\ SoloPromotes(w)
  BY DEF Solo
<1>4. Held' /\ SoloLooks(w)' /\ SoloRestores(w)'
  BY <1>1, <1>2, <1>3 DEF SelfFacts, OnePlace, ClaimHeld, BackupFree, Unmoved,
    LocalsOK, Found
<1>5. SoloSweeps(w)' /\ SoloPromotes(w)'
  BY <1>1, <1>2, <1>3 DEF SelfFacts, OnePlace, ClaimHeld, BackupFree, Unmoved,
    LocalsOK, Found
<1> QED
  BY <1>4, <1>5 DEF Solo

LEMMA SoloListBackups ==
  ASSUME PackageTypeOK, Structure, NEW w \in Writer, Solo(w), ListBackups(w)
  PROVE  Solo(w)'
<1> USE DEF Recovering, Reading, Building, Moved, Verifying, Promoting, Ended,
      Mine, Held, SoloLooks, SoloRestores, SoloSweeps, SoloPromotes,
      ListBackupsEffect
<1>1. ListBackupsEffect(w)
  BY ListBackupsStep
<1>2. /\ SelfFacts(w) /\ OnePlace /\ ClaimHeld(w) /\ BackupFree(w)
      /\ LocalsOK(w)
  BY Self DEF Structure
<1>3. /\ Held /\ SoloLooks(w) /\ SoloRestores(w) /\ SoloSweeps(w)
      /\ SoloPromotes(w)
  BY DEF Solo
<1>4. Held' /\ SoloLooks(w)' /\ SoloRestores(w)'
  BY <1>1, <1>2, <1>3 DEF SelfFacts, OnePlace, ClaimHeld, BackupFree, Unmoved,
    LocalsOK, Found
<1>5. SoloSweeps(w)' /\ SoloPromotes(w)'
  BY <1>1, <1>2, <1>3 DEF SelfFacts, OnePlace, ClaimHeld, BackupFree, Unmoved,
    LocalsOK, Found
<1> QED
  BY <1>4, <1>5 DEF Solo

LEMMA SoloSeePackage ==
  ASSUME PackageTypeOK, Structure, NEW w \in Writer, Solo(w), SeePackage(w)
  PROVE  Solo(w)'
<1> USE DEF Recovering, Reading, Building, Moved, Verifying, Promoting, Ended,
      Mine, Held, SoloLooks, SoloRestores, SoloSweeps, SoloPromotes,
      SeePackageEffect
<1>1. SeePackageEffect(w)
  BY SeePackageStep
<1>2. /\ SelfFacts(w) /\ OnePlace /\ ClaimHeld(w) /\ BackupFree(w)
      /\ LocalsOK(w)
  BY Self DEF Structure
<1>3. /\ Held /\ SoloLooks(w) /\ SoloRestores(w) /\ SoloSweeps(w)
      /\ SoloPromotes(w)
  BY DEF Solo
<1>4. Held' /\ SoloLooks(w)' /\ SoloRestores(w)'
  <2>1. Held'
    BY <1>1, <1>2, <1>3 DEF SelfFacts, OnePlace, ClaimHeld, BackupFree,
      Unmoved, LocalsOK, Found
  <2>2. SoloLooks(w)'
    BY <1>1, <1>2, <1>3 DEF SelfFacts, OnePlace, ClaimHeld, BackupFree,
      Unmoved, LocalsOK, Found
  <2>3. SoloRestores(w)'
    BY <1>1, <1>2, <1>3 DEF SelfFacts, OnePlace, ClaimHeld, BackupFree,
      Unmoved, LocalsOK, Found
  <2> QED
    BY <2>1, <2>2, <2>3
<1>5. SoloSweeps(w)' /\ SoloPromotes(w)'
  BY <1>1, <1>2, <1>3 DEF SelfFacts, OnePlace, ClaimHeld, BackupFree, Unmoved,
    LocalsOK, Found
<1> QED
  BY <1>4, <1>5 DEF Solo

LEMMA SoloNoteOwner ==
  ASSUME PackageTypeOK, Structure, NEW w \in Writer, Solo(w), NoteOwner(w)
  PROVE  Solo(w)'
<1> USE DEF Recovering, Reading, Building, Moved, Verifying, Promoting, Ended,
      Mine, Held, SoloLooks, SoloRestores, SoloSweeps, SoloPromotes,
      NoteOwnerEffect
<1>1. NoteOwnerEffect(w)
  BY NoteOwnerStep
<1>2. /\ SelfFacts(w) /\ OnePlace /\ ClaimHeld(w) /\ BackupFree(w)
      /\ LocalsOK(w)
  BY Self DEF Structure
<1>3. /\ Held /\ SoloLooks(w) /\ SoloRestores(w) /\ SoloSweeps(w)
      /\ SoloPromotes(w)
  BY DEF Solo
<1>4. Held' /\ SoloLooks(w)' /\ SoloRestores(w)'
  BY <1>1, <1>2, <1>3 DEF SelfFacts, OnePlace, ClaimHeld, BackupFree, Unmoved,
    LocalsOK, Found
<1>5. SoloSweeps(w)' /\ SoloPromotes(w)'
  BY <1>1, <1>2, <1>3 DEF SelfFacts, OnePlace, ClaimHeld, BackupFree, Unmoved,
    LocalsOK, Found
<1> QED
  BY <1>4, <1>5 DEF Solo

LEMMA SoloCheckPackage ==
  ASSUME PackageTypeOK, Structure, NEW w \in Writer, Solo(w), CheckPackage(w)
  PROVE  Solo(w)'
<1> USE DEF Recovering, Reading, Building, Moved, Verifying, Promoting, Ended,
      Mine, Held, SoloLooks, SoloRestores, SoloSweeps, SoloPromotes,
      CheckPackageEffect
<1>1. CheckPackageEffect(w)
  BY CheckPackageStep
<1>2. /\ SelfFacts(w) /\ OnePlace /\ ClaimHeld(w) /\ BackupFree(w)
      /\ LocalsOK(w)
  BY Self DEF Structure
<1>3. /\ Held /\ SoloLooks(w) /\ SoloRestores(w) /\ SoloSweeps(w)
      /\ SoloPromotes(w)
  BY DEF Solo
<1>4. Held' /\ SoloLooks(w)' /\ SoloRestores(w)'
  BY <1>1, <1>2, <1>3 DEF SelfFacts, OnePlace, ClaimHeld, BackupFree, Unmoved,
    LocalsOK, Found
<1>5. SoloSweeps(w)' /\ SoloPromotes(w)'
  BY <1>1, <1>2, <1>3 DEF SelfFacts, OnePlace, ClaimHeld, BackupFree, Unmoved,
    LocalsOK, Found
<1> QED
  BY <1>4, <1>5 DEF Solo

LEMMA SoloChooseBackup ==
  ASSUME PackageTypeOK, Structure, NEW w \in Writer, Solo(w), ChooseBackup(w)
  PROVE  Solo(w)'
<1> USE DEF Recovering, Reading, Building, Moved, Verifying, Promoting, Ended,
      Mine, Held, SoloLooks, SoloRestores, SoloSweeps, SoloPromotes,
      ChooseNoneEffect, ChooseEffect
<1>1. CASE pc'[w] = "stage"
  <2>1. ChooseNoneEffect(w)
    BY <1>1, ChooseNoneStep
  <2>2. /\ SelfFacts(w) /\ OnePlace /\ ClaimHeld(w) /\ BackupFree(w)
        /\ LocalsOK(w)
    BY Self DEF Structure
  <2>3. /\ Held /\ SoloLooks(w) /\ SoloRestores(w) /\ SoloSweeps(w)
        /\ SoloPromotes(w)
    BY DEF Solo
  <2>4. Held' /\ SoloLooks(w)' /\ SoloRestores(w)'
    BY <2>1, <2>2, <2>3 DEF SelfFacts, OnePlace, ClaimHeld, BackupFree,
      Unmoved, LocalsOK, Found
  <2>5. SoloSweeps(w)' /\ SoloPromotes(w)'
    BY <2>1, <2>2, <2>3 DEF SelfFacts, OnePlace, ClaimHeld, BackupFree,
      Unmoved, LocalsOK, Found
  <2> QED
    BY <2>4, <2>5 DEF Solo
<1>2. CASE pc'[w] # "stage"
  <2>1. ChooseEffect(w)
    BY <1>2, ChooseStep
  <2>2. /\ SelfFacts(w) /\ OnePlace /\ ClaimHeld(w) /\ BackupFree(w)
        /\ LocalsOK(w)
    BY Self DEF Structure
  <2>3. /\ Held /\ SoloLooks(w) /\ SoloRestores(w) /\ SoloSweeps(w)
        /\ SoloPromotes(w)
    BY DEF Solo
  <2>4. Held' /\ SoloLooks(w)' /\ SoloRestores(w)'
    BY <2>1, <2>2, <2>3 DEF SelfFacts, OnePlace, ClaimHeld, BackupFree,
      Unmoved, LocalsOK, Found
  <2>5. SoloSweeps(w)' /\ SoloPromotes(w)'
    BY <2>1, <2>2, <2>3 DEF SelfFacts, OnePlace, ClaimHeld, BackupFree,
      Unmoved, LocalsOK, Found
  <2> QED
    BY <2>4, <2>5 DEF Solo
<1> QED
  BY <1>1, <1>2

LEMMA SoloRecheck ==
  ASSUME PackageTypeOK, Structure, NEW w \in Writer, Solo(w), Recheck(w)
  PROVE  Solo(w)'
<1> USE DEF Recovering, Reading, Building, Moved, Verifying, Promoting, Ended,
      Mine, Held, SoloLooks, SoloRestores, SoloSweeps, SoloPromotes,
      RecheckNoEffect, RecheckGoneEffect, RecheckYesEffect
<1>1. CASE ~PackageSame(w)
  <2>1. RecheckNoEffect(w)
    BY <1>1, RecheckNoStep
  <2>2. /\ SelfFacts(w) /\ OnePlace /\ ClaimHeld(w) /\ BackupFree(w)
        /\ LocalsOK(w)
    BY Self DEF Structure
  <2>3. /\ Held /\ SoloLooks(w) /\ SoloRestores(w) /\ SoloSweeps(w)
        /\ SoloPromotes(w)
    BY DEF Solo
  <2>4. Held' /\ SoloLooks(w)' /\ SoloRestores(w)'
    BY <2>1, <2>2, <2>3 DEF SelfFacts, OnePlace, ClaimHeld, BackupFree,
      Unmoved, LocalsOK, Found
  <2>5. SoloSweeps(w)' /\ SoloPromotes(w)'
    BY <2>1, <2>2, <2>3 DEF SelfFacts, OnePlace, ClaimHeld, BackupFree,
      Unmoved, LocalsOK, Found
  <2> QED
    BY <2>4, <2>5 DEF Solo
<1>2. CASE PackageSame(w) /\ backup[local[w].pick] = NoTree
  <2>1. RecheckGoneEffect(w)
    BY <1>2, RecheckGoneStep
  <2>2. /\ SelfFacts(w) /\ OnePlace /\ ClaimHeld(w) /\ BackupFree(w)
        /\ LocalsOK(w)
    BY Self DEF Structure
  <2>3. /\ Held /\ SoloLooks(w) /\ SoloRestores(w) /\ SoloSweeps(w)
        /\ SoloPromotes(w)
    BY DEF Solo
  <2>4. Held' /\ SoloLooks(w)' /\ SoloRestores(w)'
    BY <2>1, <2>2, <2>3 DEF SelfFacts, OnePlace, ClaimHeld, BackupFree,
      Unmoved, LocalsOK, Found
  <2>5. SoloSweeps(w)' /\ SoloPromotes(w)'
    BY <2>1, <2>2, <2>3 DEF SelfFacts, OnePlace, ClaimHeld, BackupFree,
      Unmoved, LocalsOK, Found
  <2> QED
    BY <2>4, <2>5 DEF Solo
<1>3. CASE PackageSame(w) /\ backup[local[w].pick] # NoTree
  <2>1. RecheckYesEffect(w)
    BY <1>3, RecheckYesStep
  <2>2. /\ SelfFacts(w) /\ OnePlace /\ ClaimHeld(w) /\ BackupFree(w)
        /\ LocalsOK(w)
    BY Self DEF Structure
  <2>3. /\ Held /\ SoloLooks(w) /\ SoloRestores(w) /\ SoloSweeps(w)
        /\ SoloPromotes(w)
    BY DEF Solo
  <2>4. Held' /\ SoloLooks(w)' /\ SoloRestores(w)'
    BY <2>1, <2>2, <2>3 DEF SelfFacts, OnePlace, ClaimHeld, BackupFree,
      Unmoved, LocalsOK, Found
  <2>5. SoloSweeps(w)' /\ SoloPromotes(w)'
    BY <2>1, <2>2, <2>3 DEF SelfFacts, OnePlace, ClaimHeld, BackupFree,
      Unmoved, LocalsOK, Found
  <2> QED
    BY <2>4, <2>5 DEF Solo
<1> QED
  BY <1>1, <1>2, <1>3

LEMMA SoloRestoreBackup ==
  ASSUME PackageTypeOK, Structure, NEW w \in Writer, Solo(w), RestoreBackup(w)
  PROVE  Solo(w)'
<1> USE DEF Recovering, Reading, Building, Moved, Verifying, Promoting, Ended,
      Mine, Held, SoloLooks, SoloRestores, SoloSweeps, SoloPromotes,
      RestoreYesEffect, RestoreNoEffect
<1>1. CASE package = NoTree /\ backup[local[w].pick] # NoTree
  <2>1. RestoreYesEffect(w)
    BY <1>1, RestoreYesStep
  <2>2. /\ SelfFacts(w) /\ OnePlace /\ ClaimHeld(w) /\ BackupFree(w)
        /\ LocalsOK(w)
    BY Self DEF Structure
  <2>3. /\ Held /\ SoloLooks(w) /\ SoloRestores(w) /\ SoloSweeps(w)
        /\ SoloPromotes(w)
    BY DEF Solo
  <2>4. Held' /\ SoloLooks(w)' /\ SoloRestores(w)'
    BY <2>1, <2>2, <2>3 DEF SelfFacts, OnePlace, ClaimHeld, BackupFree,
      Unmoved, LocalsOK, Found
  <2>5. SoloSweeps(w)' /\ SoloPromotes(w)'
    BY <2>1, <2>2, <2>3 DEF SelfFacts, OnePlace, ClaimHeld, BackupFree,
      Unmoved, LocalsOK, Found
  <2> QED
    BY <2>4, <2>5 DEF Solo
<1>2. CASE ~(package = NoTree /\ backup[local[w].pick] # NoTree)
  <2>1. RestoreNoEffect(w)
    BY <1>2, RestoreNoStep
  <2>2. /\ SelfFacts(w) /\ OnePlace /\ ClaimHeld(w) /\ BackupFree(w)
        /\ LocalsOK(w)
    BY Self DEF Structure
  <2>3. /\ Held /\ SoloLooks(w) /\ SoloRestores(w) /\ SoloSweeps(w)
        /\ SoloPromotes(w)
    BY DEF Solo
  <2>4. Held' /\ SoloLooks(w)' /\ SoloRestores(w)'
    BY <2>1, <2>2, <2>3 DEF SelfFacts, OnePlace, ClaimHeld, BackupFree,
      Unmoved, LocalsOK, Found
  <2>5. SoloSweeps(w)' /\ SoloPromotes(w)'
    BY <2>1, <2>2, <2>3 DEF SelfFacts, OnePlace, ClaimHeld, BackupFree,
      Unmoved, LocalsOK, Found
  <2> QED
    BY <2>4, <2>5 DEF Solo
<1> QED
  BY <1>1, <1>2

LEMMA SoloVerifyRestored ==
  ASSUME PackageTypeOK, Structure, NEW w \in Writer, Solo(w), VerifyRestored(w)
  PROVE  Solo(w)'
<1> USE DEF Recovering, Reading, Building, Moved, Verifying, Promoting, Ended,
      Mine, Held, SoloLooks, SoloRestores, SoloSweeps, SoloPromotes,
      VerifyRestoredEffect
<1>1. VerifyRestoredEffect(w)
  BY VerifyRestoredStep
<1>2. /\ SelfFacts(w) /\ OnePlace /\ ClaimHeld(w) /\ BackupFree(w)
      /\ LocalsOK(w)
  BY Self DEF Structure
<1>3. /\ Held /\ SoloLooks(w) /\ SoloRestores(w) /\ SoloSweeps(w)
      /\ SoloPromotes(w)
  BY DEF Solo
<1>4. Held' /\ SoloLooks(w)' /\ SoloRestores(w)'
  BY <1>1, <1>2, <1>3 DEF SelfFacts, OnePlace, ClaimHeld, BackupFree, Unmoved,
    LocalsOK, Found
<1>5. SoloSweeps(w)' /\ SoloPromotes(w)'
  BY <1>1, <1>2, <1>3 DEF SelfFacts, OnePlace, ClaimHeld, BackupFree, Unmoved,
    LocalsOK, Found
<1> QED
  BY <1>4, <1>5 DEF Solo

LEMMA SoloSweepBackups ==
  ASSUME PackageTypeOK, Structure, NEW w \in Writer, Solo(w), SweepBackups(w)
  PROVE  Solo(w)'
<1> USE DEF Recovering, Reading, Building, Moved, Verifying, Promoting, Ended,
      Mine, Held, SoloLooks, SoloRestores, SoloSweeps, SoloPromotes,
      SweepEndEffect, SweepEffect
<1>1. CASE pc'[w] = "stage"
  <2>1. SweepEndEffect(w)
    BY <1>1, SweepEndStep
  <2>2. /\ SelfFacts(w) /\ OnePlace /\ ClaimHeld(w) /\ BackupFree(w)
        /\ LocalsOK(w)
    BY Self DEF Structure
  <2>3. /\ Held /\ SoloLooks(w) /\ SoloRestores(w) /\ SoloSweeps(w)
        /\ SoloPromotes(w)
    BY DEF Solo
  <2>4. Held' /\ SoloLooks(w)' /\ SoloRestores(w)'
    BY <2>1, <2>2, <2>3 DEF SelfFacts, OnePlace, ClaimHeld, BackupFree,
      Unmoved, LocalsOK, Found
  <2>5. SoloSweeps(w)' /\ SoloPromotes(w)'
    BY <2>1, <2>2, <2>3 DEF SelfFacts, OnePlace, ClaimHeld, BackupFree,
      Unmoved, LocalsOK, Found
  <2> QED
    BY <2>4, <2>5 DEF Solo
<1>2. CASE pc'[w] # "stage"
  <2>1. SweepEffect(w)
    BY <1>2, SweepStep
  <2>2. /\ SelfFacts(w) /\ OnePlace /\ ClaimHeld(w) /\ BackupFree(w)
        /\ LocalsOK(w)
    BY Self DEF Structure
  <2>3. /\ Held /\ SoloLooks(w) /\ SoloRestores(w) /\ SoloSweeps(w)
        /\ SoloPromotes(w)
    BY DEF Solo
  <2>4. Held' /\ SoloLooks(w)' /\ SoloRestores(w)'
    BY <2>1, <2>2, <2>3 DEF SelfFacts, OnePlace, ClaimHeld, BackupFree,
      Unmoved, LocalsOK, Found
  <2>5. SoloSweeps(w)' /\ SoloPromotes(w)'
    BY <2>1, <2>2, <2>3 DEF SelfFacts, OnePlace, ClaimHeld, BackupFree,
      Unmoved, LocalsOK, Found
  <2> QED
    BY <2>4, <2>5 DEF Solo
<1> QED
  BY <1>1, <1>2

LEMMA SoloClaimPath ==
  ASSUME PackageTypeOK, Structure, NEW w \in Writer, Solo(w), ClaimPath(w)
  PROVE  Solo(w)'
<1> USE DEF Recovering, Reading, Building, Moved, Verifying, Promoting, Ended,
      Mine, Held, SoloLooks, SoloRestores, SoloSweeps, SoloPromotes,
      ClaimNoneEffect, ClaimPathEffect, ClaimNoneOtherEffect,
      ClaimPathOtherEffect
<1>1. CASE Mine(w) /\ package = NoTree
  <2>1. ClaimNoneEffect(w)
    BY <1>1, ClaimNoneStep
  <2>2. /\ SelfFacts(w) /\ OnePlace /\ ClaimHeld(w) /\ BackupFree(w)
        /\ LocalsOK(w)
    BY Self DEF Structure
  <2>3. /\ Held /\ SoloLooks(w) /\ SoloRestores(w) /\ SoloSweeps(w)
        /\ SoloPromotes(w)
    BY DEF Solo
  <2>4. Held' /\ SoloLooks(w)' /\ SoloRestores(w)'
    BY <2>1, <2>2, <2>3 DEF SelfFacts, OnePlace, ClaimHeld, BackupFree,
      Unmoved, LocalsOK, Found
  <2>5. SoloSweeps(w)' /\ SoloPromotes(w)'
    BY <2>1, <2>2, <2>3 DEF SelfFacts, OnePlace, ClaimHeld, BackupFree,
      Unmoved, LocalsOK, Found
  <2> QED
    BY <2>4, <2>5 DEF Solo
<1>2. CASE Mine(w) /\ package # NoTree
  <2>1. ClaimPathEffect(w)
    BY <1>2, ClaimPathStep
  <2>2. /\ SelfFacts(w) /\ OnePlace /\ ClaimHeld(w) /\ BackupFree(w)
        /\ LocalsOK(w)
    BY Self DEF Structure
  <2>3. /\ Held /\ SoloLooks(w) /\ SoloRestores(w) /\ SoloSweeps(w)
        /\ SoloPromotes(w)
    BY DEF Solo
  <2>4. Held' /\ SoloLooks(w)' /\ SoloRestores(w)'
    BY <2>1, <2>2, <2>3 DEF SelfFacts, OnePlace, ClaimHeld, BackupFree,
      Unmoved, LocalsOK, Found
  <2>5. SoloSweeps(w)' /\ SoloPromotes(w)'
    BY <2>1, <2>2, <2>3 DEF SelfFacts, OnePlace, ClaimHeld, BackupFree,
      Unmoved, LocalsOK, Found
  <2> QED
    BY <2>4, <2>5 DEF Solo
<1>3. CASE ~Mine(w) /\ backup[local[w].target] = NoTree
  <2>1. ClaimNoneOtherEffect(w)
    BY <1>3, ClaimNoneOtherStep
  <2>2. /\ SelfFacts(w) /\ OnePlace /\ ClaimHeld(w) /\ BackupFree(w)
        /\ LocalsOK(w)
    BY Self DEF Structure
  <2>3. /\ Held /\ SoloLooks(w) /\ SoloRestores(w) /\ SoloSweeps(w)
        /\ SoloPromotes(w)
    BY DEF Solo
  <2>4. Held' /\ SoloLooks(w)' /\ SoloRestores(w)'
    BY <2>1, <2>2, <2>3 DEF SelfFacts, OnePlace, ClaimHeld, BackupFree,
      Unmoved, LocalsOK, Found
  <2>5. SoloSweeps(w)' /\ SoloPromotes(w)'
    BY <2>1, <2>2, <2>3 DEF SelfFacts, OnePlace, ClaimHeld, BackupFree,
      Unmoved, LocalsOK, Found
  <2> QED
    BY <2>4, <2>5 DEF Solo
<1>4. CASE ~Mine(w) /\ backup[local[w].target] # NoTree
  <2>1. ClaimPathOtherEffect(w)
    BY <1>4, ClaimPathOtherStep
  <2>2. /\ SelfFacts(w) /\ OnePlace /\ ClaimHeld(w) /\ BackupFree(w)
        /\ LocalsOK(w)
    BY Self DEF Structure
  <2>3. /\ Held /\ SoloLooks(w) /\ SoloRestores(w) /\ SoloSweeps(w)
        /\ SoloPromotes(w)
    BY DEF Solo
  <2>4. Held' /\ SoloLooks(w)' /\ SoloRestores(w)'
    BY <2>1, <2>2, <2>3 DEF SelfFacts, OnePlace, ClaimHeld, BackupFree,
      Unmoved, LocalsOK, Found
  <2>5. SoloSweeps(w)' /\ SoloPromotes(w)'
    BY <2>1, <2>2, <2>3 DEF SelfFacts, OnePlace, ClaimHeld, BackupFree,
      Unmoved, LocalsOK, Found
  <2> QED
    BY <2>4, <2>5 DEF Solo
<1> QED
  BY <1>1, <1>2, <1>3, <1>4

LEMMA SoloRestoreForeign ==
  ASSUME PackageTypeOK, Structure, NEW w \in Writer, Solo(w), RestoreForeign(w)
  PROVE  Solo(w)'
<1> USE DEF Recovering, Reading, Building, Moved, Verifying, Promoting, Ended,
      Mine, Held, SoloLooks, SoloRestores, SoloSweeps, SoloPromotes,
      RestoreForeignEffect, RestoreForeignOtherEffect
<1>1. CASE Mine(w)
  <2>1. RestoreForeignEffect(w)
    BY <1>1, RestoreForeignStep
  <2>2. /\ SelfFacts(w) /\ OnePlace /\ ClaimHeld(w) /\ BackupFree(w)
        /\ LocalsOK(w)
    BY Self DEF Structure
  <2>3. /\ Held /\ SoloLooks(w) /\ SoloRestores(w) /\ SoloSweeps(w)
        /\ SoloPromotes(w)
    BY DEF Solo
  <2>4. Held' /\ SoloLooks(w)' /\ SoloRestores(w)'
    BY <2>1, <2>2, <2>3 DEF SelfFacts, OnePlace, ClaimHeld, BackupFree,
      Unmoved, LocalsOK, Found
  <2>5. SoloSweeps(w)' /\ SoloPromotes(w)'
    BY <2>1, <2>2, <2>3 DEF SelfFacts, OnePlace, ClaimHeld, BackupFree,
      Unmoved, LocalsOK, Found
  <2> QED
    BY <2>4, <2>5 DEF Solo
<1>2. CASE ~Mine(w)
  <2>1. RestoreForeignOtherEffect(w)
    BY <1>2, RestoreForeignOtherStep
  <2>2. /\ SelfFacts(w) /\ OnePlace /\ ClaimHeld(w) /\ BackupFree(w)
        /\ LocalsOK(w)
    BY Self DEF Structure
  <2>3. /\ Held /\ SoloLooks(w) /\ SoloRestores(w) /\ SoloSweeps(w)
        /\ SoloPromotes(w)
    BY DEF Solo
  <2>4. Held' /\ SoloLooks(w)' /\ SoloRestores(w)'
    BY <2>1, <2>2, <2>3 DEF SelfFacts, OnePlace, ClaimHeld, BackupFree,
      Unmoved, LocalsOK, Found
  <2>5. SoloSweeps(w)' /\ SoloPromotes(w)'
    BY <2>1, <2>2, <2>3 DEF SelfFacts, OnePlace, ClaimHeld, BackupFree,
      Unmoved, LocalsOK, Found
  <2> QED
    BY <2>4, <2>5 DEF Solo
<1> QED
  BY <1>1, <1>2

LEMMA SoloRemoveClaimed ==
  ASSUME PackageTypeOK, Structure, NEW w \in Writer, Solo(w), RemoveClaimed(w)
  PROVE  Solo(w)'
<1> USE DEF Recovering, Reading, Building, Moved, Verifying, Promoting, Ended,
      Mine, Held, SoloLooks, SoloRestores, SoloSweeps, SoloPromotes,
      RemoveClaimedEffect, RemoveClaimedOtherEffect
<1>1. CASE Mine(w)
  <2>1. RemoveClaimedEffect(w)
    BY <1>1, RemoveClaimedStep
  <2>2. /\ SelfFacts(w) /\ OnePlace /\ ClaimHeld(w) /\ BackupFree(w)
        /\ LocalsOK(w)
    BY Self DEF Structure
  <2>3. /\ Held /\ SoloLooks(w) /\ SoloRestores(w) /\ SoloSweeps(w)
        /\ SoloPromotes(w)
    BY DEF Solo
  <2>4. Held' /\ SoloLooks(w)' /\ SoloRestores(w)'
    BY <2>1, <2>2, <2>3 DEF SelfFacts, OnePlace, ClaimHeld, BackupFree,
      Unmoved, LocalsOK, Found
  <2>5. SoloSweeps(w)' /\ SoloPromotes(w)'
    BY <2>1, <2>2, <2>3 DEF SelfFacts, OnePlace, ClaimHeld, BackupFree,
      Unmoved, LocalsOK, Found
  <2> QED
    BY <2>4, <2>5 DEF Solo
<1>2. CASE ~Mine(w)
  <2>1. RemoveClaimedOtherEffect(w)
    BY <1>2, RemoveClaimedOtherStep
  <2>2. /\ SelfFacts(w) /\ OnePlace /\ ClaimHeld(w) /\ BackupFree(w)
        /\ LocalsOK(w)
    BY Self DEF Structure
  <2>3. /\ Held /\ SoloLooks(w) /\ SoloRestores(w) /\ SoloSweeps(w)
        /\ SoloPromotes(w)
    BY DEF Solo
  <2>4. Held' /\ SoloLooks(w)' /\ SoloRestores(w)'
    BY <2>1, <2>2, <2>3 DEF SelfFacts, OnePlace, ClaimHeld, BackupFree,
      Unmoved, LocalsOK, Found
  <2>5. SoloSweeps(w)' /\ SoloPromotes(w)'
    BY <2>1, <2>2, <2>3 DEF SelfFacts, OnePlace, ClaimHeld, BackupFree,
      Unmoved, LocalsOK, Found
  <2> QED
    BY <2>4, <2>5 DEF Solo
<1> QED
  BY <1>1, <1>2

LEMMA SoloRemovalFails ==
  ASSUME PackageTypeOK, Structure, NEW w \in Writer, Solo(w), RemovalFails(w)
  PROVE  \/ Solo(w)' /\ undisturbed' = undisturbed
         \/ Held' /\ undisturbed' = {} /\ pc'[w] = "failed"
<1> USE DEF Recovering, Reading, Building, Moved, Verifying, Promoting, Ended,
      Mine, Held, SoloLooks, SoloRestores, SoloSweeps, SoloPromotes,
      RemovalFailsEffect, RemovalFailsOtherEffect
<1>1. CASE Mine(w)
  <2>1. RemovalFailsEffect(w)
    BY <1>1, RemovalFailsStep
  <2>2. /\ SelfFacts(w) /\ OnePlace /\ ClaimHeld(w) /\ BackupFree(w)
        /\ LocalsOK(w)
    BY Self DEF Structure
  <2>3. /\ Held /\ SoloLooks(w) /\ SoloRestores(w) /\ SoloSweeps(w)
        /\ SoloPromotes(w)
    BY DEF Solo
  <2>4. Held'
    BY <2>1, <2>2, <2>3 DEF SelfFacts, OnePlace, ClaimHeld, BackupFree,
      Unmoved, LocalsOK, Found
  <2>5. undisturbed' = {} /\ pc'[w] = "failed"
    BY <1>1, Types DEF RemovalFails, Goto
  <2> QED
    BY <2>4, <2>5
<1>2. CASE ~Mine(w)
  <2>1. RemovalFailsOtherEffect(w)
    BY <1>2, RemovalFailsOtherStep
  <2>2. /\ SelfFacts(w) /\ OnePlace /\ ClaimHeld(w) /\ BackupFree(w)
        /\ LocalsOK(w)
    BY Self DEF Structure
  <2>3. /\ Held /\ SoloLooks(w) /\ SoloRestores(w) /\ SoloSweeps(w)
        /\ SoloPromotes(w)
    BY DEF Solo
  <2>4. Held' /\ SoloLooks(w)' /\ SoloRestores(w)'
    BY <2>1, <2>2, <2>3 DEF SelfFacts, OnePlace, ClaimHeld, BackupFree,
      Unmoved, LocalsOK, Found
  <2>5. SoloSweeps(w)' /\ SoloPromotes(w)'
    BY <2>1, <2>2, <2>3 DEF SelfFacts, OnePlace, ClaimHeld, BackupFree,
      Unmoved, LocalsOK, Found
  <2>6. \/ undisturbed' = undisturbed
        \/ undisturbed' = {} /\ pc'[w] = "failed"
    BY Types DEF RemovalFails, Goto
  <2> QED
    BY <2>4, <2>5, <2>6 DEF Solo
<1> QED
  BY <1>1, <1>2

LEMMA SoloBuildTree ==
  ASSUME PackageTypeOK, Structure, NEW w \in Writer, Solo(w), BuildTree(w)
  PROVE  Solo(w)'
<1> USE DEF Recovering, Reading, Building, Moved, Verifying, Promoting, Ended,
      Mine, Held, SoloLooks, SoloRestores, SoloSweeps, SoloPromotes,
      BuildTreeEffect
<1>1. BuildTreeEffect(w)
  BY BuildTreeStep
<1>2. /\ SelfFacts(w) /\ OnePlace /\ ClaimHeld(w) /\ BackupFree(w)
      /\ LocalsOK(w)
  BY Self DEF Structure
<1>3. /\ Held /\ SoloLooks(w) /\ SoloRestores(w) /\ SoloSweeps(w)
      /\ SoloPromotes(w)
  BY DEF Solo
<1>4. Held' /\ SoloLooks(w)' /\ SoloRestores(w)'
  BY <1>1, <1>2, <1>3 DEF SelfFacts, OnePlace, ClaimHeld, BackupFree, Unmoved,
    LocalsOK, Found
<1>5. SoloSweeps(w)' /\ SoloPromotes(w)'
  BY <1>1, <1>2, <1>3 DEF SelfFacts, OnePlace, ClaimHeld, BackupFree, Unmoved,
    LocalsOK, Found
<1> QED
  BY <1>4, <1>5 DEF Solo

LEMMA SoloBuildFails ==
  ASSUME PackageTypeOK, Structure, NEW w \in Writer, Solo(w), BuildFails(w)
  PROVE  Solo(w)'
<1> USE DEF Recovering, Reading, Building, Moved, Verifying, Promoting, Ended,
      Mine, Held, SoloLooks, SoloRestores, SoloSweeps, SoloPromotes,
      BuildFailsEffect
<1>1. BuildFailsEffect(w)
  BY BuildFailsStep
<1>2. /\ SelfFacts(w) /\ OnePlace /\ ClaimHeld(w) /\ BackupFree(w)
      /\ LocalsOK(w)
  BY Self DEF Structure
<1>3. /\ Held /\ SoloLooks(w) /\ SoloRestores(w) /\ SoloSweeps(w)
      /\ SoloPromotes(w)
  BY DEF Solo
<1>4. Held' /\ SoloLooks(w)' /\ SoloRestores(w)'
  BY <1>1, <1>2, <1>3 DEF SelfFacts, OnePlace, ClaimHeld, BackupFree, Unmoved,
    LocalsOK, Found
<1>5. SoloSweeps(w)' /\ SoloPromotes(w)'
  BY <1>1, <1>2, <1>3 DEF SelfFacts, OnePlace, ClaimHeld, BackupFree, Unmoved,
    LocalsOK, Found
<1> QED
  BY <1>4, <1>5 DEF Solo

LEMMA SoloLookForPackage ==
  ASSUME PackageTypeOK, Structure, NEW w \in Writer, Solo(w), LookForPackage(w)
  PROVE  Solo(w)'
<1> USE DEF Recovering, Reading, Building, Moved, Verifying, Promoting, Ended,
      Mine, Held, SoloLooks, SoloRestores, SoloSweeps, SoloPromotes,
      LookForPackageEffect
<1>1. LookForPackageEffect(w)
  BY LookForPackageStep
<1>2. /\ SelfFacts(w) /\ OnePlace /\ ClaimHeld(w) /\ BackupFree(w)
      /\ LocalsOK(w)
  BY Self DEF Structure
<1>3. /\ Held /\ SoloLooks(w) /\ SoloRestores(w) /\ SoloSweeps(w)
      /\ SoloPromotes(w)
  BY DEF Solo
<1>4. Held' /\ SoloLooks(w)' /\ SoloRestores(w)'
  BY <1>1, <1>2, <1>3 DEF SelfFacts, OnePlace, ClaimHeld, BackupFree, Unmoved,
    LocalsOK, Found
<1>5. SoloSweeps(w)' /\ SoloPromotes(w)'
  BY <1>1, <1>2, <1>3 DEF SelfFacts, OnePlace, ClaimHeld, BackupFree, Unmoved,
    LocalsOK, Found
<1> QED
  BY <1>4, <1>5 DEF Solo

LEMMA SoloRecordOwner ==
  ASSUME PackageTypeOK, Structure, NEW w \in Writer, Solo(w), RecordOwner(w)
  PROVE  Solo(w)'
<1> USE DEF Recovering, Reading, Building, Moved, Verifying, Promoting, Ended,
      Mine, Held, SoloLooks, SoloRestores, SoloSweeps, SoloPromotes,
      RecordOwnerEffect
<1>1. RecordOwnerEffect(w)
  BY RecordOwnerStep
<1>2. /\ SelfFacts(w) /\ OnePlace /\ ClaimHeld(w) /\ BackupFree(w)
      /\ LocalsOK(w)
  BY Self DEF Structure
<1>3. /\ Held /\ SoloLooks(w) /\ SoloRestores(w) /\ SoloSweeps(w)
      /\ SoloPromotes(w)
  BY DEF Solo
<1>4. Held' /\ SoloLooks(w)' /\ SoloRestores(w)'
  BY <1>1, <1>2, <1>3 DEF SelfFacts, OnePlace, ClaimHeld, BackupFree, Unmoved,
    LocalsOK, Found
<1>5. SoloSweeps(w)' /\ SoloPromotes(w)'
  BY <1>1, <1>2, <1>3 DEF SelfFacts, OnePlace, ClaimHeld, BackupFree, Unmoved,
    LocalsOK, Found
<1> QED
  BY <1>4, <1>5 DEF Solo

LEMMA SoloMoveAway ==
  ASSUME PackageTypeOK, Structure, NEW w \in Writer, Solo(w), MoveAway(w)
  PROVE  Solo(w)'
<1> USE DEF Recovering, Reading, Building, Moved, Verifying, Promoting, Ended,
      Mine, Held, SoloLooks, SoloRestores, SoloSweeps, SoloPromotes,
      MoveAwayEffect
<1>1. MoveAwayEffect(w)
  BY MoveAwayStep
<1>2. /\ SelfFacts(w) /\ OnePlace /\ ClaimHeld(w) /\ BackupFree(w)
      /\ LocalsOK(w)
  BY Self DEF Structure
<1>3. /\ Held /\ SoloLooks(w) /\ SoloRestores(w) /\ SoloSweeps(w)
      /\ SoloPromotes(w)
  BY DEF Solo
<1>4. Held' /\ SoloLooks(w)' /\ SoloRestores(w)'
  BY <1>1, <1>2, <1>3 DEF SelfFacts, OnePlace, ClaimHeld, BackupFree, Unmoved,
    LocalsOK, Found
<1>5. SoloSweeps(w)' /\ SoloPromotes(w)'
  BY <1>1, <1>2, <1>3 DEF SelfFacts, OnePlace, ClaimHeld, BackupFree, Unmoved,
    LocalsOK, Found
<1> QED
  BY <1>4, <1>5 DEF Solo

LEMMA SoloVerifyBackup ==
  ASSUME PackageTypeOK, Structure, NEW w \in Writer, Solo(w), VerifyBackup(w)
  PROVE  Solo(w)'
<1> USE DEF Recovering, Reading, Building, Moved, Verifying, Promoting, Ended,
      Mine, Held, SoloLooks, SoloRestores, SoloSweeps, SoloPromotes,
      VerifyBackupEffect
<1>1. VerifyBackupEffect(w)
  BY VerifyBackupStep
<1>2. /\ SelfFacts(w) /\ OnePlace /\ ClaimHeld(w) /\ BackupFree(w)
      /\ LocalsOK(w)
  BY Self DEF Structure
<1>3. /\ Held /\ SoloLooks(w) /\ SoloRestores(w) /\ SoloSweeps(w)
      /\ SoloPromotes(w)
  BY DEF Solo
<1>4. Held' /\ SoloLooks(w)' /\ SoloRestores(w)'
  BY <1>1, <1>2, <1>3 DEF SelfFacts, OnePlace, ClaimHeld, BackupFree, Unmoved,
    LocalsOK, Found
<1>5. SoloSweeps(w)' /\ SoloPromotes(w)'
  BY <1>1, <1>2, <1>3 DEF SelfFacts, OnePlace, ClaimHeld, BackupFree, Unmoved,
    LocalsOK, Found
<1> QED
  BY <1>4, <1>5 DEF Solo

LEMMA SoloPublish ==
  ASSUME PackageTypeOK, Structure, NEW w \in Writer, Solo(w), Publish(w)
  PROVE  Solo(w)'
<1> USE DEF Recovering, Reading, Building, Moved, Verifying, Promoting, Ended,
      Mine, Held, SoloLooks, SoloRestores, SoloSweeps, SoloPromotes,
      PublishEffect
<1>1. PublishEffect(w)
  BY PublishStep
<1>2. /\ SelfFacts(w) /\ OnePlace /\ ClaimHeld(w) /\ BackupFree(w)
      /\ LocalsOK(w) /\ Fresh(w)
  BY Self DEF Structure
<1>3. /\ Held /\ SoloLooks(w) /\ SoloRestores(w) /\ SoloSweeps(w)
      /\ SoloPromotes(w)
  BY DEF Solo
<1>4. Held' /\ SoloLooks(w)' /\ SoloRestores(w)'
  BY <1>1, <1>2, <1>3 DEF SelfFacts, OnePlace, ClaimHeld, BackupFree, Unmoved,
    LocalsOK, Found
<1>5. SoloSweeps(w)' /\ SoloPromotes(w)'
  BY <1>1, <1>2, <1>3 DEF SelfFacts, OnePlace, ClaimHeld, BackupFree, Unmoved,
    LocalsOK, Found, Fresh, Unpublished
<1> QED
  BY <1>4, <1>5 DEF Solo

LEMMA SoloVerifyOwner ==
  ASSUME PackageTypeOK, Structure, NEW w \in Writer, Solo(w), VerifyOwner(w)
  PROVE  Solo(w)'
<1> USE DEF Recovering, Reading, Building, Moved, Verifying, Promoting, Ended,
      Mine, Held, SoloLooks, SoloRestores, SoloSweeps, SoloPromotes,
      VerifyOwnerEffect
<1>1. VerifyOwnerEffect(w)
  BY VerifyOwnerStep
<1>2. /\ SelfFacts(w) /\ OnePlace /\ ClaimHeld(w) /\ BackupFree(w)
      /\ LocalsOK(w)
  BY Self DEF Structure
<1>3. /\ Held /\ SoloLooks(w) /\ SoloRestores(w) /\ SoloSweeps(w)
      /\ SoloPromotes(w)
  BY DEF Solo
<1>4. Held' /\ SoloLooks(w)' /\ SoloRestores(w)'
  BY <1>1, <1>2, <1>3 DEF SelfFacts, OnePlace, ClaimHeld, BackupFree, Unmoved,
    LocalsOK, Found
<1>5. SoloSweeps(w)' /\ SoloPromotes(w)'
  BY <1>1, <1>2, <1>3 DEF SelfFacts, OnePlace, ClaimHeld, BackupFree, Unmoved,
    LocalsOK, Found
<1> QED
  BY <1>4, <1>5 DEF Solo

LEMMA SoloVerifyTree ==
  ASSUME PackageTypeOK, Structure, NEW w \in Writer, Solo(w), VerifyTree(w)
  PROVE  Solo(w)'
<1> USE DEF Recovering, Reading, Building, Moved, Verifying, Promoting, Ended,
      Mine, Held, SoloLooks, SoloRestores, SoloSweeps, SoloPromotes,
      VerifyTreeEffect
<1>1. VerifyTreeEffect(w)
  BY VerifyTreeStep
<1>2. /\ SelfFacts(w) /\ OnePlace /\ ClaimHeld(w) /\ BackupFree(w)
      /\ LocalsOK(w)
  BY Self DEF Structure
<1>3. /\ Held /\ SoloLooks(w) /\ SoloRestores(w) /\ SoloSweeps(w)
      /\ SoloPromotes(w)
  BY DEF Solo
<1>4. Held' /\ SoloLooks(w)' /\ SoloRestores(w)'
  BY <1>1, <1>2, <1>3 DEF SelfFacts, OnePlace, ClaimHeld, BackupFree, Unmoved,
    LocalsOK, Found
<1>5. SoloSweeps(w)' /\ SoloPromotes(w)'
  BY <1>1, <1>2, <1>3 DEF SelfFacts, OnePlace, ClaimHeld, BackupFree, Unmoved,
    LocalsOK, Found
<1> QED
  BY <1>4, <1>5 DEF Solo

LEMMA SoloReadFails ==
  ASSUME PackageTypeOK, Structure, NEW w \in Writer, Solo(w), ReadFails(w)
  PROVE  Solo(w)'
<1> USE DEF Recovering, Reading, Building, Moved, Verifying, Promoting, Ended,
      Mine, Held, SoloLooks, SoloRestores, SoloSweeps, SoloPromotes,
      ReadFailsEffect
<1>1. ReadFailsEffect(w)
  BY ReadFailsStep
<1>2. /\ SelfFacts(w) /\ OnePlace /\ ClaimHeld(w) /\ BackupFree(w)
      /\ LocalsOK(w) /\ Fresh(w)
  BY Self DEF Structure
<1>3. /\ Held /\ SoloLooks(w) /\ SoloRestores(w) /\ SoloSweeps(w)
      /\ SoloPromotes(w)
  BY DEF Solo
<1>4. Held' /\ SoloLooks(w)' /\ SoloRestores(w)'
  BY <1>1, <1>2, <1>3 DEF SelfFacts, OnePlace, ClaimHeld, BackupFree, Unmoved,
    LocalsOK, Found
<1>5. pc[w] = "movedAway" => ~local[w].published /\ w \in whole
  BY <1>2 DEF LocalsOK, Fresh, Unpublished
<1>6. SoloSweeps(w)' /\ SoloPromotes(w)'
  BY <1>1, <1>2, <1>3, <1>5
<1> QED
  BY <1>4, <1>6 DEF Solo

LEMMA SoloTidyBackup ==
  ASSUME PackageTypeOK, Structure, NEW w \in Writer, Solo(w), TidyBackup(w)
  PROVE  Solo(w)'
<1> USE DEF Recovering, Reading, Building, Moved, Verifying, Promoting, Ended,
      Mine, Held, SoloLooks, SoloRestores, SoloSweeps, SoloPromotes,
      TidyBackupEffect
<1>1. TidyBackupEffect(w)
  BY TidyBackupStep
<1>2. /\ SelfFacts(w) /\ OnePlace /\ ClaimHeld(w) /\ BackupFree(w)
      /\ LocalsOK(w)
  BY Self DEF Structure
<1>3. /\ Held /\ SoloLooks(w) /\ SoloRestores(w) /\ SoloSweeps(w)
      /\ SoloPromotes(w)
  BY DEF Solo
<1>4. Held' /\ SoloLooks(w)' /\ SoloRestores(w)'
  BY <1>1, <1>2, <1>3 DEF SelfFacts, OnePlace, ClaimHeld, BackupFree, Unmoved,
    LocalsOK, Found
<1>5. SoloSweeps(w)' /\ SoloPromotes(w)'
  BY <1>1, <1>2, <1>3 DEF SelfFacts, OnePlace, ClaimHeld, BackupFree, Unmoved,
    LocalsOK, Found
<1> QED
  BY <1>4, <1>5 DEF Solo

LEMMA SoloTidyFails ==
  ASSUME PackageTypeOK, Structure, NEW w \in Writer, Solo(w), TidyFails(w)
  PROVE  Solo(w)'
<1> USE DEF Recovering, Reading, Building, Moved, Verifying, Promoting, Ended,
      Mine, Held, SoloLooks, SoloRestores, SoloSweeps, SoloPromotes,
      TidyFailsEffect
<1>1. TidyFailsEffect(w)
  BY TidyFailsStep
<1>2. /\ SelfFacts(w) /\ OnePlace /\ ClaimHeld(w) /\ BackupFree(w)
      /\ LocalsOK(w)
  BY Self DEF Structure
<1>3. /\ Held /\ SoloLooks(w) /\ SoloRestores(w) /\ SoloSweeps(w)
      /\ SoloPromotes(w)
  BY DEF Solo
<1>4. Held' /\ SoloLooks(w)' /\ SoloRestores(w)'
  BY <1>1, <1>2, <1>3 DEF SelfFacts, OnePlace, ClaimHeld, BackupFree, Unmoved,
    LocalsOK, Found
<1>5. SoloSweeps(w)' /\ SoloPromotes(w)'
  BY <1>1, <1>2, <1>3 DEF SelfFacts, OnePlace, ClaimHeld, BackupFree, Unmoved,
    LocalsOK, Found
<1> QED
  BY <1>4, <1>5 DEF Solo

LEMMA SoloTidyDone ==
  ASSUME PackageTypeOK, Structure, NEW w \in Writer, Solo(w), TidyDone(w)
  PROVE  Solo(w)'
<1> USE DEF Recovering, Reading, Building, Moved, Verifying, Promoting, Ended,
      Mine, Held, SoloLooks, SoloRestores, SoloSweeps, SoloPromotes,
      TidyDoneEffect
<1>1. TidyDoneEffect(w)
  BY TidyDoneStep
<1>2. /\ SelfFacts(w) /\ OnePlace /\ ClaimHeld(w) /\ BackupFree(w)
      /\ LocalsOK(w)
  BY Self DEF Structure
<1>3. /\ Held /\ SoloLooks(w) /\ SoloRestores(w) /\ SoloSweeps(w)
      /\ SoloPromotes(w)
  BY DEF Solo
<1>4. Held' /\ SoloLooks(w)' /\ SoloRestores(w)'
  BY <1>1, <1>2, <1>3 DEF SelfFacts, OnePlace, ClaimHeld, BackupFree, Unmoved,
    LocalsOK, Found
<1>5. SoloSweeps(w)' /\ SoloPromotes(w)'
  BY <1>1, <1>2, <1>3 DEF SelfFacts, OnePlace, ClaimHeld, BackupFree, Unmoved,
    LocalsOK, Found
<1> QED
  BY <1>4, <1>5 DEF Solo

LEMMA SoloUndoPublished ==
  ASSUME PackageTypeOK, Structure, NEW w \in Writer, Solo(w), UndoPublished(w)
  PROVE  Solo(w)'
<1> USE DEF Recovering, Reading, Building, Moved, Verifying, Promoting, Ended,
      Mine, Held, SoloLooks, SoloRestores, SoloSweeps, SoloPromotes,
      UndoPublishedEffect
<1>1. UndoPublishedEffect(w)
  BY UndoPublishedStep
<1>2. /\ SelfFacts(w) /\ OnePlace /\ ClaimHeld(w) /\ BackupFree(w)
      /\ LocalsOK(w)
  BY Self DEF Structure
<1>3. /\ Held /\ SoloLooks(w) /\ SoloRestores(w) /\ SoloSweeps(w)
      /\ SoloPromotes(w)
  BY DEF Solo
<1>4. Held' /\ SoloLooks(w)' /\ SoloRestores(w)'
  BY <1>1, <1>2, <1>3 DEF SelfFacts, OnePlace, ClaimHeld, BackupFree, Unmoved,
    LocalsOK, Found
<1>5. SoloSweeps(w)' /\ SoloPromotes(w)'
  BY <1>1, <1>2, <1>3 DEF SelfFacts, OnePlace, ClaimHeld, BackupFree, Unmoved,
    LocalsOK, Found
<1> QED
  BY <1>4, <1>5 DEF Solo

LEMMA SoloTearPackage ==
  ASSUME PackageTypeOK, Structure, NEW w \in Writer, Solo(w), TearPackage(w)
  PROVE  Solo(w)'
<1> USE DEF Recovering, Reading, Building, Moved, Verifying, Promoting, Ended,
      Mine, Held, SoloLooks, SoloRestores, SoloSweeps, SoloPromotes,
      TearPackageEffect
<1>1. TearPackageEffect(w)
  BY TearPackageStep
<1>2. /\ SelfFacts(w) /\ OnePlace /\ ClaimHeld(w) /\ BackupFree(w)
      /\ LocalsOK(w)
  BY Self DEF Structure
<1>3. /\ Held /\ SoloLooks(w) /\ SoloRestores(w) /\ SoloSweeps(w)
      /\ SoloPromotes(w)
  BY DEF Solo
<1>4. Held' /\ SoloLooks(w)' /\ SoloRestores(w)'
  BY <1>1, <1>2, <1>3 DEF SelfFacts, OnePlace, ClaimHeld, BackupFree, Unmoved,
    LocalsOK, Found
<1>5. SoloSweeps(w)' /\ SoloPromotes(w)'
  BY <1>1, <1>2, <1>3 DEF SelfFacts, OnePlace, ClaimHeld, BackupFree, Unmoved,
    LocalsOK, Found
<1> QED
  BY <1>4, <1>5 DEF Solo

LEMMA SoloRemovePackage ==
  ASSUME PackageTypeOK, Structure, NEW w \in Writer, Solo(w), RemovePackage(w)
  PROVE  Solo(w)'
<1> USE DEF Recovering, Reading, Building, Moved, Verifying, Promoting, Ended,
      Mine, Held, SoloLooks, SoloRestores, SoloSweeps, SoloPromotes,
      RemovePackageEffect
<1>1. RemovePackageEffect(w)
  BY RemovePackageStep
<1>2. /\ SelfFacts(w) /\ OnePlace /\ ClaimHeld(w) /\ BackupFree(w)
      /\ LocalsOK(w)
  BY Self DEF Structure
<1>3. /\ Held /\ SoloLooks(w) /\ SoloRestores(w) /\ SoloSweeps(w)
      /\ SoloPromotes(w)
  BY DEF Solo
<1>4. Held' /\ SoloLooks(w)' /\ SoloRestores(w)'
  BY <1>1, <1>2, <1>3 DEF SelfFacts, OnePlace, ClaimHeld, BackupFree, Unmoved,
    LocalsOK, Found
<1>5. SoloSweeps(w)' /\ SoloPromotes(w)'
  BY <1>1, <1>2, <1>3 DEF SelfFacts, OnePlace, ClaimHeld, BackupFree, Unmoved,
    LocalsOK, Found
<1> QED
  BY <1>4, <1>5 DEF Solo

LEMMA SoloChooseUndo ==
  ASSUME PackageTypeOK, Structure, NEW w \in Writer, Solo(w), ChooseUndo(w)
  PROVE  Solo(w)'
<1> USE DEF Recovering, Reading, Building, Moved, Verifying, Promoting, Ended,
      Mine, Held, SoloLooks, SoloRestores, SoloSweeps, SoloPromotes,
      ChooseUndoEffect
<1>1. ChooseUndoEffect(w)
  BY ChooseUndoStep
<1>2. /\ SelfFacts(w) /\ OnePlace /\ ClaimHeld(w) /\ BackupFree(w)
      /\ LocalsOK(w)
  BY Self DEF Structure
<1>3. /\ Held /\ SoloLooks(w) /\ SoloRestores(w) /\ SoloSweeps(w)
      /\ SoloPromotes(w)
  BY DEF Solo
<1>4. Held' /\ SoloLooks(w)' /\ SoloRestores(w)'
  BY <1>1, <1>2, <1>3 DEF SelfFacts, OnePlace, ClaimHeld, BackupFree, Unmoved,
    LocalsOK, Found
<1>5. SoloSweeps(w)' /\ SoloPromotes(w)'
  BY <1>1, <1>2, <1>3 DEF SelfFacts, OnePlace, ClaimHeld, BackupFree, Unmoved,
    LocalsOK, Found
<1> QED
  BY <1>4, <1>5 DEF Solo

LEMMA SoloPutBack ==
  ASSUME PackageTypeOK, Structure, NEW w \in Writer, Solo(w), PutBack(w)
  PROVE  Solo(w)'
<1> USE DEF Recovering, Reading, Building, Moved, Verifying, Promoting, Ended,
      Mine, Held, SoloLooks, SoloRestores, SoloSweeps, SoloPromotes,
      PutBackEffect
<1>1. PutBackEffect(w)
  BY PutBackStep
<1>2. /\ SelfFacts(w) /\ OnePlace /\ ClaimHeld(w) /\ BackupFree(w)
      /\ LocalsOK(w)
  BY Self DEF Structure
<1>3. /\ Held /\ SoloLooks(w) /\ SoloRestores(w) /\ SoloSweeps(w)
      /\ SoloPromotes(w)
  BY DEF Solo
<1>4. Held' /\ SoloLooks(w)' /\ SoloRestores(w)'
  BY <1>1, <1>2, <1>3 DEF SelfFacts, OnePlace, ClaimHeld, BackupFree, Unmoved,
    LocalsOK, Found
<1>5. SoloSweeps(w)' /\ SoloPromotes(w)'
  BY <1>1, <1>2, <1>3 DEF SelfFacts, OnePlace, ClaimHeld, BackupFree, Unmoved,
    LocalsOK, Found
<1> QED
  BY <1>4, <1>5 DEF Solo

LEMMA SoloDropBackup ==
  ASSUME PackageTypeOK, Structure, NEW w \in Writer, Solo(w), DropBackup(w)
  PROVE  Solo(w)'
<1> USE DEF Recovering, Reading, Building, Moved, Verifying, Promoting, Ended,
      Mine, Held, SoloLooks, SoloRestores, SoloSweeps, SoloPromotes,
      DropBackupEffect
<1>1. DropBackupEffect(w)
  BY DropBackupStep
<1>2. /\ SelfFacts(w) /\ OnePlace /\ ClaimHeld(w) /\ BackupFree(w)
      /\ LocalsOK(w)
  BY Self DEF Structure
<1>3. /\ Held /\ SoloLooks(w) /\ SoloRestores(w) /\ SoloSweeps(w)
      /\ SoloPromotes(w)
  BY DEF Solo
<1>4. Held' /\ SoloLooks(w)' /\ SoloRestores(w)'
  BY <1>1, <1>2, <1>3 DEF SelfFacts, OnePlace, ClaimHeld, BackupFree, Unmoved,
    LocalsOK, Found
<1>5. SoloSweeps(w)' /\ SoloPromotes(w)'
  BY <1>1, <1>2, <1>3 DEF SelfFacts, OnePlace, ClaimHeld, BackupFree, Unmoved,
    LocalsOK, Found
<1> QED
  BY <1>4, <1>5 DEF Solo

LEMMA SoloDropDone ==
  ASSUME PackageTypeOK, Structure, NEW w \in Writer, Solo(w), DropDone(w)
  PROVE  Solo(w)'
<1> USE DEF Recovering, Reading, Building, Moved, Verifying, Promoting, Ended,
      Mine, Held, SoloLooks, SoloRestores, SoloSweeps, SoloPromotes,
      DropDoneEffect
<1>1. DropDoneEffect(w)
  BY DropDoneStep
<1>2. /\ SelfFacts(w) /\ OnePlace /\ ClaimHeld(w) /\ BackupFree(w)
      /\ LocalsOK(w)
  BY Self DEF Structure
<1>3. /\ Held /\ SoloLooks(w) /\ SoloRestores(w) /\ SoloSweeps(w)
      /\ SoloPromotes(w)
  BY DEF Solo
<1>4. Held' /\ SoloLooks(w)' /\ SoloRestores(w)'
  BY <1>1, <1>2, <1>3 DEF SelfFacts, OnePlace, ClaimHeld, BackupFree, Unmoved,
    LocalsOK, Found
<1>5. SoloSweeps(w)' /\ SoloPromotes(w)'
  BY <1>1, <1>2, <1>3 DEF SelfFacts, OnePlace, ClaimHeld, BackupFree, Unmoved,
    LocalsOK, Found
<1> QED
  BY <1>4, <1>5 DEF Solo

LEMMA SoloCrash ==
  ASSUME PackageTypeOK, Structure, NEW w \in Writer, Solo(w), Crash(w)
  PROVE  Solo(w)'
<1> USE DEF Recovering, Reading, Building, Moved, Verifying, Promoting, Ended,
      Mine, Held, SoloLooks, SoloRestores, SoloSweeps, SoloPromotes,
      CrashEffect
<1>1. CrashEffect(w)
  BY CrashStep
<1>2. /\ SelfFacts(w) /\ OnePlace /\ ClaimHeld(w) /\ BackupFree(w)
      /\ LocalsOK(w)
  BY Self DEF Structure
<1>3. /\ Held /\ SoloLooks(w) /\ SoloRestores(w) /\ SoloSweeps(w)
      /\ SoloPromotes(w)
  BY DEF Solo
<1>4. Held' /\ SoloLooks(w)' /\ SoloRestores(w)'
  BY <1>1, <1>2, <1>3 DEF SelfFacts, OnePlace, ClaimHeld, BackupFree, Unmoved,
    LocalsOK, Found
<1>5. SoloSweeps(w)' /\ SoloPromotes(w)'
  BY <1>1, <1>2, <1>3 DEF SelfFacts, OnePlace, ClaimHeld, BackupFree, Unmoved,
    LocalsOK, Found
<1> QED
  BY <1>4, <1>5 DEF Solo

-----------------------------------------------------------------------------
(* A call by itself on which a look or a rename failed.                    *)

LEMMA SoloAstray ==
  ASSUME PackageTypeOK, Structure, NEW w \in Writer
  PROVE  (Solo(w) => Astray(w)) /\ (Solo(w)' => Astray(w)')
<1> USE DEF Building, Moved, Verifying, Promoting, Ended, Mine, Held, Spare
<1>1. w \in Backup
  BY Types
<1> QED
  BY <1>1 DEF Solo, SoloLooks, SoloRestores, SoloSweeps, SoloPromotes, Astray

\* It looks at what is there, chooses, and builds.
LEMMA AstrayReads ==
  ASSUME PackageTypeOK, Structure, NEW w \in Writer, Astray(w),
         Start(w) \/ ListBackups(w) \/ SeePackage(w) \/ NoteOwner(w) \/
         CheckPackage(w) \/ ChooseBackup(w) \/ Recheck(w) \/
         VerifyRestored(w) \/ SweepBackups(w) \/ BuildTree(w) \/
         BuildFails(w) \/ LookForPackage(w) \/ RecordOwner(w) \/ Stumble(w)
  PROVE  Astray(w)'
<1> USE DEF Recovering, Reading, Building, Moved, Verifying, Promoting, Ended,
      Mine, Held, Spare, Astray, SelfFacts, OnePlace, BackupFree, Unmoved
<1>0. /\ SelfFacts(w) /\ OnePlace /\ ClaimHeld(w) /\ Fresh(w)
      /\ BackupFree(w) /\ LocalsOK(w)
  BY Self DEF Structure
<1>1. CASE Start(w)
  BY <1>0, <1>1, StartStep DEF StartEffect, LocalsOK,
    Fresh, Unpublished
<1>2. CASE ListBackups(w)
  BY <1>0, <1>2, ListBackupsStep DEF ListBackupsEffect, LocalsOK,
    Fresh, Unpublished
<1>3. CASE SeePackage(w)
  BY <1>0, <1>3, SeePackageStep DEF SeePackageEffect, LocalsOK,
    Fresh, Unpublished
<1>4. CASE NoteOwner(w)
  BY <1>0, <1>4, NoteOwnerStep DEF NoteOwnerEffect, LocalsOK,
    Fresh, Unpublished
<1>5. CASE CheckPackage(w)
  BY <1>0, <1>5, CheckPackageStep DEF CheckPackageEffect, LocalsOK,
    Fresh, Unpublished
<1>6. CASE ChooseBackup(w)
  <2>1. \/ ChooseNoneEffect(w)
        \/ ChooseEffect(w)
    BY <1>6, ChooseNoneStep, ChooseStep
  <2>2. CASE ChooseNoneEffect(w)
    BY <1>0, <2>2 DEF ChooseNoneEffect, LocalsOK, ClaimHeld, Named
  <2>3. CASE ChooseEffect(w)
    BY <1>0, <2>3 DEF ChooseEffect, LocalsOK, ClaimHeld, Named
  <2> QED
    BY <2>1, <2>2, <2>3
<1>7. CASE Recheck(w)
  <2>1. \/ RecheckNoEffect(w)
        \/ RecheckGoneEffect(w)
        \/ RecheckYesEffect(w)
    BY <1>7, RecheckNoStep, RecheckGoneStep, RecheckYesStep
  <2>2. CASE RecheckNoEffect(w)
    BY <1>0, <2>2 DEF RecheckNoEffect, LocalsOK, ClaimHeld, Named
  <2>3. CASE RecheckGoneEffect(w)
    BY <1>0, <2>3 DEF RecheckGoneEffect, LocalsOK, ClaimHeld, Named
  <2>4. CASE RecheckYesEffect(w)
    BY <1>0, <2>4 DEF RecheckYesEffect, LocalsOK, ClaimHeld, Named
  <2> QED
    BY <2>1, <2>2, <2>3, <2>4
<1>8. CASE VerifyRestored(w)
  <2>1. VerifyRestoredEffect(w)
    BY <1>8, VerifyRestoredStep
  <2> QED
    BY <2>1 DEF VerifyRestoredEffect
<1>9. CASE SweepBackups(w)
  <2>1. \/ SweepEndEffect(w)
        \/ SweepEffect(w)
    BY <1>9, SweepEndStep, SweepStep
  <2>2. CASE SweepEndEffect(w)
    BY <1>0, <2>2 DEF SweepEndEffect, LocalsOK, ClaimHeld, Named
  <2>3. CASE SweepEffect(w)
    BY <1>0, <2>3 DEF SweepEffect, LocalsOK, ClaimHeld, Named
  <2> QED
    BY <2>1, <2>2, <2>3
<1>10. CASE BuildTree(w)
  BY <1>0, <1>10, BuildTreeStep DEF BuildTreeEffect, LocalsOK,
    Fresh, Unpublished
<1>11. CASE BuildFails(w)
  BY <1>0, <1>11, BuildFailsStep DEF BuildFailsEffect, LocalsOK,
    Fresh, Unpublished
<1>12. CASE LookForPackage(w)
  <2>1. LookForPackageEffect(w)
    BY <1>12, LookForPackageStep
  <2> QED
    BY <1>0, <2>1 DEF LookForPackageEffect
<1>13. CASE RecordOwner(w)
  BY <1>0, <1>13, RecordOwnerStep DEF RecordOwnerEffect, LocalsOK,
    Fresh, Unpublished
<1>14. CASE Stumble(w)
  BY <1>0, <1>14, StumbleStep DEF StumbleEffect, LocalsOK,
    Fresh, Unpublished
<1> QED
  BY <1>1, <1>2, <1>3, <1>4, <1>5, <1>6, <1>7, <1>8, <1>9, <1>10, <1>11,
    <1>12, <1>13, <1>14

\* It moves and removes what it chose.
LEMMA AstrayMoves ==
  ASSUME PackageTypeOK, Structure, NEW w \in Writer, Astray(w),
         RestoreBackup(w) \/ ClaimPath(w) \/ RestoreForeign(w) \/
         RemoveClaimed(w) \/ RemovalFails(w)
  PROVE  Astray(w)'
<1> USE DEF Recovering, Reading, Building, Moved, Verifying, Promoting, Ended,
      Mine, Held, Spare, Astray, SelfFacts, OnePlace, BackupFree, Unmoved
<1>0. /\ SelfFacts(w) /\ OnePlace /\ ClaimHeld(w) /\ Fresh(w)
      /\ BackupFree(w) /\ LocalsOK(w)
  BY Self DEF Structure
<1>1. CASE RestoreBackup(w)
  <2>1. \/ RestoreYesEffect(w)
        \/ RestoreNoEffect(w)
    BY <1>1, RestoreYesStep, RestoreNoStep
  <2>2. CASE RestoreYesEffect(w)
    BY <1>0, <2>2 DEF RestoreYesEffect, LocalsOK, ClaimHeld, Named
  <2>3. CASE RestoreNoEffect(w)
    BY <1>0, <2>3 DEF RestoreNoEffect, LocalsOK, ClaimHeld, Named
  <2> QED
    BY <2>1, <2>2, <2>3
<1>2. CASE ClaimPath(w)
  <2>1. \/ ClaimNoneEffect(w)
        \/ ClaimPathEffect(w)
        \/ ClaimNoneOtherEffect(w)
        \/ ClaimPathOtherEffect(w)
    BY <1>2, ClaimNoneStep, ClaimPathStep, ClaimNoneOtherStep, ClaimPathOtherStep
  <2>2. CASE ClaimNoneEffect(w)
    BY <1>0, <2>2 DEF ClaimNoneEffect, LocalsOK, ClaimHeld, Named
  <2>3. CASE ClaimPathEffect(w)
    BY <1>0, <2>3 DEF ClaimPathEffect, LocalsOK, ClaimHeld, Named
  <2>4. CASE ClaimNoneOtherEffect(w)
    BY <1>0, <2>4 DEF ClaimNoneOtherEffect, LocalsOK, ClaimHeld, Named
  <2>5. CASE ClaimPathOtherEffect(w)
    BY <1>0, <2>5 DEF ClaimPathOtherEffect, LocalsOK, ClaimHeld, Named
  <2> QED
    BY <2>1, <2>2, <2>3, <2>4, <2>5
<1>3. CASE RestoreForeign(w)
  <2>1. \/ RestoreForeignEffect(w)
        \/ RestoreForeignOtherEffect(w)
    BY <1>3, RestoreForeignStep, RestoreForeignOtherStep
  <2>2. CASE RestoreForeignEffect(w)
    BY <1>0, <2>2 DEF RestoreForeignEffect, LocalsOK, ClaimHeld, Named
  <2>3. CASE RestoreForeignOtherEffect(w)
    BY <1>0, <2>3 DEF RestoreForeignOtherEffect, LocalsOK, ClaimHeld, Named
  <2> QED
    BY <2>1, <2>2, <2>3
<1>4. CASE RemoveClaimed(w)
  <2>1. \/ RemoveClaimedEffect(w)
        \/ RemoveClaimedOtherEffect(w)
    BY <1>4, RemoveClaimedStep, RemoveClaimedOtherStep
  <2>2. CASE RemoveClaimedEffect(w)
    BY <1>0, <2>2 DEF RemoveClaimedEffect, LocalsOK, ClaimHeld, Named
  <2>3. CASE RemoveClaimedOtherEffect(w)
    BY <1>0, <2>3 DEF RemoveClaimedOtherEffect, LocalsOK, ClaimHeld, Named
  <2> QED
    BY <2>1, <2>2, <2>3
<1>5. CASE RemovalFails(w)
  <2>1. \/ RemovalFailsEffect(w)
        \/ RemovalFailsOtherEffect(w)
    BY <1>5, RemovalFailsStep, RemovalFailsOtherStep
  <2>2. CASE RemovalFailsEffect(w)
    BY <1>0, <2>2 DEF RemovalFailsEffect, LocalsOK, ClaimHeld, Named
  <2>3. CASE RemovalFailsOtherEffect(w)
    BY <1>0, <2>3 DEF RemovalFailsOtherEffect, LocalsOK, ClaimHeld, Named
  <2> QED
    BY <2>1, <2>2, <2>3
<1> QED
  BY <1>1, <1>2, <1>3, <1>4, <1>5

\* It publishes.
LEMMA AstrayPromotes ==
  ASSUME PackageTypeOK, Structure, NEW w \in Writer, Astray(w),
         MoveAway(w) \/ VerifyBackup(w) \/ Publish(w) \/ VerifyOwner(w) \/
         VerifyTree(w) \/ ReadFails(w) \/ TidyBackup(w) \/ TidyFails(w) \/
         TidyDone(w) \/ Crash(w)
  PROVE  Astray(w)'
<1> USE DEF Recovering, Reading, Building, Moved, Verifying, Promoting, Ended,
      Mine, Held, Spare, Astray, SelfFacts, OnePlace, BackupFree, Unmoved
<1>0. /\ SelfFacts(w) /\ OnePlace /\ ClaimHeld(w) /\ Fresh(w)
      /\ BackupFree(w) /\ LocalsOK(w)
  BY Self DEF Structure
<1>1. CASE MoveAway(w)
  BY <1>0, <1>1, MoveAwayStep DEF MoveAwayEffect, LocalsOK,
    Fresh, Unpublished
<1>2. CASE VerifyBackup(w)
  BY <1>0, <1>2, VerifyBackupStep DEF VerifyBackupEffect, LocalsOK,
    Fresh, Unpublished
<1>3. CASE Publish(w)
  BY <1>0, <1>3, PublishStep DEF PublishEffect, LocalsOK,
    Fresh, Unpublished
<1>4. CASE VerifyOwner(w)
  BY <1>0, <1>4, VerifyOwnerStep DEF VerifyOwnerEffect, LocalsOK,
    Fresh, Unpublished
<1>5. CASE VerifyTree(w)
  BY <1>0, <1>5, VerifyTreeStep DEF VerifyTreeEffect, LocalsOK,
    Fresh, Unpublished
<1>6. CASE ReadFails(w)
  BY <1>0, <1>6, ReadFailsStep DEF ReadFailsEffect, LocalsOK,
    Fresh, Unpublished
<1>7. CASE TidyBackup(w)
  BY <1>0, <1>7, TidyBackupStep DEF TidyBackupEffect, LocalsOK,
    Fresh, Unpublished
<1>8. CASE TidyFails(w)
  BY <1>0, <1>8, TidyFailsStep DEF TidyFailsEffect, LocalsOK,
    Fresh, Unpublished
<1>9. CASE TidyDone(w)
  BY <1>0, <1>9, TidyDoneStep DEF TidyDoneEffect, LocalsOK,
    Fresh, Unpublished
<1>10. CASE Crash(w)
  BY <1>0, <1>10, CrashStep DEF CrashEffect, LocalsOK,
    Fresh, Unpublished
<1> QED
  BY <1>1, <1>2, <1>3, <1>4, <1>5, <1>6, <1>7, <1>8, <1>9, <1>10

\* It rolls back; the removal of the own tree succeeds.
LEMMA AstrayRollsBack ==
  ASSUME PackageTypeOK, Structure, NEW w \in Writer, Astray(w),
         UndoPublished(w) \/ TearPackage(w) \/ RemovePackage(w) \/
         ChooseUndo(w) \/ PutBack(w) \/ DropBackup(w) \/ DropDone(w) \/
         RollbackFails(w)
  PROVE  Astray(w)'
<1> USE DEF Recovering, Reading, Building, Moved, Verifying, Promoting, Ended,
      Mine, Held, Spare, Astray, SelfFacts, OnePlace, BackupFree, Unmoved
<1>0. /\ SelfFacts(w) /\ OnePlace /\ ClaimHeld(w) /\ Fresh(w)
      /\ BackupFree(w) /\ LocalsOK(w)
  BY Self DEF Structure
<1>1. CASE UndoPublished(w)
  BY <1>0, <1>1, UndoPublishedStep DEF UndoPublishedEffect, LocalsOK,
    Fresh, Unpublished
<1>2. CASE TearPackage(w)
  BY <1>0, <1>2, TearPackageStep DEF TearPackageEffect, LocalsOK,
    Fresh, Unpublished
<1>3. CASE RemovePackage(w)
  BY <1>0, <1>3, RemovePackageStep DEF RemovePackageEffect, LocalsOK,
    Fresh, Unpublished
<1>4. CASE ChooseUndo(w)
  BY <1>0, <1>4, ChooseUndoStep DEF ChooseUndoEffect, LocalsOK,
    Fresh, Unpublished
<1>5. CASE PutBack(w)
  BY <1>0, <1>5, PutBackStep DEF PutBackEffect, LocalsOK,
    Fresh, Unpublished
<1>6. CASE DropBackup(w)
  BY <1>0, <1>6, DropBackupStep DEF DropBackupEffect, LocalsOK,
    Fresh, Unpublished
<1>7. CASE DropDone(w)
  BY <1>0, <1>7, DropDoneStep DEF DropDoneEffect, LocalsOK,
    Fresh, Unpublished
<1>8. CASE RollbackFails(w)
  <2>1. StopEffect(w) /\ pc[w] \notin {"undoing", "torn"}
    BY <1>8, StopStep DEF RollbackFails
  <2> QED
    BY <2>1 DEF StopEffect
<1> QED
  BY <1>1, <1>2, <1>3, <1>4, <1>5, <1>6, <1>7, <1>8

-----------------------------------------------------------------------------
(* A call by itself keeps the order: the package, or what takes its place, *)
(* is newer than every complete tree that was replaced.                    *)

\* Of two complete trees one is older.
LEMMA OneIsOlder ==
  ASSUME PackageTypeOK, Dated, NEW s \in whole, NEW t \in whole
  PROVE  s = t \/ Older(s, t) \/ Older(t, s)
<1>1. s \in ToSet(made) /\ t \in ToSet(made)
  BY DEF Dated
<1>2. PICK i \in DOMAIN made : made[i] = s
  BY <1>1 DEF ToSet
<1>3. PICK j \in DOMAIN made : made[j] = t
  BY <1>1 DEF ToSet
<1>4. DOMAIN made \subseteq Int
  BY DEF PackageTypeOK
<1> QED
  BY <1>2, <1>3, <1>4 DEF Older

LEMMA HeirsListBackups ==
  ASSUME PackageTypeOK, Structure, Dated, NEW w \in Writer,
         Solo(w), SoloOrdered(w), ListBackups(w)
  PROVE  SoloOrdered(w)'
<1> USE DEF Recovering, Reading, Building, Moved, Verifying, Promoting, Ended,
      Mine, Held, SoloLooks, SoloRestores, SoloSweeps, SoloPromotes, Heir,
      ListBackupsEffect
<1>1. ListBackupsEffect(w)
  BY ListBackupsStep
<1>2. /\ SelfFacts(w) /\ OnePlace /\ ClaimHeld(w) /\ Fresh(w)
      /\ BackupFree(w) /\ LocalsOK(w)
  BY Self DEF Structure
<1>3. /\ Held /\ SoloLooks(w) /\ SoloRestores(w) /\ SoloSweeps(w)
      /\ SoloPromotes(w) /\ Ordered /\ SoloHeirs(w)
  BY DEF Solo, SoloOrdered
<1>4. made' = made
  BY DEF ListBackups, Paths
<1>5. superseded' = superseded
  BY DEF ListBackups, History
<1>6. (Unpublished(w) => w \notin superseded) /\ NoTree \notin superseded
  BY PackageAssumption DEF Dated, PackageTypeOK, Tree
<1>7. Ordered'
  BY <1>1, <1>2, <1>3, <1>4, <1>5, <1>6 DEF SelfFacts, OnePlace, LocalsOK,
    ClaimHeld, Unmoved, BackupFree, Unpublished, Fresh, Replaced, Found, Older,
    Ordered, SoloHeirs
<1>8. SoloHeirs(w)'
  BY <1>1, <1>2, <1>3, <1>4, <1>5, <1>6 DEF SelfFacts, OnePlace, LocalsOK,
    ClaimHeld, Unmoved, BackupFree, Unpublished, Fresh, Replaced, Found, Older,
    Ordered, SoloHeirs
<1> QED
  BY <1>7, <1>8 DEF SoloOrdered

LEMMA HeirsSeePackage ==
  ASSUME PackageTypeOK, Structure, Dated, NEW w \in Writer,
         Solo(w), SoloOrdered(w), SeePackage(w)
  PROVE  SoloOrdered(w)'
<1> USE DEF Recovering, Reading, Building, Moved, Verifying, Promoting, Ended,
      Mine, Held, SoloLooks, SoloRestores, SoloSweeps, SoloPromotes, Heir,
      SeePackageEffect
<1>1. SeePackageEffect(w)
  BY SeePackageStep
<1>2. /\ SelfFacts(w) /\ OnePlace /\ ClaimHeld(w) /\ Fresh(w)
      /\ BackupFree(w) /\ LocalsOK(w)
  BY Self DEF Structure
<1>3. /\ Held /\ SoloLooks(w) /\ SoloRestores(w) /\ SoloSweeps(w)
      /\ SoloPromotes(w) /\ Ordered /\ SoloHeirs(w)
  BY DEF Solo, SoloOrdered
<1>4. made' = made
  BY DEF SeePackage, Paths
<1>5. superseded' = superseded
  BY DEF SeePackage, History
<1>6. (Unpublished(w) => w \notin superseded) /\ NoTree \notin superseded
  BY PackageAssumption DEF Dated, PackageTypeOK, Tree
<1>7. Ordered'
  BY <1>1, <1>2, <1>3, <1>4, <1>5, <1>6 DEF SelfFacts, OnePlace, LocalsOK,
    ClaimHeld, Unmoved, BackupFree, Unpublished, Fresh, Replaced, Found, Older,
    Ordered, SoloHeirs
<1>8. SoloHeirs(w)'
  BY <1>1, <1>2, <1>3, <1>4, <1>5, <1>6 DEF SelfFacts, OnePlace, LocalsOK,
    ClaimHeld, Unmoved, BackupFree, Unpublished, Fresh, Replaced, Found, Older,
    Ordered, SoloHeirs
<1> QED
  BY <1>7, <1>8 DEF SoloOrdered

LEMMA HeirsNoteOwner ==
  ASSUME PackageTypeOK, Structure, Dated, NEW w \in Writer,
         Solo(w), SoloOrdered(w), NoteOwner(w)
  PROVE  SoloOrdered(w)'
<1> USE DEF Recovering, Reading, Building, Moved, Verifying, Promoting, Ended,
      Mine, Held, SoloLooks, SoloRestores, SoloSweeps, SoloPromotes, Heir,
      NoteOwnerEffect
<1>1. NoteOwnerEffect(w)
  BY NoteOwnerStep
<1>2. /\ SelfFacts(w) /\ OnePlace /\ ClaimHeld(w) /\ Fresh(w)
      /\ BackupFree(w) /\ LocalsOK(w)
  BY Self DEF Structure
<1>3. /\ Held /\ SoloLooks(w) /\ SoloRestores(w) /\ SoloSweeps(w)
      /\ SoloPromotes(w) /\ Ordered /\ SoloHeirs(w)
  BY DEF Solo, SoloOrdered
<1>4. made' = made
  BY DEF NoteOwner, Paths
<1>5. superseded' = superseded
  BY DEF NoteOwner, History
<1>6. (Unpublished(w) => w \notin superseded) /\ NoTree \notin superseded
  BY PackageAssumption DEF Dated, PackageTypeOK, Tree
<1>7. Ordered'
  BY <1>1, <1>2, <1>3, <1>4, <1>5, <1>6 DEF SelfFacts, OnePlace, LocalsOK,
    ClaimHeld, Unmoved, BackupFree, Unpublished, Fresh, Replaced, Found, Older,
    Ordered, SoloHeirs
<1>8. SoloHeirs(w)'
  BY <1>1, <1>2, <1>3, <1>4, <1>5, <1>6 DEF SelfFacts, OnePlace, LocalsOK,
    ClaimHeld, Unmoved, BackupFree, Unpublished, Fresh, Replaced, Found, Older,
    Ordered, SoloHeirs
<1> QED
  BY <1>7, <1>8 DEF SoloOrdered

LEMMA HeirsCheckPackage ==
  ASSUME PackageTypeOK, Structure, Dated, NEW w \in Writer,
         Solo(w), SoloOrdered(w), CheckPackage(w)
  PROVE  SoloOrdered(w)'
<1> USE DEF Recovering, Reading, Building, Moved, Verifying, Promoting, Ended,
      Mine, Held, SoloLooks, SoloRestores, SoloSweeps, SoloPromotes, Heir,
      CheckPackageEffect
<1>1. CheckPackageEffect(w)
  BY CheckPackageStep
<1>2. /\ SelfFacts(w) /\ OnePlace /\ ClaimHeld(w) /\ Fresh(w)
      /\ BackupFree(w) /\ LocalsOK(w)
  BY Self DEF Structure
<1>3. /\ Held /\ SoloLooks(w) /\ SoloRestores(w) /\ SoloSweeps(w)
      /\ SoloPromotes(w) /\ Ordered /\ SoloHeirs(w)
  BY DEF Solo, SoloOrdered
<1>4. made' = made
  BY DEF CheckPackage, Paths
<1>5. superseded' = superseded
  BY DEF CheckPackage, History
<1>6. (Unpublished(w) => w \notin superseded) /\ NoTree \notin superseded
  BY PackageAssumption DEF Dated, PackageTypeOK, Tree
<1>7. Ordered'
  BY <1>1, <1>2, <1>3, <1>4, <1>5, <1>6 DEF SelfFacts, OnePlace, LocalsOK,
    ClaimHeld, Unmoved, BackupFree, Unpublished, Fresh, Replaced, Found, Older,
    Ordered, SoloHeirs
<1>8. SoloHeirs(w)'
  BY <1>1, <1>2, <1>3, <1>4, <1>5, <1>6 DEF SelfFacts, OnePlace, LocalsOK,
    ClaimHeld, Unmoved, BackupFree, Unpublished, Fresh, Replaced, Found, Older,
    Ordered, SoloHeirs
<1> QED
  BY <1>7, <1>8 DEF SoloOrdered

LEMMA HeirsChooseBackup ==
  ASSUME PackageTypeOK, Structure, Dated, NEW w \in Writer,
         Solo(w), SoloOrdered(w), ChooseBackup(w)
  PROVE  SoloOrdered(w)'
<1> USE DEF Recovering, Reading, Building, Moved, Verifying, Promoting, Ended,
      Mine, Held, SoloLooks, SoloRestores, SoloSweeps, SoloPromotes, Heir,
      ChooseNoneEffect, ChooseEffect
<1>1. CASE pc'[w] = "stage"
  <2>1. ChooseNoneEffect(w)
    BY <1>1, ChooseNoneStep
  <2>2. /\ SelfFacts(w) /\ OnePlace /\ ClaimHeld(w) /\ Fresh(w)
        /\ BackupFree(w) /\ LocalsOK(w)
    BY Self DEF Structure
  <2>3. /\ Held /\ SoloLooks(w) /\ SoloRestores(w) /\ SoloSweeps(w)
        /\ SoloPromotes(w) /\ Ordered /\ SoloHeirs(w)
    BY DEF Solo, SoloOrdered
  <2>4. made' = made
    BY DEF ChooseBackup, Paths
  <2>5. superseded' = superseded
    BY DEF ChooseBackup, History
  <2>6. (Unpublished(w) => w \notin superseded) /\ NoTree \notin superseded
    BY PackageAssumption DEF Dated, PackageTypeOK, Tree
  <2>7. Ordered'
    BY <2>1, <2>2, <2>3, <2>4, <2>5, <2>6 DEF SelfFacts, OnePlace, LocalsOK,
      ClaimHeld, Unmoved, BackupFree, Unpublished, Fresh, Replaced, Found,
      Older, Ordered, SoloHeirs
  <2>8. SoloHeirs(w)'
    BY <2>1, <2>2, <2>3, <2>4, <2>5, <2>6 DEF SelfFacts, OnePlace, LocalsOK,
      ClaimHeld, Unmoved, BackupFree, Unpublished, Fresh, Replaced, Found,
      Older, Ordered, SoloHeirs
  <2> QED
    BY <2>7, <2>8 DEF SoloOrdered
<1>2. CASE pc'[w] # "stage"
  <2>1. ChooseEffect(w)
    BY <1>2, ChooseStep
  <2>2. /\ SelfFacts(w) /\ OnePlace /\ ClaimHeld(w) /\ Fresh(w)
        /\ BackupFree(w) /\ LocalsOK(w)
    BY Self DEF Structure
  <2>3. /\ Held /\ SoloLooks(w) /\ SoloRestores(w) /\ SoloSweeps(w)
        /\ SoloPromotes(w) /\ Ordered /\ SoloHeirs(w)
    BY DEF Solo, SoloOrdered
  <2>4. made' = made
    BY DEF ChooseBackup, Paths
  <2>5. superseded' = superseded
    BY DEF ChooseBackup, History
  <2>6. (Unpublished(w) => w \notin superseded) /\ NoTree \notin superseded
    BY PackageAssumption DEF Dated, PackageTypeOK, Tree
  <2>7. Ordered'
    BY <2>1, <2>2, <2>3, <2>4, <2>5, <2>6 DEF SelfFacts, OnePlace, LocalsOK,
      ClaimHeld, Unmoved, BackupFree, Unpublished, Fresh, Replaced, Found,
      Older, Ordered, SoloHeirs
  <2>p. PICK p \in local[w].todo \cap Found :
          /\ backup[p] \in whole /\ local'[w].pick = p
          /\ \A c \in local[w].todo \cap Found :
               backup[c] \in whole => ~Older(backup[p], backup[c])
    BY <1>2, <2>1, Types DEF ChooseBackup, ChooseFrom, Good, Goto, Set,
      Complete, NewestFirst,
      Locals
  <2>h. Heir(backup[p])
    <3>1. package \notin whole /\ local[w].todo = Found
      BY <2>1, <2>3
    <3>2. \A b \in Backup : backup[b] \in whole => b \in Found
      BY <2>2 DEF SelfFacts, Found
    <3>3. backup[p] \notin superseded
      BY <2>3, <2>p, <3>1, <3>2 DEF Ordered, Found
    <3>4. ASSUME NEW b \in Backup, backup[b] \in whole \cap superseded
          PROVE  Older(backup[b], backup[p])
      BY <2>p, <3>1, <3>2, <3>3, <3>4, OneIsOlder
    <3> QED
      BY <3>3, <3>4
  <2>8. SoloHeirs(w)'
    BY <2>1, <2>2, <2>4, <2>5, <2>p, <2>h DEF SelfFacts, SoloHeirs, Older
  <2> QED
    BY <2>7, <2>8 DEF SoloOrdered
<1> QED
  BY <1>1, <1>2

LEMMA HeirsRecheck ==
  ASSUME PackageTypeOK, Structure, Dated, NEW w \in Writer,
         Solo(w), SoloOrdered(w), Recheck(w)
  PROVE  SoloOrdered(w)'
<1> USE DEF Recovering, Reading, Building, Moved, Verifying, Promoting, Ended,
      Mine, Held, SoloLooks, SoloRestores, SoloSweeps, SoloPromotes, Heir,
      RecheckNoEffect, RecheckGoneEffect, RecheckYesEffect
<1>1. CASE ~PackageSame(w)
  <2>1. RecheckNoEffect(w)
    BY <1>1, RecheckNoStep
  <2>2. /\ SelfFacts(w) /\ OnePlace /\ ClaimHeld(w) /\ Fresh(w)
        /\ BackupFree(w) /\ LocalsOK(w)
    BY Self DEF Structure
  <2>3. /\ Held /\ SoloLooks(w) /\ SoloRestores(w) /\ SoloSweeps(w)
        /\ SoloPromotes(w) /\ Ordered /\ SoloHeirs(w)
    BY DEF Solo, SoloOrdered
  <2>4. made' = made
    BY DEF Recheck, Paths
  <2>5. superseded' = superseded
    BY DEF Recheck, History
  <2>6. (Unpublished(w) => w \notin superseded) /\ NoTree \notin superseded
    BY PackageAssumption DEF Dated, PackageTypeOK, Tree
  <2>7. Ordered'
    BY <2>1, <2>2, <2>3, <2>4, <2>5, <2>6 DEF SelfFacts, OnePlace, LocalsOK,
      ClaimHeld, Unmoved, BackupFree, Unpublished, Fresh, Replaced, Found,
      Older, Ordered, SoloHeirs
  <2>8. SoloHeirs(w)'
    BY <2>1, <2>2, <2>3, <2>4, <2>5, <2>6 DEF SelfFacts, OnePlace, LocalsOK,
      ClaimHeld, Unmoved, BackupFree, Unpublished, Fresh, Replaced, Found,
      Older, Ordered, SoloHeirs
  <2> QED
    BY <2>7, <2>8 DEF SoloOrdered
<1>2. CASE PackageSame(w) /\ backup[local[w].pick] = NoTree
  <2>1. RecheckGoneEffect(w)
    BY <1>2, RecheckGoneStep
  <2>2. /\ SelfFacts(w) /\ OnePlace /\ ClaimHeld(w) /\ Fresh(w)
        /\ BackupFree(w) /\ LocalsOK(w)
    BY Self DEF Structure
  <2>3. /\ Held /\ SoloLooks(w) /\ SoloRestores(w) /\ SoloSweeps(w)
        /\ SoloPromotes(w) /\ Ordered /\ SoloHeirs(w)
    BY DEF Solo, SoloOrdered
  <2>4. made' = made
    BY DEF Recheck, Paths
  <2>5. superseded' = superseded
    BY DEF Recheck, History
  <2>6. (Unpublished(w) => w \notin superseded) /\ NoTree \notin superseded
    BY PackageAssumption DEF Dated, PackageTypeOK, Tree
  <2>7. Ordered'
    BY <2>1, <2>2, <2>3, <2>4, <2>5, <2>6 DEF SelfFacts, OnePlace, LocalsOK,
      ClaimHeld, Unmoved, BackupFree, Unpublished, Fresh, Replaced, Found,
      Older, Ordered, SoloHeirs
  <2>8. SoloHeirs(w)'
    BY <2>1, <2>2, <2>3, <2>4, <2>5, <2>6 DEF SelfFacts, OnePlace, LocalsOK,
      ClaimHeld, Unmoved, BackupFree, Unpublished, Fresh, Replaced, Found,
      Older, Ordered, SoloHeirs
  <2> QED
    BY <2>7, <2>8 DEF SoloOrdered
<1>3. CASE PackageSame(w) /\ backup[local[w].pick] # NoTree
  <2>1. RecheckYesEffect(w)
    BY <1>3, RecheckYesStep
  <2>2. /\ SelfFacts(w) /\ OnePlace /\ ClaimHeld(w) /\ Fresh(w)
        /\ BackupFree(w) /\ LocalsOK(w)
    BY Self DEF Structure
  <2>3. /\ Held /\ SoloLooks(w) /\ SoloRestores(w) /\ SoloSweeps(w)
        /\ SoloPromotes(w) /\ Ordered /\ SoloHeirs(w)
    BY DEF Solo, SoloOrdered
  <2>4. made' = made
    BY DEF Recheck, Paths
  <2>5. superseded' = superseded
    BY DEF Recheck, History
  <2>6. (Unpublished(w) => w \notin superseded) /\ NoTree \notin superseded
    BY PackageAssumption DEF Dated, PackageTypeOK, Tree
  <2>7. Ordered'
    BY <2>1, <2>2, <2>3, <2>4, <2>5, <2>6 DEF SelfFacts, OnePlace, LocalsOK,
      ClaimHeld, Unmoved, BackupFree, Unpublished, Fresh, Replaced, Found,
      Older, Ordered, SoloHeirs
  <2>8. SoloHeirs(w)'
    BY <2>1, <2>2, <2>3, <2>4, <2>5, <2>6 DEF SelfFacts, OnePlace, LocalsOK,
      ClaimHeld, Unmoved, BackupFree, Unpublished, Fresh, Replaced, Found,
      Older, Ordered, SoloHeirs
  <2> QED
    BY <2>7, <2>8 DEF SoloOrdered
<1> QED
  BY <1>1, <1>2, <1>3

LEMMA HeirsRestoreBackup ==
  ASSUME PackageTypeOK, Structure, Dated, NEW w \in Writer,
         Solo(w), SoloOrdered(w), RestoreBackup(w)
  PROVE  SoloOrdered(w)'
<1> USE DEF Recovering, Reading, Building, Moved, Verifying, Promoting, Ended,
      Mine, Held, SoloLooks, SoloRestores, SoloSweeps, SoloPromotes, Heir,
      RestoreYesEffect, RestoreNoEffect
<1>1. CASE package = NoTree /\ backup[local[w].pick] # NoTree
  <2>1. RestoreYesEffect(w)
    BY <1>1, RestoreYesStep
  <2>2. /\ SelfFacts(w) /\ OnePlace /\ ClaimHeld(w) /\ Fresh(w)
        /\ BackupFree(w) /\ LocalsOK(w)
    BY Self DEF Structure
  <2>3. /\ Held /\ SoloLooks(w) /\ SoloRestores(w) /\ SoloSweeps(w)
        /\ SoloPromotes(w) /\ Ordered /\ SoloHeirs(w)
    BY DEF Solo, SoloOrdered
  <2>4. made' = made
    BY DEF RestoreBackup, Paths
  <2>5. superseded' = superseded
    BY DEF RestoreBackup, History
  <2>6. (Unpublished(w) => w \notin superseded) /\ NoTree \notin superseded
    BY PackageAssumption DEF Dated, PackageTypeOK, Tree
  <2>7. Ordered'
    BY <2>1, <2>2, <2>3, <2>4, <2>5, <2>6 DEF SelfFacts, OnePlace, LocalsOK,
      ClaimHeld, Unmoved, BackupFree, Unpublished, Fresh, Replaced, Found,
      Older, Ordered, SoloHeirs
  <2>8. SoloHeirs(w)'
    BY <2>1, <2>2, <2>3, <2>4, <2>5, <2>6 DEF SelfFacts, OnePlace, LocalsOK,
      ClaimHeld, Unmoved, BackupFree, Unpublished, Fresh, Replaced, Found,
      Older, Ordered, SoloHeirs
  <2> QED
    BY <2>7, <2>8 DEF SoloOrdered
<1>2. CASE ~(package = NoTree /\ backup[local[w].pick] # NoTree)
  <2>1. RestoreNoEffect(w)
    BY <1>2, RestoreNoStep
  <2>2. /\ SelfFacts(w) /\ OnePlace /\ ClaimHeld(w) /\ Fresh(w)
        /\ BackupFree(w) /\ LocalsOK(w)
    BY Self DEF Structure
  <2>3. /\ Held /\ SoloLooks(w) /\ SoloRestores(w) /\ SoloSweeps(w)
        /\ SoloPromotes(w) /\ Ordered /\ SoloHeirs(w)
    BY DEF Solo, SoloOrdered
  <2>4. made' = made
    BY DEF RestoreBackup, Paths
  <2>5. superseded' = superseded
    BY DEF RestoreBackup, History
  <2>6. (Unpublished(w) => w \notin superseded) /\ NoTree \notin superseded
    BY PackageAssumption DEF Dated, PackageTypeOK, Tree
  <2>7. Ordered'
    BY <2>1, <2>2, <2>3, <2>4, <2>5, <2>6 DEF SelfFacts, OnePlace, LocalsOK,
      ClaimHeld, Unmoved, BackupFree, Unpublished, Fresh, Replaced, Found,
      Older, Ordered, SoloHeirs
  <2>8. SoloHeirs(w)'
    BY <2>1, <2>2, <2>3, <2>4, <2>5, <2>6 DEF SelfFacts, OnePlace, LocalsOK,
      ClaimHeld, Unmoved, BackupFree, Unpublished, Fresh, Replaced, Found,
      Older, Ordered, SoloHeirs
  <2> QED
    BY <2>7, <2>8 DEF SoloOrdered
<1> QED
  BY <1>1, <1>2

LEMMA HeirsVerifyRestored ==
  ASSUME PackageTypeOK, Structure, Dated, NEW w \in Writer,
         Solo(w), SoloOrdered(w), VerifyRestored(w)
  PROVE  SoloOrdered(w)'
<1> USE DEF Recovering, Reading, Building, Moved, Verifying, Promoting, Ended,
      Mine, Held, SoloLooks, SoloRestores, SoloSweeps, SoloPromotes, Heir,
      VerifyRestoredEffect
<1>1. VerifyRestoredEffect(w)
  BY VerifyRestoredStep
<1>2. /\ SelfFacts(w) /\ OnePlace /\ ClaimHeld(w) /\ Fresh(w)
      /\ BackupFree(w) /\ LocalsOK(w)
  BY Self DEF Structure
<1>3. /\ Held /\ SoloLooks(w) /\ SoloRestores(w) /\ SoloSweeps(w)
      /\ SoloPromotes(w) /\ Ordered /\ SoloHeirs(w)
  BY DEF Solo, SoloOrdered
<1>4. made' = made
  BY DEF VerifyRestored, Paths
<1>5. superseded' = superseded
  BY DEF VerifyRestored, History
<1>6. (Unpublished(w) => w \notin superseded) /\ NoTree \notin superseded
  BY PackageAssumption DEF Dated, PackageTypeOK, Tree
<1>7. Ordered'
  BY <1>1, <1>2, <1>3, <1>4, <1>5, <1>6 DEF SelfFacts, OnePlace, LocalsOK,
    ClaimHeld, Unmoved, BackupFree, Unpublished, Fresh, Replaced, Found, Older,
    Ordered, SoloHeirs
<1>8. SoloHeirs(w)'
  BY <1>1, <1>2, <1>3, <1>4, <1>5, <1>6 DEF SelfFacts, OnePlace, LocalsOK,
    ClaimHeld, Unmoved, BackupFree, Unpublished, Fresh, Replaced, Found, Older,
    Ordered, SoloHeirs
<1> QED
  BY <1>7, <1>8 DEF SoloOrdered

LEMMA HeirsSweepBackups ==
  ASSUME PackageTypeOK, Structure, Dated, NEW w \in Writer,
         Solo(w), SoloOrdered(w), SweepBackups(w)
  PROVE  SoloOrdered(w)'
<1> USE DEF Recovering, Reading, Building, Moved, Verifying, Promoting, Ended,
      Mine, Held, SoloLooks, SoloRestores, SoloSweeps, SoloPromotes, Heir,
      SweepEndEffect, SweepEffect
<1>1. CASE pc'[w] = "stage"
  <2>1. SweepEndEffect(w)
    BY <1>1, SweepEndStep
  <2>2. /\ SelfFacts(w) /\ OnePlace /\ ClaimHeld(w) /\ Fresh(w)
        /\ BackupFree(w) /\ LocalsOK(w)
    BY Self DEF Structure
  <2>3. /\ Held /\ SoloLooks(w) /\ SoloRestores(w) /\ SoloSweeps(w)
        /\ SoloPromotes(w) /\ Ordered /\ SoloHeirs(w)
    BY DEF Solo, SoloOrdered
  <2>4. made' = made
    BY DEF SweepBackups, Paths
  <2>5. superseded' = superseded
    BY DEF SweepBackups, History
  <2>6. (Unpublished(w) => w \notin superseded) /\ NoTree \notin superseded
    BY PackageAssumption DEF Dated, PackageTypeOK, Tree
  <2>7. Ordered'
    BY <2>1, <2>2, <2>3, <2>4, <2>5, <2>6 DEF SelfFacts, OnePlace, LocalsOK,
      ClaimHeld, Unmoved, BackupFree, Unpublished, Fresh, Replaced, Found,
      Older, Ordered, SoloHeirs
  <2>8. SoloHeirs(w)'
    BY <2>1, <2>2, <2>3, <2>4, <2>5, <2>6 DEF SelfFacts, OnePlace, LocalsOK,
      ClaimHeld, Unmoved, BackupFree, Unpublished, Fresh, Replaced, Found,
      Older, Ordered, SoloHeirs
  <2> QED
    BY <2>7, <2>8 DEF SoloOrdered
<1>2. CASE pc'[w] # "stage"
  <2>1. SweepEffect(w)
    BY <1>2, SweepStep
  <2>2. /\ SelfFacts(w) /\ OnePlace /\ ClaimHeld(w) /\ Fresh(w)
        /\ BackupFree(w) /\ LocalsOK(w)
    BY Self DEF Structure
  <2>3. /\ Held /\ SoloLooks(w) /\ SoloRestores(w) /\ SoloSweeps(w)
        /\ SoloPromotes(w) /\ Ordered /\ SoloHeirs(w)
    BY DEF Solo, SoloOrdered
  <2>4. made' = made
    BY DEF SweepBackups, Paths
  <2>5. superseded' = superseded
    BY DEF SweepBackups, History
  <2>6. (Unpublished(w) => w \notin superseded) /\ NoTree \notin superseded
    BY PackageAssumption DEF Dated, PackageTypeOK, Tree
  <2>7. Ordered'
    BY <2>1, <2>2, <2>3, <2>4, <2>5, <2>6 DEF SelfFacts, OnePlace, LocalsOK,
      ClaimHeld, Unmoved, BackupFree, Unpublished, Fresh, Replaced, Found,
      Older, Ordered, SoloHeirs
  <2>8. SoloHeirs(w)'
    BY <2>1, <2>2, <2>3, <2>4, <2>5, <2>6 DEF SelfFacts, OnePlace, LocalsOK,
      ClaimHeld, Unmoved, BackupFree, Unpublished, Fresh, Replaced, Found,
      Older, Ordered, SoloHeirs
  <2> QED
    BY <2>7, <2>8 DEF SoloOrdered
<1> QED
  BY <1>1, <1>2

LEMMA HeirsClaimPath ==
  ASSUME PackageTypeOK, Structure, Dated, NEW w \in Writer,
         Solo(w), SoloOrdered(w), ClaimPath(w)
  PROVE  SoloOrdered(w)'
<1> USE DEF Recovering, Reading, Building, Moved, Verifying, Promoting, Ended,
      Mine, Held, SoloLooks, SoloRestores, SoloSweeps, SoloPromotes, Heir,
      ClaimNoneEffect, ClaimPathEffect, ClaimNoneOtherEffect,
      ClaimPathOtherEffect
<1>1. CASE Mine(w) /\ package = NoTree
  <2>1. ClaimNoneEffect(w)
    BY <1>1, ClaimNoneStep
  <2>2. /\ SelfFacts(w) /\ OnePlace /\ ClaimHeld(w) /\ Fresh(w)
        /\ BackupFree(w) /\ LocalsOK(w)
    BY Self DEF Structure
  <2>3. /\ Held /\ SoloLooks(w) /\ SoloRestores(w) /\ SoloSweeps(w)
        /\ SoloPromotes(w) /\ Ordered /\ SoloHeirs(w)
    BY DEF Solo, SoloOrdered
  <2>4. made' = made
    BY DEF ClaimPath, Paths
  <2>5. superseded' = superseded
    BY DEF ClaimPath, History
  <2>6. (Unpublished(w) => w \notin superseded) /\ NoTree \notin superseded
    BY PackageAssumption DEF Dated, PackageTypeOK, Tree
  <2>7. Ordered'
    BY <2>1, <2>2, <2>3, <2>4, <2>5, <2>6 DEF SelfFacts, OnePlace, LocalsOK,
      ClaimHeld, Unmoved, BackupFree, Unpublished, Fresh, Replaced, Found,
      Older, Ordered, SoloHeirs
  <2>8. SoloHeirs(w)'
    BY <2>1, <2>2, <2>3, <2>4, <2>5, <2>6 DEF SelfFacts, OnePlace, LocalsOK,
      ClaimHeld, Unmoved, BackupFree, Unpublished, Fresh, Replaced, Found,
      Older, Ordered, SoloHeirs
  <2> QED
    BY <2>7, <2>8 DEF SoloOrdered
<1>2. CASE Mine(w) /\ package # NoTree
  <2>1. ClaimPathEffect(w)
    BY <1>2, ClaimPathStep
  <2>2. /\ SelfFacts(w) /\ OnePlace /\ ClaimHeld(w) /\ Fresh(w)
        /\ BackupFree(w) /\ LocalsOK(w)
    BY Self DEF Structure
  <2>3. /\ Held /\ SoloLooks(w) /\ SoloRestores(w) /\ SoloSweeps(w)
        /\ SoloPromotes(w) /\ Ordered /\ SoloHeirs(w)
    BY DEF Solo, SoloOrdered
  <2>4. made' = made
    BY DEF ClaimPath, Paths
  <2>5. superseded' = superseded
    BY DEF ClaimPath, History
  <2>6. (Unpublished(w) => w \notin superseded) /\ NoTree \notin superseded
    BY PackageAssumption DEF Dated, PackageTypeOK, Tree
  <2>7. Ordered'
    BY <2>1, <2>2, <2>3, <2>4, <2>5, <2>6 DEF SelfFacts, OnePlace, LocalsOK,
      ClaimHeld, Unmoved, BackupFree, Unpublished, Fresh, Replaced, Found,
      Older, Ordered, SoloHeirs
  <2>8. SoloHeirs(w)'
    BY <2>1, <2>2, <2>3, <2>4, <2>5, <2>6 DEF SelfFacts, OnePlace, LocalsOK,
      ClaimHeld, Unmoved, BackupFree, Unpublished, Fresh, Replaced, Found,
      Older, Ordered, SoloHeirs
  <2> QED
    BY <2>7, <2>8 DEF SoloOrdered
<1>3. CASE ~Mine(w) /\ backup[local[w].target] = NoTree
  <2>1. ClaimNoneOtherEffect(w)
    BY <1>3, ClaimNoneOtherStep
  <2>2. /\ SelfFacts(w) /\ OnePlace /\ ClaimHeld(w) /\ Fresh(w)
        /\ BackupFree(w) /\ LocalsOK(w)
    BY Self DEF Structure
  <2>3. /\ Held /\ SoloLooks(w) /\ SoloRestores(w) /\ SoloSweeps(w)
        /\ SoloPromotes(w) /\ Ordered /\ SoloHeirs(w)
    BY DEF Solo, SoloOrdered
  <2>4. made' = made
    BY DEF ClaimPath, Paths
  <2>5. superseded' = superseded
    BY DEF ClaimPath, History
  <2>6. (Unpublished(w) => w \notin superseded) /\ NoTree \notin superseded
    BY PackageAssumption DEF Dated, PackageTypeOK, Tree
  <2>7. Ordered'
    BY <2>1, <2>2, <2>3, <2>4, <2>5, <2>6 DEF SelfFacts, OnePlace, LocalsOK,
      ClaimHeld, Unmoved, BackupFree, Unpublished, Fresh, Replaced, Found,
      Older, Ordered, SoloHeirs
  <2>8. SoloHeirs(w)'
    BY <2>1, <2>2, <2>3, <2>4, <2>5, <2>6 DEF SelfFacts, OnePlace, LocalsOK,
      ClaimHeld, Unmoved, BackupFree, Unpublished, Fresh, Replaced, Found,
      Older, Ordered, SoloHeirs
  <2> QED
    BY <2>7, <2>8 DEF SoloOrdered
<1>4. CASE ~Mine(w) /\ backup[local[w].target] # NoTree
  <2>1. ClaimPathOtherEffect(w)
    BY <1>4, ClaimPathOtherStep
  <2>2. /\ SelfFacts(w) /\ OnePlace /\ ClaimHeld(w) /\ Fresh(w)
        /\ BackupFree(w) /\ LocalsOK(w)
    BY Self DEF Structure
  <2>3. /\ Held /\ SoloLooks(w) /\ SoloRestores(w) /\ SoloSweeps(w)
        /\ SoloPromotes(w) /\ Ordered /\ SoloHeirs(w)
    BY DEF Solo, SoloOrdered
  <2>4. made' = made
    BY DEF ClaimPath, Paths
  <2>5. superseded' = superseded
    BY DEF ClaimPath, History
  <2>6. (Unpublished(w) => w \notin superseded) /\ NoTree \notin superseded
    BY PackageAssumption DEF Dated, PackageTypeOK, Tree
  <2>7. Ordered'
    BY <2>1, <2>2, <2>3, <2>4, <2>5, <2>6 DEF SelfFacts, OnePlace, LocalsOK,
      ClaimHeld, Unmoved, BackupFree, Unpublished, Fresh, Replaced, Found,
      Older, Ordered, SoloHeirs
  <2>8. SoloHeirs(w)'
    BY <2>1, <2>2, <2>3, <2>4, <2>5, <2>6 DEF SelfFacts, OnePlace, LocalsOK,
      ClaimHeld, Unmoved, BackupFree, Unpublished, Fresh, Replaced, Found,
      Older, Ordered, SoloHeirs
  <2> QED
    BY <2>7, <2>8 DEF SoloOrdered
<1> QED
  BY <1>1, <1>2, <1>3, <1>4

LEMMA HeirsRestoreForeign ==
  ASSUME PackageTypeOK, Structure, Dated, NEW w \in Writer,
         Solo(w), SoloOrdered(w), RestoreForeign(w)
  PROVE  SoloOrdered(w)'
<1> USE DEF Recovering, Reading, Building, Moved, Verifying, Promoting, Ended,
      Mine, Held, SoloLooks, SoloRestores, SoloSweeps, SoloPromotes, Heir,
      RestoreForeignEffect, RestoreForeignOtherEffect
<1>1. CASE Mine(w)
  <2>1. RestoreForeignEffect(w)
    BY <1>1, RestoreForeignStep
  <2>2. /\ SelfFacts(w) /\ OnePlace /\ ClaimHeld(w) /\ Fresh(w)
        /\ BackupFree(w) /\ LocalsOK(w)
    BY Self DEF Structure
  <2>3. /\ Held /\ SoloLooks(w) /\ SoloRestores(w) /\ SoloSweeps(w)
        /\ SoloPromotes(w) /\ Ordered /\ SoloHeirs(w)
    BY DEF Solo, SoloOrdered
  <2>4. made' = made
    BY DEF RestoreForeign, Paths
  <2>5. superseded' = superseded
    BY DEF RestoreForeign, History
  <2>6. (Unpublished(w) => w \notin superseded) /\ NoTree \notin superseded
    BY PackageAssumption DEF Dated, PackageTypeOK, Tree
  <2>7. Ordered'
    BY <2>1, <2>2, <2>3, <2>4, <2>5, <2>6 DEF SelfFacts, OnePlace, LocalsOK,
      ClaimHeld, Unmoved, BackupFree, Unpublished, Fresh, Replaced, Found,
      Older, Ordered, SoloHeirs
  <2>8. SoloHeirs(w)'
    BY <2>1, <2>2, <2>3, <2>4, <2>5, <2>6 DEF SelfFacts, OnePlace, LocalsOK,
      ClaimHeld, Unmoved, BackupFree, Unpublished, Fresh, Replaced, Found,
      Older, Ordered, SoloHeirs
  <2> QED
    BY <2>7, <2>8 DEF SoloOrdered
<1>2. CASE ~Mine(w)
  <2>1. RestoreForeignOtherEffect(w)
    BY <1>2, RestoreForeignOtherStep
  <2>2. /\ SelfFacts(w) /\ OnePlace /\ ClaimHeld(w) /\ Fresh(w)
        /\ BackupFree(w) /\ LocalsOK(w)
    BY Self DEF Structure
  <2>3. /\ Held /\ SoloLooks(w) /\ SoloRestores(w) /\ SoloSweeps(w)
        /\ SoloPromotes(w) /\ Ordered /\ SoloHeirs(w)
    BY DEF Solo, SoloOrdered
  <2>4. made' = made
    BY DEF RestoreForeign, Paths
  <2>5. superseded' = superseded
    BY DEF RestoreForeign, History
  <2>6. (Unpublished(w) => w \notin superseded) /\ NoTree \notin superseded
    BY PackageAssumption DEF Dated, PackageTypeOK, Tree
  <2>7. Ordered'
    BY <2>1, <2>2, <2>3, <2>4, <2>5, <2>6 DEF SelfFacts, OnePlace, LocalsOK,
      ClaimHeld, Unmoved, BackupFree, Unpublished, Fresh, Replaced, Found,
      Older, Ordered, SoloHeirs
  <2>8. SoloHeirs(w)'
    BY <2>1, <2>2, <2>3, <2>4, <2>5, <2>6 DEF SelfFacts, OnePlace, LocalsOK,
      ClaimHeld, Unmoved, BackupFree, Unpublished, Fresh, Replaced, Found,
      Older, Ordered, SoloHeirs
  <2> QED
    BY <2>7, <2>8 DEF SoloOrdered
<1> QED
  BY <1>1, <1>2

LEMMA HeirsRemoveClaimed ==
  ASSUME PackageTypeOK, Structure, Dated, NEW w \in Writer,
         Solo(w), SoloOrdered(w), RemoveClaimed(w)
  PROVE  SoloOrdered(w)'
<1> USE DEF Recovering, Reading, Building, Moved, Verifying, Promoting, Ended,
      Mine, Held, SoloLooks, SoloRestores, SoloSweeps, SoloPromotes, Heir,
      RemoveClaimedEffect, RemoveClaimedOtherEffect
<1>1. CASE Mine(w)
  <2>1. RemoveClaimedEffect(w)
    BY <1>1, RemoveClaimedStep
  <2>2. /\ SelfFacts(w) /\ OnePlace /\ ClaimHeld(w) /\ Fresh(w)
        /\ BackupFree(w) /\ LocalsOK(w)
    BY Self DEF Structure
  <2>3. /\ Held /\ SoloLooks(w) /\ SoloRestores(w) /\ SoloSweeps(w)
        /\ SoloPromotes(w) /\ Ordered /\ SoloHeirs(w)
    BY DEF Solo, SoloOrdered
  <2>4. made' = made
    BY DEF RemoveClaimed, Paths
  <2>5. superseded' = superseded
    BY DEF RemoveClaimed, History
  <2>6. (Unpublished(w) => w \notin superseded) /\ NoTree \notin superseded
    BY PackageAssumption DEF Dated, PackageTypeOK, Tree
  <2>7. Ordered'
    BY <2>1, <2>2, <2>3, <2>4, <2>5, <2>6 DEF SelfFacts, OnePlace, LocalsOK,
      ClaimHeld, Unmoved, BackupFree, Unpublished, Fresh, Replaced, Found,
      Older, Ordered, SoloHeirs
  <2>8. SoloHeirs(w)'
    BY <2>1, <2>2, <2>3, <2>4, <2>5, <2>6 DEF SelfFacts, OnePlace, LocalsOK,
      ClaimHeld, Unmoved, BackupFree, Unpublished, Fresh, Replaced, Found,
      Older, Ordered, SoloHeirs
  <2> QED
    BY <2>7, <2>8 DEF SoloOrdered
<1>2. CASE ~Mine(w)
  <2>1. RemoveClaimedOtherEffect(w)
    BY <1>2, RemoveClaimedOtherStep
  <2>2. /\ SelfFacts(w) /\ OnePlace /\ ClaimHeld(w) /\ Fresh(w)
        /\ BackupFree(w) /\ LocalsOK(w)
    BY Self DEF Structure
  <2>3. /\ Held /\ SoloLooks(w) /\ SoloRestores(w) /\ SoloSweeps(w)
        /\ SoloPromotes(w) /\ Ordered /\ SoloHeirs(w)
    BY DEF Solo, SoloOrdered
  <2>4. made' = made
    BY DEF RemoveClaimed, Paths
  <2>5. superseded' = superseded
    BY DEF RemoveClaimed, History
  <2>6. (Unpublished(w) => w \notin superseded) /\ NoTree \notin superseded
    BY PackageAssumption DEF Dated, PackageTypeOK, Tree
  <2>7. Ordered'
    BY <2>1, <2>2, <2>3, <2>4, <2>5, <2>6 DEF SelfFacts, OnePlace, LocalsOK,
      ClaimHeld, Unmoved, BackupFree, Unpublished, Fresh, Replaced, Found,
      Older, Ordered, SoloHeirs
  <2>8. SoloHeirs(w)'
    BY <2>1, <2>2, <2>3, <2>4, <2>5, <2>6 DEF SelfFacts, OnePlace, LocalsOK,
      ClaimHeld, Unmoved, BackupFree, Unpublished, Fresh, Replaced, Found,
      Older, Ordered, SoloHeirs
  <2> QED
    BY <2>7, <2>8 DEF SoloOrdered
<1> QED
  BY <1>1, <1>2

LEMMA HeirsRemovalFails ==
  ASSUME PackageTypeOK, Structure, Dated, NEW w \in Writer,
         Solo(w), SoloOrdered(w), RemovalFails(w)
  PROVE  SoloOrdered(w)'
<1> USE DEF Recovering, Reading, Building, Moved, Verifying, Promoting, Ended,
      Mine, Held, SoloLooks, SoloRestores, SoloSweeps, SoloPromotes, Heir,
      RemovalFailsEffect, RemovalFailsOtherEffect
<1>1. CASE Mine(w)
  <2>1. RemovalFailsEffect(w)
    BY <1>1, RemovalFailsStep
  <2>2. /\ SelfFacts(w) /\ OnePlace /\ ClaimHeld(w) /\ Fresh(w)
        /\ BackupFree(w) /\ LocalsOK(w)
    BY Self DEF Structure
  <2>3. /\ Held /\ SoloLooks(w) /\ SoloRestores(w) /\ SoloSweeps(w)
        /\ SoloPromotes(w) /\ Ordered /\ SoloHeirs(w)
    BY DEF Solo, SoloOrdered
  <2>4. made' = made
    BY DEF RemovalFails, Paths
  <2>5. superseded' = superseded
    BY DEF RemovalFails, History
  <2>6. (Unpublished(w) => w \notin superseded) /\ NoTree \notin superseded
    BY PackageAssumption DEF Dated, PackageTypeOK, Tree
  <2>7. Ordered'
    BY <2>1, <2>2, <2>3, <2>4, <2>5, <2>6 DEF SelfFacts, OnePlace, LocalsOK,
      ClaimHeld, Unmoved, BackupFree, Unpublished, Fresh, Replaced, Found,
      Older, Ordered, SoloHeirs
  <2>8. SoloHeirs(w)'
    BY <2>1, <2>2, <2>3, <2>4, <2>5, <2>6 DEF SelfFacts, OnePlace, LocalsOK,
      ClaimHeld, Unmoved, BackupFree, Unpublished, Fresh, Replaced, Found,
      Older, Ordered, SoloHeirs
  <2> QED
    BY <2>7, <2>8 DEF SoloOrdered
<1>2. CASE ~Mine(w)
  <2>1. RemovalFailsOtherEffect(w)
    BY <1>2, RemovalFailsOtherStep
  <2>2. /\ SelfFacts(w) /\ OnePlace /\ ClaimHeld(w) /\ Fresh(w)
        /\ BackupFree(w) /\ LocalsOK(w)
    BY Self DEF Structure
  <2>3. /\ Held /\ SoloLooks(w) /\ SoloRestores(w) /\ SoloSweeps(w)
        /\ SoloPromotes(w) /\ Ordered /\ SoloHeirs(w)
    BY DEF Solo, SoloOrdered
  <2>4. made' = made
    BY DEF RemovalFails, Paths
  <2>5. superseded' = superseded
    BY DEF RemovalFails, History
  <2>6. (Unpublished(w) => w \notin superseded) /\ NoTree \notin superseded
    BY PackageAssumption DEF Dated, PackageTypeOK, Tree
  <2>7. Ordered'
    BY <2>1, <2>2, <2>3, <2>4, <2>5, <2>6 DEF SelfFacts, OnePlace, LocalsOK,
      ClaimHeld, Unmoved, BackupFree, Unpublished, Fresh, Replaced, Found,
      Older, Ordered, SoloHeirs
  <2>8. SoloHeirs(w)'
    BY <2>1, <2>2, <2>3, <2>4, <2>5, <2>6 DEF SelfFacts, OnePlace, LocalsOK,
      ClaimHeld, Unmoved, BackupFree, Unpublished, Fresh, Replaced, Found,
      Older, Ordered, SoloHeirs
  <2> QED
    BY <2>7, <2>8 DEF SoloOrdered
<1> QED
  BY <1>1, <1>2

LEMMA HeirsBuildTree ==
  ASSUME PackageTypeOK, Structure, Dated, NEW w \in Writer,
         Solo(w), SoloOrdered(w), BuildTree(w)
  PROVE  SoloOrdered(w)'
<1> USE DEF Recovering, Reading, Building, Moved, Verifying, Promoting, Ended,
      Mine
<1>1. /\ BuildTreeEffect(w) /\ superseded' = superseded
      /\ made' = Append(made, w)
  BY BuildTreeStep DEF BuildTree, History
<1>2. made \in Seq(Tree) /\ whole \subseteq ToSet(made) /\ w \in Tree
  BY DEF PackageTypeOK, Dated, Tree
<1>3. /\ Fresh(w) /\ package \in whole /\ Ordered
      /\ w \notin superseded
  BY <1>1 DEF Structure, Solo, SoloSweeps, SoloOrdered, Dated, Unpublished,
    BuildTreeEffect
<1>4. \A s, t : Older(s, t) => Older(s, t)'
  <2>1. /\ \A k \in DOMAIN made : k \in DOMAIN made' /\ made'[k] = made[k]
    BY <1>1, <1>2
  <2> QED
    BY <2>1 DEF Older
<1>5. \A t \in whole : Older(t, w)'
  <2>1. /\ made'[Len(made) + 1] = w /\ Len(made) \in Nat
        /\ \A k \in 1..Len(made) : made'[k] = made[k]
        /\ DOMAIN made' = 1..(Len(made) + 1) /\ DOMAIN made = 1..Len(made)
    BY <1>1, <1>2
  <2> SUFFICES ASSUME NEW t \in whole PROVE Older(t, w)'
    OBVIOUS
  <2>2. PICK k \in 1..Len(made) : made[k] = t
    BY <1>2, <2>1 DEF ToSet
  <2>3. /\ k \in DOMAIN made' /\ Len(made) + 1 \in DOMAIN made'
        /\ k < Len(made) + 1 /\ made'[k] = t
    BY <2>1, <2>2
  <2> QED
    BY <2>1, <2>3 DEF Older
<1>6. Ordered'
  <2>1. /\ \A b \in Backup : backup'[b] = backup[b] /\ backup[b] # w
        /\ package' = package /\ package # w
        /\ whole' = whole \cup {w} /\ superseded' = superseded
    BY <1>1, <1>3 DEF BuildTreeEffect, Fresh, Unpublished
  <2>2. Heir(package)'
    BY <1>1, <1>3, <1>4, <2>1 DEF BuildTreeEffect, Ordered, Heir, Older
  <2> QED
    BY <1>3, <2>1, <2>2 DEF Ordered
<1>7. SoloHeirs(w)'
  <2>1. pc'[w] = "look" /\ whole' = whole \cup {w}
    BY <1>1 DEF BuildTreeEffect
  <2> QED
    BY <1>5, <2>1 DEF SoloHeirs
<1> QED
  BY <1>6, <1>7 DEF SoloOrdered

LEMMA HeirsBuildFails ==
  ASSUME PackageTypeOK, Structure, Dated, NEW w \in Writer,
         Solo(w), SoloOrdered(w), BuildFails(w)
  PROVE  SoloOrdered(w)'
<1> USE DEF Recovering, Reading, Building, Moved, Verifying, Promoting, Ended,
      Mine, Held, SoloLooks, SoloRestores, SoloSweeps, SoloPromotes, Heir,
      BuildFailsEffect
<1>1. BuildFailsEffect(w)
  BY BuildFailsStep
<1>2. /\ SelfFacts(w) /\ OnePlace /\ ClaimHeld(w) /\ Fresh(w)
      /\ BackupFree(w) /\ LocalsOK(w)
  BY Self DEF Structure
<1>3. /\ Held /\ SoloLooks(w) /\ SoloRestores(w) /\ SoloSweeps(w)
      /\ SoloPromotes(w) /\ Ordered /\ SoloHeirs(w)
  BY DEF Solo, SoloOrdered
<1>4. made' = made
  BY DEF BuildFails, Paths
<1>5. superseded' = superseded
  BY DEF BuildFails, History
<1>6. (Unpublished(w) => w \notin superseded) /\ NoTree \notin superseded
  BY PackageAssumption DEF Dated, PackageTypeOK, Tree
<1>7. Ordered'
  BY <1>1, <1>2, <1>3, <1>4, <1>5, <1>6 DEF SelfFacts, OnePlace, LocalsOK,
    ClaimHeld, Unmoved, BackupFree, Unpublished, Fresh, Replaced, Found, Older,
    Ordered, SoloHeirs
<1>8. SoloHeirs(w)'
  BY <1>1, <1>2, <1>3, <1>4, <1>5, <1>6 DEF SelfFacts, OnePlace, LocalsOK,
    ClaimHeld, Unmoved, BackupFree, Unpublished, Fresh, Replaced, Found, Older,
    Ordered, SoloHeirs
<1> QED
  BY <1>7, <1>8 DEF SoloOrdered

LEMMA HeirsLookForPackage ==
  ASSUME PackageTypeOK, Structure, Dated, NEW w \in Writer,
         Solo(w), SoloOrdered(w), LookForPackage(w)
  PROVE  SoloOrdered(w)'
<1> USE DEF Recovering, Reading, Building, Moved, Verifying, Promoting, Ended,
      Mine, Held, SoloLooks, SoloRestores, SoloSweeps, SoloPromotes, Heir,
      LookForPackageEffect
<1>1. LookForPackageEffect(w)
  BY LookForPackageStep
<1>2. /\ SelfFacts(w) /\ OnePlace /\ ClaimHeld(w) /\ Fresh(w)
      /\ BackupFree(w) /\ LocalsOK(w)
  BY Self DEF Structure
<1>3. /\ Held /\ SoloLooks(w) /\ SoloRestores(w) /\ SoloSweeps(w)
      /\ SoloPromotes(w) /\ Ordered /\ SoloHeirs(w)
  BY DEF Solo, SoloOrdered
<1>4. made' = made
  BY DEF LookForPackage, Paths
<1>5. superseded' = superseded
  BY DEF LookForPackage, History
<1>6. (Unpublished(w) => w \notin superseded) /\ NoTree \notin superseded
  BY PackageAssumption DEF Dated, PackageTypeOK, Tree
<1>7. Ordered'
  BY <1>1, <1>2, <1>3, <1>4, <1>5, <1>6 DEF SelfFacts, OnePlace, LocalsOK,
    ClaimHeld, Unmoved, BackupFree, Unpublished, Fresh, Replaced, Found, Older,
    Ordered, SoloHeirs
<1>8. SoloHeirs(w)'
  BY <1>1, <1>2, <1>3, <1>4, <1>5, <1>6 DEF SelfFacts, OnePlace, LocalsOK,
    ClaimHeld, Unmoved, BackupFree, Unpublished, Fresh, Replaced, Found, Older,
    Ordered, SoloHeirs
<1> QED
  BY <1>7, <1>8 DEF SoloOrdered

LEMMA HeirsRecordOwner ==
  ASSUME PackageTypeOK, Structure, Dated, NEW w \in Writer,
         Solo(w), SoloOrdered(w), RecordOwner(w)
  PROVE  SoloOrdered(w)'
<1> USE DEF Recovering, Reading, Building, Moved, Verifying, Promoting, Ended,
      Mine, Held, SoloLooks, SoloRestores, SoloSweeps, SoloPromotes, Heir,
      RecordOwnerEffect
<1>1. RecordOwnerEffect(w)
  BY RecordOwnerStep
<1>2. /\ SelfFacts(w) /\ OnePlace /\ ClaimHeld(w) /\ Fresh(w)
      /\ BackupFree(w) /\ LocalsOK(w)
  BY Self DEF Structure
<1>3. /\ Held /\ SoloLooks(w) /\ SoloRestores(w) /\ SoloSweeps(w)
      /\ SoloPromotes(w) /\ Ordered /\ SoloHeirs(w)
  BY DEF Solo, SoloOrdered
<1>4. made' = made
  BY DEF RecordOwner, Paths
<1>5. superseded' = superseded
  BY DEF RecordOwner, History
<1>6. (Unpublished(w) => w \notin superseded) /\ NoTree \notin superseded
  BY PackageAssumption DEF Dated, PackageTypeOK, Tree
<1>7. Ordered'
  BY <1>1, <1>2, <1>3, <1>4, <1>5, <1>6 DEF SelfFacts, OnePlace, LocalsOK,
    ClaimHeld, Unmoved, BackupFree, Unpublished, Fresh, Replaced, Found, Older,
    Ordered, SoloHeirs
<1>8. SoloHeirs(w)'
  BY <1>1, <1>2, <1>3, <1>4, <1>5, <1>6 DEF SelfFacts, OnePlace, LocalsOK,
    ClaimHeld, Unmoved, BackupFree, Unpublished, Fresh, Replaced, Found, Older,
    Ordered, SoloHeirs
<1> QED
  BY <1>7, <1>8 DEF SoloOrdered

LEMMA HeirsMoveAway ==
  ASSUME PackageTypeOK, Structure, Dated, NEW w \in Writer,
         Solo(w), SoloOrdered(w), MoveAway(w)
  PROVE  SoloOrdered(w)'
<1> USE DEF Recovering, Reading, Building, Moved, Verifying, Promoting, Ended,
      Mine, Held, SoloLooks, SoloRestores, SoloSweeps, SoloPromotes, Heir,
      MoveAwayEffect
<1>1. MoveAwayEffect(w)
  BY MoveAwayStep
<1>2. /\ SelfFacts(w) /\ OnePlace /\ ClaimHeld(w) /\ Fresh(w)
      /\ BackupFree(w) /\ LocalsOK(w)
  BY Self DEF Structure
<1>3. /\ Held /\ SoloLooks(w) /\ SoloRestores(w) /\ SoloSweeps(w)
      /\ SoloPromotes(w) /\ Ordered /\ SoloHeirs(w)
  BY DEF Solo, SoloOrdered
<1>4. made' = made
  BY DEF MoveAway, Paths
<1>5. superseded' = superseded
  BY DEF MoveAway, History
<1>6. (Unpublished(w) => w \notin superseded) /\ NoTree \notin superseded
  BY PackageAssumption DEF Dated, PackageTypeOK, Tree
<1>7. Ordered'
  BY <1>1, <1>2, <1>3, <1>4, <1>5, <1>6 DEF SelfFacts, OnePlace, LocalsOK,
    ClaimHeld, Unmoved, BackupFree, Unpublished, Fresh, Replaced, Found, Older,
    Ordered, SoloHeirs
<1>8. SoloHeirs(w)'
  BY <1>1, <1>2, <1>3, <1>4, <1>5, <1>6 DEF SelfFacts, OnePlace, LocalsOK,
    ClaimHeld, Unmoved, BackupFree, Unpublished, Fresh, Replaced, Found, Older,
    Ordered, SoloHeirs
<1> QED
  BY <1>7, <1>8 DEF SoloOrdered

LEMMA HeirsVerifyBackup ==
  ASSUME PackageTypeOK, Structure, Dated, NEW w \in Writer,
         Solo(w), SoloOrdered(w), VerifyBackup(w)
  PROVE  SoloOrdered(w)'
<1> USE DEF Recovering, Reading, Building, Moved, Verifying, Promoting, Ended,
      Mine, Held, SoloLooks, SoloRestores, SoloSweeps, SoloPromotes, Heir,
      VerifyBackupEffect
<1>1. VerifyBackupEffect(w)
  BY VerifyBackupStep
<1>2. /\ SelfFacts(w) /\ OnePlace /\ ClaimHeld(w) /\ Fresh(w)
      /\ BackupFree(w) /\ LocalsOK(w)
  BY Self DEF Structure
<1>3. /\ Held /\ SoloLooks(w) /\ SoloRestores(w) /\ SoloSweeps(w)
      /\ SoloPromotes(w) /\ Ordered /\ SoloHeirs(w)
  BY DEF Solo, SoloOrdered
<1>4. made' = made
  BY DEF VerifyBackup, Paths
<1>5. superseded' = superseded
  BY DEF VerifyBackup, History
<1>6. (Unpublished(w) => w \notin superseded) /\ NoTree \notin superseded
  BY PackageAssumption DEF Dated, PackageTypeOK, Tree
<1>7. Ordered'
  BY <1>1, <1>2, <1>3, <1>4, <1>5, <1>6 DEF SelfFacts, OnePlace, LocalsOK,
    ClaimHeld, Unmoved, BackupFree, Unpublished, Fresh, Replaced, Found, Older,
    Ordered, SoloHeirs
<1>8. SoloHeirs(w)'
  BY <1>1, <1>2, <1>3, <1>4, <1>5, <1>6 DEF SelfFacts, OnePlace, LocalsOK,
    ClaimHeld, Unmoved, BackupFree, Unpublished, Fresh, Replaced, Found, Older,
    Ordered, SoloHeirs
<1> QED
  BY <1>7, <1>8 DEF SoloOrdered

LEMMA HeirsPublish ==
  ASSUME PackageTypeOK, Structure, Dated, NEW w \in Writer,
         Solo(w), SoloOrdered(w), Publish(w)
  PROVE  SoloOrdered(w)'
<1> USE DEF Recovering, Reading, Building, Moved, Verifying, Promoting, Ended,
      Mine, Held, SoloLooks, SoloRestores, SoloSweeps, SoloPromotes, Heir,
      PublishEffect
<1>1. PublishEffect(w)
  BY PublishStep
<1>2. /\ SelfFacts(w) /\ OnePlace /\ ClaimHeld(w) /\ Fresh(w)
      /\ BackupFree(w) /\ LocalsOK(w)
  BY Self DEF Structure
<1>3. /\ Held /\ SoloLooks(w) /\ SoloRestores(w) /\ SoloSweeps(w)
      /\ SoloPromotes(w) /\ Ordered /\ SoloHeirs(w)
  BY DEF Solo, SoloOrdered
<1>4. made' = made
  BY DEF Publish, Paths
<1>5. superseded' = superseded
  BY DEF Publish, History
<1>6. (Unpublished(w) => w \notin superseded) /\ NoTree \notin superseded
  BY PackageAssumption DEF Dated, PackageTypeOK, Tree
<1>7. Ordered'
  BY <1>1, <1>2, <1>3, <1>4, <1>5, <1>6 DEF SelfFacts, OnePlace, LocalsOK,
    ClaimHeld, Unmoved, BackupFree, Unpublished, Fresh, Replaced, Found, Older,
    Ordered, SoloHeirs
<1>8. SoloHeirs(w)'
  BY <1>1, <1>2, <1>3, <1>4, <1>5, <1>6 DEF SelfFacts, OnePlace, LocalsOK,
    ClaimHeld, Unmoved, BackupFree, Unpublished, Fresh, Replaced, Found, Older,
    Ordered, SoloHeirs
<1> QED
  BY <1>7, <1>8 DEF SoloOrdered

LEMMA HeirsVerifyOwner ==
  ASSUME PackageTypeOK, Structure, Dated, NEW w \in Writer,
         Solo(w), SoloOrdered(w), VerifyOwner(w)
  PROVE  SoloOrdered(w)'
<1> USE DEF Recovering, Reading, Building, Moved, Verifying, Promoting, Ended,
      Mine, Held, SoloLooks, SoloRestores, SoloSweeps, SoloPromotes, Heir,
      VerifyOwnerEffect
<1>1. VerifyOwnerEffect(w)
  BY VerifyOwnerStep
<1>2. /\ SelfFacts(w) /\ OnePlace /\ ClaimHeld(w) /\ Fresh(w)
      /\ BackupFree(w) /\ LocalsOK(w)
  BY Self DEF Structure
<1>3. /\ Held /\ SoloLooks(w) /\ SoloRestores(w) /\ SoloSweeps(w)
      /\ SoloPromotes(w) /\ Ordered /\ SoloHeirs(w)
  BY DEF Solo, SoloOrdered
<1>4. made' = made
  BY DEF VerifyOwner, Paths
<1>5. superseded' = superseded
  BY DEF VerifyOwner, History
<1>6. (Unpublished(w) => w \notin superseded) /\ NoTree \notin superseded
  BY PackageAssumption DEF Dated, PackageTypeOK, Tree
<1>7. Ordered'
  BY <1>1, <1>2, <1>3, <1>4, <1>5, <1>6 DEF SelfFacts, OnePlace, LocalsOK,
    ClaimHeld, Unmoved, BackupFree, Unpublished, Fresh, Replaced, Found, Older,
    Ordered, SoloHeirs
<1>8. SoloHeirs(w)'
  BY <1>1, <1>2, <1>3, <1>4, <1>5, <1>6 DEF SelfFacts, OnePlace, LocalsOK,
    ClaimHeld, Unmoved, BackupFree, Unpublished, Fresh, Replaced, Found, Older,
    Ordered, SoloHeirs
<1> QED
  BY <1>7, <1>8 DEF SoloOrdered

LEMMA HeirsVerifyTree ==
  ASSUME PackageTypeOK, Structure, Dated, NEW w \in Writer,
         Solo(w), SoloOrdered(w), VerifyTree(w)
  PROVE  SoloOrdered(w)'
<1> USE DEF Recovering, Reading, Building, Moved, Verifying, Promoting, Ended,
      Mine, Held, SoloLooks, SoloRestores, SoloSweeps, SoloPromotes, Heir,
      VerifyTreeEffect
<1>1. VerifyTreeEffect(w)
  BY VerifyTreeStep
<1>2. /\ SelfFacts(w) /\ OnePlace /\ ClaimHeld(w) /\ Fresh(w)
      /\ BackupFree(w) /\ LocalsOK(w)
  BY Self DEF Structure
<1>3. /\ Held /\ SoloLooks(w) /\ SoloRestores(w) /\ SoloSweeps(w)
      /\ SoloPromotes(w) /\ Ordered /\ SoloHeirs(w)
  BY DEF Solo, SoloOrdered
<1>4. made' = made
  BY DEF VerifyTree, Paths
<1>5. superseded' = superseded
  BY DEF VerifyTree, History
<1>6. (Unpublished(w) => w \notin superseded) /\ NoTree \notin superseded
  BY PackageAssumption DEF Dated, PackageTypeOK, Tree
<1>7. Ordered'
  BY <1>1, <1>2, <1>3, <1>4, <1>5, <1>6 DEF SelfFacts, OnePlace, LocalsOK,
    ClaimHeld, Unmoved, BackupFree, Unpublished, Fresh, Replaced, Found, Older,
    Ordered, SoloHeirs
<1>8. SoloHeirs(w)'
  BY <1>1, <1>2, <1>3, <1>4, <1>5, <1>6 DEF SelfFacts, OnePlace, LocalsOK,
    ClaimHeld, Unmoved, BackupFree, Unpublished, Fresh, Replaced, Found, Older,
    Ordered, SoloHeirs
<1> QED
  BY <1>7, <1>8 DEF SoloOrdered

LEMMA HeirsReadFails ==
  ASSUME PackageTypeOK, Structure, Dated, NEW w \in Writer,
         Solo(w), SoloOrdered(w), ReadFails(w)
  PROVE  SoloOrdered(w)'
<1> USE DEF Recovering, Reading, Building, Moved, Verifying, Promoting, Ended,
      Mine, Held, SoloLooks, SoloRestores, SoloSweeps, SoloPromotes, Heir,
      ReadFailsEffect
<1>1. ReadFailsEffect(w)
  BY ReadFailsStep
<1>2. /\ SelfFacts(w) /\ OnePlace /\ ClaimHeld(w) /\ Fresh(w)
      /\ BackupFree(w) /\ LocalsOK(w)
  BY Self DEF Structure
<1>3. /\ Held /\ SoloLooks(w) /\ SoloRestores(w) /\ SoloSweeps(w)
      /\ SoloPromotes(w) /\ Ordered /\ SoloHeirs(w)
  BY DEF Solo, SoloOrdered
<1>4. made' = made
  BY DEF ReadFails, Paths
<1>5. superseded' = superseded
  BY DEF ReadFails, History
<1>6. (Unpublished(w) => w \notin superseded) /\ NoTree \notin superseded
  BY PackageAssumption DEF Dated, PackageTypeOK, Tree
<1>7. Ordered'
  BY <1>1, <1>2, <1>3, <1>4, <1>5, <1>6 DEF SelfFacts, OnePlace, LocalsOK,
    ClaimHeld, Unmoved, BackupFree, Unpublished, Fresh, Replaced, Found, Older,
    Ordered, SoloHeirs
<1>8. SoloHeirs(w)'
  BY <1>1, <1>2, <1>3, <1>4, <1>5, <1>6 DEF SelfFacts, OnePlace, LocalsOK,
    ClaimHeld, Unmoved, BackupFree, Unpublished, Fresh, Replaced, Found, Older,
    Ordered, SoloHeirs
<1> QED
  BY <1>7, <1>8 DEF SoloOrdered

LEMMA HeirsTidyBackup ==
  ASSUME PackageTypeOK, Structure, Dated, NEW w \in Writer,
         Solo(w), SoloOrdered(w), TidyBackup(w)
  PROVE  SoloOrdered(w)'
<1> USE DEF Recovering, Reading, Building, Moved, Verifying, Promoting, Ended,
      Mine, Held, SoloLooks, SoloRestores, SoloSweeps, SoloPromotes, Heir,
      TidyBackupEffect
<1>1. TidyBackupEffect(w)
  BY TidyBackupStep
<1>2. /\ SelfFacts(w) /\ OnePlace /\ ClaimHeld(w) /\ Fresh(w)
      /\ BackupFree(w) /\ LocalsOK(w)
  BY Self DEF Structure
<1>3. /\ Held /\ SoloLooks(w) /\ SoloRestores(w) /\ SoloSweeps(w)
      /\ SoloPromotes(w) /\ Ordered /\ SoloHeirs(w)
  BY DEF Solo, SoloOrdered
<1>4. made' = made
  BY DEF TidyBackup, Paths
<1>5. superseded' = IF local[w].pick = w /\ backup[w] # NoTree
                        /\ backup[w] = local[w].owner
                     THEN superseded ELSE superseded \cup Replaced(w)
  BY DEF TidyBackup
<1>6. (Unpublished(w) => w \notin superseded) /\ NoTree \notin superseded
  BY PackageAssumption DEF Dated, PackageTypeOK, Tree
<1>7. Ordered'
  BY <1>1, <1>2, <1>3, <1>4, <1>5, <1>6 DEF SelfFacts, OnePlace, LocalsOK,
    ClaimHeld, Unmoved, BackupFree, Unpublished, Fresh, Replaced, Found, Older,
    Ordered, SoloHeirs
<1>8. SoloHeirs(w)'
  BY <1>1, <1>2, <1>3, <1>4, <1>5, <1>6 DEF SelfFacts, OnePlace, LocalsOK,
    ClaimHeld, Unmoved, BackupFree, Unpublished, Fresh, Replaced, Found, Older,
    Ordered, SoloHeirs
<1> QED
  BY <1>7, <1>8 DEF SoloOrdered

LEMMA HeirsTidyFails ==
  ASSUME PackageTypeOK, Structure, Dated, NEW w \in Writer,
         Solo(w), SoloOrdered(w), TidyFails(w)
  PROVE  SoloOrdered(w)'
<1> USE DEF Recovering, Reading, Building, Moved, Verifying, Promoting, Ended,
      Mine, Held, SoloLooks, SoloRestores, SoloSweeps, SoloPromotes, Heir,
      TidyFailsEffect
<1>1. TidyFailsEffect(w)
  BY TidyFailsStep
<1>2. /\ SelfFacts(w) /\ OnePlace /\ ClaimHeld(w) /\ Fresh(w)
      /\ BackupFree(w) /\ LocalsOK(w)
  BY Self DEF Structure
<1>3. /\ Held /\ SoloLooks(w) /\ SoloRestores(w) /\ SoloSweeps(w)
      /\ SoloPromotes(w) /\ Ordered /\ SoloHeirs(w)
  BY DEF Solo, SoloOrdered
<1>4. made' = made
  BY DEF TidyFails, Paths
<1>5. superseded' = superseded \cup Replaced(w)
  BY DEF TidyFails
<1>6. (Unpublished(w) => w \notin superseded) /\ NoTree \notin superseded
  BY PackageAssumption DEF Dated, PackageTypeOK, Tree
<1>7. Ordered'
  BY <1>1, <1>2, <1>3, <1>4, <1>5, <1>6 DEF SelfFacts, OnePlace, LocalsOK,
    ClaimHeld, Unmoved, BackupFree, Unpublished, Fresh, Replaced, Found, Older,
    Ordered, SoloHeirs
<1>8. SoloHeirs(w)'
  BY <1>1, <1>2, <1>3, <1>4, <1>5, <1>6 DEF SelfFacts, OnePlace, LocalsOK,
    ClaimHeld, Unmoved, BackupFree, Unpublished, Fresh, Replaced, Found, Older,
    Ordered, SoloHeirs
<1> QED
  BY <1>7, <1>8 DEF SoloOrdered

LEMMA HeirsTidyDone ==
  ASSUME PackageTypeOK, Structure, Dated, NEW w \in Writer,
         Solo(w), SoloOrdered(w), TidyDone(w)
  PROVE  SoloOrdered(w)'
<1> USE DEF Recovering, Reading, Building, Moved, Verifying, Promoting, Ended,
      Mine, Held, SoloLooks, SoloRestores, SoloSweeps, SoloPromotes, Heir,
      TidyDoneEffect
<1>1. TidyDoneEffect(w)
  BY TidyDoneStep
<1>2. /\ SelfFacts(w) /\ OnePlace /\ ClaimHeld(w) /\ Fresh(w)
      /\ BackupFree(w) /\ LocalsOK(w)
  BY Self DEF Structure
<1>3. /\ Held /\ SoloLooks(w) /\ SoloRestores(w) /\ SoloSweeps(w)
      /\ SoloPromotes(w) /\ Ordered /\ SoloHeirs(w)
  BY DEF Solo, SoloOrdered
<1>4. made' = made
  BY DEF TidyDone, Paths
<1>5. superseded' = superseded \cup Replaced(w)
  BY DEF TidyDone
<1>6. (Unpublished(w) => w \notin superseded) /\ NoTree \notin superseded
  BY PackageAssumption DEF Dated, PackageTypeOK, Tree
<1>7. Ordered'
  BY <1>1, <1>2, <1>3, <1>4, <1>5, <1>6 DEF SelfFacts, OnePlace, LocalsOK,
    ClaimHeld, Unmoved, BackupFree, Unpublished, Fresh, Replaced, Found, Older,
    Ordered, SoloHeirs
<1>8. SoloHeirs(w)'
  BY <1>1, <1>2, <1>3, <1>4, <1>5, <1>6 DEF SelfFacts, OnePlace, LocalsOK,
    ClaimHeld, Unmoved, BackupFree, Unpublished, Fresh, Replaced, Found, Older,
    Ordered, SoloHeirs
<1> QED
  BY <1>7, <1>8 DEF SoloOrdered

LEMMA HeirsUndoPublished ==
  ASSUME PackageTypeOK, Structure, Dated, NEW w \in Writer,
         Solo(w), SoloOrdered(w), UndoPublished(w)
  PROVE  SoloOrdered(w)'
<1> USE DEF Recovering, Reading, Building, Moved, Verifying, Promoting, Ended,
      Mine, Held, SoloLooks, SoloRestores, SoloSweeps, SoloPromotes, Heir,
      UndoPublishedEffect
<1>1. UndoPublishedEffect(w)
  BY UndoPublishedStep
<1>2. /\ SelfFacts(w) /\ OnePlace /\ ClaimHeld(w) /\ Fresh(w)
      /\ BackupFree(w) /\ LocalsOK(w)
  BY Self DEF Structure
<1>3. /\ Held /\ SoloLooks(w) /\ SoloRestores(w) /\ SoloSweeps(w)
      /\ SoloPromotes(w) /\ Ordered /\ SoloHeirs(w)
  BY DEF Solo, SoloOrdered
<1>4. made' = made
  BY DEF UndoPublished, Paths
<1>5. superseded' = superseded
  BY DEF UndoPublished, History
<1>6. (Unpublished(w) => w \notin superseded) /\ NoTree \notin superseded
  BY PackageAssumption DEF Dated, PackageTypeOK, Tree
<1>7. Ordered'
  BY <1>1, <1>2, <1>3, <1>4, <1>5, <1>6 DEF SelfFacts, OnePlace, LocalsOK,
    ClaimHeld, Unmoved, BackupFree, Unpublished, Fresh, Replaced, Found, Older,
    Ordered, SoloHeirs
<1>8. SoloHeirs(w)'
  BY <1>1, <1>2, <1>3, <1>4, <1>5, <1>6 DEF SelfFacts, OnePlace, LocalsOK,
    ClaimHeld, Unmoved, BackupFree, Unpublished, Fresh, Replaced, Found, Older,
    Ordered, SoloHeirs
<1> QED
  BY <1>7, <1>8 DEF SoloOrdered

LEMMA HeirsTearPackage ==
  ASSUME PackageTypeOK, Structure, Dated, NEW w \in Writer,
         Solo(w), SoloOrdered(w), TearPackage(w)
  PROVE  SoloOrdered(w)'
<1> USE DEF Recovering, Reading, Building, Moved, Verifying, Promoting, Ended,
      Mine, Held, SoloLooks, SoloRestores, SoloSweeps, SoloPromotes, Heir,
      TearPackageEffect
<1>1. TearPackageEffect(w)
  BY TearPackageStep
<1>2. /\ SelfFacts(w) /\ OnePlace /\ ClaimHeld(w) /\ Fresh(w)
      /\ BackupFree(w) /\ LocalsOK(w)
  BY Self DEF Structure
<1>3. /\ Held /\ SoloLooks(w) /\ SoloRestores(w) /\ SoloSweeps(w)
      /\ SoloPromotes(w) /\ Ordered /\ SoloHeirs(w)
  BY DEF Solo, SoloOrdered
<1>4. made' = made
  BY DEF TearPackage, Paths
<1>5. superseded' = superseded
  BY DEF TearPackage, History
<1>6. (Unpublished(w) => w \notin superseded) /\ NoTree \notin superseded
  BY PackageAssumption DEF Dated, PackageTypeOK, Tree
<1>7. Ordered'
  BY <1>1, <1>2, <1>3, <1>4, <1>5, <1>6 DEF SelfFacts, OnePlace, LocalsOK,
    ClaimHeld, Unmoved, BackupFree, Unpublished, Fresh, Replaced, Found, Older,
    Ordered, SoloHeirs
<1>8. SoloHeirs(w)'
  BY <1>1, <1>2, <1>3, <1>4, <1>5, <1>6 DEF SelfFacts, OnePlace, LocalsOK,
    ClaimHeld, Unmoved, BackupFree, Unpublished, Fresh, Replaced, Found, Older,
    Ordered, SoloHeirs
<1> QED
  BY <1>7, <1>8 DEF SoloOrdered

LEMMA HeirsRemovePackage ==
  ASSUME PackageTypeOK, Structure, Dated, NEW w \in Writer,
         Solo(w), SoloOrdered(w), RemovePackage(w)
  PROVE  SoloOrdered(w)'
<1> USE DEF Recovering, Reading, Building, Moved, Verifying, Promoting, Ended,
      Mine, Held, SoloLooks, SoloRestores, SoloSweeps, SoloPromotes, Heir,
      RemovePackageEffect
<1>1. RemovePackageEffect(w)
  BY RemovePackageStep
<1>2. /\ SelfFacts(w) /\ OnePlace /\ ClaimHeld(w) /\ Fresh(w)
      /\ BackupFree(w) /\ LocalsOK(w)
  BY Self DEF Structure
<1>3. /\ Held /\ SoloLooks(w) /\ SoloRestores(w) /\ SoloSweeps(w)
      /\ SoloPromotes(w) /\ Ordered /\ SoloHeirs(w)
  BY DEF Solo, SoloOrdered
<1>4. made' = made
  BY DEF RemovePackage, Paths
<1>5. superseded' = superseded
  BY DEF RemovePackage, History
<1>6. (Unpublished(w) => w \notin superseded) /\ NoTree \notin superseded
  BY PackageAssumption DEF Dated, PackageTypeOK, Tree
<1>7. Ordered'
  BY <1>1, <1>2, <1>3, <1>4, <1>5, <1>6 DEF SelfFacts, OnePlace, LocalsOK,
    ClaimHeld, Unmoved, BackupFree, Unpublished, Fresh, Replaced, Found, Older,
    Ordered, SoloHeirs
<1>8. SoloHeirs(w)'
  BY <1>1, <1>2, <1>3, <1>4, <1>5, <1>6 DEF SelfFacts, OnePlace, LocalsOK,
    ClaimHeld, Unmoved, BackupFree, Unpublished, Fresh, Replaced, Found, Older,
    Ordered, SoloHeirs
<1> QED
  BY <1>7, <1>8 DEF SoloOrdered

LEMMA HeirsChooseUndo ==
  ASSUME PackageTypeOK, Structure, Dated, NEW w \in Writer,
         Solo(w), SoloOrdered(w), ChooseUndo(w)
  PROVE  SoloOrdered(w)'
<1> USE DEF Recovering, Reading, Building, Moved, Verifying, Promoting, Ended,
      Mine, Held, SoloLooks, SoloRestores, SoloSweeps, SoloPromotes, Heir,
      ChooseUndoEffect
<1>1. ChooseUndoEffect(w)
  BY ChooseUndoStep
<1>2. /\ SelfFacts(w) /\ OnePlace /\ ClaimHeld(w) /\ Fresh(w)
      /\ BackupFree(w) /\ LocalsOK(w)
  BY Self DEF Structure
<1>3. /\ Held /\ SoloLooks(w) /\ SoloRestores(w) /\ SoloSweeps(w)
      /\ SoloPromotes(w) /\ Ordered /\ SoloHeirs(w)
  BY DEF Solo, SoloOrdered
<1>4. made' = made
  BY DEF ChooseUndo, Paths
<1>5. superseded' = superseded
  BY DEF ChooseUndo, History
<1>6. (Unpublished(w) => w \notin superseded) /\ NoTree \notin superseded
  BY PackageAssumption DEF Dated, PackageTypeOK, Tree
<1>7. Ordered'
  BY <1>1, <1>2, <1>3, <1>4, <1>5, <1>6 DEF SelfFacts, OnePlace, LocalsOK,
    ClaimHeld, Unmoved, BackupFree, Unpublished, Fresh, Replaced, Found, Older,
    Ordered, SoloHeirs
<1>8. SoloHeirs(w)'
  BY <1>1, <1>2, <1>3, <1>4, <1>5, <1>6 DEF SelfFacts, OnePlace, LocalsOK,
    ClaimHeld, Unmoved, BackupFree, Unpublished, Fresh, Replaced, Found, Older,
    Ordered, SoloHeirs
<1> QED
  BY <1>7, <1>8 DEF SoloOrdered

LEMMA HeirsPutBack ==
  ASSUME PackageTypeOK, Structure, Dated, NEW w \in Writer,
         Solo(w), SoloOrdered(w), PutBack(w)
  PROVE  SoloOrdered(w)'
<1> USE DEF Recovering, Reading, Building, Moved, Verifying, Promoting, Ended,
      Mine, Held, SoloLooks, SoloRestores, SoloSweeps, SoloPromotes, Heir,
      PutBackEffect
<1>1. PutBackEffect(w)
  BY PutBackStep
<1>2. /\ SelfFacts(w) /\ OnePlace /\ ClaimHeld(w) /\ Fresh(w)
      /\ BackupFree(w) /\ LocalsOK(w)
  BY Self DEF Structure
<1>3. /\ Held /\ SoloLooks(w) /\ SoloRestores(w) /\ SoloSweeps(w)
      /\ SoloPromotes(w) /\ Ordered /\ SoloHeirs(w)
  BY DEF Solo, SoloOrdered
<1>4. made' = made
  BY DEF PutBack, Paths
<1>5. superseded' = superseded
  BY DEF PutBack, History
<1>6. (Unpublished(w) => w \notin superseded) /\ NoTree \notin superseded
  BY PackageAssumption DEF Dated, PackageTypeOK, Tree
<1>7. Ordered'
  BY <1>1, <1>2, <1>3, <1>4, <1>5, <1>6 DEF SelfFacts, OnePlace, LocalsOK,
    ClaimHeld, Unmoved, BackupFree, Unpublished, Fresh, Replaced, Found, Older,
    Ordered, SoloHeirs
<1>8. SoloHeirs(w)'
  BY <1>1, <1>2, <1>3, <1>4, <1>5, <1>6 DEF SelfFacts, OnePlace, LocalsOK,
    ClaimHeld, Unmoved, BackupFree, Unpublished, Fresh, Replaced, Found, Older,
    Ordered, SoloHeirs
<1> QED
  BY <1>7, <1>8 DEF SoloOrdered

LEMMA HeirsDropBackup ==
  ASSUME PackageTypeOK, Structure, Dated, NEW w \in Writer,
         Solo(w), SoloOrdered(w), DropBackup(w)
  PROVE  SoloOrdered(w)'
<1> USE DEF Recovering, Reading, Building, Moved, Verifying, Promoting, Ended,
      Mine, Held, SoloLooks, SoloRestores, SoloSweeps, SoloPromotes, Heir,
      DropBackupEffect
<1>1. DropBackupEffect(w)
  BY DropBackupStep
<1>2. /\ SelfFacts(w) /\ OnePlace /\ ClaimHeld(w) /\ Fresh(w)
      /\ BackupFree(w) /\ LocalsOK(w)
  BY Self DEF Structure
<1>3. /\ Held /\ SoloLooks(w) /\ SoloRestores(w) /\ SoloSweeps(w)
      /\ SoloPromotes(w) /\ Ordered /\ SoloHeirs(w)
  BY DEF Solo, SoloOrdered
<1>4. made' = made
  BY DEF DropBackup, Paths
<1>5. superseded' = superseded
  BY DEF DropBackup, History
<1>6. (Unpublished(w) => w \notin superseded) /\ NoTree \notin superseded
  BY PackageAssumption DEF Dated, PackageTypeOK, Tree
<1>7. Ordered'
  BY <1>1, <1>2, <1>3, <1>4, <1>5, <1>6 DEF SelfFacts, OnePlace, LocalsOK,
    ClaimHeld, Unmoved, BackupFree, Unpublished, Fresh, Replaced, Found, Older,
    Ordered, SoloHeirs
<1>8. SoloHeirs(w)'
  BY <1>1, <1>2, <1>3, <1>4, <1>5, <1>6 DEF SelfFacts, OnePlace, LocalsOK,
    ClaimHeld, Unmoved, BackupFree, Unpublished, Fresh, Replaced, Found, Older,
    Ordered, SoloHeirs
<1> QED
  BY <1>7, <1>8 DEF SoloOrdered

LEMMA HeirsDropDone ==
  ASSUME PackageTypeOK, Structure, Dated, NEW w \in Writer,
         Solo(w), SoloOrdered(w), DropDone(w)
  PROVE  SoloOrdered(w)'
<1> USE DEF Recovering, Reading, Building, Moved, Verifying, Promoting, Ended,
      Mine, Held, SoloLooks, SoloRestores, SoloSweeps, SoloPromotes, Heir,
      DropDoneEffect
<1>1. DropDoneEffect(w)
  BY DropDoneStep
<1>2. /\ SelfFacts(w) /\ OnePlace /\ ClaimHeld(w) /\ Fresh(w)
      /\ BackupFree(w) /\ LocalsOK(w)
  BY Self DEF Structure
<1>3. /\ Held /\ SoloLooks(w) /\ SoloRestores(w) /\ SoloSweeps(w)
      /\ SoloPromotes(w) /\ Ordered /\ SoloHeirs(w)
  BY DEF Solo, SoloOrdered
<1>4. made' = made
  BY DEF DropDone, Paths
<1>5. superseded' = superseded
  BY DEF DropDone, History
<1>6. (Unpublished(w) => w \notin superseded) /\ NoTree \notin superseded
  BY PackageAssumption DEF Dated, PackageTypeOK, Tree
<1>7. Ordered'
  BY <1>1, <1>2, <1>3, <1>4, <1>5, <1>6 DEF SelfFacts, OnePlace, LocalsOK,
    ClaimHeld, Unmoved, BackupFree, Unpublished, Fresh, Replaced, Found, Older,
    Ordered, SoloHeirs
<1>8. SoloHeirs(w)'
  BY <1>1, <1>2, <1>3, <1>4, <1>5, <1>6 DEF SelfFacts, OnePlace, LocalsOK,
    ClaimHeld, Unmoved, BackupFree, Unpublished, Fresh, Replaced, Found, Older,
    Ordered, SoloHeirs
<1> QED
  BY <1>7, <1>8 DEF SoloOrdered

LEMMA HeirsCrash ==
  ASSUME PackageTypeOK, Structure, Dated, NEW w \in Writer,
         Solo(w), SoloOrdered(w), Crash(w)
  PROVE  SoloOrdered(w)'
<1> USE DEF Recovering, Reading, Building, Moved, Verifying, Promoting, Ended,
      Mine, Held, SoloLooks, SoloRestores, SoloSweeps, SoloPromotes, Heir,
      CrashEffect
<1>1. CrashEffect(w)
  BY CrashStep
<1>2. /\ SelfFacts(w) /\ OnePlace /\ ClaimHeld(w) /\ Fresh(w)
      /\ BackupFree(w) /\ LocalsOK(w)
  BY Self DEF Structure
<1>3. /\ Held /\ SoloLooks(w) /\ SoloRestores(w) /\ SoloSweeps(w)
      /\ SoloPromotes(w) /\ Ordered /\ SoloHeirs(w)
  BY DEF Solo, SoloOrdered
<1>4. made' = made
  BY DEF Crash, Paths
<1>5. superseded' = superseded
  BY DEF Crash, History
<1>6. (Unpublished(w) => w \notin superseded) /\ NoTree \notin superseded
  BY PackageAssumption DEF Dated, PackageTypeOK, Tree
<1>7. Ordered'
  BY <1>1, <1>2, <1>3, <1>4, <1>5, <1>6 DEF SelfFacts, OnePlace, LocalsOK,
    ClaimHeld, Unmoved, BackupFree, Unpublished, Fresh, Replaced, Found, Older,
    Ordered, SoloHeirs
<1>8. SoloHeirs(w)'
  BY <1>1, <1>2, <1>3, <1>4, <1>5, <1>6 DEF SelfFacts, OnePlace, LocalsOK,
    ClaimHeld, Unmoved, BackupFree, Unpublished, Fresh, Replaced, Found, Older,
    Ordered, SoloHeirs
<1> QED
  BY <1>7, <1>8 DEF SoloOrdered
=============================================================================
