--------------------------- MODULE ArticlePackage ---------------------------
(***************************************************************************)
(* Publishing an article package (article_standard.py): a directory tree   *)
(* that several containers rebuild, each in a staging directory of its own *)
(* that replaces the package by two renames: package to a backup with a    *)
(* fresh name, staging to package.  A writer first repairs what an earlier *)
(* one left when it died between the two.                                  *)
(*                                                                         *)
(* A tree stands for its device and inode: _path_device_inode of a path is *)
(* the tree found there.  A rename onto a directory that is not empty      *)
(* fails, so a test that a path is free and the rename after it are one    *)
(* step; a test of what is there and the rename after it are two, because  *)
(* another writer may swap the tree in between.  shutil.rmtree tears the   *)
(* tree it opened first and removes the path last, in two steps where      *)
(* another writer can see the path.  A staging directory has a random name *)
(* and no other reader; it is not represented.                             *)
(***************************************************************************)
EXTENDS Integers, Sequences, SequencesExt

CONSTANTS
  Writer,      \* calls of write_article_package for one package directory
  Earlier,     \* earlier trees, a sequence from the oldest to the newest
  Left,        \* the backup name an earlier writer left
  NoTree,      \* nothing at this path, or no value yet
  MaxCrashes,  \* bound on writers that die
  MaxFaults    \* bound on reads, renames and removals that fail (OSError)

Package == "package"   \* the place of the package directory

ASSUME PackageAssumption ==
  /\ Earlier \in Seq(ToSet(Earlier)) /\ Len(Earlier) >= 2
  /\ IsInjective(Earlier)
  /\ NoTree \notin Writer /\ NoTree \notin ToSet(Earlier)
  /\ Left \notin Writer /\ NoTree # Left
  /\ Package \notin Writer \cup {Left, NoTree}
  /\ Writer \cap ToSet(Earlier) = {}
  /\ MaxCrashes \in Nat /\ MaxFaults \in Nat

Tree == Writer \cup ToSet(Earlier)   \* a writer's tree is named after it
Backup == Writer \cup {Left}         \* .name.backup-<uuid>, one per writer

VARIABLES
  package,     \* the tree at the package directory
  backup,      \* the tree at each backup name
  claim,       \* the tree at the writer's .name.remove-claim-<uuid>
  whole,       \* the trees whose manifest, quality and payload are complete
  made,        \* the trees in the order of their modification times
  pc,          \* where each writer is
  local,       \* its local variables
  superseded,  \* history: trees a successful write replaced
  undisturbed, \* history: the last call, if no other overlapped it and
               \* no removal failed in its recovery
  hindered,    \* history: calls in whose recovery or rollback a look or a
               \* rename failed
  unrolled,    \* history: a rollback could not remove the tree it published
  crashes, faults

pvars == <<package, backup, claim, whole, made, pc, local, superseded,
           undisturbed, hindered, unrolled, crashes, faults>>

Ended == {"ok", "failed"}
Label == Ended \cup
  {"idle", "list", "present", "owner", "check", "choose", "recheck",
   "claim", "claimed", "restore", "restored", "sweep",
   "stage", "look", "own", "moveAway", "movedAway", "publish", "verify",
   "verifyTree", "tidy", "tidied", "undo", "undoing", "torn",
   "undone", "putBack", "drop", "dropped", "dead"}

Locals == [ todo : SUBSET Backup, pick : Backup \cup {NoTree},
            owner : Tree \cup {NoTree}, present : BOOLEAN,
            target : Backup \cup {Package}, strict : BOOLEAN,
            published : BOOLEAN,
            victim : Tree \cup {NoTree} ]
NoLocals == [ todo |-> {}, pick |-> NoTree, owner |-> NoTree, present |-> FALSE,
              target |-> Package, strict |-> FALSE, published |-> FALSE,
              victim |-> NoTree ]

PackageTypeOK ==
  /\ package \in Tree \cup {NoTree}
  /\ backup \in [Backup -> Tree \cup {NoTree}]
  /\ claim \in [Writer -> Tree \cup {NoTree}]
  /\ whole \subseteq Tree
  /\ made \in Seq(Tree)
  /\ pc \in [Writer -> Label]
  /\ local \in [Writer -> Locals]
  /\ superseded \subseteq Tree /\ undisturbed \subseteq Writer
  /\ hindered \subseteq Writer /\ unrolled \in BOOLEAN
  /\ crashes \in 0..MaxCrashes /\ faults \in 0..MaxFaults

(* What an earlier writer leaves: the newest tree published, published     *)
(* with a backup it failed to remove, moved away with nothing published,   *)
(* or moved away with the new tree torn by an unfinished rollback.         *)
LeftBehind(there, aside, good, gone) ==
  /\ package = there
  /\ backup = [b \in Backup |-> IF b = Left THEN aside ELSE NoTree]
  /\ whole = good /\ superseded = gone

PackageInit ==
  LET old == Earlier[1]  new == Earlier[2] IN
  /\ \/ LeftBehind(new, NoTree, {new}, {})
     \/ LeftBehind(new, old, {old, new}, {old})
     \/ LeftBehind(NoTree, old, {old}, {})
     \/ LeftBehind(new, old, {old}, {})
  /\ claim = [w \in Writer |-> NoTree]
  /\ made = Earlier
  /\ pc = [w \in Writer |-> "idle"]
  /\ local = [w \in Writer |-> NoLocals]
  /\ undisturbed = {} /\ hindered = {} /\ unrolled = FALSE
  /\ crashes = 0 /\ faults = 0

-----------------------------------------------------------------------------
Older(s, t) == \E i, j \in DOMAIN made : i < j /\ made[i] = s /\ made[j] = t
Complete(t) == t \in whole
Goto(w, label) == pc' = [pc EXCEPT ![w] = label]
Set(w, rec) == local' = [local EXCEPT ![w] = rec]
Bounds == <<crashes, faults>>
Mishaps == <<hindered, unrolled>>
History == <<superseded, undisturbed, Mishaps>>
Paths == <<package, backup, claim, whole, made>>
At(place) == IF place = Package THEN package ELSE backup[place]
FoundOfWriters == {b \in Writer : backup[b] # NoTree}
Found == {b \in Backup : backup[b] # NoTree}

\* Takes the tree at a place away and leaves another (or nothing) there.
Put(place, t) ==
  IF place = Package
  THEN package' = t /\ UNCHANGED backup
  ELSE backup' = [backup EXCEPT ![place] = t] /\ UNCHANGED package

-----------------------------------------------------------------------------
(* _recover_interrupted_article_package.                                   *)

Running(w) == pc[w] \notin Ended \cup {"idle", "dead"}
Alone(w) == \A v \in Writer \ {w} : ~Running(v)

\* Named bounds: two calls may overlap, a third waits for both to end, and
\* of the calls that overlapped none fails or dies.
OneTrouble(w) ==
  Alone(w) \/ (undisturbed # {} /\ crashes = 0 /\ faults = 0)
Fault(w) == /\ w \in undisturbed
            /\ faults < MaxFaults /\ faults' = faults + 1
Hinders(w) == /\ Fault(w) /\ hindered' = hindered \cup {w}
              /\ UNCHANGED <<superseded, undisturbed, unrolled, crashes>>

Start(w) ==
  /\ pc[w] = "idle" /\ Goto(w, "list")
  /\ OneTrouble(w)
  /\ undisturbed' = IF Alone(w) THEN {w} ELSE {}
  /\ UNCHANGED <<Paths, local, superseded, Mishaps, Bounds>>

ListBackups(w) ==
  /\ pc[w] = "list"
  /\ Set(w, [local[w] EXCEPT !.todo = Found])
  /\ Goto(w, IF Found = {} THEN "stage" ELSE "present")
  /\ UNCHANGED <<Paths, History, Bounds>>

SeePackage(w) ==
  /\ pc[w] = "present"
  /\ Set(w, [local[w] EXCEPT !.present = (package # NoTree)])
  /\ Goto(w, "owner")
  /\ UNCHANGED <<Paths, History, Bounds>>

\* A package that vanished between the two reads is "unstable" and raises.
NoteOwner(w) ==
  /\ pc[w] = "owner"
  /\ Set(w, [local[w] EXCEPT !.owner = package])
  /\ Goto(w, IF local[w].present /\ package = NoTree THEN "failed" ELSE "check")
  /\ UNCHANGED <<Paths, History, Bounds>>

CheckThere(w) ==
  /\ pc[w] = "check"
  /\ Goto(w, IF package # NoTree THEN "sweep" ELSE "choose")
  /\ Set(w, [local[w] EXCEPT !.strict = FALSE])
  /\ UNCHANGED <<Paths, History, Bounds>>
CheckSkipped(w) ==
  /\ pc[w] = "check" /\ Goto(w, "choose")
  /\ Set(w, [local[w] EXCEPT !.strict = FALSE])
  /\ UNCHANGED <<Paths, History, Bounds>>
CheckPackage(w) ==
  /\ pc[w] = "check"
  /\ Goto(w, IF Complete(package) THEN "sweep" ELSE "choose")
  /\ Set(w, [local[w] EXCEPT !.strict = FALSE])
  /\ UNCHANGED <<Paths, History, Bounds>>

\* The backups are tried from the newest modification time to the oldest.
NewestFirst(b, rest) == \A c \in rest : ~Older(backup[b], backup[c])

Good(w) == {b \in local[w].todo \cap Found : Complete(backup[b])}
ChooseFrom(w, seen) ==
  \/ seen = {} /\ Goto(w, "stage") /\ UNCHANGED local
  \/ \E b \in seen :
       /\ NewestFirst(b, seen)
       /\ Set(w, [local[w] EXCEPT !.pick = b])
       /\ Goto(w, "recheck")

ChooseBackup(w) ==
  /\ pc[w] = "choose"
  /\ ChooseFrom(w, Good(w))
  /\ UNCHANGED <<Paths, History, Bounds>>

\* Recovery stands back when the package is not the one it looked at, and
\* passes over a backup that has gone.
PackageSame(w) ==
  IF local[w].present THEN package = local[w].owner ELSE package = NoTree
Recheck(w) ==
  LET l == local[w] IN
  /\ pc[w] = "recheck"
  /\ \/ ~PackageSame(w) /\ Goto(w, "stage") /\ UNCHANGED local
     \/ /\ PackageSame(w) /\ backup[l.pick] = NoTree
        /\ Set(w, [l EXCEPT !.todo = @ \ {l.pick}]) /\ Goto(w, "choose")
     \/ /\ PackageSame(w) /\ backup[l.pick] # NoTree
        /\ Set(w, [l EXCEPT !.target = Package])
        /\ Goto(w, IF l.present THEN "claim" ELSE "restore")
  /\ UNCHANGED <<Paths, History, Bounds>>

\* The second tests and the rename: another writer can come between them,
\* and the rename then fails instead of the test.
RestoreBackup(w) ==
  LET b == local[w].pick IN
  /\ pc[w] = "restore"
  /\ \/ /\ package = NoTree /\ backup[b] # NoTree
        /\ package' = backup[b]
        /\ backup' = [backup EXCEPT ![b] = NoTree]
        /\ Set(w, [local[w] EXCEPT !.owner = backup[b]])
        /\ Goto(w, "restored")
     \/ /\ package # NoTree \/ backup[b] = NoTree
        /\ \E label \in {"stage", "failed"} : Goto(w, label)
        /\ UNCHANGED <<package, backup, local>>
  /\ UNCHANGED <<claim, whole, made, History, Bounds>>

VerifyRestored(w) ==
  /\ pc[w] = "restored"
  /\ IF package = local[w].owner
     THEN /\ Goto(w, "sweep")
          /\ Set(w, [local[w] EXCEPT !.todo = @ \ {local[w].pick},
                                     !.strict = TRUE])
     ELSE Goto(w, "failed") /\ UNCHANGED local
  /\ UNCHANGED <<Paths, History, Bounds>>

\* The listed backups go one by one through a claim.  Beside a complete
\* package a removal that fails is passed over, after a restore it raises.
SweepBackups(w) ==
  LET l == local[w] IN
  /\ pc[w] = "sweep"
  /\ \/ l.todo = {} /\ Goto(w, "stage") /\ UNCHANGED local
     \/ \E b \in l.todo :
          /\ Set(w, [l EXCEPT !.target = b, !.todo = @ \ {b},
                              !.owner = backup[b]])
          /\ Goto(w, IF backup[b] = NoTree THEN "sweep" ELSE "claim")
  /\ UNCHANGED <<Paths, History, Bounds>>

-----------------------------------------------------------------------------
(* _remove_owned_article_package_path: the path is renamed to a claim, and *)
(* what was caught is looked at afterwards.  The look before the rename is *)
(* that of Recheck and SweepBackups, which come right before it.           *)

\* Where the caller goes on after a removal that did or did not happen.
After(w, done) ==
  IF local[w].target # Package THEN "sweep"
  ELSE IF done THEN "restore" ELSE "stage"

ClaimPath(w) ==
  LET l == local[w] IN
  /\ pc[w] = "claim"
  /\ IF At(l.target) = NoTree
     THEN /\ Goto(w, After(w, FALSE))
          /\ UNCHANGED <<package, backup, claim>>
     ELSE /\ claim' = [claim EXCEPT ![w] = At(l.target)]
          /\ Put(l.target, NoTree)
          /\ Goto(w, "claimed")
  /\ UNCHANGED <<whole, made, local, History, Bounds>>

ClaimForeign(w) == claim[w] # local[w].owner

\* _restore_unowned_article_package_claim: put back if the path is free;
\* if it is not, the foreign tree stays at the claim, where nothing looks.
RestoreForeign(w) ==
  LET t == local[w].target IN
  /\ pc[w] = "claimed" /\ ClaimForeign(w)
  /\ IF At(t) = NoTree THEN Put(t, claim[w]) ELSE UNCHANGED <<package, backup>>
  /\ claim' = [claim EXCEPT ![w] = NoTree]
  /\ Goto(w, After(w, FALSE))
  /\ UNCHANGED <<whole, made, local, History, Bounds>>

RemoveClaimed(w) ==
  /\ pc[w] = "claimed" /\ ~ClaimForeign(w)
  /\ claim' = [claim EXCEPT ![w] = NoTree]
  /\ whole' = whole \ {claim[w]}
  /\ Goto(w, After(w, TRUE))
  /\ UNCHANGED <<package, backup, made, local, History, Bounds>>

\* rmtree fails part way: _restore_owned_article_package_claim puts what is
\* left back if the path is free, and the error goes up.
RemovalFails(w) ==
  LET t == local[w].target IN
  /\ pc[w] = "claimed" /\ ~ClaimForeign(w)
  /\ Fault(w)
  /\ whole' \in {whole, whole \ {claim[w]}}
  /\ IF At(t) = NoTree THEN Put(t, claim[w]) ELSE UNCHANGED <<package, backup>>
  /\ claim' = [claim EXCEPT ![w] = NoTree]
  /\ IF t # Package /\ ~local[w].strict
     THEN Goto(w, "sweep") /\ UNCHANGED undisturbed
     ELSE Goto(w, "failed") /\ undisturbed' = {}
  /\ UNCHANGED <<made, local, superseded, Mishaps, crashes>>

-----------------------------------------------------------------------------
(* Looks and renames of a recovery that fail.  A path that cannot be       *)
(* looked at counts as gone or as another's, and a tree that cannot be     *)
(* read as incomplete, whole or not.                                       *)

MisreadList(w) ==
  /\ pc[w] = "list" /\ Hinders(w)
  /\ \E seen \in SUBSET Found :
       /\ seen # Found
       /\ Set(w, [local[w] EXCEPT !.todo = seen])
       /\ Goto(w, IF seen = {} THEN "stage" ELSE "present")
  /\ UNCHANGED Paths

MisreadPackage(w) ==
  /\ pc[w] = "check" /\ Complete(package) /\ Hinders(w)
  /\ Set(w, [local[w] EXCEPT !.strict = FALSE])
  /\ Goto(w, "choose")
  /\ UNCHANGED Paths

\* Passed over while choosing, or on the second look at the one chosen: the
\* backups that come after it are tried.
Following(w) ==
  {b \in Good(w) :
     pc[w] = "recheck" => Older(backup[b], backup[local[w].pick])}
MisreadBackup(w) ==
  /\ pc[w] \in {"choose", "recheck"} /\ Hinders(w)
  /\ \E seen \in SUBSET Following(w) :
       seen # Good(w) /\ ChooseFrom(w, seen)
  /\ UNCHANGED Paths

\* The tree about to be moved seems to have gone: recovery stands back.
MisreadMoved(w) ==
  /\ pc[w] \in {"recheck", "claim", "restore"} /\ Hinders(w)
  /\ Goto(w, After(w, FALSE))
  /\ UNCHANGED <<Paths, local>>

\* A package that is there and cannot be looked at, a rename that fails, a
\* restored tree that cannot be looked at: the error ends the call.
RecoveryFails(w) ==
  /\ \/ pc[w] = "owner" /\ local[w].present
     \/ pc[w] = "claim" /\ (local[w].target = Package \/ local[w].strict)
     \/ pc[w] \in {"restore", "restored"}
  /\ Hinders(w)
  /\ Goto(w, "failed")
  /\ UNCHANGED <<Paths, local>>

-----------------------------------------------------------------------------
(* Building the staging tree.  The source read for it is checked for       *)
(* change; a polished article below standard, an unreadable or changed     *)
(* source, a full disk and a package that cannot be looked at end the call *)
(* with the package as it was.                                             *)

BuildTree(w) ==
  /\ pc[w] = "stage"
  /\ whole' = whole \cup {w}
  /\ made' = Append(made, w)
  /\ Goto(w, "look")
  /\ UNCHANGED <<package, backup, claim, local, History, Bounds>>

BuildFails(w) ==
  /\ pc[w] = "stage" /\ Goto(w, "failed")
  /\ UNCHANGED <<Paths, local, History, Bounds>>

-----------------------------------------------------------------------------
(* _promote_article_package_tree.                                          *)

LookForPackage(w) ==
  /\ pc[w] = "look"
  /\ Set(w, [local[w] EXCEPT !.owner = NoTree, !.pick = NoTree,
                             !.published = FALSE])
  /\ Goto(w, IF package = NoTree THEN "publish" ELSE "own")
  /\ UNCHANGED <<Paths, History, Bounds>>

RecordOwner(w) ==
  /\ pc[w] = "own"
  /\ IF package = NoTree
     THEN Goto(w, "failed") /\ UNCHANGED local
     ELSE Set(w, [local[w] EXCEPT !.owner = package]) /\ Goto(w, "moveAway")
  /\ UNCHANGED <<Paths, History, Bounds>>

\* pick = w from here on: the call has a backup of its own.
MoveAway(w) ==
  /\ pc[w] = "moveAway"
  /\ Set(w, [local[w] EXCEPT !.pick = w])
  /\ IF package = NoTree
     THEN Goto(w, "undo") /\ UNCHANGED <<package, backup>>
     ELSE /\ backup' = [backup EXCEPT ![w] = package] /\ package' = NoTree
          /\ Goto(w, "movedAway")
  /\ UNCHANGED <<claim, whole, made, History, Bounds>>

VerifyBackup(w) ==
  /\ pc[w] = "movedAway"
  /\ Goto(w, IF backup[w] = local[w].owner THEN "publish" ELSE "undo")
  /\ UNCHANGED <<Paths, local, History, Bounds>>

Publish(w) ==
  /\ pc[w] = "publish"
  /\ IF package = NoTree
     THEN /\ package' = w
          /\ Set(w, [local[w] EXCEPT !.published = TRUE])
          /\ Goto(w, "verify")
     ELSE Goto(w, "undo") /\ UNCHANGED <<package, local>>
  /\ UNCHANGED <<backup, claim, whole, made, History, Bounds>>

VerifyOwner(w) ==
  /\ pc[w] = "verify"
  /\ Goto(w, IF package = w THEN "verifyTree" ELSE "undo")
  /\ UNCHANGED <<Paths, local, History, Bounds>>

\* Completeness and once more the owner.
VerifyTree(w) ==
  /\ pc[w] = "verifyTree"
  /\ Goto(w, IF package = w /\ Complete(w) THEN "tidy" ELSE "undo")
  /\ UNCHANGED <<Paths, local, History, Bounds>>
\* A look at the backup or at what was published fails.
ReadFails(w) ==
  /\ pc[w] \in {"movedAway", "verify", "verifyTree"}
  /\ Fault(w)
  /\ Goto(w, "undo")
  /\ UNCHANGED <<Paths, local, History, crashes>>

\* The write has succeeded; a backup that cannot be removed is a warning.
Replaced(w) == IF local[w].pick = w THEN {local[w].owner} ELSE {}
TidyBackup(w) ==
  LET mine == local[w].pick = w /\ backup[w] # NoTree
                /\ backup[w] = local[w].owner IN
  /\ pc[w] = "tidy"
  /\ whole' = IF mine THEN whole \ {backup[w]} ELSE whole
  /\ Goto(w, IF mine THEN "tidied" ELSE "ok")
  /\ superseded' = IF mine THEN superseded ELSE superseded \cup Replaced(w)
  /\ UNCHANGED <<undisturbed, Mishaps, package, backup, claim, made, local,
                 Bounds>>
TidyFails(w) ==
  /\ pc[w] = "tidy" /\ backup[w] # NoTree
  /\ Fault(w)
  /\ Goto(w, "ok")
  /\ superseded' = superseded \cup Replaced(w)
  /\ UNCHANGED <<undisturbed, Mishaps, Paths, local, crashes>>
TidyDone(w) ==
  /\ pc[w] = "tidied"
  /\ backup' = [backup EXCEPT ![w] = NoTree]
  /\ Goto(w, "ok")
  /\ superseded' = superseded \cup Replaced(w)
  /\ UNCHANGED <<undisturbed, Mishaps, package, claim, whole, made, local,
                 Bounds>>

-----------------------------------------------------------------------------
(* Its rollback: take the own tree away, put the backup back if the        *)
(* package is absent, otherwise drop the backup.                           *)

MayRollBack(w) == local[w].published /\ package = w

UndoPublished(w) ==
  /\ pc[w] = "undo"
  /\ Goto(w, IF MayRollBack(w) THEN "undoing" ELSE "undone")
  /\ UNCHANGED <<Paths, local, History, Bounds>>

\* rmtree opens whatever is at the path now (the test was before), tears
\* it, and removes the path if it still holds that tree.
TearPackage(w) ==
  /\ pc[w] = "undoing"
  /\ Set(w, [local[w] EXCEPT !.victim = package])
  /\ whole' = whole \ {package}
  /\ Goto(w, "torn")
  /\ UNCHANGED <<package, backup, claim, made, History, Bounds>>
RemovePackage(w) ==
  /\ pc[w] = "torn"
  /\ package' = IF package = local[w].victim THEN NoTree ELSE package
  /\ Goto(w, "undone")
  /\ UNCHANGED <<backup, claim, whole, made, local, History, Bounds>>

ChooseUndo(w) ==
  /\ pc[w] = "undone"
  /\ Goto(w, IF local[w].pick # w \/ backup[w] # local[w].owner THEN "failed"
             ELSE IF package = NoTree THEN "putBack" ELSE "drop")
  /\ UNCHANGED <<Paths, local, History, Bounds>>

PutBack(w) ==
  /\ pc[w] = "putBack"
  /\ IF package = NoTree /\ backup[w] # NoTree
     THEN package' = backup[w] /\ backup' = [backup EXCEPT ![w] = NoTree]
     ELSE UNCHANGED <<package, backup>>
  /\ Goto(w, "failed")
  /\ UNCHANGED <<claim, whole, made, local, History, Bounds>>

DropBackup(w) ==
  /\ pc[w] = "drop"
  /\ whole' = whole \ {backup[w]}
  /\ Goto(w, "dropped")
  /\ UNCHANGED <<package, backup, claim, made, local, History, Bounds>>
DropDone(w) ==
  /\ pc[w] = "dropped"
  /\ backup' = [backup EXCEPT ![w] = NoTree]
  /\ Goto(w, "failed")
  /\ UNCHANGED <<package, claim, whole, made, local, History, Bounds>>

\* The removal of the own tree fails, before or after it tore it: the error
\* is noted and the rollback goes on beside what is left.
UndoFails(w) ==
  /\ pc[w] \in {"undoing", "torn"} /\ Fault(w)
  /\ unrolled' = TRUE
  /\ Goto(w, "undone")
  /\ UNCHANGED <<Paths, local, superseded, undisturbed, hindered, crashes>>

\* A look at the own tree fails and it stays; a look at the backup, its way
\* back or its removal fails and it stays.
RollbackFails(w) ==
  /\ Hinders(w)
  /\ \/ pc[w] = "undo" /\ MayRollBack(w) /\ Goto(w, "undone")
     \/ /\ pc[w] \in {"undone", "putBack", "drop", "dropped"}
        /\ Goto(w, "failed")
  /\ UNCHANGED <<Paths, local>>

-----------------------------------------------------------------------------
\* The process dies; what it held in a claim stays where nothing looks.
Crash(w) ==
  /\ Running(w)
  /\ w \in undisturbed /\ crashes < MaxCrashes /\ crashes' = crashes + 1
  /\ Goto(w, "dead")
  /\ UNCHANGED <<Paths, local, History, faults>>

PackageNext ==
  \E w \in Writer :
    \/ Start(w) \/ ListBackups(w) \/ SeePackage(w) \/ NoteOwner(w)
    \/ CheckPackage(w) \/ ChooseBackup(w) \/ Recheck(w) \/ RestoreBackup(w)
    \/ VerifyRestored(w) \/ SweepBackups(w) \/ ClaimPath(w)
    \/ RestoreForeign(w) \/ RemoveClaimed(w) \/ RemovalFails(w)
    \/ MisreadList(w) \/ MisreadPackage(w) \/ MisreadBackup(w)
    \/ MisreadMoved(w) \/ RecoveryFails(w)
    \/ BuildTree(w) \/ BuildFails(w) \/ LookForPackage(w) \/ RecordOwner(w)
    \/ MoveAway(w) \/ VerifyBackup(w) \/ Publish(w) \/ VerifyOwner(w)
    \/ VerifyTree(w) \/ ReadFails(w) \/ TidyBackup(w) \/ TidyFails(w)
    \/ TidyDone(w) \/ UndoPublished(w) \/ TearPackage(w) \/ RemovePackage(w)
    \/ ChooseUndo(w) \/ PutBack(w) \/ DropBackup(w) \/ DropDone(w)
    \/ UndoFails(w) \/ RollbackFails(w) \/ Crash(w)

PackageSpec == PackageInit /\ [][PackageNext]_pvars

-----------------------------------------------------------------------------
(* A complete tree is never out of reach: it is at the package, at a       *)
(* backup name that recovery lists, or in the claim of a running writer    *)
(* that puts it back.  One event breaks this, the removal of the own tree  *)
(* failing in a rollback, which then drops the backup beside the ruin.     *)
NeverLost ==
  \/ unrolled
  \/ Complete(package)
  \/ \E b \in Backup : Complete(backup[b])
  \/ \E w \in Writer : Running(w) /\ Complete(claim[w])

(* A call that no other overlapped leaves a complete package behind,       *)
(* whatever earlier writers left and whether it succeeds or fails, unless  *)
(* a look or a rename failed in its own recovery or rollback.              *)
CallRepairs ==
  unrolled \/ \A w \in undisturbed \ hindered :
                pc[w] \in Ended => Complete(package)

(* A tree that a successful write replaced does not come back, unless a    *)
(* recovery misread the newer ones or a rollback left one torn.            *)
SupersededStaysGone ==
  unrolled \/ hindered # {} \/ package \notin superseded
=============================================================================
