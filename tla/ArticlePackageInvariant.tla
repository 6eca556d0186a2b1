---------------------- MODULE ArticlePackageInvariant ----------------------
(***************************************************************************)
(* The inductive invariant of ArticlePackage.tla: what is true of the      *)
(* trees, the paths and the locals of the writers between any two steps.   *)
(* It has four parts: the structure that every state has, what a call      *)
(* that runs by itself knows, what is left of that when a look or a rename *)
(* fails on it, and what two calls that overlap leave of each other's      *)
(* assumptions.                                                            *)
(***************************************************************************)
EXTENDS ArticlePackage

Reading == {"list", "present", "owner", "check", "choose", "recheck"}
Recovering == Reading \cup {"idle", "claim", "restore", "restored", "sweep"}
Building == {"stage", "look", "own", "moveAway"}
Moved == {"movedAway", "publish"}
Verifying == {"verify", "verifyTree", "tidy"}
Promoting == Moved \cup Verifying \cup
  {"tidied", "undo", "undoing", "torn", "undone", "putBack", "drop", "dropped"}
Off(w) == pc[w] \in Ended

-----------------------------------------------------------------------------
(* Structure.                                                              *)

\* A tree is in one place at most.
OnePlace ==
  /\ \A b, c \in Backup : b # c /\ backup[b] # NoTree => backup[b] # backup[c]
  /\ \A b \in Backup : backup[b] # NoTree => backup[b] # package
  /\ \A w \in Writer : claim[w] # NoTree =>
       /\ claim[w] # package
       /\ \A b \in Backup : claim[w] # backup[b]
       /\ \A v \in Writer : v # w => claim[w] # claim[v]

\* A call holds a claim between the rename and what follows it.
ClaimHeld(w) ==
  /\ pc[w] = "claimed" => claim[w] # NoTree
  /\ claim[w] # NoTree => pc[w] \in {"claimed", "dead"}

\* The own tree was not moved to the package, so nobody else saw it.
Unpublished(w) ==
  \/ pc[w] \in Recovering \cup {"claimed"} \cup Building \cup Moved
  \/ /\ pc[w] \in {"undo", "undone", "putBack", "drop", "dropped"}
     /\ ~local[w].published
Fresh(w) ==
  Unpublished(w) =>
    /\ package # w
    /\ \A b \in Backup : backup[b] # w
    /\ \A v \in Writer : claim[v] # w /\ local[v].owner # w
    /\ pc[w] \notin Recovering \cup {"claimed", "stage"} => w \in whole

\* The call did not move the package to its own backup name.
Unmoved(w) ==
  \/ pc[w] \in Recovering \cup {"claimed"} \cup Building
  \/ pc[w] \in Promoting /\ local[w].pick # w
BackupFree(w) == Unmoved(w) => backup[w] = NoTree

\* The backups a recovery knows of are of calls that moved the package.
Named(w, b) ==
  b # w /\ (b \in Writer => ~Unmoved(b))
LocalsOK(w) ==
  LET l == local[w] IN
  /\ pc[w] \in {"idle", "list"} => l = NoLocals
  /\ \A b \in l.todo : Named(w, b)
  /\ pc[w] \in {"present", "owner", "check", "choose", "recheck", "restore",
                "restored"} => l.target = Package
  /\ \/ pc[w] \in {"recheck", "restore", "restored"}
     \/ pc[w] \in {"claim", "claimed"} /\ l.target = Package
     => l.pick \in Backup /\ Named(w, l.pick)
  /\ l.target # Package => Named(w, l.target)
  /\ pc[w] \in Verifying \cup {"tidied", "undoing", "torn"} => l.published
  /\ pc[w] \in {"own", "moveAway"} \cup Moved => ~l.published
  /\ pc[w] \in {"movedAway", "tidied", "putBack", "drop", "dropped"}
       => l.pick = w
  /\ pc[w] \in Promoting /\ l.pick = w => l.owner # NoTree
  /\ pc[w] = "moveAway" => l.owner # NoTree
  /\ pc[w] \in {"check", "choose", "recheck", "claim", "claimed", "moveAway"}
       \cup Promoting => l.owner # w

Structure ==
  /\ OnePlace
  /\ \A w \in Writer :
       ClaimHeld(w) /\ Fresh(w) /\ BackupFree(w) /\ LocalsOK(w)

-----------------------------------------------------------------------------
(* Two calls that overlap, and no third one that runs.  Every clause is    *)
(* about x beside y; Both takes them in the two directions.                *)

Mine(w) == local[w].target = Package      \* the removal is of the package
NoneLeft(x, y) ==
  \A b \in Backup : b \notin {x, y} => backup[b] = NoTree
Torn(t) == t # NoTree /\ t \notin whole

\* What other calls left at a backup name is complete and older than both.
LeftWhole(x, y) ==
  \A b \in Backup : b \notin {x, y} /\ backup[b] # NoTree =>
    backup[b] \in whole \ {x, y}

\* A call that will not remove the complete tree it holds.
Keeps(z) ==
  \/ pc[z] \notin Verifying \cup {"tidied", "drop", "dropped"}
     /\ backup[z] \in whole
  \/ pc[z] = "claimed" /\ claim[z] # local[z].owner /\ claim[z] \in whole
Tearing(z) == pc[z] = "torn" /\ local[z].victim = package

Gap(x, y) ==
  package = NoTree => ~NoneLeft(x, y) \/ Keeps(x) \/ Keeps(y)
TornPackage(x, y) ==
  Torn(package) => ~NoneLeft(x, y) \/ Tearing(x) \/ Tearing(y)

\* The backups of a call that has ended, and of one that rolls back.
EndedWhole(x) ==
  pc[x] \in Ended \cup {"idle"} /\ backup[x] # NoTree => backup[x] \in whole
RollbackWhole(x) ==
  pc[x] \in {"undoing", "torn", "putBack"} => backup[x] \in whole

\* Only a package that was found torn is claimed.
FoundTorn(x) ==
  pc[x] = "recheck" \/ (pc[x] \in {"claim", "claimed"} /\ Mine(x))
  => local[x].owner \notin whole

\* While x recovers and takes nothing away from the package, the backup of
\* y is the tree it found there, and what y published is still there.
Smooth(x, y) ==
  pc[x] \in Recovering \/ (pc[x] = "claimed" /\ ~Mine(x)) =>
    /\ backup[y] # NoTree =>
         /\ backup[y] = local[y].owner
         /\ pc[y] \in Moved \cup Verifying \cup {"tidied"}
    /\ pc[y] \in Verifying \cup {"tidied"} => package = y
    /\ backup[y] # NoTree
         /\ pc[x] \in Reading \cup {"idle", "restore"} => NoneLeft(x, y)

\* The same while x holds the package in its claim.
Claimed(x, y) ==
  pc[x] = "claimed" /\ Mine(x) =>
    /\ claim[x] = y =>
         Off(y) \/ (backup[y] # NoTree /\ backup[y] = local[y].owner)
    /\ backup[y] # NoTree =>
         /\ NoneLeft(x, y) /\ backup[y] = local[y].owner
         /\ \/ pc[y] \in Moved /\ package = NoTree
            \/ pc[y] \in Verifying \cup {"tidied"}
            \/ /\ pc[y] \in {"undo", "undone", "putBack"}
               /\ claim[x] = y /\ package = NoTree
    /\ pc[y] \in Verifying \cup {"tidied"} =>
         package = y \/ (package = NoTree /\ claim[x] = y)

\* A restored tree is at the package or y has it.
Restored(x, y) ==
  pc[x] = "restored" =>
    /\ local[x].owner # NoTree
    /\ \/ Off(y) \/ package = local[x].owner
       \/ /\ pc[y] \in Moved \cup Verifying \cup {"tidied"}
          /\ backup[y] = local[x].owner /\ local[y].owner = local[x].owner
       \/ /\ pc[y] = "claimed" /\ Mine(y) /\ package = NoTree
          /\ claim[y] = local[x].owner /\ local[y].owner # local[x].owner

TornLeft(x, y) ==
  Torn(package) /\ ~Tearing(x) /\ ~Tearing(y) =>
    pc[x] \in Reading \cup {"idle", "claim"}

\* While x has a backup to sweep there is a complete package, or y holds one
\* for the moment.
Reaching(x) ==
  \/ pc[x] = "sweep" /\ \E b \in local[x].todo : backup[b] # NoTree
  \/ /\ pc[x] = "claim" /\ ~Mine(x)
     /\ \/ \E b \in local[x].todo : backup[b] # NoTree
        \/ backup[local[x].target] # NoTree
  \/ pc[x] = "claimed" /\ ~Mine(x)
SweepSafe(x, y) ==
  Reaching(x) =>
    \/ package \in whole
    \/ /\ package = NoTree
       /\ \/ pc[y] \in Moved /\ backup[y] \in whole
          \/ /\ pc[y] = "claimed" /\ claim[y] # local[y].owner
             /\ claim[y] \in whole
SweepOther(x, y) ==
  (pc[x] = "sweep" /\ y \in local[x].todo)
  \/ (pc[x] \in {"claim", "claimed"} /\ local[x].target = y)
  => pc[y] \in Verifying \cup {"tidied"} \cup Ended /\ NoneLeft(x, y)
SweepOwner(x) ==
  /\ pc[x] = "claim" /\ ~Mine(x) =>
       backup[local[x].target] \in {NoTree, local[x].owner}
  /\ pc[x] = "claimed" /\ ~Mine(x) => claim[x] = local[x].owner

\* A complete owner that recovery saw is at the package or y moved it away.
OwnerWhole(x, y) ==
  local[x].owner \in whole =>
    /\ pc[x] = "check" =>
         \/ package = local[x].owner
         \/ /\ NoneLeft(x, y) /\ y \notin local[x].todo
            /\ local[x].owner = backup[y] /\ pc[y] \in Moved \cup Verifying
    /\ pc[x] = "choose" => NoneLeft(x, y) /\ y \notin local[x].todo
OwnerSeen(x) ==
  pc[x] \in {"check", "choose", "recheck"} /\ local[x].present
  => local[x].owner # NoTree

\* A call that takes its own tree away has the tree it replaced.
Undoing(x) ==
  \/ pc[x] = "undo" /\ local[x].published /\ package = x
  \/ pc[x] \in {"undoing", "torn"}
UndoBacked(x) ==
  Undoing(x) => backup[x] \in whole /\ backup[x] = local[x].owner

\* The backup of y in the list of x.
ListedOther(x, y) ==
  y \in local[x].todo =>
    /\ pc[x] \in {"present", "owner", "check", "choose", "recheck", "restore"}
       => /\ NoneLeft(x, y)
          /\ \/ package = NoTree /\ pc[y] \in Moved
             \/ /\ package = y
                /\ pc[y] \in Verifying \cup {"tidied"} \cup Ended
    /\ pc[x] = "restored" => local[x].pick = y
    /\ pc[x] \notin {"claim", "claimed"}
RestoredGone(x, y) ==
  pc[x] = "restored" /\ local[x].pick # y => backup[local[x].pick] = NoTree

\* The package that y is about to move away is the one it looked at.
MoveOwn(x, y) ==
  pc[x] \in Recovering \cup {"claimed"} /\ pc[y] = "moveAway" =>
    \/ local[y].owner = package
    \/ /\ pc[x] = "claimed" /\ package = NoTree
       /\ claim[x] = local[y].owner

\* x tears the package: that is its own tree, or what y published over it.
TearingOther(x, y) ==
  /\ pc[x] \in {"undoing", "torn"} =>
       /\ package = y /\ ~Off(y) =>
            /\ backup[y] = x
            /\ pc[y] \in Verifying \cup {"tidied", "undo", "undoing", "torn"}
            /\ \/ pc[y] = "tidied" \/ x \in whole
               \/ y \in whole /\ pc[x] = "torn"
       /\ pc[y] \in Moved => backup[y] = x
  /\ Undoing(x) =>
       /\ package = x /\ pc[x] # "torn" =>
            pc[y] \in Building \cup {"torn"} \cup Ended
       /\ pc[y] \in Building => package = x
       /\ pc[y] = "moveAway" => local[y].owner = x
TornVictim(x, y) ==
  pc[x] = "torn" =>
    /\ local[x].victim \notin whole
    /\ package = y /\ pc[y] \in {"undo", "undoing", "torn"}
         => local[x].victim = y
    /\ package = x /\ ~Off(y) => local[x].victim = x

\* The backup of a call is the tree it looked at, with few exceptions.
BackupOwner(x) ==
  backup[x] # NoTree =>
    /\ pc[x] \in {"publish", "tidied", "undoing", "torn", "putBack", "drop",
                  "dropped"} \cup Verifying => backup[x] = local[x].owner
    /\ pc[x] \in {"movedAway", "undo", "undone"} =>
         backup[x] = local[x].owner \/ backup[x] \in whole

\* The claim of the package catches the torn tree, nothing, or a complete
\* tree that takes its place.
ClaimCatches(x, y) ==
  /\ pc[x] \in {"claim", "claimed"} /\ Mine(x) => local[x].owner # y
  /\ pc[x] = "claim" /\ Mine(x) =>
       /\ package \in {local[x].owner, NoTree} \cup whole
       /\ package = y =>
            /\ NoneLeft(x, y)
            /\ Off(y) \/ (backup[y] # NoTree /\ backup[y] = local[y].owner)
       /\ package = NoTree =>
            /\ pc[y] \in {"restore", "claimed"} \cup Moved
            /\ pc[y] \in {"restore", "claimed"} =>
                 backup[local[y].pick] # NoTree
       /\ pc[y] \in Building \cup Moved \cup Ended => NoneLeft(x, y)
       /\ pc[y] \in Moved => backup[y] # NoTree
       /\ pc[y] \notin {"undo", "undone"}
  /\ pc[x] = "claimed" /\ Mine(x) =>
       /\ claim[x] = local[x].owner \/ claim[x] \in whole
       /\ pc[y] = "claimed" => ~Mine(y)
       /\ claim[x] # local[x].owner =>
            /\ pc[y] \in Moved => backup[y] = NoTree
            /\ package = NoTree \/ Off(y)
                 \/ (pc[y] \in Verifying /\ backup[y] = NoTree)

\* Who can be beside a call that catches a complete package.
CatchForeign(x, y) ==
  /\ Mine(x)
  /\ \/ pc[x] = "claim" /\ package \in whole
     \/ pc[x] = "claimed" /\ claim[x] # local[x].owner
  => /\ pc[y] \notin Reading \cup
          {"idle", "restore", "undoing", "torn", "drop", "dropped"}
     /\ pc[y] \in {"claim", "claimed"} => ~Mine(y)

\* A recovery that has only looked sees no leftover once the other is past
\* its own; it lists every leftover there is.
Early(x, y) ==
  /\ pc[x] \in Reading \cup {"idle"}
  /\ pc[y] \in Building \cup Promoting \cup Ended
  => NoneLeft(x, y)
Listed(x, y) ==
  pc[x] \in Recovering \cup {"claimed"} /\ pc[x] \notin {"idle", "list"} =>
    \A b \in Backup : b \notin {x, y} /\ backup[b] # NoTree =>
      \/ b \in local[x].todo
      \/ pc[x] = "claim" /\ local[x].target = b

\* x moved away what y had published, and y takes it for its own.
Late(x, y) ==
  \/ pc[x] \in Verifying /\ ~(package = x /\ x \in whole)
  \/ pc[x] = "undo" /\ local[x].published
  \/ pc[x] \in {"undoing", "torn", "putBack"}
  \/ pc[x] = "undone" /\ local[x].published /\ local[x].owner = y
MovedOther(x, y) ==
  backup[x] = y /\ Late(x, y) =>
    /\ pc[y] \in {"torn", "undone", "putBack"} \cup Ended
    /\ package # NoTree /\ (package # x \/ pc[x] \in {"undone", "putBack"})
         => Off(y)
    /\ pc[y] \in {"undone", "putBack"} => package = NoTree
MovedTorn(x, y) ==
  Torn(backup[x]) =>
    /\ pc[x] \in Moved =>
         /\ backup[x] = y
         /\ \/ package = NoTree /\ pc[y] \in {"torn", "undone", "putBack"}
            \/ package # NoTree /\ Off(y)
         /\ pc[y] = "undone" =>
              backup[y] = local[y].owner /\ local[y].pick = y
    /\ pc[x] \in Verifying => package = x /\ backup[x] = y

\* While y has only looked, things are as x saw them.
Looking(x) ==
  \/ pc[x] \in Reading \cup {"idle"}
  \/ pc[x] = "claim" /\ Mine(x) /\ Torn(package)
SeenStill(x, y) ==
  Looking(y) =>
    /\ pc[x] \in {"owner", "check", "choose", "recheck"} =>
         (local[x].present <=> package # NoTree)
    /\ pc[x] \in {"check", "choose", "recheck"} => local[x].owner = package
    /\ pc[x] = "restore"
         /\ (package # NoTree \/ backup[local[x].pick] = NoTree)
         => NoneLeft(x, y)
    /\ pc[x] = "claimed" /\ Mine(x) => package = NoTree
    /\ pc[x] \in {"claim", "claimed"} /\ Mine(x) =>
         NoneLeft(x, y) \/ backup[local[x].pick] # NoTree
RestoreBeside(x, y) ==
  pc[x] = "restore" \/ (pc[x] = "claimed" /\ Mine(x)) =>
    /\ pc[y] \in Building =>
         \/ NoneLeft(x, y)
         \/ package = NoTree /\ pc[y] \in {"stage", "look"}
    /\ pc[y] = "restore" /\ package # NoTree => NoneLeft(x, y)

\* x has moved the package away and has not published.
MovedBeside(x, y) ==
  backup[x] # NoTree =>
    /\ pc[x] \in Moved /\ package # NoTree =>
         Off(y) \/ (pc[y] \in Verifying /\ package = y /\ backup[y] = NoTree)
    /\ /\ pc[x] \in Moved \/ (pc[x] \in {"undo", "undone"}
                                /\ ~local[x].published)
       /\ backup[x] = local[x].owner /\ package # NoTree
       /\ pc[y] \in Verifying \cup {"tidied"}
       => package = y /\ backup[y] = NoTree
    /\ pc[x] \in Moved /\ pc[y] \in Moved => backup[y] = NoTree
UndoBeside(x, y) ==
  /\ pc[x] \in {"undo", "undone"} /\ local[x].pick = x
  /\ backup[x] = local[x].owner
  => /\ backup[x] \in whole \/ (package # NoTree /\ Off(y))
     /\ local[x].published
          \/ (package # NoTree /\ pc[y] \in Verifying \cup Ended)

\* The clauses by what x does.
BackupsBeside(x, y) ==
  /\ EndedWhole(x) /\ RollbackWhole(x) /\ BackupOwner(x) /\ UndoBacked(x)
RecoveryBeside(x, y) ==
  /\ FoundTorn(x) /\ OwnerSeen(x) /\ OwnerWhole(x, y)
  /\ ListedOther(x, y) /\ RestoredGone(x, y)
  /\ Early(x, y) /\ Listed(x, y)
  /\ SeenStill(x, y) /\ RestoreBeside(x, y)
RemovalBeside(x, y) ==
  /\ Smooth(x, y) /\ Claimed(x, y) /\ Restored(x, y)
  /\ ClaimCatches(x, y) /\ CatchForeign(x, y)
SweepBeside(x, y) ==
  SweepSafe(x, y) /\ SweepOther(x, y) /\ SweepOwner(x)
PromotionBeside(x, y) ==
  /\ MoveOwn(x, y) /\ MovedOther(x, y) /\ MovedTorn(x, y)
  /\ MovedBeside(x, y) /\ UndoBeside(x, y)
RollbackBeside(x, y) ==
  /\ TornLeft(x, y) /\ TearingOther(x, y) /\ TornVictim(x, y)
Beside(x, y) ==
  /\ BackupsBeside(x, y) /\ RecoveryBeside(x, y) /\ RemovalBeside(x, y)
  /\ SweepBeside(x, y) /\ PromotionBeside(x, y) /\ RollbackBeside(x, y)
Both(x, y) ==
  /\ pc[x] # "dead" /\ pc[y] # "dead"
  /\ LeftWhole(x, y) /\ Gap(x, y) /\ TornPackage(x, y)
  /\ Beside(x, y) /\ Beside(y, x)

-----------------------------------------------------------------------------
(* A call by itself, whatever earlier calls left: it knows what it saw.    *)

Held == package \in whole \/ \E b \in Backup : backup[b] \in whole

SoloLooks(x) ==
  LET l == local[x] IN
  /\ pc[x] \in {"present", "owner", "check", "choose", "recheck"} =>
       Found = l.todo
  /\ pc[x] \in {"owner", "check", "choose", "recheck"} =>
       (l.present <=> package # NoTree)
  /\ pc[x] \in {"check", "choose", "recheck"} => l.owner = package
  /\ pc[x] \in {"choose", "recheck"} => package \notin whole
SoloRestores(x) ==
  LET l == local[x] IN
  /\ \/ pc[x] \in {"recheck", "restore"}
     \/ pc[x] \in {"claim", "claimed"} /\ Mine(x)
     => backup[l.pick] \in whole
  /\ pc[x] = "claim" /\ Mine(x) => package = l.owner /\ package # NoTree
  /\ pc[x] = "claimed" /\ Mine(x) => package = NoTree /\ claim[x] = l.owner
  /\ pc[x] = "restore" => package = NoTree
  /\ pc[x] = "restored" => package = l.owner
SoloSweeps(x) ==
  LET l == local[x] IN
  /\ \/ pc[x] \in {"restored", "sweep"} \cup Building \cup Ended
     \/ pc[x] \in {"claim", "claimed"} /\ ~Mine(x)
     => package \in whole
  /\ pc[x] = "claim" /\ ~Mine(x) =>
       backup[l.target] = l.owner /\ l.owner # NoTree
  /\ pc[x] = "claimed" /\ ~Mine(x) => claim[x] = l.owner
SoloPromotes(x) ==
  LET l == local[x] IN
  /\ pc[x] \notin {"drop", "dropped"}
  /\ pc[x] = "moveAway" => l.owner = package
  /\ pc[x] \in Promoting => l.pick = x
  /\ pc[x] \in Promoting \ {"tidied"} =>
       backup[x] = l.owner /\ backup[x] \in whole
  /\ pc[x] \in Moved \cup {"undone", "putBack"} => package = NoTree
  /\ pc[x] \in Verifying \cup {"tidied", "undoing", "torn"} =>
       package = x /\ l.published
  /\ pc[x] = "undo" => package = IF l.published THEN x ELSE NoTree
  /\ pc[x] \in Verifying \cup {"tidied", "undo", "undoing"} => x \in whole
  /\ pc[x] = "torn" => l.victim = x
Solo(x) ==
  /\ Held
  /\ SoloLooks(x) /\ SoloRestores(x) /\ SoloSweeps(x) /\ SoloPromotes(x)

-----------------------------------------------------------------------------
(* A call by itself on which a look or a rename failed: it may take an     *)
(* older tree for the newest, but before it takes a complete one away      *)
(* there is another.                                                       *)

Spare == \E b \in Backup : backup[b] \in whole
Astray(x) ==
  LET l == local[x] IN
  /\ Held
  /\ \/ pc[x] \in {"recheck", "restore"}
     \/ pc[x] \in {"claim", "claimed"} /\ Mine(x)
     => backup[l.pick] \in whole
  /\ \/ pc[x] \in Verifying \cup
          {"restored", "sweep", "tidied", "drop", "dropped"}
     \/ pc[x] \in {"claim", "claimed"} /\ ~Mine(x)
     => package \in whole
  /\ pc[x] \in Moved \cup Verifying \cup
       {"undo", "undoing", "torn", "undone", "putBack"} => Spare
  /\ pc[x] \in Moved => package = NoTree
  /\ pc[x] \in {"undo", "undone"} => package \in whole \cup {NoTree}
  /\ pc[x] = "torn" => package = l.victim

-----------------------------------------------------------------------------
(* Trees that a successful write replaced.                                 *)

\* A tree is built once, later than all that are there, and until it is
\* published nobody replaces it.
Dated ==
  /\ IsInjective(made) /\ whole \subseteq ToSet(made)
  /\ \A w \in Writer :
       /\ pc[w] \in Recovering \cup {"claimed", "stage"} => w \notin ToSet(made)
       /\ Unpublished(w) => w \notin superseded

\* A tree that recovery prefers to every complete one that was replaced.
Heir(t) ==
  /\ t \notin superseded
  /\ \A b \in Backup : backup[b] \in whole \cap superseded => Older(backup[b], t)
Ordered ==
  /\ package \notin superseded
  /\ package \in whole => Heir(package)
  /\ package \notin whole =>
       \A b \in Backup : backup[b] \in whole \cap superseded =>
         \E c \in Backup : backup[c] \in whole /\ Older(backup[b], backup[c])

\* A call by itself restores an heir, and publishes the newest tree there is.
SoloHeirs(x) ==
  LET l == local[x] IN
  /\ \/ pc[x] \in {"recheck", "restore"}
     \/ pc[x] \in {"claim", "claimed"} /\ Mine(x)
     => Heir(backup[l.pick])
  /\ pc[x] = "claim" /\ Mine(x) => package \notin whole
  /\ pc[x] = "claimed" =>
       IF Mine(x) THEN claim[x] \notin whole \cup superseded
       ELSE claim[x] \in whole \cap superseded => Older(claim[x], package)
  /\ pc[x] \in {"look", "own", "moveAway"} \cup Promoting =>
       \A t \in whole : t = x \/ Older(t, x)
  /\ pc[x] \in Promoting \ {"tidied"} => Heir(l.owner)
SoloOrdered(x) == Ordered /\ SoloHeirs(x)

\* Beside another call, a tree is gone when a write has replaced it or will
\* have, because it has published its own.
Replaces(w, t) == pc[w] \in Verifying \cup {"tidied"} /\ t \in Replaced(w)
Gone(x, y, t) == t \in superseded \/ Replaces(x, t) \/ Replaces(y, t)

GonePackage(x, y) == ~Gone(x, y, package)

\* One that other calls left is swept, beside a complete package.
Sweeping(z) ==
  \/ pc[z] \in {"idle", "list", "present", "owner", "check", "sweep"}
  \/ pc[z] \in {"claim", "claimed"} /\ ~Mine(z)
GoneLeft(x, y) ==
  \A b \in Backup : b \notin {x, y} /\ Gone(x, y, backup[b]) =>
    package \in whole /\ Sweeping(x) /\ Sweeping(y)

\* Nothing that is gone can be put back from a claim or a backup.
GoneClaim(x, y) ==
  pc[x] = "claimed" /\ Mine(x) => ~Gone(x, y, claim[x])
WillRestore(x) ==
  \/ pc[x] = "recheck" /\ PackageSame(x)
  \/ pc[x] = "restore" /\ package = NoTree
  \/ /\ pc[x] = "claim" /\ Mine(x)
     /\ package = local[x].owner
  \/ /\ pc[x] = "claimed" /\ Mine(x)
     /\ claim[x] = local[x].owner /\ package = NoTree
GonePick(x, y) == WillRestore(x) => ~Gone(x, y, backup[local[x].pick])
RollingBack(z) ==
  pc[z] \in Moved \cup {"undo", "undone", "drop", "dropped"}
  /\ ~local[z].published
GoneBackup(x, y) ==
  backup[x] \in superseded \/ Replaces(y, backup[x]) =>
    /\ RollingBack(x) /\ backup[x] = local[x].owner
    /\ package = y /\ pc[y] \in Verifying \cup {"tidied"} \cup Ended

\* Before x publishes, the tree it replaces is where it left it, or another
\* call has it that will not publish.
Publishing(x) ==
  /\ local[x].pick = x
  /\ \/ pc[x] = "publish"
     \/ pc[x] = "movedAway" /\ backup[x] = local[x].owner
Promised(x, y) ==
  LET t == local[x].owner IN
  Publishing(x) =>
    /\ \A b \in Backup : b \notin {x, y} => backup[b] # t
    /\ pc[y] = "moveAway" /\ package = t => local[y].owner = t
    /\ pc[y] = "claimed" /\ Mine(y) => claim[y] # t
    /\ backup[y] = t =>
         /\ local[y].owner = t
         /\ \/ RollingBack(y)
            \/ /\ package = y /\ y \in whole
               /\ pc[y] \in Verifying \cup {"tidied"}

GoneBeside(x, y) ==
  /\ GoneClaim(x, y) /\ GonePick(x, y) /\ GoneBackup(x, y) /\ Promised(x, y)
StayGone(x, y) ==
  /\ GonePackage(x, y) /\ GoneLeft(x, y)
  /\ GoneBeside(x, y) /\ GoneBeside(y, x)

-----------------------------------------------------------------------------
(* Which of the two it is.  A call that overlaps no other can fail or die; *)
(* while none did, it is beside every call that may still begin.           *)

Calm == crashes = 0 /\ faults = 0
NobodyRuns == \A w \in Writer : ~Running(w)

\* What is at a backup name is complete, and there is one if the package is
\* not; a replaced one is beside a complete package.
Quiet ==
  /\ \A b \in Backup : backup[b] # NoTree => backup[b] \in whole
  /\ package \in whole \/ \E b \in Backup : backup[b] # NoTree
  /\ \A b \in Backup : backup[b] \in superseded => package \in whole

TwoRun(x, y) == Both(x, y) /\ StayGone(x, y)
OneCall(x) ==
  /\ pc[x] # "idle"
  /\ \A v \in Writer \ {x} : ~Running(v)
  /\ IF x \in hindered THEN Astray(x) ELSE Solo(x)
  /\ hindered = {} => SoloOrdered(x)
  /\ Calm => \A y \in Writer \ {x} : pc[y] = "idle" => TwoRun(x, y)
TwoCalls ==
  \E x \in Writer : \E y \in Writer \ {x} :
    /\ pc[x] # "idle" /\ pc[y] # "idle" /\ TwoRun(x, y)
    /\ \A v \in Writer \ {x, y} : ~Running(v)
Overlap ==
  /\ \A x \in undisturbed : OneCall(x)
  /\ undisturbed = {} /\ Calm => TwoCalls \/ (NobodyRuns /\ Quiet /\ Ordered)
  /\ undisturbed = {} /\ ~Calm =>
       NobodyRuns /\ Held /\ (hindered = {} => Ordered)

\* Once a rollback left a torn package and dropped the backup beside it, of
\* all this the structure remains.
PackageInv ==
  PackageTypeOK /\ Structure /\ Dated /\ (unrolled \/ Overlap)
=============================================================================
