----------------------------- MODULE LocalCopy ------------------------------
(***************************************************************************)
(* Writing one file of the Zotero storage directory beside other programs. *)
(* Three operations share the path: replace_original_file and              *)
(* write_new_attachment_local_copy (local_attachment_sync.py) take the     *)
(* present file away by a rename to a claim, look at what they caught and  *)
(* link a new copy in its place; write_parent_attachment_local_copy        *)
(* (full_text_attachment.py) links a copy and never takes one away.        *)
(* Zotero itself saves and deletes the same file.                          *)
(*                                                                         *)
(* A file stands for its device and inode, and Content gives its bytes.    *)
(* Claims, staging copies and backups have random names that no other      *)
(* program uses, so the steps on them are merged with their neighbours.    *)
(***************************************************************************)
EXTENDS Integers

CONSTANTS
  Caller,       \* calls of the three operations
  Original,     \* the file there at first
  Saved,        \* files another program saves over the path
  Content,      \* the bytes of each file; a caller's copy is named after it
  NoFile,       \* no file, or no value yet
  MaxDeaths     \* bound on callers that die

File == Caller \cup Saved \cup {Original}

ASSUME LocalAssumption ==
  /\ NoFile \notin File
  /\ Original \notin Caller \cup Saved /\ Caller \cap Saved = {}
  /\ DOMAIN Content = File
  /\ MaxDeaths \in Nat

VARIABLES
  target,    \* the file at the path
  claims,    \* per caller, the file at its claim
  backups,   \* per caller, the file whose bytes its backup holds
  stage,     \* per caller, where it is
  seen,      \* per caller, the owner it recorded
  kind,      \* per caller, its operation
  unsaved,   \* the files the other program has still to save
  deaths

lvars == <<target, claims, backups, stage, seen, kind, unsaved, deaths>>

Operations == {"replace", "new", "parent"}
Halted == {"idle", "ok", "failed", "dead"}
Stages == Halted \cup
  {"backup", "claim", "caught", "link", "verify", "unlink", "unlinking",
   "unlinked", "restore", "settle", "content"}

LocalTypeOK ==
  /\ target \in File \cup {NoFile}
  /\ claims \in [Caller -> File \cup {NoFile}]
  /\ backups \in [Caller -> File \cup {NoFile}]
  /\ stage \in [Caller -> Stages]
  /\ seen \in [Caller -> File \cup {NoFile}]
  /\ kind \in [Caller -> Operations]
  /\ unsaved \subseteq Saved
  /\ deaths \in 0..MaxDeaths

LocalInit ==
  /\ target \in {Original, NoFile}
  /\ claims = [c \in Caller |-> NoFile]
  /\ backups = [c \in Caller |-> NoFile]
  /\ stage = [c \in Caller |-> "idle"]
  /\ seen = [c \in Caller |-> NoFile]
  /\ kind \in [Caller -> Operations]
  /\ unsaved = Saved
  /\ deaths = 0

Step(c, from, to) == stage[c] = from /\ stage' = [stage EXCEPT ![c] = to]
SameBytes(f, g) == f # NoFile /\ g # NoFile /\ Content[f] = Content[g]

-----------------------------------------------------------------------------
(* The two operations that replace: record the owner of the present file   *)
(* (a replacement needs one), back its bytes up, claim it, check it.       *)

Replacement(c) == kind[c] # "parent"

NoteOriginal(c) ==
  /\ Replacement(c)
  /\ seen' = [seen EXCEPT ![c] = target]
  /\ Step(c, "idle",
          CASE target = NoFile /\ kind[c] = "replace" -> "failed"
            [] target = NoFile /\ kind[c] = "new"     -> "link"
            [] target # NoFile /\ kind[c] = "new"     -> "backup"
            [] OTHER                                -> "claim")
  /\ UNCHANGED <<target, claims, backups, kind, unsaved, deaths>>

\* The copy is kept only if it was made of the file recorded.
BackUp(c) ==
  /\ IF target = seen[c]
     THEN /\ Step(c, "backup", "claim")
          /\ backups' = [backups EXCEPT ![c] = target]
     ELSE Step(c, "backup", "failed") /\ UNCHANGED backups
  /\ UNCHANGED <<target, claims, seen, kind, unsaved, deaths>>

ClaimTarget(c) ==
  /\ IF target = NoFile
     THEN Step(c, "claim", "failed") /\ UNCHANGED <<target, claims>>
     ELSE /\ Step(c, "claim", "caught")
          /\ claims' = [claims EXCEPT ![c] = target]
          /\ target' = NoFile
  /\ UNCHANGED <<backups, seen, kind, unsaved, deaths>>

CaughtAny(c) == claims[c] # NoFile
CaughtRight(c) == claims[c] = seen[c]

CheckClaim(c) ==
  /\ Step(c, "caught", IF CaughtRight(c) THEN "link" ELSE "restore")
  /\ UNCHANGED <<target, claims, backups, seen, kind, unsaved, deaths>>

\* A hard link back, its check and the removal of the claim: refused when
\* the name is taken, and the claim then stays as the recovery path the
\* error names.
RestoreClaim(c) ==
  /\ Step(c, "restore", "failed")
  /\ IF target = NoFile /\ claims[c] # NoFile
     THEN target' = claims[c] /\ claims' = [claims EXCEPT ![c] = NoFile]
     ELSE UNCHANGED <<target, claims>>
  /\ UNCHANGED <<backups, seen, kind, unsaved, deaths>>

-----------------------------------------------------------------------------
(* Publishing the copy: a hard link fails when the name is taken.          *)

LinkCopy(c) ==
  /\ target = NoFile
  /\ target' = c
  /\ Step(c, "link", IF Replacement(c) THEN "verify" ELSE "content")
  /\ UNCHANGED <<claims, backups, seen, kind, unsaved, deaths>>

LinkRefused(c) ==
  /\ target # NoFile /\ Replacement(c)
  /\ Step(c, "link", "restore")
  /\ UNCHANGED <<target, claims, backups, seen, kind, unsaved, deaths>>

\* The source of the copy changed or could not be read.
CopyFails(c) ==
  /\ Step(c, "link", IF Replacement(c) THEN "restore" ELSE "failed")
  /\ UNCHANGED <<target, claims, backups, seen, kind, unsaved, deaths>>

VerifyLink(c) ==
  /\ Step(c, "verify", IF target = c THEN "settle" ELSE "unlink")
  /\ UNCHANGED <<target, claims, backups, seen, kind, unsaved, deaths>>

\* _unlink_owned_regular_file looks at the owner once more, then unlinks
\* the name: whatever another program put there in between goes.
RecheckOwn(c) ==
  /\ Step(c, "unlink", IF target = c THEN "unlinking" ELSE "unlinked")
  /\ UNCHANGED <<target, claims, backups, seen, kind, unsaved, deaths>>
UnlinkOwn(c) ==
  /\ Step(c, "unlinking", "unlinked")
  /\ target' = NoFile
  /\ UNCHANGED <<claims, backups, seen, kind, unsaved, deaths>>
AfterUnlink(c) ==
  /\ Step(c, "unlinked", IF Replacement(c) THEN "restore" ELSE "failed")
  /\ UNCHANGED <<target, claims, backups, seen, kind, unsaved, deaths>>

\* The published copy stands, so what was claimed is removed.
DropClaim(c) ==
  /\ Step(c, "settle", "ok")
  /\ claims' = [claims EXCEPT ![c] = NoFile]
  /\ UNCHANGED <<target, backups, seen, kind, unsaved, deaths>>

-----------------------------------------------------------------------------
(* write_parent_attachment_local_copy: a file already there is accepted if *)
(* its bytes are the ones wanted, whoever wrote it.                        *)

StartParent(c) ==
  /\ ~Replacement(c)
  /\ Step(c, "idle", "link")
  /\ UNCHANGED <<target, claims, backups, seen, kind, unsaved, deaths>>

ReuseTarget(c) ==
  /\ target # NoFile /\ ~Replacement(c)
  /\ Step(c, "link", IF SameBytes(target, c) THEN "content" ELSE "failed")
  /\ UNCHANGED <<target, claims, backups, seen, kind, unsaved, deaths>>

VerifyContent(c) ==
  /\ Step(c, "content", IF SameBytes(target, c) THEN "ok" ELSE "unlink")
  /\ UNCHANGED <<target, claims, backups, seen, kind, unsaved, deaths>>

-----------------------------------------------------------------------------
(* The other program, and death of a caller.                               *)

ForeignSave(f) ==
  /\ f \in unsaved
  /\ target' = f /\ unsaved' = unsaved \ {f}
  /\ UNCHANGED <<claims, backups, stage, seen, kind, deaths>>

CallerDies(c) ==
  /\ stage[c] \notin Halted
  /\ deaths < MaxDeaths /\ deaths' = deaths + 1
  /\ stage' = [stage EXCEPT ![c] = "dead"]
  /\ UNCHANGED <<target, claims, backups, seen, kind, unsaved>>

LocalNext ==
  \/ \E c \in Caller :
       \/ NoteOriginal(c) \/ BackUp(c) \/ ClaimTarget(c) \/ CheckClaim(c)
       \/ RestoreClaim(c) \/ LinkCopy(c) \/ LinkRefused(c) \/ CopyFails(c)
       \/ VerifyLink(c) \/ RecheckOwn(c) \/ UnlinkOwn(c) \/ AfterUnlink(c)
       \/ DropClaim(c) \/ StartParent(c) \/ ReuseTarget(c)
       \/ VerifyContent(c) \/ CallerDies(c)
  \/ \E f \in Saved : ForeignSave(f)

LocalSpec == LocalInit /\ [][LocalNext]_lvars

-----------------------------------------------------------------------------
OnDisk(f) ==
  \/ target = f
  \/ \E c \in Caller : claims[c] = f \/ backups[c] = f

(* A file that was at the path disappears from the disk only when another  *)
(* program saves over it, when a call that recorded that very file finds   *)
(* its own copy published, or when a call unlinks the path right after it  *)
(* saw its own failed copy there.                                          *)
FileKept ==
  [][ \A f \in File : OnDisk(f) /\ ~OnDisk(f)' =>
        \/ unsaved' # unsaved
        \/ \E c \in Caller : stage[c] = "unlinking"
        \/ \E c \in Caller : stage[c] = "settle" /\ seen[c] = f ]_lvars
=============================================================================
