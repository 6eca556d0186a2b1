-------------------------- MODULE StorageQuarantine --------------------------
(* source_html_audit_cleanup.py with the storage folder of one attachment:  *)
(* a stale arXiv copy is put into the trash of the library and of the local *)
(* database before its folder is moved, a folder without an attachment is   *)
(* moved at once.  Moving is a rename to a claim, a copy to another disk    *)
(* and the removal of the claim, and each of them can fail or be stopped.   *)
(* Others may create the folder again or move it away, and a second command *)
(* of the same run directory may be at the same folder.                     *)
EXTENDS Integers, FiniteSets

CONSTANTS
  Command,
  Folder,     \* folders of the storage, each with an inode of its own
  NoFolder,
  MaxTroubles \* bound: steps that fail, commands that are killed

ASSUME QuarantineAssumption ==
  /\ IsFiniteSet(Folder) /\ MaxTroubles \in Nat
  /\ NoFolder \notin Folder \cup [of : Folder, whole : BOOLEAN]

VARIABLES
  finding,  \* what the audit said of the attachment
  trashed,  \* in the trash of the library?
  entry,    \* the attachment in zotero.sqlite
  place,    \* the folder under the key of the attachment
  elsewhere,\* folders moved away, or left under a claim
  broken,   \* the folders that were removed in part
  held,     \* per command, the folder under its claim name
  copies,   \* the quarantine: a copy of which folder, and all of it?
  commands, \* per command, where it is
  born,     \* every folder there ever was
  troubles

qvars == <<finding, trashed, entry, place, elsewhere, broken, held, copies,
           commands, born, troubles>>
folders == <<place, elsewhere, broken, held, copies, born>>

MaybeFolder == Folder \cup {NoFolder}
Slot == 1..(Cardinality(Folder) + MaxTroubles + 1)
StoredCopy == [of : Folder, whole : BOOLEAN]
Cleaning == [pc : {"idle", "trashing", "marking", "looking", "claiming",
                   "checking", "copying", "publishing", "removing", "undoing"},
             owner : MaybeFolder, slot : Slot, published : BOOLEAN]
NotCleaning == [pc |-> "idle", owner |-> NoFolder, slot |-> 1,
                published |-> FALSE]

QuarantineTypeOK ==
  /\ finding \in {"stale", "orphan"} /\ trashed \in BOOLEAN
  /\ entry \in {"live", "deleted", "missing"}
  /\ place \in MaybeFolder /\ elsewhere \subseteq Folder
  /\ broken \subseteq Folder /\ born \subseteq Folder
  /\ held \in [Command -> MaybeFolder]
  /\ copies \in [Slot -> StoredCopy \cup {NoFolder}]
  /\ commands \in [Command -> Cleaning] /\ troubles \in Nat

QuarantineInit ==
  /\ \/ finding = "stale" /\ entry \in {"live", "missing"}
     \/ finding = "orphan" /\ entry = "missing"
  /\ trashed = FALSE /\ place \in Folder /\ born = {place}
  /\ elsewhere = {} /\ broken = {} /\ troubles = 0
  /\ held = [c \in Command |-> NoFolder]
  /\ copies = [n \in Slot |-> NoFolder]
  /\ commands = [c \in Command |-> NotCleaning]

---------------------------------------------------------------------------
CommandAt(c, pc) == commands[c].pc = pc
CommandTo(c, pc) == commands' = [commands EXCEPT ![c].pc = pc]
CommandEnds(c) == commands' = [commands EXCEPT ![c] = NotCleaning]
Trouble == troubles < MaxTroubles /\ troubles' = troubles + 1

(* The record of the audit is taken up.  A claim has a name of its own: one *)
(* that was left earlier is out of everybody's way.                         *)
StartCleaning(c) ==
  /\ CommandAt(c, "idle")
  /\ CommandTo(c, IF finding = "stale" THEN "trashing" ELSE "looking")
  /\ elsewhere' = (elsewhere \cup {held[c]}) \ {NoFolder}
  /\ held' = [held EXCEPT ![c] = NoFolder]
  /\ UNCHANGED <<finding, trashed, entry, place, broken, copies, born, troubles>>

(* Only an answer with ok goes on; it may get lost, and the relay may refuse. *)
TrashInLibrary(c) ==
  /\ CommandAt(c, "trashing")
  /\ \/ trashed' = TRUE /\ CommandTo(c, "marking") /\ UNCHANGED troubles
     \/ trashed' \in {trashed, TRUE} /\ CommandEnds(c) /\ Trouble
  /\ UNCHANGED <<finding, entry, folders>>

(* mark_local_attachment_deleted; a row that is gone already will do.       *)
MarkLocally(c) ==
  /\ CommandAt(c, "marking")
  /\ \/ /\ entry' = IF entry = "missing" THEN "missing" ELSE "deleted"
        /\ CommandTo(c, "looking") /\ UNCHANGED troubles
     \/ UNCHANGED entry /\ CommandEnds(c) /\ Trouble
  /\ UNCHANGED <<finding, trashed, folders>>

FirstFree(n) ==
  copies[n] = NoFolder /\ \A m \in Slot : m < n => copies[m] # NoFolder

(* quarantine_storage_dir: a missing folder is passed over; the inode of    *)
(* the one that is there is noted.                                          *)
LookForFolder(c) ==
  /\ CommandAt(c, "looking")
  /\ IF place = NoFolder
     THEN CommandEnds(c)
     ELSE \E n \in Slot :
            /\ FirstFree(n)
            /\ commands' = [commands EXCEPT ![c] =
                 [pc |-> "claiming", owner |-> place, slot |-> n,
                  published |-> FALSE]]
  /\ UNCHANGED <<finding, trashed, entry, folders, troubles>>

(* The rename takes whatever folder has the name by now.                    *)
ClaimFolder(c) ==
  /\ CommandAt(c, "claiming")
  /\ IF place = NoFolder
     THEN CommandEnds(c) /\ UNCHANGED <<place, held>>
     ELSE /\ held' = [held EXCEPT ![c] = place] /\ place' = NoFolder
          /\ CommandTo(c, "checking")
  /\ UNCHANGED <<finding, trashed, entry, elsewhere, broken, copies, born, troubles>>

(* A claim goes back under the old name unless that is in use again.        *)
PutFolderBack(c) ==
  IF held[c] # NoFolder /\ place = NoFolder
  THEN place' = held[c] /\ held' = [held EXCEPT ![c] = NoFolder]
  ELSE UNCHANGED <<place, held>>

CheckInode(c) ==
  /\ CommandAt(c, "checking")
  /\ IF held[c] = commands[c].owner
     THEN CommandTo(c, "copying") /\ UNCHANGED <<place, held>>
     ELSE PutFolderBack(c) /\ CommandEnds(c)
  /\ UNCHANGED <<finding, trashed, entry, elsewhere, broken, copies, born, troubles>>

CopyFolder(c) ==
  /\ CommandAt(c, "copying")
  /\ \/ CommandTo(c, "publishing") /\ UNCHANGED troubles
     \/ CommandTo(c, "undoing") /\ Trouble
  /\ UNCHANGED <<finding, trashed, entry, folders>>

(* What a rollback has to remove: nothing before the copy has its name.     *)
AnythingPublished(c) == [commands[c] EXCEPT !.pc = "undoing", !.published = TRUE]
NothingPublished(c) == [commands[c] EXCEPT !.pc = "undoing"]

(* The staged copy gets its name unless another command has taken it; an    *)
(* interrupt may come between the rename and the end of the step.           *)
PublishCopy(c) ==
  /\ CommandAt(c, "publishing")
  /\ LET n == commands[c].slot IN
     IF copies[n] # NoFolder
     THEN /\ commands' = [commands EXCEPT ![c] = NothingPublished(c)]
          /\ UNCHANGED <<copies, troubles>>
     ELSE /\ copies' = [copies EXCEPT ![n] =
                           [of |-> held[c], whole |-> held[c] \notin broken]]
          /\ \/ CommandTo(c, "removing") /\ UNCHANGED troubles
             \/ /\ commands' = [commands EXCEPT ![c].pc = "undoing",
                                                ![c].published = TRUE]
                /\ Trouble
  /\ UNCHANGED <<finding, trashed, entry, place, elsewhere, broken, held, born>>

(* The copy that was published is removed, as far as that works, and the    *)
(* claim put back.                                                          *)
Undo(c) ==
  /\ CommandAt(c, "undoing")
  /\ PutFolderBack(c) /\ CommandEnds(c)
  /\ LET n == commands[c].slot IN
     IF commands[c].published
     THEN \/ copies' = [copies EXCEPT ![n] = NoFolder] /\ UNCHANGED troubles
          \/ copies' = [copies EXCEPT ![n].whole = FALSE] /\ Trouble
     ELSE UNCHANGED <<copies, troubles>>
  /\ UNCHANGED <<finding, trashed, entry, elsewhere, broken, born>>

(* The claim is removed; what is left of it after a failure is put back.    *)
RemoveFolder(c) ==
  /\ CommandAt(c, "removing")
  /\ CommandEnds(c)
  /\ \/ /\ held' = [held EXCEPT ![c] = NoFolder]
        /\ UNCHANGED <<place, broken, troubles>>
     \/ broken' = broken \cup {held[c]} /\ PutFolderBack(c) /\ Trouble
  /\ UNCHANGED <<finding, trashed, entry, elsewhere, copies, born>>

(* A killed command leaves its claim; one that was removing it, a part.     *)
Killed(c) ==
  /\ ~CommandAt(c, "idle") /\ Trouble
  /\ CommandEnds(c)
  /\ broken' \in {broken} \cup
       {broken \cup {held[d]} : d \in {d \in {c} : CommandAt(d, "removing")}}
  /\ UNCHANGED <<finding, trashed, entry, place, elsewhere, held, copies, born>>

(* Zotero, or its user.                                                     *)
FolderCreated ==
  /\ place = NoFolder
  /\ \E t \in Folder \ born : place' = t /\ born' = born \cup {t}
  /\ UNCHANGED <<finding, trashed, entry, elsewhere, broken, held, copies,
                 commands, troubles>>
FolderMoved ==
  /\ place # NoFolder
  /\ elsewhere' = elsewhere \cup {place} /\ place' = NoFolder
  /\ UNCHANGED <<finding, trashed, entry, broken, held, copies, commands, born,
                 troubles>>

QuarantineNext ==
  \/ \E c \in Command :
       \/ StartCleaning(c) \/ TrashInLibrary(c) \/ MarkLocally(c)
       \/ LookForFolder(c) \/ ClaimFolder(c) \/ CheckInode(c) \/ CopyFolder(c)
       \/ PublishCopy(c) \/ Undo(c) \/ RemoveFolder(c) \/ Killed(c)
  \/ FolderCreated \/ FolderMoved

QuarantineSpec == QuarantineInit /\ [][QuarantineNext]_qvars

---------------------------------------------------------------------------
(* Whatever fails, every folder there ever was is still whole somewhere, or *)
(* the quarantine has a whole copy of it: a failed or killed command, two   *)
(* commands at one folder, a folder exchanged under the command's hands.    *)
FolderKept ==
  \A t \in born :
    \/ /\ t \notin broken
       /\ t \in {place} \cup elsewhere \cup {held[c] : c \in Command}
    \/ [of |-> t, whole |-> TRUE] \in {copies[n] : n \in Slot}
=============================================================================
