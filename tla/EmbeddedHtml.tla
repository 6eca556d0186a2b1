----------------------------- MODULE EmbeddedHtml -----------------------------
(* From a source HTML file and its assets to the single file that is sent   *)
(* to Zotero (full_text_attachment.py).  Any number of embedders, in any    *)
(* container, work on one document while others write its files: a file is  *)
(* downloaded again, or the article package that holds it is replaced by    *)
(* two renames.  A fingerprint holds the inode and the change time of a     *)
(* file besides its bytes, so it never comes back once the file has been    *)
(* written again: here it is the number of the write.                       *)
EXTENDS Integers, Sequences, FiniteSets

CONSTANTS
  Embedder,
  Doc,            \* the HTML file
  Asset,          \* the files beside it
  Sheet,          \* those that are stylesheets
  DocRefs,        \* what an HTML file may refer to
  SheetRefs,      \* what a stylesheet may refer to
  MaxAssets,      \* HTML_ATTACHMENT_MAX_ASSETS
  Absent,
  Nobody,
  MaxWrites,      \* bound: writes and renames of others
  MaxSpoils       \* bound: snapshots that are damaged

ASSUME EmbedAssumption ==
  /\ Sheet \subseteq Asset /\ Doc \notin Asset
  /\ DocRefs \subseteq SUBSET Asset /\ SheetRefs \subseteq SUBSET (Asset \ Sheet)
  /\ MaxAssets \in Nat /\ MaxWrites \in Nat /\ MaxSpoils \in Nat
  /\ Nobody \notin Embedder
  /\ Absent \notin [write : 1..(MaxWrites + 1), refs : SUBSET Asset]

Part == {Doc} \cup Asset
Version == [write : 1..(MaxWrites + 1), refs : SUBSET Asset]
Disk == [Part -> Version \cup {Absent}]
(* What an embedder has read: the fingerprints, by file.                    *)
Reading == UNION {[S -> Version] : S \in SUBSET Part}
Nothing == [f \in {} |-> Absent]

VARIABLES
  past,       \* the states of the files, up to the present one
  snapshots,  \* z2m_embedded.<sha256>.html, by what they were made of
  spoils,
  work,       \* what each embedder is doing
  sent

bvars == <<past, snapshots, spoils, work, sent>>

disk == past[Len(past)]

Snapshot == [made : Reading, by : Embedder, whole : BOOLEAN]
Source == [kind : {"file"}, version : Version]
            \cup [kind : {"snapshot"}, made : Reading, by : Embedder]
            \cup {Nobody}
(* since and cut are lengths of past: when the call began, and when all had *)
(* been read.  A reference is a pair, the file it is in and the asset.      *)
Work ==
  [phase : {"idle", "listing", "reading", "comparing", "publishing", "verifying",
            "comparing_again", "sending", "copying", "ended"},
   since : Nat, cut : Nat,
   taken : Reading,                   \* what has been read
   listed : SUBSET Asset,             \* the assets found beside the HTML file
   tried : SUBSET (Part \X Asset),    \* the references followed
   got : SUBSET (Part \X Asset),      \* those of them that are embedded
   checked : SUBSET Part,             \* the files compared again
   reused : BOOLEAN,                  \* the snapshot was there before
   expected : Source]                 \* the file about to be sent
Resting(phase) ==
  [phase |-> phase, since |-> 0, cut |-> 0, taken |-> Nothing, listed |-> {},
   tried |-> {}, got |-> {}, checked |-> {}, reused |-> FALSE,
   expected |-> Nobody]
Sent == [since : Nat, made : Reading, embedded : BOOLEAN]

EmbedTypeOK ==
  /\ past \in Seq(Disk) /\ past # <<>>
  /\ snapshots \in SUBSET Snapshot
  /\ spoils \in Nat
  /\ work \in [Embedder -> Work]
  /\ sent \in SUBSET Sent

FilesWith(write, docRefs, sheetRefs) ==
  [f \in Part |-> [write |-> write,
                   refs |-> CASE f = Doc     -> docRefs
                              [] f \in Sheet -> sheetRefs
                              [] OTHER       -> {}]]

EmbedInit ==
  /\ \E r \in DocRefs, s \in SheetRefs : past = <<FilesWith(1, r, s)>>
  /\ snapshots = {} /\ spoils = 0 /\ sent = {}
  /\ work = [e \in Embedder |-> Resting("idle")]

---------------------------------------------------------------------------
(* The other writers.  Everything they write is a new version.              *)
Becomes(files) ==
  /\ Len(past) <= MaxWrites
  /\ past' = Append(past, files)
  /\ UNCHANGED <<snapshots, spoils, work, sent>>

Written(refs) == [write |-> Len(past) + 1, refs |-> refs]

DocWritten ==
  \E r \in DocRefs : Becomes([disk EXCEPT ![Doc] = Written(r)])
AssetWritten ==
  \E a \in Asset : \E r \in (IF a \in Sheet THEN SheetRefs ELSE {{}}) :
    Becomes([disk EXCEPT ![a] = Written(r)])

(* A package is moved away, and another one takes its place.                *)
PackageMovedAway == Becomes([f \in Part |-> Absent])
PackageMovedIn ==
  /\ \A f \in Part : disk[f] = Absent
  /\ \E r \in DocRefs, s \in SheetRefs : Becomes(FilesWith(Len(past) + 1, r, s))

(* A published snapshot is cut short or overwritten by something else than  *)
(* this program.                                                            *)
SnapshotSpoilt ==
  /\ spoils < MaxSpoils
  /\ \E s \in snapshots :
       /\ s.whole
       /\ snapshots' = (snapshots \ {s}) \cup {[s EXCEPT !.whole = FALSE]}
  /\ spoils' = spoils + 1
  /\ UNCHANGED <<past, work, sent>>

---------------------------------------------------------------------------
(* A report with "failed", or one that stops the attachment: nothing of the *)
(* call is used any more.                                                   *)
Ends(e) == work' = [work EXCEPT ![e] = Resting("ended")]
Goes(e, phase) == work' = [work EXCEPT ![e].phase = phase]

(* The HTML file is read, all of it between two looks at its status.  It    *)
(* may be missing, or be written while it is read.                          *)
ReadDoc(e) ==
  /\ work[e].phase = "idle"
  /\ \/ /\ disk[Doc] # Absent
        /\ work' = [work EXCEPT ![e] =
             [Resting("listing") EXCEPT !.since = Len(past),
                                        !.taken = [f \in {Doc} |-> disk[Doc]]]]
     \/ Ends(e)
  /\ UNCHANGED <<past, snapshots, spoils, sent>>

NamedInHtml(e) == {Doc} \X work[e].taken[Doc].refs

(* Nothing to embed: the file itself is sent, unless it refers to something.*)
PassedOn(e) == IF NamedInHtml(e) = {} THEN Goes(e, "sending") ELSE Ends(e)

ListAssets(e) ==
  /\ work[e].phase = "listing"
  /\ LET found == {a \in Asset : disk[a] # Absent}
     IN  IF found = {} THEN PassedOn(e)
         ELSE work' = [work EXCEPT ![e].listed = found, ![e].phase = "reading"]
  /\ UNCHANGED <<past, snapshots, spoils, sent>>

(* The references that are followed: the listed assets the HTML file names, *)
(* stylesheets last, and what an embedded stylesheet names.                 *)
Direct(e) == {r \in NamedInHtml(e) : r[2] \in work[e].listed}
Nested(e) == UNION {{s} \X work[e].taken[s].refs :
                      s \in {s \in Sheet : <<Doc, s>> \in work[e].got}}
Due(e) ==
  LET images == {r \in Direct(e) : r[2] \notin Sheet} \ work[e].tried
  IN  IF images # {} THEN images
      ELSE (Direct(e) \cup Nested(e)) \ work[e].tried

(* Files are taken in the order of their names, whatever that is.           *)
First(S) == CHOOSE x \in S : TRUE

(* An asset is read once; a second reference takes what is remembered, if   *)
(* the file is still there.  What is missing, is written while it is read,  *)
(* or is beyond the limits, is skipped.                                     *)
Room(e) == Cardinality(DOMAIN work[e].taken \ {Doc}) < MaxAssets
WithPart(reading, f) ==
  [g \in DOMAIN reading \cup {f} |->
     IF g \in DOMAIN reading THEN reading[g] ELSE disk[f]]

FollowReference(e) ==
  /\ work[e].phase = "reading" /\ Due(e) # {}
  /\ LET r == First(Due(e)) IN
       \/ /\ disk[r[2]] # Absent
          /\ r[2] \in DOMAIN work[e].taken \/ Room(e)
          /\ work' = [work EXCEPT ![e].tried = @ \cup {r}, ![e].got = @ \cup {r},
                                  ![e].taken = WithPart(@, r[2])]
       \/ work' = [work EXCEPT ![e].tried = @ \cup {r}]
  /\ UNCHANGED <<past, snapshots, spoils, sent>>

(* The references are replaced.  Without one embedded asset the file itself *)
(* is sent; with one, no local reference may remain.                        *)
ReplacedInHtml(e) == {r \in work[e].got : r[1] = Doc}
ReplacedInSheets(e) == {r \in work[e].got : r[1] \in Sheet}
RemainingInHtml(e) == NamedInHtml(e) \ ReplacedInHtml(e)
Remaining(e) ==
  (NamedInHtml(e) \ ReplacedInHtml(e)) \cup (Nested(e) \ ReplacedInSheets(e))

Rewrite(e) ==
  /\ work[e].phase = "reading" /\ Due(e) = {}
  /\ IF work[e].got = {} THEN PassedOn(e)
     ELSE IF Remaining(e) # {} THEN Ends(e)
     ELSE work' = [work EXCEPT ![e].phase = "comparing", ![e].cut = Len(past),
                               ![e].tried = {}, ![e].listed = {}]
  /\ UNCHANGED <<past, snapshots, spoils, sent>>

(* Each file is compared with its fingerprint, the HTML file first; the     *)
(* comparison is made twice, before and after the publication.              *)
UnchangedHtml(e, f) == f = Doc => disk[f] = work[e].taken[f]
Unchanged(e, f) == disk[f] = work[e].taken[f]

CompareFile(e) ==
  /\ work[e].phase \in {"comparing", "comparing_again"}
  /\ work[e].checked # DOMAIN work[e].taken
  /\ LET rest == DOMAIN work[e].taken \ work[e].checked
         f == IF Doc \in rest THEN Doc ELSE First(rest)
     IN  IF Unchanged(e, f)
         THEN work' = [work EXCEPT ![e].checked = @ \cup {f}]
         ELSE Ends(e)
  /\ UNCHANGED <<past, snapshots, spoils, sent>>

AllCompared(e) ==
  /\ \/ work[e].phase = "comparing"
        /\ work' = [work EXCEPT ![e].phase = "publishing", ![e].checked = {}]
     \/ work[e].phase = "comparing_again"
        /\ work' = [work EXCEPT ![e].phase = "sending", ![e].checked = {}]
  /\ work[e].checked = DOMAIN work[e].taken
  /\ UNCHANGED <<past, snapshots, spoils, sent>>

(* The snapshot is linked under the hash of its text.  One that is there is *)
(* used if its text can be read and is right, and is replaced otherwise.    *)
Twins(e) == {s \in snapshots : s.made = work[e].taken}
Own(e) == [made |-> work[e].taken, by |-> e, whole |-> TRUE]

PublishSnapshot(e) ==
  /\ work[e].phase = "publishing"
  /\ \/ /\ \E s \in Twins(e) : s.whole
        /\ work' = [work EXCEPT ![e].phase = "verifying", ![e].reused = TRUE]
        /\ UNCHANGED snapshots
     \/ /\ work' = [work EXCEPT ![e].phase = "verifying", ![e].reused = FALSE]
        /\ snapshots' = (snapshots \ Twins(e)) \cup {Own(e)}
  /\ UNCHANGED <<past, spoils, sent>>

(* The published file is read back.  If that fails, and this embedder put   *)
(* it there, it is removed, whoever uses it by now.                         *)
VerifySnapshot(e) ==
  /\ work[e].phase = "verifying"
  /\ \/ /\ \E s \in Twins(e) : s.whole
        /\ Goes(e, "comparing_again")
        /\ UNCHANGED snapshots
     \/ /\ Ends(e)
        /\ snapshots' = IF work[e].reused THEN snapshots
                        ELSE {s \in snapshots : ~(s \in Twins(e) /\ s.by = e)}
  /\ UNCHANGED <<past, spoils, sent>>

(* The file to be sent, embedded or not, is fingerprinted anew; the text of *)
(* a snapshot has to be the one that was published.                         *)
FingerprintSource(e) ==
  /\ work[e].phase = "sending"
  /\ \/ /\ work[e].got # {}
        /\ \E s \in Twins(e) :
             /\ s.whole
             /\ work' = [work EXCEPT ![e].phase = "copying",
                  ![e].expected = [kind |-> "snapshot", made |-> s.made, by |-> s.by]]
     \/ /\ work[e].got = {} /\ disk[Doc] # Absent
        /\ work' = [work EXCEPT ![e].phase = "copying",
             ![e].expected = [kind |-> "file", version |-> disk[Doc]]]
     \/ Ends(e)
  /\ UNCHANGED <<past, snapshots, spoils, sent>>

(* A private copy is made of exactly that file, and goes to the relay.      *)
SnapshotStill(e, s) ==
  s.whole /\ s.made = work[e].expected.made /\ s.by = work[e].expected.by
FileStill(e) == disk[Doc] = work[e].expected.version

CopyAndSend(e) ==
  /\ work[e].phase = "copying"
  /\ \/ /\ work[e].expected.kind = "snapshot"
        /\ \E s \in snapshots :
             /\ SnapshotStill(e, s)
             /\ sent' = sent \cup {[since |-> work[e].since, made |-> s.made,
                                    embedded |-> TRUE]}
     \/ /\ work[e].expected.kind = "file" /\ FileStill(e)
        /\ sent' = sent \cup {[since |-> work[e].since, embedded |-> FALSE,
                               made |-> [f \in {Doc} |-> disk[Doc]]]}
     \/ UNCHANGED sent
  /\ Ends(e)
  /\ UNCHANGED <<past, snapshots, spoils>>

EmbedNext ==
  \/ DocWritten \/ AssetWritten \/ PackageMovedAway \/ PackageMovedIn
  \/ SnapshotSpoilt
  \/ \E e \in Embedder :
       \/ ReadDoc(e) \/ ListAssets(e) \/ FollowReference(e) \/ Rewrite(e)
       \/ CompareFile(e) \/ AllCompared(e)
       \/ PublishSnapshot(e) \/ VerifySnapshot(e)
       \/ FingerprintSource(e) \/ CopyAndSend(e)

EmbedSpec == EmbedInit /\ [][EmbedNext]_bvars

---------------------------------------------------------------------------
(* What is sent is one state of the document: the HTML file and every       *)
(* embedded asset were in place together at some moment of the call, not    *)
(* one from before and one from after another's download or package.  The   *)
(* fingerprints of full_text_attachment.py:1391-1451 are for that.          *)
SentIsOneMoment ==
  \A s \in sent : \E i \in s.since..Len(past) :
    /\ i > 0
    /\ \A f \in DOMAIN s.made : past[i][f] = s.made[f]

(* An embedded file stands alone: nothing it or its stylesheets refer to is *)
(* left outside (full_text_attachment.py:1381).                             *)
SentStandsAlone ==
  \A s \in sent : s.embedded =>
    \A f \in {Doc} \cup (DOMAIN s.made \cap Sheet) :
      f = Doc \/ f \in s.made[Doc].refs => s.made[f].refs \subseteq DOMAIN s.made

(* Both: what is sent is a whole document of one moment.                    *)
SentIsWhole == SentIsOneMoment /\ SentStandsAlone
=============================================================================
