----------------------------- MODULE EnrichItem -----------------------------
(***************************************************************************)
(* The enrich and arXiv-HTML handlers at work on one PDF: they look the    *)
(* parent item up in zotero.sqlite, have zotero-file-relay make a parent   *)
(* when it has none, patch the parent or attach the arXiv HTML through the *)
(* relay, and write what the relay answered into zotero.sqlite, the mirror,*)
(* unless Zotero Desktop runs.                                             *)
(*                                                                         *)
(* Whose lease the job is under is the matter of MetadataDrain: here any   *)
(* thread may make an attempt at any time, as after a lapsed lease, and    *)
(* may end at any point: an exception, a lease found lost, a crash, a      *)
(* provider without a candidate.                                           *)
(***************************************************************************)
EXTENDS Integers, Sequences

CONSTANTS
  Hand,         \* threads that drain enrich and arXiv jobs
  Policies,     \* metadata policies to choose from
  MaxTries,     \* bound on the attempts of all threads together
  MaxSends,     \* how often request_json sends a request
  MaxVersions,  \* bound on the versions of the parent item
  MaxDeeds      \* bound on what the user and Zotero Desktop do

ASSUME EnrichAssumption ==
  /\ Policies \subseteq {"emptyFieldsOnly", "allowOverwrite"}
  /\ MaxTries \in Nat /\ MaxSends \in Nat /\ MaxVersions \in Nat
  /\ MaxDeeds \in Nat

VARIABLES
  past,      \* versions of the parent on the server, empty: it has no parent
  siblings,  \* arXiv HTML on the server, by the file (mtime) it was made from
  memo,      \* the relay's memory: per patch its reply, or Unanswered
  mirror,    \* what zotero.sqlite shows
  desktop,   \* whether Zotero Desktop runs
  hand,      \* per thread: where its handler is
  tries,     \* attempts made
  deeds,     \* what the user and Zotero Desktop have done
  policy     \* the metadata policy

evars == <<past, siblings, memo, mirror, desktop, hand, tries, deeds, policy>>

Field == {"title", "DOI"}
Value == {"", "stem", "found", "user"}
Blank == [f \in Field |-> ""]
Stem == [Blank EXCEPT !["title"] = "stem"]

Unanswered == [applied |-> {}, version |-> 0]
NoHand == [pc |-> "idle", kind |-> "enrich", fields |-> Blank, inMirror |-> FALSE,
           linked |-> FALSE, created |-> FALSE, patch |-> {}, html |-> 0,
           reply |-> Unanswered, sent |-> 0]

HandAt == {"idle", "ask_parent", "parent_gate", "parent_write", "reread",
           "search", "ask_patch", "mirror_write",
           "ask_sibling", "sibling_gate", "sibling_write"}
EnrichTypeOK ==
  /\ past \in Seq([Field -> Value]) /\ Len(past) <= MaxVersions
  /\ siblings \subseteq 1..MaxTries
  /\ memo \in [SUBSET Field -> [applied : SUBSET Field, version : 0..MaxVersions]]
  /\ mirror \in [link : BOOLEAN, row : BOOLEAN, fields : [Field -> Value],
                 version : 0..MaxVersions, synced : BOOLEAN,
                 html : SUBSET (1..MaxTries)]
  /\ desktop \in BOOLEAN /\ policy \in Policies /\ tries \in 0..MaxTries
  /\ deeds \in 0..MaxDeeds
  /\ \A w \in Hand : /\ hand[w].pc \in HandAt /\ hand[w].patch \subseteq Field
                     /\ hand[w].fields \in [Field -> Value]

Server == past[Len(past)]
MirrorOf(n, linked, known) ==
  [link |-> linked, row |-> known, synced |-> TRUE, html |-> {},
   version |-> IF known THEN n ELSE 0,
   fields |-> IF known THEN past[n] ELSE Blank]

(* The PDF stands alone, or it has a parent; of a link made elsewhere, and *)
(* of the parent itself, the mirror may not know yet.                      *)
EnrichInit ==
  /\ past \in {<<>>} \cup
       { << [f \in Field |-> IF f \in filled THEN "user" ELSE ""] >> :
           filled \in SUBSET Field }
  /\ \E linked, known \in BOOLEAN :
       /\ (linked => known) /\ (known => past # <<>>)
       /\ mirror = MirrorOf(1, linked, known)
  /\ siblings = {} /\ desktop \in BOOLEAN /\ policy \in Policies
  /\ memo = [p \in SUBSET Field |-> Unanswered]
  /\ hand = [w \in Hand |-> NoHand] /\ tries = 0 /\ deeds = 0

-----------------------------------------------------------------------------
InHand(w, pc) == hand[w].pc = pc
Becomes(w, r) == hand' = [hand EXCEPT ![w] = r]
Goes(w, pc) == Becomes(w, [hand[w] EXCEPT !.pc = pc])
OnlyHand == UNCHANGED <<past, siblings, memo, mirror, desktop, tries, deeds, policy>>

(* The handler ends, with whatever report.                                 *)
EndAttempt(w) == hand[w].pc # "idle" /\ Becomes(w, NoHand) /\ OnlyHand

(* The parent as the mirror has it; without one the relay is asked.        *)
Attempt(w, kind) ==
  /\ InHand(w, "idle") /\ tries < MaxTries
  /\ tries' = tries + 1
  /\ Becomes(w, IF mirror.link /\ mirror.row
       THEN [NoHand EXCEPT !.pc = "search", !.kind = kind, !.linked = TRUE,
                           !.fields = mirror.fields, !.inMirror = TRUE]
       ELSE [NoHand EXCEPT !.pc = "ask_parent", !.kind = kind])
  /\ UNCHANGED <<past, siblings, memo, mirror, desktop, deeds, policy>>

-----------------------------------------------------------------------------
(* request_json: the request is sent, and sent again after a timeout or a  *)
(* transient error; the relay may have carried it out each time.           *)

(* An answer that is lost leaves the handler where it is.                  *)
Sendable(w, pc) == InHand(w, pc) /\ hand[w].sent < MaxSends
Reply(w, r, next) ==
  \/ Becomes(w, [r EXCEPT !.pc = next, !.sent = 0])
  \/ Becomes(w, [hand[w] EXCEPT !.sent = hand[w].sent + 1])

(* ensure_parent: a new parent has the stem of the file name as its title. *)
(* The relay finds the parent there, or returns the reply of its creation. *)
EnsureParent(w) ==
  /\ Sendable(w, "ask_parent")
  /\ \E created \in BOOLEAN :
       /\ past' = IF past = <<>> THEN <<Stem>> ELSE past
       /\ (past = <<>> => created) /\ (created => past'[1] = Stem)
       /\ Reply(w, [hand[w] EXCEPT !.created = created], "parent_gate")
  /\ UNCHANGED <<siblings, memo, mirror, desktop, tries, deeds, policy>>

(* patch_parent_metadata: the relay knows a request again by the digest of *)
(* its fields; else it applies them as the policy allows.                  *)
Patchable(fields, patch) ==
  { f \in patch : IF policy = "emptyFieldsOnly" THEN fields[f] = ""
                  ELSE fields[f] # "found" }
PatchParent(w) ==
  LET patch == hand[w].patch
      applied == Patchable(Server, patch)
      new == [f \in Field |-> IF f \in applied THEN "found" ELSE Server[f]] IN
  /\ Sendable(w, "ask_patch")
  /\ \/ /\ memo[patch] # Unanswered
        /\ Reply(w, [hand[w] EXCEPT !.reply = memo[patch]], "mirror_write")
        /\ UNCHANGED <<past, memo>>
     \/ /\ applied # {} => Len(past) < MaxVersions
        /\ past' = IF applied = {} THEN past ELSE Append(past, new)
        /\ LET reply == [applied |-> applied, version |-> Len(past')] IN
             /\ memo' = [memo EXCEPT ![patch] = reply]
             /\ Reply(w, [hand[w] EXCEPT !.reply = reply], "mirror_write")
  /\ UNCHANGED <<siblings, mirror, desktop, tries, deeds, policy>>

(* create_html_sibling, under a key that holds the mtime of the file.      *)
CreateSibling(w) ==
  /\ Sendable(w, "ask_sibling")
  /\ siblings' = siblings \cup {hand[w].html}
  /\ Reply(w, hand[w], "sibling_gate")
  /\ UNCHANGED <<past, memo, mirror, desktop, tries, deeds, policy>>

-----------------------------------------------------------------------------
(* sync_ensured_parent_local: the gate and the SELECTs come before the     *)
(* transaction.  Of two threads that insert the parent one fails, and as   *)
(* the database is locked while Desktop runs, so does a write that Desktop *)
(* overtakes (EndAttempt).                                                 *)
ParentGate(w) ==
  /\ InHand(w, "parent_gate")
  /\ IF desktop THEN Goes(w, "reread")
     ELSE Becomes(w, [hand[w] EXCEPT !.pc = "parent_write", !.inMirror = mirror.row])
  /\ OnlyHand

(* Rows of the mirror: a new parent, which has a version if the relay has  *)
(* just made it, and the fields of the parent.                             *)
ParentInserted(m, created) ==
  [m EXCEPT !.row = TRUE, !.synced = TRUE,
            !.version = IF created THEN 1 ELSE m.version]
Upserted(m, fields, value) ==
  [m EXCEPT !.fields = [f \in Field |->
                           IF f \in fields THEN value ELSE m.fields[f]]]

(* The title is written whether or not the parent was made just now.       *)
ParentWrite(w) ==
  LET m == IF hand[w].inMirror THEN mirror ELSE ParentInserted(mirror, hand[w].created) IN
  /\ InHand(w, "parent_write") /\ ~desktop
  /\ mirror.row => hand[w].inMirror
  /\ mirror' = [Upserted(m, {"title"}, "stem") EXCEPT !.link = TRUE]
  /\ Becomes(w, [hand[w] EXCEPT !.pc = "reread", !.linked = TRUE])
  /\ UNCHANGED <<past, siblings, memo, desktop, tries, deeds, policy>>

(* _ensure_parent_metadata_context looks again, and makes do with what the *)
(* relay said when the mirror still does not show the parent.              *)
RereadParent(w) ==
  /\ InHand(w, "reread")
  /\ Becomes(w, [hand[w] EXCEPT !.pc = "search", !.inMirror = mirror.row,
                  !.created = FALSE, !.fields = IF mirror.row THEN mirror.fields ELSE Stem])
  /\ OnlyHand

-----------------------------------------------------------------------------
(* The enrich handler: a candidate with some of the fields.                *)
Search(w) ==
  /\ InHand(w, "search") /\ hand[w].kind = "enrich"
  /\ \E found \in SUBSET Field :
       LET patch == Patchable(hand[w].fields, found) IN
       /\ patch # {}
       /\ Becomes(w, [NoHand EXCEPT !.pc = "ask_patch", !.patch = patch,
                                      !.inMirror = hand[w].inMirror])
  /\ OnlyHand

(* sync_parent_metadata_local writes what the relay says it has applied,   *)
(* if the parent has a row and Desktop, which locks the file, does not run.*)
WholePatch(r) == r.patch
ToMirror(r) == r.reply.applied
MirrorWrite(w) ==
  /\ InHand(w, "mirror_write") /\ ~desktop
  /\ hand[w].inMirror /\ hand[w].reply.applied # {}
  /\ mirror' = [Upserted(mirror, ToMirror(hand[w]), "found") EXCEPT
                  !.version = hand[w].reply.version, !.synced = TRUE]
  /\ Becomes(w, NoHand)
  /\ UNCHANGED <<past, siblings, memo, desktop, tries, deeds, policy>>

-----------------------------------------------------------------------------
(* The arXiv handler: it writes the HTML file, whose mtime no other has;   *)
(* attaches it unless the mirror shows one under the name; then the mirror.*)
PrepareSibling(w) ==
  /\ InHand(w, "search") /\ hand[w].kind = "arxiv_html"
  /\ \E n \in 1..MaxTries :
       /\ n \notin siblings /\ \A v \in Hand : hand[v].html # n
       /\ \A m \in 1..(n - 1) : m \in siblings \/ \E v \in Hand : hand[v].html = m
       /\ Becomes(w, [NoHand EXCEPT !.pc = "ask_sibling", !.html = n])
  /\ ~hand[w].linked \/ mirror.html = {}
  /\ OnlyHand

SiblingGate(w) ==
  /\ InHand(w, "sibling_gate")
  /\ ~desktop /\ mirror.row /\ mirror.html = {}
  /\ Goes(w, "sibling_write") /\ OnlyHand

SiblingWrite(w) ==
  /\ InHand(w, "sibling_write") /\ ~desktop
  /\ mirror' = [mirror EXCEPT !.html = mirror.html \cup {hand[w].html}]
  /\ Becomes(w, NoHand)
  /\ UNCHANGED <<past, siblings, memo, desktop, tries, deeds, policy>>

-----------------------------------------------------------------------------
(* The user, on the web and in Zotero Desktop, which syncs.                *)
Deed == deeds < MaxDeeds /\ deeds' = deeds + 1

Toggle ==
  /\ Deed /\ desktop' = ~desktop
  /\ UNCHANGED <<past, siblings, memo, mirror, hand, tries, policy>>

EditOnline(f) ==
  /\ Deed
  /\ past # <<>> /\ Len(past) < MaxVersions
  /\ past' = Append(past, [Server EXCEPT ![f] = "user"])
  /\ UNCHANGED <<siblings, memo, mirror, desktop, hand, tries, policy>>

EditInDesktop(f) ==
  /\ Deed
  /\ desktop /\ mirror.row
  /\ mirror' = [mirror EXCEPT !.fields[f] = "user", !.synced = FALSE]
  /\ UNCHANGED <<past, siblings, memo, desktop, hand, tries, policy>>

(* What was edited goes up, unless the user takes the other side's.        *)
Sync ==
  /\ Deed
  /\ desktop /\ past # <<>>
  /\ \/ /\ ~mirror.synced /\ Len(past) < MaxVersions
        /\ past' = Append(past, mirror.fields)
     \/ /\ mirror.synced \/ mirror.version # Len(past)
        /\ past' = past
  /\ mirror' = [link |-> TRUE, row |-> TRUE, fields |-> past'[Len(past')],
                version |-> Len(past'), synced |-> TRUE, html |-> siblings]
  /\ UNCHANGED <<siblings, memo, desktop, hand, tries, policy>>

EnrichNext ==
  \/ \E w \in Hand :
       \/ \E kind \in {"enrich", "arxiv_html"} : Attempt(w, kind)
       \/ EndAttempt(w)
       \/ EnsureParent(w) \/ PatchParent(w) \/ CreateSibling(w)
       \/ ParentGate(w) \/ ParentWrite(w) \/ RereadParent(w)
       \/ Search(w) \/ MirrorWrite(w)
       \/ PrepareSibling(w) \/ SiblingGate(w) \/ SiblingWrite(w)
  \/ Toggle \/ Sync
  \/ \E f \in Field : EditOnline(f) \/ EditInDesktop(f)

EnrichSpec == EnrichInit /\ [][EnrichNext]_evars

-----------------------------------------------------------------------------
(* Properties.                                                             *)

(* The mirror quotes the server: whenever its parent moves to another      *)
(* version, every field that changes with it is what the server had in     *)
(* that version, although the handler decided from an older row, the       *)
(* request was carried out more than once and somebody edits meanwhile;    *)
(* and it shows no HTML that is not there (local_attachment_sync.py).      *)
MirrorQuotesServer ==
  [][ /\ mirror'.html \subseteq siblings'
      /\ mirror'.version # mirror.version =>
           \A f \in Field : mirror'.fields[f] # mirror.fields[f] =>
             mirror'.fields[f] = past'[mirror'.version][f] ]_evars

(* "emptyFieldsOnly: only fill in empty fields" (ARCHITECTURE.md of        *)
(* zotero-metadata-enrichment): what a handler writes into zotero.sqlite   *)
(* takes the place of no value.                                            *)
OnlyEmptyFilled ==
  [][ policy = "emptyFieldsOnly" /\ ~desktop =>
        \A f \in Field : mirror.fields[f] \in {"", mirror'.fields[f]} ]_evars
=============================================================================
