--------------------------- MODULE SnapshotAssets ---------------------------
(* write_html_snapshot and SnapshotAssetDownloader of html_sources.py: the  *)
(* resources of an article page are downloaded beside it, those a           *)
(* stylesheet refers to in a call within the call that is saving the sheet, *)
(* and page and sheets are rewritten to refer to the files.  Which          *)
(* references are worth a download, and the text that is replaced, are left *)
(* out; the order of the references of a page or a sheet is any.            *)
EXTENDS Integers, Sequences, FiniteSets, Functions

CONSTANTS
  Resource,     \* absolute URLs of resources
  SheetUrl,     \* those that lead to a stylesheet
  RefersTo,     \* the resources a stylesheet refers to
  PageItself,        \* of the page, which no resource refers to
  MaxSaved,     \* max_assets
  MaxTotal,     \* max_total_asset_bytes
  MaxOne,       \* DEFAULT_MAX_ASSET_BYTES
  MaxDepth      \* of a stylesheet within another: 3 in the code

ASSUME SnapshotAssumption ==
  /\ SheetUrl \subseteq Resource /\ PageItself \notin Resource
  /\ RefersTo \in [SheetUrl -> SUBSET Resource]
  /\ MaxSaved \in Nat /\ MaxTotal \in Nat /\ MaxOne \in Nat /\ MaxDepth \in Nat

Name == 1..MaxSaved     \* a file's name begins with its number

VARIABLES
  stack,   \* the page and the stylesheets being saved, each within the last
  known,   \* _seen: the files by URL
  number,  \* saved_count
  bytes,   \* total_bytes
  asset,   \* what there is of each file
  outcome  \* of the page
avars == <<stack, known, number, bytes, asset, outcome>>

(* A page or a sheet being saved: the references left to look at and the    *)
(* files those before it are replaced with.                                 *)
Frame == [url : Resource \cup {PageItself}, final : Resource \cup {PageItself},
          name : Name \cup {0}, todo : SUBSET Resource, files : SUBSET Name]
Unsaved == [written |-> FALSE, size |-> 0, files |-> {}]

SnapshotTypeOK ==
  /\ stack \in Seq(Frame) /\ stack # <<>>
  /\ known \in [Resource -> Name \cup {0}]
  /\ number \in Nat /\ bytes \in Nat
  /\ asset \in [Name -> [written : BOOLEAN, size : Nat, files : SUBSET Name]]
  /\ outcome \in {"saving", "saved", "failed"}

SnapshotInit ==
  /\ \E todo \in SUBSET Resource :
       stack = <<[url |-> PageItself, final |-> PageItself, name |-> 0, todo |-> todo,
                  files |-> {}]>>
  /\ known = [r \in Resource |-> 0]
  /\ number = 0 /\ bytes = 0
  /\ asset = [n \in Name |-> Unsaved]
  /\ outcome = "saving"

Depth == Len(stack) - 1
InProgress == {stack[i].url : i \in DOMAIN stack}
(* The sheet or the page that is looked at goes on without, or with, a file. *)
GoesOn(frame, r, files) ==
  [frame EXCEPT !.todo = @ \ {r}, !.files = @ \cup files]
Replaced(frames, frame) == [frames EXCEPT ![Len(frames)] = frame]
Popped == SubSeq(stack, 1, Len(stack) - 1)

---------------------------------------------------------------------------
(* fetch(): the file is there already.                                      *)
Reuse(r) ==
  /\ known[r] # 0
  /\ stack' = Replaced(stack, GoesOn(stack[Len(stack)], r, {known[r]}))
  /\ UNCHANGED <<known, number, bytes, asset, outcome>>

(* Refused by a limit or by the server, or too large.                       *)
GiveUp(r) ==
  /\ known[r] = 0
  /\ stack' = Replaced(stack, GoesOn(stack[Len(stack)], r, {}))
  /\ UNCHANGED <<known, number, bytes, asset, outcome>>

MayFetch(r) ==
  /\ known[r] = 0 /\ r \notin InProgress
  /\ Depth <= MaxDepth /\ number < MaxSaved /\ bytes < MaxTotal
(* No more is read than what is left of the limits.                         *)
Readable == {s \in 0..MaxOne : bytes + s <= MaxTotal}

(* It is written at once; a redirect makes it known by two URLs.            *)
Knows(r, final, n) == known' = [known EXCEPT ![r] = n, ![final] = n]
SaveImage(r, final, size) ==
  /\ MayFetch(r) /\ final \notin SheetUrl
  /\ number' = number + 1 /\ bytes' = bytes + size
  /\ asset' = [asset EXCEPT ![number'] =
                 [written |-> TRUE, size |-> size, files |-> {}]]
  /\ Knows(r, final, number')
  /\ stack' = Replaced(stack, GoesOn(stack[Len(stack)], r, {number'}))
  /\ UNCHANGED outcome

(* A stylesheet has its number and is counted before what it refers to, but *)
(* is known only once it is written.                                        *)
KnownWhenOpened(r, final, n) == Knows(r, final, n)
KnownLater(r, final, n) == UNCHANGED known
OpenSheet(r, final, size) ==
  /\ MayFetch(r) /\ final \in SheetUrl
  /\ number' = number + 1 /\ bytes' = bytes + size
  /\ asset' = [asset EXCEPT ![number'].size = size]
  /\ stack' = Append(stack, [url |-> r, final |-> final, name |-> number',
                             todo |-> RefersTo[final], files |-> {}])
  /\ KnownLater(r, final, number')
  /\ UNCHANGED outcome

(* _rewrite_css_assets is through: a sheet that has grown over the limit is *)
(* kept as it came.                                                         *)
CloseSheet(size) ==
  LET top == stack[Len(stack)]
      growth == size - asset[top.name].size
      fits == growth <= 0 \/ bytes + growth <= MaxTotal
  IN
  /\ Len(stack) > 1 /\ top.todo = {}
  /\ asset' = [asset EXCEPT ![top.name] =
                 [written |-> TRUE, size |-> IF fits THEN size ELSE @.size,
                  files |-> IF fits THEN top.files ELSE {}]]
  /\ bytes' = IF fits THEN bytes + growth ELSE bytes
  /\ Knows(top.url, top.final, top.name)
  /\ stack' = Replaced(Popped, GoesOn(Popped[Len(Popped)], top.url, {top.name}))
  /\ UNCHANGED <<number, outcome>>

WritePage ==
  /\ Len(stack) = 1 /\ stack[1].todo = {}
  /\ outcome' = "saved"
  /\ UNCHANGED <<stack, known, number, bytes, asset>>

(* A file cannot be written, or a reference be read: nothing catches it.    *)
Raise ==
  /\ outcome' = "failed"
  /\ UNCHANGED <<stack, known, number, bytes, asset>>

LooksAt(r) ==
  \/ Reuse(r) \/ GiveUp(r)
  \/ \E final \in Resource, size \in Readable :
       SaveImage(r, final, size) \/ OpenSheet(r, final, size)
SnapshotNext ==
  /\ outcome = "saving"
  /\ \/ \E r \in stack[Len(stack)].todo : LooksAt(r)
     \/ \E size \in 0..(MaxOne + 1) : CloseSheet(size)
     \/ WritePage
     \/ Raise
SnapshotSpec == SnapshotInit /\ [][SnapshotNext]_avars

---------------------------------------------------------------------------
AssetSize == [n \in Name |-> asset[n].size]
(* Whatever refers to what, and wherever it is cut off by a limit: the      *)
(* bytes counted are those of the files and within the limit, and a file    *)
(* that is written, the page last, refers to files that are written too.    *)
(* Stylesheets that import each other do not recurse without end            *)
(* (SnapshotAssetDownloader.fetch).                                         *)
SnapshotWhole ==
  /\ bytes = SumFunctionOnSet(AssetSize, Name)
  /\ bytes <= MaxTotal /\ number <= MaxSaved
  /\ \A n \in Name : asset[n].written =>
       \A m \in asset[n].files : asset[m].written
  /\ outcome = "saved" => \A m \in stack[1].files : asset[m].written
  /\ Len(stack) <= MaxDepth + 2
  /\ \A i, j \in DOMAIN stack : stack[i].url = stack[j].url => i = j
=============================================================================
