---------------------------- MODULE MCSharedState ----------------------------
(* What the containers share, each thing worked on alone: the tables of    *)
(* the store, an article package directory, a file of the Zotero storage,  *)
(* and a source HTML file with its assets.  No statement of the store      *)
(* reads two of the queues, each of its methods has a transaction of its   *)
(* own, and the paths have no file in common, so a behaviour of them all   *)
(* is one behaviour per thing: the run chooses one and explores what can   *)
(* happen to it while the others rest.                                     *)
EXTENDS FileJobQueue, StateHistory, ArticlePackage, LocalCopy,
        EmbeddedHtml, TLC

CONSTANTS f1, f2, s1, h1, h2, e1, e2,
          w1, w2, w3, v1, v2, u1, u2, original, saved, b1, b2, html, image,
          style

MCEarlier == <<v1, v2>>
MCContent == u1 :> "same" @@ saved :> "same" @@ u2 :> "other"
               @@ original :> "other"

(* An HTML file with a stylesheet that names an image, with the image too, *)
(* or one that refers to nothing.                                          *)
MCDocRefs == {{}, {style}, {image, style}}
MCSheetRefs == {{image}}

VARIABLE area

(* Bounds: files are enqueued, and a second row appears, only while nothing*)
(* else has happened, which is what two racing enqueues need; then one row *)
(* is worked on, that of a keyed file (only an enqueue reads the key).     *)
Untouched == clock = 0 /\ \A j \in FileJob :
               /\ files[j].status \in {"absent", "queued"}
               /\ ledger[j] = [leases |-> 0, deferrals |-> 0]
EnqueuedEarly ==
  \/ Untouched
  \/ /\ \A h \in Holder : open[h].op # "insert"
     /\ ~Stored(f2) /\ files[f1].sig # Null

(* Bound: two reports, of one row or of two; other events store no result. *)
FewReports == reports[e1] + reports[e2] <= 2

(* Bound: two troubles, one of which may be the death of a process.        *)
TwoTroubles == crashes + faults <= 2

(* Bound: a snapshot is damaged only while the files are written once.     *)
SpoiltOnlyEarly == spoils > 0 => Len(past) <= 2

SharedInit ==
  /\ area \in {"files", "history", "package", "local", "html"}
  /\ FileInit /\ HistoryInit /\ PackageInit /\ LocalInit /\ EmbedInit
  /\ area # "package" => LeftBehind(v2, NoTree, {v2}, {})
  /\ area # "local" => target = NoFile /\ \A c \in Caller : kind[c] = "new"
  /\ area # "html" => disk[html].refs = {}

SharedNext ==
  /\ UNCHANGED area
  /\ \/ /\ area = "files" /\ FileNext /\ EnqueuedEarly'
        /\ UNCHANGED <<hvars, pvars, lvars, bvars>>
     \/ /\ area = "history" /\ HistoryNext /\ FewReports'
        /\ UNCHANGED <<fvars, pvars, lvars, bvars>>
     \/ /\ area = "package" /\ PackageNext /\ TwoTroubles'
        /\ UNCHANGED <<fvars, hvars, lvars, bvars>>
     \/ /\ area = "local" /\ LocalNext
        /\ UNCHANGED <<fvars, hvars, pvars, bvars>>
     \/ /\ area = "html" /\ EmbedNext /\ SpoiltOnlyEarly'
        /\ UNCHANGED <<fvars, hvars, pvars, lvars>>

SharedSpec ==
  SharedInit /\
    [][SharedNext]_<<area, fvars, hvars, pvars, lvars, bvars>>

SharedTypeOK == /\ FileTypeOK /\ HistoryTypeOK /\ PackageTypeOK /\ LocalTypeOK
                /\ EmbedTypeOK

(* Only one area is in use, so a renaming may act on several at once.      *)
Swap(a, b) == a :> b @@ b :> a
Stay(a, b) == a :> a @@ b :> b
MCSymmetry ==
  { p @@ q :
      p \in { Swap(e1, e2) @@ Swap(w1, w2), Stay(e1, e2) @@ Stay(w1, w2) },
      q \in { Swap(h1, h2) @@ Swap(b1, b2), Stay(h1, h2) @@ Stay(b1, b2) } }
=============================================================================
