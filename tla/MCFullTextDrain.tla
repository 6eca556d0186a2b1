--------------------------- MODULE MCFullTextDrain ---------------------------
(* One paper, the search for its full text, a page that is saved with its  *)
(* resources, and one drain script that works on many papers: the script   *)
(* sees a job as a count, the paper a search as its outcome and the search *)
(* a saved page as a file, so the run explores one of them at a time.      *)
EXTENDS FullTextPaper, CompactDrain, SourceSearch, SnapshotAssets, FiniteSets, TLC

CONSTANTS p1, p2, w1, w2, small, large, r1, r2,
          abs, absHtml, summary, article, d1, d2, css, sheet, img
MCSize == small :> 1 @@ large :> 2
MCElsewhere == <<small, large>>

(* An abstract of arXiv, its HTML, the summary of an article, which may be  *)
(* redirected to the abstract and names a PDF and the article, and that.    *)
MCHtmlOf == abs :> absHtml
MCRank == absHtml :> 0 @@ article :> 1 @@ summary :> 2 @@ abs :> 3
MCLeadsTo == abs :> {abs} @@ absHtml :> {absHtml} @@ article :> {article}
               @@ summary :> {summary, abs}
MCNames == summary :> {article} @@ [p \in {abs, absHtml, article} |-> {}]
MCCites == summary :> {d2} @@ [p \in {abs, absHtml, article} |-> {}]

(* Two stylesheets that import each other and an image.                     *)
MCRefersTo == css :> {css, sheet, img} @@ sheet :> {css, img}

VARIABLE area

(* Bound: a script is given one of its three limits or none.                *)
DrainInit ==
  /\ area \in {"paper", "compact", "search", "snapshot"}
  /\ PaperInit /\ CompactInit /\ SearchInit /\ SnapshotInit
  /\ Cardinality({ n \in {"limit", "maxFailed", "maxRetryable"} : args[n] > 0 }) <= 1
  /\ area # "paper" => \A k \in Key : att[k] = None
  /\ area # "compact" => queue.queued = 0 /\ args.mode = "parallel"
                         /\ args.limit = 0 /\ args.relay
                         /\ args.maxFailed = 0 /\ args.maxRetryable = 0
  /\ area # "snapshot" => stack[1].todo = {}

(* Bound: Sci-Hub is asked of an item that began without source HTML, and   *)
(* gets a second row only while every lease is kept.                        *)
FewScihubRows ==
  LET rows == { j \in Scihub : jobs'[j].status # "absent" } IN
  /\ rows # {} => \A k \in Attached : att[k].dedupe[1] # "elsewhere"
  /\ Cardinality(rows) > 1 => mishaps' = 0

(* Bound: a second search of the item finds one file at most and, as one    *)
(* that is still under way then, looks at one page and one PDF.             *)
SecondSearchIsSmall ==
  begun = 1 /\ begun' = 2 =>
    /\ \E f \in {<<1, article>>, <<1, d1>>} : DOMAIN disk \subseteq {f}
    /\ \A s \in Searcher : search'[s] # NoSearch =>
         /\ search'[s].left \subseteq {article} /\ search'[s].papers \subseteq {d1}
         /\ search'[s].pc = "pages" /\ search'[s].results = {}
         /\ ~search'[s].hasPdf

DrainNext ==
  /\ UNCHANGED area
  /\ \/ area = "paper" /\ PaperNext /\ FewScihubRows
        /\ UNCHANGED <<kvars, uvars, avars>>
     \/ area = "compact" /\ CompactNext /\ UNCHANGED <<zvars, uvars, avars>>
     \/ area = "search" /\ SearchNext /\ SecondSearchIsSmall
        /\ UNCHANGED <<zvars, kvars, avars>>
     \/ area = "snapshot" /\ SnapshotNext /\ UNCHANGED <<zvars, kvars, uvars>>
DrainSpec == DrainInit /\ [][DrainNext]_<<area, zvars, kvars, uvars, avars>>

DrainTypesOK == PaperTypeOK /\ CompactTypeOK /\ SearchTypeOK /\ SnapshotTypeOK

(* Only one of them is in use, so a renaming may act on all.               *)
Both == w1 :> w2 @@ w2 :> w1 @@ p1 :> p2 @@ p2 :> p1
MCSymmetry == {Both} \cup Permutations({r1, r2})
=============================================================================
