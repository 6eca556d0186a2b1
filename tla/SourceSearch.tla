---------------------------- MODULE SourceSearch ----------------------------
(* The search for the full text of one item: download_html_sources,         *)
(* download_pdf_sources and FullTextDiscoveryOrchestrator.discover_payload. *)
(* Pages are probed in an order and up to a limit, and lead to PDFs and to  *)
(* other pages; PDFs are written, looked at and removed if they are not of  *)
(* the item; an arXiv page that was only a landing is asked for as HTML.    *)
(* The files of a search are in a directory named after the item, so a      *)
(* search that lost its job may still be in it while the next one begins,   *)
(* and one that failed leaves its files behind.                             *)
EXTENDS Integers, FiniteSets

CONSTANTS
  Searcher,
  Page, Paper,    \* URLs of pages and of PDFs
  NoUrl,
  HtmlOf,         \* the HTML of each page that is an abstract of arXiv
  Rank,           \* of a page, by _html_probe_priority
  LeadsTo,        \* the pages that the URL of a page may be redirected to
  Names,          \* those that a page names as the article in its place
  Cites,          \* the PDFs that a page names
  MaxPages,       \* 12 in the code
  MaxPapers,      \* 3 in the code
  MaxNested,      \* bound on pages that name another one in their place:
                  \* Python's recursion limit, which ends in an error
  MaxRuns         \* bound on the searches

Landing == DOMAIN HtmlOf
ASSUME SearchAssumption ==
  /\ Landing \subseteq Page /\ HtmlOf \in [Landing -> Page \ Landing]
  /\ Rank \in [Page -> Nat] /\ NoUrl \notin Page \cup Paper
  /\ Page \cap Paper = {}    \* they are written to directories of their own
  /\ LeadsTo \in [Page -> SUBSET Page] /\ Names \in [Page -> SUBSET Page]
  /\ Cites \in [Page -> SUBSET Paper]
  /\ MaxPages \in Nat \ {0} /\ MaxPapers \in Nat /\ MaxNested \in Nat
  /\ MaxRuns \in Nat

(* _html_probe_priority: HTML of arXiv comes before any other page; and an  *)
(* item does not come with more of arXiv's papers than pages are probed.    *)
HtmlPage == {HtmlOf[l] : l \in Landing}
ASSUME HtmlFirst ==
  /\ \A h \in HtmlPage, p \in Page \ HtmlPage : Rank[h] < Rank[p]
  /\ IsFiniteSet(HtmlPage) /\ Cardinality(HtmlPage) <= MaxPages

(* How an attempt ends: not made for the limit, without a file, or with a   *)
(* page that is the article or too little of one, a PDF that is of the item *)
(* or has to be read by OCR first.                                          *)
PageKept == {"article", "weak"}
PaperKept == {"paper", "scan"}
Kept == PageKept \cup PaperKept
Body == Kept \cup {"other"}

(* A file is named after the number of the attempt and the URL.             *)
File == (Nat \ {0}) \X (Page \cup Paper)
ASSUME NoFile == NoUrl \notin File

VARIABLES
  search,   \* what each searcher is doing
  disk,     \* the files in the directory, with what is in them
  begun     \* how many searches were begun
uvars == <<search, disk, begun>>

NoSearch == [pc |-> "idle"]
(* A search: the pages and landings left, the PDFs known at first and those *)
(* named by pages, the attempts made, what it is at, how often that was     *)
(* named in place of another page, the bytes it holds of it, the results    *)
(* and how many of them are of pages; as history, the pages read and        *)
(* whether no other search was under way meanwhile.                         *)
PageResult == [url : Page \cup Paper, final : Page \cup {NoUrl},
           end : Kept \cup {"skipped", "failed"}, file : File \cup {NoUrl}]
Searching ==
  [pc : {"pages", "papers", "checking", "landings", "found"},
   hasPdf : BOOLEAN, left : SUBSET Page, papers : SUBSET Paper,
   cited : SUBSET Paper, landings : SUBSET Landing, tries : Nat,
   at : Page \cup Paper \cup {NoUrl}, nested : Nat, held : Body \cup {"none"},
   results : SUBSET PageResult, count : Nat, read : SUBSET Page, alone : BOOLEAN]

SearchTypeOK ==
  /\ search \in [Searcher -> Searching \cup {NoSearch}]
  /\ DOMAIN disk \subseteq File /\ disk \in [DOMAIN disk -> Body]
  /\ begun \in Nat

SearchInit ==
  /\ search = [s \in Searcher |-> NoSearch]
  /\ disk = [f \in {} |-> "other"]
  /\ begun = 0

---------------------------------------------------------------------------
Active(s) == search[s] # NoSearch
Goes(s, rec) == search' = [search EXCEPT ![s] = rec]
With(rec, url, final, end, file) ==
  [rec EXCEPT !.at = NoUrl, !.nested = 0, !.held = "none",
     !.count = IF url \in Page THEN @ + 1 ELSE @,
     !.results = @ \cup {[url |-> url, final |-> final, end |-> end, file |-> file]}]
Writes(file, body) ==
  disk' = [f \in DOMAIN disk \cup {file} |-> IF f = file THEN body ELSE disk[f]]
Unlinks(file) == disk' = [f \in DOMAIN disk \ {file} |-> disk[f]]

(* expanded_html_probe_locations: an arXiv page is looked for as HTML too.  *)
Expanded(pages) == pages \cup {HtmlOf[l] : l \in pages \cap Landing}
BeginSearch(s) ==
  /\ ~Active(s) /\ begun < MaxRuns
  /\ \E pages \in SUBSET Page, papers \in SUBSET Paper, hasPdf \in BOOLEAN :
       search' = [t \in Searcher |->
         IF t = s
         THEN [pc |-> "pages", hasPdf |-> hasPdf, left |-> Expanded(pages),
               papers |-> papers, cited |-> {}, landings |-> {}, tries |-> 0,
               at |-> NoUrl, nested |-> 0, held |-> "none", results |-> {},
               count |-> 0, read |-> {},
               alone |-> \A u \in Searcher \ {s} : ~Active(u)]
         ELSE IF Active(t) THEN [search[t] EXCEPT !.alone = FALSE] ELSE NoSearch]
  /\ begun' = begun + 1
  /\ UNCHANGED disk

(* The page that comes next, or no more for the limit.                      *)
First(pages) == CHOOSE p \in pages : \A q \in pages : Rank[p] <= Rank[q]
TakePage(s) ==
  LET c == search[s]
      page == First(c.left)
  IN
  /\ c.pc = "pages" /\ c.at = NoUrl /\ c.left # {}
  /\ Goes(s, IF c.tries >= MaxPages
             THEN [With(c, page, NoUrl, "skipped", NoUrl) EXCEPT !.left = @ \ {page}]
             ELSE [c EXCEPT !.left = @ \ {page}, !.tries = @ + 1, !.at = page])
  /\ UNCHANGED <<disk, begun>>

(* No answer, or one that is refused before it is read: for its address,    *)
(* its size, its type.                                                      *)
PageFails(s) ==
  LET c == search[s] IN
  /\ c.pc = "pages" /\ c.at # NoUrl
  /\ Goes(s, With(c, c.at, NoUrl, "failed", NoUrl))
  /\ UNCHANGED <<disk, begun>>

(* canonical_article_html_url: another page is fetched in its place, with   *)
(* the same number; its PDFs are added to those of this one.                *)
NamesAnother(s) ==
  LET c == search[s] IN
  /\ c.pc = "pages" /\ c.at # NoUrl /\ c.nested < MaxNested
  /\ \E final \in LeadsTo[c.at] : \E page \in Names[final] :
       Goes(s, [c EXCEPT !.at = page, !.nested = @ + 1,
                         !.cited = @ \cup Cites[final],
                         !.read = @ \cup {final}])
  /\ UNCHANGED <<disk, begun>>

(* The page is no article, or is written; an abstract page of arXiv is not, *)
(* and the verdict on a page that led to one is that it is too little.      *)
PageEnds(url, final) ==
  {"failed"} \cup (IF url \in Landing THEN {}
                   ELSE IF final \in Landing THEN {"weak"} ELSE PageKept)
ReadPage(s) ==
  LET c == search[s] IN
  /\ c.pc = "pages" /\ c.at # NoUrl
  /\ \E final \in LeadsTo[c.at] :
       /\ Names[final] = {}
       /\ \E end \in PageEnds(c.at, final) :
            LET file == IF end \in Kept THEN <<c.tries, c.at>> ELSE NoUrl IN
            /\ Goes(s, [With(c, c.at, final, end, file) EXCEPT
                          !.cited = @ \cup Cites[final],
                          !.read = @ \cup {final}])
            /\ IF end \in Kept THEN Writes(file, end) ELSE UNCHANGED disk
  /\ UNCHANGED begun

(* full_text_pdf_locations: those known at first come first.                *)
PaperLimit(c) == IF c.hasPdf THEN 0 ELSE MaxPapers
PapersOf(c) == c.papers \cup c.cited
ToPapers(s) ==
  LET c == search[s] IN
  /\ c.pc = "pages" /\ c.at = NoUrl /\ c.left = {}
  /\ Goes(s, [c EXCEPT !.pc = "papers", !.tries = 0])
  /\ UNCHANGED <<disk, begun>>

Seen(c) == {r.url : r \in c.results}
TakePaper(s) ==
  LET c == search[s]
      next == IF c.papers \subseteq Seen(c) THEN PapersOf(c) \ Seen(c)
              ELSE c.papers \ Seen(c)
  IN
  /\ c.pc = "papers" /\ c.at = NoUrl /\ PaperLimit(c) > 0
  /\ \E paper \in next :
       Goes(s, IF c.tries >= PaperLimit(c)
               THEN With(c, paper, NoUrl, "skipped", NoUrl)
               ELSE [c EXCEPT !.tries = @ + 1, !.at = paper])
  /\ UNCHANGED <<disk, begun>>

PaperFails(s) ==
  LET c == search[s] IN
  /\ c.pc = "papers" /\ c.at # NoUrl
  /\ Goes(s, With(c, c.at, NoUrl, "failed", NoUrl))
  /\ UNCHANGED <<disk, begun>>

(* A PDF is written before its text is looked at, and removed again.        *)
PaperFile(c) == <<c.tries, c.at>>
WritePaper(s) ==
  LET c == search[s] IN
  /\ c.pc = "papers" /\ c.at # NoUrl
  /\ \E body \in PaperKept \cup {"other"} :
       /\ Writes(PaperFile(c), body)
       /\ Goes(s, [c EXCEPT !.pc = "checking", !.held = body])
  /\ UNCHANGED begun

Mismatch(body) == body = "other"
CheckPaper(s) ==
  LET c == search[s]
      done == [c EXCEPT !.pc = "papers"]
  IN
  /\ c.pc = "checking"
  /\ IF Mismatch(c.held)
     THEN /\ Goes(s, With(done, c.at, NoUrl, "failed", NoUrl))
          /\ Unlinks(PaperFile(c))
     ELSE /\ Goes(s, With(done, c.at, NoUrl, c.held, PaperFile(c)))
          /\ UNCHANGED disk
  /\ UNCHANGED begun

(* _append_arxiv_html_candidates_from_abs_landings: without an article, for *)
(* the landings that were met and whose HTML was not.                       *)
Met(c) == Seen(c) \cup {r.final : r \in c.results}
HasArticle(c) == \E r \in c.results : r.end = "article"
MissedByUrl(c) == {l \in Landing \cap Seen(c) : HtmlOf[l] \notin Met(c)}
Missed(c) ==
  IF HasArticle(c) THEN {}
  ELSE {l \in Landing \cap Met(c) : HtmlOf[l] \notin Met(c)}
ToLandings(s) ==
  LET c == search[s] IN
  /\ c.pc = "papers" /\ c.at = NoUrl
  /\ PaperLimit(c) = 0 \/ PapersOf(c) \subseteq Seen(c)
  /\ Goes(s, [c EXCEPT !.pc = "landings", !.landings = Missed(c)])
  /\ UNCHANGED <<disk, begun>>

(* Whatever goes wrong with one is caught and is a result.                  *)
Rescue(s) ==
  LET c == search[s] IN
  /\ c.pc = "landings"
  /\ \E l \in c.landings, end \in PageKept \cup {"failed"} :
       LET rest == [c EXCEPT !.landings = @ \ {l}]
           url == HtmlOf[l]
           file == <<c.count + 1, url>>
       IN
       IF end = "failed"
       THEN Goes(s, With(rest, url, url, end, NoUrl)) /\ UNCHANGED disk
       ELSE Goes(s, With(rest, url, url, end, file)) /\ Writes(file, end)
  /\ UNCHANGED begun

(* What was found goes on to the attachment, and the search ends there.     *)
Find(s) ==
  LET c == search[s] IN
  /\ c.pc = "landings" /\ c.landings = {}
  /\ Goes(s, [c EXCEPT !.pc = "found"])
  /\ UNCHANGED <<disk, begun>>
Attach(s) ==
  /\ search[s].pc = "found"
  /\ Goes(s, NoSearch)
  /\ UNCHANGED <<disk, begun>>

(* A file cannot be written, pages name each other for too long, or the     *)
(* process dies.                                                            *)
SearchRaises(s) ==
  /\ Active(s) /\ search[s].pc # "found"
  /\ Goes(s, NoSearch)
  /\ UNCHANGED <<disk, begun>>

Searches(s) ==
  \/ BeginSearch(s) \/ TakePage(s) \/ PageFails(s) \/ NamesAnother(s) \/ ReadPage(s)
  \/ ToPapers(s) \/ TakePaper(s) \/ PaperFails(s) \/ WritePaper(s)
  \/ CheckPaper(s) \/ ToLandings(s) \/ Rescue(s) \/ Find(s) \/ Attach(s)
  \/ SearchRaises(s)
SearchNext == \E s \in Searcher : Searches(s)
SearchSpec == SearchInit /\ [][SearchNext]_uvars

---------------------------------------------------------------------------
(* What a search hands on to the attachment: a file of its own for every    *)
(* result it kept, with what it looked at still in it unless a search that  *)
(* lost the job was in the directory too; a result for every PDF that was   *)
(* known or that any page it read named, though another page was taken for  *)
(* that page, unless the item has a PDF; and without an article, an attempt *)
(* at the HTML of every arXiv landing it met, also by a redirect            *)
(* (download_html_sources, fetch_html_source, fetch_pdf_source,             *)
(* discover_payload).                                                       *)
FilesHeld(c) ==
  \A r \in c.results : r.end \in Kept =>
    /\ r.file \in File
    /\ c.alone => r.file \in DOMAIN disk /\ disk[r.file] = r.end
    /\ \A q \in c.results : q.file = r.file => q = r
FoundIsWhole ==
  \A s \in Searcher : Active(s) /\ search[s].pc = "found" =>
    LET c == search[s] IN
    /\ FilesHeld(c)
    /\ ~c.hasPdf /\ MaxPapers > 0 =>
         c.papers \cup UNION {Cites[p] : p \in c.read} \subseteq Seen(c)
    /\ ~HasArticle(c) => \A l \in Landing \cap Met(c) :
         \E r \in c.results : HtmlOf[l] \in {r.url, r.final} /\ r.end # "skipped"
=============================================================================
