--------------------------- MODULE MCMetadataQueue ---------------------------
(* The queue, with two threads that may make any call with any lease token *)
(* ever granted, at any time; the handlers of enrich and arXiv jobs, two   *)
(* at once on one PDF; two maintenance commands on one attachment, that    *)
(* polish its file again or move its folder away; the command that         *)
(* downloads a PDF with a browser; and the requests to providers, beside   *)
(* each other.  The handlers touch no row of the queue before they report, *)
(* the commands and the requests none at all, so the run explores one of   *)
(* them at a time.                                                         *)
EXTENDS MetadataQueue, EnrichItem, Repolish, StorageQuarantine, BrowserDownload,
        ProviderHttp, FiniteSets, TLC

CONSTANTS j1, j2, c1, c2, o1, o2, k1, k2, t1, t2, d1, d2,
          rg, ex, a1, b1, arxivOrg, publisher
MCGap == arxivOrg :> 1 @@ publisher :> 0

VARIABLE area

OneAreaInit ==
  /\ area \in {"queue", "handlers", "polish", "quarantine", "browser", "http"}
  /\ Init /\ EnrichInit /\ RepolishInit /\ QuarantineInit /\ BrowserInit
  /\ HttpInit
  /\ area # "handlers" => past = <<>> /\ ~desktop /\ policy = "emptyFieldsOnly"
  /\ area # "polish" => file = [text |-> t1, polished |-> FALSE]
  /\ area # "quarantine" => finding = "orphan" /\ place = d1
  /\ area # "browser" => page = NoHost
(* Bound: two owners hold two leases that differ in their owner or their    *)
(* attempt; a new generation may grant the same ones again.                 *)
FewLeases ==
  Cardinality({ token.owner : token \in granted' }) = 2 => Cardinality(granted') = 2

(* Bound: of two requests one is for an article on one site and not         *)
(* redirected, and requests that are neither for articles nor lookups are   *)
(* made only before a second has passed or a server has asked for silence.  *)
OnlyArticle(c) ==
  /\ c.asker = "article" /\ Len(c.trail) <= (IF c.pc = "resolving" THEN 0 ELSE 1)
  /\ c.url = [scheme |-> "https", site |-> arxivOrg]
FewRequests ==
  /\ \A f, g \in Fetcher : f # g /\ call[f] # NoCall /\ call[g] # NoCall =>
       OnlyArticle(call[f]) \/ OnlyArticle(call[g])
  /\ \A f \in Fetcher : call[f] # NoCall =>
       \/ call[f].asker \in {"lookup", "article"}
       \/ second = 0 /\ \A site \in Site : hushed[site] = 0

OneAreaNext ==
  /\ UNCHANGED area
  /\ \/ area = "queue" /\ Next /\ FewLeases
        /\ UNCHANGED <<evars, rvars, qvars, dvars, tvars>>
     \/ area = "handlers" /\ EnrichNext /\ UNCHANGED <<vars, rvars, qvars, dvars, tvars>>
     \/ area = "polish" /\ RepolishNext /\ UNCHANGED <<vars, evars, qvars, dvars, tvars>>
     \/ area = "quarantine" /\ QuarantineNext
        /\ UNCHANGED <<vars, evars, rvars, dvars, tvars>>
     \/ area = "browser" /\ BrowserNext
        /\ UNCHANGED <<vars, evars, rvars, qvars, tvars>>
     \/ area = "http" /\ HttpNext /\ FewRequests'
        /\ UNCHANGED <<vars, evars, rvars, qvars, dvars>>
OneAreaSpec ==
  OneAreaInit /\ [][OneAreaNext]_<<area, vars, evars, rvars, qvars, dvars, tvars>>

TypesOK == /\ TypeOK /\ EnrichTypeOK /\ RepolishTypeOK /\ QuarantineTypeOK
             /\ BrowserTypeOK /\ HttpTypeOK

(* The threads that call the store are the threads of the handlers, and    *)
(* the commands bear their names.                                          *)
MCSymmetry == Permutations(Job) \cup Permutations(Client)
                \cup Permutations(Owner) \cup Permutations(Key)
=============================================================================
