--------------------------- MODULE BrowserDownload ---------------------------
(* researchgate_pdf_browser_download.py with its network policy and its     *)
(* CONNECT proxy.  A browser with a profile that may restore pages asks for *)
(* what it likes; the policy decides in a thread from a name lookup, and    *)
(* the proxy looks the name up again before it dials.  The command brings   *)
(* them up in an order, takes one download and tears them down.             *)
EXTENDS Integers, Sequences

CONSTANTS
  MaxRequests,  \* bound on what the browser asks for by itself
  Nobody,
  Family,       \* hosts of the site and of its own content network
  Outside,      \* any other host
  NoHost,       \* the host of a page without one
  PublicAddress, PrivateAddress

ASSUME BrowserAssumption ==
  /\ MaxRequests \in Nat /\ Nobody \notin Nat
  /\ NoHost \notin Family \cup Outside /\ Family \cap Outside = {}

Goto == 0      \* what the command asks for
Request == 0..MaxRequests
Host == Family \cup Outside
Address == PublicAddress \cup PrivateAddress
(* What a lookup may answer: none is an error.                              *)
Lookup == {<<>>} \cup {<<a>> : a \in Address} \cup {<<a, b>> : a, b \in Address}

VARIABLES
  stage,    \* of the command
  guarded,  \* is the policy installed?
  online,   \* the browser starts offline
  page,     \* the host of the page that is shown
  requests, \* where each request is
  download, \* the request whose answer is a download, if any
  result,   \* what the command returns
  saved     \* the file it keeps
dvars == <<stage, guarded, online, page, requests, download, result, saved>>

Unasked == [pc |-> "unasked"]
Over == [pc |-> "over"]
(* A navigation knows the host it was redirected from and the page it       *)
(* leaves; where anything else comes from is not asked.                     *)
Asked == [pc : {"deciding", "connecting", "dialling", "open"},
          host : Host, https : BOOLEAN, navigation : BOOLEAN, pdf : BOOLEAN,
          from : Host \cup {NoHost}, frame : Host \cup {NoHost},
          addresses : Lookup]
Running ==      \* it may be left open before it is closed
  {"guarding", "clearing", "connecting", "going", "clicking", "saving", "closing"}
BrowserTypeOK ==
  /\ stage \in Running \cup {"checking", "launching", "closed"}
  /\ guarded \in BOOLEAN /\ online \in BOOLEAN
  /\ page \in Host \cup {NoHost}
  /\ requests \in [Request -> Asked \cup {Unasked, Over}]
  /\ download \in Request \cup {Nobody}
  /\ result \in {"none", "downloaded", "failed"}
  /\ saved \in {"nothing", "pdf", "leftover"}

BrowserInit ==
  /\ stage = "checking" /\ guarded = FALSE /\ online = FALSE
  /\ page \in Host \cup {NoHost}
  /\ requests = [r \in Request |-> Unasked]
  /\ download = Nobody /\ result = "none" /\ saved = "nothing"

---------------------------------------------------------------------------
(* The command.                                                             *)
AllPublic(addresses) == \A i \in DOMAIN addresses : addresses[i] \in PublicAddress
Resolved(addresses) == addresses # <<>> /\ AllPublic(addresses)

To(next) == stage' = next
Fails == stage' = "closing" /\ result' = "failed"

(* validate_researchgate_initial_url, before anything is started.           *)
CheckInitialUrl ==
  /\ stage = "checking"
  /\ \E host \in Host, addresses \in Lookup :
       IF host \in Family /\ Resolved(addresses)
       THEN To("launching") /\ UNCHANGED result
       ELSE To("closed") /\ result' = "failed"
  /\ UNCHANGED <<guarded, online, page, requests, download, saved>>

(* The proxy listens, the browser is started without a network.             *)
StartOffline == FALSE
Launch ==
  /\ stage = "launching"
  /\ \/ To("guarding") /\ online' = StartOffline /\ UNCHANGED result
     \/ To("closed") /\ result' = "failed" /\ UNCHANGED online
  /\ UNCHANGED <<guarded, page, requests, download, saved>>

InstallPolicy ==
  /\ stage = "guarding"
  /\ \/ To("clearing") /\ guarded' = TRUE /\ UNCHANGED result
     \/ Fails /\ UNCHANGED guarded
  /\ UNCHANGED <<online, page, requests, download, saved>>

ClosePages ==
  /\ stage = "clearing"
  /\ \/ To("connecting") /\ page' = NoHost /\ UNCHANGED result
     \/ Fails /\ UNCHANGED page
  /\ UNCHANGED <<guarded, online, requests, download, saved>>

GoOnline ==
  /\ stage = "connecting"
  /\ \/ To("going") /\ online' = TRUE /\ UNCHANGED result
     \/ Fails /\ UNCHANGED online
  /\ UNCHANGED <<guarded, page, requests, download, saved>>

(* page.goto: the navigation ends, or fails, or takes too long; the network *)
(* need not become idle.                                                    *)
Arrived ==
  /\ stage = "going" /\ requests[Goto].pc # "unasked"
  /\ \/ page # NoHost /\ To("clicking") /\ UNCHANGED result
     \/ Fails
  /\ UNCHANGED <<guarded, online, page, requests, download, saved>>

(* A click of the command, or one by hand, that starts a download.          *)
DownloadStarted ==
  /\ stage = "clicking"
  /\ \/ download # Nobody /\ To("saving") /\ UNCHANGED result
     \/ Fails
  /\ UNCHANGED <<guarded, online, page, requests, download, saved>>

(* save_download: what came is a PDF within the limit, or is removed again, *)
(* or cannot be.                                                            *)
SaveDownload ==
  /\ stage = "saving"
  /\ \/ /\ requests[download].pc = "open"
        /\ To("closing") /\ result' = "downloaded" /\ saved' = "pdf"
     \/ Fails /\ saved' \in {"nothing", "leftover"}
  /\ UNCHANGED <<guarded, online, page, requests, download>>

(* The browser is closed, then the proxy with every handler it knows of.    *)
Teardown ==
  /\ stage = "closing"
  /\ To("closed")
  /\ requests' = [r \in Request |-> Over]
  /\ UNCHANGED <<guarded, online, page, download, result, saved>>

---------------------------------------------------------------------------
(* The browser asks: the policy if it is installed, else the proxy, unless  *)
(* it is offline.                                                           *)
Enters(request) ==
  IF guarded THEN request
  ELSE IF online THEN [request EXCEPT !.pc = "connecting"] ELSE Over
(* Whose answer may send a navigation on.                                   *)
Redirecting ==
  {requests[q].host : q \in {q \in Request : requests[q].pc = "open"
                                              /\ requests[q].navigation}}

AskedFor(host, https, navigation, pdf, from) ==
  [pc |-> "deciding", host |-> host, https |-> https,
   navigation |-> navigation, pdf |-> pdf, from |-> from,
   frame |-> IF navigation THEN page ELSE NoHost, addresses |-> <<>>]

Asks(r) ==
  /\ stage \in Running /\ requests[r] = Unasked
  /\ r = Goto => stage = "going"
  /\ r > 1 => requests[r - 1] # Unasked
  /\ \E host \in Host, https, navigation, pdf \in BOOLEAN :
     \E from \in Redirecting \cup {NoHost} :
       /\ r = Goto => host \in Family /\ https /\ navigation /\ ~pdf /\ from = NoHost
       /\ ~navigation => ~pdf /\ from = NoHost
       /\ requests' = [requests EXCEPT ![r] =
            Enters(AskedFor(host, https, navigation, pdf, from))]
  /\ UNCHANGED <<stage, guarded, online, page, download, result, saved>>

(* evaluate_browser_request.  A redirect counts for the host it came from,  *)
(* anything else for the page it was asked on.                              *)
Source(r) ==
  IF requests[r].from # NoHost THEN requests[r].from ELSE requests[r].frame
MayNavigate(r) ==
  \/ requests[r].host \in Family
  \/ requests[r].pdf /\ Source(r) \in Family
Allowed(r, addresses) ==
  /\ requests[r].https /\ Resolved(addresses)
  /\ requests[r].navigation => MayNavigate(r)

Decide(r) ==
  /\ stage \in Running /\ requests[r].pc = "deciding"
  /\ \E addresses \in Lookup :
       requests' = [requests EXCEPT ![r] =
         IF Allowed(r, addresses) THEN [requests[r] EXCEPT !.pc = "connecting"] ELSE Over]
  /\ UNCHANGED <<stage, guarded, online, page, download, result, saved>>

(* _proxy_connect: one address that is not public refuses them all.         *)
FirstPublic(addresses) == addresses # <<>> /\ addresses[1] \in PublicAddress
Dialled(addresses) == Resolved(addresses)
Connect(r) ==
  /\ stage \in Running /\ requests[r].pc = "connecting"
  /\ \E addresses \in Lookup :
       requests' = [requests EXCEPT ![r] =
         IF Dialled(addresses)
         THEN [requests[r] EXCEPT !.pc = "dialling", !.addresses = addresses]
         ELSE Over]
  /\ UNCHANGED <<stage, guarded, online, page, download, result, saved>>

(* The addresses are dialled one after another, each with its time.         *)
Dial(r) ==
  /\ stage \in Running /\ requests[r].pc = "dialling"
  /\ LET first == Head(requests[r].addresses)
         rest == Tail(requests[r].addresses)
     IN
     \/ requests' = [requests EXCEPT ![r] =
          [requests[r] EXCEPT !.pc = "open", !.addresses = <<first>>]]
     \/ requests' = [requests EXCEPT ![r] =
          IF rest = <<>> THEN Over ELSE [requests[r] EXCEPT !.addresses = rest]]
  /\ UNCHANGED <<stage, guarded, online, page, download, result, saved>>

(* An answer: the page changes, a download begins, or something is loaded.  *)
Answered(r) ==
  /\ stage \in Running /\ requests[r].pc = "open"
  /\ IF requests[r].navigation /\ ~requests[r].pdf
     THEN page' = requests[r].host /\ UNCHANGED download
     ELSE /\ requests[r].pdf /\ download' = r /\ UNCHANGED page
  /\ UNCHANGED <<stage, guarded, online, requests, result, saved>>

(* The end of one direction ends the other.                                 *)
TunnelEnds(r) ==
  /\ stage \in Running /\ requests[r].pc = "open"
  /\ requests' = [requests EXCEPT ![r] = Over]
  /\ UNCHANGED <<stage, guarded, online, page, download, result, saved>>

BrowserNext ==
  \/ CheckInitialUrl \/ Launch \/ InstallPolicy \/ ClosePages \/ GoOnline
  \/ Arrived \/ DownloadStarted \/ SaveDownload \/ Teardown
  \/ \E r \in Request : \/ Asks(r) \/ Decide(r) \/ Connect(r) \/ Dial(r)
                        \/ Answered(r) \/ TunnelEnds(r)

BrowserSpec == BrowserInit /\ [][BrowserNext]_dvars

---------------------------------------------------------------------------
(* A tunnel is open only to a public address and only for what the policy   *)
(* lets pass: https, and a navigation only within the site or, one step off *)
(* it, to a download.  Whatever pages the profile restores, however names   *)
(* resolve the second time and however redirects are chained.               *)
ReachedIsAllowed ==
  \A r \in Request : requests[r].pc = "open" =>
    LET q == requests[r] IN
      /\ q.addresses[1] \in PublicAddress
      /\ q.https
      /\ q.navigation /\ q.host \in Outside =>
           /\ q.pdf
           /\ IF q.from = NoHost THEN q.frame \in Family ELSE q.from \in Family
=============================================================================
