---------------------------- MODULE ProviderHttp ----------------------------
(* safe_http.py and provider_http.py: every request to a provider, from a   *)
(* name lookup over a slot of the host's throttle to the answer, and on     *)
(* over redirects.  The throttle is one object of the process; threads meet *)
(* in it.  What a URL leads to is its origin here, a refused URL is a name  *)
(* without an answer, and a body that is too large an answer like another.  *)
EXTENDS Integers, Sequences

CONSTANTS
  Fetcher,        \* threads that make requests
  Site,           \* hosts, each with its port
  ArxivSite,      \* those under arxiv.org
  Gap,            \* seconds between two slots of a host
  OpenAddress,    \* global addresses
  LocalAddress,   \* private and loopback ones
  MaxRedirects,   \* 5 in the code
  MaxRetryAfter,  \* bound on what a server may ask for
  MaxSeconds      \* bound on the clock

ASSUME HttpAssumption ==
  /\ ArxivSite \subseteq Site
  /\ Gap \in [Site -> Nat]
  /\ OpenAddress \cap LocalAddress = {}
  /\ MaxRedirects \in Nat /\ MaxRetryAfter \in Nat /\ MaxSeconds \in Nat

Url == [scheme : {"http", "https"}, site : Site]
Peer == OpenAddress \cup LocalAddress

(* Who asks: a metadata lookup with its key, the download of an article, an *)
(* arXiv page, the translation server, a Sci-Hub mirror.                    *)
Asker == {"lookup", "article", "arxiv", "server", "mirror"}

VARIABLES
  call,       \* what each thread is doing
  lastSlot,   \* of _last_started_at
  cooldown,   \* of _cooldown_until
  second,     \* the clock
  hushed      \* history: the latest time up to which a host asked for silence
tvars == <<call, lastSlot, cooldown, second, hushed>>

NoCall == [pc |-> "idle"]
(* A request on its way: the URL it is at, those it was sent to before with *)
(* this one, the addresses the name gave, those it was connected to, until  *)
(* when it sleeps and how long the server asked it to wait.                 *)
UnderWay ==
  [pc : {"resolving", "waiting", "asleep", "dialling", "answered", "reporting"},
   asker : Asker, url : Url, secret : BOOLEAN, trail : Seq(Url),
   pinned : SUBSET Peer, reached : SUBSET Peer, wake : Nat, owed : Nat]
HttpTypeOK ==
  /\ call \in [Fetcher -> UnderWay \cup {NoCall}]
  /\ lastSlot \in [Site -> Int]
  /\ cooldown \in [Site -> Nat] /\ hushed \in [Site -> Nat]
  /\ second \in Nat

HttpInit ==
  /\ call = [f \in Fetcher |-> NoCall]
  /\ lastSlot = [h \in Site |-> -Gap[h]]
  /\ cooldown = [h \in Site |-> 0]
  /\ second = 0
  /\ hushed = [h \in Site |-> 0]

Later(s, t) == IF s > t THEN s ELSE t
Moves(f, pc) == call' = [call EXCEPT ![f].pc = pc]
Ends(f) == call' = [call EXCEPT ![f] = NoCall]

---------------------------------------------------------------------------
(* throttled_urlopen, or safe_urlopen alone, which asks no throttle.        *)
Throttled(asker) == asker # "mirror"
RedirectLimit(asker) == IF asker = "server" THEN 0 ELSE MaxRedirects
MayReach(asker, peer) == peer \in OpenAddress \/ asker = "server"
(* Those who hand an HTTPError to provider_http_event.                      *)
Reporting(asker) == asker \in {"lookup", "server"}

(* The URLs of providers are fixed, those of articles and mirrors are not.  *)
AsksFor(f) ==
  /\ call[f] = NoCall
  /\ \E asker \in Asker, url \in Url :
       /\ asker \in {"lookup", "arxiv"} => url.scheme = "https"
       /\ asker = "arxiv" => url.site \in ArxivSite
       /\ call' = [call EXCEPT ![f] =
            [pc |-> "resolving", asker |-> asker, url |-> url,
             secret |-> asker = "lookup", trail |-> <<>>, pinned |-> {},
             reached |-> {}, wake |-> 0, owed |-> 0]]
  /\ UNCHANGED <<lastSlot, cooldown, second, hushed>>

(* One address that is not allowed refuses the name with all its others.    *)
Resolve(f) ==
  /\ call[f].pc = "resolving"
  /\ \E answer \in SUBSET Peer :
       IF answer # {} /\ \A peer \in answer : MayReach(call[f].asker, peer)
       THEN call' = [call EXCEPT
              ![f].pc = IF Throttled(call[f].asker) THEN "waiting" ELSE "dialling",
              ![f].pinned = answer, ![f].trail = Append(@, call[f].url)]
       ELSE Ends(f)
  /\ UNCHANGED <<lastSlot, cooldown, second, hushed>>

(* HostThrottle.wait: a turn of its loop, under the lock; the sleep is      *)
(* outside.                                                                 *)
FreeFrom(site) == Later(cooldown[site], lastSlot[site] + Gap[site])
TakeSlot(f) ==
  LET site == call[f].url.site IN
  /\ call[f].pc = "waiting"
  /\ IF second >= FreeFrom(site)
     THEN Moves(f, "dialling") /\ lastSlot' = [lastSlot EXCEPT ![site] = second]
     ELSE /\ call' = [call EXCEPT ![f].pc = "asleep", ![f].wake = FreeFrom(site)]
          /\ UNCHANGED lastSlot
  /\ UNCHANGED <<cooldown, second, hushed>>

Wake(f) ==
  /\ call[f].pc = "asleep" /\ second >= call[f].wake
  /\ call' = [call EXCEPT ![f].pc = "waiting", ![f].wake = 0]
  /\ UNCHANGED <<lastSlot, cooldown, second, hushed>>

(* The pinned addresses are dialled in turn until one accepts.              *)
DialPinned(f) ==
  /\ call[f].pc = "dialling"
  /\ \/ \E peer \in call[f].pinned :
          call' = [call EXCEPT ![f].pc = "answered", ![f].pinned = {},
                               ![f].reached = @ \cup {peer}]
     \/ Ends(f)
  /\ UNCHANGED <<lastSlot, cooldown, second, hushed>>

(* A body, an error, or a redirect that is refused.                         *)
Finish(f) ==
  /\ call[f].pc = "answered"
  /\ Ends(f)
  /\ UNCHANGED <<lastSlot, cooldown, second, hushed>>

(* HostThrottle.set_cooldown: the later of two announcements stands.        *)
LatestStands(site, seconds) == second + seconds
SilentUntil(site, seconds) == Later(cooldown[site], second + seconds)
SetCooldown(site, seconds) ==
  /\ cooldown' = [cooldown EXCEPT ![site] = SilentUntil(site, seconds)]
  /\ hushed' = [hushed EXCEPT ![site] = Later(@, second + seconds)]

(* A 429 or a 503.                                                          *)
Refuse(f) ==
  /\ call[f].pc = "answered" /\ Throttled(call[f].asker)
  /\ \E seconds \in 0..MaxRetryAfter :
       /\ SetCooldown(call[f].url.site, seconds)
       /\ IF Reporting(call[f].asker)
          THEN call' = [call EXCEPT ![f].pc = "reporting", ![f].owed = seconds]
          ELSE Ends(f)
  /\ UNCHANGED <<lastSlot, second>>

(* provider_http_event registers it again, later: a Retry-After in seconds  *)
(* for as long, one that is a date for what is left.                        *)
Report(f) ==
  /\ call[f].pc = "reporting"
  /\ \E seconds \in 0..call[f].owed : SetCooldown(call[f].url.site, seconds)
  /\ Ends(f)
  /\ UNCHANGED <<lastSlot, second>>

(* _validate_redirect and _redirect_request: only a server is sent a POST,  *)
(* and it may not redirect.                                                 *)
Redirect(f) ==
  LET c == call[f] IN
  /\ c.pc = "answered" /\ Len(c.trail) <= RedirectLimit(c.asker)
  /\ \E target \in Url :
       /\ c.url.scheme = "https" => target.scheme = "https"
       /\ c.asker = "arxiv" => {c.url.site, target.site} \subseteq ArxivSite
       /\ call' = [call EXCEPT ![f].pc = "resolving", ![f].url = target,
                               ![f].secret = @ /\ target = c.url]
  /\ UNCHANGED <<lastSlot, cooldown, second, hushed>>

PassSecond ==
  /\ second < MaxSeconds
  /\ second' = second + 1
  /\ UNCHANGED <<call, lastSlot, cooldown, hushed>>

Fetches(f) ==
  \/ AsksFor(f) \/ Resolve(f) \/ TakeSlot(f) \/ Wake(f) \/ DialPinned(f) \/ Finish(f)
  \/ Refuse(f) \/ Report(f) \/ Redirect(f)
HttpNext == PassSecond \/ \E f \in Fetcher : Fetches(f)
HttpSpec == HttpInit /\ [][HttpNext]_tvars

---------------------------------------------------------------------------
(* What a request met on its way, however often it was sent on: its key     *)
(* went to the origin it was meant for only, what began encrypted stayed    *)
(* so, the way ended, arXiv pages came from arXiv, and only the translation *)
(* server was reached at an address inside, whatever a name resolved to     *)
(* later (safe_urlopen, _redirect_request, _dial_resolved_address).         *)
TrailSound ==
  \A f \in Fetcher : call[f] # NoCall =>
    LET c == call[f] IN
    /\ c.secret => \A i \in DOMAIN c.trail : c.trail[i] = c.url
    /\ \A i, j \in DOMAIN c.trail :
         i < j /\ c.trail[i].scheme = "https" => c.trail[j].scheme = "https"
    /\ Len(c.trail) <= RedirectLimit(c.asker) + 1
    /\ c.asker = "arxiv" =>
         \A i \in DOMAIN c.trail : c.trail[i].site \in ArxivSite
    /\ c.asker # "server" => c.reached \subseteq OpenAddress

(* No slot of a host is given while a server has asked for silence, nor     *)
(* sooner after the last one than its gap, though threads that slept for    *)
(* the same slot wake together and a silence can be announced, twice and in *)
(* any order, while they sleep (HostThrottle.wait, set_cooldown).           *)
SlotsSpaced ==
  [][\A f \in Fetcher :
       (call[f] # NoCall /\ call[f].pc \in {"waiting", "asleep"}
          /\ call'[f] # NoCall /\ call'[f].pc = "dialling") =>
         LET site == call[f].url.site IN
         second >= hushed[site] /\ second >= lastSlot[site] + Gap[site]]_tvars

(* Both: every request is sent when and where it may be.                    *)
RequestsSound == []TrailSound /\ SlotsSpaced
=============================================================================
