----------------------------- MODULE CommandProofs -----------------------------
(***************************************************************************)
(* What the maintenance commands, the browser download, the enrich         *)
(* handlers and the requests to providers keep, for any number of threads, *)
(* attempts and faults: the safety properties of BrowserDownload,          *)
(* StorageQuarantine, Repolish, EnrichItem and ProviderHttp, each from an  *)
(* inductive invariant of its module.                                      *)
(***************************************************************************)
EXTENDS BrowserDownload, StorageQuarantine, Repolish, EnrichItem, ProviderHttp,
        FiniteSetTheorems, TLAPS

-----------------------------------------------------------------------------
(* BrowserDownload.  A request that the proxy hears of has passed the      *)
(* policy, since the browser is offline until the policy is installed; the *)
(* addresses it is dialled at are public, whatever the policy's lookup     *)
(* said.                                                                   *)

Passed(q) ==
  /\ q.https
  /\ q.navigation /\ q.host \notin Family =>
       q.pdf /\ IF q.from = NoHost THEN q.frame \in Family ELSE q.from \in Family

RequestInv(r) ==
  LET q == requests[r] IN
  /\ q.pc \in {"connecting", "dialling", "open"} => Passed(q)
  /\ q.pc = "dialling" => q.addresses # <<>> /\ AllPublic(q.addresses)
  /\ q.pc = "open" => q.addresses \in {<<a>> : a \in PublicAddress}

GuardedFirst ==
  /\ stage \in {"clearing", "connecting", "going", "clicking", "saving"} => guarded
  /\ online => guarded

BrowserInv ==
  /\ BrowserTypeOK /\ GuardedFirst
  /\ \A r \in Request : RequestInv(r)

LEMMA AskedRecords ==
  /\ Unasked \notin Asked /\ Over \notin Asked
  /\ \A q \in Asked : q.pc \in {"deciding", "connecting", "dialling", "open"}
  /\ Unasked.pc = "unasked" /\ Over.pc = "over"
  /\ \A q \in Asked, pc \in {"deciding", "connecting", "dialling", "open"} :
       [q EXCEPT !.pc = pc] \in Asked
  /\ \A q \in Asked, pc \in {"deciding", "connecting", "dialling", "open"},
        addresses \in Lookup :
       [q EXCEPT !.pc = pc, !.addresses = addresses] \in Asked
BY DEF Asked, Unasked, Over

(* The lookups: what is left of one after an address has been tried.       *)
LEMMA LookupShape ==
  ASSUME NEW addresses \in Lookup, addresses # <<>>
  PROVE  /\ Tail(addresses) \in Lookup /\ <<Head(addresses)>> \in Lookup
         /\ AllPublic(addresses) => AllPublic(Tail(addresses))
         /\ AllPublic(addresses) => Head(addresses) \in PublicAddress
<1>1. CASE \E a \in Address : addresses = <<a>>
  BY <1>1 DEF Lookup, AllPublic
<1>2. CASE \E a, b \in Address : addresses = <<a, b>>
  <2>1. PICK a \in Address, b \in Address : addresses = <<a, b>>
    BY <1>2
  <2>2. Tail(addresses) = <<b>> /\ Head(addresses) = a
    BY <2>1
  <2>3. AllPublic(addresses) => a \in PublicAddress /\ b \in PublicAddress
    BY <2>1 DEF AllPublic
  <2>4. AllPublic(<<b>>) <=> b \in PublicAddress
    BY DEF AllPublic
  <2> QED BY <2>1, <2>2, <2>3, <2>4 DEF Lookup
<1> QED BY <1>1, <1>2 DEF Lookup

(* What one request may become.                                            *)
GoodRequest(q) ==
  /\ q \in Asked \cup {Unasked, Over}
  /\ q.pc \in {"connecting", "dialling", "open"} => Passed(q)
  /\ q.pc = "dialling" => q.addresses # <<>> /\ AllPublic(q.addresses)
  /\ q.pc = "open" => q.addresses \in {<<a>> : a \in PublicAddress}

LEMMA OverIsGood == GoodRequest(Over)
BY DEF GoodRequest, Over

LEMMA OneRequest ==
  ASSUME BrowserInv, NEW r \in Request, NEW q, GoodRequest(q),
         requests' = [requests EXCEPT ![r] = q]
  PROVE  /\ requests' \in [Request -> Asked \cup {Unasked, Over}]
         /\ \A s \in Request : RequestInv(s)'
<1>1. requests \in [Request -> Asked \cup {Unasked, Over}]
  BY DEF BrowserInv, BrowserTypeOK
<1>2. \A s \in Request : requests'[s] = IF s = r THEN q ELSE requests[s]
  BY <1>1
<1>3. requests' \in [Request -> Asked \cup {Unasked, Over}]
  BY <1>1 DEF GoodRequest
<1>4. ASSUME NEW s \in Request
      PROVE  RequestInv(s)'
  <2>1. CASE s = r
    BY <1>2, <2>1 DEF GoodRequest, RequestInv
  <2>2. CASE s # r
    <3>1. requests'[s] = requests[s] /\ RequestInv(s)
      BY <1>2, <2>2 DEF BrowserInv
    <3> QED BY <3>1 DEF RequestInv
  <2> QED BY <2>1, <2>2
<1> QED BY <1>3, <1>4

(* A request as the policy, the proxy and the network answer it.           *)
LEMMA AskedIsGood ==
  ASSUME BrowserInv, NEW r \in Request, Asks(r)
  PROVE  \E q : GoodRequest(q) /\ requests' = [requests EXCEPT ![r] = q]
<1>1. PICK host \in Host, https \in BOOLEAN, navigation \in BOOLEAN, pdf \in BOOLEAN,
           from \in Redirecting \cup {NoHost} :
        requests' = [requests EXCEPT ![r] =
          Enters(AskedFor(host, https, navigation, pdf, from))]
  BY DEF Asks
<1> DEFINE q == AskedFor(host, https, navigation, pdf, from)
<1>2. Redirecting \subseteq Host
  <2>1. ASSUME NEW s \in Request, requests[s].pc = "open"
        PROVE  requests[s].host \in Host
    <3>1. requests[s] \in Asked
      BY <2>1, AskedRecords DEF BrowserInv, BrowserTypeOK
    <3> QED BY <3>1 DEF Asked
  <2> QED BY <2>1 DEF Redirecting
<1>3. /\ <<>> \in Lookup /\ from \in Host \cup {NoHost}
      /\ (IF navigation THEN page ELSE NoHost) \in Host \cup {NoHost}
  BY <1>2 DEF Lookup, BrowserInv, BrowserTypeOK
<1>4. q \in Asked /\ q.pc = "deciding"
  BY <1>3 DEF AskedFor, Asked
<1>5. requests' = [requests EXCEPT ![r] = Enters(q)]
  BY <1>1
<1> HIDE DEF q
<1>6. Enters(q) \in {q, Over}
  BY DEF Enters, BrowserInv, GuardedFirst
<1>7. GoodRequest(q)
  BY <1>4 DEF GoodRequest
<1> QED BY <1>5, <1>6, <1>7, OverIsGood

LEMMA DecidedIsGood ==
  ASSUME BrowserInv, NEW r \in Request, Decide(r)
  PROVE  \E q : GoodRequest(q) /\ requests' = [requests EXCEPT ![r] = q]
<1>1. requests[r] \in Asked
  BY AskedRecords DEF Decide, BrowserInv, BrowserTypeOK
<1>2. PICK addresses \in Lookup :
        requests' = [requests EXCEPT ![r] =
          IF Allowed(r, addresses) THEN [requests[r] EXCEPT !.pc = "connecting"]
          ELSE Over]
  BY DEF Decide
<1>3. CASE Allowed(r, addresses)
  <2> DEFINE q == [requests[r] EXCEPT !.pc = "connecting"]
  <2>1. Passed(requests[r])
    BY <1>1, <1>3 DEF Allowed, MayNavigate, Source, Passed, Asked
  <2>2. /\ q \in Asked /\ q.pc = "connecting" /\ q.https = requests[r].https
        /\ q.navigation = requests[r].navigation /\ q.host = requests[r].host
        /\ q.pdf = requests[r].pdf /\ q.from = requests[r].from
        /\ q.frame = requests[r].frame
    BY <1>1 DEF Asked
  <2>3. GoodRequest(q)
    BY <2>1, <2>2 DEF GoodRequest, Passed
  <2> QED BY <1>2, <1>3, <2>3
<1>4. CASE ~Allowed(r, addresses)
  BY <1>2, <1>4, OverIsGood
<1> QED BY <1>3, <1>4

(* A request that has passed, with other addresses or further on its way.  *)
LEMMA PassedOn ==
  ASSUME NEW s \in Asked, Passed(s), NEW addresses \in Lookup,
         NEW pc \in {"dialling", "open"}
  PROVE  LET q == [s EXCEPT !.pc = pc, !.addresses = addresses] IN
           /\ q \in Asked /\ q.pc = pc /\ q.addresses = addresses
           /\ Passed(q)
BY DEF Asked, Passed

LEMMA ConnectedIsGood ==
  ASSUME BrowserInv, NEW r \in Request, Connect(r)
  PROVE  \E q : GoodRequest(q) /\ requests' = [requests EXCEPT ![r] = q]
<1>1. requests[r] \in Asked /\ Passed(requests[r])
  BY AskedRecords DEF Connect, BrowserInv, BrowserTypeOK, RequestInv
<1>2. PICK addresses \in Lookup :
        requests' = [requests EXCEPT ![r] =
          IF Dialled(addresses)
          THEN [requests[r] EXCEPT !.pc = "dialling", !.addresses = addresses]
          ELSE Over]
  BY DEF Connect
<1>3. CASE Dialled(addresses)
  <2> DEFINE q == [requests[r] EXCEPT !.pc = "dialling", !.addresses = addresses]
  <2>1. /\ q \in Asked /\ q.pc = "dialling" /\ q.addresses = addresses
        /\ Passed(q)
    BY <1>1, PassedOn
  <2>2. GoodRequest(q)
    BY <1>3, <2>1 DEF GoodRequest, Dialled, Resolved
  <2> QED BY <1>2, <1>3, <2>2
<1>4. CASE ~Dialled(addresses)
  BY <1>2, <1>4, OverIsGood
<1> QED BY <1>3, <1>4

LEMMA DialledIsGood ==
  ASSUME BrowserInv, NEW r \in Request, Dial(r)
  PROVE  \E q : GoodRequest(q) /\ requests' = [requests EXCEPT ![r] = q]
<1> DEFINE s     == requests[r]
           first == Head(s.addresses)
           rest  == Tail(s.addresses)
<1>1. /\ s \in Asked /\ Passed(s) /\ s.pc = "dialling"
      /\ s.addresses # <<>> /\ AllPublic(s.addresses) /\ s.addresses \in Lookup
  <2>1. s \in Asked /\ s.pc = "dialling"
    BY AskedRecords DEF Dial, BrowserInv, BrowserTypeOK
  <2>2. s.addresses \in Lookup
    BY <2>1 DEF Asked
  <2>3. RequestInv(r)
    BY DEF BrowserInv
  <2> QED BY <2>1, <2>2, <2>3 DEF RequestInv
<1>2. /\ rest \in Lookup /\ <<first>> \in Lookup /\ AllPublic(rest)
      /\ first \in PublicAddress
  BY <1>1, LookupShape
<1>3. CASE requests' = [requests EXCEPT ![r] =
             [s EXCEPT !.pc = "open", !.addresses = <<first>>]]
  <2> DEFINE q == [s EXCEPT !.pc = "open", !.addresses = <<first>>]
  <2>1. q \in Asked /\ q.pc = "open" /\ q.addresses = <<first>> /\ Passed(q)
    BY <1>1, <1>2, PassedOn
  <2>2. GoodRequest(q)
    BY <1>2, <2>1 DEF GoodRequest
  <2> QED BY <1>3, <2>2
<1>4. CASE requests' = [requests EXCEPT ![r] =
             IF rest = <<>> THEN Over ELSE [s EXCEPT !.addresses = rest]]
  <2> DEFINE q == [s EXCEPT !.addresses = rest]
  <2>1. q \in Asked /\ q.pc = "dialling" /\ q.addresses = rest /\ Passed(q)
    BY <1>1, <1>2 DEF Asked, Passed
  <2>2. rest # <<>> => GoodRequest(q)
    BY <1>2, <2>1 DEF GoodRequest
  <2> QED BY <1>4, <2>2, OverIsGood
<1> QED BY <1>3, <1>4 DEF Dial

LEMMA BrowserInvInit == BrowserInit => BrowserInv
<1> SUFFICES ASSUME BrowserInit PROVE BrowserInv
  OBVIOUS
<1>1. BrowserTypeOK
  BY DEF BrowserInit, BrowserTypeOK
<1>2. \A r \in Request : requests[r].pc = "unasked"
  BY DEF BrowserInit, Unasked
<1> QED BY <1>1, <1>2 DEF BrowserInv, GuardedFirst, RequestInv, BrowserInit

LEMMA BrowserInvStep == BrowserInv /\ [BrowserNext]_dvars => BrowserInv'
<1> SUFFICES ASSUME BrowserInv, [BrowserNext]_dvars PROVE BrowserInv'
  OBVIOUS
<1>1. ASSUME requests' = requests, BrowserTypeOK', GuardedFirst'
      PROVE  BrowserInv'
  BY <1>1 DEF BrowserInv, RequestInv, Passed
<1>2. CASE CheckInitialUrl \/ Launch
  <2>1. requests' = requests /\ UNCHANGED <<guarded, page, download, saved>>
    BY <1>2 DEF CheckInitialUrl, Launch
  <2>2. /\ stage' \in {"launching", "guarding", "closed"}
        /\ online' \in {online, FALSE} /\ result' \in {result, "failed"}
    BY <1>2 DEF CheckInitialUrl, Launch, To, StartOffline
  <2>3. BrowserTypeOK'
    BY <2>1, <2>2 DEF BrowserInv, BrowserTypeOK, Running
  <2>4. GuardedFirst'
    <3>1. stage' \notin {"clearing", "connecting", "going", "clicking", "saving"}
      BY <2>2
    <3>2. online' => online
      BY <1>2 DEF CheckInitialUrl, Launch, StartOffline
    <3>3. online => guarded
      BY DEF BrowserInv, GuardedFirst
    <3> QED BY <2>1, <3>1, <3>2, <3>3 DEF GuardedFirst
  <2> QED BY <1>1, <2>1, <2>3, <2>4
<1>3. CASE \/ InstallPolicy \/ ClosePages \/ GoOnline \/ Arrived
           \/ DownloadStarted \/ SaveDownload \/ UNCHANGED dvars
  <2>1. requests' = requests /\ download' = download
    BY <1>3 DEF InstallPolicy, ClosePages, GoOnline, Arrived, DownloadStarted,
       SaveDownload, dvars
  <2>2. /\ page' \in {page, NoHost} /\ guarded' \in {guarded, TRUE}
        /\ result' \in {result, "downloaded", "failed"}
        /\ saved' \in {saved, "nothing", "pdf", "leftover"}
    BY <1>3 DEF InstallPolicy, ClosePages, GoOnline, Arrived, DownloadStarted,
       SaveDownload, dvars, Fails
  <2>3. /\ stage' \in {stage, "clearing", "connecting", "going", "clicking",
                       "saving", "closing"}
        /\ online' \in {online, TRUE}
    BY <1>3 DEF InstallPolicy, ClosePages, GoOnline, Arrived, DownloadStarted,
       SaveDownload, dvars, To, Fails
  <2>4. BrowserTypeOK'
    <3>1. guarded' \in BOOLEAN /\ online' \in BOOLEAN
      BY <2>2, <2>3 DEF BrowserInv, BrowserTypeOK
    <3>2. stage' \in Running \cup {"checking", "launching", "closed"}
      BY <2>3 DEF BrowserInv, BrowserTypeOK, Running
    <3> QED BY <2>1, <2>2, <3>1, <3>2 DEF BrowserInv, BrowserTypeOK
  <2>5. GuardedFirst'
    <3>1. GuardedFirst
      BY DEF BrowserInv
    <3>2. CASE InstallPolicy \/ GoOnline \/ ClosePages
      BY <3>1, <3>2 DEF GuardedFirst, InstallPolicy, GoOnline, ClosePages, To, Fails
    <3>3. CASE Arrived \/ DownloadStarted \/ SaveDownload \/ UNCHANGED dvars
      BY <3>1, <3>3 DEF GuardedFirst, Arrived, DownloadStarted, SaveDownload, dvars,
         To, Fails
    <3> QED BY <1>3, <3>2, <3>3
  <2> QED BY <1>1, <2>1, <2>4, <2>5
<1>4. CASE Teardown
  <2>1. \A r \in Request : requests'[r] = Over
    BY <1>4 DEF Teardown
  <2>2. BrowserTypeOK' /\ GuardedFirst'
    BY <1>4 DEF BrowserInv, BrowserTypeOK, GuardedFirst, Teardown, To
  <2>3. \A r \in Request : RequestInv(r)'
    BY <2>1, OverIsGood DEF GoodRequest, RequestInv
  <2> QED BY <2>2, <2>3 DEF BrowserInv
<1>5. ASSUME NEW r \in Request,
             Asks(r) \/ Decide(r) \/ Connect(r) \/ Dial(r) \/ TunnelEnds(r)
      PROVE  BrowserInv'
  <2>1. PICK q : GoodRequest(q) /\ requests' = [requests EXCEPT ![r] = q]
    BY <1>5, AskedIsGood, DecidedIsGood, ConnectedIsGood, DialledIsGood, OverIsGood
       DEF TunnelEnds
  <2>2. UNCHANGED <<stage, guarded, online, page, download, result, saved>>
    BY <1>5 DEF Asks, Decide, Connect, Dial, TunnelEnds
  <2>3. /\ requests' \in [Request -> Asked \cup {Unasked, Over}]
        /\ \A s \in Request : RequestInv(s)'
    BY <2>1, OneRequest
  <2> QED BY <2>2, <2>3 DEF BrowserInv, BrowserTypeOK, GuardedFirst
<1>6. ASSUME NEW r \in Request, Answered(r)
      PROVE  BrowserInv'
  <2>1. requests[r].host \in Host
    <3>1. requests[r] \in Asked
      BY <1>6, AskedRecords DEF Answered, BrowserInv, BrowserTypeOK
    <3> QED BY <3>1 DEF Asked
  <2>2. BrowserTypeOK' /\ GuardedFirst' /\ requests' = requests
    BY <1>6, <2>1 DEF Answered, BrowserInv, BrowserTypeOK, GuardedFirst
  <2> QED BY <1>1, <2>2
<1> QED BY <1>2, <1>3, <1>4, <1>5, <1>6 DEF BrowserNext

(* ReachedIsAllowed: the browser reaches public addresses only, over https, *)
(* and navigates off the site only to a download, whatever it restores,    *)
(* however names resolve the second time and redirects are chained.        *)
THEOREM ReachedIsAllowedAlways == BrowserSpec => []ReachedIsAllowed
<1>1. ASSUME BrowserInv, NEW r \in Request, requests[r].pc = "open"
      PROVE  LET q == requests[r] IN
               /\ q.addresses[1] \in PublicAddress /\ q.https
               /\ q.navigation /\ q.host \in Outside =>
                    /\ q.pdf
                    /\ IF q.from = NoHost THEN q.frame \in Family
                       ELSE q.from \in Family
  BY <1>1, BrowserAssumption DEF BrowserInv, RequestInv, Passed, BrowserAssumption
<1>2. BrowserInv => ReachedIsAllowed
  BY <1>1 DEF ReachedIsAllowed
<1> QED BY <1>2, BrowserInvInit, BrowserInvStep, PTL DEF BrowserSpec

-----------------------------------------------------------------------------
(* StorageQuarantine.  A folder is safe if it stands whole somewhere or has *)
(* a whole copy that no rollback is about to take away.  A rollback takes  *)
(* away only what its own command has published, and a command removes its *)
(* claim only when such a copy of it is there.                             *)

Stands(t) ==
  t # NoFolder /\ (t = place \/ t \in elsewhere \/ \E c \in Command : held[c] = t)
Undoes(c) == commands[c].pc = "undoing" /\ commands[c].published
Owns(c) == commands[c].pc = "removing" \/ Undoes(c)
KeptCopy(t, n) ==
  /\ copies[n] = [of |-> t, whole |-> TRUE]
  /\ \A c \in Command : Undoes(c) => commands[c].slot # n
Safe(t) == (t \notin broken /\ Stands(t)) \/ \E n \in Slot : KeptCopy(t, n)

CommandInv(c) ==
  LET k == commands[c] IN
  /\ k.pc \in {"trashing", "marking", "looking", "claiming"} => held[c] = NoFolder
  /\ k.pc \in {"checking", "copying", "publishing", "removing", "undoing"} =>
       held[c] # NoFolder
  /\ k.published => k.pc = "undoing"
  /\ Owns(c) => copies[k.slot] # NoFolder
  /\ k.pc = "removing" =>
       held[c] \in broken \/ copies[k.slot] = [of |-> held[c], whole |-> TRUE]

OwnersApart ==
  \A c, d \in Command :
    c # d /\ Owns(c) /\ Owns(d) => commands[c].slot # commands[d].slot

QuarantineInv ==
  /\ QuarantineTypeOK
  /\ \A t : Stands(t) => t \in born
  /\ broken \subseteq born
  /\ \A c \in Command : CommandInv(c)
  /\ OwnersApart
  /\ \A t \in born : Safe(t)

(* A step that changes the record of one command.                          *)
LEMMA OneCommand ==
  ASSUME QuarantineInv, NEW c \in Command, NEW k \in Cleaning,
         commands' = [commands EXCEPT ![c] = k],
         \A d \in Command \ {c} : held'[d] = held[d],
         broken \subseteq broken',
         \A d \in Command \ {c} :
           Owns(d) => copies'[commands[d].slot] = copies[commands[d].slot],
         commands'[c] = k => CommandInv(c)',
         k.pc = "removing" \/ (k.pc = "undoing" /\ k.published) =>
           \A d \in Command \ {c} : Owns(d) => commands[d].slot # k.slot
  PROVE  /\ commands' \in [Command -> Cleaning]
         /\ \A d \in Command : CommandInv(d)'
         /\ OwnersApart'
<1>1. commands \in [Command -> Cleaning]
  BY DEF QuarantineInv, QuarantineTypeOK
<1>2. commands' \in [Command -> Cleaning] /\ commands'[c] = k
      /\ \A d \in Command \ {c} : commands'[d] = commands[d]
  BY <1>1
<1>3. ASSUME NEW d \in Command, d # c
      PROVE  CommandInv(d)'
  BY <1>2, <1>3 DEF QuarantineInv, CommandInv, Owns, Undoes
<1>4. OwnersApart'
  BY <1>2 DEF QuarantineInv, OwnersApart, Owns, Undoes
<1> QED BY <1>2, <1>3, <1>4

LEMMA SafeStep ==
  ASSUME NEW t, Safe(t), t \notin broken /\ Stands(t) => t \notin broken' /\ Stands(t)',
         \A n \in Slot : KeptCopy(t, n) => KeptCopy(t, n)'
  PROVE  Safe(t)'
BY DEF Safe

(* A claim put back, or left aside, stands as it did.                      *)
LEMMA PutBack ==
  ASSUME QuarantineInv, NEW c \in Command, PutFolderBack(c), elsewhere' = elsewhere
  PROVE  /\ place' \in MaybeFolder /\ held' \in [Command -> MaybeFolder]
         /\ \A d \in Command \ {c} : held'[d] = held[d]
         /\ \A t : Stands(t)' <=> Stands(t)
<1>1. place \in MaybeFolder /\ held \in [Command -> MaybeFolder]
  BY DEF QuarantineInv, QuarantineTypeOK
<1>2. CASE held[c] # NoFolder /\ place = NoFolder
  <2>1. /\ place' = held[c] /\ held'[c] = NoFolder /\ held' \in [Command -> MaybeFolder]
        /\ \A d \in Command \ {c} : held'[d] = held[d]
    BY <1>1, <1>2 DEF PutFolderBack, MaybeFolder
  <2> QED BY <1>1, <1>2, <2>1 DEF Stands
<1>3. CASE ~(held[c] # NoFolder /\ place = NoFolder)
  BY <1>1, <1>3 DEF PutFolderBack, Stands
<1> QED BY <1>2, <1>3

(* The records a command goes through.                                     *)
LEMMA CleaningRecords ==
  /\ NotCleaning \in Cleaning /\ NotCleaning.pc = "idle"
  /\ NotCleaning.published = FALSE
  /\ \A k \in Cleaning, pc \in {"trashing", "marking", "looking", "claiming",
                                "checking", "copying", "publishing", "removing",
                                "undoing"} :
       LET q == [k EXCEPT !.pc = pc] IN
         /\ q \in Cleaning /\ q.pc = pc /\ q.slot = k.slot
         /\ q.published = k.published
  /\ \A k \in Cleaning :
       LET q == [k EXCEPT !.pc = "undoing", !.published = TRUE] IN
         /\ q \in Cleaning /\ q.pc = "undoing" /\ q.slot = k.slot
         /\ q.published = TRUE
<1>1. 1 \in Slot
  <2>1. Cardinality(Folder) \in Nat
    BY FS_CardinalityType, QuarantineAssumption DEF QuarantineAssumption
  <2> QED BY <2>1, QuarantineAssumption DEF QuarantineAssumption, Slot
<1> QED BY <1>1 DEF NotCleaning, Cleaning, MaybeFolder

LEMMA IdleRecord ==
  /\ NotCleaning \in Cleaning /\ NotCleaning.pc = "idle"
  /\ NotCleaning.published = FALSE
BY CleaningRecords

LEMMA QuarantineInvInit == QuarantineInit => QuarantineInv
<1> SUFFICES ASSUME QuarantineInit PROVE QuarantineInv
  OBVIOUS
<1>1. QuarantineTypeOK
  BY IdleRecord DEF QuarantineInit, QuarantineTypeOK, MaybeFolder
<1>2. \A t : Stands(t) <=> t = place
  BY QuarantineAssumption DEF QuarantineAssumption, QuarantineInit, Stands
<1>3. \A c \in Command : CommandInv(c) /\ ~Owns(c)
  BY IdleRecord DEF QuarantineInit, CommandInv, Owns, Undoes
<1>4. \A t \in born : Safe(t)
  BY <1>2 DEF QuarantineInit, Safe
<1> QED BY <1>1, <1>2, <1>3, <1>4 DEF QuarantineInit, QuarantineInv, OwnersApart

(* Steps that leave the folders and the copies alone, and the record of the *)
(* command without a claim on either.                                      *)
LEMMA AsideStep ==
  ASSUME QuarantineInv, NEW c \in Command, NEW k \in Cleaning,
         commands' = [commands EXCEPT ![c] = k], UNCHANGED folders,
         ~k.published, k.pc # "removing",
         k.pc \in {"trashing", "marking", "looking", "claiming"} =>
           held[c] = NoFolder,
         k.pc \in {"checking", "copying", "publishing", "undoing"} =>
           held[c] # NoFolder,
         finding' \in {"stale", "orphan"}, trashed' \in BOOLEAN,
         entry' \in {"live", "deleted", "missing"}, troubles' \in Nat
  PROVE  QuarantineInv'
<1>1. UNCHANGED <<place, elsewhere, broken, held, copies, born>>
  BY DEF folders
<1>2. commands'[c] = k => CommandInv(c)'
  BY <1>1 DEF CommandInv, Owns, Undoes
<1>3. /\ commands' \in [Command -> Cleaning] /\ \A d \in Command : CommandInv(d)'
      /\ OwnersApart'
  BY <1>1, <1>2, OneCommand
<1>4. QuarantineTypeOK' /\ \A t : Stands(t)' <=> Stands(t)
  BY <1>1, <1>3 DEF QuarantineInv, QuarantineTypeOK, Stands
<1>5. \A d \in Command : Undoes(d)' => Undoes(d) /\ commands'[d] = commands[d]
  BY DEF QuarantineInv, QuarantineTypeOK, Undoes
<1>6. \A t, n : KeptCopy(t, n) => KeptCopy(t, n)'
  BY <1>1, <1>5 DEF KeptCopy
<1>7. ASSUME NEW t \in born' PROVE Safe(t)'
  BY <1>1, <1>4, <1>6, SafeStep DEF QuarantineInv
<1> QED BY <1>1, <1>3, <1>4, <1>7 DEF QuarantineInv

LEMMA Turned ==
  ASSUME NEW k \in Cleaning,
         NEW pc, pc \in {"trashing", "marking", "looking", "claiming", "checking",
                        "copying", "publishing", "removing", "undoing"}
  PROVE  \E q \in Cleaning : /\ q = [k EXCEPT !.pc = pc] /\ q.pc = pc
           /\ q.slot = k.slot /\ q.published = k.published
<1> DEFINE q == [k EXCEPT !.pc = pc]
<1>1. q \in Cleaning /\ q.pc = pc /\ q.slot = k.slot /\ q.published = k.published
  BY DEF Cleaning
<1> QED BY <1>1

LEMMA LooksMove ==
  ASSUME QuarantineInv, NEW c \in Command,
         TrashInLibrary(c) \/ MarkLocally(c) \/ LookForFolder(c) \/ CopyFolder(c)
  PROVE  QuarantineInv'
<1> DEFINE now == commands[c]
<1>1. /\ now \in Cleaning /\ CommandInv(c) /\ QuarantineTypeOK
      /\ place \in MaybeFolder /\ troubles \in Nat /\ (Trouble => troubles' \in Nat)
  BY DEF QuarantineInv, QuarantineTypeOK, Trouble
<1>2. CommandEnds(c) /\ UNCHANGED folders /\ finding' \in {"stale", "orphan"}
      /\ trashed' \in BOOLEAN /\ entry' \in {"live", "deleted", "missing"}
      /\ troubles' \in Nat => QuarantineInv'
  BY IdleRecord, AsideStep DEF CommandEnds
<1>3. CASE TrashInLibrary(c)
  <2>1. UNCHANGED folders /\ finding' = finding /\ entry' = entry
        /\ now.pc = "trashing"
    BY <1>3 DEF TrashInLibrary, CommandAt
  <2>2. trashed' \in BOOLEAN
    BY <1>1, <1>3 DEF TrashInLibrary, QuarantineTypeOK
  <2>3. CASE CommandTo(c, "marking") /\ UNCHANGED troubles
    <3>1. PICK k \in Cleaning : /\ k = [now EXCEPT !.pc = "marking"] /\ k.pc = "marking"
           /\ k.slot = now.slot /\ k.published = now.published
      BY <1>1, Turned
    <3>2. k.pc = "marking" /\ ~k.published /\ held[c] = NoFolder
      BY <1>1, <2>1, <3>1 DEF CommandInv
    <3>3. commands' = [commands EXCEPT ![c] = k]
      BY <2>3, <3>1 DEF CommandTo
    <3> QED BY <1>1, <2>1, <2>2, <2>3, <3>2, <3>3, AsideStep DEF QuarantineTypeOK
  <2>4. CASE CommandEnds(c) /\ Trouble
    BY <1>1, <1>2, <2>1, <2>2, <2>4 DEF QuarantineTypeOK
  <2> QED BY <1>3, <2>3, <2>4 DEF TrashInLibrary
<1>4. CASE MarkLocally(c)
  <2>1. UNCHANGED folders /\ finding' = finding /\ trashed' = trashed
        /\ now.pc = "marking"
    BY <1>4 DEF MarkLocally, CommandAt
  <2>2. entry' \in {"live", "deleted", "missing"}
    BY <1>1, <1>4 DEF MarkLocally, QuarantineTypeOK
  <2>3. CASE CommandTo(c, "looking") /\ UNCHANGED troubles
    <3>1. PICK k \in Cleaning : /\ k = [now EXCEPT !.pc = "looking"] /\ k.pc = "looking"
           /\ k.slot = now.slot /\ k.published = now.published
      BY <1>1, Turned
    <3>2. k.pc = "looking" /\ ~k.published /\ held[c] = NoFolder
      BY <1>1, <2>1, <3>1 DEF CommandInv
    <3>3. commands' = [commands EXCEPT ![c] = k]
      BY <2>3, <3>1 DEF CommandTo
    <3> QED BY <1>1, <2>1, <2>2, <2>3, <3>2, <3>3, AsideStep DEF QuarantineTypeOK
  <2>4. CASE CommandEnds(c) /\ Trouble
    BY <1>1, <1>2, <2>1, <2>2, <2>4 DEF QuarantineTypeOK
  <2> QED BY <1>4, <2>3, <2>4 DEF MarkLocally
<1>5. CASE LookForFolder(c)
  <2>1. UNCHANGED <<finding, trashed, entry, troubles>> /\ UNCHANGED folders
        /\ now.pc = "looking" /\ held[c] = NoFolder
    BY <1>1, <1>5 DEF LookForFolder, CommandAt, CommandInv
  <2>2. CASE CommandEnds(c)
    BY <1>1, <1>2, <2>1, <2>2 DEF QuarantineTypeOK
  <2>3. CASE ~CommandEnds(c)
    <3>1. PICK n \in Slot : commands' = [commands EXCEPT ![c] =
             [pc |-> "claiming", owner |-> place, slot |-> n, published |-> FALSE]]
      BY <1>5, <2>3 DEF LookForFolder
    <3> DEFINE k == [pc |-> "claiming", owner |-> place, slot |-> n,
                     published |-> FALSE]
    <3>2. k \in Cleaning
      BY <1>1 DEF Cleaning
    <3>3. k.pc = "claiming" /\ k.published = FALSE
      OBVIOUS
    <3>4. commands' = [commands EXCEPT ![c] = k]
      BY <3>1
    <3> HIDE DEF k
    <3> QED BY <1>1, <2>1, <3>2, <3>3, <3>4, AsideStep DEF QuarantineTypeOK
  <2> QED BY <2>2, <2>3
<1>6. CASE CopyFolder(c)
  <2>1. UNCHANGED <<finding, trashed, entry>> /\ UNCHANGED folders
        /\ now.pc = "copying" /\ held[c] # NoFolder /\ ~now.published
    BY <1>1, <1>6 DEF CopyFolder, CommandAt, CommandInv
  <2>2. ASSUME NEW k \in Cleaning, k.pc \in {"publishing", "undoing"},
               k.published = now.published, commands' = [commands EXCEPT ![c] = k],
               troubles' \in Nat
        PROVE  QuarantineInv'
    BY <1>1, <2>1, <2>2, AsideStep DEF QuarantineTypeOK
  <2>3. CASE CommandTo(c, "publishing") /\ UNCHANGED troubles
    <3>1. PICK k \in Cleaning : /\ k = [now EXCEPT !.pc = "publishing"]
           /\ k.pc = "publishing" /\ k.slot = now.slot
           /\ k.published = now.published
      BY <1>1, Turned
    <3> QED BY <1>1, <2>2, <2>3, <3>1 DEF CommandTo
  <2>4. CASE CommandTo(c, "undoing") /\ Trouble
    <3>1. PICK k \in Cleaning : /\ k = [now EXCEPT !.pc = "undoing"]
           /\ k.pc = "undoing" /\ k.slot = now.slot
           /\ k.published = now.published
      BY <1>1, Turned
    <3> QED BY <1>1, <2>2, <2>4, <3>1 DEF CommandTo
  <2> QED BY <1>6, <2>3, <2>4 DEF CopyFolder
<1> QED BY <1>3, <1>4, <1>5, <1>6

(* Steps that move folders without a copy being touched: every folder that *)
(* stood somewhere still does.                                             *)
LEMMA MoveStep ==
  ASSUME QuarantineInv, NEW c \in Command, NEW k \in Cleaning,
         commands' = [commands EXCEPT ![c] = k],
         UNCHANGED <<finding, trashed, entry, copies, broken, born, troubles>>,
         place' \in MaybeFolder, elsewhere' \subseteq Folder,
         held' \in [Command -> MaybeFolder],
         \A d \in Command \ {c} : held'[d] = held[d],
         \A t : Stands(t)' <=> Stands(t),
         ~k.published, k.pc # "removing",
         k.pc \in {"trashing", "marking", "looking", "claiming"} =>
           held'[c] = NoFolder,
         k.pc \in {"checking", "copying", "publishing", "undoing"} =>
           held'[c] # NoFolder
  PROVE  QuarantineInv'
<1>1. commands'[c] = k => CommandInv(c)'
  BY DEF CommandInv, Owns, Undoes
<1>2. /\ commands' \in [Command -> Cleaning] /\ \A d \in Command : CommandInv(d)'
      /\ OwnersApart'
  BY <1>1, OneCommand
<1>3. QuarantineTypeOK'
  BY <1>2 DEF QuarantineInv, QuarantineTypeOK
<1>4. \A d \in Command : Undoes(d)' => Undoes(d) /\ commands'[d] = commands[d]
  BY DEF QuarantineInv, QuarantineTypeOK, Undoes
<1>5. \A t, n : KeptCopy(t, n) => KeptCopy(t, n)'
  BY <1>4 DEF KeptCopy
<1>6. ASSUME NEW t \in born' PROVE Safe(t)'
  BY <1>5, SafeStep DEF QuarantineInv
<1> QED BY <1>2, <1>3, <1>6 DEF QuarantineInv

LEMMA ClaimsMove ==
  ASSUME QuarantineInv, NEW c \in Command,
         StartCleaning(c) \/ ClaimFolder(c) \/ CheckInode(c)
  PROVE  QuarantineInv'
<1> DEFINE now == commands[c]
<1>1. /\ now \in Cleaning /\ CommandInv(c) /\ QuarantineTypeOK
      /\ place \in MaybeFolder /\ held \in [Command -> MaybeFolder]
      /\ elsewhere \subseteq Folder
  BY DEF QuarantineInv, QuarantineTypeOK
<1>2. CASE StartCleaning(c)
  <2>1. UNCHANGED <<finding, trashed, entry, place, broken, copies, born, troubles>>
        /\ now.pc = "idle" /\ elsewhere' = (elsewhere \cup {held[c]}) \ {NoFolder}
        /\ held' = [held EXCEPT ![c] = NoFolder]
    BY <1>2 DEF StartCleaning, CommandAt
  <2>2. PICK pc : pc \in {"trashing", "looking"} /\ CommandTo(c, pc)
    BY <1>2 DEF StartCleaning
  <2>3. PICK k \in Cleaning : /\ k = [now EXCEPT !.pc = pc] /\ k.pc = pc
         /\ k.slot = now.slot /\ k.published = now.published
    BY <1>1, <2>2, Turned
  <2>4. k.pc = pc /\ ~k.published /\ commands' = [commands EXCEPT ![c] = k]
    BY <1>1, <2>1, <2>2, <2>3 DEF CommandInv, CommandTo
  <2>5. /\ elsewhere' \subseteq Folder /\ held' \in [Command -> MaybeFolder]
        /\ held'[c] = NoFolder /\ \A d \in Command \ {c} : held'[d] = held[d]
    BY <1>1, <2>1 DEF MaybeFolder
  <2>6. \A t : Stands(t)' <=> Stands(t)
    BY <1>1, <2>1, <2>5 DEF Stands
  <2> QED BY <1>1, <2>1, <2>2, <2>4, <2>5, <2>6, MoveStep
<1>3. CASE ClaimFolder(c)
  <2>1. UNCHANGED <<finding, trashed, entry, elsewhere, broken, copies, born, troubles>>
        /\ now.pc = "claiming" /\ held[c] = NoFolder
    BY <1>1, <1>3 DEF ClaimFolder, CommandAt, CommandInv
  <2>2. CASE place = NoFolder
    <3>1. CommandEnds(c) /\ UNCHANGED <<place, held>>
      BY <1>3, <2>2 DEF ClaimFolder
    <3>2. \A t : Stands(t)' <=> Stands(t)
      BY <2>1, <3>1 DEF Stands
    <3> QED BY <1>1, <2>1, <3>1, <3>2, IdleRecord, MoveStep DEF CommandEnds
  <2>3. CASE place # NoFolder
    <3>1. /\ held' = [held EXCEPT ![c] = place] /\ place' = NoFolder
          /\ CommandTo(c, "checking")
      BY <1>3, <2>3 DEF ClaimFolder
    <3>2. PICK k \in Cleaning : /\ k = [now EXCEPT !.pc = "checking"] /\ k.pc = "checking"
           /\ k.slot = now.slot /\ k.published = now.published
      BY <1>1, Turned
    <3>3. k.pc = "checking" /\ ~k.published /\ commands' = [commands EXCEPT ![c] = k]
      BY <1>1, <2>1, <3>1, <3>2 DEF CommandInv, CommandTo
    <3>4. /\ held' \in [Command -> MaybeFolder] /\ place' \in MaybeFolder
          /\ held'[c] = place /\ \A d \in Command \ {c} : held'[d] = held[d]
      BY <1>1, <3>1 DEF MaybeFolder
    <3>5. \A t : Stands(t)' <=> Stands(t)
      BY <1>1, <2>1, <3>1, <3>4 DEF Stands
    <3> QED BY <1>1, <2>1, <2>3, <3>3, <3>4, <3>5, MoveStep
  <2> QED BY <2>2, <2>3
<1>4. CASE CheckInode(c)
  <2>1. UNCHANGED <<finding, trashed, entry, elsewhere, broken, copies, born, troubles>>
        /\ now.pc = "checking" /\ held[c] # NoFolder /\ ~now.published
    BY <1>1, <1>4 DEF CheckInode, CommandAt, CommandInv
  <2>2. CASE held[c] = now.owner
    <3>1. CommandTo(c, "copying") /\ UNCHANGED <<place, held>>
      BY <1>4, <2>2 DEF CheckInode
    <3>2. PICK k \in Cleaning : /\ k = [now EXCEPT !.pc = "copying"] /\ k.pc = "copying"
           /\ k.slot = now.slot /\ k.published = now.published
      BY <1>1, Turned
    <3>3. k.pc = "copying" /\ ~k.published /\ commands' = [commands EXCEPT ![c] = k]
      BY <1>1, <2>1, <3>1, <3>2 DEF CommandTo
    <3>4. \A t : Stands(t)' <=> Stands(t)
      BY <2>1, <3>1 DEF Stands
    <3> QED BY <1>1, <2>1, <3>1, <3>3, <3>4, MoveStep
  <2>3. CASE held[c] # now.owner
    <3>1. PutFolderBack(c) /\ CommandEnds(c)
      BY <1>4, <2>3 DEF CheckInode
    <3>2. /\ place' \in MaybeFolder /\ held' \in [Command -> MaybeFolder]
          /\ \A d \in Command \ {c} : held'[d] = held[d]
          /\ \A t : Stands(t)' <=> Stands(t)
      BY <2>1, <3>1, PutBack
    <3> QED BY <1>1, <2>1, <3>1, <3>2, IdleRecord, MoveStep DEF CommandEnds
  <2> QED BY <2>2, <2>3
<1> QED BY <1>2, <1>3, <1>4

LEMMA NoCopy == NoFolder \notin StoredCopy
BY QuarantineAssumption DEF QuarantineAssumption, StoredCopy

(* A command at the end of its work is no longer anybody's rollback.       *)
LEMMA CommandEnded ==
  ASSUME QuarantineInv, NEW c \in Command, CommandEnds(c)
  PROVE  /\ commands'[c] = NotCleaning
         /\ \A d \in Command : Undoes(d)' =>
              Undoes(d) /\ d # c /\ commands'[d] = commands[d]
<1>1. commands' = [commands EXCEPT ![c] = NotCleaning] /\ c \in DOMAIN commands
  BY DEF QuarantineInv, QuarantineTypeOK, CommandEnds
<1>2. /\ commands'[c] = NotCleaning /\ ~Undoes(c)'
      /\ \A d \in Command \ {c} : commands'[d] = commands[d]
  BY <1>1, IdleRecord DEF QuarantineInv, QuarantineTypeOK, Undoes
<1> QED BY <1>2 DEF Undoes

(* A claim that is about to be removed has its copy, whatever the rollbacks *)
(* of the others do.                                                       *)
LEMMA RemovedHasCopy ==
  ASSUME QuarantineInv, NEW c \in Command, commands[c].pc = "removing",
         held[c] \notin broken
  PROVE  /\ commands[c].slot \in Slot
         /\ KeptCopy(held[c], commands[c].slot)
<1>1. copies[commands[c].slot] = [of |-> held[c], whole |-> TRUE] /\ Owns(c)
  BY DEF QuarantineInv, CommandInv, Owns
<1>2. commands[c] \in Cleaning
  BY DEF QuarantineInv, QuarantineTypeOK
<1>3. ASSUME NEW d \in Command, Undoes(d) PROVE commands[d].slot # commands[c].slot
  BY <1>1, <1>3 DEF QuarantineInv, OwnersApart, Owns, Undoes
<1> QED BY <1>1, <1>2, <1>3 DEF KeptCopy, Cleaning

LEMMA PublishMove ==
  ASSUME QuarantineInv, NEW c \in Command, PublishCopy(c) PROVE QuarantineInv'
<1> DEFINE now == commands[c]
           n == now.slot
<1>1. /\ now \in Cleaning /\ CommandInv(c) /\ QuarantineTypeOK
      /\ now.pc = "publishing" /\ held[c] # NoFolder /\ now.published = FALSE
      /\ UNCHANGED <<finding, trashed, entry, place, elsewhere, broken, held, born>>
  BY DEF QuarantineInv, QuarantineTypeOK, CommandInv, PublishCopy, CommandAt, Cleaning
<1>2. CASE copies[n] # NoFolder
  <2>1. commands' = [commands EXCEPT ![c] = NothingPublished(c)]
        /\ UNCHANGED <<copies, troubles>>
    BY <1>2 DEF PublishCopy
  <2>2. PICK k \in Cleaning : /\ k = [now EXCEPT !.pc = "undoing"] /\ k.pc = "undoing"
         /\ k.slot = now.slot /\ k.published = now.published
    BY <1>1, Turned
  <2>3. commands' = [commands EXCEPT ![c] = k]
    BY <2>1, <2>2 DEF NothingPublished
  <2> QED BY <1>1, <2>1, <2>2, <2>3, AsideStep DEF QuarantineTypeOK, folders
<1>3. CASE copies[n] = NoFolder
  <2> DEFINE new == [of |-> held[c], whole |-> held[c] \notin broken]
  <2>1. n \in Slot /\ held[c] \in Folder /\ copies \in [Slot -> StoredCopy \cup {NoFolder}]
    BY <1>1 DEF QuarantineTypeOK, MaybeFolder, Cleaning
  <2>2. new \in StoredCopy /\ new # NoFolder
    <3>1. \A b \in BOOLEAN : [of |-> held[c], whole |-> b] \in StoredCopy
      BY <2>1 DEF StoredCopy
    <3>2. (held[c] \notin broken) \in BOOLEAN
      OBVIOUS
    <3>3. new \in StoredCopy
      BY <3>1, <3>2, Zenon
    <3> QED BY <3>3, NoCopy
  <2>3. copies' = [copies EXCEPT ![n] = new]
    BY <1>3 DEF PublishCopy
  <2>4. /\ copies' \in [Slot -> StoredCopy \cup {NoFolder}] /\ copies'[n] = new
        /\ \A m \in Slot \ {n} : copies'[m] = copies[m]
    <3> HIDE DEF new
    <3> QED BY <2>1, <2>2, <2>3
  <2>5. \A d \in Command : Owns(d) => commands[d].slot \in Slot \ {n}
    BY <1>3 DEF QuarantineInv, QuarantineTypeOK, CommandInv, Cleaning
  <2>6. PICK k \in Cleaning :
          /\ commands' = [commands EXCEPT ![c] = k] /\ k.slot = n
          /\ \/ k.pc = "removing" /\ k.published = FALSE
             \/ k.pc = "undoing" /\ k.published = TRUE
    <3>1. CASE CommandTo(c, "removing")
      <4>1. PICK k \in Cleaning : /\ k = [now EXCEPT !.pc = "removing"]
             /\ k.pc = "removing" /\ k.slot = now.slot /\ k.published = now.published
        BY <1>1, Turned
      <4> QED BY <1>1, <3>1, <4>1 DEF CommandTo
    <3>2. CASE commands' = [commands EXCEPT ![c].pc = "undoing", ![c].published = TRUE]
      <4>1. PICK k \in Cleaning :
              /\ k = [now EXCEPT !.pc = "undoing", !.published = TRUE]
              /\ k.pc = "undoing" /\ k.slot = now.slot /\ k.published = TRUE
        <5> DEFINE k == [now EXCEPT !.pc = "undoing", !.published = TRUE]
        <5>1. k \in Cleaning /\ k.pc = "undoing" /\ k.slot = now.slot
              /\ k.published = TRUE
          BY <1>1 DEF Cleaning
        <5> QED BY <5>1
      <4>2. commands' = [commands EXCEPT ![c] = k]
        BY <3>2, <4>1 DEF QuarantineInv, QuarantineTypeOK
      <4> QED BY <4>1, <4>2
    <3> QED BY <1>3, <3>1, <3>2 DEF PublishCopy
  <2>7. commands'[c] = k => CommandInv(c)'
    <3> SUFFICES ASSUME commands'[c] = k PROVE CommandInv(c)'
      OBVIOUS
    <3>1. held'[c] # NoFolder /\ copies'[n] # NoFolder
      BY <1>1, <2>2, <2>4
    <3>2. held'[c] \in broken' \/ copies'[n] = [of |-> held'[c], whole |-> TRUE]
      BY <1>1, <2>4
    <3> QED BY <2>6, <3>1, <3>2 DEF CommandInv, Owns, Undoes
  <2>8. /\ commands' \in [Command -> Cleaning] /\ \A d \in Command : CommandInv(d)'
        /\ OwnersApart'
    <3>1. \A d \in Command \ {c} :
            Owns(d) => copies'[commands[d].slot] = copies[commands[d].slot]
      BY <2>4, <2>5
    <3>2. \A d \in Command \ {c} : Owns(d) => commands[d].slot # k.slot
      BY <2>5, <2>6
    <3> QED BY <1>1, <2>6, <2>7, <3>1, <3>2, OneCommand
  <2>9. troubles' \in Nat
    BY <1>1, <1>3 DEF PublishCopy, Trouble, QuarantineTypeOK
  <2>10. QuarantineTypeOK'
    BY <1>1, <2>4, <2>8, <2>9 DEF QuarantineTypeOK
  <2>11. ASSUME NEW t \in born, NEW m \in Slot, KeptCopy(t, m)
         PROVE  KeptCopy(t, m)'
    <3>1. m # n
      <4>1. t \in Folder
        BY <1>1, <2>11 DEF QuarantineTypeOK
      <4>2. copies[m] \in StoredCopy
        BY <2>11, <4>1 DEF KeptCopy, StoredCopy
      <4> QED BY <1>3, <4>2, NoCopy
    <3>2. copies'[m] = copies[m]
      BY <2>4, <3>1
    <3>3. \A d \in Command : Undoes(d)' => commands'[d].slot # m
      BY <2>6, <2>11, <3>1 DEF KeptCopy, Undoes, QuarantineInv, QuarantineTypeOK
    <3> QED BY <2>11, <3>2, <3>3 DEF KeptCopy
  <2>12. \A t : Stands(t)' <=> Stands(t)
    BY <1>1 DEF Stands
  <2>13. ASSUME NEW t \in born' PROVE Safe(t)'
    BY <1>1, <2>11, <2>12, SafeStep DEF QuarantineInv
  <2> QED BY <1>1, <2>8, <2>10, <2>12, <2>13 DEF QuarantineInv
<1> QED BY <1>2, <1>3

LEMMA UndoMove ==
  ASSUME QuarantineInv, NEW c \in Command, Undo(c) PROVE QuarantineInv'
<1> DEFINE now == commands[c]
           n == now.slot
<1>1. /\ now \in Cleaning /\ CommandInv(c) /\ QuarantineTypeOK
      /\ now.pc = "undoing" /\ n \in Slot /\ PutFolderBack(c) /\ CommandEnds(c)
      /\ UNCHANGED <<finding, trashed, entry, elsewhere, broken, born>>
      /\ copies \in [Slot -> StoredCopy \cup {NoFolder}]
  BY DEF QuarantineInv, QuarantineTypeOK, Undo, CommandAt, Cleaning
<1>2. /\ place' \in MaybeFolder /\ held' \in [Command -> MaybeFolder]
      /\ \A d \in Command \ {c} : held'[d] = held[d]
      /\ \A t : Stands(t)' <=> Stands(t)
  BY <1>1, PutBack
<1>3. /\ copies' \in [Slot -> StoredCopy \cup {NoFolder}] /\ troubles' \in Nat
      /\ \A m \in Slot : copies'[m] = copies[m] \/ (Undoes(c) /\ m = n)
  <2>1. CASE ~now.published
    BY <1>1, <2>1 DEF Undo, QuarantineTypeOK
  <2>2. CASE now.published /\ copies' = [copies EXCEPT ![n] = NoFolder]
             /\ UNCHANGED troubles
    BY <1>1, <2>2 DEF Undoes, QuarantineTypeOK
  <2>3. CASE now.published /\ copies' = [copies EXCEPT ![n].whole = FALSE] /\ Trouble
    <3>1. copies[n] \in StoredCopy
      BY <1>1, <2>3 DEF CommandInv, Owns, Undoes
    <3>2. PICK q \in StoredCopy : q = [copies[n] EXCEPT !.whole = FALSE]
      BY <3>1 DEF StoredCopy
    <3>3. copies' = [copies EXCEPT ![n] = q]
      BY <1>1, <2>3, <3>2
    <3> QED BY <1>1, <2>3, <3>3 DEF Undoes, Trouble, QuarantineTypeOK
  <2> QED BY <2>1, <2>2, <2>3 DEF Undo
<1>4. /\ commands' \in [Command -> Cleaning] /\ \A d \in Command : CommandInv(d)'
      /\ OwnersApart'
  <2>1. commands'[c] = NotCleaning => CommandInv(c)'
    BY IdleRecord DEF CommandInv, Owns, Undoes
  <2>2. \A d \in Command \ {c} :
          Owns(d) => copies'[commands[d].slot] = copies[commands[d].slot]
    <3>1. ASSUME NEW d \in Command \ {c}, Owns(d)
          PROVE  copies'[commands[d].slot] = copies[commands[d].slot]
      <4>1. Undoes(c) => commands[d].slot # n
        BY <3>1 DEF QuarantineInv, OwnersApart, Owns
      <4>2. commands[d].slot \in Slot
        BY <1>1 DEF QuarantineTypeOK, Cleaning
      <4> QED BY <1>3, <4>1, <4>2
    <3> QED BY <3>1
  <2>3. /\ NotCleaning \in Cleaning /\ NotCleaning.pc = "idle"
        /\ commands' = [commands EXCEPT ![c] = NotCleaning]
    BY <1>1, IdleRecord DEF CommandEnds
  <2> QED BY <1>1, <1>2, <2>1, <2>2, <2>3, OneCommand
<1>5. QuarantineTypeOK'
  BY <1>1, <1>2, <1>3, <1>4 DEF QuarantineTypeOK
<1>6. ASSUME NEW t \in born' PROVE Safe(t)'
  <2>1. ASSUME NEW m \in Slot, KeptCopy(t, m) PROVE KeptCopy(t, m)'
    BY <1>1, <1>3, <2>1, CommandEnded DEF KeptCopy
  <2> QED BY <1>1, <1>2, <1>6, <2>1, SafeStep DEF QuarantineInv
<1> QED BY <1>1, <1>2, <1>4, <1>5, <1>6 DEF QuarantineInv

(* The end of a command that may take its claim with it, or a part of it:   *)
(* that is one with a copy.                                                 *)
LEMMA EndStep ==
  ASSUME QuarantineInv, NEW c \in Command, CommandEnds(c),
         UNCHANGED <<finding, trashed, entry, elsewhere, copies, born>>,
         place' \in MaybeFolder, held' \in [Command -> MaybeFolder],
         troubles' \in Nat, broken \subseteq broken',
         \A d \in Command \ {c} : held'[d] = held[d],
         \A t : Stands(t)' => Stands(t),
         \A t : Stands(t) /\ ~Stands(t)' =>
           t = held[c] /\ commands[c].pc = "removing",
         \A t \in broken' \ broken : t = held[c] /\ commands[c].pc = "removing"
  PROVE  QuarantineInv'
<1>1. /\ commands' \in [Command -> Cleaning] /\ \A d \in Command : CommandInv(d)'
      /\ OwnersApart'
  <2>1. commands'[c] = NotCleaning => CommandInv(c)'
    BY IdleRecord DEF CommandInv, Owns, Undoes
  <2>2. \A d \in Command \ {c} :
          Owns(d) => copies'[commands[d].slot] = copies[commands[d].slot]
    OBVIOUS
  <2>3. /\ NotCleaning \in Cleaning /\ NotCleaning.pc = "idle"
        /\ commands' = [commands EXCEPT ![c] = NotCleaning]
    BY IdleRecord DEF CommandEnds
  <2> QED BY <2>1, <2>2, <2>3, OneCommand
<1>2. broken' \subseteq born /\ broken' \subseteq Folder
  <2>1. commands[c].pc = "removing" => held[c] \in born
    BY DEF QuarantineInv, CommandInv, Stands
  <2>2. born \subseteq Folder /\ broken \subseteq born
    BY DEF QuarantineInv, QuarantineTypeOK
  <2> QED BY <2>1, <2>2
<1>3. QuarantineTypeOK'
  BY <1>1, <1>2 DEF QuarantineInv, QuarantineTypeOK
<1>4. ASSUME NEW t \in born' PROVE Safe(t)'
  <2>1. ASSUME NEW m \in Slot, KeptCopy(t, m) PROVE KeptCopy(t, m)'
    BY <2>1, CommandEnded DEF KeptCopy
  <2>2. CASE t = held[c] /\ commands[c].pc = "removing" /\ t \notin broken
    BY <2>1, <2>2, RemovedHasCopy DEF Safe
  <2>3. CASE ~(t = held[c] /\ commands[c].pc = "removing" /\ t \notin broken)
    BY <1>4, <2>1, <2>3, SafeStep DEF QuarantineInv
  <2> QED BY <2>2, <2>3
<1> QED BY <1>1, <1>2, <1>3, <1>4 DEF QuarantineInv

LEMMA RemovalMove ==
  ASSUME QuarantineInv, NEW c \in Command, RemoveFolder(c) \/ Killed(c)
  PROVE  QuarantineInv'
<1>1. /\ QuarantineTypeOK /\ troubles \in Nat /\ (Trouble => troubles' \in Nat)
      /\ place \in MaybeFolder /\ held \in [Command -> MaybeFolder]
  BY DEF QuarantineInv, QuarantineTypeOK, Trouble
<1>2. CASE RemoveFolder(c)
  <2>1. /\ CommandEnds(c) /\ commands[c].pc = "removing"
        /\ UNCHANGED <<finding, trashed, entry, elsewhere, copies, born>>
    BY <1>2 DEF RemoveFolder, CommandAt
  <2>2. CASE held' = [held EXCEPT ![c] = NoFolder]
             /\ UNCHANGED <<place, broken, troubles>>
    <3>1. /\ held' \in [Command -> MaybeFolder] /\ held'[c] = NoFolder
          /\ \A d \in Command \ {c} : held'[d] = held[d]
      BY <1>1, <2>2 DEF MaybeFolder
    <3>2. \A t : Stands(t)' => Stands(t)
      BY <2>1, <2>2, <3>1 DEF Stands
    <3>3. \A t : Stands(t) /\ ~Stands(t)' => t = held[c]
      BY <2>1, <2>2, <3>1 DEF Stands
    <3> QED BY <1>1, <2>1, <2>2, <3>1, <3>2, <3>3, EndStep
  <2>3. CASE broken' = broken \cup {held[c]} /\ PutFolderBack(c) /\ Trouble
    <3>1. /\ place' \in MaybeFolder /\ held' \in [Command -> MaybeFolder]
          /\ \A d \in Command \ {c} : held'[d] = held[d]
          /\ \A t : Stands(t)' <=> Stands(t)
      BY <2>1, <2>3, PutBack
    <3> QED BY <1>1, <2>1, <2>3, <3>1, EndStep
  <2> QED BY <1>2, <2>2, <2>3 DEF RemoveFolder
<1>3. CASE Killed(c)
  <2>1. /\ CommandEnds(c) /\ troubles' \in Nat
        /\ UNCHANGED <<finding, trashed, entry, place, elsewhere, held, copies, born>>
    BY <1>1, <1>3 DEF Killed
  <2>2. \/ broken' = broken
        \/ broken' = broken \cup {held[c]} /\ commands[c].pc = "removing"
    BY <1>3 DEF Killed, CommandAt
  <2>3. \A t : Stands(t)' <=> Stands(t)
    BY <2>1 DEF Stands
  <2> QED BY <1>1, <2>1, <2>2, <2>3, EndStep
<1> QED BY <1>2, <1>3

LEMMA OthersMove ==
  ASSUME QuarantineInv, FolderCreated \/ FolderMoved \/ UNCHANGED qvars
  PROVE  QuarantineInv'
<1>1. UNCHANGED <<finding, trashed, entry, broken, held, copies, commands, troubles>>
  BY DEF FolderCreated, FolderMoved, qvars
<1>2. /\ QuarantineTypeOK /\ place \in MaybeFolder /\ elsewhere \subseteq Folder
      /\ born \subseteq Folder
  BY DEF QuarantineInv, QuarantineTypeOK
<1>3. /\ place' \in MaybeFolder /\ elsewhere' \subseteq Folder
      /\ born \subseteq born' /\ born' \subseteq Folder
      /\ \A t : Stands(t) => Stands(t)'
      /\ \A t : Stands(t)' => Stands(t) \/ t \in born'
      /\ \A t \in born' \ born : t \notin born /\ Stands(t)'
  <2>1. CASE FolderCreated
    <3>1. PICK t \in Folder \ born : place' = t /\ born' = born \cup {t}
      BY <2>1 DEF FolderCreated
    <3>2. place = NoFolder /\ elsewhere' = elsewhere /\ t # NoFolder
      BY <2>1, QuarantineAssumption DEF FolderCreated, QuarantineAssumption
    <3> QED BY <1>1, <1>2, <3>1, <3>2 DEF Stands, MaybeFolder
  <2>2. CASE FolderMoved
    <3>1. place # NoFolder /\ elsewhere' = elsewhere \cup {place}
          /\ place' = NoFolder /\ born' = born
      BY <2>2 DEF FolderMoved
    <3> QED BY <1>1, <1>2, <3>1 DEF Stands, MaybeFolder
  <2>3. CASE UNCHANGED qvars
    BY <1>1, <1>2, <2>3 DEF Stands, qvars
  <2> QED BY <2>1, <2>2, <2>3
<1>4. \A c \in Command : CommandInv(c)'
  BY <1>1 DEF QuarantineInv, CommandInv, Owns, Undoes
<1>5. OwnersApart'
  BY <1>1 DEF QuarantineInv, OwnersApart, Owns, Undoes
<1>6. ASSUME NEW t \in born' PROVE Safe(t)'
  <2>1. CASE t \in born
    <3>1. \A m \in Slot : KeptCopy(t, m) => KeptCopy(t, m)'
      BY <1>1 DEF KeptCopy, Undoes
    <3> QED BY <1>1, <1>3, <2>1, <3>1, SafeStep DEF QuarantineInv
  <2>2. CASE t \notin born
    BY <1>1, <1>3, <1>6, <2>2 DEF QuarantineInv, Safe
  <2> QED BY <2>1, <2>2
<1>7. QuarantineTypeOK' /\ \A t : Stands(t)' => t \in born'
  BY <1>1, <1>2, <1>3 DEF QuarantineInv, QuarantineTypeOK
<1> QED BY <1>1, <1>3, <1>4, <1>5, <1>6, <1>7 DEF QuarantineInv

(* FolderKept: whatever fails and whoever is killed, every folder is whole *)
(* somewhere or the quarantine has a whole copy of it.                     *)
THEOREM FolderKeptAlways == QuarantineSpec => []FolderKept
<1>1. QuarantineInv /\ [QuarantineNext]_qvars => QuarantineInv'
  BY LooksMove, ClaimsMove, PublishMove, UndoMove, RemovalMove, OthersMove
     DEF QuarantineNext
<1>2. QuarantineInv => FolderKept
  BY DEF QuarantineInv, Safe, Stands, KeptCopy, FolderKept
<1> QED BY <1>1, <1>2, QuarantineInvInit, PTL DEF QuarantineSpec

-----------------------------------------------------------------------------
(* Repolish.  While nobody else writes, the library holds the first file    *)
(* and, after it, the polished one; the file turns into the polished one    *)
(* when the library has it, and never back.                                 *)

First == server[1]
Clean == Polished(First)
Uploading == [previous |-> 1, new |-> 2, html |-> Clean]

JobOK(k) ==
  /\ k.pc \in {"polish", "compare", "back_up", "put", "replace", "sync"} =>
       k.before \in {First, Clean} /\ (k.before = Clean => file = Clean)
  /\ k.pc \in {"compare", "back_up", "put", "replace", "sync"} => k.tmp = Clean
  /\ k.pc \in {"replace", "sync"} => Len(server) = 2 /\ k.answer = Uploading
  /\ k.pc = "sync" => file = Clean

ServerOK ==
  /\ Len(server) \in {1, 2} /\ (Len(server) = 2 => server[2] = Clean)
  /\ DOMAIN remembered = IF Len(server) = 1 THEN {} ELSE {Clean}
  /\ \A h \in DOMAIN remembered : remembered[h] = Uploading
FilesOK ==
  /\ file \in {First, Clean} /\ (file = Clean => server[Len(server)] = Clean)
  /\ row.version \in 1..Len(server) /\ row.html = server[row.version]
  /\ row.waits => row.version = 2
  /\ row.version = 2 => row.waits \/ file = Clean
  /\ results # {} => file = Clean
  /\ "uploaded" \in results => row.version = 2
Alone == ServerOK /\ FilesOK /\ \A p \in Process : JobOK(polishing[p])

RepolishInv == RepolishTypeOK /\ (foreign = 0 => Alone)

LEMMA PolishedTwice ==
  \A h \in HtmlFile : Polished(h) \in HtmlFile /\ Polished(Polished(h)) = Polished(h)
                      /\ Polished(h).polished = TRUE
BY DEF HtmlFile, Polished

(* The records of a process, by where it is.                               *)
LEMMA JobsByStage ==
  ASSUME NEW k \in PolishJob
  PROVE  /\ k.pc \in {"idle", "hash", "polish", "compare", "back_up", "put",
                      "replace", "sync"}
         /\ k.pc # "idle" => k.version \in Nat /\ k.skip \in BOOLEAN
         /\ k.pc \notin {"idle", "hash"} => k.before \in HtmlFile
         /\ k.pc \notin {"idle", "hash", "polish"} => k.tmp \in HtmlFile
         /\ k.pc \in {"compare", "back_up", "put"} =>
              k \in [pc : {"compare", "back_up", "put"}, version : Nat,
                     skip : BOOLEAN, before : HtmlFile, tmp : HtmlFile]
         /\ k.pc \in {"replace", "sync"} =>
              k \in [pc : {"replace", "sync"}, version : Nat, skip : BOOLEAN,
                     before : HtmlFile, tmp : HtmlFile, answer : ReplaceAnswer]
BY DEF PolishJob, NotPolishing

LEMMA RepolishInvInit == RepolishInit => RepolishInv
<1> SUFFICES ASSUME RepolishInit PROVE RepolishInv
  OBVIOUS
<1>1. PICK h \in HtmlFile : /\ server = <<h>> /\ file = h
                            /\ row = [version |-> 1, html |-> h, waits |-> FALSE]
  BY DEF RepolishInit
<1>2. /\ original_copy = Missing /\ results = {} /\ starts = 0 /\ foreign = 0
      /\ DOMAIN remembered = {}
      /\ polishing = [p \in Process |-> NotPolishing]
  BY DEF RepolishInit
<1>3. server \in Seq(HtmlFile) /\ Len(server) = 1 /\ server[1] = h /\ server # <<>>
  BY <1>1
<1>4. RepolishTypeOK
  <2>1. row \in AttachmentRow
    BY <1>1 DEF AttachmentRow
  <2>2. polishing \in [Process -> PolishJob]
    BY <1>2 DEF PolishJob
  <2> QED BY <1>1, <1>2, <1>3, <2>1, <2>2 DEF RepolishTypeOK
<1>5. ServerOK
  BY <1>2, <1>3 DEF ServerOK
<1>6. FilesOK
  BY <1>1, <1>2, <1>3 DEF FilesOK, First
<1>7. \A p \in Process : JobOK(polishing[p])
  BY <1>2 DEF JobOK, NotPolishing
<1> QED BY <1>4, <1>5, <1>6, <1>7 DEF RepolishInv, Alone

(* A step of one process leaves the others as well off as they were, as the *)
(* library and the file only move on.                                      *)
LEMMA OneJob ==
  ASSUME RepolishInv, NEW p \in Process, NEW k \in PolishJob, PolisherIs(p, k),
         foreign = 0 => /\ First' = First /\ (Len(server) = 2 => Len(server)' = 2)
                        /\ (file = Clean => file' = Clean) /\ JobOK(k)'
  PROVE  /\ polishing' \in [Process -> PolishJob]
         /\ foreign = 0 => \A q \in Process : JobOK(polishing[q])'
<1>1. polishing \in [Process -> PolishJob]
  BY DEF RepolishInv, RepolishTypeOK
<1>2. /\ polishing' \in [Process -> PolishJob] /\ polishing'[p] = k
      /\ \A q \in Process \ {p} : polishing'[q] = polishing[q]
  BY <1>1 DEF PolisherIs
<1>3. foreign = 0 => Clean' = Clean /\ Uploading' = Uploading
  BY DEF Clean, Uploading
<1>4. ASSUME foreign = 0, NEW q \in Process PROVE JobOK(polishing[q])'
  <2>1. CASE q = p
    BY <1>2, <1>4, <2>1 DEF JobOK
  <2>2. CASE q # p
    <3>1. JobOK(polishing[q]) /\ polishing'[q] = polishing[q]
      BY <1>2, <1>4, <2>2 DEF RepolishInv, Alone
    <3> QED BY <1>3, <1>4, <3>1 DEF JobOK
  <2> QED BY <2>1, <2>2
<1> QED BY <1>2, <1>4

(* Steps that only move a process on.                                      *)
LEMMA ReadingStep ==
  ASSUME RepolishInv, NEW p \in Process, NEW k \in PolishJob, PolisherIs(p, k),
         UNCHANGED <<server, row, file, remembered, results, foreign>>,
         original_copy' \in HtmlFile \cup {Missing}, starts' \in Nat,
         foreign = 0 => JobOK(k)
  PROVE  RepolishInv'
<1>1. JobOK(k) => JobOK(k)'
  BY DEF JobOK, Uploading, Clean, First
<1>2. /\ polishing' \in [Process -> PolishJob]
      /\ foreign = 0 => \A q \in Process : JobOK(polishing[q])'
  BY <1>1, OneJob DEF First, Clean
<1>3. RepolishTypeOK'
  BY <1>2 DEF RepolishInv, RepolishTypeOK
<1>4. foreign' = 0 => ServerOK' /\ FilesOK'
  BY DEF RepolishInv, Alone, ServerOK, FilesOK, Uploading, Clean, First
<1> QED BY <1>2, <1>3, <1>4 DEF RepolishInv, Alone

LEMMA EarlySteps ==
  ASSUME RepolishInv, NEW p \in Process,
         \/ TakeUpAttachment(p) \/ HashFile(p) \/ PolishFile(p)
         \/ BackUpFile(p) \/ PolisherStops(p)
  PROVE  RepolishInv'
<1> DEFINE now == polishing[p]
<1>1. /\ now \in PolishJob /\ row.version \in Nat /\ file \in HtmlFile
      /\ original_copy \in HtmlFile \cup {Missing} /\ starts \in Nat
      /\ foreign = 0 => JobOK(now) /\ file \in {First, Clean} /\ First \in HtmlFile
  <2>1. foreign = 0 => First \in HtmlFile
    BY DEF RepolishInv, RepolishTypeOK, Alone, ServerOK, First
  <2> QED BY <2>1 DEF RepolishInv, RepolishTypeOK, Alone, FilesOK, AttachmentRow
<1>2. /\ UNCHANGED <<server, row, file, remembered, results, foreign>>
      /\ original_copy' \in HtmlFile \cup {Missing} /\ starts' \in Nat
  BY <1>1 DEF TakeUpAttachment, HashFile, PolishFile, BackUpFile, PolisherStops
<1>3. CASE TakeUpAttachment(p)
  <2>1. PICK skip \in BOOLEAN :
          PolisherIs(p, [pc |-> "hash", version |-> row.version, skip |-> skip])
    BY <1>3, RepolishAssumption DEF TakeUpAttachment, RepolishAssumption
  <2> DEFINE k == [pc |-> "hash", version |-> row.version, skip |-> skip]
  <2>2. k \in PolishJob
    BY <1>1 DEF PolishJob
  <2>3. JobOK(k)
    BY DEF JobOK
  <2> HIDE DEF k
  <2> QED BY <1>2, <2>1, <2>2, <2>3, ReadingStep DEF k
<1>4. CASE HashFile(p)
  <2> DEFINE k == [pc |-> "polish", version |-> now.version, skip |-> now.skip,
                   before |-> file]
  <2>1. PolisherIs(p, k) /\ now.pc = "hash"
    BY <1>4 DEF HashFile, PolisherAt
  <2>2. k \in PolishJob
    BY <1>1, <2>1, JobsByStage DEF PolishJob
  <2>3. foreign = 0 => JobOK(k)
    BY <1>1 DEF JobOK
  <2> HIDE DEF k
  <2> QED BY <1>2, <2>1, <2>2, <2>3, ReadingStep
<1>5. CASE PolishFile(p)
  <2> DEFINE k == [pc |-> "compare", version |-> now.version, skip |-> now.skip,
                   before |-> now.before, tmp |-> Polished(file)]
  <2>1. PolisherIs(p, k) /\ now.pc = "polish"
    BY <1>5 DEF PolishFile, PolisherAt
  <2>2. k \in PolishJob
    BY <1>1, <2>1, JobsByStage, PolishedTwice DEF PolishJob
  <2>3. foreign = 0 => JobOK(k)
    <3>1. foreign = 0 => Polished(file) = Clean
      BY <1>1, PolishedTwice DEF Clean
    <3> QED BY <1>1, <2>1, <3>1 DEF JobOK
  <2> HIDE DEF k
  <2> QED BY <1>2, <2>1, <2>2, <2>3, ReadingStep
<1>6. CASE BackUpFile(p)
  <2> DEFINE k == [now EXCEPT !.pc = "put"]
  <2>1. PolisherIs(p, k) /\ now.pc = "back_up"
    BY <1>6 DEF BackUpFile, PolisherAt
  <2>2. /\ k \in PolishJob /\ k.pc = "put" /\ k.before = now.before
        /\ k.tmp = now.tmp
    BY <1>1, <2>1, JobsByStage DEF PolishJob
  <2> HIDE DEF k
  <2>3. foreign = 0 => JobOK(k)
    BY <1>1, <2>1, <2>2 DEF JobOK
  <2> QED BY <1>2, <2>1, <2>2, <2>3, ReadingStep
<1>7. CASE PolisherStops(p)
  <2>1. NotPolishing \in PolishJob /\ JobOK(NotPolishing)
    BY DEF PolishJob, NotPolishing, JobOK
  <2> QED BY <1>2, <1>7, <2>1, ReadingStep DEF PolisherStops
<1> QED BY <1>3, <1>4, <1>5, <1>6, <1>7

(* The record "unchanged" is made of a file that was polished when it was  *)
(* hashed, and then the library has it so.                                 *)
LEMMA CompareStep ==
  ASSUME RepolishInv, NEW p \in Process, CompareFiles(p) PROVE RepolishInv'
<1> DEFINE now == polishing[p]
<1>1. /\ now \in PolishJob /\ now.pc = "compare"
      /\ UNCHANGED <<server, row, file, original_copy, remembered, starts, foreign>>
      /\ foreign = 0 => JobOK(now)
  BY DEF RepolishInv, RepolishTypeOK, Alone, CompareFiles, PolisherAt
<1>2. CASE UnchangedFile(p)
  <2>1. PolisherIs(p, NotPolishing) /\ results' = results \cup {"unchanged"}
    BY <1>2 DEF CompareFiles
  <2>2. NotPolishing \in PolishJob /\ JobOK(NotPolishing)'
    BY DEF PolishJob, NotPolishing, JobOK
  <2>3. /\ polishing' \in [Process -> PolishJob]
        /\ foreign = 0 => \A q \in Process : JobOK(polishing[q])'
    BY <1>1, <2>1, <2>2, OneJob DEF First, Clean
  <2>4. RepolishTypeOK'
    BY <1>1, <2>1, <2>3 DEF RepolishInv, RepolishTypeOK
  <2>5. foreign = 0 => file = Clean
    BY <1>1, <1>2 DEF JobOK, UnchangedFile
  <2>6. foreign' = 0 => ServerOK' /\ FilesOK'
    BY <1>1, <2>1, <2>5
       DEF RepolishInv, Alone, ServerOK, FilesOK, Uploading, Clean, First
  <2> QED BY <1>1, <2>3, <2>4, <2>6 DEF RepolishInv, Alone
<1>3. CASE ~UnchangedFile(p)
  <2> DEFINE k == [now EXCEPT !.pc = "back_up"]
  <2>1. PolisherIs(p, k) /\ results' = results
    BY <1>3 DEF CompareFiles
  <2>2. /\ k \in PolishJob /\ k.pc = "back_up" /\ k.before = now.before
        /\ k.tmp = now.tmp
    BY <1>1, JobsByStage DEF PolishJob
  <2> HIDE DEF k
  <2>3. foreign = 0 => JobOK(k)
    BY <1>1, <2>2 DEF JobOK
  <2>4. original_copy' \in HtmlFile \cup {Missing} /\ starts' \in Nat
    BY <1>1 DEF RepolishInv, RepolishTypeOK
  <2> QED BY <1>1, <2>1, <2>2, <2>3, <2>4, ReadingStep
<1> QED BY <1>2, <1>3

(* What a process makes of an answer.                                      *)
LEMMA HeardJob ==
  ASSUME RepolishInv, NEW p \in Process, NEW answer \in ReplaceAnswer,
         polishing[p].pc = "put", AnswerHeard(p, answer)
  PROVE  \E k \in PolishJob :
           /\ PolisherIs(p, k)
           /\ k.pc = "idle" \/ (/\ k.pc = "replace" /\ k.answer = answer
                                /\ k.before = polishing[p].before
                                /\ k.tmp = polishing[p].tmp)
<1> DEFINE now == polishing[p]
<1>1. now \in PolishJob
  BY DEF RepolishInv, RepolishTypeOK
<1>2. CASE AnswerAccepted(p, answer)
  <2> DEFINE k == [pc |-> "replace", version |-> now.version, skip |-> now.skip,
                   before |-> now.before, tmp |-> now.tmp, answer |-> answer]
  <2>1. PolisherIs(p, k)
    BY <1>2 DEF AnswerHeard
  <2>2. k \in PolishJob
    BY <1>1, JobsByStage DEF PolishJob
  <2>3. /\ k.pc = "replace" /\ k.answer = answer /\ k.before = now.before
        /\ k.tmp = now.tmp
    OBVIOUS
  <2> HIDE DEF k
  <2> QED BY <2>1, <2>2, <2>3
<1>3. CASE ~AnswerAccepted(p, answer)
  <2>1. PolisherIs(p, NotPolishing) /\ NotPolishing \in PolishJob
        /\ NotPolishing.pc = "idle"
    BY <1>3 DEF AnswerHeard, PolishJob, NotPolishing
  <2> QED BY <2>1
<1> QED BY <1>2, <1>3

LEMMA PutStep ==
  ASSUME RepolishInv, NEW p \in Process, PutFile(p) PROVE RepolishInv'
<1> DEFINE now == polishing[p]
           answer == [previous |-> Len(server), new |-> Len(server) + 1,
                      html |-> now.tmp]
<1>1. /\ now \in PolishJob /\ now.pc = "put" /\ now.tmp \in HtmlFile
      /\ server \in Seq(HtmlFile) /\ Len(server) \in Nat /\ server # <<>>
      /\ UNCHANGED <<row, file, original_copy, results, starts, foreign>>
      /\ foreign = 0 => JobOK(now) /\ ServerOK /\ FilesOK
  <2>1. now \in PolishJob /\ now.pc = "put"
    BY DEF RepolishInv, RepolishTypeOK, PutFile, PolisherAt
  <2>2. now.tmp \in HtmlFile
    BY <2>1, JobsByStage
  <2> QED BY <2>1, <2>2 DEF RepolishInv, RepolishTypeOK, Alone, PutFile
<1>2. NotPolishing \in PolishJob /\ NotPolishing.pc = "idle" /\ JobOK(NotPolishing)
  BY DEF PolishJob, NotPolishing, JobOK
<1>3. original_copy' \in HtmlFile \cup {Missing} /\ starts' \in Nat
  BY <1>1 DEF RepolishInv, RepolishTypeOK
<1>4. CASE /\ now.tmp \in DOMAIN remembered /\ AnswerHeard(p, remembered[now.tmp])
           /\ UNCHANGED <<server, remembered>>
  <2>1. remembered[now.tmp] \in ReplaceAnswer
    BY <1>4 DEF RepolishInv, RepolishTypeOK
  <2>2. PICK k \in PolishJob :
           /\ PolisherIs(p, k)
           /\ k.pc = "idle" \/ (/\ k.pc = "replace" /\ k.answer = remembered[now.tmp]
                                /\ k.before = now.before /\ k.tmp = now.tmp)
    BY <1>1, <1>4, <2>1, HeardJob
  <2>3. foreign = 0 => JobOK(k)
    BY <1>1, <1>4, <2>2 DEF JobOK, ServerOK
  <2> QED BY <1>1, <1>3, <1>4, <2>2, <2>3, ReadingStep
<1>5. CASE PolisherIs(p, NotPolishing) /\ UNCHANGED <<server, remembered>>
  BY <1>1, <1>2, <1>3, <1>5, ReadingStep
<1>6. CASE /\ now.tmp \notin DOMAIN remembered /\ server' = Append(server, now.tmp)
           /\ RelayAnswers(answer, now.tmp)
           /\ AnswerHeard(p, answer) \/ PolisherIs(p, NotPolishing)
  <2>1. answer \in ReplaceAnswer
    BY <1>1 DEF ReplaceAnswer
  <2>2. PICK k \in PolishJob :
           /\ PolisherIs(p, k)
           /\ k.pc = "idle" \/ (/\ k.pc = "replace" /\ k.answer = answer
                                /\ k.before = now.before /\ k.tmp = now.tmp)
    BY <1>1, <1>2, <1>6, <2>1, HeardJob
  <2>3. /\ server' \in Seq(HtmlFile) /\ Len(server') = Len(server) + 1
        /\ server'[Len(server) + 1] = now.tmp /\ server' # <<>>
        /\ \A n \in 1..Len(server) : server'[n] = server[n]
    BY <1>1, <1>6
  <2>4. /\ DOMAIN remembered' = DOMAIN remembered \cup {now.tmp}
        /\ remembered'[now.tmp] = answer
        /\ \A h \in DOMAIN remembered : remembered'[h] = remembered[h]
    BY <1>6 DEF RelayAnswers
  <2>5. First' = First
    BY <1>1, <2>3 DEF First
  <2>6. foreign = 0 => Len(server) = 1 /\ now.tmp = Clean /\ answer = Uploading
    <3> SUFFICES ASSUME foreign = 0
                 PROVE  Len(server) = 1 /\ now.tmp = Clean /\ answer = Uploading
      OBVIOUS
    <3>1. now.tmp = Clean
      BY <1>1 DEF JobOK
    <3>2. Len(server) = 1
      BY <1>1, <1>6, <3>1 DEF ServerOK
    <3> QED BY <3>1, <3>2 DEF Uploading
  <2>7. Clean' = Clean /\ Uploading' = Uploading
    BY <2>5 DEF Clean, Uploading
  <2>8. foreign = 0 => JobOK(k)'
    <3> SUFFICES ASSUME foreign = 0 PROVE JobOK(k)'
      OBVIOUS
    <3> HIDE DEF answer
    <3>1. k.pc = "replace" =>
            /\ k.before \in {First, Clean} /\ (k.before = Clean => file' = Clean)
            /\ k.tmp = Clean /\ k.answer = Uploading
      BY <1>1, <2>2, <2>6 DEF JobOK
    <3>2. Len(server)' = 2
      <4>1. Len(server) = 1
        BY <2>6
      <4> QED BY <2>3, <4>1
    <3>3. CASE k.pc = "idle"
      BY <3>3 DEF JobOK
    <3>4. CASE k.pc = "replace"
      <4>1. /\ k.before \in {First', Clean'} /\ (k.before = Clean' => file' = Clean')
            /\ k.tmp = Clean' /\ k.answer = Uploading'
        BY <2>5, <2>7, <3>1, <3>4
      <4> QED BY <3>2, <3>4, <4>1 DEF JobOK
    <3> QED BY <2>2, <3>3, <3>4
  <2>9. /\ polishing' \in [Process -> PolishJob]
        /\ foreign = 0 => \A q \in Process : JobOK(polishing[q])'
    <3> HIDE DEF answer
    <3>1. foreign = 0 => /\ First' = First /\ (Len(server) = 2 => Len(server)' = 2)
                         /\ (file = Clean => file' = Clean) /\ JobOK(k)'
      BY <1>1, <2>5, <2>6, <2>7, <2>8
    <3> QED BY <2>2, <3>1, OneJob
  <2>10. RepolishTypeOK'
    <3>1. /\ DOMAIN remembered' \subseteq HtmlFile
          /\ \A h \in DOMAIN remembered' : remembered'[h] \in ReplaceAnswer
      BY <1>1, <2>1, <2>4 DEF RepolishInv, RepolishTypeOK
    <3> QED BY <1>1, <1>3, <2>3, <2>9, <3>1 DEF RepolishInv, RepolishTypeOK
  <2>11. foreign' = 0 => ServerOK'
    BY <1>1, <2>3, <2>4, <2>6, <2>7 DEF ServerOK
  <2>12. foreign' = 0 => FilesOK'
    BY <1>1, <2>3, <2>5, <2>6, <2>7 DEF FilesOK
  <2> QED BY <1>1, <2>9, <2>10, <2>11, <2>12 DEF RepolishInv, Alone
<1> QED BY <1>4, <1>5, <1>6 DEF PutFile, NewestVersion

(* The polished file takes its place once the library has it.              *)
LEMMA ReplaceStep ==
  ASSUME RepolishInv, NEW p \in Process, ReplaceFile(p) PROVE RepolishInv'
<1> DEFINE now == polishing[p]
<1>1. /\ now \in PolishJob /\ now.pc = "replace" /\ file' = now.tmp
      /\ UNCHANGED <<server, row, original_copy, remembered, results, starts, foreign>>
      /\ foreign = 0 => JobOK(now) /\ ServerOK /\ FilesOK
      /\ now.tmp \in HtmlFile
  BY JobsByStage DEF RepolishInv, RepolishTypeOK, Alone, ReplaceFile, PolisherAt
<1>2. PICK k \in PolishJob : /\ PolisherIs(p, k) /\ k.pc = "sync"
        /\ k.before = now.before /\ k.tmp = now.tmp /\ k.answer = now.answer
  <2> DEFINE k == [now EXCEPT !.pc = "sync"]
  <2>1. PolisherIs(p, k)
    BY DEF ReplaceFile
  <2>2. /\ k \in PolishJob /\ k.pc = "sync" /\ k.before = now.before
        /\ k.tmp = now.tmp /\ k.answer = now.answer
    BY <1>1, JobsByStage DEF PolishJob
  <2> HIDE DEF k
  <2> QED BY <2>1, <2>2
<1>3. foreign = 0 => now.tmp = Clean /\ Len(server) = 2 /\ server[2] = Clean
  BY <1>1 DEF JobOK, ServerOK
<1>4. Clean' = Clean /\ First' = First /\ Uploading' = Uploading
  BY <1>1 DEF Clean, First, Uploading
<1>5. foreign = 0 => JobOK(k)'
  BY <1>1, <1>2, <1>3, <1>4 DEF JobOK
<1>6. /\ polishing' \in [Process -> PolishJob]
      /\ foreign = 0 => \A q \in Process : JobOK(polishing[q])'
  BY <1>1, <1>2, <1>3, <1>4, <1>5, OneJob
<1>7. RepolishTypeOK'
  BY <1>1, <1>2, <1>6 DEF RepolishInv, RepolishTypeOK
<1>8. foreign' = 0 => ServerOK' /\ FilesOK'
  BY <1>1, <1>3, <1>4 DEF ServerOK, FilesOK
<1> QED BY <1>1, <1>6, <1>7, <1>8 DEF RepolishInv, Alone

LEMMA SyncStep ==
  ASSUME RepolishInv, NEW p \in Process, SyncRow(p) PROVE RepolishInv'
<1> DEFINE now == polishing[p]
<1>1. /\ now \in PolishJob /\ now.pc = "sync" /\ PolisherIs(p, NotPolishing)
      /\ UNCHANGED <<server, file, original_copy, remembered, starts, foreign>>
      /\ foreign = 0 => JobOK(now) /\ ServerOK /\ FilesOK
  BY DEF RepolishInv, RepolishTypeOK, Alone, SyncRow, PolisherAt
<1>2. NotPolishing \in PolishJob /\ JobOK(NotPolishing) /\ JobOK(NotPolishing)'
  BY DEF PolishJob, NotPolishing, JobOK
<1>3. CASE SameVersion(p)
  <2>1. /\ row' = [version |-> now.answer.new, html |-> now.answer.html, waits |-> FALSE]
        /\ results' = results \cup {"uploaded"}
    BY <1>3 DEF SyncRow
  <2>2. /\ polishing' \in [Process -> PolishJob]
        /\ foreign = 0 => \A q \in Process : JobOK(polishing[q])'
    BY <1>1, <1>2, OneJob DEF First, Clean
  <2>3. row' \in AttachmentRow
    <3>1. now.answer \in ReplaceAnswer
      BY <1>1, JobsByStage
    <3>2. now.answer.new \in Nat /\ now.answer.html \in HtmlFile
      BY <3>1 DEF ReplaceAnswer
    <3> QED BY <2>1, <3>2 DEF AttachmentRow
  <2>4. RepolishTypeOK'
    BY <1>1, <2>1, <2>2, <2>3 DEF RepolishInv, RepolishTypeOK
  <2>5. foreign = 0 => /\ row'.version = 2 /\ row'.html = Clean /\ ~row'.waits
                       /\ Len(server) = 2 /\ server[2] = Clean /\ file = Clean
    BY <1>1, <2>1 DEF JobOK, ServerOK, Uploading
  <2>6. Clean' = Clean /\ First' = First /\ Uploading' = Uploading
    BY <1>1 DEF Clean, First, Uploading
  <2>7. foreign' = 0 => ServerOK' /\ FilesOK'
    <3>1. foreign = 0 => ServerOK'
      BY <1>1, <2>6 DEF ServerOK
    <3>2. foreign = 0 => /\ file' = Clean /\ Len(server') = 2 /\ server'[2] = Clean
                         /\ row'.version = 2 /\ row'.html = Clean /\ ~row'.waits
      BY <1>1, <2>5
    <3>3. foreign = 0 => FilesOK'
      <4> SUFFICES ASSUME foreign = 0 PROVE FilesOK'
        OBVIOUS
      <4>1. /\ file' \in {First', Clean'} /\ server'[Len(server')] = Clean'
            /\ row'.html = server'[row'.version]
        BY <2>6, <3>2
      <4>2. row'.version = 2 /\ file' = Clean' /\ ~row'.waits
        BY <2>6, <3>2
      <4>3. row'.version \in 1..Len(server')
        <5>1. 2 \in 1..2
          OBVIOUS
        <5> QED BY <3>2, <5>1, Zenon
      <4> QED BY <4>1, <4>2, <4>3 DEF FilesOK
    <3> QED BY <1>1, <3>1, <3>3
  <2>8. foreign' = 0 => Alone'
    BY <1>1, <2>2, <2>7 DEF Alone
  <2> QED BY <2>4, <2>8 DEF RepolishInv
<1>4. CASE ~SameVersion(p)
  <2>1. UNCHANGED <<row, results>>
    BY <1>4 DEF SyncRow
  <2>2. original_copy' \in HtmlFile \cup {Missing} /\ starts' \in Nat
    BY <1>1 DEF RepolishInv, RepolishTypeOK
  <2> QED BY <1>1, <1>2, <2>1, <2>2, ReadingStep
<1> QED BY <1>3, <1>4

LEMMA TwoOfTwo == \A n \in {1, 2} : 2 \in 1..n => n = 2
OBVIOUS

(* Zotero takes over what the library has, and has nothing to upload.      *)
LEMMA ZoteroSteps ==
  ASSUME RepolishInv, ZoteroPulls \/ ZoteroFetches \/ ZoteroUploads
  PROVE  RepolishInv'
<1>1. /\ RepolishTypeOK /\ row \in AttachmentRow /\ file \in HtmlFile
      /\ server \in Seq(HtmlFile) /\ Len(server) \in Nat /\ Len(server) > 0
      /\ UNCHANGED <<original_copy, remembered, polishing, results, starts, foreign>>
  BY DEF RepolishInv, RepolishTypeOK, ZoteroPulls, ZoteroFetches, ZoteroUploads
<1>2. /\ row.version \in Nat /\ row.html \in HtmlFile /\ row.waits \in BOOLEAN
      /\ server[Len(server)] \in HtmlFile
  BY <1>1 DEF AttachmentRow
<1>3. /\ server' \in Seq(HtmlFile) /\ server' # <<>> /\ file' \in HtmlFile
      /\ row' \in AttachmentRow
  <2>1. CASE ZoteroPulls
    <3>1. server' = server /\ file' = file
      BY <2>1 DEF ZoteroPulls
    <3>2. (row.waits \/ server[Len(server)] # row.html) \in BOOLEAN
      OBVIOUS
    <3>3. \A w \in BOOLEAN :
            [version |-> Len(server), html |-> server[Len(server)], waits |-> w]
              \in AttachmentRow
      BY <1>1, <1>2 DEF AttachmentRow
    <3>4. row' = [version |-> Len(server), html |-> server[Len(server)],
                  waits |-> row.waits \/ server[Len(server)] # row.html]
      BY <2>1 DEF ZoteroPulls, NewestVersion
    <3>5. row' \in AttachmentRow
      BY <3>2, <3>3, <3>4, Zenon
    <3> QED BY <1>1, <3>1, <3>5
  <2>2. CASE ZoteroFetches
    <3>1. server' = server /\ file' = row.html /\ row' = [row EXCEPT !.waits = FALSE]
      BY <2>2 DEF ZoteroFetches
    <3>2. row' \in AttachmentRow
      BY <1>1, <3>1 DEF AttachmentRow
    <3> QED BY <1>1, <1>2, <3>1, <3>2
  <2>3. CASE ZoteroUploads
    <3>1. server' = Append(server, file) /\ file' = file
      BY <2>3 DEF ZoteroUploads
    <3>2. row' = [row EXCEPT !.version = Len(server) + 1, !.html = file]
      BY <2>3 DEF ZoteroUploads, NewestVersion
    <3>3. \A n \in Nat :
            [row EXCEPT !.version = n, !.html = file] \in AttachmentRow
      BY <1>1 DEF AttachmentRow
    <3>4. Len(server) + 1 \in Nat
      BY <1>1
    <3>5. row' \in AttachmentRow
      BY <3>2, <3>3, <3>4
    <3> QED BY <1>1, <3>1, <3>5
  <2> QED BY <2>1, <2>2, <2>3
<1>4. RepolishTypeOK'
  BY <1>1, <1>3 DEF RepolishTypeOK
<1>5. ASSUME foreign = 0 PROVE Alone'
  <2>1. ServerOK /\ FilesOK /\ \A p \in Process : JobOK(polishing[p])
    BY <1>5 DEF RepolishInv, Alone
  <2>2. ASSUME server' = server, file = Clean => file' = Clean, FilesOK'
        PROVE  Alone'
    <3>1. First' = First /\ Clean' = Clean /\ Uploading' = Uploading
      BY <2>2 DEF First, Clean, Uploading
    <3>2. ServerOK'
      BY <1>1, <2>1, <2>2, <3>1 DEF ServerOK
    <3>3. \A p \in Process : JobOK(polishing[p])'
      BY <1>1, <2>1, <2>2, <3>1 DEF JobOK
    <3> QED BY <2>2, <3>2, <3>3 DEF Alone
  <2>3. CASE ZoteroPulls
    <3>1. /\ row.version = 1 /\ Len(server) = 2 /\ server[2] = Clean
          /\ row.html = First /\ server' = server /\ file' = file
      <4>1. /\ row.version < Len(server) /\ row.version >= 1
            /\ Len(server) \in {1, 2} /\ server' = server /\ file' = file
        BY <1>1, <1>2, <2>1, <2>3 DEF ZoteroPulls, FilesOK, ServerOK, NewestVersion
      <4>2. row.version = 1 /\ Len(server) = 2
        BY <1>1, <1>2, <4>1
      <4> QED BY <2>1, <4>1, <4>2 DEF ServerOK, FilesOK, First
    <3>2. row'.version = 2 /\ row'.html = Clean
      BY <2>3, <3>1 DEF ZoteroPulls, NewestVersion
    <3>3. row'.waits \/ First = Clean
      <4>1. row'.waits = (row.waits \/ server[Len(server)] # row.html)
        BY <2>3 DEF ZoteroPulls, NewestVersion
      <4> QED BY <3>1, <4>1
    <3>4. First' = First /\ Clean' = Clean
      BY <3>1 DEF First, Clean
    <3>5. file' \in {First', Clean'} /\ (file' = Clean' => server'[Len(server)'] = Clean')
      BY <2>1, <3>1, <3>4 DEF FilesOK
    <3>6. row'.version \in 1..Len(server)' /\ row'.html = server'[row'.version]
      <4>1. row'.version = 2 /\ Len(server)' = 2 /\ server'[2] = row'.html
        BY <3>1, <3>2
      <4>2. 2 \in 1..2
        OBVIOUS
      <4> QED BY <4>1, <4>2
    <3>7. row'.version = 2 => row'.waits \/ file' = Clean'
      BY <2>1, <3>1, <3>3, <3>4 DEF FilesOK
    <3>8. /\ row'.waits => row'.version = 2
          /\ results' # {} => file' = Clean'
          /\ "uploaded" \in results' => row'.version = 2
      BY <1>1, <2>1, <3>1, <3>2, <3>4 DEF FilesOK
    <3>9. FilesOK'
      BY <3>5, <3>6, <3>7, <3>8 DEF FilesOK
    <3> QED BY <2>2, <3>1, <3>4, <3>9
  <2>4. CASE ZoteroFetches
    <3>1. /\ row.waits /\ server' = server /\ file' = row.html
          /\ row' = [row EXCEPT !.waits = FALSE]
      BY <2>4 DEF ZoteroFetches
    <3>2. /\ row.version = 2 /\ Len(server) = 2 /\ server[2] = Clean
      <4>1. row.version = 2 /\ row.version \in 1..Len(server) /\ Len(server) \in {1, 2}
        BY <2>1, <3>1 DEF FilesOK, ServerOK
      <4>2. Len(server) = 2
        BY <4>1, TwoOfTwo
      <4> QED BY <2>1, <4>1, <4>2 DEF ServerOK
    <3>3. file' = Clean /\ First' = First /\ Clean' = Clean
      BY <2>1, <3>1, <3>2 DEF FilesOK, First, Clean
    <3>4. row'.version = 2 /\ row'.html = Clean /\ ~row'.waits
      BY <1>1, <2>1, <3>1, <3>2 DEF AttachmentRow, FilesOK
    <3>5. FilesOK'
      BY <1>1, <3>1, <3>2, <3>3, <3>4 DEF FilesOK
    <3> QED BY <2>2, <3>1, <3>3, <3>5
  <2>5. CASE ZoteroUploads
    <3>1. /\ ~row.waits /\ row.version = Len(server) /\ file # row.html
      BY <2>5 DEF ZoteroUploads, NewestVersion
    <3>2. CASE Len(server) = 1
      BY <2>1, <3>1, <3>2 DEF FilesOK, First
    <3>3. CASE Len(server) = 2
      BY <2>1, <3>1, <3>3 DEF FilesOK, ServerOK
    <3> QED BY <2>1, <3>2, <3>3 DEF ServerOK
  <2> QED BY <2>3, <2>4, <2>5
<1> QED BY <1>1, <1>4, <1>5 DEF RepolishInv

LEMMA ForeignSteps ==
  ASSUME RepolishInv, SavedLocally \/ ReplacedElsewhere \/ UNCHANGED rvars
  PROVE  RepolishInv'
<1>1. RepolishTypeOK
  BY DEF RepolishInv
<1>2. CASE SavedLocally
  <2>1. /\ foreign' = foreign + 1 /\ foreign \in Nat /\ file' \in HtmlFile
        /\ UNCHANGED <<server, row, original_copy, remembered, polishing, results, starts>>
    BY <1>1, <1>2 DEF SavedLocally, RepolishTypeOK, HtmlFile
  <2> QED BY <1>1, <2>1 DEF RepolishInv, RepolishTypeOK
<1>3. CASE ReplacedElsewhere
  <2>1. /\ foreign' = foreign + 1 /\ foreign \in Nat
        /\ UNCHANGED <<row, file, original_copy, remembered, polishing, results, starts>>
    BY <1>1, <1>3 DEF ReplacedElsewhere, RepolishTypeOK
  <2>2. PICK h \in HtmlFile : server' = Append(server, h)
    BY <1>3 DEF ReplacedElsewhere, HtmlFile
  <2>3. server' \in Seq(HtmlFile) /\ server' # <<>>
    BY <1>1, <2>2 DEF RepolishTypeOK
  <2> QED BY <1>1, <2>1, <2>3 DEF RepolishInv, RepolishTypeOK
<1>4. CASE UNCHANGED rvars
  BY <1>4 DEF RepolishInv, RepolishTypeOK, Alone, ServerOK, FilesOK, JobOK,
     Uploading, Clean, First, rvars
<1> QED BY <1>2, <1>3, <1>4

(* RecordedIsDone: an attachment that results.jsonl calls done is, polished *)
(* in the storage, in the library, and in the row if it was uploaded.      *)
THEOREM RecordedIsDoneAlways == RepolishSpec => []RecordedIsDone
<1>1. RepolishInv /\ [RepolishNext]_rvars => RepolishInv'
  BY EarlySteps, CompareStep, PutStep, ReplaceStep, SyncStep, ZoteroSteps,
     ForeignSteps DEF RepolishNext
<1>2. ASSUME RepolishInv, results # {}, foreign = 0
      PROVE  /\ file = server[NewestVersion] /\ file.polished
             /\ "uploaded" \in results => row.version = NewestVersion /\ row.html = file
  <2>1. ServerOK /\ FilesOK /\ First \in HtmlFile
    BY <1>2 DEF RepolishInv, RepolishTypeOK, Alone, ServerOK, First
  <2>2. file = Clean /\ file = server[NewestVersion]
    BY <1>2, <2>1 DEF FilesOK, NewestVersion
  <2>3. Clean.polished = TRUE
    BY <2>1, PolishedTwice DEF Clean
  <2>4. ASSUME "uploaded" \in results
        PROVE  row.version = NewestVersion /\ row.html = file
    <3>1. row.version = 2 /\ row.version \in 1..Len(server) /\ Len(server) \in {1, 2}
      BY <2>1, <2>4 DEF FilesOK, ServerOK
    <3>2. row.version = Len(server)
      BY <3>1, TwoOfTwo
    <3> QED BY <2>1, <2>2, <3>2 DEF FilesOK, NewestVersion
  <2> QED BY <2>2, <2>3, <2>4
<1>3. RepolishInv => RecordedIsDone
  BY <1>2 DEF RecordedIsDone
<1> QED BY <1>1, <1>3, RepolishInvInit, PTL DEF RepolishSpec

-----------------------------------------------------------------------------
(* EnrichItem.  Every reply that is remembered or in a handler's hand tells *)
(* of a version the server went through, and past versions stay; a parent   *)
(* that the relay calls created began with the stem; an HTML that is to go  *)
(* into the mirror is on the server.                                       *)

RelayReply == [applied : SUBSET Field, version : Nat]
HandRecord ==
  [pc : HandAt, kind : {"enrich", "arxiv_html"}, fields : [Field -> Value],
   inMirror : BOOLEAN, linked : BOOLEAN, created : BOOLEAN, patch : SUBSET Field,
   html : Nat, reply : RelayReply, sent : Nat]
MirrorRecord ==
  [link : BOOLEAN, row : BOOLEAN, fields : [Field -> Value], version : Nat,
   synced : BOOLEAN, html : SUBSET Nat]

Quoted(r) ==
  r.applied # {} =>
    /\ r.version \in 1..Len(past)
    /\ \A f \in r.applied : past[r.version][f] = "found"
HandOK(k) ==
  /\ Quoted(k.reply)
  /\ k.created => Len(past) > 0 /\ past[1] = Stem
  /\ k.pc \notin {"idle", "ask_parent"} => Len(past) > 0
  /\ k.pc \in {"sibling_gate", "sibling_write"} => k.html \in siblings

EnrichInv ==
  /\ past \in Seq([Field -> Value]) /\ siblings \subseteq Nat
  /\ mirror \in MirrorRecord /\ mirror.html \subseteq siblings
  /\ mirror.row => Len(past) > 0
  /\ memo \in [SUBSET Field -> RelayReply]
  /\ \A patch \in SUBSET Field : Quoted(memo[patch])
  /\ hand \in [Hand -> HandRecord]
  /\ \A w \in Hand : HandOK(hand[w])

(* Nothing the server went through changes.                                *)
PastStands ==
  /\ past' \in Seq([Field -> Value]) /\ Len(past) <= Len(past')
  /\ \A n \in 1..Len(past) : past'[n] = past[n]
  /\ siblings \subseteq siblings' /\ siblings' \subseteq Nat

LEMMA BlankFields == Blank \in [Field -> Value] /\ Stem \in [Field -> Value]
BY DEF Blank, Stem, Field, Value

LEMMA NoHandIsHand ==
  /\ NoHand \in HandRecord /\ Unanswered \in RelayReply
  /\ NoHand.reply = Unanswered /\ Unanswered.applied = {} /\ NoHand.created = FALSE
  /\ NoHand.pc = "idle" /\ HandOK(NoHand)
<1>1. Unanswered \in RelayReply /\ Unanswered.applied = {}
  BY DEF Unanswered, RelayReply
<1>2. NoHand \in HandRecord
  BY <1>1, BlankFields DEF NoHand, HandRecord, HandAt
<1>3. NoHand.reply = Unanswered /\ NoHand.created = FALSE /\ NoHand.pc = "idle"
  BY DEF NoHand
<1> QED BY <1>1, <1>2, <1>3 DEF HandOK, Quoted

LEMMA StaysOK ==
  ASSUME EnrichInv, PastStands
  PROVE  /\ \A r \in RelayReply : Quoted(r) => Quoted(r)'
         /\ \A k \in HandRecord : HandOK(k) => HandOK(k)'
<1>1. Len(past) \in Nat /\ Len(past') \in Nat
  BY DEF EnrichInv, PastStands
<1>2. ASSUME NEW r \in RelayReply, Quoted(r) PROVE Quoted(r)'
  BY <1>1, <1>2 DEF Quoted, PastStands, RelayReply
<1>3. ASSUME NEW k \in HandRecord, HandOK(k) PROVE HandOK(k)'
  <2>1. k.reply \in RelayReply
    BY DEF HandRecord
  <2>2. Quoted(k.reply)'
    BY <1>2, <1>3, <2>1 DEF HandOK
  <2>3. k.created => Len(past') > 0 /\ past'[1] = Stem
    BY <1>1, <1>3 DEF HandOK, PastStands
  <2>4. k.pc \in {"sibling_gate", "sibling_write"} => k.html \in siblings'
    BY <1>3 DEF HandOK, PastStands
  <2>5. k.pc \notin {"idle", "ask_parent"} => Len(past') > 0
    BY <1>1, <1>3 DEF HandOK, PastStands
  <2> QED BY <2>2, <2>3, <2>4, <2>5 DEF HandOK
<1> QED BY <1>2, <1>3

(* A step of one handler.                                                  *)
LEMMA OneHand ==
  ASSUME EnrichInv, PastStands, NEW w \in Hand, NEW k \in HandRecord,
         Becomes(w, k), HandOK(k)'
  PROVE  hand' \in [Hand -> HandRecord] /\ \A v \in Hand : HandOK(hand[v])'
<1>1. /\ hand' \in [Hand -> HandRecord] /\ hand'[w] = k
      /\ \A v \in Hand \ {w} : hand'[v] = hand[v]
  BY DEF EnrichInv, Becomes
<1>2. ASSUME NEW v \in Hand PROVE HandOK(hand[v])'
  <2>1. CASE v = w
    BY <1>1, <2>1 DEF HandOK, Quoted
  <2>2. CASE v # w
    <3>1. hand'[v] = hand[v] /\ hand[v] \in HandRecord /\ HandOK(hand[v])
      BY <1>1, <2>2 DEF EnrichInv
    <3>2. PICK q \in HandRecord : q = hand[v] /\ q = hand'[v]
      BY <3>1
    <3>3. HandOK(q)'
      BY <3>1, <3>2, StaysOK
    <3> QED BY <3>2, <3>3 DEF HandOK, Quoted
  <2> QED BY <2>1, <2>2
<1> QED BY <1>1, <1>2

LEMMA EnrichInvInit == EnrichInit => EnrichInv
<1> SUFFICES ASSUME EnrichInit PROVE EnrichInv
  OBVIOUS
<1>1. past \in Seq([Field -> Value])
  <2>1. \A filled \in SUBSET Field :
          [f \in Field |-> IF f \in filled THEN "user" ELSE ""] \in [Field -> Value]
    BY DEF Value
  <2>2. CASE past = <<>>
    BY <2>2
  <2>3. CASE \E filled \in SUBSET Field :
               past = << [f \in Field |-> IF f \in filled THEN "user" ELSE ""] >>
    <3>1. PICK h \in [Field -> Value] : past = <<h>>
      BY <2>1, <2>3
    <3> QED BY <3>1
  <2> QED BY <2>2, <2>3 DEF EnrichInit
<1>2. mirror \in MirrorRecord /\ mirror.html = {} /\ (mirror.row => Len(past) > 0)
  <2>1. PICK linked \in BOOLEAN, known \in BOOLEAN :
          (known => past # <<>>) /\ mirror = MirrorOf(1, linked, known)
    BY DEF EnrichInit
  <2>2. known => past[1] \in [Field -> Value]
    BY <1>1, <2>1
  <2>3. past # <<>> => Len(past) > 0
    BY <1>1
  <2> QED BY <2>1, <2>2, <2>3, BlankFields DEF MirrorOf, MirrorRecord
<1>3. memo \in [SUBSET Field -> RelayReply] /\ \A patch \in SUBSET Field : Quoted(memo[patch])
  BY NoHandIsHand DEF EnrichInit, Quoted
<1>4. hand \in [Hand -> HandRecord] /\ \A w \in Hand : HandOK(hand[w])
  BY NoHandIsHand DEF EnrichInit
<1> QED BY <1>1, <1>2, <1>3, <1>4 DEF EnrichInit, EnrichInv

(* Steps of a handler that touch nothing outside.                          *)
LEMMA QuietStep ==
  ASSUME EnrichInv, NEW w \in Hand, NEW k \in HandRecord, Becomes(w, k), HandOK(k),
         UNCHANGED <<past, siblings, memo, mirror>>
  PROVE  EnrichInv'
<1>1. PastStands
  BY DEF PastStands, EnrichInv
<1>2. hand' \in [Hand -> HandRecord] /\ \A v \in Hand : HandOK(hand[v])'
  BY <1>1, StaysOK, OneHand
<1>3. \A patch \in SUBSET Field : Quoted(memo[patch])'
  BY DEF EnrichInv, Quoted
<1> QED BY <1>2, <1>3 DEF EnrichInv

LEMMA ThinkingSteps ==
  ASSUME EnrichInv, NEW w \in Hand,
         \/ EndAttempt(w) \/ ParentGate(w) \/ RereadParent(w) \/ Search(w)
         \/ PrepareSibling(w) \/ SiblingGate(w)
         \/ \E kind \in {"enrich", "arxiv_html"} : Attempt(w, kind)
  PROVE  EnrichInv' /\ UNCHANGED <<past, siblings, mirror>>
<1> DEFINE now == hand[w]
<1>1. UNCHANGED <<past, siblings, memo, mirror>>
  BY DEF EndAttempt, ParentGate, RereadParent, Search, PrepareSibling, SiblingGate,
     Attempt, OnlyHand
<1>2. /\ now \in HandRecord /\ HandOK(now)
      /\ mirror.row \in BOOLEAN /\ mirror.fields \in [Field -> Value]
      /\ mirror.html \subseteq siblings /\ (mirror.row => Len(past) > 0)
      /\ now.pc \notin {"idle", "ask_parent"} => Len(past) > 0
  BY DEF EnrichInv, MirrorRecord, HandOK
<1> SUFFICES \E k \in HandRecord : Becomes(w, k) /\ HandOK(k)
  BY <1>1, QuietStep
<1>3. CASE EndAttempt(w)
  BY <1>3, NoHandIsHand DEF EndAttempt
<1>4. ASSUME NEW kind \in {"enrich", "arxiv_html"}, Attempt(w, kind)
      PROVE  \E k \in HandRecord : Becomes(w, k) /\ HandOK(k)
  <2>1. CASE mirror.link /\ mirror.row
    <3> DEFINE k == [NoHand EXCEPT !.pc = "search", !.kind = kind, !.linked = TRUE,
                                   !.fields = mirror.fields, !.inMirror = TRUE]
    <3>1. Becomes(w, k)
      BY <1>4, <2>1 DEF Attempt
    <3>2. /\ k \in HandRecord /\ k.reply = NoHand.reply /\ k.created = NoHand.created
          /\ k.pc = "search"
      BY <1>2, NoHandIsHand DEF HandRecord, HandAt
    <3>3. HandOK(k)
      BY <1>2, <2>1, <3>2, NoHandIsHand DEF HandOK
    <3> QED BY <3>1, <3>2, <3>3
  <2>2. CASE ~(mirror.link /\ mirror.row)
    <3> DEFINE k == [NoHand EXCEPT !.pc = "ask_parent", !.kind = kind]
    <3>1. Becomes(w, k)
      BY <1>4, <2>2 DEF Attempt
    <3>2. /\ k \in HandRecord /\ k.reply = NoHand.reply /\ k.created = NoHand.created
          /\ k.pc = "ask_parent"
      BY NoHandIsHand DEF HandRecord, HandAt
    <3>3. HandOK(k)
      BY <3>2, NoHandIsHand DEF HandOK
    <3> QED BY <3>1, <3>2, <3>3
  <2> QED BY <2>1, <2>2
<1>5. CASE ParentGate(w)
  <2> now.pc = "parent_gate"
    BY <1>5 DEF ParentGate, InHand
  <2>1. CASE desktop
    <3> DEFINE k == [now EXCEPT !.pc = "reread"]
    <3>1. Becomes(w, k)
      BY <1>5, <2>1 DEF ParentGate, Goes
    <3>2. k \in HandRecord /\ k.reply = now.reply /\ k.created = now.created /\ k.pc = "reread"
      BY <1>2 DEF HandRecord, HandAt
    <3>3. HandOK(k)
      BY <1>2, <3>2 DEF HandOK
    <3> QED BY <3>1, <3>2, <3>3
  <2>2. CASE ~desktop
    <3> DEFINE k == [now EXCEPT !.pc = "parent_write", !.inMirror = mirror.row]
    <3>1. Becomes(w, k)
      BY <1>5, <2>2 DEF ParentGate
    <3>2. k \in HandRecord /\ k.reply = now.reply /\ k.created = now.created /\ k.pc = "parent_write"
      BY <1>2 DEF HandRecord, HandAt
    <3>3. HandOK(k)
      BY <1>2, <3>2 DEF HandOK
    <3> QED BY <3>1, <3>2, <3>3
  <2> QED BY <2>1, <2>2
<1>6. CASE RereadParent(w)
  <2> now.pc = "reread"
    BY <1>6 DEF RereadParent, InHand
  <2> DEFINE seen == IF mirror.row THEN mirror.fields ELSE Stem
             k == [now EXCEPT !.pc = "search", !.inMirror = mirror.row,
                              !.created = FALSE, !.fields = seen]
  <2>1. Becomes(w, k)
    BY <1>6 DEF RereadParent
  <2>2. seen \in [Field -> Value]
    BY <1>2, BlankFields
  <2> HIDE DEF seen
  <2>3. k \in HandRecord /\ k.reply = now.reply /\ k.created = FALSE /\ k.pc = "search"
    BY <1>2, <2>2 DEF HandRecord, HandAt
  <2>4. HandOK(k)
    BY <1>2, <2>3 DEF HandOK
  <2> QED BY <2>1, <2>3, <2>4
<1>7. CASE Search(w)
  <2> now.pc = "search"
    BY <1>7 DEF Search, InHand
  <2>1. PICK patch \in SUBSET Field :
          Becomes(w, [NoHand EXCEPT !.pc = "ask_patch", !.patch = patch,
                                    !.inMirror = now.inMirror])
    BY <1>7 DEF Search, Patchable
  <2> DEFINE k == [NoHand EXCEPT !.pc = "ask_patch", !.patch = patch,
                                 !.inMirror = now.inMirror]
  <2>2. now.inMirror \in BOOLEAN
    BY <1>2 DEF HandRecord
  <2>3. /\ k \in HandRecord /\ k.reply = NoHand.reply /\ k.created = NoHand.created
        /\ k.pc = "ask_patch"
    BY <2>2, NoHandIsHand DEF HandRecord, HandAt
  <2>4. HandOK(k)
    BY <1>2, <2>3, NoHandIsHand DEF HandOK
  <2> QED BY <2>1, <2>3, <2>4
<1>8. CASE PrepareSibling(w)
  <2> now.pc = "search"
    BY <1>8 DEF PrepareSibling, InHand
  <2>1. PICK n \in 1..MaxTries :
          Becomes(w, [NoHand EXCEPT !.pc = "ask_sibling", !.html = n])
    BY <1>8 DEF PrepareSibling
  <2> n \in Nat
    OBVIOUS
  <2> DEFINE k == [NoHand EXCEPT !.pc = "ask_sibling", !.html = n]
  <2>2. /\ k \in HandRecord /\ k.reply = NoHand.reply /\ k.created = NoHand.created
        /\ k.pc = "ask_sibling"
    BY NoHandIsHand DEF HandRecord, HandAt
  <2>3. HandOK(k)
    BY <1>2, <2>2, NoHandIsHand DEF HandOK
  <2> QED BY <2>1, <2>2, <2>3
<1>9. CASE SiblingGate(w)
  <2> DEFINE k == [now EXCEPT !.pc = "sibling_write"]
  <2>1. Becomes(w, k) /\ now.pc = "sibling_gate"
    BY <1>9 DEF SiblingGate, Goes, InHand
  <2>2. /\ k \in HandRecord /\ k.reply = now.reply /\ k.created = now.created
        /\ k.html = now.html /\ k.pc = "sibling_write"
    BY <1>2 DEF HandRecord, HandAt
  <2>3. HandOK(k)
    BY <1>2, <2>1, <2>2 DEF HandOK
  <2> QED BY <2>1, <2>2, <2>3
<1> QED BY <1>3, <1>4, <1>5, <1>6, <1>7, <1>8, <1>9

(* An answer that arrives is in the hand; one that is lost leaves it.      *)
LEMMA ReplyHand ==
  ASSUME EnrichInv, NEW w \in Hand, NEW r \in HandRecord, NEW next \in HandAt,
         Reply(w, r, next)
  PROVE  \E k \in HandRecord :
           /\ Becomes(w, k)
           /\ \/ /\ k.reply = r.reply /\ k.created = r.created /\ k.html = r.html
                 /\ k.pc = next
              \/ /\ k.reply = hand[w].reply /\ k.created = hand[w].created
                 /\ k.html = hand[w].html /\ k.pc = hand[w].pc
<1>1. CASE Becomes(w, [r EXCEPT !.pc = next, !.sent = 0])
  <2> DEFINE k == [r EXCEPT !.pc = next, !.sent = 0]
  <2>1. /\ k \in HandRecord /\ k.reply = r.reply /\ k.created = r.created
        /\ k.html = r.html /\ k.pc = next
    BY DEF HandRecord
  <2> QED BY <1>1, <2>1
<1>2. CASE Becomes(w, [hand[w] EXCEPT !.sent = hand[w].sent + 1])
  <2> DEFINE k == [hand[w] EXCEPT !.sent = hand[w].sent + 1]
  <2>1. hand[w] \in HandRecord
    BY DEF EnrichInv
  <2>2. /\ k \in HandRecord /\ k.reply = hand[w].reply /\ k.created = hand[w].created
        /\ k.html = hand[w].html /\ k.pc = hand[w].pc
    BY <2>1 DEF HandRecord
  <2> QED BY <1>2, <2>2
<1> QED BY <1>1, <1>2 DEF Reply

(* Steps that leave the mirror alone while the server goes on.             *)
LEMMA ServerStep ==
  ASSUME EnrichInv, PastStands, NEW w \in Hand, NEW k \in HandRecord,
         Becomes(w, k), HandOK(k)', mirror' = mirror,
         memo' \in [SUBSET Field -> RelayReply],
         \A patch \in SUBSET Field : memo'[patch] = memo[patch] \/ Quoted(memo[patch])'
  PROVE  EnrichInv'
<1>1. hand' \in [Hand -> HandRecord] /\ \A v \in Hand : HandOK(hand[v])'
  BY OneHand
<1>2. ASSUME NEW patch \in SUBSET Field PROVE Quoted(memo[patch])'
  <2>1. CASE memo'[patch] = memo[patch]
    <3>1. PICK r \in RelayReply : r = memo[patch] /\ Quoted(r)
      BY DEF EnrichInv
    <3>2. Quoted(r)'
      BY <3>1, StaysOK
    <3> QED BY <2>1, <3>1, <3>2 DEF Quoted
  <2> QED BY <2>1
<1>3. mirror.row => Len(past') > 0
  <2>1. Len(past) \in Nat /\ Len(past') \in Nat /\ Len(past) <= Len(past')
    BY DEF EnrichInv, PastStands
  <2>2. mirror.row => Len(past) > 0
    BY DEF EnrichInv
  <2> QED BY <2>1, <2>2
<1> QED BY <1>1, <1>2, <1>3 DEF EnrichInv, PastStands

LEMMA AppendStands ==
  ASSUME EnrichInv, NEW new \in [Field -> Value], past' = Append(past, new),
         siblings' = siblings
  PROVE  /\ PastStands /\ Len(past)' = Len(past) + 1 /\ past'[Len(past) + 1] = new
         /\ Len(past) \in Nat
BY DEF EnrichInv, PastStands

LEMMA EnsureSteps ==
  ASSUME EnrichInv, NEW w \in Hand, EnsureParent(w)
  PROVE  EnrichInv' /\ siblings' = siblings /\ mirror' = mirror
<1> DEFINE now == hand[w]
<1>1. /\ UNCHANGED <<siblings, memo, mirror>> /\ now \in HandRecord /\ HandOK(now)
      /\ now.pc = "ask_parent"
  BY DEF EnsureParent, EnrichInv, Sendable, InHand
<1>2. PICK created \in BOOLEAN :
        /\ past' = IF past = <<>> THEN <<Stem>> ELSE past
        /\ created => past'[1] = Stem
        /\ Reply(w, [now EXCEPT !.created = created], "parent_gate")
  BY DEF EnsureParent
<1>3. PastStands /\ Len(past') > 0
  <2>1. CASE past = <<>>
    <3>1. past' = <<Stem>> /\ Len(past) = 0
      BY <1>2, <2>1
    <3> QED BY <1>1, <3>1, BlankFields DEF PastStands, EnrichInv
  <2>2. CASE past # <<>>
    BY <1>1, <1>2, <2>2 DEF PastStands, EnrichInv
  <2> QED BY <2>1, <2>2
<1> DEFINE r == [now EXCEPT !.created = created]
<1>4. /\ r \in HandRecord /\ r.reply = now.reply /\ r.created = created
  BY <1>1 DEF HandRecord
<1> HIDE DEF r
<1>5. PICK k \in HandRecord :
        /\ Becomes(w, k)
        /\ \/ /\ k.reply = now.reply /\ k.created = created /\ k.pc = "parent_gate"
           \/ /\ k.reply = now.reply /\ k.created = now.created
              /\ k.html = now.html /\ k.pc = now.pc
  <2>1. "parent_gate" \in HandAt /\ Reply(w, r, "parent_gate")
    BY <1>2 DEF HandAt, r
  <2> QED BY <1>4, <2>1, ReplyHand
<1>6. now.created => past'[1] = Stem
  BY <1>1, <1>2 DEF HandOK
<1>7. HandOK(k)'
  <2>1. Quoted(k.reply)'
    <3>1. PICK q \in RelayReply : q = now.reply /\ Quoted(q)
      BY <1>1 DEF HandRecord, HandOK
    <3>2. Quoted(q)'
      BY <1>3, <3>1, StaysOK
    <3>3. q = k.reply
      BY <1>5, <3>1
    <3> QED BY <3>2, <3>3
  <2>2. k.created => past'[1] = Stem
    BY <1>2, <1>5, <1>6
  <2>3. k.pc \notin {"sibling_gate", "sibling_write"}
    BY <1>1, <1>5
  <2> QED BY <1>3, <2>1, <2>2, <2>3 DEF HandOK
<1> QED BY <1>1, <1>3, <1>5, <1>7, ServerStep DEF EnrichInv

LEMMA PatchSteps ==
  ASSUME EnrichInv, NEW w \in Hand, PatchParent(w)
  PROVE  EnrichInv' /\ siblings' = siblings /\ mirror' = mirror
<1> DEFINE now == hand[w]
           patch == now.patch
           applied == Patchable(Server, patch)
           new == [f \in Field |-> IF f \in applied THEN "found" ELSE Server[f]]
           reply == [applied |-> applied, version |-> Len(past')]
<1>1. /\ UNCHANGED <<siblings, mirror>> /\ now \in HandRecord /\ HandOK(now)
      /\ now.pc = "ask_patch" /\ patch \in SUBSET Field /\ Len(past) > 0
      /\ past \in Seq([Field -> Value]) /\ Len(past) \in Nat
      /\ memo \in [SUBSET Field -> RelayReply] /\ mirror' = mirror
  BY DEF PatchParent, EnrichInv, Sendable, InHand, HandOK, HandRecord
<1>2. "mirror_write" \in HandAt
  BY DEF HandAt
<1>3. ASSUME NEW r \in RelayReply, PastStands, Quoted(r)',
             Reply(w, [now EXCEPT !.reply = r], "mirror_write"),
             memo' \in [SUBSET Field -> RelayReply],
             \A p \in SUBSET Field : memo'[p] = memo[p] \/ Quoted(memo[p])'
      PROVE  EnrichInv'
  <2> DEFINE q == [now EXCEPT !.reply = r]
  <2>1. q \in HandRecord /\ q.reply = r /\ q.created = now.created
    BY <1>1 DEF HandRecord
  <2> HIDE DEF q
  <2>2. PICK k \in HandRecord :
          /\ Becomes(w, k)
          /\ \/ k.reply = r /\ k.created = now.created /\ k.pc = "mirror_write"
             \/ /\ k.reply = now.reply /\ k.created = now.created
                /\ k.html = now.html /\ k.pc = now.pc
    <3>1. Reply(w, q, "mirror_write")
      BY <1>3 DEF q
    <3> QED BY <1>2, <2>1, <3>1, ReplyHand
  <2>3. PICK before \in HandRecord : before = now /\ HandOK(before)
    BY <1>1
  <2>4. HandOK(before)'
    BY <1>3, <2>3, StaysOK
  <2>5. HandOK(k)'
    <3>1. Len(past') > 0
      BY <1>1, <1>3 DEF PastStands
    <3>2. Quoted(k.reply)'
      <4>1. Quoted(before.reply)'
        BY <2>4 DEF HandOK
      <4>2. CASE k.reply = r
        <5>1. \A x \in RelayReply : x = r => Quoted(x)'
          BY <1>3
        <5> QED BY <4>2, <5>1
      <4>3. CASE k.reply = before.reply
        BY <4>1, <4>3
      <4> QED BY <2>2, <2>3, <4>2, <4>3
    <3>3. k.created => past'[1] = Stem
      BY <2>2, <2>3, <2>4 DEF HandOK
    <3>4. k.pc \notin {"sibling_gate", "sibling_write"}
      BY <1>1, <2>2
    <3> QED BY <3>1, <3>2, <3>3, <3>4 DEF HandOK
  <2> QED BY <1>1, <1>3, <2>2, <2>5, ServerStep
<1>4. CASE /\ Reply(w, [now EXCEPT !.reply = memo[patch]], "mirror_write")
           /\ UNCHANGED <<past, memo>>
  <2>1. PastStands
    BY <1>1, <1>4 DEF PastStands, EnrichInv
  <2>2. PICK r \in RelayReply : r = memo[patch] /\ Quoted(r)
    <3>1. memo[patch] \in RelayReply
      BY <1>1
    <3>2. \A p \in SUBSET Field : Quoted(memo[p])
      BY DEF EnrichInv
    <3> HIDE DEF patch
    <3> QED BY <1>1, <3>1, <3>2
  <2>3. Quoted(r)'
    BY <2>1, <2>2, StaysOK
  <2> QED BY <1>1, <1>3, <1>4, <2>1, <2>2, <2>3
<1>5. CASE /\ past' = IF applied = {} THEN past ELSE Append(past, new)
           /\ memo' = [memo EXCEPT ![patch] = reply]
           /\ Reply(w, [now EXCEPT !.reply = reply], "mirror_write")
  <2>1. applied \subseteq Field
    BY <1>1 DEF Patchable
  <2>2. new \in [Field -> Value]
    <3>1. Server \in [Field -> Value]
      BY <1>1 DEF Server
    <3> QED BY <3>1 DEF Value
  <2>3. PastStands /\ (applied # {} => Len(past') = Len(past) + 1 /\ past'[Len(past) + 1] = new)
    <3>1. CASE applied = {}
      BY <1>1, <1>5, <3>1 DEF PastStands, EnrichInv
    <3>2. CASE applied # {}
      <4> HIDE DEF new
      <4> QED BY <1>1, <1>5, <2>2, <3>2, AppendStands
    <3> QED BY <3>1, <3>2
  <2>4. PICK r \in RelayReply : r = reply /\ r.applied = applied /\ r.version = Len(past')
    <3>1. \A a \in SUBSET Field, n \in Nat :
            [applied |-> a, version |-> n] \in RelayReply
      BY DEF RelayReply
    <3>2. applied \in SUBSET Field /\ Len(past') \in Nat
      BY <2>1, <2>3 DEF PastStands
    <3> HIDE DEF applied
    <3>3. reply \in RelayReply
      BY <3>1, <3>2
    <3> QED BY <3>3
  <2>5. Quoted(r)'
    <3> SUFFICES ASSUME applied # {}
                 PROVE  /\ r.version \in 1..Len(past')
                        /\ \A f \in r.applied : past'[r.version][f] = "found"
      BY <2>4 DEF Quoted
    <3>1. \A f \in applied : new[f] = "found"
      BY <2>1
    <3>2. Len(past') = Len(past) + 1 /\ past'[Len(past')] = new
      BY <2>3
    <3> HIDE DEF applied, new
    <3> QED BY <1>1, <2>4, <3>1, <3>2
  <2>6. memo' = [memo EXCEPT ![patch] = r] /\ Reply(w, [now EXCEPT !.reply = r], "mirror_write")
    BY <1>5, <2>4
  <2>7. \A p \in SUBSET Field : memo'[p] = memo[p] \/ memo'[p] = r
    BY <1>1, <2>6
  <2>8. memo' \in [SUBSET Field -> RelayReply]
    BY <1>1, <2>6
  <2>9. \A p \in SUBSET Field : memo'[p] = memo[p] \/ Quoted(memo[p])'
    <3> SUFFICES ASSUME NEW p \in SUBSET Field, memo'[p] # memo[p]
                 PROVE  Quoted(memo[p])'
      BY Zenon
    <3>1. memo'[p] = r
      BY <2>7
    <3> QED BY <2>5, <3>1 DEF Quoted
  <2> QED BY <1>1, <1>3, <2>3, <2>5, <2>6, <2>8, <2>9
<1> QED BY <1>1, <1>4, <1>5 DEF PatchParent

LEMMA SiblingSteps ==
  ASSUME EnrichInv, NEW w \in Hand, CreateSibling(w)
  PROVE  EnrichInv' /\ siblings \subseteq siblings' /\ mirror' = mirror
<1> DEFINE now == hand[w]
<1>1. /\ UNCHANGED <<past, memo, mirror>> /\ now \in HandRecord /\ HandOK(now)
      /\ now.pc = "ask_sibling" /\ siblings' = siblings \cup {now.html}
      /\ Reply(w, now, "sibling_gate") /\ "sibling_gate" \in HandAt
      /\ now.html \in Nat /\ siblings \subseteq Nat
  BY DEF CreateSibling, EnrichInv, Sendable, InHand, HandAt, HandRecord
<1>2. PastStands
  <2>1. past' = past /\ past \in Seq([Field -> Value]) /\ Len(past) \in Nat
    BY <1>1 DEF EnrichInv
  <2>2. siblings \subseteq siblings' /\ siblings' \subseteq Nat
    BY <1>1
  <2> QED BY <2>1, <2>2 DEF PastStands
<1>3. PICK k \in HandRecord :
        /\ Becomes(w, k) /\ k.reply = now.reply /\ k.created = now.created
        /\ k.html = now.html /\ k.pc \in {"sibling_gate", "ask_sibling"}
  BY <1>1, ReplyHand
<1>4. HandOK(k)'
  <2>1. Quoted(k.reply) /\ (k.created => past[1] = Stem) /\ Len(past) > 0
    BY <1>1, <1>3 DEF HandOK
  <2>2. Quoted(k.reply)' /\ k.html \in siblings'
    BY <1>1, <1>3, <2>1 DEF Quoted
  <2> QED BY <1>1, <2>1, <2>2 DEF HandOK
<1> QED BY <1>1, <1>2, <1>3, <1>4, ServerStep DEF EnrichInv

(* What a step writes into the mirror, and that is what the property says  *)
(* of it.                                                                  *)
MirrorStep ==
  /\ mirror'.html \subseteq siblings'
  /\ mirror'.version # mirror.version =>
       \A f \in Field : mirror'.fields[f] # mirror.fields[f] =>
         mirror'.fields[f] = past'[mirror'.version][f]

LEMMA MirrorMove ==
  ASSUME EnrichInv, NEW w \in Hand, Becomes(w, NoHand) \/
           (\E k \in HandRecord : Becomes(w, k) /\ HandOK(k)),
         UNCHANGED <<past, siblings, memo>>, mirror' \in MirrorRecord,
         mirror'.html \subseteq siblings, Len(past) > 0
  PROVE  EnrichInv'
<1>1. PastStands
  BY DEF PastStands, EnrichInv
<1>2. PICK k \in HandRecord : Becomes(w, k) /\ HandOK(k)
  BY NoHandIsHand
<1>3. hand' \in [Hand -> HandRecord] /\ \A v \in Hand : HandOK(hand[v])'
  BY <1>1, <1>2, StaysOK, OneHand
<1>4. \A patch \in SUBSET Field : Quoted(memo[patch])'
  BY DEF EnrichInv, Quoted
<1> QED BY <1>1, <1>3, <1>4 DEF EnrichInv, PastStands

(* sync_ensured_parent_local: version 1 goes with the stem.                *)
LEMMA ParentSteps ==
  ASSUME EnrichInv, NEW w \in Hand, ParentWrite(w) PROVE EnrichInv' /\ MirrorStep
<1> DEFINE now == hand[w]
           m == IF now.inMirror THEN mirror ELSE ParentInserted(mirror, now.created)
           k == [now EXCEPT !.pc = "reread", !.linked = TRUE]
<1>1. /\ UNCHANGED <<past, siblings, memo>> /\ now \in HandRecord /\ HandOK(now)
      /\ now.pc = "parent_write" /\ Becomes(w, k) /\ mirror \in MirrorRecord
      /\ mirror' = [Upserted(m, {"title"}, "stem") EXCEPT !.link = TRUE]
      /\ mirror.html \subseteq siblings
  BY DEF ParentWrite, EnrichInv, InHand
<1>2. Len(past) > 0 /\ (now.created => past[1] = Stem)
  BY <1>1 DEF HandOK
<1>3. /\ m \in MirrorRecord /\ m.html = mirror.html /\ m.fields = mirror.fields
      /\ m.version = mirror.version \/ (now.created /\ m.version = 1)
  <2>1. CASE now.inMirror
    BY <1>1, <2>1
  <2>2. CASE ~now.inMirror /\ now.created
    <3>1. m = [mirror EXCEPT !.row = TRUE, !.synced = TRUE, !.version = 1]
      BY <2>2 DEF ParentInserted
    <3> HIDE DEF m
    <3>2. /\ m \in MirrorRecord /\ m.html = mirror.html
          /\ m.fields = mirror.fields /\ m.version = 1
      BY <1>1, <3>1 DEF MirrorRecord
    <3> QED BY <2>2, <3>2
  <2>3. CASE ~now.inMirror /\ ~now.created
    <3>1. m = [mirror EXCEPT !.row = TRUE, !.synced = TRUE, !.version = mirror.version]
      BY <2>3 DEF ParentInserted
    <3> QED BY <1>1, <2>3, <3>1 DEF MirrorRecord
  <2> QED BY <2>1, <2>2, <2>3
<1> HIDE DEF m
<1>4. /\ mirror' \in MirrorRecord /\ mirror'.html = mirror.html
      /\ mirror'.version = m.version
      /\ \A f \in Field : mirror'.fields[f] = IF f = "title" THEN "stem"
                                              ELSE mirror.fields[f]
  <2> DEFINE written == [f \in Field |-> IF f \in {"title"} THEN "stem" ELSE m.fields[f]]
  <2>1. written \in [Field -> Value]
    BY <1>3 DEF MirrorRecord, Value
  <2>2. \A f \in Field : written[f] = IF f = "title" THEN "stem" ELSE mirror.fields[f]
    BY <1>3
  <2>3. mirror' = [[m EXCEPT !.fields = written] EXCEPT !.link = TRUE]
    BY <1>1 DEF Upserted
  <2> HIDE DEF written
  <2>4. /\ mirror' \in MirrorRecord /\ mirror'.html = m.html
        /\ mirror'.version = m.version /\ mirror'.fields = written
    BY <1>3, <2>1, <2>3 DEF MirrorRecord
  <2> QED BY <1>3, <2>2, <2>4
<1>5. k \in HandRecord /\ HandOK(k)
  <2>1. /\ k \in HandRecord /\ k.pc = "reread" /\ k.reply = now.reply
        /\ k.created = now.created
    BY <1>1 DEF HandRecord, HandAt
  <2> QED BY <1>1, <1>2, <2>1 DEF HandOK
<1> HIDE DEF k
<1>6. EnrichInv'
  BY <1>1, <1>2, <1>4, <1>5, MirrorMove
<1>7. Stem["title"] = "stem"
  BY DEF Stem, Blank, Field
<1>8. MirrorStep
  BY <1>1, <1>2, <1>3, <1>4, <1>7 DEF MirrorStep
<1> QED BY <1>6, <1>8

(* sync_parent_metadata_local: what the relay applied, with its version.   *)
LEMMA MirrorSteps ==
  ASSUME EnrichInv, NEW w \in Hand, MirrorWrite(w) PROVE EnrichInv' /\ MirrorStep
<1> DEFINE now == hand[w]
           reply == now.reply
<1>1. /\ UNCHANGED <<past, siblings, memo>> /\ now \in HandRecord /\ Quoted(reply)
      /\ reply.applied # {} /\ Becomes(w, NoHand) /\ mirror \in MirrorRecord
      /\ mirror' = [Upserted(mirror, reply.applied, "found") EXCEPT
                      !.version = reply.version, !.synced = TRUE]
      /\ mirror.html \subseteq siblings
  BY DEF MirrorWrite, EnrichInv, InHand, HandOK, ToMirror
<1>2. /\ reply \in RelayReply /\ reply.version \in 1..Len(past)
      /\ \A f \in reply.applied : past[reply.version][f] = "found"
  BY <1>1 DEF Quoted, HandRecord
<1>3. Len(past) > 0
  <2>1. Len(past) \in Nat /\ reply.version \in Nat
    BY <1>2 DEF EnrichInv, RelayReply
  <2> QED BY <1>2, <2>1
<1> HIDE DEF reply
<1>4. /\ mirror' \in MirrorRecord /\ mirror'.html = mirror.html
      /\ mirror'.version = reply.version
      /\ \A f \in Field : mirror'.fields[f] = IF f \in reply.applied THEN "found"
                                              ELSE mirror.fields[f]
  <2> DEFINE written == [f \in Field |-> IF f \in reply.applied THEN "found"
                                         ELSE mirror.fields[f]]
  <2>1. written \in [Field -> Value]
    BY <1>1 DEF MirrorRecord, Value
  <2>2. \A f \in Field : written[f] = IF f \in reply.applied THEN "found"
                                      ELSE mirror.fields[f]
    OBVIOUS
  <2>3. mirror' = [[mirror EXCEPT !.fields = written] EXCEPT
                     !.version = reply.version, !.synced = TRUE]
    BY <1>1 DEF Upserted
  <2> HIDE DEF written
  <2>4. reply.version \in Nat
    BY <1>2 DEF RelayReply
  <2>5. /\ mirror' \in MirrorRecord /\ mirror'.html = mirror.html
        /\ mirror'.version = reply.version /\ mirror'.fields = written
    BY <1>1, <2>1, <2>3, <2>4 DEF MirrorRecord
  <2> QED BY <2>2, <2>5
<1>5. EnrichInv'
  BY <1>1, <1>3, <1>4, MirrorMove
<1>6. MirrorStep
  BY <1>1, <1>2, <1>4 DEF MirrorStep
<1> QED BY <1>5, <1>6

LEMMA SiblingWrites ==
  ASSUME EnrichInv, NEW w \in Hand, SiblingWrite(w) PROVE EnrichInv' /\ MirrorStep
<1> DEFINE now == hand[w]
<1>1. /\ UNCHANGED <<past, siblings, memo>> /\ now \in HandRecord /\ HandOK(now)
      /\ now.pc = "sibling_write" /\ Becomes(w, NoHand) /\ mirror \in MirrorRecord
      /\ mirror' = [mirror EXCEPT !.html = mirror.html \cup {now.html}]
      /\ mirror.html \subseteq siblings
  BY DEF SiblingWrite, EnrichInv, InHand
<1>2. now.html \in siblings /\ now.html \in Nat /\ Len(past) > 0
  BY <1>1 DEF HandOK, HandRecord
<1>3. /\ mirror' \in MirrorRecord /\ mirror'.html = mirror.html \cup {now.html}
      /\ mirror'.version = mirror.version
  BY <1>1, <1>2 DEF MirrorRecord
<1>4. EnrichInv'
  BY <1>1, <1>2, <1>3, MirrorMove
<1> QED BY <1>1, <1>2, <1>3, <1>4 DEF MirrorStep

LEMMA UserSteps ==
  ASSUME EnrichInv,
         Toggle \/ Sync \/ (\E f \in Field : EditOnline(f) \/ EditInDesktop(f))
         \/ UNCHANGED evars
  PROVE  EnrichInv' /\ MirrorStep
<1>1. /\ UNCHANGED <<siblings, memo, hand>> /\ mirror \in MirrorRecord
      /\ siblings \subseteq Nat /\ mirror.html \subseteq siblings
      /\ past \in Seq([Field -> Value]) /\ Len(past) \in Nat
  <2>1. UNCHANGED <<siblings, memo, hand>>
    BY DEF Toggle, Sync, EditOnline, EditInDesktop, evars
  <2> QED BY <2>1 DEF EnrichInv
<1>2. ASSUME PastStands, mirror' \in MirrorRecord, mirror'.html \subseteq siblings,
             mirror'.row => Len(past') > 0
      PROVE  EnrichInv'
  <2>1. ASSUME NEW w \in Hand PROVE HandOK(hand[w])'
    <3>1. PICK q \in HandRecord : q = hand[w] /\ HandOK(q)
      BY DEF EnrichInv
    <3>2. HandOK(q)' /\ q = hand'[w]
      BY <1>1, <1>2, <3>1, StaysOK
    <3> QED BY <3>2 DEF HandOK, Quoted
  <2>2. ASSUME NEW patch \in SUBSET Field PROVE Quoted(memo[patch])'
    <3>1. PICK r \in RelayReply : r = memo[patch] /\ Quoted(r)
      BY DEF EnrichInv
    <3>2. Quoted(r)' /\ r = memo'[patch]
      BY <1>1, <1>2, <3>1, StaysOK
    <3> QED BY <3>2 DEF Quoted
  <2> QED BY <1>1, <1>2, <2>1, <2>2 DEF EnrichInv, PastStands
<1>3. past' = past => PastStands
  BY <1>1 DEF PastStands
<1>4. mirror.row => Len(past) > 0
  BY DEF EnrichInv
<1>5. CASE Toggle \/ UNCHANGED evars
  <2>1. past' = past /\ mirror' = mirror
    BY <1>5 DEF Toggle, evars
  <2> QED BY <1>1, <1>2, <1>3, <1>4, <2>1 DEF MirrorStep
<1>6. ASSUME NEW f \in Field, EditOnline(f) PROVE EnrichInv' /\ MirrorStep
  <2>1. /\ past' = Append(past, [Server EXCEPT ![f] = "user"]) /\ mirror' = mirror
        /\ past # <<>>
    BY <1>6 DEF EditOnline
  <2>2. PICK new \in [Field -> Value] : new = [Server EXCEPT ![f] = "user"]
    <3>1. Server \in [Field -> Value]
      BY <1>1, <2>1 DEF Server
    <3> QED BY <3>1 DEF Value
  <2>3. PastStands /\ Len(past') > 0
    <3>1. past' = Append(past, new)
      BY <2>1, <2>2
    <3>2. PastStands /\ Len(past') = Len(past) + 1
      BY <1>1, <3>1, AppendStands
    <3> QED BY <1>1, <3>2
  <2> QED BY <1>1, <1>2, <2>1, <2>3 DEF MirrorStep
<1>7. ASSUME NEW f \in Field, EditInDesktop(f) PROVE EnrichInv' /\ MirrorStep
  <2>1. /\ past' = past /\ mirror.row
        /\ mirror' = [mirror EXCEPT !.fields[f] = "user", !.synced = FALSE]
    BY <1>7 DEF EditInDesktop
  <2>2. PICK edited \in [Field -> Value] : edited = [mirror.fields EXCEPT ![f] = "user"]
    BY <1>1 DEF MirrorRecord, Value
  <2>3. mirror' = [mirror EXCEPT !.fields = edited, !.synced = FALSE]
    BY <1>1, <2>1, <2>2 DEF MirrorRecord
  <2>4. /\ mirror' \in MirrorRecord /\ mirror'.html = mirror.html
        /\ mirror'.version = mirror.version /\ mirror'.row = mirror.row
    BY <1>1, <2>3 DEF MirrorRecord
  <2> QED BY <1>1, <1>2, <1>3, <1>4, <2>1, <2>4 DEF MirrorStep
<1>8. CASE Sync
  <2>1. /\ past # <<>> /\ (past' = past \/ past' = Append(past, mirror.fields))
        /\ mirror' = [link |-> TRUE, row |-> TRUE, fields |-> past'[Len(past')],
                      version |-> Len(past'), synced |-> TRUE, html |-> siblings]
    BY <1>8 DEF Sync
  <2>2. PastStands /\ Len(past') > 0 /\ Len(past') \in Nat
    <3>1. CASE past' = past
      BY <1>1, <1>3, <2>1, <3>1
    <3>2. CASE past' = Append(past, mirror.fields)
      <4>1. mirror.fields \in [Field -> Value]
        BY <1>1 DEF MirrorRecord
      <4> QED BY <1>1, <3>2, <4>1, AppendStands
    <3> QED BY <2>1, <3>1, <3>2
  <2>3. past'[Len(past')] \in [Field -> Value]
    BY <2>2 DEF PastStands
  <2>4. mirror' \in MirrorRecord
    BY <1>1, <2>1, <2>2, <2>3 DEF MirrorRecord
  <2>5. /\ mirror'.html = siblings /\ mirror'.version = Len(past')
        /\ mirror'.fields = past'[Len(past')]
    BY <2>1
  <2> QED BY <1>1, <1>2, <2>2, <2>4, <2>5 DEF MirrorStep
<1> QED BY <1>5, <1>6, <1>7, <1>8

LEMMA EnrichStep ==
  ASSUME EnrichInv, [EnrichNext]_evars PROVE EnrichInv' /\ MirrorStep
<1>1. ASSUME siblings \subseteq siblings', mirror' = mirror PROVE MirrorStep
  BY <1>1 DEF MirrorStep, EnrichInv
<1>2. ASSUME NEW w \in Hand,
             \/ EndAttempt(w) \/ ParentGate(w) \/ RereadParent(w) \/ Search(w)
             \/ PrepareSibling(w) \/ SiblingGate(w)
             \/ \E kind \in {"enrich", "arxiv_html"} : Attempt(w, kind)
             \/ EnsureParent(w) \/ PatchParent(w) \/ CreateSibling(w)
      PROVE  EnrichInv' /\ MirrorStep
  BY <1>1, <1>2, ThinkingSteps, EnsureSteps, PatchSteps, SiblingSteps
<1>3. ASSUME NEW w \in Hand, ParentWrite(w) \/ MirrorWrite(w) \/ SiblingWrite(w)
      PROVE  EnrichInv' /\ MirrorStep
  BY <1>3, ParentSteps, MirrorSteps, SiblingWrites
<1> QED BY <1>2, <1>3, UserSteps DEF EnrichNext

(* MirrorQuotesServer: whenever the parent in zotero.sqlite moves to another *)
(* version, every field that changes with it is what the server had in that *)
(* version, and every HTML it shows is on the server, whatever is retried,  *)
(* remembered, edited or synced meanwhile.                                  *)
THEOREM MirrorQuotesServerAlways == EnrichSpec => MirrorQuotesServer
<1>1. EnrichInv /\ [EnrichNext]_evars => EnrichInv'
  BY EnrichStep
<1>2. EnrichInv /\ [EnrichNext]_evars =>
        [ /\ mirror'.html \subseteq siblings'
          /\ mirror'.version # mirror.version =>
               \A f \in Field : mirror'.fields[f] # mirror.fields[f] =>
                 mirror'.fields[f] = past'[mirror'.version][f] ]_evars
  BY EnrichStep DEF MirrorStep
<1> QED BY <1>1, <1>2, EnrichInvInit, PTL DEF EnrichSpec, MirrorQuotesServer

-----------------------------------------------------------------------------
(* ProviderHttp.  What a request was sent on from bounds what it is sent on *)
(* to, and the addresses that are dialled are those that were allowed.      *)
SentOn(c) ==
  /\ c.secret => \A i \in DOMAIN c.trail : c.trail[i] = c.url
  /\ \A i \in DOMAIN c.trail : c.trail[i].scheme = "https" => c.url.scheme = "https"
  /\ \A i, j \in DOMAIN c.trail :
       i < j /\ c.trail[i].scheme = "https" => c.trail[j].scheme = "https"
  /\ Len(c.trail) <= RedirectLimit(c.asker) + 1
  /\ c.pc = "resolving" => Len(c.trail) <= RedirectLimit(c.asker)
  /\ c.asker = "arxiv" =>
       /\ c.url.site \in ArxivSite
       /\ \A i \in DOMAIN c.trail : c.trail[i].site \in ArxivSite
  /\ c.asker # "server" =>
       c.reached \subseteq OpenAddress /\ c.pinned \subseteq OpenAddress
GoodCall(c) == c = NoCall \/ (c \in UnderWay /\ SentOn(c))

Hushed == \A h \in Site : hushed[h] <= cooldown[h]
HttpInv == HttpTypeOK /\ Hushed /\ \A f \in Fetcher : GoodCall(call[f])

LEMMA NoCallIsIdle == NoCall.pc = "idle"
BY DEF NoCall

(* What is under way is a record of that kind.                              *)
LEMMA CallUnderWay ==
  ASSUME HttpInv, NEW f \in Fetcher, call[f].pc # "idle"
  PROVE  call[f] \in UnderWay /\ SentOn(call[f])
BY NoCallIsIdle DEF HttpInv, GoodCall

(* A step of one thread, the clock and the throttle as they are.            *)
LEMMA OneCallKeeps ==
  ASSUME HttpInv, NEW f \in Fetcher, NEW c, GoodCall(c),
         call' = [call EXCEPT ![f] = c],
         UNCHANGED <<cooldown, second, hushed>>, lastSlot' \in [Site -> Int]
  PROVE  HttpInv'
<1>1. call' \in [Fetcher -> UnderWay \cup {NoCall}]
  BY DEF HttpInv, HttpTypeOK, GoodCall
<1>2. \A g \in Fetcher : GoodCall(call'[g])
  BY DEF HttpInv, HttpTypeOK
<1>3. HttpTypeOK'
  BY <1>1 DEF HttpInv, HttpTypeOK
<1>4. Hushed'
  BY DEF HttpInv, Hushed
<1> QED BY <1>2, <1>3, <1>4 DEF HttpInv, GoodCall, SentOn

LEMMA EndsKeeps ==
  ASSUME HttpInv, NEW f \in Fetcher, Ends(f),
         UNCHANGED <<lastSlot, cooldown, second, hushed>>
  PROVE  HttpInv'
<1>1. GoodCall(NoCall)
  BY DEF GoodCall
<1>2. lastSlot' \in [Site -> Int]
  BY DEF HttpInv, HttpTypeOK
<1> QED BY <1>1, <1>2, OneCallKeeps DEF Ends

(* A step that changes where a request is and what it waits for alone.      *)
LEMMA SamePath ==
  ASSUME NEW c \in UnderWay, SentOn(c), NEW d \in UnderWay,
         d.trail = c.trail, d.url = c.url, d.asker = c.asker,
         d.secret = c.secret, d.reached \subseteq c.reached \cup c.pinned,
         d.pinned \subseteq c.pinned,
         d.pc # "resolving"
  PROVE  GoodCall(d)
BY DEF GoodCall, SentOn

LEMMA AsksForStep ==
  ASSUME HttpInv, NEW f \in Fetcher, AsksFor(f)
  PROVE  HttpInv'
<1>1. PICK asker \in Asker, url \in Url :
       /\ asker \in {"lookup", "arxiv"} => url.scheme = "https"
       /\ asker = "arxiv" => url.site \in ArxivSite
       /\ call' = [call EXCEPT ![f] =
            [pc |-> "resolving", asker |-> asker, url |-> url,
             secret |-> asker = "lookup", trail |-> <<>>, pinned |-> {},
             reached |-> {}, wake |-> 0, owed |-> 0]]
  BY DEF AsksFor
<1> DEFINE c == [pc |-> "resolving", asker |-> asker, url |-> url,
                 secret |-> asker = "lookup", trail |-> <<>>, pinned |-> {},
                 reached |-> {}, wake |-> 0, owed |-> 0]
<1>2. c \in UnderWay
  BY DEF UnderWay
<1>3. RedirectLimit(asker) \in Nat
  BY HttpAssumption DEF RedirectLimit
<1>4. SentOn(c)
  BY <1>1, <1>3 DEF SentOn
<1>5. lastSlot' \in [Site -> Int]
  BY DEF AsksFor, HttpInv, HttpTypeOK
<1> QED BY <1>1, <1>2, <1>4, <1>5, OneCallKeeps DEF GoodCall, AsksFor

LEMMA ResolveStep ==
  ASSUME HttpInv, NEW f \in Fetcher, Resolve(f)
  PROVE  HttpInv'
<1>1. call[f] \in UnderWay /\ SentOn(call[f]) /\ call[f].pc = "resolving"
  BY CallUnderWay DEF Resolve
<1>2. CASE Ends(f)
  BY <1>2, EndsKeeps DEF Resolve
<1>3. ASSUME NEW answer \in SUBSET Peer,
             \A peer \in answer : MayReach(call[f].asker, peer),
             call' = [call EXCEPT
              ![f].pc = IF Throttled(call[f].asker) THEN "waiting" ELSE "dialling",
              ![f].pinned = answer, ![f].trail = Append(@, call[f].url)]
      PROVE  HttpInv'
  <2> DEFINE pc == IF Throttled(call[f].asker) THEN "waiting" ELSE "dialling"
             c == [call[f] EXCEPT !.pc = pc, !.pinned = answer,
                                  !.trail = Append(@, call[f].url)]
             t == call[f].trail
  <2>1. call' = [call EXCEPT ![f] = c]
    BY <1>3
  <2>2. t \in Seq(Url) /\ call[f].url \in Url
    BY <1>1 DEF UnderWay
  <2>3. /\ Append(t, call[f].url) \in Seq(Url)
        /\ Len(Append(t, call[f].url)) = Len(t) + 1 /\ Len(t) \in Nat
        /\ DOMAIN t = 1..Len(t)
        /\ DOMAIN Append(t, call[f].url) = 1..(Len(t) + 1)
        /\ \A i \in 1..Len(t) : Append(t, call[f].url)[i] = t[i]
        /\ Append(t, call[f].url)[Len(t) + 1] = call[f].url
    BY <2>2
  <2>4. c \in UnderWay
    BY <1>1, <2>3 DEF UnderWay
  <2>5. /\ c.trail = Append(t, call[f].url) /\ c.url = call[f].url
        /\ c.asker = call[f].asker /\ c.secret = call[f].secret
        /\ c.reached = call[f].reached /\ c.pinned = answer /\ c.pc # "resolving"
    BY <1>1 DEF UnderWay
  <2>6. \A i \in DOMAIN c.trail : i \in 1..Len(t) \/ i = Len(t) + 1
    BY <2>3, <2>5
  <2>7. c.secret => \A i \in DOMAIN c.trail : c.trail[i] = c.url
    BY <1>1, <2>3, <2>5, <2>6 DEF SentOn
  <2>8. \A i \in DOMAIN c.trail :
          c.trail[i].scheme = "https" => c.url.scheme = "https"
    BY <1>1, <2>3, <2>5, <2>6 DEF SentOn
  <2>9. \A i, j \in DOMAIN c.trail :
          i < j /\ c.trail[i].scheme = "https" => c.trail[j].scheme = "https"
    <3> SUFFICES ASSUME NEW i \in DOMAIN c.trail, NEW j \in DOMAIN c.trail,
                        i < j, c.trail[i].scheme = "https"
                 PROVE  c.trail[j].scheme = "https"
      OBVIOUS
    <3>1. CASE j = Len(t) + 1
      BY <3>1, <2>3, <2>5, <2>8
    <3>2. CASE j \in 1..Len(t)
      <4>1. i \in 1..Len(t)
        BY <3>2, <2>3, <2>5, <2>6
      <4>2. c.trail[i] = t[i] /\ c.trail[j] = t[j]
        BY <4>1, <3>2, <2>3, <2>5
      <4> QED BY <4>1, <4>2, <3>2, <1>1, <2>3 DEF SentOn
    <3> QED BY <3>1, <3>2, <2>6
  <2>10. Len(c.trail) <= RedirectLimit(c.asker) + 1
    <3>1. RedirectLimit(call[f].asker) \in Nat
      BY HttpAssumption DEF RedirectLimit
    <3>2. Len(t) <= RedirectLimit(call[f].asker)
      BY <1>1 DEF SentOn
    <3> QED BY <3>1, <3>2, <2>3, <2>5
  <2>11. c.asker = "arxiv" =>
           /\ c.url.site \in ArxivSite
           /\ \A i \in DOMAIN c.trail : c.trail[i].site \in ArxivSite
    BY <1>1, <2>3, <2>5, <2>6 DEF SentOn
  <2>12. c.asker # "server" =>
           c.reached \subseteq OpenAddress /\ c.pinned \subseteq OpenAddress
    BY <1>1, <1>3, <2>5 DEF SentOn, MayReach
  <2>13. SentOn(c)
    BY <2>5, <2>7, <2>8, <2>9, <2>10, <2>11, <2>12 DEF SentOn
  <2>14. lastSlot' \in [Site -> Int]
    BY DEF Resolve, HttpInv, HttpTypeOK
  <2> QED BY <2>1, <2>4, <2>13, <2>14, OneCallKeeps DEF GoodCall, Resolve
<1> QED BY <1>2, <1>3 DEF Resolve

LEMMA WaitingSteps ==
  ASSUME HttpInv, NEW f \in Fetcher, TakeSlot(f) \/ Wake(f)
  PROVE  HttpInv'
<1>1. call[f] \in UnderWay /\ SentOn(call[f])
  BY CallUnderWay DEF TakeSlot, Wake
<1>2. second \in Nat /\ lastSlot \in [Site -> Int] /\ cooldown \in [Site -> Nat]
      /\ call[f].url.site \in Site
  BY <1>1 DEF HttpInv, HttpTypeOK, UnderWay, Url
<1>3. CASE Moves(f, "dialling")
           /\ lastSlot' = [lastSlot EXCEPT ![call[f].url.site] = second]
           /\ UNCHANGED <<cooldown, second, hushed>>
  <2> DEFINE c == [call[f] EXCEPT !.pc = "dialling"]
  <2>1. call' = [call EXCEPT ![f] = c] /\ c \in UnderWay
    BY <1>1, <1>3 DEF Moves, UnderWay
  <2>2. GoodCall(c)
    <3>1. /\ c.trail = call[f].trail /\ c.url = call[f].url
          /\ c.asker = call[f].asker /\ c.secret = call[f].secret
          /\ c.reached = call[f].reached /\ c.pinned = call[f].pinned
          /\ c.pc # "resolving"
      BY <1>1 DEF UnderWay
    <3> QED BY <3>1, <2>1, <1>1, SamePath
  <2>3. lastSlot' \in [Site -> Int]
    BY <1>2, <1>3
  <2> QED BY <1>3, <2>1, <2>2, <2>3, OneCallKeeps
<1>4. ASSUME NEW pc \in {"waiting", "asleep"}, NEW t \in Nat,
             call' = [call EXCEPT ![f].pc = pc, ![f].wake = t],
             UNCHANGED <<lastSlot, cooldown, second, hushed>>
      PROVE  HttpInv'
  <2> DEFINE c == [call[f] EXCEPT !.pc = pc, !.wake = t]
  <2>1. call' = [call EXCEPT ![f] = c] /\ c \in UnderWay
    BY <1>1, <1>4 DEF UnderWay
  <2>2. GoodCall(c)
    <3>1. /\ c.trail = call[f].trail /\ c.url = call[f].url
          /\ c.asker = call[f].asker /\ c.secret = call[f].secret
          /\ c.reached = call[f].reached /\ c.pinned = call[f].pinned
          /\ c.pc # "resolving"
      BY <1>1 DEF UnderWay
    <3> QED BY <3>1, <2>1, <1>1, SamePath
  <2> QED BY <1>2, <1>4, <2>1, <2>2, OneCallKeeps
<1>5. second < FreeFrom(call[f].url.site) => FreeFrom(call[f].url.site) \in Nat
  BY <1>2, HttpAssumption DEF FreeFrom, Later
<1>6. second >= FreeFrom(call[f].url.site) \/ second < FreeFrom(call[f].url.site)
  BY <1>2, HttpAssumption DEF FreeFrom, Later
<1>7. CASE TakeSlot(f)
  <2>1. CASE second >= FreeFrom(call[f].url.site)
    BY <2>1, <1>7, <1>3 DEF TakeSlot
  <2>2. CASE ~(second >= FreeFrom(call[f].url.site))
    BY <2>2, <1>7, <1>4, <1>5, <1>6 DEF TakeSlot
  <2> QED BY <2>1, <2>2
<1>8. CASE Wake(f)
  BY <1>8, <1>4 DEF Wake
<1> QED BY <1>7, <1>8

LEMMA DialStep ==
  ASSUME HttpInv, NEW f \in Fetcher, DialPinned(f)
  PROVE  HttpInv'
<1>1. call[f] \in UnderWay /\ SentOn(call[f])
  BY CallUnderWay DEF DialPinned
<1>2. CASE Ends(f)
  BY <1>2, EndsKeeps DEF DialPinned
<1>3. ASSUME NEW peer \in call[f].pinned,
             call' = [call EXCEPT ![f].pc = "answered", ![f].pinned = {},
                                  ![f].reached = @ \cup {peer}]
      PROVE  HttpInv'
  <2> DEFINE c == [call[f] EXCEPT !.pc = "answered", !.pinned = {},
                                  !.reached = @ \cup {peer}]
  <2>1. call' = [call EXCEPT ![f] = c] /\ c \in UnderWay
    BY <1>1, <1>3 DEF UnderWay
  <2>2. GoodCall(c)
    <3>1. /\ c.trail = call[f].trail /\ c.url = call[f].url
          /\ c.asker = call[f].asker /\ c.secret = call[f].secret
          /\ c.reached = call[f].reached \cup {peer} /\ c.pinned = {}
          /\ c.pc # "resolving"
      BY <1>1 DEF UnderWay
    <3> QED BY <3>1, <2>1, <1>1, SamePath
  <2>3. lastSlot' \in [Site -> Int]
    BY DEF DialPinned, HttpInv, HttpTypeOK
  <2> QED BY <2>1, <2>2, <2>3, OneCallKeeps DEF DialPinned
<1> QED BY <1>2, <1>3 DEF DialPinned

(* A silence is never taken back: what is announced adds to what stands.    *)
LEMMA SilenceStands ==
  ASSUME HttpInv, NEW site \in Site, NEW seconds \in Nat, SetCooldown(site, seconds)
  PROVE  /\ Hushed'
         /\ cooldown' \in [Site -> Nat] /\ hushed' \in [Site -> Nat]
BY DEF HttpInv, HttpTypeOK, Hushed, SetCooldown, SilentUntil, Later

LEMMA RefusalKeeps ==
  ASSUME HttpInv, NEW f \in Fetcher, NEW site \in Site, NEW seconds \in Nat,
         SetCooldown(site, seconds), NEW c, GoodCall(c),
         call' = [call EXCEPT ![f] = c], UNCHANGED <<lastSlot, second>>
  PROVE  HttpInv'
<1>1. call' \in [Fetcher -> UnderWay \cup {NoCall}]
  BY DEF HttpInv, HttpTypeOK, GoodCall
<1>2. \A g \in Fetcher : GoodCall(call'[g])
  BY DEF HttpInv, HttpTypeOK
<1>3. HttpTypeOK' /\ Hushed'
  BY <1>1, SilenceStands DEF HttpInv, HttpTypeOK
<1> QED BY <1>2, <1>3 DEF HttpInv, GoodCall, SentOn

LEMMA RefuseStep ==
  ASSUME HttpInv, NEW f \in Fetcher, Refuse(f)
  PROVE  HttpInv'
<1>1. call[f] \in UnderWay /\ SentOn(call[f])
  BY CallUnderWay DEF Refuse
<1>2. PICK seconds \in 0..MaxRetryAfter :
       /\ SetCooldown(call[f].url.site, seconds)
       /\ IF Reporting(call[f].asker)
          THEN call' = [call EXCEPT ![f].pc = "reporting", ![f].owed = seconds]
          ELSE Ends(f)
  BY DEF Refuse
<1>3. call[f].url.site \in Site /\ seconds \in Nat
  BY <1>1, HttpAssumption DEF UnderWay, Url
<1>4. CASE Ends(f)
  <2>1. GoodCall(NoCall)
    BY DEF GoodCall
  <2> QED BY <1>2, <1>3, <1>4, <2>1, RefusalKeeps DEF Ends, Refuse
<1>5. CASE call' = [call EXCEPT ![f].pc = "reporting", ![f].owed = seconds]
  <2> DEFINE c == [call[f] EXCEPT !.pc = "reporting", !.owed = seconds]
  <2>1. call' = [call EXCEPT ![f] = c] /\ c \in UnderWay
    BY <1>1, <1>3, <1>5 DEF UnderWay
  <2>2. GoodCall(c)
    <3>1. /\ c.trail = call[f].trail /\ c.url = call[f].url
          /\ c.asker = call[f].asker /\ c.secret = call[f].secret
          /\ c.reached = call[f].reached /\ c.pinned = call[f].pinned
          /\ c.pc # "resolving"
      BY <1>1 DEF UnderWay
    <3> QED BY <3>1, <2>1, <1>1, SamePath
  <2> QED BY <1>2, <1>3, <2>1, <2>2, RefusalKeeps DEF Refuse
<1> QED BY <1>2, <1>4, <1>5

LEMMA ReportStep ==
  ASSUME HttpInv, NEW f \in Fetcher, Report(f)
  PROVE  HttpInv'
<1>1. call[f] \in UnderWay
  BY CallUnderWay DEF Report
<1>2. PICK seconds \in 0..call[f].owed : SetCooldown(call[f].url.site, seconds)
  BY DEF Report
<1>3. call[f].url.site \in Site /\ seconds \in Nat
  BY <1>1 DEF UnderWay, Url
<1>4. GoodCall(NoCall)
  BY DEF GoodCall
<1> QED BY <1>2, <1>3, <1>4, RefusalKeeps DEF Ends, Report

LEMMA RedirectStep ==
  ASSUME HttpInv, NEW f \in Fetcher, Redirect(f)
  PROVE  HttpInv'
<1>1. call[f] \in UnderWay /\ SentOn(call[f])
  BY CallUnderWay DEF Redirect
<1>2. PICK target \in Url :
       /\ call[f].url.scheme = "https" => target.scheme = "https"
       /\ call[f].asker = "arxiv" => {call[f].url.site, target.site} \subseteq ArxivSite
       /\ call' = [call EXCEPT ![f].pc = "resolving", ![f].url = target,
                               ![f].secret = @ /\ target = call[f].url]
  BY DEF Redirect
<1> DEFINE c == [call[f] EXCEPT !.pc = "resolving", !.url = target,
                                !.secret = @ /\ target = call[f].url]
<1>3. call' = [call EXCEPT ![f] = c]
  BY <1>2
<1>4. /\ c.trail = call[f].trail /\ c.url = target /\ c.asker = call[f].asker
      /\ c.secret = (call[f].secret /\ target = call[f].url)
      /\ c.reached = call[f].reached /\ c.pinned = call[f].pinned
      /\ c.pc = "resolving" /\ c.wake = call[f].wake /\ c.owed = call[f].owed
  BY <1>1 DEF UnderWay
<1>5. c \in UnderWay
  BY <1>1, <1>4 DEF UnderWay
<1>6. SentOn(c)
  <2>1. Len(c.trail) <= RedirectLimit(c.asker)
    BY <1>4 DEF Redirect
  <2>2. c.secret => \A i \in DOMAIN c.trail : c.trail[i] = c.url
    BY <1>1, <1>4 DEF SentOn
  <2>3. \A i \in DOMAIN c.trail :
          c.trail[i].scheme = "https" => c.url.scheme = "https"
    BY <1>1, <1>2, <1>4 DEF SentOn
  <2>4. RedirectLimit(c.asker) \in Nat /\ Len(c.trail) \in Nat
    BY <1>5, HttpAssumption DEF RedirectLimit, UnderWay
  <2>5. c.asker = "arxiv" => c.url.site \in ArxivSite
    BY <1>2, <1>4
  <2> QED BY <1>1, <1>4, <2>1, <2>2, <2>3, <2>4, <2>5 DEF SentOn
<1>7. lastSlot' \in [Site -> Int]
  BY DEF Redirect, HttpInv, HttpTypeOK
<1> QED BY <1>3, <1>5, <1>6, <1>7, OneCallKeeps DEF GoodCall, Redirect

LEMMA HttpInvInit == HttpInit => HttpInv
<1> SUFFICES ASSUME HttpInit PROVE HttpInv
  OBVIOUS
<1>1. HttpTypeOK
  BY HttpAssumption DEF HttpInit, HttpTypeOK
<1>2. Hushed
  BY DEF HttpInit, Hushed
<1> QED BY <1>1, <1>2 DEF HttpInv, HttpInit, GoodCall

LEMMA HttpInvStep == HttpInv /\ [HttpNext]_tvars => HttpInv'
<1> SUFFICES ASSUME HttpInv, [HttpNext]_tvars PROVE HttpInv'
  OBVIOUS
<1>1. CASE PassSecond \/ UNCHANGED tvars
  <2>1. HttpTypeOK'
    <3>1. second' \in Nat
      BY <1>1 DEF PassSecond, tvars, HttpInv, HttpTypeOK
    <3>2. UNCHANGED <<call, lastSlot, cooldown, hushed>>
      BY <1>1 DEF PassSecond, tvars
    <3> QED BY <3>1, <3>2 DEF HttpInv, HttpTypeOK, UnderWay
  <2> QED BY <1>1, <2>1 DEF PassSecond, tvars, HttpInv, Hushed, GoodCall, SentOn
<1>2. ASSUME NEW f \in Fetcher, Fetches(f) PROVE HttpInv'
  <2>1. CASE Finish(f)
    BY <2>1, EndsKeeps DEF Finish
  <2> QED BY <1>2, <2>1, AsksForStep, ResolveStep, WaitingSteps, DialStep,
             RefuseStep, ReportStep, RedirectStep DEF Fetches
<1> QED BY <1>1, <1>2 DEF HttpNext

(* A thread that waits is given a slot by its own turn only.                *)
LEMMA SlotByTurn ==
  ASSUME HttpInv, HttpNext, NEW f \in Fetcher,
         call[f].pc \in {"waiting", "asleep"}, call'[f].pc = "dialling"
  PROVE  second >= FreeFrom(call[f].url.site)
<1>1. call \in [Fetcher -> UnderWay \cup {NoCall}] /\ call[f] \in UnderWay
  BY CallUnderWay DEF HttpInv, HttpTypeOK
<1>2. PICK g \in Fetcher : Fetches(g)
  BY DEF HttpNext, PassSecond
<1>3. g = f
  BY <1>1, <1>2 DEF Fetches, AsksFor, Resolve, TakeSlot, Wake, DialPinned, Finish,
     Refuse, Report, Redirect, Ends, Moves
<1>4. CASE TakeSlot(f)
  BY <1>1, <1>4 DEF TakeSlot, UnderWay
<1>5. CASE Wake(f)
  BY <1>1, <1>5 DEF Wake, UnderWay
<1> QED BY <1>1, <1>2, <1>3, <1>4, <1>5, NoCallIsIdle
        DEF Fetches, AsksFor, Resolve, DialPinned, Finish, Refuse, Report, Redirect

(* Every variable of the requests keeps its type.                           *)
THEOREM HttpTypeCorrect == HttpSpec => []HttpTypeOK
<1>1. HttpInv => HttpTypeOK
  BY DEF HttpInv
<1> QED BY <1>1, HttpInvInit, HttpInvStep, PTL DEF HttpSpec

(* However often a request is sent on, its key, its encryption, its host    *)
(* and its address stay what they may be, and no slot is given in a silence *)
(* or too soon after the last.                                              *)
THEOREM RequestsSoundAlways == HttpSpec => RequestsSound
<1>1. HttpInv => TrailSound
  BY DEF HttpInv, GoodCall, SentOn, TrailSound
<1>2. HttpInv /\ [HttpNext]_tvars =>
        [\A f \in Fetcher :
           (call[f] # NoCall /\ call[f].pc \in {"waiting", "asleep"}
              /\ call'[f] # NoCall /\ call'[f].pc = "dialling") =>
             LET site == call[f].url.site IN
             second >= hushed[site] /\ second >= lastSlot[site] + Gap[site]]_tvars
  <2> SUFFICES ASSUME HttpInv, HttpNext, NEW f \in Fetcher,
                      call[f].pc \in {"waiting", "asleep"}, call'[f].pc = "dialling"
               PROVE  /\ second >= hushed[call[f].url.site]
                      /\ second >= lastSlot[call[f].url.site] + Gap[call[f].url.site]
    OBVIOUS
  <2>1. second >= FreeFrom(call[f].url.site)
    BY SlotByTurn
  <2>2. call[f].url.site \in Site
    BY CallUnderWay DEF UnderWay, Url
  <2> QED BY <2>1, <2>2, HttpAssumption
          DEF HttpInv, HttpTypeOK, Hushed, FreeFrom, Later
<1> QED BY <1>1, <1>2, HttpInvInit, HttpInvStep, PTL
        DEF HttpSpec, RequestsSound, SlotsSpaced
=============================================================================
