------------------------------- MODULE Repolish -------------------------------
(* bulk_repolish_source_html.py on one source HTML attachment: processes of *)
(* one run directory, started one after another with --resume or beside     *)
(* each other, polish the file, have the relay upload it, put it in place   *)
(* and enter the new version in zotero.sqlite.  Zotero Desktop syncs, the   *)
(* file is saved and the attachment replaced from elsewhere meanwhile, and  *)
(* a process may stop anywhere.                                             *)
EXTENDS Integers, Sequences

CONSTANTS
  Process,
  Text,        \* what an HTML file may say
  Missing,
  Skipping,    \* --skip-unchanged, as the processes are started
  MaxStarts,   \* bound: how often a process takes up the attachment
  MaxForeign   \* bound: files saved, attachments replaced from elsewhere

(* Polishing what is polished changes nothing.                              *)
HtmlFile == [text : Text, polished : BOOLEAN]
Polished(html) == [html EXCEPT !.polished = TRUE]

ASSUME RepolishAssumption ==
  /\ Missing \notin HtmlFile /\ Skipping \subseteq BOOLEAN
  /\ MaxStarts \in Nat
  /\ MaxForeign \in Nat

VARIABLES
  server,     \* what the library held, by version
  row,        \* the attachment in zotero.sqlite
  file,       \* the file in the storage
  original_copy,     \* the copy in the run directory
  remembered, \* the relay's answers, by what was uploaded
  polishing,       \* per process, where it is with the attachment
  results,    \* the records with ok in results.jsonl
  starts, foreign

rvars == <<server, row, file, original_copy, remembered, polishing, results, starts, foreign>>

NewestVersion == Len(server)
(* A row waits for its file when Zotero has seen a new version.             *)
AttachmentRow == [version : Nat, html : HtmlFile, waits : BOOLEAN]
ReplaceAnswer == [previous : Nat, new : Nat, html : HtmlFile]
NotPolishing == [pc |-> "idle"]
PolishJob ==
  {NotPolishing}
    \cup [pc : {"hash"}, version : Nat, skip : BOOLEAN]
    \cup [pc : {"polish"}, version : Nat, skip : BOOLEAN, before : HtmlFile]
    \cup [pc : {"compare", "back_up", "put"}, version : Nat, skip : BOOLEAN,
          before : HtmlFile, tmp : HtmlFile]
    \cup [pc : {"replace", "sync"}, version : Nat, skip : BOOLEAN,
          before : HtmlFile, tmp : HtmlFile, answer : ReplaceAnswer]
RepolishTypeOK ==
  /\ server \in Seq(HtmlFile) /\ server # <<>>
  /\ row \in AttachmentRow /\ file \in HtmlFile /\ original_copy \in HtmlFile \cup {Missing}
  /\ DOMAIN remembered \subseteq HtmlFile
  /\ \A h \in DOMAIN remembered : remembered[h] \in ReplaceAnswer
  /\ polishing \in [Process -> PolishJob]
  /\ results \subseteq {"unchanged", "uploaded"}
  /\ starts \in Nat /\ foreign \in Nat

RepolishInit ==
  /\ \E h \in HtmlFile : /\ server = <<h>> /\ file = h
                      /\ row = [version |-> 1, html |-> h, waits |-> FALSE]
  /\ original_copy = Missing /\ results = {} /\ starts = 0 /\ foreign = 0
  /\ remembered = [h \in {} |-> NotPolishing]
  /\ polishing = [p \in Process |-> NotPolishing]

---------------------------------------------------------------------------
PolisherAt(p, pc) == polishing[p].pc = pc
PolisherIs(p, job) == polishing' = [polishing EXCEPT ![p] = job]

(* The attachment is found with its version; one with a record is passed    *)
(* over.                                                                    *)
TakeUpAttachment(p) ==
  /\ PolisherAt(p, "idle") /\ results = {} /\ starts < MaxStarts
  /\ \E skip \in Skipping :
       PolisherIs(p, [pc |-> "hash", version |-> row.version, skip |-> skip])
  /\ starts' = starts + 1
  /\ UNCHANGED <<server, row, file, original_copy, remembered, results, foreign>>

HashFile(p) ==
  /\ PolisherAt(p, "hash")
  /\ PolisherIs(p, [pc |-> "polish", version |-> polishing[p].version, skip |-> polishing[p].skip,
                 before |-> file])
  /\ UNCHANGED <<server, row, file, original_copy, remembered, results, starts, foreign>>

(* The file is read again to be polished; the result is a file beside it.   *)
PolishFile(p) ==
  /\ PolisherAt(p, "polish")
  /\ PolisherIs(p, [pc |-> "compare", version |-> polishing[p].version, skip |-> polishing[p].skip,
                 before |-> polishing[p].before, tmp |-> Polished(file)])
  /\ UNCHANGED <<server, row, file, original_copy, remembered, results, starts, foreign>>

UnchangedInText(p) == polishing[p].skip /\ polishing[p].before.text = polishing[p].tmp.text
UnchangedFile(p) == polishing[p].skip /\ polishing[p].before = polishing[p].tmp

CompareFiles(p) ==
  /\ PolisherAt(p, "compare")
  /\ IF UnchangedFile(p)
     THEN PolisherIs(p, NotPolishing) /\ results' = results \cup {"unchanged"}
     ELSE PolisherIs(p, [polishing[p] EXCEPT !.pc = "back_up"]) /\ UNCHANGED results
  /\ UNCHANGED <<server, row, file, original_copy, remembered, starts, foreign>>

(* The copy of an earlier attempt is written over.                          *)
BackUpFile(p) ==
  /\ PolisherAt(p, "back_up")
  /\ original_copy' = file
  /\ PolisherIs(p, [polishing[p] EXCEPT !.pc = "put"])
  /\ UNCHANGED <<server, row, file, remembered, results, starts, foreign>>

(* The relay uploads the file if the attachment is the one expected, and    *)
(* answers a request of the same deduplication key, which holds the hash of *)
(* the new file, as it did before.                                          *)
AsExpected(p) == polishing[p].version = NewestVersion /\ polishing[p].before = server[NewestVersion]
RelayAnswers(answer, tmp) ==
  remembered' = [h \in DOMAIN remembered \cup {tmp} |->
                   IF h = tmp THEN answer ELSE remembered[h]]

(* The answer is checked: it must have replaced the version that was found. *)
AnswerAccepted(p, answer) == answer.previous = polishing[p].version

AnswerHeard(p, answer) ==
  IF AnswerAccepted(p, answer)
  THEN PolisherIs(p, [pc |-> "replace", version |-> polishing[p].version,
                   skip |-> polishing[p].skip, before |-> polishing[p].before,
                   tmp |-> polishing[p].tmp, answer |-> answer])
  ELSE PolisherIs(p, NotPolishing)

(* The answer, or the request, may get lost; a refusal ends the attempt.    *)
PutFile(p) ==
  /\ PolisherAt(p, "put")
  /\ LET tmp == polishing[p].tmp
         answer == [previous |-> NewestVersion, new |-> NewestVersion + 1, html |-> tmp]
     IN  \/ /\ tmp \in DOMAIN remembered
            /\ AnswerHeard(p, remembered[tmp])
            /\ UNCHANGED <<server, remembered>>
         \/ /\ tmp \notin DOMAIN remembered /\ AsExpected(p)
            /\ server' = Append(server, tmp)
            /\ RelayAnswers(answer, tmp)
            /\ AnswerHeard(p, answer) \/ PolisherIs(p, NotPolishing)
         \/ PolisherIs(p, NotPolishing) /\ UNCHANGED <<server, remembered>>
  /\ UNCHANGED <<row, file, original_copy, results, starts, foreign>>

(* os.replace, whatever the file holds by now.                              *)
ReplaceFile(p) ==
  /\ PolisherAt(p, "replace")
  /\ file' = polishing[p].tmp
  /\ PolisherIs(p, [polishing[p] EXCEPT !.pc = "sync"])
  /\ UNCHANGED <<server, row, original_copy, remembered, results, starts, foreign>>

(* One immediate transaction; the row must have the version that was found. *)
SameVersion(p) == row.version = polishing[p].version

SyncRow(p) ==
  /\ PolisherAt(p, "sync")
  /\ PolisherIs(p, NotPolishing)
  /\ IF SameVersion(p)
     THEN /\ row' = [version |-> polishing[p].answer.new, html |-> polishing[p].answer.html,
                     waits |-> FALSE]
          /\ results' = results \cup {"uploaded"}
     ELSE UNCHANGED <<row, results>>
  /\ UNCHANGED <<server, file, original_copy, remembered, starts, foreign>>

(* An exception, which is recorded without ok, or the end of the process.   *)
PolisherStops(p) ==
  /\ ~PolisherAt(p, "idle")
  /\ PolisherIs(p, NotPolishing)
  /\ UNCHANGED <<server, row, file, original_copy, remembered, results, starts, foreign>>

---------------------------------------------------------------------------
(* Zotero takes over the newest version, fetches the file of it, or uploads *)
(* a file that has changed.                                                 *)
ZoteroPulls ==
  /\ row.version < NewestVersion
  /\ row' = [version |-> NewestVersion, html |-> server[NewestVersion],
             waits |-> row.waits \/ server[NewestVersion] # row.html]
  /\ UNCHANGED <<server, file, original_copy, remembered, polishing, results, starts, foreign>>
ZoteroFetches ==
  /\ row.waits
  /\ file' = row.html
  /\ row' = [row EXCEPT !.waits = FALSE]
  /\ UNCHANGED <<server, original_copy, remembered, polishing, results, starts, foreign>>
ZoteroUploads ==
  /\ ~row.waits /\ row.version = NewestVersion /\ file # row.html
  /\ server' = Append(server, file)
  /\ row' = [row EXCEPT !.version = NewestVersion + 1, !.html = file]
  /\ UNCHANGED <<file, original_copy, remembered, polishing, results, starts, foreign>>

SavedLocally ==
  /\ foreign < MaxForeign
  /\ \E t \in Text : file' = [text |-> t, polished |-> FALSE]
  /\ foreign' = foreign + 1
  /\ UNCHANGED <<server, row, original_copy, remembered, polishing, results, starts>>
ReplacedElsewhere ==
  /\ foreign < MaxForeign
  /\ \E t \in Text : server' = Append(server, [text |-> t, polished |-> FALSE])
  /\ foreign' = foreign + 1
  /\ UNCHANGED <<row, file, original_copy, remembered, polishing, results, starts>>

RepolishNext ==
  \/ \E p \in Process :
       \/ TakeUpAttachment(p) \/ HashFile(p) \/ PolishFile(p) \/ CompareFiles(p) \/ BackUpFile(p)
       \/ PutFile(p) \/ ReplaceFile(p) \/ SyncRow(p) \/ PolisherStops(p)
  \/ ZoteroPulls \/ ZoteroFetches \/ ZoteroUploads
  \/ SavedLocally \/ ReplacedElsewhere

RepolishSpec == RepolishInit /\ [][RepolishNext]_rvars

---------------------------------------------------------------------------
(* An attachment with a record, which every later process passes over, is   *)
(* done: unless somebody else wrote it, the file in the storage, and the    *)
(* row if it was uploaded, are what the library holds, polished.  However   *)
(* often processes stopped, and answers were lost, before.                  *)
RecordedIsDone ==
  results # {} /\ foreign = 0 =>
    /\ file = server[NewestVersion] /\ file.polished
    /\ "uploaded" \in results => row.version = NewestVersion /\ row.html = file
=============================================================================
