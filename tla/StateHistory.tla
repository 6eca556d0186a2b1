---------------------------- MODULE StateHistory ----------------------------
(***************************************************************************)
(* How the store keeps its history small (state.py).  Every transaction of *)
(* a queue writes an event; the same transaction then prunes the event     *)
(* tables and compacts large results, when the time recorded for that kind *)
(* of maintenance has come.  An operator can ask for both with arguments   *)
(* of his own, and that compaction reads the rows before it has the write  *)
(* lock.  An entity is a job or a run; one event table stands for the four,*)
(* which are pruned one after the other by the same statement.             *)
(***************************************************************************)
EXTENDS Integers, FiniteSets

CONSTANTS
  Entity,       \* entities with events; each is also a row with a result
  MinKeep,      \* the least keep_per_entity a caller passes
  Retention,    \* retention_days
  BatchSize,    \* events one DELETE may take
  MaxBatches,   \* DELETEs of one call of prune_event_history
  Pause,        \* ticks to the next maintenance when there is no backlog
  MaxEvents,    \* bound on the events ever written
  MaxDays       \* bound on the clock

ASSUME HistoryAssumption ==
  /\ MinKeep \in Nat /\ Retention \in Nat \ {0} /\ BatchSize \in Nat \ {0}
  /\ MaxBatches \in Nat \ {0} /\ Pause \in Nat \ {0}
  /\ MaxEvents \in Nat /\ MaxDays \in Nat

VARIABLES
  day,      \* the wall clock
  events,   \* the event tables: event_id, the entity, created_at
  written,  \* the event ids given out so far
  due,      \* state_maintenance: next_run_at of the events, 0 if there is none
  result,   \* result_json of a row: which report wrote it, and in which form
  reports,  \* history: how many reports have written the row
  picked    \* the rows an operator's compaction has read

hvars == <<day, events, written, due, result, reports, picked>>

EventRow == [id : Nat, entity : Entity, at : Nat]
Forms == {"raw", "compact"}
NoResult == [report |-> 0, form |-> "compact"]

HistoryTypeOK ==
  /\ day \in Nat /\ written \in Nat
  /\ events \subseteq EventRow
  /\ \A e \in events : e.id \in 1 .. written
  /\ due \in Nat
  /\ result \in [Entity -> [report : Nat, form : Forms]]
  /\ reports \in [Entity -> Nat]
  /\ picked \in [Entity -> Nat]

HistoryInit ==
  /\ day = 0 /\ events = {} /\ written = 0 /\ due = 0
  /\ result = [x \in Entity |-> NoResult]
  /\ reports = [x \in Entity |-> 0]
  /\ picked = [x \in Entity |-> 0]

-----------------------------------------------------------------------------
(* Pruning.  An event may go when it is older than the cutoff and at least *)
(* keep events of its entity are newer (none, if keep is 0); a batch takes *)
(* those with the lowest ids.                                              *)

Newer(e, log) == {n \in log : n.entity = e.entity /\ n.id > e.id}

KeptByOthers(e, log, keep) ==
  Cardinality({n \in log : n.entity = e.entity /\ n # e}) < keep
KeptByKeepClause(e, log, keep) == Cardinality(Newer(e, log)) < keep

Prunable(log, keep) ==
  {e \in log : e.at < day - Retention /\ ~KeptByKeepClause(e, log, keep)}

Batch(log, keep) ==
  LET all == Prunable(log, keep) IN
  {e \in all : Cardinality({f \in all : f.id < e.id}) < BatchSize}

(* The log after n batches; has_more is read after the last one.           *)
Pruned(log, keep, n) ==
  LET after[i \in 0 .. n] ==
        IF i = 0 THEN log ELSE after[i - 1] \ Batch(after[i - 1], keep)
  IN  after[n]

NextRun(backlog) == IF backlog THEN day + 1 ELSE day + Pause

PruneEventHistory(keep) ==
  LET left == Pruned(events, keep, MaxBatches) IN
  /\ keep >= MinKeep
  /\ events' = left
  /\ due' = NextRun(Prunable(left, keep) # {})
  /\ UNCHANGED <<day, written, result, reports, picked>>

-----------------------------------------------------------------------------
(* Writing an event, with the maintenance that is due.  An error in the    *)
(* maintenance is swallowed: the event and what had been done stay.        *)

EventsMaintained(log, keep) ==
  LET left == Pruned(log, keep, 1) IN
  \/ due > day  /\ events' = log /\ due' = due
  \/ due <= day /\ events' = left /\ due' = NextRun(Prunable(left, keep) # {})
  \/ due <= day /\ events' \in {log, left} /\ due' = due        \* an error

(* Results are compacted at times of their own, which are left open here,  *)
(* and only in settled rows, whose status is not part of this module.      *)
LargeResults(res) == {x \in Entity : res[x].form = "raw"}
ResultsMaintained(res) ==
  \E rows \in SUBSET LargeResults(res) :
    result' = [x \in Entity |-> IF x \in rows
                                  THEN [res[x] EXCEPT !.form = "compact"]
                                  ELSE res[x]]

(* A transition of a row.  A report stores a result, small enough or raw;  *)
(* the other transitions leave the result of an earlier report in place.   *)
AddEvent(x, reported) ==
  /\ written < MaxEvents
  /\ written' = written + 1
  /\ EventsMaintained(events \cup {[id |-> written + 1, entity |-> x, at |-> day]},
                      MinKeep)
  /\ reports' = [reports EXCEPT ![x] = IF reported THEN @ + 1 ELSE @]
  /\ \/ ~reported /\ ResultsMaintained(result)
     \/ /\ reported
        /\ \E form \in Forms :
             ResultsMaintained([result EXCEPT ![x] =
                                  [report |-> reports[x] + 1, form |-> form]])
  /\ UNCHANGED <<day, picked>>

-----------------------------------------------------------------------------
(* compact_metadata_result_history: the rows are selected, then each is    *)
(* rewritten if it still holds the JSON that was read.                     *)

CompactSelect ==
  /\ \E rows \in SUBSET LargeResults(result) :
       picked' = [x \in Entity |-> IF x \in rows THEN result[x].report ELSE 0]
  /\ UNCHANGED <<day, events, written, due, result, reports>>

PickedEarlier(x) == picked[x] # 0
SameResult(x) == result[x] = [report |-> picked[x], form |-> "raw"]

CompactUpdate ==
  /\ \E x \in Entity : picked[x] # 0
  /\ result' = [x \in Entity |->
       IF picked[x] # 0 /\ SameResult(x)
         THEN [report |-> picked[x], form |-> "compact"] ELSE result[x]]
  /\ picked' = [x \in Entity |-> 0]
  /\ UNCHANGED <<day, events, written, due, reports>>

NextDay ==
  /\ day < MaxDays
  /\ day' = day + 1
  /\ UNCHANGED <<events, written, due, result, reports, picked>>

HistoryNext ==
  \/ \E x \in Entity, reported \in BOOLEAN : AddEvent(x, reported)
  \/ PruneEventHistory(MinKeep) \/ PruneEventHistory(MinKeep + 1)
  \/ CompactSelect \/ CompactUpdate
  \/ NextDay

HistorySpec == HistoryInit /\ [][HistoryNext]_hvars

-----------------------------------------------------------------------------
(* Whatever is pruned, and by whomever, the last MinKeep events of an      *)
(* entity are still there: an event that disappears leaves MinKeep newer   *)
(* ones behind, although a batch deletes several events at once and the    *)
(* clause that protects them is evaluated before any of them is gone.      *)
NewestEventsKept ==
  [][\A e \in events \ events' :
       Cardinality(Newer(e, events')) >= MinKeep]_hvars

(* A compaction that was overtaken by a new report does not bring the old  *)
(* result back.                                                            *)
ResultIsNewest == \A x \in Entity : result[x].report = reports[x]
=============================================================================
