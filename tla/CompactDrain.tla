---------------------------- MODULE CompactDrain ----------------------------
(***************************************************************************)
(* The drain script (src/scripts/drains/full_text_compact.py): a run of    *)
(* one job type that asks the metadata processor for one batch after       *)
(* another, with a limit on the jobs of the whole run and thresholds on    *)
(* its failures.                                                           *)
(*                                                                         *)
(*   single    one loop; it counts, and no threshold ends it               *)
(*   parallel  threads that share a ParallelDrainCoordinator: each takes   *)
(*             capacity from it, drains, gives back what it did not use    *)
(*             and adds its counts, in three separate lock sections        *)
(*   dynamic   a supervisor that looks at the queue and submits as many    *)
(*             batches as it needs; it alone uses the coordinator          *)
(*                                                                         *)
(* The queue is two numbers: the batches, other processes, enqueues and    *)
(* retries all change it.                                                  *)
(***************************************************************************)
EXTENDS Integers, FiniteSets, Functions

CONSTANTS
  Pool,        \* threads of the pool
  PerBatch,    \* --batch-size
  Limits,      \* --limit, 0 for none
  Thresholds,  \* --max-failures and --max-retryable-failures, 0 for none
  MaxQueue,    \* bound on the jobs queued or running at a time
  MaxWorked    \* bound on the jobs a run leases

ASSUME CompactAssumption ==
  /\ Pool # {} /\ IsFiniteSet(Pool)
  /\ PerBatch \in Nat \ {0}
  /\ Limits \subseteq Nat /\ Thresholds \subseteq Nat
  /\ MaxQueue \in Nat /\ MaxWorked \in Nat

VARIABLES
  args,     \* mode, limit, thresholds, and whether the relay is configured
  coord,    \* the coordinator: reserved, failed, retryable, errors, stop
  slot,     \* per thread: where it is, its batch and the batch's counts
  boss,     \* the supervisor: where it is, and available_queued
  queue,    \* jobs of the type that are queued, and that are running
  worked,   \* history: jobs the run has leased,
  spilled   \* and those of them in batches that raised

kvars == <<args, coord, slot, boss, queue, worked, spilled>>

Modes == {"single", "parallel", "dynamic"}
NoBatch == [pc |-> "head", size |-> 0, leased |-> 0, done |-> 0,
            failed |-> 0, retryable |-> 0, error |-> FALSE]
SlotAt == {"head", "draining", "returned", "raised", "counted", "ended"}
BossAt == {"head", "swept", "submit", "wait", "closing", "ended", "crashed"}

CompactTypeOK ==
  /\ args \in [mode : Modes, limit : Limits, maxFailed : Thresholds,
               maxRetryable : Thresholds, relay : BOOLEAN]
  /\ coord \in [reserved : Nat, failed : Nat, retryable : Nat, errors : Nat,
                stop : BOOLEAN]
  /\ slot \in [Pool -> [pc : SlotAt, size : Nat, leased : Nat, done : Nat,
                        failed : Nat, retryable : Nat, error : BOOLEAN]]
  /\ boss \in [pc : BossAt, available : Nat]
  /\ queue \in [queued : 0..MaxQueue, running : 0..MaxQueue]
  /\ worked \in Nat /\ spilled \in Nat

(* The single loop is a pool of one; the dynamic pool starts empty.        *)
CompactInit ==
  /\ args \in [mode : Modes, limit : Limits, maxFailed : Thresholds,
               maxRetryable : Thresholds, relay : BOOLEAN]
  /\ coord = [reserved |-> 0, failed |-> 0, retryable |-> 0, errors |-> 0,
              stop |-> FALSE]
  /\ \E first \in Pool :
       slot = [w \in Pool |-> IF args.mode = "single" /\ w # first
                                THEN [NoBatch EXCEPT !.pc = "ended"] ELSE NoBatch]
  /\ boss = [pc |-> "head", available |-> 0]
  /\ queue \in [queued : 0..MaxQueue, running : {0}]
  /\ worked = 0 /\ spilled = 0

-----------------------------------------------------------------------------
(* ParallelDrainCoordinator: reserve_batch, complete_batch and record. The *)
(* single loop computes the same from its own counts, and never stops.     *)

Least(a, b) == IF a < b THEN a ELSE b
Reservable(most) ==
  LET size == Least(PerBatch, most) IN
  IF coord.stop THEN 0
  ELSE IF args.limit = 0 THEN size
  ELSE Least(size, args.limit - coord.reserved)

\* The batch of a slot begins with the capacity taken for it.
Begin(w, size) ==
  /\ slot' = [slot EXCEPT ![w] = [slot[w] EXCEPT !.pc = "draining", !.size = size]]
  /\ coord' = IF args.limit = 0 THEN coord
              ELSE [coord EXCEPT !.reserved = coord.reserved + size]

At(w, pc) == [slot EXCEPT ![w] = [slot[w] EXCEPT !.pc = pc]]

LimitReached == args.limit > 0 /\ coord.reserved >= args.limit

AllGivenBack(size, done) == size
Unused(size, done) == size - done
GiveBack(c, size, done) ==
  IF args.limit = 0 THEN c ELSE [c EXCEPT !.reserved = c.reserved - Unused(size, done)]

Reached(total, threshold) == threshold > 0 /\ total >= threshold
Recorded(c, b) ==
  LET failed == c.failed + b.failed
      retryable == c.retryable + b.retryable
      errors == c.errors + IF b.error THEN 1 ELSE 0
      enough == /\ args.mode # "single"
                /\ \/ Reached(failed, args.maxFailed)
                   \/ Reached(retryable, args.maxRetryable)
                   \/ errors > 0
  IN [c EXCEPT !.failed = failed, !.retryable = retryable, !.errors = errors,
        !.stop = c.stop \/ enough]

-----------------------------------------------------------------------------
(* One batch: _drain_metadata_queue leases jobs until it has enough of     *)
(* them or the queue is empty.  Without the relay it is refused, which     *)
(* compact_batch turns into a batch error.                                 *)

LeaseOne(w) ==
  /\ slot[w].pc = "draining" /\ args.relay
  /\ slot[w].leased = slot[w].done /\ slot[w].done < slot[w].size
  /\ queue.queued > 0 /\ worked < MaxWorked
  /\ slot' = [slot EXCEPT ![w] = [slot[w] EXCEPT !.leased = slot[w].leased + 1]]
  /\ queue' = [queued |-> queue.queued - 1, running |-> queue.running + 1]
  /\ worked' = worked + 1
  /\ UNCHANGED <<args, coord, boss, spilled>>

(* The outcome of a job; one whose lease was lost runs on elsewhere.       *)
Settled(b, outcome) ==
  LET bad == IF outcome \in {"failed_retryable", "failed_final"} THEN 1 ELSE 0
      again == IF outcome = "failed_retryable" THEN 1 ELSE 0
  IN [b EXCEPT !.done = b.done + 1, !.failed = b.failed + bad,
               !.retryable = b.retryable + again]
SettleOne(w) ==
  /\ slot[w].pc = "draining" /\ slot[w].leased > slot[w].done
  /\ \E outcome \in {"ok", "failed_retryable", "failed_final", "stale_lease"} :
       /\ slot' = [slot EXCEPT ![w] = Settled(slot[w], outcome)]
       /\ outcome = "stale_lease" \/ queue.running > 0
       /\ queue' = IF outcome = "stale_lease" THEN queue
                   ELSE [queue EXCEPT !.running = queue.running - 1]
  /\ UNCHANGED <<args, coord, boss, worked, spilled>>

ReturnBatch(w) ==
  /\ slot[w].pc = "draining" /\ slot[w].leased = slot[w].done
  /\ ~args.relay \/ slot[w].done = slot[w].size \/ queue.queued = 0
  /\ slot' = [slot EXCEPT ![w] = [slot[w] EXCEPT !.pc = "returned",
                                                !.error = ~args.relay]]
  /\ UNCHANGED <<args, coord, boss, queue, worked, spilled>>

(* A store error, or a result that compact_batch does not accept.  The     *)
(* caller gives the whole batch back, the jobs it has handled included;    *)
(* the job in hand stays leased.                                           *)
RaiseInBatch(w) ==
  /\ slot[w].pc = "draining"
  /\ spilled' = spilled + slot[w].leased
  /\ IF args.mode = "dynamic"
       THEN /\ slot' = At(w, "raised")
            /\ UNCHANGED coord
       ELSE /\ slot' = [slot EXCEPT ![w] = [NoBatch EXCEPT !.pc = "ended"]]
            /\ coord' = GiveBack(coord, slot[w].size, 0)
  /\ UNCHANGED <<args, boss, queue, worked>>

-----------------------------------------------------------------------------
(* The single loop and the threads of the parallel pool.                   *)

Reserve(w) ==
  LET size == Reservable(PerBatch) IN
  /\ args.mode # "dynamic" /\ slot[w].pc = "head"
  /\ IF size <= 0
       THEN /\ slot' = At(w, "ended") /\ UNCHANGED coord
       ELSE Begin(w, size)
  /\ UNCHANGED <<args, boss, queue, worked, spilled>>

CompleteBatch(w) ==
  /\ args.mode # "dynamic" /\ slot[w].pc = "returned"
  /\ coord' = GiveBack(coord, slot[w].size, slot[w].done)
  /\ slot' = At(w, "counted")
  /\ UNCHANGED <<args, boss, queue, worked, spilled>>

Record(w) ==
  /\ slot[w].pc = "counted"
  /\ coord' = Recorded(coord, slot[w])
  /\ slot' = [slot EXCEPT ![w] =
                IF slot[w].done = 0 THEN [NoBatch EXCEPT !.pc = "ended"] ELSE NoBatch]
  /\ UNCHANGED <<args, boss, queue, worked, spilled>>

-----------------------------------------------------------------------------
(* _run_dynamic_parallel.  A slot at "head" holds no future.               *)

Inflight == {w \in Pool : slot[w].pc # "head"}
Finished == {w \in Pool : slot[w].pc \in {"returned", "raised"}}
BossGoes(pc) == boss' = [boss EXCEPT !.pc = pc]

(* record_completed: the finished futures of a set, in any order, until    *)
(* one raises; then nothing more is recorded and the pool runs dry.  The   *)
(* totals only grow, so the order does not matter to the outcome.          *)
Sizes == [w \in Pool |-> slot[w].size]
Collected(c, S) ==
  Recorded(GiveBack(c, SumFunctionOnSet(Sizes, S),
                       SumFunctionOnSet([w \in Pool |-> slot[w].done], S)),
           [failed |-> SumFunctionOnSet([w \in Pool |-> slot[w].failed], S),
            retryable |-> SumFunctionOnSet([w \in Pool |-> slot[w].retryable], S),
            error |-> \E w \in S : slot[w].error])
Emptied(S) == [w \in Pool |-> IF w \in S THEN NoBatch ELSE slot[w]]

CollectAndGo(S, pc) ==
  \/ /\ \A w \in S : slot[w].pc = "returned"
     /\ coord' = Collected(coord, S) /\ slot' = Emptied(S)
     /\ BossGoes(pc)
  \/ \E r \in S, before \in SUBSET S :
       /\ slot[r].pc = "raised"
       /\ \A w \in before : slot[w].pc = "returned"
       /\ coord' = GiveBack(Collected(coord, before), slot[r].size, 0)
       /\ slot' = Emptied(before \union {r})
       /\ BossGoes("crashed")

(* The top of the loop, and the wait at its bottom, which may time out.    *)
Sweep ==
  /\ args.mode = "dynamic" /\ boss.pc = "head"
  /\ IF coord.stop THEN BossGoes("closing") /\ UNCHANGED <<coord, slot>>
     ELSE CollectAndGo(Finished, "swept")
  /\ UNCHANGED <<args, queue, worked, spilled>>

Wait ==
  /\ boss.pc = "wait"
  /\ \/ \E S \in SUBSET Finished : S # {} /\ CollectAndGo(S, "head")
     \/ BossGoes("head") /\ UNCHANGED <<coord, slot>>
  /\ UNCHANGED <<args, queue, worked, spilled>>

Close ==
  /\ boss.pc = "closing"
  /\ \/ Inflight = {} /\ BossGoes("ended") /\ UNCHANGED <<coord, slot>>
     \/ \E S \in SUBSET Finished : S # {} /\ CollectAndGo(S, "closing")
  /\ UNCHANGED <<args, queue, worked, spilled>>

(* The summary of the queue; with nothing in flight it may end the run.    *)
ReadQueue ==
  LET claimed == SumFunctionOnSet(Sizes, Inflight) IN
  /\ boss.pc = "swept"
  /\ boss' = IF Inflight = {} /\ (LimitReached \/ queue.queued = 0)
               THEN [pc |-> IF ~LimitReached /\ queue.running > 0
                              THEN "head" ELSE "ended", available |-> 0]
             ELSE [pc |-> "submit",
                   available |-> IF queue.queued > claimed
                                   THEN queue.queued - claimed ELSE 0]
  /\ UNCHANGED <<args, coord, slot, queue, worked, spilled>>

(* One more batch for the pool, or the end of the inner loop.              *)
Submit ==
  LET size == Reservable(boss.available)
      more == boss.available > 0 /\ Inflight # Pool /\ size > 0 IN
  /\ boss.pc = "submit"
  /\ IF more
       THEN \E w \in Pool \ Inflight :
              /\ Begin(w, size)
              /\ boss' = [boss EXCEPT !.available = boss.available - size]
       ELSE /\ boss' = [pc |-> IF Inflight # {} THEN "wait"
                               ELSE IF LimitReached THEN "closing"
                               ELSE "head", available |-> 0]
            /\ UNCHANGED <<coord, slot>>
  /\ UNCHANGED <<args, queue, worked, spilled>>

-----------------------------------------------------------------------------
(* What else changes the queue: an enqueue or a retry, other drains of the *)
(* same type, and leases that lapse, a job of this run's among them.       *)

QueueChanges ==
  /\ \E change \in {"arrives", "taken", "lapses", "settled"} :
       LET q == queue.queued + (CASE change = "arrives" -> 1
                                  [] change = "lapses" -> 1
                                  [] change = "taken" -> -1
                                  [] OTHER -> 0)
           r == queue.running + (CASE change = "taken" -> 1
                                   [] change = "arrives" -> 0
                                   [] OTHER -> -1)
       IN /\ q >= 0 /\ r >= 0 /\ q + r <= MaxQueue
          /\ queue' = [queued |-> q, running |-> r]
  /\ UNCHANGED <<args, coord, slot, boss, worked, spilled>>

CompactNext ==
  \/ \E w \in Pool : \/ Reserve(w) \/ LeaseOne(w) \/ SettleOne(w)
                     \/ ReturnBatch(w) \/ RaiseInBatch(w)
                     \/ CompleteBatch(w) \/ Record(w)
  \/ Sweep \/ Wait \/ Close \/ ReadQueue \/ Submit
  \/ QueueChanges

CompactSpec == CompactInit /\ [][CompactNext]_kvars

-----------------------------------------------------------------------------
(* The promises of the run's options (full_text_compact.py:918): --limit   *)
(* bounds the jobs worked on, but for those of a batch that raised, whose  *)
(* capacity is given back; and once the failures reach a threshold no      *)
(* batch is begun, so at most one batch per thread is still counted.       *)
PoolWithinBounds ==
  /\ args.limit > 0 =>
       coord.reserved <= args.limit /\ worked <= args.limit + spilled
  /\ args.mode # "single" =>
       \A bound \in { <<args.maxFailed, coord.failed>>,
                      <<args.maxRetryable, coord.retryable>> } :
         bound[1] > 0 =>
           bound[2] < bound[1] + Cardinality(Pool) * PerBatch
=============================================================================
