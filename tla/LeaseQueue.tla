------------------------------ MODULE LeaseQueue ------------------------------
(***************************************************************************)
(* What the metadata queue promises to those who read outcomes off it,     *)
(* without clocks, leases, attempts or budgets: a job is claimed by one    *)
(* worker at a time, and the outcome a settled job shows was reported by   *)
(* the holder of its latest claim, never by a worker whose claim had been  *)
(* revoked and given to another.  One step may touch several jobs.         *)
(***************************************************************************)
EXTENDS Naturals

CONSTANTS Job, Worker, NoWorker

VARIABLES
  state,    \* absent, available, claimed or settled
  holder,   \* the worker of the current claim, NoWorker if not claimed
  claims,   \* number of claims the job has had
  author    \* who reported the outcome now stored: worker and claim

vars == <<state, holder, claims, author>>

Nobody == [worker |-> NoWorker, claim |-> 0]

Init ==
  /\ state = [j \in Job |-> "absent"]
  /\ holder = [j \in Job |-> NoWorker]
  /\ claims = [j \in Job |-> 0]
  /\ author = [j \in Job |-> Nobody]

Move(j, from, to) == state[j] \in from /\ state'[j] = to
SameClaim(j) == claims'[j] = claims[j]
Unclaimed(j) == holder'[j] = NoWorker

Add(j)      == Move(j, {"absent"}, "available") /\ Unclaimed(j) /\ SameClaim(j)
                 /\ author'[j] = author[j]

(* A new claim erases what an earlier claim reported.                      *)
Claim(j)    == Move(j, {"available"}, "claimed")
                 /\ holder'[j] \in Worker
                 /\ claims'[j] = claims[j] + 1
                 /\ author'[j] = Nobody

(* The claim is taken back without an outcome.                             *)
Revoke(j)   == Move(j, {"claimed"}, "available") /\ Unclaimed(j) /\ SameClaim(j)
                 /\ author'[j] = author[j]

(* The holder reports, and nobody else.                                    *)
Settle(j)   == Move(j, {"claimed"}, "settled") /\ Unclaimed(j) /\ SameClaim(j)
                 /\ author'[j] = [worker |-> holder[j], claim |-> claims[j]]

(* Given up without a report: its budget is spent, or the operator cancels.*)
GiveUp(j)   == Move(j, {"available", "settled"}, "settled")
                 /\ Unclaimed(j) /\ SameClaim(j) /\ author'[j] = author[j]

Reopen(j)   == Move(j, {"settled"}, "available") /\ Unclaimed(j) /\ SameClaim(j)
                 /\ author'[j] = Nobody

Unchanged(j) ==
  /\ state'[j] = state[j] /\ holder'[j] = holder[j]
  /\ claims'[j] = claims[j] /\ author'[j] = author[j]

JobStep(j) == Add(j) \/ Claim(j) \/ Revoke(j) \/ Settle(j) \/ GiveUp(j)
                \/ Reopen(j)

Next ==
  /\ state' \in [Job -> {"absent", "available", "claimed", "settled"}]
  /\ holder' \in [Job -> Worker \cup {NoWorker}]
  /\ DOMAIN claims' = Job /\ DOMAIN author' = Job
  /\ \A j \in Job : JobStep(j) \/ Unchanged(j)

Spec == Init /\ [][Next]_vars
=============================================================================
