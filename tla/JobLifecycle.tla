---------------------------- MODULE JobLifecycle ----------------------------
(***************************************************************************)
(* What the job queue promises to whoever enqueues a job, with no workers, *)
(* locks or clocks: a row goes from queued to processing and from there    *)
(* either to a terminal status or back to queued with one more retry       *)
(* counted, never beyond MaxRetries; the encrypted token leaves the row in *)
(* the very step that makes it terminal; a terminal row only disappears.   *)
(* JobQueue.tla implements this specification.                             *)
(***************************************************************************)
EXTENDS Naturals

CONSTANTS JobIds,       \* the ids of the rows of the jobs table
          MaxRetries    \* worker.py MAX_RETRIES

VARIABLES status,       \* [JobIds -> Statuses]
          retries,      \* [JobIds -> Nat], the retry_count column
          token         \* [JobIds -> BOOLEAN], the payload still holds a token

vars == <<status, retries, token>>

Terminal == {"done", "failed"}

Init == /\ status  = [j \in JobIds |-> "absent"]
        /\ retries = [j \in JobIds |-> 0]
        /\ token   = [j \in JobIds |-> FALSE]

(* The values one row may take after a step, given what it held before. *)
Becomes(j, s, r, t) == status'[j] = s /\ retries'[j] = r /\ token'[j] = t

Submit(j)  == status[j] = "absent" /\ Becomes(j, "queued", 0, TRUE)

Start(j)   == status[j] = "queued" /\ Becomes(j, "processing", retries[j], TRUE)

Finish(j)  == /\ status[j] = "processing"
              /\ \E s \in Terminal : Becomes(j, s, retries[j], FALSE)

Retry(j)   == /\ status[j] = "processing"
              /\ retries[j] < MaxRetries
              /\ Becomes(j, "queued", retries[j] + 1, TRUE)

GiveUp(j)  == /\ status[j] = "processing"
              /\ retries[j] = MaxRetries
              /\ Becomes(j, "failed", retries[j] + 1, FALSE)

Forget(j)  == status[j] \in Terminal /\ Becomes(j, "purged", retries[j], FALSE)

Stay(j)    == Becomes(j, status[j], retries[j], token[j])

Step(j) == Submit(j) \/ Start(j) \/ Finish(j) \/ Retry(j) \/ GiveUp(j) \/ Forget(j)

(* One statement of the code may move several rows (the reclaim sweep, the *)
(* retention purge), so a step moves any set of rows at once.              *)
Next == \A j \in JobIds : Step(j) \/ Stay(j)

Spec == Init /\ [][Next]_vars
=============================================================================
