------------------------------ MODULE JobQueue ------------------------------
(***************************************************************************)
(* The background job queue: rows of the Postgres table `jobs`, enqueued   *)
(* by the API and worked off by any number of worker processes             *)
(* (apps/worker/src/worker.py).  A worker polls in a loop: it reclaims     *)
(* stale rows, claims the lowest due row, takes the per-job advisory lock, *)
(* runs the handler under a heartbeat, writes one outcome fenced on        *)
(* (status, retry_count) and releases the lock.                            *)
(*                                                                         *)
(* Every commit is a step of its own, so a worker may stop for any time    *)
(* between two of them, lose its session or die.  A handler is its outcome *)
(* (done, failed, requeued); what the three handlers write before it is    *)
(* the subject of other modules.  Time is abstract: `age` is what          *)
(* updated_at says against the backoff and the reclaim timeout.            *)
(***************************************************************************)
EXTENDS Integers

CONSTANTS JobIds,       \* ids of the rows of `jobs`, claimed in increasing order
          Workers,      \* worker processes
          MaxRetries,   \* MAX_RETRIES
          MaxFaults,    \* bound on crashes and lost sessions in one behaviour
          NoJob,        \* what an idle worker works on
          NoOwner,      \* owner of a free advisory lock
          DeadSession   \* owner of a lock whose session the client has lost

ASSUME QueueAssumption ==
  /\ JobIds \subseteq Nat
  /\ MaxRetries \in Nat
  /\ MaxFaults \in Nat
  /\ NoJob \notin JobIds
  /\ NoOwner \notin Workers /\ DeadSession \notin Workers /\ NoOwner # DeadSession

VARIABLES jobs,         \* [JobIds -> Row], the table
          jobLock,      \* [JobIds -> owner], pg_advisory locks of the namespace
          pc,           \* [Workers -> PC], where the poll loop stands
          job,          \* [Workers -> JobIds \cup {NoJob}], the job it holds
          attempt,      \* [Workers -> Nat], the retry_count it read at its claim
          online,       \* [Workers -> BOOLEAN], its poll session is alive
          claims,       \* [JobIds -> Nat], history: committed claims of a job
          faults        \* crashes and lost sessions so far

vars == <<jobs, jobLock, pc, job, attempt, online, claims, faults>>

Terminal == {"done", "failed"}
NoResult == -1                  \* result IS NULL

(* A row.  `result` is the number of the attempt whose text it stores.     *)
(* `age`: updated_at is younger than the backoff, past it, or past         *)
(* RECLAIM_TIMEOUT_MINUTES.  `heartbeat`: heartbeat_at is NULL, within the *)
(* same timeout, or older.                                                 *)
Row == [status  : {"absent", "queued", "processing", "done", "failed", "purged"},
        retries : 0 .. MaxRetries + 1,
        token   : BOOLEAN,
        result  : {NoResult} \cup (0 .. MaxRetries),
        age     : {"fresh", "due", "stale"},
        heartbeat : {"never", "recent", "old"}]

PC == {"down", "idle", "polling", "claiming", "claimed", "refused", "running", "releasing"}

Init ==
  /\ jobs = [j \in JobIds |-> [status |-> "absent", retries |-> 0, token |-> FALSE,
                               result |-> NoResult, age |-> "fresh", heartbeat |-> "never"]]
  /\ jobLock = [j \in JobIds |-> NoOwner]
  /\ pc = [w \in Workers |-> "idle"]
  /\ job = [w \in Workers |-> NoJob]
  /\ attempt = [w \in Workers |-> 0]
  /\ online = [w \in Workers |-> TRUE]
  /\ claims = [j \in JobIds |-> 0]
  /\ faults = 0

-----------------------------------------------------------------------------
(* The statements that change a row.                                       *)

Closed(row, s, a) ==
  [row EXCEPT !.status = s, !.result = a, !.token = FALSE, !.age = "fresh"]

-----------------------------------------------------------------------------
(* Deliberate mistakes.  None is part of the specification: each is a      *)
(* plausible slip in one of the statements below, and the run that checks  *)
(* the property named with it must reject the model in which it replaces   *)
(* the right definition.                                                   *)

(* ImplementsLifecycle: the budget ends one attempt early. *)
Requeued_CapTooSoon(row, a) ==
  IF a + 1 >= MaxRetries
  THEN [Closed(row, "failed", a) EXCEPT !.retries = a + 1]
  ELSE [row EXCEPT !.status = "queued", !.retries = a + 1, !.result = a, !.age = "fresh"]

(* ResultOfLastClaim: the write is fenced on the status alone. *)
FencedUpdate_StatusOnly(j, a, new) ==
  jobs' = IF jobs[j].status = "processing" THEN [jobs EXCEPT ![j] = new] ELSE jobs

(* EveryJobSettles: a NULL heartbeat does not compare as old. *)
Reclaimable_NullIsAlive(j) ==
  /\ jobs[j].status = "processing" /\ jobs[j].age = "stale"
  /\ jobs[j].heartbeat = "old" /\ jobLock[j] = NoOwner

(* LiveHandlersExclusive: the lock is taken in shared mode. *)
AcquireJobLock_Shared(w) ==
  /\ pc[w] = "claimed" /\ online[w]
  /\ jobLock' = [jobLock EXCEPT ![job[w]] = w]
  /\ pc' = [pc EXCEPT ![w] = "running"]
  /\ UNCHANGED <<jobs, job, attempt, online, claims, faults>>

-----------------------------------------------------------------------------
(* _requeue_for_retry: back to the queue with one more retry counted, or   *)
(* failed (and scrubbed) when the budget is spent.                         *)
Requeued(row, a) ==
  IF a + 1 > MaxRetries
  THEN [Closed(row, "failed", a) EXCEPT !.retries = a + 1]
  ELSE [row EXCEPT !.status = "queued", !.retries = a + 1, !.result = a, !.age = "fresh"]

(* _fenced_update: the write lands only on the attempt it was made for.    *)
FencedUpdate(j, a, new) ==
  jobs' = IF jobs[j].status = "processing" /\ jobs[j].retries = a
          THEN [jobs EXCEPT ![j] = new]
          ELSE jobs

(* The rows _reclaim_stale_jobs selects: both timestamps old, lock free.   *)
Reclaimable(j) ==
  /\ jobs[j].status = "processing"
  /\ jobs[j].age = "stale"
  /\ jobs[j].heartbeat \in {"never", "old"}
  /\ jobLock[j] = NoOwner

Reclaimed(row) ==
  IF row.retries + 1 > MaxRetries
  THEN [Closed(row, "failed", row.retries) EXCEPT !.retries = row.retries + 1]
  ELSE [row EXCEPT !.status = "queued", !.retries = row.retries + 1, !.age = "fresh"]

(* Queued rows past their backoff that no other open claim transaction has *)
(* locked (FOR UPDATE SKIP LOCKED).                                        *)
Due(j) == /\ jobs[j].status = "queued"
          /\ jobs[j].retries = 0 \/ jobs[j].age # "fresh"

RowLocked(j) == \E v \in Workers : pc[v] = "claiming" /\ online[v] /\ job[v] = j

Claimable == {j \in JobIds : Due(j) /\ ~RowLocked(j)}

-----------------------------------------------------------------------------
(* The API.                                                                *)

Enqueue(j) ==
  /\ jobs[j].status = "absent"
  /\ jobs' = [jobs EXCEPT ![j].status = "queued", ![j].token = TRUE]
  /\ UNCHANGED <<jobLock, pc, job, attempt, online, claims, faults>>

(* Retention deletes any batch of terminal rows past its window.           *)
Expired == {j \in JobIds : jobs[j].status \in Terminal /\ jobs[j].age = "stale"}

Purge ==
  /\ \E S \in (SUBSET Expired) \ {{}} :
        jobs' = [j \in JobIds |-> IF j \in S THEN [jobs[j] EXCEPT !.status = "purged"] ELSE jobs[j]]
  /\ UNCHANGED <<jobLock, pc, job, attempt, online, claims, faults>>

-----------------------------------------------------------------------------
(* One poll of a worker.                                                   *)

Goto(w, label) == pc' = [pc EXCEPT ![w] = label]

ReclaimStale(w) ==
  /\ pc[w] = "idle" /\ online[w]
  /\ jobs' = [j \in JobIds |-> IF Reclaimable(j) THEN Reclaimed(jobs[j]) ELSE jobs[j]]
  /\ Goto(w, "polling")
  /\ UNCHANGED <<jobLock, job, attempt, online, claims, faults>>

NothingDue(w) ==
  /\ pc[w] = "polling" /\ online[w]
  /\ Claimable = {}
  /\ Goto(w, "idle")
  /\ UNCHANGED <<jobs, jobLock, job, attempt, online, claims, faults>>

(* The claim's UPDATE: it locks the lowest claimable row.                  *)
SelectJob(w) ==
  /\ pc[w] = "polling" /\ online[w]
  /\ \E j \in Claimable :
        /\ \A k \in Claimable : j <= k
        /\ job' = [job EXCEPT ![w] = j]
        /\ attempt' = [attempt EXCEPT ![w] = jobs[j].retries]
  /\ Goto(w, "claiming")
  /\ UNCHANGED <<jobs, jobLock, online, claims, faults>>

(* heartbeat_at keeps whatever an earlier attempt left in it.              *)
CommitClaim(w) ==
  /\ pc[w] = "claiming" /\ online[w]
  /\ jobs' = [jobs EXCEPT ![job[w]].status = "processing", ![job[w]].age = "fresh"]
  /\ claims' = [claims EXCEPT ![job[w]] = @ + 1]
  /\ Goto(w, "claimed")
  /\ UNCHANGED <<jobLock, job, attempt, online, faults>>

AcquireJobLock(w) ==
  /\ pc[w] = "claimed" /\ online[w]
  /\ IF jobLock[job[w]] = NoOwner
     THEN jobLock' = [jobLock EXCEPT ![job[w]] = w] /\ Goto(w, "running")
     ELSE jobLock' = jobLock /\ Goto(w, "refused")
  /\ UNCHANGED <<jobs, job, attempt, online, claims, faults>>

BackToPoll(w) == /\ Goto(w, "idle")
                 /\ job' = [job EXCEPT ![w] = NoJob]
                 /\ attempt' = [attempt EXCEPT ![w] = 0]

RequeueRefused(w) ==
  /\ pc[w] = "refused" /\ online[w]
  /\ FencedUpdate(job[w], attempt[w], Requeued(jobs[job[w]], attempt[w]))
  /\ BackToPoll(w)
  /\ UNCHANGED <<jobLock, online, claims, faults>>

(* A tick of _JobHeartbeat, on a session of its own: it goes on while the  *)
(* handler runs even if the poll session is gone.  A tick may also fail    *)
(* and is then no step at all.                                             *)
Heartbeat(w) ==
  /\ pc[w] = "running"
  /\ jobs[job[w]].status = "processing" /\ jobs[job[w]].heartbeat # "recent"
  /\ jobs' = [jobs EXCEPT ![job[w]].heartbeat = "recent"]
  /\ UNCHANGED <<jobLock, pc, job, attempt, online, claims, faults>>

(* The outcome of process_job: _mark_done, _mark_failed (any permanent     *)
(* error, an unknown job type, an unhandled exception) or a requeue (any   *)
(* transient error).                                                       *)
Outcome(w, new) ==
  /\ pc[w] = "running" /\ online[w]
  /\ FencedUpdate(job[w], attempt[w], new)
  /\ Goto(w, "releasing")
  /\ UNCHANGED <<jobLock, job, attempt, online, claims, faults>>

MarkDone(w)        == Outcome(w, Closed(jobs[job[w]], "done", attempt[w]))
MarkFailed(w)      == Outcome(w, Closed(jobs[job[w]], "failed", attempt[w]))
RequeueForRetry(w) == Outcome(w, Requeued(jobs[job[w]], attempt[w]))

ReleaseJobLock(w) ==
  /\ pc[w] = "releasing" /\ online[w]
  /\ jobLock' = [jobLock EXCEPT ![job[w]] = IF @ = w THEN NoOwner ELSE @]
  /\ BackToPoll(w)
  /\ UNCHANGED <<jobs, online, claims, faults>>

-----------------------------------------------------------------------------
(* Failures.                                                               *)

(* A session lock dies with its session: at once when the server sees the  *)
(* connection close, later when it has to time out.                        *)
DropLocks(w) ==
  \E owner \in {NoOwner, DeadSession} :
     jobLock' = [j \in JobIds |-> IF jobLock[j] = w THEN owner ELSE jobLock[j]]

LoseSession(w) ==
  /\ pc[w] \notin {"down", "idle"} /\ online[w]
  /\ faults < MaxFaults
  /\ online' = [online EXCEPT ![w] = FALSE]
  /\ DropLocks(w)
  /\ faults' = faults + 1
  /\ UNCHANGED <<jobs, pc, job, attempt, claims>>

(* The first statement after the loss raises; the poll ends and the next   *)
(* one opens a new session.  Until then the handler goes on blindly.       *)
NoticeLoss(w) ==
  /\ pc[w] # "down" /\ ~online[w]
  /\ online' = [online EXCEPT ![w] = TRUE]
  /\ BackToPoll(w)
  /\ UNCHANGED <<jobs, jobLock, claims, faults>>

Crash(w) ==
  /\ pc[w] # "down"
  /\ faults < MaxFaults
  /\ pc' = [pc EXCEPT ![w] = "down"]
  /\ job' = [job EXCEPT ![w] = NoJob]
  /\ attempt' = [attempt EXCEPT ![w] = 0]
  /\ online' = [online EXCEPT ![w] = FALSE]
  /\ DropLocks(w)
  /\ faults' = faults + 1
  /\ UNCHANGED <<jobs, claims>>

Restart(w) ==
  /\ pc[w] = "down"
  /\ Goto(w, "idle")
  /\ online' = [online EXCEPT ![w] = TRUE]
  /\ UNCHANGED <<jobs, jobLock, job, attempt, claims, faults>>

-----------------------------------------------------------------------------
(* Time.                                                                   *)

RowAges(j) ==
  /\ jobs[j].status \in {"queued", "processing"} \cup Terminal
  /\ jobs[j].age # "stale"
  /\ jobs' = [jobs EXCEPT ![j].age = IF @ = "fresh" THEN "due" ELSE "stale"]
  /\ UNCHANGED <<jobLock, pc, job, attempt, online, claims, faults>>

HeartbeatLapses(j) ==
  /\ jobs[j].heartbeat = "recent"
  /\ jobs' = [jobs EXCEPT ![j].heartbeat = "old"]
  /\ UNCHANGED <<jobLock, pc, job, attempt, online, claims, faults>>

DeadSessionEnds(j) ==
  /\ jobLock[j] = DeadSession
  /\ jobLock' = [jobLock EXCEPT ![j] = NoOwner]
  /\ UNCHANGED <<jobs, pc, job, attempt, online, claims, faults>>

-----------------------------------------------------------------------------
(* What a worker does when nothing goes wrong, the steps of its loop.      *)
WorkerStep(w) ==
  \/ ReclaimStale(w) \/ NothingDue(w) \/ SelectJob(w) \/ CommitClaim(w)
  \/ AcquireJobLock(w) \/ RequeueRefused(w)
  \/ MarkDone(w) \/ MarkFailed(w) \/ RequeueForRetry(w) \/ ReleaseJobLock(w)
  \/ NoticeLoss(w) \/ Restart(w)

TimeStep(j) == RowAges(j) \/ HeartbeatLapses(j) \/ DeadSessionEnds(j)

Next ==
  \/ \E j \in JobIds : Enqueue(j) \/ TimeStep(j)
  \/ \E w \in Workers : WorkerStep(w) \/ Heartbeat(w) \/ LoseSession(w) \/ Crash(w)
  \/ Purge

Spec == Init /\ [][Next]_vars

(* A worker process is restarted by its supervisor and its loop never      *)
(* blocks (statements and HTTP calls carry timeouts); clocks advance.      *)
(* Nothing forces a fault, an enqueue, a heartbeat or a purge.             *)
FairSpec == /\ Spec
            /\ \A w \in Workers : WF_vars(WorkerStep(w))
            /\ \A j \in JobIds : WF_vars(TimeStep(j))

-----------------------------------------------------------------------------
(* Properties.                                                             *)

(* Every variable holds values of its type.                                *)
TypeOK ==
  /\ jobs \in [JobIds -> Row]
  /\ jobLock \in [JobIds -> Workers \cup {NoOwner, DeadSession}]
  /\ pc \in [Workers -> PC]
  /\ job \in [Workers -> JobIds \cup {NoJob}]
  /\ attempt \in [Workers -> 0 .. MaxRetries + 1]
  /\ online \in [Workers -> BOOLEAN]
  /\ claims \in [JobIds -> Nat]
  /\ faults \in Nat

(* Workers that believe a committed claim is theirs, even without session. *)
Engaged(w) == pc[w] \in {"claimed", "refused", "running", "releasing"}

(* What makes the (status, retry_count) fence of _fenced_update sound: two *)
(* workers that both think they own a job, one of them a straggler, never  *)
(* hold the same retry_count, so at most one of them can match the row.    *)
AttemptsUnique ==
  \A v, w \in Workers :
     v # w /\ Engaged(v) /\ Engaged(w) /\ job[v] = job[w] => attempt[v] # attempt[w]

(* The per-job lock: two workers whose sessions are alive never run the    *)
(* handler of one job at the same time, stragglers included.               *)
LiveHandlersExclusive ==
  \A v, w \in Workers :
     /\ v # w
     /\ pc[v] \in {"running", "releasing"} /\ online[v]
     /\ pc[w] \in {"running", "releasing"} /\ online[w]
     => job[v] # job[w]

(* Crashes, lost sessions, refused locks and transient errors all draw on  *)
(* one budget: a job is claimed at most MAX_RETRIES + 1 times, whatever    *)
(* mixture of them it meets (worker.py: a crash loop ends 'failed').       *)
ClaimsWithinBudget == \A j \in JobIds : claims[j] <= MaxRetries + 1

(* The result a finished job shows was written for its last claim: no      *)
(* earlier attempt that came back late replaced or pre-empted it.          *)
ResultOfLastClaim ==
  \A j \in JobIds : jobs[j].status \in Terminal => jobs[j].result = claims[j] - 1

(* The encrypted GitHub token is in the row exactly while an attempt may   *)
(* still need it: on every path to a terminal status it is scrubbed, on no *)
(* path back to the queue is it lost.                                      *)
TokenWhileNeeded ==
  \A j \in JobIds : jobs[j].token <=> jobs[j].status \in {"queued", "processing"}

(* A finished job is never reopened or rewritten; retention may delete it. *)
FinishedStaysFinished ==
  [][\A j \in JobIds :
       jobs[j].status \in Terminal =>
         /\ jobs'[j].status \in {jobs[j].status, "purged"}
         /\ jobs'[j].result = jobs[j].result]_vars

(* While a worker with a live session runs the current attempt of a job,   *)
(* only that worker changes the row's status and count, however old its    *)
(* heartbeat looks: the reclaim sweep and the other workers stay off.      *)
RunningAttemptUndisturbed ==
  [][\A w \in Workers :
       /\ pc[w] = "running" /\ online[w] /\ attempt[w] = jobs[job[w]].retries
       /\ pc'[w] = "running"
       => /\ jobs'[job[w]].status = jobs[job[w]].status
          /\ jobs'[job[w]].retries = jobs[job[w]].retries]_vars

(* No job is left behind: whatever is queued ends done or failed, through  *)
(* crashes, stalls, lost sessions and locks held by dead sessions.         *)
EveryJobSettles ==
  \A j \in JobIds : jobs[j].status = "queued" ~> jobs[j].status \in Terminal

(* The queue implements the life cycle its clients rely on.                *)
Lifecycle == INSTANCE JobLifecycle WITH
  status  <- [j \in JobIds |-> jobs[j].status],
  retries <- [j \in JobIds |-> jobs[j].retries],
  token   <- [j \in JobIds |-> jobs[j].token]

ImplementsLifecycle == Lifecycle!Spec

(* worker.py:676-677 says of a refused lock: "reclaim skips locked jobs,   *)
(* so a second claim should be impossible".                                *)
NoSecondClaim ==
  \A v, w \in Workers :
     v # w /\ Engaged(v) /\ online[v] /\ Engaged(w) /\ online[w] => job[v] # job[w]

(* worker.py:49-50: "a heartbeat that can't be written can't get a still-  *)
(* running job reclaimed and run twice".                                   *)
NeverRunTwiceAtOnce ==
  \A v, w \in Workers : v # w /\ pc[v] = "running" /\ pc[w] = "running" => job[v] # job[w]
=============================================================================
