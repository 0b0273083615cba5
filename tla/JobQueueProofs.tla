--------------------------- MODULE JobQueueProofs ---------------------------
(***************************************************************************)
(* Proofs about JobQueue.tla, for any set of jobs and workers, any retry   *)
(* budget and any number of faults.  The argument: a committed claim makes *)
(* the row's retry_count the attempt number of the claimer; the row can    *)
(* only be claimed again from `queued`, where its count is larger than     *)
(* that of every straggler; so attempt numbers tell claims apart, and a    *)
(* write fenced on one can only be the write of the latest claim.          *)
(***************************************************************************)
EXTENDS JobQueue, TLAPS

(* A worker with a live session in its handler owns the job's lock. *)
LockHeld ==
  \A w \in Workers :
     pc[w] \in {"running", "releasing"} /\ online[w] => jobLock[job[w]] = w

(* What a worker that selected or claimed a job knows of its row. *)
SelectInv ==
  \A w \in Workers :
     /\ pc[w] = "claiming" \/ Engaged(w) => job[w] \in JobIds
     /\ pc[w] = "claiming" /\ online[w] =>
          jobs[job[w]].status = "queued" /\ attempt[w] = jobs[job[w]].retries

SelectExclusive ==
  \A v, w \in Workers :
     /\ v # w
     /\ pc[v] = "claiming" /\ online[v]
     /\ pc[w] = "claiming" /\ online[w]
     => job[v] # job[w]

StragglerBehind ==
  \A w \in Workers :
     Engaged(w) =>
       /\ jobs[job[w]].status # "absent"
       /\ attempt[w] <= jobs[job[w]].retries
       /\ jobs[job[w]].status = "queued" => attempt[w] < jobs[job[w]].retries

(* The count, the number of claims and the stored result, row by row. *)
RowInv(j) ==
  /\ jobs[j].status = "absent" => claims[j] = 0 /\ jobs[j].retries = 0
  /\ jobs[j].status = "queued" => claims[j] = jobs[j].retries /\ claims[j] <= MaxRetries
  /\ jobs[j].status = "processing" =>
       claims[j] = jobs[j].retries + 1 /\ claims[j] <= MaxRetries + 1
  /\ jobs[j].status \in Terminal =>
       jobs[j].result = claims[j] - 1 /\ claims[j] <= MaxRetries + 1
  /\ jobs[j].status = "purged" => claims[j] <= MaxRetries + 1
  /\ jobs[j].token <=> jobs[j].status \in {"queued", "processing"}

RowsInv == \A j \in JobIds : RowInv(j)

IndInv == /\ TypeOK
          /\ LockHeld
          /\ SelectInv
          /\ SelectExclusive
          /\ StragglerBehind
          /\ AttemptsUnique
          /\ RowsInv

-----------------------------------------------------------------------------
(* The values the statements put into a row.                               *)

LEMMA ClosedRow ==
  ASSUME NEW row \in Row, NEW s \in Terminal, NEW a \in 0 .. MaxRetries
  PROVE  /\ Closed(row, s, a) \in Row
         /\ Closed(row, s, a).status = s
         /\ Closed(row, s, a).result = a
         /\ Closed(row, s, a).retries = row.retries
         /\ ~Closed(row, s, a).token
BY QueueAssumption DEF Row, Closed, Terminal

LEMMA RequeuedRow ==
  ASSUME NEW row \in Row, NEW a \in 0 .. MaxRetries
  PROVE  /\ Requeued(row, a) \in Row
         /\ Requeued(row, a).retries = a + 1
         /\ Requeued(row, a).result = a
         /\ a < MaxRetries => /\ Requeued(row, a).status = "queued"
                              /\ Requeued(row, a).token = row.token
         /\ a = MaxRetries => /\ Requeued(row, a).status = "failed"
                              /\ Requeued(row, a).token = FALSE
<1>0. a + 1 \in 0 .. MaxRetries + 1
  BY QueueAssumption
<1>1. CASE a = MaxRetries
  <2> DEFINE closed == Closed(row, "failed", a)
  <2>1. /\ closed \in Row /\ closed.status = "failed"
        /\ closed.result = a /\ closed.token = FALSE
    BY ClosedRow DEF Terminal
  <2>2. Requeued(row, a) = [closed EXCEPT !.retries = a + 1]
    BY <1>1, QueueAssumption DEF Requeued
  <2> HIDE DEF closed
  <2>3. QED BY <1>0, <1>1, <2>1, <2>2 DEF Row
<1>2. CASE a # MaxRetries
  <2>1. Requeued(row, a) =
          [row EXCEPT !.status = "queued", !.retries = a + 1, !.result = a, !.age = "fresh"]
    BY <1>2, QueueAssumption DEF Requeued
  <2>2. QED BY <1>0, <1>2, <2>1 DEF Row
<1>3. QED BY <1>1, <1>2

LEMMA ReclaimedRow ==
  ASSUME NEW row \in Row, row.retries <= MaxRetries
  PROVE  /\ Reclaimed(row) \in Row
         /\ Reclaimed(row).retries = row.retries + 1
         /\ row.retries < MaxRetries => /\ Reclaimed(row).status = "queued"
                                        /\ Reclaimed(row).token = row.token
         /\ row.retries = MaxRetries => /\ Reclaimed(row).status = "failed"
                                        /\ Reclaimed(row).token = FALSE
                                        /\ Reclaimed(row).result = row.retries
<1>0. row.retries \in 0 .. MaxRetries /\ row.retries + 1 \in 0 .. MaxRetries + 1
  BY QueueAssumption DEF Row
<1>1. CASE row.retries = MaxRetries
  <2> DEFINE closed == Closed(row, "failed", row.retries)
  <2>1. /\ closed \in Row /\ closed.status = "failed"
        /\ closed.result = row.retries /\ closed.token = FALSE
    BY <1>0, ClosedRow DEF Terminal
  <2>2. Reclaimed(row) = [closed EXCEPT !.retries = row.retries + 1]
    BY <1>1, QueueAssumption DEF Reclaimed
  <2> HIDE DEF closed
  <2>3. QED BY <1>0, <1>1, <2>1, <2>2 DEF Row
<1>2. CASE row.retries # MaxRetries
  <2>1. Reclaimed(row) =
          [row EXCEPT !.status = "queued", !.retries = row.retries + 1, !.age = "fresh"]
    BY <1>0, <1>2, QueueAssumption DEF Reclaimed
  <2>2. QED BY <1>0, <1>2, <2>1 DEF Row
<1>3. QED BY <1>1, <1>2

-----------------------------------------------------------------------------
(* One lemma per step of the code.                                         *)

LEMMA RowType ==
  ASSUME NEW row \in Row
  PROVE  row.retries \in 0 .. MaxRetries + 1 /\ row.retries \in Int
BY QueueAssumption DEF Row

LEMMA InitInd == Init => IndInv
BY QueueAssumption
   DEF Init, IndInv, TypeOK, Row, PC, LockHeld, SelectInv, SelectExclusive, StragglerBehind,
       AttemptsUnique, RowsInv, RowInv, Engaged, Terminal, NoResult

(* Rows move forward: a row once enqueued stays enqueued, its count never  *)
(* falls, and it returns to `queued` only with a larger count.             *)
Advances ==
  \A j \in JobIds :
     /\ jobs[j].status # "absent" => jobs'[j].status # "absent"
     /\ jobs'[j].retries >= jobs[j].retries
     /\ jobs[j].status \notin {"absent", "queued"} /\ jobs'[j].status = "queued"
          => jobs'[j].retries > jobs[j].retries
     /\ jobs[j].status = "queued"
          => jobs'[j].status = "queued" /\ jobs'[j].retries = jobs[j].retries

(* No worker takes a job it did not already hold. *)
NoNewClaim ==
  \A v \in Workers :
     /\ Engaged(v)' => Engaged(v) /\ job'[v] = job[v] /\ attempt'[v] = attempt[v]
     /\ pc'[v] = "claiming" =>
          /\ pc[v] = "claiming" /\ job'[v] = job[v] /\ attempt'[v] = attempt[v]
          /\ online'[v] => online[v]

LEMMA ClaimsKept ==
  ASSUME IndInv, jobs' \in [JobIds -> Row], Advances, NoNewClaim
  PROVE  SelectInv' /\ SelectExclusive' /\ StragglerBehind' /\ AttemptsUnique'
<1> USE DEF IndInv, NoNewClaim
<1>1. SelectInv'
  BY DEF SelectInv, Advances
<1>2. SelectExclusive'
  BY DEF SelectExclusive
<1>3. StragglerBehind'
  <2> SUFFICES ASSUME NEW w \in Workers, Engaged(w)'
               PROVE  /\ jobs'[job'[w]].status # "absent"
                      /\ attempt'[w] <= jobs'[job'[w]].retries
                      /\ jobs'[job'[w]].status = "queued" => attempt'[w] < jobs'[job'[w]].retries
    BY DEF StragglerBehind
  <2>1. /\ job'[w] = job[w] /\ attempt'[w] = attempt[w] /\ job[w] \in JobIds
        /\ jobs[job[w]].status # "absent"
        /\ attempt[w] <= jobs[job[w]].retries
        /\ jobs[job[w]].status = "queued" => attempt[w] < jobs[job[w]].retries
    BY DEF SelectInv, StragglerBehind
  <2>2. attempt[w] \in Int /\ jobs[job[w]] \in Row /\ jobs'[job[w]] \in Row
    <3>1. attempt[w] \in 0 .. MaxRetries + 1 /\ jobs \in [JobIds -> Row]
      BY DEF TypeOK
    <3>2. attempt[w] \in Int
      BY <3>1, QueueAssumption
    <3> QED BY <2>1, <3>1, <3>2
  <2>3. jobs[job[w]].retries \in Int /\ jobs'[job[w]].retries \in Int
    BY <2>2, RowType
  <2>4. QED BY <2>1, <2>2, <2>3 DEF Advances
<1>4. AttemptsUnique'
  BY DEF AttemptsUnique
<1> QED BY <1>1, <1>2, <1>3, <1>4

LEMMA RowUpdates ==
  ASSUME NEW row \in Row
  PROVE  /\ [row EXCEPT !.status = "queued", !.token = TRUE] \in Row
         /\ [row EXCEPT !.status = "processing", !.age = "fresh"] \in Row
         /\ [row EXCEPT !.status = "purged"] \in Row
         /\ \A a \in {"due", "stale"} : [row EXCEPT !.age = a] \in Row
         /\ \A h \in {"recent", "old"} : [row EXCEPT !.heartbeat = h] \in Row
BY DEF Row

(* Steps that leave status, count, result and token of every row alone. *)
LEMMA RowsSame ==
  ASSUME IndInv, UNCHANGED claims,
         \A j \in JobIds : /\ jobs'[j].status = jobs[j].status
                           /\ jobs'[j].retries = jobs[j].retries
                           /\ jobs'[j].result = jobs[j].result
                           /\ jobs'[j].token = jobs[j].token
  PROVE  RowsInv' /\ Advances
<1>1. RowsInv'
  BY DEF IndInv, RowsInv, RowInv
<1>2. \A j \in JobIds : jobs[j].retries \in Int
  BY QueueAssumption DEF IndInv, TypeOK, Row
<1> QED BY <1>1, <1>2 DEF Advances

LEMMA EnqueueInd ==
  ASSUME IndInv, NEW j \in JobIds, Enqueue(j)
  PROVE  IndInv'
<1> USE QueueAssumption DEF Enqueue
<1>0. TypeOK /\ jobs[j] \in Row
  BY DEF IndInv, TypeOK
<1>1. jobs' = [jobs EXCEPT ![j] = [jobs[j] EXCEPT !.status = "queued", !.token = TRUE]]
  BY <1>0 DEF TypeOK
<1>2. TypeOK'
  BY <1>0, <1>1, RowUpdates DEF TypeOK
<1>3. LockHeld'
  BY DEF IndInv, LockHeld
<1>4. Advances
  BY <1>0, <1>1 DEF Advances, TypeOK, Row
<1>5. NoNewClaim
  BY DEF NoNewClaim, Engaged
<1>6. RowsInv'
  BY <1>0, <1>1 DEF IndInv, RowsInv, RowInv, TypeOK, Row, Terminal
<1> QED BY <1>2, <1>3, <1>4, <1>5, <1>6, ClaimsKept DEF IndInv, TypeOK

LEMMA PurgeInd ==
  ASSUME IndInv, Purge
  PROVE  IndInv'
<1>0. PICK S \in SUBSET Expired :
      jobs' = [j \in JobIds |-> IF j \in S THEN [jobs[j] EXCEPT !.status = "purged"] ELSE jobs[j]]
  BY DEF Purge
<1>1. /\ TypeOK /\ \A j \in JobIds : jobs[j] \in Row /\ jobs'[j] \in Row
      /\ UNCHANGED <<jobLock, pc, job, attempt, online, claims, faults>>
  <2>1. TypeOK /\ UNCHANGED <<jobLock, pc, job, attempt, online, claims, faults>>
    BY DEF IndInv, Purge
  <2>2. \A j \in JobIds : jobs[j] \in Row
    BY <2>1 DEF TypeOK
  <2>3. \A j \in JobIds : [jobs[j] EXCEPT !.status = "purged"] \in Row
    BY <2>2, RowUpdates
  <2> QED BY <1>0, <2>1, <2>2, <2>3
<1>2. TypeOK'
  BY <1>0, <1>1 DEF TypeOK
<1>3. LockHeld'
  BY <1>1 DEF IndInv, LockHeld
<1>4. \A j \in JobIds :
        \/ jobs'[j] = jobs[j]
        \/ /\ jobs[j].status \in Terminal /\ jobs'[j].status = "purged"
           /\ jobs'[j].retries = jobs[j].retries /\ jobs'[j].token = jobs[j].token
  <2> SUFFICES ASSUME NEW j \in JobIds, j \in S
               PROVE  /\ jobs[j].status \in Terminal /\ jobs'[j].status = "purged"
                      /\ jobs'[j].retries = jobs[j].retries /\ jobs'[j].token = jobs[j].token
    BY <1>0
  <2>1. jobs'[j] = [jobs[j] EXCEPT !.status = "purged"] /\ jobs[j] \in Row
    BY <1>0, <1>1
  <2> QED BY <2>1 DEF Expired, Row
<1>5. Advances
  <2>1. \A j \in JobIds : jobs[j].retries \in Int
    BY <1>1, RowType
  <2>2. ASSUME NEW j \in JobIds, jobs'[j].status = "queued" \/ jobs[j].status = "queued"
        PROVE  jobs'[j] = jobs[j]
    BY <1>4, <2>2 DEF Terminal
  <2>3. ASSUME NEW j \in JobIds
        PROVE  jobs'[j].retries = jobs[j].retries
    BY <1>4
  <2> QED BY <1>4, <2>1, <2>2, <2>3 DEF Advances, Terminal
<1>6. NoNewClaim
  BY <1>1 DEF NoNewClaim, Engaged
<1>7. RowsInv'
  BY <1>1, <1>4 DEF IndInv, RowsInv, RowInv, Terminal
<1> QED BY <1>2, <1>3, <1>5, <1>6, <1>7, ClaimsKept DEF IndInv, TypeOK

LEMMA TimeInd ==
  ASSUME IndInv, NEW j \in JobIds, TimeStep(j)
  PROVE  IndInv'
<1>0. TypeOK /\ jobs[j] \in Row
  BY DEF IndInv, TypeOK
<1>1. CASE RowAges(j)
  <2> USE DEF RowAges
  <2>1. \E a \in {"due", "stale"} : jobs' = [jobs EXCEPT ![j] = [jobs[j] EXCEPT !.age = a]]
    BY <1>0, <1>1 DEF TypeOK
  <2>2. TypeOK'
    BY <1>0, <1>1, <2>1, RowUpdates DEF TypeOK
  <2>3. LockHeld' /\ NoNewClaim
    BY <1>1 DEF IndInv, LockHeld, NoNewClaim, Engaged
  <2>4. RowsInv' /\ Advances
    BY <1>0, <1>1, <2>1, RowsSame DEF TypeOK, Row
  <2>5. QED BY <2>2, <2>3, <2>4, ClaimsKept DEF IndInv, TypeOK
<1>2. CASE HeartbeatLapses(j)
  <2> USE DEF HeartbeatLapses
  <2>1. jobs' = [jobs EXCEPT ![j] = [jobs[j] EXCEPT !.heartbeat = "old"]]
    BY <1>0, <1>2 DEF TypeOK
  <2>2. TypeOK'
    BY <1>0, <1>2, <2>1, RowUpdates DEF TypeOK
  <2>3. LockHeld' /\ NoNewClaim
    BY <1>2 DEF IndInv, LockHeld, NoNewClaim, Engaged
  <2>4. RowsInv' /\ Advances
    BY <1>0, <1>2, <2>1, RowsSame DEF TypeOK, Row
  <2>5. QED BY <2>2, <2>3, <2>4, ClaimsKept DEF IndInv, TypeOK
<1>3. CASE DeadSessionEnds(j)
  <2> USE DEF DeadSessionEnds
  <2>1. TypeOK' /\ NoNewClaim
    BY <1>0, <1>3 DEF TypeOK, NoNewClaim, Engaged
  <2>2. LockHeld'
    BY <1>0, <1>3, QueueAssumption DEF IndInv, LockHeld, TypeOK, SelectInv, Engaged
  <2>3. RowsInv' /\ Advances
    BY <1>3, RowsSame
  <2>4. QED BY <2>1, <2>2, <2>3, ClaimsKept DEF IndInv, TypeOK
<1> QED BY <1>1, <1>2, <1>3 DEF TimeStep

LEMMA ReclaimInd ==
  ASSUME IndInv, NEW w \in Workers, ReclaimStale(w)
  PROVE  IndInv'
<1>1. /\ TypeOK
      /\ jobs' = [j \in JobIds |-> IF Reclaimable(j) THEN Reclaimed(jobs[j]) ELSE jobs[j]]
      /\ pc' = [pc EXCEPT ![w] = "polling"]
      /\ UNCHANGED <<jobLock, job, attempt, online, claims, faults>>
  BY DEF IndInv, ReclaimStale, Goto
<1>2. ASSUME NEW j \in JobIds, Reclaimable(j)
      PROVE  /\ jobs[j] \in Row /\ jobs[j].status = "processing" /\ jobs[j].token
             /\ jobs[j].retries <= MaxRetries /\ claims[j] = jobs[j].retries + 1
  <2>1. RowInv(j) /\ jobs[j] \in Row /\ claims[j] \in Nat
    BY <1>1 DEF IndInv, RowsInv, TypeOK
  <2>2. jobs[j].retries \in Int
    BY <2>1, RowType
  <2> QED BY <1>2, <2>1, <2>2, QueueAssumption DEF RowInv, Reclaimable
<1>3. ASSUME NEW j \in JobIds, Reclaimable(j)
      PROVE  /\ jobs'[j] \in Row /\ jobs'[j].retries = jobs[j].retries + 1
             /\ \/ /\ jobs'[j].status = "queued" /\ jobs'[j].token
                   /\ jobs[j].retries < MaxRetries
                \/ /\ jobs'[j].status = "failed" /\ ~jobs'[j].token
                   /\ jobs[j].retries = MaxRetries
                   /\ jobs'[j].result = jobs[j].retries
  <2>1. jobs'[j] = Reclaimed(jobs[j])
    BY <1>1, <1>3
  <2>2. jobs[j].retries \in Int
    BY <1>2, <1>3, RowType
  <2>3. jobs[j].retries < MaxRetries \/ jobs[j].retries = MaxRetries
    BY <1>2, <1>3, <2>2, QueueAssumption
  <2> QED BY <1>2, <1>3, <2>1, <2>3, ReclaimedRow
<1>4. ASSUME NEW j \in JobIds, ~Reclaimable(j)
      PROVE  jobs'[j] = jobs[j]
  BY <1>1, <1>4
<1>5. TypeOK'
  <2>1. \A j \in JobIds : jobs'[j] \in Row
    BY <1>1, <1>3, <1>4 DEF TypeOK
  <2> QED BY <1>1, <2>1 DEF TypeOK, PC
<1>6. LockHeld'
  BY <1>1 DEF IndInv, LockHeld, TypeOK
<1>7. Advances
  <2> SUFFICES ASSUME NEW j \in JobIds
               PROVE  Advances!(j)
    BY DEF Advances
  <2>1. jobs[j].retries \in Int
    BY <1>1, RowType DEF TypeOK
  <2> QED BY <1>2, <1>3, <1>4, <2>1
<1>8. NoNewClaim
  BY <1>1 DEF NoNewClaim, Engaged, TypeOK
<1>9. RowsInv'
  <2> SUFFICES ASSUME NEW j \in JobIds
               PROVE  RowInv(j)'
    BY DEF RowsInv
  <2>1. CASE ~Reclaimable(j)
    BY <1>1, <1>4, <2>1 DEF IndInv, RowsInv, RowInv
  <2>2. CASE Reclaimable(j)
    <3>1. jobs[j].retries \in Int
      BY <1>1, RowType DEF TypeOK
    <3> QED BY <1>1, <1>2, <1>3, <2>2, <3>1, QueueAssumption DEF RowInv, Terminal
  <2> QED BY <2>1, <2>2
<1> QED BY <1>5, <1>6, <1>7, <1>8, <1>9, ClaimsKept DEF IndInv, TypeOK

LEMMA NothingDueInd ==
  ASSUME IndInv, NEW w \in Workers, NothingDue(w)
  PROVE  IndInv'
<1> USE DEF NothingDue, Goto
<1>1. TypeOK'
  BY DEF IndInv, TypeOK, PC
<1>2. LockHeld' /\ NoNewClaim
  BY DEF IndInv, LockHeld, NoNewClaim, Engaged, TypeOK
<1>3. RowsInv' /\ Advances
  BY RowsSame
<1> QED BY <1>1, <1>2, <1>3, ClaimsKept DEF IndInv, TypeOK

LEMMA SelectJobInd ==
  ASSUME IndInv, NEW w \in Workers, SelectJob(w)
  PROVE  IndInv'
<1>1. PICK j \in Claimable : /\ job' = [job EXCEPT ![w] = j]
                             /\ attempt' = [attempt EXCEPT ![w] = jobs[j].retries]
  BY DEF SelectJob
<1>2. /\ TypeOK
      /\ pc' = [pc EXCEPT ![w] = "claiming"]
      /\ UNCHANGED <<jobs, jobLock, online, claims, faults>>
  BY DEF IndInv, SelectJob, Goto
<1>3. /\ j \in JobIds /\ jobs[j].status = "queued"
      /\ \A v \in Workers : pc[v] = "claiming" /\ online[v] => job[v] # j
  BY DEF Claimable, Due, RowLocked
<1>4. TypeOK'
  <2>1. jobs[j].retries \in 0 .. MaxRetries + 1
    BY <1>2, <1>3, RowType DEF TypeOK
  <2> QED BY <1>1, <1>2, <1>3, <2>1 DEF TypeOK, PC
<1>5. LockHeld'
  BY <1>1, <1>2 DEF IndInv, LockHeld, TypeOK
<1>6. SelectInv'
  BY <1>1, <1>2, <1>3 DEF IndInv, SelectInv, Engaged, TypeOK
<1>7. SelectExclusive'
  BY <1>1, <1>2, <1>3 DEF IndInv, SelectExclusive, TypeOK
<1>8. StragglerBehind' /\ AttemptsUnique'
  BY <1>1, <1>2 DEF IndInv, StragglerBehind, AttemptsUnique, Engaged, TypeOK
<1>9. RowsInv'
  BY <1>2 DEF IndInv, RowsInv, RowInv
<1> QED BY <1>4, <1>5, <1>6, <1>7, <1>8, <1>9 DEF IndInv

LEMMA CommitClaimInd ==
  ASSUME IndInv, NEW w \in Workers, CommitClaim(w)
  PROVE  IndInv'
<1> DEFINE j == job[w]
<1>1. /\ TypeOK /\ RowsInv
      /\ pc[w] = "claiming" /\ online[w]
      /\ claims' = [claims EXCEPT ![j] = @ + 1]
      /\ pc' = [pc EXCEPT ![w] = "claimed"]
      /\ UNCHANGED <<jobLock, job, attempt, online, faults>>
  BY DEF IndInv, CommitClaim, Goto
<1>2. /\ j \in JobIds /\ jobs[j].status = "queued" /\ attempt[w] = jobs[j].retries
      /\ jobs[j] \in Row /\ jobs[j].retries \in Int /\ claims[j] \in Nat
  <2>1. j \in JobIds /\ jobs[j].status = "queued" /\ attempt[w] = jobs[j].retries
    BY <1>1 DEF IndInv, SelectInv
  <2> QED BY <1>1, <2>1, RowType DEF TypeOK
<1>3. jobs' = [jobs EXCEPT ![j] = [jobs[j] EXCEPT !.status = "processing", !.age = "fresh"]]
  BY <1>1, <1>2 DEF CommitClaim, TypeOK
<1>4. /\ jobs'[j] \in Row /\ jobs'[j].status = "processing"
      /\ jobs'[j].retries = jobs[j].retries /\ jobs'[j].token = jobs[j].token
      /\ \A k \in JobIds : k # j => jobs'[k] = jobs[k]
  <2>1. jobs'[j] = [jobs[j] EXCEPT !.status = "processing", !.age = "fresh"]
    BY <1>1, <1>2, <1>3 DEF TypeOK
  <2>2. jobs'[j] \in Row
    BY <1>2, <2>1, RowUpdates
  <2>3. /\ jobs'[j].status = "processing"
        /\ jobs'[j].retries = jobs[j].retries /\ jobs'[j].token = jobs[j].token
    BY <1>2, <2>1 DEF Row
  <2>4. \A k \in JobIds : k # j => jobs'[k] = jobs[k]
    BY <1>1, <1>2, <1>3 DEF TypeOK
  <2> QED BY <2>2, <2>3, <2>4
<1> HIDE DEF j
<1>5. TypeOK'
  <2>1. jobs' \in [JobIds -> Row]
    BY <1>1, <1>2, <1>3, RowUpdates DEF TypeOK
  <2>2. claims' \in [JobIds -> Nat] /\ pc' \in [Workers -> PC]
    BY <1>1, <1>2 DEF TypeOK, PC
  <2> QED BY <1>1, <2>1, <2>2 DEF TypeOK
<1>6. LockHeld'
  BY <1>1 DEF IndInv, LockHeld, TypeOK
<1>7. SelectInv'
  BY <1>1, <1>2, <1>4 DEF IndInv, SelectInv, SelectExclusive, Engaged, TypeOK, j
<1>8. SelectExclusive'
  BY <1>1 DEF IndInv, SelectExclusive, TypeOK
<1>9. StragglerBehind'
  <2> SUFFICES ASSUME NEW v \in Workers, Engaged(v)'
               PROVE  StragglerBehind!(v)!2'
    BY DEF StragglerBehind
  <2>1. CASE v = w
    BY <1>1, <1>2, <1>4, <2>1 DEF j
  <2>2. CASE v # w
    <3>1. Engaged(v) /\ job'[v] = job[v] /\ attempt'[v] = attempt[v]
      BY <1>1, <2>2 DEF Engaged, TypeOK
    <3>2. CASE job[v] # j
      BY <1>4, <3>1, <3>2 DEF IndInv, StragglerBehind, SelectInv
    <3>3. CASE job[v] = j
      BY <1>2, <1>4, <3>1, <3>3, QueueAssumption DEF IndInv, StragglerBehind, TypeOK
    <3> QED BY <3>2, <3>3
  <2> QED BY <2>1, <2>2
<1>10. AttemptsUnique'
  <2>1. ASSUME NEW v \in Workers, v # w, Engaged(v), job[v] = j
        PROVE  attempt[v] # attempt[w]
    BY <1>2, <2>1, QueueAssumption DEF IndInv, StragglerBehind, TypeOK
  <2>2. \A v \in Workers : v # w => (Engaged(v)' <=> Engaged(v))
    BY <1>1 DEF Engaged, TypeOK
  <2>3. /\ \A v \in Workers : v # w /\ Engaged(v)' /\ job[v] = job[w] => attempt[v] # attempt[w]
        /\ UNCHANGED <<job, attempt>>
    BY <1>1, <2>1, <2>2 DEF j
  <2>4. \A u, v \in Workers :
          u # v /\ Engaged(u) /\ Engaged(v) /\ job[u] = job[v] => attempt[u] # attempt[v]
    BY DEF IndInv, AttemptsUnique
  <2> QED BY <2>2, <2>3, <2>4 DEF AttemptsUnique
<1>11. RowsInv'
  <2> SUFFICES ASSUME NEW k \in JobIds
               PROVE  RowInv(k)'
    BY DEF RowsInv
  <2>1. CASE k = j
    BY <1>1, <1>2, <1>4, <2>1, QueueAssumption DEF RowsInv, RowInv, TypeOK, Terminal
  <2>2. CASE k # j
    BY <1>1, <1>4, <2>2 DEF RowsInv, RowInv, TypeOK
  <2> QED BY <2>1, <2>2
<1> QED BY <1>5, <1>6, <1>7, <1>8, <1>9, <1>10, <1>11 DEF IndInv

LEMMA AcquireInd ==
  ASSUME IndInv, NEW w \in Workers, AcquireJobLock(w)
  PROVE  IndInv'
<1>1. /\ TypeOK /\ pc[w] = "claimed" /\ online[w] /\ job[w] \in JobIds
      /\ UNCHANGED <<jobs, job, attempt, online, claims, faults>>
      /\ \/ /\ jobLock[job[w]] = NoOwner
            /\ jobLock' = [jobLock EXCEPT ![job[w]] = w]
            /\ pc' = [pc EXCEPT ![w] = "running"]
         \/ jobLock' = jobLock /\ pc' = [pc EXCEPT ![w] = "refused"]
  BY DEF IndInv, AcquireJobLock, Goto, SelectInv, Engaged
<1>2. TypeOK'
  BY <1>1 DEF TypeOK, PC
<1>3. LockHeld'
  <2> SUFFICES ASSUME NEW v \in Workers, pc'[v] \in {"running", "releasing"}, online[v]
               PROVE  jobLock'[job[v]] = v
    BY <1>1 DEF LockHeld
  <2>1. CASE v = w
    BY <1>1, <2>1 DEF TypeOK
  <2>2. CASE v # w
    <3>1. pc[v] \in {"running", "releasing"}
      BY <1>1, <2>2 DEF TypeOK
    <3>2. jobLock[job[v]] = v /\ job[v] \in JobIds
      BY <3>1 DEF IndInv, LockHeld, SelectInv, Engaged
    <3>3. v # NoOwner
      BY QueueAssumption
    <3> QED BY <1>1, <3>2, <3>3 DEF TypeOK
  <2> QED BY <2>1, <2>2
<1>4. NoNewClaim
  BY <1>1 DEF NoNewClaim, Engaged, TypeOK
<1>5. RowsInv' /\ Advances
  BY <1>1, RowsSame
<1> QED BY <1>2, <1>3, <1>4, <1>5, ClaimsKept DEF IndInv, TypeOK

LEMMA HeartbeatInd ==
  ASSUME IndInv, NEW w \in Workers, Heartbeat(w)
  PROVE  IndInv'
<1> DEFINE j == job[w]
<1>1. /\ TypeOK /\ j \in JobIds /\ jobs[j] \in Row
      /\ UNCHANGED <<jobLock, pc, job, attempt, online, claims, faults>>
  BY DEF IndInv, Heartbeat, SelectInv, Engaged, TypeOK
<1>2. jobs' = [jobs EXCEPT ![j] = [jobs[j] EXCEPT !.heartbeat = "recent"]]
  BY <1>1 DEF Heartbeat, TypeOK
<1> HIDE DEF j
<1>3. TypeOK'
  BY <1>1, <1>2, RowUpdates DEF TypeOK
<1>4. LockHeld' /\ NoNewClaim
  BY <1>1 DEF IndInv, LockHeld, NoNewClaim, Engaged
<1>5. RowsInv' /\ Advances
  <2>1. \A k \in JobIds : k # j => jobs'[k] = jobs[k]
    BY <1>1, <1>2 DEF TypeOK
  <2>2. jobs'[j] = [jobs[j] EXCEPT !.heartbeat = "recent"]
    BY <1>1, <1>2 DEF TypeOK
  <2>3. /\ jobs'[j].status = jobs[j].status /\ jobs'[j].retries = jobs[j].retries
        /\ jobs'[j].result = jobs[j].result /\ jobs'[j].token = jobs[j].token
    BY <1>1, <2>2 DEF Row
  <2> QED BY <1>1, <2>1, <2>3, RowsSame
<1> QED BY <1>3, <1>4, <1>5, ClaimsKept DEF IndInv, TypeOK

(* What a worker that still owns the current attempt writes. *)
LEMMA OutcomeRow ==
  ASSUME IndInv, NEW w \in Workers, Engaged(w), NEW new,
         \/ \E s \in Terminal : new = Closed(jobs[job[w]], s, attempt[w])
         \/ new = Requeued(jobs[job[w]], attempt[w]),
         jobs[job[w]].status = "processing", jobs[job[w]].retries = attempt[w]
  PROVE  /\ attempt[w] \in 0 .. MaxRetries
         /\ claims[job[w]] = attempt[w] + 1 /\ jobs[job[w]].token
         /\ new \in Row /\ new.result = attempt[w]
         /\ \/ new.status \in Terminal /\ new.retries = attempt[w] /\ ~new.token
            \/ new.status = "queued" /\ new.retries = attempt[w] + 1 /\ new.token
               /\ attempt[w] < MaxRetries
            \/ new.status = "failed" /\ new.retries = attempt[w] + 1 /\ ~new.token
               /\ attempt[w] = MaxRetries
<1> DEFINE j == job[w]
           a == attempt[w]
<1>1. /\ TypeOK /\ RowsInv /\ j \in JobIds /\ jobs[j] \in Row
      /\ jobs[j].retries \in Int /\ claims[j] \in Nat
  <2>1. j \in JobIds /\ TypeOK /\ RowsInv
    BY DEF IndInv, SelectInv
  <2> QED BY <2>1, RowType DEF TypeOK
<1>2. /\ a \in 0 .. MaxRetries /\ claims[j] = a + 1 /\ jobs[j].token
  <2>1. RowInv(j) /\ jobs[j].retries \in 0 .. MaxRetries + 1
    BY <1>1, RowType DEF RowsInv
  <2> QED BY <1>1, <2>1, QueueAssumption DEF RowInv
<1>3. /\ new \in Row /\ new.result = a
      /\ \/ new.status \in Terminal /\ new.retries = a /\ ~new.token
         \/ new.status = "queued" /\ new.retries = a + 1 /\ new.token /\ a < MaxRetries
         \/ new.status = "failed" /\ new.retries = a + 1 /\ ~new.token /\ a = MaxRetries
  <2>1. CASE \E s \in Terminal : new = Closed(jobs[j], s, a)
    <3>1. PICK t \in Terminal : new = Closed(jobs[j], t, a)
      BY <2>1
    <3>2. /\ new \in Row /\ new.status = t /\ new.result = a
          /\ new.retries = jobs[j].retries /\ ~new.token
      <4>1. jobs[j] \in Row /\ a \in 0 .. MaxRetries /\ t \in Terminal
        BY <1>1, <1>2, <3>1
      <4> HIDE DEF j, a
      <4>2. /\ Closed(jobs[j], t, a) \in Row /\ Closed(jobs[j], t, a).status = t
            /\ Closed(jobs[j], t, a).result = a /\ ~Closed(jobs[j], t, a).token
            /\ Closed(jobs[j], t, a).retries = jobs[j].retries
        BY <4>1, ClosedRow
      <4> QED BY <3>1, <4>2
    <3> QED BY <3>1, <3>2
  <2>2. CASE new = Requeued(jobs[j], a)
    <3>1. a < MaxRetries \/ a = MaxRetries
      BY <1>2, QueueAssumption
    <3>2. /\ new \in Row /\ new.retries = a + 1 /\ new.result = a
          /\ a < MaxRetries => new.status = "queued" /\ new.token = jobs[j].token
          /\ a = MaxRetries => new.status = "failed" /\ new.token = FALSE
      <4>1. jobs[j] \in Row /\ a \in 0 .. MaxRetries
        BY <1>1, <1>2
      <4> HIDE DEF j, a
      <4> QED BY <2>2, <4>1, RequeuedRow
    <3> QED BY <1>2, <3>1, <3>2 DEF Terminal
  <2> QED BY <2>1, <2>2
<1> QED BY <1>2, <1>3

(* A fenced write by a worker that holds a claim, whatever outcome it      *)
(* writes: it lands only if the claim is the latest, and then closes it.   *)
LEMMA FencedWrite ==
  ASSUME IndInv, NEW w \in Workers, Engaged(w), UNCHANGED claims, NEW new,
         \/ \E s \in Terminal : new = Closed(jobs[job[w]], s, attempt[w])
         \/ new = Requeued(jobs[job[w]], attempt[w]),
         FencedUpdate(job[w], attempt[w], new)
  PROVE  jobs' \in [JobIds -> Row] /\ RowsInv' /\ Advances
<1> DEFINE j == job[w]
           a == attempt[w]
<1>1. /\ TypeOK /\ RowsInv /\ j \in JobIds /\ jobs[j] \in Row
      /\ jobs[j].retries \in Int /\ claims[j] \in Nat
  <2>1. j \in JobIds /\ TypeOK /\ RowsInv
    BY DEF IndInv, SelectInv
  <2> QED BY <2>1, RowType DEF TypeOK
<1>2. CASE ~(jobs[j].status = "processing" /\ jobs[j].retries = a)
  <2>1. jobs' = jobs
    BY <1>2 DEF FencedUpdate
  <2> QED BY <1>1, <2>1, RowsSame DEF TypeOK
<1>3. CASE jobs[j].status = "processing" /\ jobs[j].retries = a
  <2>1. /\ a \in 0 .. MaxRetries /\ claims[j] = a + 1 /\ jobs[j].token
        /\ new \in Row /\ new.result = a /\ new.retries \in {a, a + 1}
        /\ \/ new.status \in Terminal /\ ~new.token
           \/ new.status = "queued" /\ new.token /\ new.retries = a + 1 /\ a < MaxRetries
    BY <1>3, OutcomeRow DEF Terminal
  <2>3. jobs' = [jobs EXCEPT ![j] = new]
    BY <1>3 DEF FencedUpdate
  <2> HIDE DEF j, a
  <2>4. jobs'[j] = new /\ \A k \in JobIds : k # j => jobs'[k] = jobs[k]
    BY <1>1, <2>3 DEF TypeOK
  <2>5. jobs' \in [JobIds -> Row]
    BY <1>1, <2>1, <2>3 DEF TypeOK
  <2>6. RowsInv'
    <3> SUFFICES ASSUME NEW k \in JobIds
                 PROVE  RowInv(k)'
      BY DEF RowsInv
    <3>1. CASE k = j
      BY <1>1, <2>1, <2>4, <3>1, QueueAssumption DEF RowInv, Terminal
    <3>2. CASE k # j
      BY <1>1, <2>4, <3>2 DEF RowsInv, RowInv
    <3> QED BY <3>1, <3>2
  <2>7. Advances
    <3> SUFFICES ASSUME NEW k \in JobIds
                 PROVE  Advances!(k)
      BY DEF Advances
    <3>1. CASE k = j
      BY <1>1, <1>3, <2>1, <2>4, <3>1, QueueAssumption DEF Terminal
    <3>2. CASE k # j
      <4>1. jobs[k].retries \in Int
        BY <1>1, RowType DEF TypeOK
      <4> QED BY <2>4, <3>2, <4>1
    <3> QED BY <3>1, <3>2
  <2> QED BY <2>5, <2>6, <2>7
<1> QED BY <1>2, <1>3

LEMMA RequeueRefusedInd ==
  ASSUME IndInv, NEW w \in Workers, RequeueRefused(w)
  PROVE  IndInv'
<1>1. /\ TypeOK /\ Engaged(w)
      /\ FencedUpdate(job[w], attempt[w], Requeued(jobs[job[w]], attempt[w]))
      /\ pc' = [pc EXCEPT ![w] = "idle"]
      /\ job' = [job EXCEPT ![w] = NoJob] /\ attempt' = [attempt EXCEPT ![w] = 0]
      /\ UNCHANGED <<jobLock, online, claims, faults>>
  BY DEF IndInv, RequeueRefused, BackToPoll, Goto, Engaged
<1>2. jobs' \in [JobIds -> Row] /\ RowsInv' /\ Advances
  BY <1>1, FencedWrite
<1>3. TypeOK'
  BY <1>1, <1>2, QueueAssumption DEF TypeOK, PC
<1>4. LockHeld' /\ NoNewClaim
  BY <1>1 DEF IndInv, LockHeld, NoNewClaim, Engaged, TypeOK
<1> QED BY <1>2, <1>3, <1>4, ClaimsKept DEF IndInv

LEMMA OutcomeInd ==
  ASSUME IndInv, NEW w \in Workers, MarkDone(w) \/ MarkFailed(w) \/ RequeueForRetry(w)
  PROVE  IndInv'
<1>1. PICK new :
        /\ \/ \E s \in Terminal : new = Closed(jobs[job[w]], s, attempt[w])
           \/ new = Requeued(jobs[job[w]], attempt[w])
        /\ Outcome(w, new)
  BY DEF MarkDone, MarkFailed, RequeueForRetry, Terminal
<1>2. /\ TypeOK /\ Engaged(w) /\ pc[w] = "running" /\ online[w]
      /\ FencedUpdate(job[w], attempt[w], new)
      /\ pc' = [pc EXCEPT ![w] = "releasing"]
      /\ UNCHANGED <<jobLock, job, attempt, online, claims, faults>>
  BY <1>1 DEF IndInv, Outcome, Goto, Engaged
<1>3. jobs' \in [JobIds -> Row] /\ RowsInv' /\ Advances
  BY <1>1, <1>2, FencedWrite
<1>4. TypeOK'
  BY <1>2, <1>3 DEF TypeOK, PC
<1>5. LockHeld' /\ NoNewClaim
  BY <1>2 DEF IndInv, LockHeld, NoNewClaim, Engaged, TypeOK
<1> QED BY <1>3, <1>4, <1>5, ClaimsKept DEF IndInv

LEMMA ReleaseInd ==
  ASSUME IndInv, NEW w \in Workers, ReleaseJobLock(w)
  PROVE  IndInv'
<1>1. /\ TypeOK /\ pc[w] = "releasing" /\ online[w] /\ job[w] \in JobIds
      /\ jobLock[job[w]] = w
      /\ jobLock' = [jobLock EXCEPT ![job[w]] = NoOwner]
      /\ pc' = [pc EXCEPT ![w] = "idle"]
      /\ job' = [job EXCEPT ![w] = NoJob] /\ attempt' = [attempt EXCEPT ![w] = 0]
      /\ UNCHANGED <<jobs, online, claims, faults>>
  BY DEF IndInv, ReleaseJobLock, BackToPoll, Goto, SelectInv, Engaged, LockHeld
<1>2. TypeOK'
  BY <1>1, QueueAssumption DEF TypeOK, PC
<1>3. LockHeld'
  <2> SUFFICES ASSUME NEW v \in Workers, pc'[v] \in {"running", "releasing"}, online[v]
               PROVE  jobLock'[job'[v]] = v
    BY <1>1 DEF LockHeld
  <2>1. v # w /\ pc[v] \in {"running", "releasing"} /\ job'[v] = job[v]
    BY <1>1 DEF TypeOK
  <2>2. jobLock[job[v]] = v /\ job[v] \in JobIds
    BY <2>1 DEF IndInv, LockHeld, SelectInv, Engaged
  <2> QED BY <1>1, <2>1, <2>2 DEF TypeOK
<1>4. NoNewClaim
  BY <1>1 DEF NoNewClaim, Engaged, TypeOK
<1>5. RowsInv' /\ Advances
  BY <1>1, RowsSame
<1> QED BY <1>2, <1>3, <1>4, <1>5, ClaimsKept DEF IndInv, TypeOK

(* A worker that loses its session, crashes, notices or restarts: the rows *)
(* stay, it gives up its locks, and no other worker's lock is touched.     *)
LEMMA FaultInd ==
  ASSUME IndInv, NEW w \in Workers,
         LoseSession(w) \/ NoticeLoss(w) \/ Crash(w) \/ Restart(w)
  PROVE  IndInv'
<1> USE DEF LoseSession, NoticeLoss, Crash, Restart, Goto, BackToPoll
<1>1. TypeOK /\ UNCHANGED <<jobs, claims>>
  BY DEF IndInv
<1>2. TypeOK'
  <2>1. jobLock' \in [JobIds -> Workers \cup {NoOwner, DeadSession}]
    BY <1>1 DEF DropLocks, TypeOK
  <2>2. /\ pc' \in [Workers -> PC] /\ job' \in [Workers -> JobIds \cup {NoJob}]
        /\ attempt' \in [Workers -> 0 .. MaxRetries + 1]
    BY <1>1, QueueAssumption DEF TypeOK, PC
  <2>3. online' \in [Workers -> BOOLEAN]
    BY <1>1 DEF TypeOK
  <2>4. faults' \in Nat
    <3>1. faults' = faults \/ faults' = faults + 1
      OBVIOUS
    <3> QED BY <1>1, <3>1 DEF TypeOK
  <2> QED BY <1>1, <2>1, <2>2, <2>3, <2>4 DEF TypeOK
<1>3. LockHeld'
  <2> SUFFICES ASSUME NEW v \in Workers, pc'[v] \in {"running", "releasing"}, online'[v]
               PROVE  jobLock'[job'[v]] = v
    BY DEF LockHeld
  <2>1. v # w /\ pc[v] = pc'[v] /\ online[v] /\ job'[v] = job[v]
    BY <1>1 DEF TypeOK
  <2>2. jobLock[job[v]] = v /\ job[v] \in JobIds
    BY <2>1 DEF IndInv, LockHeld, SelectInv, Engaged
  <2>3. jobLock' = jobLock \/ DropLocks(w)
    OBVIOUS
  <2> QED BY <1>1, <2>1, <2>2, <2>3 DEF DropLocks, TypeOK
<1>4. NoNewClaim
  BY <1>1 DEF NoNewClaim, Engaged, TypeOK
<1>5. RowsInv' /\ Advances
  BY <1>1, RowsSame
<1> QED BY <1>1, <1>2, <1>3, <1>4, <1>5, ClaimsKept DEF IndInv, TypeOK

-----------------------------------------------------------------------------
(* The invariant, and what it gives.                                       *)

LEMMA StutterInd ==
  ASSUME IndInv, UNCHANGED vars
  PROVE  IndInv'
BY DEF vars, IndInv, TypeOK, LockHeld, SelectInv, SelectExclusive, StragglerBehind,
       AttemptsUnique, RowsInv, RowInv, Engaged

LEMMA WorkerInd ==
  ASSUME IndInv, NEW w \in Workers,
         WorkerStep(w) \/ Heartbeat(w) \/ LoseSession(w) \/ Crash(w)
  PROVE  IndInv'
<1>1. CASE ReclaimStale(w)
  BY <1>1, ReclaimInd
<1>2. CASE NothingDue(w)
  BY <1>2, NothingDueInd
<1>3. CASE SelectJob(w)
  BY <1>3, SelectJobInd
<1>4. CASE CommitClaim(w)
  BY <1>4, CommitClaimInd
<1>5. CASE AcquireJobLock(w)
  BY <1>5, AcquireInd
<1>6. CASE RequeueRefused(w)
  BY <1>6, RequeueRefusedInd
<1>7. CASE MarkDone(w) \/ MarkFailed(w) \/ RequeueForRetry(w)
  BY <1>7, OutcomeInd
<1>8. CASE ReleaseJobLock(w)
  BY <1>8, ReleaseInd
<1>9. CASE LoseSession(w) \/ NoticeLoss(w) \/ Crash(w) \/ Restart(w)
  BY <1>9, FaultInd
<1>10. CASE Heartbeat(w)
  BY <1>10, HeartbeatInd
<1> QED BY <1>1, <1>2, <1>3, <1>4, <1>5, <1>6, <1>7, <1>8, <1>9, <1>10 DEF WorkerStep

LEMMA NextInd == IndInv /\ [Next]_vars => IndInv'
<1> SUFFICES ASSUME IndInv, [Next]_vars
             PROVE  IndInv'
  OBVIOUS
<1>1. CASE UNCHANGED vars
  BY <1>1, StutterInd
<1>2. ASSUME NEW j \in JobIds, Enqueue(j) \/ TimeStep(j)
      PROVE  IndInv'
  BY <1>2, EnqueueInd, TimeInd
<1>3. ASSUME NEW w \in Workers, WorkerStep(w) \/ Heartbeat(w) \/ LoseSession(w) \/ Crash(w)
      PROVE  IndInv'
  BY <1>3, WorkerInd
<1>4. CASE Purge
  BY <1>4, PurgeInd
<1> QED BY <1>1, <1>2, <1>3, <1>4 DEF Next

(* The inductive invariant holds in every reachable state. *)
THEOREM Invariance == Spec => []IndInv
<1>1. Init => IndInv
  BY InitInd
<1>2. IndInv /\ [Next]_vars => IndInv'
  BY NextInd
<1> QED BY <1>1, <1>2, PTL DEF Spec

(* Every variable keeps its type; in particular no statement drives a      *)
(* row's retry_count past MAX_RETRIES + 1.                                 *)
THEOREM TypeCorrect == Spec => []TypeOK
<1>1. IndInv => TypeOK
  BY DEF IndInv
<1> QED BY <1>1, Invariance, PTL

(* The fence of _fenced_update is sound: two workers that both believe     *)
(* they hold a job never hold the same retry_count.                        *)
THEOREM FenceSound == Spec => []AttemptsUnique
<1>1. IndInv => AttemptsUnique
  BY DEF IndInv
<1> QED BY <1>1, Invariance, PTL

(* The advisory lock keeps two live sessions out of one job's handler.     *)
THEOREM HandlersExclusive == Spec => []LiveHandlersExclusive
<1>1. IndInv => LiveHandlersExclusive
  BY DEF IndInv, LockHeld, LiveHandlersExclusive
<1> QED BY <1>1, Invariance, PTL

(* No mixture of crashes, lost sessions, refusals and transient errors     *)
(* claims a job more than MAX_RETRIES + 1 times.                           *)
THEOREM BudgetHolds == Spec => []ClaimsWithinBudget
<1>1. IndInv => ClaimsWithinBudget
  <2> SUFFICES ASSUME IndInv, NEW j \in JobIds
               PROVE  claims[j] <= MaxRetries + 1
    BY DEF ClaimsWithinBudget
  <2>1. /\ RowInv(j) /\ claims[j] \in Nat /\ jobs[j] \in Row
    BY DEF IndInv, RowsInv, TypeOK
  <2>2. jobs[j].status \in {"absent", "queued", "processing", "done", "failed", "purged"}
    BY <2>1 DEF Row
  <2> QED BY <2>1, <2>2, QueueAssumption DEF RowInv, Terminal
<1> QED BY <1>1, Invariance, PTL

(* A terminal row carries the result of its last claim, whatever           *)
(* stragglers still run when it is written.                                *)
THEOREM ResultIsCurrent == Spec => []ResultOfLastClaim
<1>1. IndInv => ResultOfLastClaim
  BY DEF IndInv, RowsInv, RowInv, ResultOfLastClaim
<1> QED BY <1>1, Invariance, PTL

(* The token is in the row exactly while an attempt may still need it.     *)
THEOREM TokenScrubbed == Spec => []TokenWhileNeeded
<1>1. IndInv => TokenWhileNeeded
  BY DEF IndInv, RowsInv, RowInv, TokenWhileNeeded
<1> QED BY <1>1, Invariance, PTL

-----------------------------------------------------------------------------
(***************************************************************************)
(* What one step may do to a row, and what follows from it: JobQueue       *)
(* implements JobLifecycle, a finished job is never rewritten, and nobody  *)
(* disturbs the attempt a live worker is running.                          *)
(***************************************************************************)

(* Someone gives up the current attempt of job j in this step. *)
OwnClaim(j) ==
  \E v \in Workers :
     /\ pc[v] \in {"refused", "running"} /\ job[v] = j /\ attempt[v] = jobs[j].retries
     /\ pc'[v] \in {"idle", "releasing"}

(* The row moves from status s to status t and counts n more retries. *)
Moves(j, s, t, n) ==
  jobs[j].status = s /\ jobs'[j].status = t /\ jobs'[j].retries = jobs[j].retries + n

RowMove(j) ==
  \/ Moves(j, jobs[j].status, jobs[j].status, 0) /\ jobs'[j].result = jobs[j].result
  \/ Moves(j, "absent", "queued", 0)
  \/ Moves(j, "queued", "processing", 0)
  \/ /\ \E t \in Terminal : Moves(j, "processing", t, 0)
     /\ OwnClaim(j)
  \/ /\ jobs[j].retries < MaxRetries
     /\ Moves(j, "processing", "queued", 1)
     /\ OwnClaim(j) \/ jobLock[j] = NoOwner
  \/ /\ jobs[j].retries = MaxRetries
     /\ Moves(j, "processing", "failed", 1)
     /\ OwnClaim(j) \/ jobLock[j] = NoOwner
  \/ /\ \E s \in Terminal : Moves(j, s, "purged", 0)
     /\ jobs'[j].result = jobs[j].result

RowMoves == \A j \in JobIds : RowMove(j)

-----------------------------------------------------------------------------

LEMMA RowIs ==
  ASSUME IndInv, NEW j \in JobIds
  PROVE  jobs[j] \in Row /\ jobs[j].retries \in Int /\ RowInv(j)
<1>1. jobs[j] \in Row /\ RowInv(j)
  BY DEF IndInv, TypeOK, RowsInv
<1> QED BY <1>1, RowType

LEMMA RowKept ==
  ASSUME IndInv, NEW j \in JobIds, jobs'[j].status = jobs[j].status,
         jobs'[j].retries = jobs[j].retries, jobs'[j].result = jobs[j].result
  PROVE  RowMove(j)
BY RowIs DEF RowMove, Moves

LEMMA RowsKept ==
  ASSUME IndInv, UNCHANGED jobs
  PROVE  RowMoves
BY RowKept DEF RowMoves

LEMMA FencedMove ==
  ASSUME IndInv, NEW w \in Workers, pc[w] \in {"refused", "running"},
         pc'[w] \in {"idle", "releasing"}, NEW new,
         \/ \E s \in Terminal : new = Closed(jobs[job[w]], s, attempt[w])
         \/ new = Requeued(jobs[job[w]], attempt[w]),
         FencedUpdate(job[w], attempt[w], new)
  PROVE  RowMoves
<1>1. Engaged(w) /\ job[w] \in JobIds
  BY DEF Engaged, IndInv, SelectInv
<1>2. CASE ~(jobs[job[w]].status = "processing" /\ jobs[job[w]].retries = attempt[w])
  BY <1>2, RowsKept DEF FencedUpdate
<1>3. CASE jobs[job[w]].status = "processing" /\ jobs[job[w]].retries = attempt[w]
  <2>1. jobs' = [jobs EXCEPT ![job[w]] = new]
    BY <1>3 DEF FencedUpdate
  <2>2. jobs'[job[w]] = new /\ \A k \in JobIds : k # job[w] => jobs'[k] = jobs[k]
    BY <1>1, <2>1 DEF IndInv, TypeOK
  <2>3. OwnClaim(job[w])
    BY <1>3 DEF OwnClaim
  <2>4. /\ attempt[w] \in 0 .. MaxRetries
        /\ \/ new.status \in Terminal /\ new.retries = attempt[w]
           \/ new.status = "queued" /\ new.retries = attempt[w] + 1 /\ attempt[w] < MaxRetries
           \/ new.status = "failed" /\ new.retries = attempt[w] + 1 /\ attempt[w] = MaxRetries
    BY <1>1, <1>3, OutcomeRow
  <2>5. RowMove(job[w])
    <3>1. jobs[job[w]].retries \in Int
      BY <1>1, RowIs
    <3> QED BY <1>3, <2>2, <2>3, <2>4, <3>1 DEF RowMove, Moves
  <2>6. ASSUME NEW k \in JobIds, k # job[w]
        PROVE  RowMove(k)
    BY <2>2, <2>6, RowKept
  <2> QED BY <2>5, <2>6 DEF RowMoves
<1> QED BY <1>2, <1>3

LEMMA EnqueueMove ==
  ASSUME IndInv, NEW j \in JobIds, Enqueue(j)
  PROVE  RowMoves
<1>1. jobs[j].status = "absent" /\ jobs[j] \in Row /\ jobs[j].retries \in Int /\ TypeOK
  BY RowIs DEF Enqueue, IndInv
<1>2. jobs' = [jobs EXCEPT ![j] = [jobs[j] EXCEPT !.status = "queued", !.token = TRUE]]
  BY <1>1 DEF Enqueue, TypeOK
<1>3. /\ jobs'[j] = [jobs[j] EXCEPT !.status = "queued", !.token = TRUE]
      /\ \A k \in JobIds : k # j => jobs'[k] = jobs[k]
  BY <1>1, <1>2 DEF TypeOK
<1>4. jobs'[j].status = "queued" /\ jobs'[j].retries = jobs[j].retries
  BY <1>1, <1>3 DEF Row
<1>5. RowMove(j)
  BY <1>1, <1>4 DEF RowMove, Moves
<1> QED BY <1>3, <1>5, RowKept DEF RowMoves

LEMMA PurgeMove ==
  ASSUME IndInv, Purge
  PROVE  RowMoves
<1> SUFFICES ASSUME NEW j \in JobIds
             PROVE  RowMove(j)
  BY DEF RowMoves
<1>1. PICK S \in SUBSET Expired :
      jobs' = [k \in JobIds |-> IF k \in S THEN [jobs[k] EXCEPT !.status = "purged"] ELSE jobs[k]]
  BY DEF Purge
<1>2. CASE j \notin S
  BY <1>1, <1>2, RowKept
<1>3. CASE j \in S
  <2>1. jobs'[j] = [jobs[j] EXCEPT !.status = "purged"] /\ jobs[j].status \in Terminal
    BY <1>1, <1>3 DEF Expired
  <2>2. jobs[j] \in Row /\ jobs[j].retries \in Int
    BY RowIs
  <2>3. /\ jobs'[j].status = "purged" /\ jobs'[j].retries = jobs[j].retries
        /\ jobs'[j].result = jobs[j].result
    BY <2>1, <2>2 DEF Row
  <2> QED BY <2>1, <2>2, <2>3 DEF RowMove, Moves
<1> QED BY <1>2, <1>3

LEMMA FieldMove ==
  ASSUME IndInv, NEW j \in JobIds,
         \/ \E a : jobs' = [jobs EXCEPT ![j].age = a]
         \/ \E h : jobs' = [jobs EXCEPT ![j].heartbeat = h]
  PROVE  RowMoves
<1>1. jobs[j] \in Row /\ TypeOK
  BY RowIs DEF IndInv
<1>2. /\ \/ \E a : jobs'[j] = [jobs[j] EXCEPT !.age = a]
         \/ \E h : jobs'[j] = [jobs[j] EXCEPT !.heartbeat = h]
      /\ \A k \in JobIds : k # j => jobs'[k] = jobs[k]
  BY <1>1 DEF TypeOK
<1>3. /\ jobs'[j].status = jobs[j].status /\ jobs'[j].retries = jobs[j].retries
      /\ jobs'[j].result = jobs[j].result
  BY <1>1, <1>2 DEF Row
<1> QED BY <1>2, <1>3, RowKept DEF RowMoves

LEMMA ReclaimMove ==
  ASSUME IndInv, NEW w \in Workers, ReclaimStale(w)
  PROVE  RowMoves
<1> SUFFICES ASSUME NEW j \in JobIds
             PROVE  RowMove(j)
  BY DEF RowMoves
<1>1. jobs'[j] = IF Reclaimable(j) THEN Reclaimed(jobs[j]) ELSE jobs[j]
  BY DEF ReclaimStale
<1>2. CASE ~Reclaimable(j)
  BY <1>1, <1>2, RowKept
<1>3. CASE Reclaimable(j)
  <2>1. /\ jobs[j].status = "processing" /\ jobLock[j] = NoOwner
        /\ jobs[j] \in Row /\ jobs[j].retries \in Int /\ RowInv(j) /\ claims[j] \in Nat
    BY <1>3, RowIs DEF Reclaimable, IndInv, TypeOK
  <2>2. jobs[j].retries < MaxRetries \/ jobs[j].retries = MaxRetries
    BY <2>1, QueueAssumption DEF RowInv
  <2>3. /\ jobs'[j].retries = jobs[j].retries + 1
        /\ jobs[j].retries < MaxRetries => jobs'[j].status = "queued"
        /\ jobs[j].retries = MaxRetries => jobs'[j].status = "failed"
    <3>1. jobs[j].retries <= MaxRetries
      BY <2>1, <2>2, QueueAssumption
    <3> QED BY <1>1, <1>3, <2>1, <3>1, ReclaimedRow
  <2> QED BY <2>1, <2>2, <2>3 DEF RowMove, Moves
<1> QED BY <1>2, <1>3

LEMMA CommitMove ==
  ASSUME IndInv, NEW w \in Workers, CommitClaim(w)
  PROVE  RowMoves
<1>1. /\ job[w] \in JobIds /\ jobs[job[w]].status = "queued" /\ TypeOK
  BY DEF CommitClaim, IndInv, SelectInv
<1>2. /\ jobs'[job[w]] = [jobs[job[w]] EXCEPT !.status = "processing", !.age = "fresh"]
      /\ \A k \in JobIds : k # job[w] => jobs'[k] = jobs[k]
  BY <1>1 DEF CommitClaim, TypeOK
<1>3. jobs[job[w]] \in Row /\ jobs[job[w]].retries \in Int
  BY <1>1, RowIs
<1>4. jobs'[job[w]].status = "processing" /\ jobs'[job[w]].retries = jobs[job[w]].retries
  BY <1>2, <1>3 DEF Row
<1>5. RowMove(job[w])
  BY <1>1, <1>3, <1>4 DEF RowMove, Moves
<1> QED BY <1>2, <1>5, RowKept DEF RowMoves

LEMMA WriteMove ==
  ASSUME IndInv, NEW w \in Workers,
         RequeueRefused(w) \/ MarkDone(w) \/ MarkFailed(w) \/ RequeueForRetry(w)
  PROVE  RowMoves
<1>1. pc \in [Workers -> PC]
  BY DEF IndInv, TypeOK
<1>2. CASE RequeueRefused(w)
  <2>1. pc[w] = "refused" /\ pc'[w] = "idle"
    BY <1>1, <1>2 DEF RequeueRefused, BackToPoll, Goto
  <2> QED BY <1>2, <2>1, FencedMove DEF RequeueRefused
<1>3. CASE MarkDone(w) \/ MarkFailed(w) \/ RequeueForRetry(w)
  <2>1. PICK new :
          /\ \/ \E s \in Terminal : new = Closed(jobs[job[w]], s, attempt[w])
             \/ new = Requeued(jobs[job[w]], attempt[w])
          /\ Outcome(w, new)
    BY <1>3 DEF MarkDone, MarkFailed, RequeueForRetry, Terminal
  <2>2. pc[w] = "running" /\ pc'[w] = "releasing"
    BY <1>1, <2>1 DEF Outcome, Goto
  <2> QED BY <2>1, <2>2, FencedMove DEF Outcome
<1> QED BY <1>2, <1>3

(* Every step moves every row along the life cycle, and only the worker    *)
(* that owns the current attempt, or the sweep on an unlocked row, ends it.*)
LEMMA StepMoves == IndInv /\ [Next]_vars => RowMoves
<1> SUFFICES ASSUME IndInv, [Next]_vars
             PROVE  RowMoves
  OBVIOUS
<1>1. CASE UNCHANGED vars
  BY <1>1, RowsKept DEF vars
<1>2. ASSUME NEW j \in JobIds, Enqueue(j) \/ TimeStep(j)
      PROVE  RowMoves
  <2>1. CASE DeadSessionEnds(j)
    BY <2>1, RowsKept DEF DeadSessionEnds
  <2>2. CASE RowAges(j) \/ HeartbeatLapses(j)
    BY <2>2, FieldMove DEF RowAges, HeartbeatLapses
  <2> QED BY <1>2, <2>1, <2>2, EnqueueMove DEF TimeStep
<1>3. ASSUME NEW w \in Workers, WorkerStep(w) \/ Heartbeat(w) \/ LoseSession(w) \/ Crash(w)
      PROVE  RowMoves
  <2>1. CASE Heartbeat(w)
    <3>1. job[w] \in JobIds
      BY <2>1 DEF Heartbeat, IndInv, SelectInv, Engaged
    <3> QED BY <2>1, <3>1, FieldMove DEF Heartbeat
  <2>2. CASE NothingDue(w) \/ SelectJob(w) \/ AcquireJobLock(w) \/ ReleaseJobLock(w)
    BY <2>2, RowsKept DEF NothingDue, SelectJob, AcquireJobLock, ReleaseJobLock
  <2>3. CASE NoticeLoss(w) \/ Restart(w) \/ LoseSession(w) \/ Crash(w)
    BY <2>3, RowsKept DEF NoticeLoss, Restart, LoseSession, Crash
  <2> QED BY <1>3, <2>1, <2>2, <2>3, ReclaimMove, CommitMove, WriteMove DEF WorkerStep
<1>4. CASE Purge
  BY <1>4, PurgeMove
<1> QED BY <1>1, <1>2, <1>3, <1>4 DEF Next

-----------------------------------------------------------------------------
(* Refinement.                                                             *)

LEMMA MoveRefines ==
  ASSUME IndInv, IndInv', NEW j \in JobIds, RowMove(j)
  PROVE  Lifecycle!Step(j) \/ Lifecycle!Stay(j)
<1>1. /\ jobs[j] \in Row /\ jobs'[j] \in Row /\ jobs[j].retries \in Int
      /\ RowInv(j) /\ RowInv(j)'
  <2>1. jobs[j] \in Row /\ jobs[j].retries \in Int /\ RowInv(j)
    BY RowIs
  <2>2. jobs'[j] \in Row /\ RowInv(j)'
    BY DEF IndInv, TypeOK, RowsInv
  <2> QED BY <2>1, <2>2
<1>2. /\ jobs[j].token \in BOOLEAN /\ jobs'[j].token \in BOOLEAN
      /\ jobs[j].token <=> jobs[j].status \in {"queued", "processing"}
      /\ jobs'[j].token <=> jobs'[j].status \in {"queued", "processing"}
      /\ jobs[j].status = "absent" => jobs[j].retries = 0
  BY <1>1 DEF Row, RowInv
<1>3. /\ jobs'[j].status \in {"queued", "processing"} => jobs'[j].token = TRUE
      /\ jobs'[j].status \in {"done", "failed", "purged"} => jobs'[j].token = FALSE
  BY <1>2
<1>4. CASE Moves(j, jobs[j].status, jobs[j].status, 0)
  <2>1. jobs'[j].status = jobs[j].status /\ jobs'[j].retries = jobs[j].retries
    BY <1>1, <1>4 DEF Moves
  <2>2. jobs'[j].token = jobs[j].token
    BY <1>2, <2>1
  <2> QED BY <2>1, <2>2 DEF Lifecycle!Stay, Lifecycle!Becomes
<1>5. CASE Moves(j, "absent", "queued", 0)
  <2>1. /\ jobs[j].status = "absent"
        /\ jobs'[j].status = "queued" /\ jobs'[j].retries = 0 /\ jobs'[j].token = TRUE
    BY <1>1, <1>2, <1>3, <1>5 DEF Moves
  <2> QED BY <1>5, <2>1 DEF Lifecycle!Step, Lifecycle!Submit, Lifecycle!Becomes
<1>6. CASE Moves(j, "queued", "processing", 0)
  <2>1. /\ jobs[j].status = "queued"
        /\ jobs'[j].status = "processing" /\ jobs'[j].retries = jobs[j].retries /\ jobs'[j].token = TRUE
    BY <1>1, <1>2, <1>3, <1>6 DEF Moves
  <2> QED BY <1>6, <2>1 DEF Lifecycle!Step, Lifecycle!Start, Lifecycle!Becomes
<1>7. CASE \E t \in Terminal : Moves(j, "processing", t, 0)
  <2>1. /\ jobs[j].status = "processing" /\ jobs'[j].status \in {"done", "failed"}
        /\ jobs'[j].retries = jobs[j].retries /\ jobs'[j].token = FALSE
    BY <1>1, <1>2, <1>3, <1>7 DEF Moves, Terminal
  <2> QED BY <1>7, <2>1 DEF Lifecycle!Step, Lifecycle!Finish, Lifecycle!Becomes, Lifecycle!Terminal
<1>8. CASE jobs[j].retries < MaxRetries /\ Moves(j, "processing", "queued", 1)
  <2>1. /\ jobs[j].status = "processing"
        /\ jobs'[j].status = "queued" /\ jobs'[j].retries = jobs[j].retries + 1 /\ jobs'[j].token = TRUE
    BY <1>1, <1>2, <1>3, <1>8 DEF Moves
  <2> QED BY <1>8, <2>1 DEF Lifecycle!Step, Lifecycle!Retry, Lifecycle!Becomes
<1>9. CASE jobs[j].retries = MaxRetries /\ Moves(j, "processing", "failed", 1)
  <2>1. /\ jobs[j].status = "processing"
        /\ jobs'[j].status = "failed" /\ jobs'[j].retries = jobs[j].retries + 1 /\ jobs'[j].token = FALSE
    BY <1>1, <1>2, <1>3, <1>9 DEF Moves
  <2> QED BY <1>9, <2>1 DEF Lifecycle!Step, Lifecycle!GiveUp, Lifecycle!Becomes
<1>10. CASE \E s \in Terminal : Moves(j, s, "purged", 0)
  <2>1. /\ jobs[j].status \in {"done", "failed"}
        /\ jobs'[j].status = "purged" /\ jobs'[j].retries = jobs[j].retries /\ jobs'[j].token = FALSE
    BY <1>1, <1>2, <1>3, <1>10 DEF Moves, Terminal
  <2> QED BY <1>10, <2>1 DEF Lifecycle!Step, Lifecycle!Forget, Lifecycle!Becomes, Lifecycle!Terminal
<1> QED BY <1>4, <1>5, <1>6, <1>7, <1>8, <1>9, <1>10 DEF RowMove

(* The queue with its workers, locks, clocks and faults implements the     *)
(* life cycle its clients rely on.                                         *)
THEOREM Refines == Spec => ImplementsLifecycle
<1>1. Init => Lifecycle!Init
  BY DEF Init, Lifecycle!Init
<1>2. IndInv /\ IndInv' /\ [Next]_vars => [Lifecycle!Next]_Lifecycle!vars
  BY StepMoves, MoveRefines DEF RowMoves, Lifecycle!Next
<1> QED BY <1>1, <1>2, Invariance, PTL DEF Spec, ImplementsLifecycle, Lifecycle!Spec

-----------------------------------------------------------------------------
(* Action properties.                                                      *)

(* Once done or failed, a row is never reopened nor its result replaced by *)
(* a late attempt; only retention deletes it.                              *)
THEOREM FinishedIsFinal == Spec => FinishedStaysFinished
<1>1. IndInv /\ [Next]_vars =>
        \A j \in JobIds :
          jobs[j].status \in Terminal =>
            /\ jobs'[j].status \in {jobs[j].status, "purged"}
            /\ jobs'[j].result = jobs[j].result
  <2> SUFFICES ASSUME IndInv, [Next]_vars, NEW j \in JobIds, jobs[j].status \in Terminal
               PROVE  /\ jobs'[j].status \in {jobs[j].status, "purged"}
                      /\ jobs'[j].result = jobs[j].result
    OBVIOUS
  <2>1. RowMove(j)
    BY StepMoves DEF RowMoves
  <2> QED BY <2>1 DEF RowMove, Moves, Terminal
<1>2. IndInv /\ [Next]_vars =>
        [\A j \in JobIds :
          jobs[j].status \in Terminal =>
            /\ jobs'[j].status \in {jobs[j].status, "purged"}
            /\ jobs'[j].result = jobs[j].result]_vars
  BY <1>1
<1> QED BY <1>2, Invariance, PTL DEF Spec, FinishedStaysFinished

(* A worker that is past its claim and still at the row's retry_count has  *)
(* a row that is being processed.                                          *)
CurrentIsOpen ==
  \A w \in Workers :
     pc[w] \in {"claimed", "refused", "running"} /\ attempt[w] = jobs[job[w]].retries
       => jobs[job[w]].status = "processing"

AtWork == {"claimed", "refused", "running"}

LEMMA AtWorkSince ==
  ASSUME IndInv, [Next]_vars, NEW w \in Workers, pc'[w] \in AtWork
  PROVE  \/ pc[w] \in AtWork /\ job'[w] = job[w] /\ attempt'[w] = attempt[w]
         \/ CommitClaim(w)
<1> DEFINE Kept == pc[w] \in AtWork /\ job'[w] = job[w] /\ attempt'[w] = attempt[w]
<1>1. /\ pc \in [Workers -> PC] /\ job \in [Workers -> JobIds \cup {NoJob}]
      /\ attempt \in [Workers -> 0 .. MaxRetries + 1]
  BY DEF IndInv, TypeOK
<1>2. CASE UNCHANGED <<pc, job, attempt>>
  BY <1>2
<1>3. ASSUME NEW v \in Workers, WorkerStep(v) \/ LoseSession(v) \/ Crash(v)
      PROVE  Kept \/ CommitClaim(w)
  <2>1. CASE UNCHANGED <<pc, job, attempt>>
    BY <2>1
  <2>2. CASE ReclaimStale(v) \/ NothingDue(v) \/ SelectJob(v)
    BY <1>1, <2>2 DEF ReclaimStale, NothingDue, SelectJob, Goto, AtWork
  <2>3. CASE CommitClaim(v)
    BY <1>1, <2>3 DEF CommitClaim, Goto, AtWork
  <2>4. CASE AcquireJobLock(v)
    BY <1>1, <2>4 DEF AcquireJobLock, Goto, AtWork
  <2>5. CASE RequeueRefused(v) \/ ReleaseJobLock(v) \/ NoticeLoss(v)
    BY <1>1, <2>5 DEF RequeueRefused, ReleaseJobLock, NoticeLoss, BackToPoll, Goto, AtWork
  <2>6. CASE MarkDone(v) \/ MarkFailed(v) \/ RequeueForRetry(v)
    <3>1. pc' = [pc EXCEPT ![v] = "releasing"] /\ UNCHANGED <<job, attempt>>
      BY <2>6 DEF MarkDone, MarkFailed, RequeueForRetry, Outcome, Goto
    <3> QED BY <1>1, <3>1 DEF AtWork
  <2>7. CASE Crash(v) \/ Restart(v)
    BY <1>1, <2>7 DEF Crash, Restart, Goto, AtWork
  <2>8. CASE LoseSession(v)
    BY <2>8 DEF LoseSession, AtWork
  <2> QED BY <1>3, <2>1, <2>2, <2>3, <2>4, <2>5, <2>6, <2>7, <2>8 DEF WorkerStep
<1>4. ASSUME NEW v \in Workers, Heartbeat(v)
      PROVE  UNCHANGED <<pc, job, attempt>>
  BY <1>4 DEF Heartbeat
<1>5. ASSUME NEW j \in JobIds, Enqueue(j) \/ TimeStep(j)
      PROVE  UNCHANGED <<pc, job, attempt>>
  BY <1>5 DEF Enqueue, TimeStep, RowAges, HeartbeatLapses, DeadSessionEnds
<1>6. UNCHANGED vars \/ Purge => UNCHANGED <<pc, job, attempt>>
  BY DEF vars, Purge
<1> QED BY <1>2, <1>3, <1>4, <1>5, <1>6 DEF Next

(* Only its own worker ends an attempt whose worker is at work. *)
LEMMA OwnIsMine ==
  ASSUME IndInv, NEW w \in Workers, pc[w] \in AtWork, pc'[w] \in AtWork,
         attempt[w] = jobs[job[w]].retries
  PROVE  ~OwnClaim(job[w])
<1> SUFFICES ASSUME NEW v \in Workers, pc[v] \in {"refused", "running"}, job[v] = job[w],
                    attempt[v] = attempt[w], pc'[v] \in {"idle", "releasing"}
             PROVE  FALSE
  BY DEF OwnClaim
<1>1. v = w
  BY DEF IndInv, AttemptsUnique, Engaged, AtWork
<1> QED BY <1>1 DEF AtWork

LEMMA CurrentInd ==
  ASSUME IndInv, CurrentIsOpen, [Next]_vars
  PROVE  CurrentIsOpen'
<1> SUFFICES ASSUME NEW w \in Workers, pc'[w] \in AtWork,
                    attempt'[w] = jobs'[job'[w]].retries
             PROVE  jobs'[job'[w]].status = "processing"
  BY DEF CurrentIsOpen, AtWork
<1>1. CASE CommitClaim(w)
  <2>1. job' = job /\ job[w] \in JobIds /\ jobs \in [JobIds -> Row]
    BY <1>1 DEF CommitClaim, IndInv, TypeOK, SelectInv
  <2>2. jobs'[job[w]] = [jobs[job[w]] EXCEPT !.status = "processing", !.age = "fresh"]
    BY <1>1, <2>1 DEF CommitClaim
  <2>3. jobs[job[w]] \in Row
    BY <2>1
  <2> QED BY <2>1, <2>2, <2>3 DEF Row
<1>2. CASE pc[w] \in AtWork /\ job'[w] = job[w] /\ attempt'[w] = attempt[w]
  <2>1. /\ job[w] \in JobIds /\ attempt[w] \in Int
        /\ attempt[w] <= jobs[job[w]].retries
    <3>1. Engaged(w) /\ attempt[w] \in 0 .. MaxRetries + 1
      BY <1>2 DEF Engaged, AtWork, IndInv, TypeOK
    <3> QED BY <3>1, QueueAssumption DEF IndInv, SelectInv, StragglerBehind
  <2>2. RowMove(job[w]) /\ jobs[job[w]].retries \in Int
    BY <2>1, StepMoves, RowIs DEF RowMoves
  <2>3. attempt[w] = jobs[job[w]].retries /\ jobs'[job[w]].retries = jobs[job[w]].retries
    BY <1>2, <2>1, <2>2 DEF RowMove, Moves
  <2>4. jobs[job[w]].status = "processing" /\ ~OwnClaim(job[w])
    BY <1>2, <2>3, OwnIsMine DEF CurrentIsOpen, AtWork
  <2>5. jobs'[job[w]].status = jobs[job[w]].status
    BY <2>2, <2>3, <2>4 DEF RowMove, Moves, Terminal
  <2> QED BY <1>2, <2>4, <2>5
<1> QED BY <1>1, <1>2, AtWorkSince

(* While a worker with a live session runs the current attempt, nobody     *)
(* else changes the row's status or count: neither the reclaim sweep,      *)
(* however stale the timestamps look, nor a straggler's late write.        *)
THEOREM AttemptUndisturbed == Spec => RunningAttemptUndisturbed
<1> DEFINE Undisturbed(w) ==
      /\ pc[w] = "running" /\ online[w] /\ attempt[w] = jobs[job[w]].retries
      /\ pc'[w] = "running"
      => /\ jobs'[job[w]].status = jobs[job[w]].status
         /\ jobs'[job[w]].retries = jobs[job[w]].retries
<1>1. Init => CurrentIsOpen
  BY DEF Init, CurrentIsOpen
<1>2. IndInv /\ CurrentIsOpen /\ [Next]_vars => CurrentIsOpen'
  BY CurrentInd
<1>3. IndInv /\ CurrentIsOpen /\ [Next]_vars => \A w \in Workers : Undisturbed(w)
  <2> SUFFICES ASSUME IndInv, CurrentIsOpen, [Next]_vars, NEW w \in Workers,
                      pc[w] = "running", online[w], attempt[w] = jobs[job[w]].retries,
                      pc'[w] = "running"
               PROVE  /\ jobs'[job[w]].status = jobs[job[w]].status
                      /\ jobs'[job[w]].retries = jobs[job[w]].retries
    OBVIOUS
  <2>1. job[w] \in JobIds /\ jobs[job[w]].status = "processing" /\ jobLock[job[w]] = w
    BY DEF IndInv, SelectInv, LockHeld, Engaged, CurrentIsOpen
  <2>2. ~OwnClaim(job[w]) /\ jobLock[job[w]] # NoOwner
    BY <2>1, OwnIsMine, QueueAssumption DEF AtWork
  <2>3. RowMove(job[w]) /\ jobs[job[w]].retries \in Int
    BY <2>1, StepMoves, RowIs DEF RowMoves
  <2> QED BY <2>1, <2>2, <2>3 DEF RowMove, Moves, Terminal
<1>4. IndInv /\ CurrentIsOpen /\ [Next]_vars => [\A w \in Workers : Undisturbed(w)]_vars
  BY <1>3
<1> QED BY <1>1, <1>2, <1>4, Invariance, PTL DEF Spec, RunningAttemptUndisturbed
=============================================================================
