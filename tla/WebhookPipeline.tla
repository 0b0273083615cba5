-------------------------- MODULE WebhookPipeline --------------------------
(***************************************************************************)
(* How a verified GitHub webhook becomes data.  The API stores it as a row *)
(* of webhook_deliveries and appends an entry to a Redis stream; the       *)
(* consumer thread of each worker reads the stream through one consumer    *)
(* group, writes the normalized data and the row's final status in one     *)
(* Postgres transaction, and only then acknowledges the entry.  Entries    *)
(* that were read but not acknowledged are claimed again by a sweep of the *)
(* consumers; rows that never made it are put back on the stream by a      *)
(* sweep of the API.                                                       *)
(*                                                                         *)
(* Postgres commits and Redis commands are separate steps: anything may    *)
(* happen between them.  Redis entries are numbered by their position in   *)
(* the stream; a delivery is numbered by received_at.  One login stands    *)
(* for the membership data of a tenant.                                    *)
(*                                                                         *)
(* A definition marked "Mistake" is not part of the specification: it is a *)
(* plausible slip in the definition it is named after, and the run that    *)
(* checks the property named with it must reject it.                       *)
(***************************************************************************)
EXTENDS Integers, FiniteSetsExt, SequencesExt, Functions

CONSTANTS Deliveries,     \* rows of webhook_deliveries, in the order of received_at
          Kind,           \* [Deliveries -> Kinds]
          Tenant,         \* [Deliveries -> Tenants \cup {NoTenant}]
          Guid,           \* [Deliveries -> GUIDs], equal for a redelivery by GitHub
          Tenants,
          NoTenant,       \* tenant_id IS NULL: the installation is not known
          Consumers,      \* consumer threads, one per worker process
          MaxAttempts,    \* _MAX_DELIVERY_ATTEMPTS
          BatchSize,      \* _BATCH_SIZE
          StreamCap,      \* _WEBHOOK_STREAM_MAXLEN
          MaxFaults,      \* bound on errors, crashes, lost replies, trims, Redis losses
          MaxCopies,      \* bound on entries added for a row that still has one
          MaxAge,         \* bound on the age of a row: Fresh, Stuck or Expired
          MaxReconciles   \* bound on tenant locks taken by reconcile jobs

(* Ages of a row: past _STUCK_QUEUED_MINUTES it is Stuck, past             *)
(* _MAX_AGE_HOURS, and the retention period, Expired.                      *)
Fresh   == 0
Stuck   == 1
Expired == 2

Kinds == {"event", "added", "removed", "malformed", "unnormalized"}
Membership == {"added", "removed"}

ASSUME PipelineAssumption ==
  /\ Deliveries \subseteq Nat \ {0}
  /\ \A d \in Deliveries : Kind[d] \in Kinds /\ Tenant[d] \in Tenants \cup {NoTenant}
  /\ NoTenant \notin Tenants
  /\ {MaxAttempts, BatchSize, StreamCap} \subseteq Nat \ {0}
  /\ {MaxFaults, MaxCopies, MaxReconciles} \subseteq Nat
  /\ MaxAge \in Fresh .. Expired

VARIABLES
  (* Postgres *)
  rows,       \* [Deliveries -> [status, age]], the table webhook_deliveries
  stored,     \* GUIDs present in repo_events
  dailyCount, \* the sum of repo_event_daily_counts
  member,     \* [Tenants -> Nat], added_at of the org_members row, 0 without one
  access,     \* [Tenants -> BOOLEAN], the GitHub-sourced membership exists
  locked,     \* [Tenants -> BOOLEAN], a reconcile job holds the membership lock
  (* Redis *)
  stream,     \* sequence of deliveries, one per XADD so far
  gone,       \* entries up to this one are trimmed or lost
  cursor,     \* the group's last delivered entry, or NoGroup
  pel,        \* pending entries: [entries -> [tries, idle]]
  (* processes *)
  receiver,   \* [Deliveries -> where the request that stores it stands]
  sweep,      \* the API's requeue transaction: [doomed, todo, added]
  stage,      \* [Consumers -> Stage], where the run loop stands
  todo,       \* [Consumers -> set of entries], read or claimed, not yet dispatched
  acking,     \* [Consumers -> entry whose transaction has committed, or 0]
  visit,      \* [Consumers -> tenants _retry_deferred still has to look at]
  deferred,   \* [Consumers -> [Tenants -> sequence of entries]]
  failures,   \* [Consumers -> [Tenants -> failed attempts of the deferred head]]
  backoff,    \* [Consumers -> [Tenants -> the deferred head is backing off]]
  (* history and bounds *)
  applied,    \* deliveries whose data has been written at least once
  dropped,    \* deliveries that were marked dropped at least once
  faults, copies, reconciles

tables  == <<rows, stored, dailyCount, member, access>>
redis   == <<stream, gone, cursor, pel>>
memory  == <<deferred, failures, backoff>>
loop    == <<stage, todo, acking, visit>>
history == <<applied, dropped>>
bounds  == <<faults, copies, reconciles>>
vars == <<tables, locked, redis, receiver, sweep, loop, memory, history, bounds>>

NoGroup == -1
Status  == {"absent", "queued", "queue_failed", "queue_abandoned", "processed", "dropped", "purged"}
Final   == {"queue_abandoned", "processed", "dropped"}
Stage   == {"down", "retry", "sweep", "claimed", "read", "batch"}
NoSweep == [doomed |-> {}, todo |-> {}, added |-> {}]

Init ==
  /\ rows = [d \in Deliveries |-> [status |-> "absent", age |-> Fresh]]
  /\ stored = {} /\ dailyCount = 0
  /\ member = [t \in Tenants |-> 0]
  /\ access = [t \in Tenants |-> TRUE]
  /\ locked = [t \in Tenants |-> FALSE]
  /\ stream = <<>> /\ gone = 0 /\ cursor = 0 /\ pel = [e \in {} |-> 0]
  /\ receiver = [d \in Deliveries |-> "idle"]
  /\ sweep = NoSweep
  /\ stage = [c \in Consumers |-> "retry"]
  /\ todo = [c \in Consumers |-> {}]
  /\ acking = [c \in Consumers |-> 0]
  /\ visit = [c \in Consumers |-> Tenants]
  /\ deferred = [c \in Consumers |-> [t \in Tenants |-> <<>>]]
  /\ failures = [c \in Consumers |-> [t \in Tenants |-> 0]]
  /\ backoff = [c \in Consumers |-> [t \in Tenants |-> FALSE]]
  /\ applied = {} /\ dropped = {}
  /\ faults = 0 /\ copies = 0 /\ reconciles = 0

-----------------------------------------------------------------------------
(* Helpers.                                                                *)

Retained   == (gone + 1) .. Len(stream)
Unread     == {e \in Retained : e > cursor}
First(S)   == {e \in S : \A f \in S : e <= f}
Fault      == faults < MaxFaults /\ faults' = faults + 1

Present(d) == rows[d].status \notin {"absent", "purged"}

(* A row is locked from the sweep's SELECT ... FOR UPDATE to its commit.   *)
Unlocked(d) == d \notin sweep.doomed \cup sweep.todo \cup sweep.added

SetStatus(d, s) == Unlocked(d) /\ rows' = [rows EXCEPT ![d].status = s]

(* XADD with an approximate MAXLEN may trim the oldest entry.              *)
XAdd(d) ==
  /\ stream' = Append(stream, d)
  /\ \/ UNCHANGED <<gone, faults>>
     \/ /\ Len(stream) - gone >= StreamCap
        /\ gone' = gone + 1
        /\ Fault
  /\ UNCHANGED <<cursor, pel>>

-----------------------------------------------------------------------------
(* The receiver, routers/webhooks.py.                                      *)

(* The row is committed before anything else is tried.                     *)
Receive(d) ==
  /\ receiver[d] = "idle"
  /\ \A e \in Deliveries : e < d => receiver[e] # "idle"
  /\ SetStatus(d, "queued")
  /\ receiver' = [receiver EXCEPT ![d] = "stored"]
  /\ UNCHANGED <<stored, dailyCount, member, access, locked, redis, sweep, loop, memory,
                 history, bounds>>

Enqueue(d) ==
  /\ receiver[d] = "stored"
  /\ XAdd(d)
  /\ receiver' = [receiver EXCEPT ![d] = "done"]
  /\ UNCHANGED <<tables, locked, sweep, loop, memory, history, copies, reconciles>>

(* XADD raises; when only its reply was lost the entry is on the stream.   *)
EnqueueRaises(d) ==
  /\ receiver[d] = "stored"
  /\ Fault
  /\ \/ stream' = Append(stream, d)
     \/ UNCHANGED stream
  /\ receiver' = [receiver EXCEPT ![d] = "failing"]
  /\ UNCHANGED <<tables, locked, gone, cursor, pel, sweep, loop, memory, history, copies,
                 reconciles>>

(* The except branch: the status is written whatever it is by then.        *)
MarkQueueFailed(d) ==
  /\ receiver[d] = "failing"
  /\ IF Present(d) THEN SetStatus(d, "queue_failed") ELSE UNCHANGED rows
  /\ receiver' = [receiver EXCEPT ![d] = "done"]
  /\ UNCHANGED <<stored, dailyCount, member, access, locked, redis, sweep, loop, memory,
                 history, bounds>>

ReceiverDies(d) ==
  /\ receiver[d] \in {"stored", "failing"}
  /\ Fault
  /\ receiver' = [receiver EXCEPT ![d] = "done"]
  /\ UNCHANGED <<tables, locked, redis, sweep, loop, memory, history, copies, reconciles>>

-----------------------------------------------------------------------------
(* The requeue sweep, services/webhook_requeue_sweep.py, and retention.    *)

Normalizable(d) == Tenant[d] # NoTenant /\ Kind[d] # "unnormalized"

(* Mistake (EveryDeliverySettles): no second look at queued rows. *)
Eligible_FailedOnly(d) == rows[d].status = "queue_failed"

Eligible(d) ==
  \/ rows[d].status = "queue_failed"
  \/ rows[d].status = "queued" /\ rows[d].age >= Stuck /\ Normalizable(d)

(* The row still has an entry somebody will read.                          *)
HasEntry(d) == \E e \in Unread \cup DOMAIN pel : stream[e] = d

Extra(S) == Cardinality({d \in S : HasEntry(d)})

SweepSelect ==
  LET eligible == {d \in Deliveries : Eligible(d)}
      doomed   == {d \in eligible : rows[d].status = "queue_failed" /\ rows[d].age = Expired}
      again    == eligible \ doomed
  IN /\ sweep = NoSweep /\ eligible # {}
     /\ copies + Extra(again) <= MaxCopies
     /\ sweep' = [doomed |-> doomed, todo |-> again, added |-> {}]
     /\ copies' = copies + Extra(again)
     /\ UNCHANGED <<tables, locked, redis, receiver, loop, memory, history, faults, reconciles>>

(* In id order. *)
SweepAdd ==
  /\ \E d \in First(sweep.todo) :
       /\ XAdd(d)
       /\ sweep' = [sweep EXCEPT !.todo = @ \ {d}, !.added = @ \cup {d}]
  /\ UNCHANGED <<tables, locked, receiver, loop, memory, history, copies, reconciles>>

(* The commit, after the last XADD or after one that raised: its entry may *)
(* be on the stream all the same.                                          *)
SweepCommit ==
  /\ sweep # NoSweep
  /\ \/ sweep.todo = {} /\ UNCHANGED <<stream, faults>>
     \/ /\ \E d \in First(sweep.todo) : stream' \in {stream, Append(stream, d)}
        /\ Fault
  /\ rows' = [d \in Deliveries |->
                IF d \in sweep.doomed THEN [rows[d] EXCEPT !.status = "queue_abandoned"]
                ELSE IF d \in sweep.added THEN [rows[d] EXCEPT !.status = "queued"]
                ELSE rows[d]]
  /\ sweep' = NoSweep
  /\ UNCHANGED <<stored, dailyCount, member, access, locked, gone, cursor, pel, receiver, loop,
                 memory, history, copies, reconciles>>

(* The API dies before the commit: the entries are out, the rows as before.*)
SweepDies ==
  /\ sweep # NoSweep
  /\ Fault
  /\ sweep' = NoSweep
  /\ UNCHANGED <<tables, locked, redis, receiver, loop, memory, history, copies, reconciles>>

PurgeDeliveries ==
  /\ \E S \in (SUBSET {d \in Deliveries : /\ rows[d].status \in Final
                                          /\ rows[d].age = Expired /\ Unlocked(d)}) \ {{}} :
        rows' = [d \in Deliveries |->
                   IF d \in S THEN [rows[d] EXCEPT !.status = "purged"] ELSE rows[d]]
  /\ UNCHANGED <<stored, dailyCount, member, access, locked, redis, receiver, sweep, loop, memory,
                 history, bounds>>

-----------------------------------------------------------------------------
(* The writes of _process_entry, each one transaction.                     *)

Drop(d) ==
  IF rows[d].status \in {"queued", "queue_failed"}
  THEN SetStatus(d, "dropped") /\ dropped' = dropped \cup {d}
  ELSE UNCHANGED <<rows, dropped>>

(* Mistake (CountMatchesEvents): RETURNING id is ignored. *)
InsertEvent_AlwaysCounted(d) ==
  /\ stored' = stored \cup {Guid[d]}
  /\ dailyCount' = dailyCount + 1
  /\ UNCHANGED <<member, access>>

InsertEvent(d) ==
  /\ stored' = stored \cup {Guid[d]}
  /\ dailyCount' = IF Guid[d] \in stored THEN dailyCount ELSE dailyCount + 1
  /\ UNCHANGED <<member, access>>

UpsertMember(d) ==
  LET t == Tenant[d]
  IN /\ member' = [member EXCEPT ![t] = IF @ <= d THEN d ELSE @]
     /\ UNCHANGED <<stored, dailyCount, access>>

(* Mistake (NewestEventWins): no guard on added_at. *)
RemoveMember_AnyAge(d) ==
  LET t == Tenant[d]
  IN /\ member' = [member EXCEPT ![t] = 0]
     /\ access' = [access EXCEPT ![t] = FALSE]
     /\ UNCHANGED <<stored, dailyCount>>

(* The row goes unless it is newer; without a row the membership goes too. *)
RemoveMember(d) ==
  LET t == Tenant[d]
  IN /\ member' = [member EXCEPT ![t] = IF @ <= d THEN 0 ELSE @]
     /\ access' = [access EXCEPT ![t] = @ /\ member'[t] # 0]
     /\ UNCHANGED <<stored, dailyCount>>

Write(d) ==
  /\ \/ Kind[d] = "event"   /\ InsertEvent(d)
     \/ Kind[d] = "added"   /\ UpsertMember(d)
     \/ Kind[d] = "removed" /\ RemoveMember(d)
  /\ SetStatus(d, "processed")
  /\ applied' = applied \cup {d}
  /\ UNCHANGED dropped

(* A consumer keeps the tenant lock from its writes to its acknowledgment. *)
HoldsLock(o, t) ==
  /\ acking[o] # 0 /\ stage[o] # "sweep"
  /\ Kind[stream[acking[o]]] \in Membership /\ Tenant[stream[acking[o]]] = t

(* The lock is asked for only when there is something to write.            *)
LockBusy(c, d) ==
  /\ Present(d) /\ Normalizable(d) /\ Kind[d] \in Membership
  /\ locked[Tenant[d]] \/ \E o \in Consumers \ {c} : HoldsLock(o, Tenant[d])

(* _process_entry up to its commit, for a delivery it does not wait on.    *)
Process(c, d) ==
  /\ ~LockBusy(c, d)
  /\ IF ~Present(d) \/ ~Normalizable(d)
     THEN UNCHANGED <<tables, history>>
     ELSE IF Kind[d] = "malformed"
     THEN Drop(d) /\ UNCHANGED <<stored, dailyCount, member, access, applied>>
     ELSE Write(d)

-----------------------------------------------------------------------------
(* The consumer: one cycle retries what was deferred, claims what is idle, *)
(* reads a batch and dispatches it entry by entry.                         *)

Goto(c, s) == stage' = [stage EXCEPT ![c] = s]

StartCycle(c) == Goto(c, "retry") /\ visit' = [visit EXCEPT ![c] = Tenants]

(* Entries waiting in this process for a tenant's lock. *)
Waiting(c) == UNION {ToSet(deferred[c][t]) : t \in Tenants}

(* Mistake (NoOvertaking): only the lock is looked at. *)
Queued_Never(c, d) == FALSE

Queued(c, d) == /\ Kind[d] \in Membership /\ Tenant[d] # NoTenant
                /\ deferred[c][Tenant[d]] # <<>>

(* _retry_deferred leaves a tenant with nothing to do at this moment. *)
SkipTenant(c, t) ==
  /\ stage[c] = "retry" /\ acking[c] = 0 /\ t \in visit[c]
  /\ deferred[c][t] # <<>> => backoff[c][t] \/ LockBusy(c, stream[Head(deferred[c][t])])
  /\ visit' = [visit EXCEPT ![c] = @ \ {t}]
  /\ UNCHANGED <<tables, locked, redis, receiver, sweep, stage, todo, acking, memory,
                 history, bounds>>

RetryHead(c, t) ==
  /\ stage[c] = "retry" /\ acking[c] = 0 /\ t \in visit[c]
  /\ deferred[c][t] # <<>> /\ ~backoff[c][t]
  /\ Process(c, stream[Head(deferred[c][t])])
  /\ acking' = [acking EXCEPT ![c] = Head(deferred[c][t])]
  /\ UNCHANGED <<locked, redis, receiver, sweep, stage, todo, visit, memory, bounds>>

(* A failed head backs off, and is dropped at its last attempt.            *)
HeadFails(c, t) ==
  IF failures[c][t] + 1 < MaxAttempts
  THEN /\ failures' = [failures EXCEPT ![c][t] = @ + 1]
       /\ backoff' = [backoff EXCEPT ![c][t] = TRUE]
       /\ visit' = [visit EXCEPT ![c] = @ \ {t}]
       /\ acking' = [acking EXCEPT ![c] = 0]
       /\ UNCHANGED <<rows, dropped>>
  ELSE /\ Drop(stream[Head(deferred[c][t])])
       /\ acking' = [acking EXCEPT ![c] = Head(deferred[c][t])]
       /\ UNCHANGED <<failures, backoff, visit>>

RetryFails(c, t) ==
  /\ stage[c] = "retry" /\ acking[c] = 0 /\ t \in visit[c]
  /\ deferred[c][t] # <<>> /\ ~backoff[c][t]
  /\ Fault
  /\ HeadFails(c, t)
  /\ UNCHANGED <<stored, dailyCount, member, access, locked, redis, receiver, sweep, stage, todo,
                 deferred, applied, copies, reconciles>>

EndRetry(c) ==
  /\ stage[c] = "retry" /\ acking[c] = 0 /\ visit[c] = {}
  /\ Goto(c, "sweep")
  /\ UNCHANGED <<tables, locked, redis, receiver, sweep, todo, acking, visit, memory,
                 history, bounds>>

(* Mistake (WaitingCostsNoAttempt): waiting entries are listed. *)
Idle_WithWaiting(c) == {e \in DOMAIN pel : pel[e].idle}

(* What _sweep_pending lists, entries waiting here left out.               *)
Idle(c) == {e \in DOMAIN pel : pel[e].idle} \ Waiting(c)

Exhausted(c) == {e \in Idle(c) : pel[e].tries >= MaxAttempts}

(* A trimmed entry no longer names its row: it is only acknowledged.       *)
DropExhausted(c) ==
  /\ stage[c] = "sweep" /\ acking[c] = 0 /\ cursor # NoGroup
  /\ \E e \in First(Exhausted(c)) :
       /\ IF e \in Retained THEN Drop(stream[e]) ELSE UNCHANGED <<rows, dropped>>
       /\ acking' = [acking EXCEPT ![c] = e]
  /\ UNCHANGED <<stored, dailyCount, member, access, locked, redis, receiver, sweep, stage, todo,
                 visit, memory, applied, bounds>>

(* XCLAIM counts a delivery; Redis forgets pending entries it has trimmed. *)
ClaimIdle(c) ==
  /\ stage[c] = "sweep" /\ acking[c] = 0 /\ cursor # NoGroup /\ Exhausted(c) = {}
  /\ LET claimed == Idle(c) \cap Retained
     IN /\ pel' = [e \in DOMAIN pel \ (Idle(c) \ claimed) |->
                     IF e \in claimed THEN [tries |-> pel[e].tries + 1, idle |-> FALSE] ELSE pel[e]]
        /\ todo' = [todo EXCEPT ![c] = claimed]
  /\ Goto(c, "claimed")
  /\ UNCHANGED <<tables, locked, stream, gone, cursor, receiver, sweep, acking, visit, memory,
                 history, bounds>>

ReadNew(c) ==
  /\ stage[c] = "read" /\ cursor # NoGroup
  /\ LET from  == IF cursor < gone THEN gone ELSE cursor
         last  == IF from + BatchSize < Len(stream) THEN from + BatchSize ELSE Len(stream)
         batch == from + 1 .. last
     IN /\ pel' = [e \in DOMAIN pel \cup batch |->
                     IF e \in batch THEN [tries |-> 1, idle |-> FALSE] ELSE pel[e]]
        /\ cursor' = IF batch = {} THEN cursor ELSE last
        /\ todo' = [todo EXCEPT ![c] = batch]
  /\ Goto(c, "batch")
  /\ UNCHANGED <<tables, locked, stream, gone, receiver, sweep, acking, visit, memory,
                 history, bounds>>

(* NOGROUP: the group is created again, from the start of the stream.      *)
RecreateGroup(c) ==
  /\ stage[c] \in {"sweep", "read"} /\ acking[c] = 0 /\ cursor = NoGroup
  /\ cursor' = gone
  /\ StartCycle(c)
  /\ UNCHANGED <<tables, locked, stream, gone, pel, receiver, sweep, todo, acking, memory,
                 history, bounds>>

(* _dispatch: a membership entry whose tenant is busy, or has an earlier   *)
(* entry waiting, waits here; it stays pending in Redis.                   *)
Dispatching(c, e) ==
  stage[c] \in {"claimed", "batch"} /\ acking[c] = 0 /\ e \in First(todo[c])

Defer(c) ==
  \E e \in todo[c] :
    LET d == stream[e]
        t == Tenant[d]
    IN /\ Dispatching(c, e)
       /\ Queued(c, d) \/ LockBusy(c, d)
       /\ deferred' = IF e \in Waiting(c) THEN deferred
                      ELSE [deferred EXCEPT ![c][t] = Append(@, e)]
       /\ todo' = [todo EXCEPT ![c] = @ \ {e}]
       /\ UNCHANGED <<tables, locked, redis, receiver, sweep, stage, acking, visit, failures, backoff,
                      history, bounds>>

Dispatch(c) ==
  \E e \in todo[c] :
    /\ Dispatching(c, e)
    /\ ~Queued(c, stream[e])
    /\ Process(c, stream[e])
    /\ acking' = [acking EXCEPT ![c] = e]
    /\ todo' = [todo EXCEPT ![c] = @ \ {e}]
    /\ UNCHANGED <<locked, redis, receiver, sweep, stage, visit, memory, bounds>>

(* Mistake (AckAfterCommit): acknowledged in a finally. *)
DispatchFails_Acks(c) ==
  \E e \in todo[c] :
    /\ Dispatching(c, e)
    /\ Fault
    /\ todo' = [todo EXCEPT ![c] = @ \ {e}]
    /\ acking' = [acking EXCEPT ![c] = e]
    /\ UNCHANGED <<tables, locked, redis, receiver, sweep, stage, visit, memory, history,
                   copies, reconciles>>

(* An exception leaves the entry pending; the rest of the batch goes on.   *)
DispatchFails(c) ==
  \E e \in todo[c] :
    /\ Dispatching(c, e)
    /\ Fault
    /\ todo' = [todo EXCEPT ![c] = @ \ {e}]
    /\ UNCHANGED <<tables, locked, redis, receiver, sweep, stage, acking, visit, memory, history,
                   copies, reconciles>>

(* XACK, after the commit.  A deferred head also leaves its queue.         *)
Acknowledge(c) ==
  /\ acking[c] # 0
  /\ pel' = Restrict(pel, DOMAIN pel \ {acking[c]})
  /\ IF stage[c] = "retry"
     THEN LET t == Tenant[stream[acking[c]]]
          IN /\ deferred' = [deferred EXCEPT ![c][t] = Tail(@)]
             /\ failures' = [failures EXCEPT ![c][t] = 0]
             /\ backoff' = [backoff EXCEPT ![c][t] = FALSE]
     ELSE UNCHANGED memory
  /\ acking' = [acking EXCEPT ![c] = 0]
  /\ UNCHANGED <<tables, locked, stream, gone, cursor, receiver, sweep, stage, todo, visit,
                 history, bounds>>

AckFails(c) ==
  /\ acking[c] # 0 /\ stage[c] # "sweep"
  /\ Fault
  /\ IF stage[c] = "retry"
     THEN HeadFails(c, Tenant[stream[acking[c]]])
     ELSE /\ acking' = [acking EXCEPT ![c] = 0]
          /\ UNCHANGED <<rows, dropped, failures, backoff, visit>>
  /\ UNCHANGED <<stored, dailyCount, member, access, locked, redis, receiver, sweep, stage, todo,
                 deferred, applied, copies, reconciles>>

EndBatch(c) ==
  /\ todo[c] = {} /\ acking[c] = 0
  /\ \/ stage[c] = "claimed" /\ Goto(c, "read") /\ UNCHANGED visit
     \/ stage[c] = "batch" /\ StartCycle(c)
  /\ UNCHANGED <<tables, locked, redis, receiver, sweep, todo, acking, memory, history, bounds>>

-----------------------------------------------------------------------------
(* Failures.                                                               *)

(* A connection error outside the handling of one entry ends the cycle; so *)
(* does a failing XACK of a deferred head that is being dropped.           *)
CycleFails(c) ==
  /\ stage[c] # "down"
  /\ stage[c] = "retry" => /\ acking[c] # 0
                           /\ failures[c][Tenant[stream[acking[c]]]] + 1 = MaxAttempts
  /\ Fault
  /\ StartCycle(c)
  /\ todo' = [todo EXCEPT ![c] = {}]
  /\ acking' = [acking EXCEPT ![c] = 0]
  /\ UNCHANGED <<tables, locked, redis, receiver, sweep, memory, history, copies, reconciles>>

(* A dead process forgets what it deferred; Redis still has it pending.    *)
ConsumerDies(c) ==
  /\ stage[c] # "down"
  /\ Fault
  /\ Goto(c, "down")
  /\ todo' = [todo EXCEPT ![c] = {}]
  /\ acking' = [acking EXCEPT ![c] = 0]
  /\ deferred' = [deferred EXCEPT ![c] = [t \in Tenants |-> <<>>]]
  /\ failures' = [failures EXCEPT ![c] = [t \in Tenants |-> 0]]
  /\ backoff' = [backoff EXCEPT ![c] = [t \in Tenants |-> FALSE]]
  /\ UNCHANGED <<tables, locked, redis, receiver, sweep, visit, history, copies, reconciles>>

Restart(c) ==
  /\ stage[c] = "down"
  /\ StartCycle(c)
  /\ UNCHANGED <<tables, locked, redis, receiver, sweep, todo, acking, memory, history, bounds>>

(* FLUSHALL or a restart without persistence: stream and group are gone.   *)
RedisLosesData ==
  /\ Fault
  /\ gone' = Len(stream)
  /\ cursor' = NoGroup
  /\ pel' = [e \in {} |-> 0]
  /\ UNCHANGED <<tables, locked, stream, receiver, sweep, loop, memory, history, copies,
                 reconciles>>

-----------------------------------------------------------------------------
(* Time, and the reconcile jobs as far as the pipeline sees them.          *)

(* A request ends long before its row is Stuck: its calls have timeouts.   *)
RowAges(d) ==
  /\ Present(d) /\ receiver[d] = "done" /\ rows[d].age < MaxAge
  /\ rows' = [rows EXCEPT ![d].age = @ + 1]
  /\ UNCHANGED <<stored, dailyCount, member, access, locked, redis, receiver, sweep, loop, memory,
                 history, bounds>>

EntryIdles(e) ==
  /\ e \in DOMAIN pel /\ ~pel[e].idle
  /\ pel' = [pel EXCEPT ![e].idle = TRUE]
  /\ UNCHANGED <<tables, locked, stream, gone, cursor, receiver, sweep, loop, memory,
                 history, bounds>>

BackoffEnds(c, t) ==
  /\ backoff[c][t]
  /\ backoff' = [backoff EXCEPT ![c][t] = FALSE]
  /\ UNCHANGED <<tables, locked, redis, receiver, sweep, loop, deferred, failures, history,
                 bounds>>

ReconcileLocks(t) ==
  /\ ~locked[t] /\ reconciles < MaxReconciles
  /\ locked' = [locked EXCEPT ![t] = TRUE]
  /\ reconciles' = reconciles + 1
  /\ UNCHANGED <<tables, redis, receiver, sweep, loop, memory, history, faults, copies>>

ReconcileUnlocks(t) ==
  /\ locked[t]
  /\ locked' = [locked EXCEPT ![t] = FALSE]
  /\ UNCHANGED <<tables, redis, receiver, sweep, loop, memory, history, bounds>>

-----------------------------------------------------------------------------
ReceiverStep(d) == Receive(d) \/ Enqueue(d) \/ MarkQueueFailed(d)

SweepStep == SweepSelect \/ SweepAdd \/ SweepCommit

ConsumerStep(c) ==
  \/ \E t \in Tenants : SkipTenant(c, t) \/ RetryHead(c, t)
  \/ EndRetry(c) \/ DropExhausted(c) \/ ClaimIdle(c) \/ ReadNew(c) \/ RecreateGroup(c)
  \/ Defer(c) \/ Dispatch(c) \/ Acknowledge(c) \/ EndBatch(c) \/ Restart(c)

ConsumerFault(c) ==
  \/ \E t \in Tenants : RetryFails(c, t)
  \/ DispatchFails(c) \/ AckFails(c) \/ CycleFails(c) \/ ConsumerDies(c)

Next ==
  \/ \E d \in Deliveries : ReceiverStep(d) \/ EnqueueRaises(d) \/ ReceiverDies(d) \/ RowAges(d)
  \/ SweepStep \/ SweepDies \/ PurgeDeliveries \/ RedisLosesData
  \/ \E c \in Consumers : ConsumerStep(c) \/ ConsumerFault(c)
  \/ \E e \in DOMAIN pel : EntryIdles(e)
  \/ \E c \in Consumers, t \in Tenants : BackoffEnds(c, t)
  \/ \E t \in Tenants : ReconcileLocks(t) \/ ReconcileUnlocks(t)

Spec == Init /\ [][Next]_vars

(* The consumer thread loops without blocking and its process is restarted,*)
(* the API's sweep and its requests run on, clocks advance, a reconcile    *)
(* job ends.  Nothing obliges a fault, a purge or a reconcile.             *)
Fairness ==
  /\ \A c \in Consumers : WF_vars(ConsumerStep(c))
  /\ \A d \in Deliveries : /\ WF_vars(Enqueue(d) \/ MarkQueueFailed(d))
                            /\ WF_vars(RowAges(d))
                            /\ WF_vars(\E e \in DOMAIN pel : stream[e] = d /\ EntryIdles(e))
  /\ WF_vars(SweepStep)
  /\ \A t \in Tenants : /\ WF_vars(ReconcileUnlocks(t))
                         /\ \A c \in Consumers : WF_vars(BackoffEnds(c, t))

FairSpec == Spec /\ Fairness

-----------------------------------------------------------------------------
(* Properties.                                                             *)

Entries == 1 .. Len(stream)

TablesOK ==
  /\ rows \in [Deliveries -> [status : Status, age : Fresh .. MaxAge]]
  /\ stored \subseteq {Guid[d] : d \in Deliveries} /\ dailyCount \in Nat
  /\ member \in [Tenants -> Deliveries \cup {0}]
  /\ access \in [Tenants -> BOOLEAN] /\ locked \in [Tenants -> BOOLEAN]
  /\ applied \subseteq Deliveries /\ dropped \subseteq Deliveries

RedisOK ==
  /\ stream \in Seq(Deliveries) /\ gone \in 0 .. Len(stream)
  /\ cursor \in {NoGroup} \cup (0 .. Len(stream))
  /\ DOMAIN pel \subseteq Entries
  /\ pel \in [DOMAIN pel -> [tries : 1 .. MaxAttempts, idle : BOOLEAN]]

ProducersOK ==
  /\ receiver \in [Deliveries -> {"idle", "stored", "failing", "done"}]
  /\ sweep \in [doomed : SUBSET Deliveries, todo : SUBSET Deliveries, added : SUBSET Deliveries]

LoopsOK ==
  /\ stage \in [Consumers -> Stage] /\ visit \in [Consumers -> SUBSET Tenants]
  /\ todo \in [Consumers -> SUBSET Entries] /\ acking \in [Consumers -> {0} \cup Entries]

MemoryOK ==
  /\ deferred \in [Consumers -> [Tenants -> Seq(Entries)]]
  /\ failures \in [Consumers -> [Tenants -> 0 .. MaxAttempts - 1]]
  /\ backoff \in [Consumers -> [Tenants -> BOOLEAN]]

(* Every variable holds values of its type.                                *)
TypeOK == TablesOK /\ RedisOK /\ ProducersOK /\ LoopsOK /\ MemoryOK

(* A delivery, GitHub's or ours, may be processed any number of times: an  *)
(* event is counted exactly once, in the transaction that inserts it.      *)
CountMatchesEvents == dailyCount = Cardinality(stored)

(* An entry that left the pending list while still on the stream is dealt  *)
(* with: its data was written, or its row says why it never will be.  An   *)
(* acknowledgment that runs ahead of the commit would lose the delivery.   *)
AckAfterCommit ==
  \A e \in Retained :
    e <= cursor /\ e \notin DOMAIN pel =>
      LET d == stream[e]
      IN \/ d \in applied \cup dropped
         \/ rows[d].status \in {"queue_abandoned", "purged"}
         \/ ~Normalizable(d)

Roster(x, d) == Kind[x] \in Membership /\ Tenant[x] = Tenant[d]

(* In whatever order, and however often, the events of a member have been  *)
(* written, the newest of them decides: after an "added" its row carries   *)
(* that event's time, after a "removed" the GitHub membership is gone.     *)
NewestEventWins ==
  \A d \in applied :
    (Kind[d] \in Membership /\ \A x \in applied : Roster(x, d) => x <= d)
    => IF Kind[d] = "added" THEN member[Tenant[d]] = d ELSE ~access[Tenant[d]]

(* Waiting for a tenant's lock costs no attempt: as long as there is one   *)
(* consumer, a well-formed delivery is given up only after as many         *)
(* failures as it has attempts, however long reconcile jobs hold the lock. *)
WaitingCostsNoAttempt ==
  Cardinality(Consumers) = 1 /\ (\E d \in dropped : Kind[d] # "malformed") => faults >= MaxAttempts

(* A settled row stays settled.  The requeue sweep and the consumer cannot *)
(* undo each other; only the receiver's late "queue_failed" after a lost   *)
(* XADD reply reopens a row.                                               *)
StaysSettled ==
  \A d \in Deliveries :
    rows[d].status \in Final /\ receiver[d] # "failing"
    => rows'[d].status \in Final \cup {"purged"}

SettledStaysSettled == [][StaysSettled]_vars

(* While nothing fails, the membership events of a tenant are first        *)
(* written in the order of the stream: none overtakes an earlier one that  *)
(* waits for the lock (event_consumer.py, the comment on _deferred).       *)
InStreamOrder ==
  faults' = 0 =>
    \A d \in applied' \ applied :
      Kind[d] \in Membership =>
        \E e \in 1 .. Len(stream) : /\ stream[e] = d
                                   /\ \A f \in 1 .. e - 1 :
                                         Roster(stream[f], d) => stream[f] \in applied'

NoOvertaking == [][InStreamOrder]_vars

(* Every delivery that has a tenant and a normalizer is settled in the     *)
(* end, whatever was lost on the way.                                      *)
Expected(d) == Normalizable(d) /\ receiver[d] # "idle"
Settled(d)  == rows[d].status \in Final \cup {"purged"}

EveryDeliverySettles == \A d \in Deliveries : Expected(d) ~> Settled(d)

(* webhook_requeue_sweep.py: a second entry for a delivery is harmless,    *)
(* "every currently-ingested event type's DB write there is a genuine      *)
(* idempotent upsert"; so processing it again changes no data.             *)
ReplayHarmless ==
  [][\A c \in Consumers :
       /\ acking'[c] # acking[c] /\ acking'[c] # 0
       /\ stream[acking'[c]] \in applied
       => UNCHANGED <<stored, dailyCount, member, access>>]_vars

(* db.py: a dropped delivery is "never re-queued".                         *)
DroppedNeverRequeued == [][(sweep'.added \ sweep.added) \cap dropped = {}]_vars
=============================================================================
