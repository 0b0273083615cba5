----------------------- MODULE WebhookPipelineProofs -----------------------
(***************************************************************************)
(* Proofs about WebhookPipeline.tla, for any deliveries, tenants and       *)
(* consumers and any number of faults, duplicates and reconcile jobs.      *)
(***************************************************************************)
EXTENDS WebhookPipeline, FiniteSetTheorems, TLAPS

USE DEF tables, redis, memory, loop, history, bounds

-----------------------------------------------------------------------------
(* What the steps share.                                                   *)

(* The stream only grows at its end, and is trimmed only at its start.     *)
Grows ==
  /\ stream' \in Seq(Deliveries) /\ Len(stream) <= Len(stream')
  /\ \A e \in Entries : stream'[e] = stream[e]
  /\ gone' \in gone .. Len(stream')

LEMMA SameStream ==
  ASSUME RedisOK, UNCHANGED <<stream, gone>>
  PROVE  Grows /\ Entries' = Entries
  BY DEF RedisOK, Grows, Entries

LEMMA Appended ==
  ASSUME RedisOK, NEW d \in Deliveries, stream' = Append(stream, d)
  PROVE  /\ stream' \in Seq(Deliveries) /\ Len(stream') = Len(stream) + 1
         /\ stream'[Len(stream')] = d
         /\ \A e \in Entries : stream'[e] = stream[e]
         /\ Entries' = Entries \cup {Len(stream')}
  BY DEF RedisOK, Entries

LEMMA AddGrows ==
  ASSUME RedisOK, NEW d \in Deliveries,
         stream' = Append(stream, d), gone' \in {gone, gone + 1}, UNCHANGED <<cursor, pel>>
  PROVE  /\ Grows /\ RedisOK'
         /\ \A e \in Entries' : e \in Entries \/ stream'[e] = d
  <1>1. stream' = Append(stream, d) /\ UNCHANGED <<cursor, pel>>  OBVIOUS
  <1>2. gone' \in {gone, gone + 1} /\ gone' <= Len(stream) + 1
    BY DEF RedisOK
  <1>3. Len(stream) \in Nat /\ gone \in 0 .. Len(stream)  BY DEF RedisOK
  <1>4. Grows
    <2>1. gone' \in gone .. Len(stream')  BY <1>1, <1>2, <1>3, Appended
    <2>2. Len(stream) <= Len(stream')  BY <1>1, <1>3, Appended
    <2> QED  BY <1>1, <2>1, <2>2, Appended DEF Grows
  <1>5. RedisOK'
    <2>1. gone' \in 0 .. Len(stream')  BY <1>1, <1>2, <1>3, Appended
    <2>2. cursor' \in {NoGroup} \cup (0 .. Len(stream'))
      BY <1>1, <1>3, Appended DEF RedisOK
    <2>3. DOMAIN pel' \subseteq Entries'  BY <1>1, Appended DEF RedisOK
    <2> QED  BY <1>1, <2>1, <2>2, <2>3, Appended DEF RedisOK
  <1> QED  BY <1>1, <1>4, <1>5, Appended

(* What the consumers hold stays typed when the stream grows.              *)
LEMMA LoopsKept ==
  ASSUME RedisOK, LoopsOK, MemoryOK, Grows, UNCHANGED <<loop, memory>>
  PROVE  LoopsOK' /\ MemoryOK'
  <1>1. Entries \subseteq Entries'  BY DEF Grows, Entries, RedisOK
  <1>2. LoopsOK'  BY <1>1 DEF LoopsOK
  <1>3. Seq(Entries) \subseteq Seq(Entries')  BY <1>1
  <1>4. MemoryOK'  BY <1>3 DEF MemoryOK
  <1> QED  BY <1>2, <1>4

(* A status is set on a row that no transaction of the sweep has locked.   *)
LEMMA StatusSet ==
  ASSUME TablesOK, NEW d \in Deliveries, NEW s \in Status, SetStatus(d, s)
  PROVE  /\ rows' \in [Deliveries -> [status : Status, age : Fresh .. MaxAge]]
         /\ \A x \in Deliveries : /\ rows'[x].age = rows[x].age
                                  /\ rows'[x].status = IF x = d THEN s ELSE rows[x].status
  <1> DEFINE r == [rows[d] EXCEPT !.status = s]
  <1>1. rows' = [rows EXCEPT ![d] = r]  BY DEF SetStatus
  <1>2. rows[d] \in [status : Status, age : Fresh .. MaxAge]  BY DEF TablesOK
  <1>3. r \in [status : Status, age : Fresh .. MaxAge] /\ r.status = s /\ r.age = rows[d].age
    BY <1>2
  <1> HIDE DEF r
  <1> QED  BY <1>1, <1>3 DEF TablesOK

-----------------------------------------------------------------------------
(* Rows.  A status is the last word only when it says so.                  *)

(* A delivery is dealt with: see AckAfterCommit.                           *)
DealtWith(d) ==
  \/ d \in applied \cup dropped
  \/ rows[d].status \in {"queue_abandoned", "purged"}
  \/ ~Normalizable(d)

RowInv(d) ==
  /\ receiver[d] = "idle" <=> rows[d].status = "absent"
  /\ receiver[d] # "done" => rows[d].age = Fresh
  /\ rows[d].status = "processed" => d \in applied
  /\ rows[d].status = "dropped" => d \in dropped
  /\ rows[d].status \in {"queue_abandoned", "purged"} => rows[d].age = Expired
  /\ d \in sweep.doomed => rows[d].status = "queue_failed" /\ rows[d].age = Expired
  /\ d \in sweep.todo \cup sweep.added => rows[d].status \in {"queued", "queue_failed"}

RowsInv == \A d \in Deliveries : RowInv(d)

(* What a step may do to a row.                                            *)
RowMove(d) ==
  /\ RowInv(d)'
  /\ DealtWith(d) => DealtWith(d)'
  /\ receiver[d] # "idle" => receiver'[d] # "idle"
  /\ rows[d].status \in Final /\ receiver[d] # "failing" => rows'[d].status \in Final \cup {"purged"}

RowsMove == \A d \in Deliveries : RowMove(d)

LEMMA RowsStill ==
  ASSUME RowsInv, UNCHANGED <<rows, receiver, sweep, applied, dropped>>
  PROVE  RowsMove
  BY DEF RowsInv, RowInv, RowsMove, RowMove, DealtWith, Final

LEMMA ReceiverMoves ==
  ASSUME TypeOK, RowsInv, NEW d \in Deliveries,
         Receive(d) \/ Enqueue(d) \/ EnqueueRaises(d) \/ MarkQueueFailed(d) \/ ReceiverDies(d)
  PROVE  TablesOK' /\ ProducersOK' /\ RowsMove
  <1>0. rows[d].status \in Status /\ RowInv(d)
    BY DEF TypeOK, TablesOK, RowsInv
  <1>1. ProducersOK'
    BY DEF TypeOK, ProducersOK, Receive, Enqueue, EnqueueRaises, MarkQueueFailed, ReceiverDies
  <1>2. ASSUME UNCHANGED <<rows, applied, dropped, sweep>>, receiver[d] \in {"stored", "failing"},
               \A x \in Deliveries :
                 receiver'[x] = receiver[x] \/ (x = d /\ receiver'[x] \in {"failing", "done"})
        PROVE  RowsMove
    BY <1>2 DEF RowsMove, RowMove, RowsInv, RowInv, DealtWith, Final
  <1>3. CASE Enqueue(d) \/ EnqueueRaises(d) \/ ReceiverDies(d)
    <2>1. UNCHANGED <<rows, applied, dropped, sweep>> /\ receiver[d] \in {"stored", "failing"}
      BY <1>3 DEF Enqueue, EnqueueRaises, ReceiverDies
    <2>2. \A x \in Deliveries : receiver'[x] = receiver[x] \/ (x = d /\ receiver'[x] \in {"failing", "done"})
      BY <1>3 DEF Enqueue, EnqueueRaises, ReceiverDies, TypeOK, ProducersOK
    <2>3. TablesOK'
      BY <1>3 DEF Enqueue, EnqueueRaises, ReceiverDies, TypeOK, TablesOK
    <2> QED  BY <1>1, <1>2, <2>1, <2>2, <2>3
  <1>4. CASE Receive(d)
    <2>1. /\ receiver[d] = "idle" /\ receiver' = [receiver EXCEPT ![d] = "stored"]
          /\ SetStatus(d, "queued")
          /\ UNCHANGED <<stored, dailyCount, member, access, locked, sweep, applied, dropped>>
      BY <1>4 DEF Receive
    <2>2. /\ rows' \in [Deliveries -> [status : Status, age : Fresh .. MaxAge]]
          /\ \A x \in Deliveries : /\ rows'[x].age = rows[x].age
                                   /\ rows'[x].status = IF x = d THEN "queued" ELSE rows[x].status
      <3>1. "queued" \in Status  BY DEF Status
      <3> QED  BY <2>1, <3>1, StatusSet DEF TypeOK
    <2>3. TablesOK'  BY <2>1, <2>2 DEF TypeOK, TablesOK
    <2>4. receiver'[d] = "stored" /\ \A x \in Deliveries \ {d} : receiver'[x] = receiver[x]
      BY <2>1 DEF TypeOK, ProducersOK
    <2>5. RowMove(d)
      BY <1>0, <2>1, <2>2, <2>4 DEF RowMove, RowInv, DealtWith, Final
    <2>6. ASSUME NEW x \in Deliveries \ {d} PROVE RowMove(x)
      BY <2>1, <2>2, <2>4 DEF RowsInv, RowMove, RowInv, DealtWith, Final
    <2> QED  BY <1>1, <2>3, <2>5, <2>6 DEF RowsMove
  <1>5. CASE MarkQueueFailed(d)
    <2>1. /\ receiver[d] = "failing" /\ receiver' = [receiver EXCEPT ![d] = "done"]
          /\ UNCHANGED <<stored, dailyCount, member, access, locked, sweep, applied, dropped>>
      BY <1>5 DEF MarkQueueFailed
    <2>2. receiver'[d] = "done" /\ \A x \in Deliveries \ {d} : receiver'[x] = receiver[x]
      BY <2>1 DEF TypeOK, ProducersOK
    <2>3. CASE UNCHANGED rows
      <3>1. TablesOK'  BY <2>1, <2>3 DEF TypeOK, TablesOK
      <3> QED  BY <1>1, <1>2, <2>1, <2>2, <2>3, <3>1
    <2>4. CASE SetStatus(d, "queue_failed")
      <3>1. "queue_failed" \in Status  BY DEF Status
      <3>2. /\ rows' \in [Deliveries -> [status : Status, age : Fresh .. MaxAge]]
            /\ \A x \in Deliveries :
                 /\ rows'[x].age = rows[x].age
                 /\ rows'[x].status = IF x = d THEN "queue_failed" ELSE rows[x].status
        BY <2>4, <3>1, StatusSet DEF TypeOK
      <3>3. TablesOK'  BY <2>1, <3>2 DEF TypeOK, TablesOK
      <3>4. d \notin sweep.doomed \cup sweep.todo \cup sweep.added
        BY <2>4 DEF SetStatus, Unlocked
      <3>5. RowMove(d)
        BY <1>0, <2>1, <2>2, <3>2, <3>4 DEF RowMove, RowInv, DealtWith, Final, Fresh, Expired
      <3>6. ASSUME NEW x \in Deliveries \ {d} PROVE RowMove(x)
        BY <2>1, <2>2, <3>2 DEF RowsInv, RowMove, RowInv, DealtWith, Final
      <3> QED  BY <1>1, <3>3, <3>5, <3>6 DEF RowsMove
    <2> QED  BY <1>5, <2>3, <2>4 DEF MarkQueueFailed
  <1> QED  BY <1>3, <1>4, <1>5

LEMMA SweepMoves ==
  ASSUME TypeOK, RowsInv, SweepSelect \/ SweepAdd \/ SweepCommit \/ SweepDies
  PROVE  TablesOK' /\ ProducersOK' /\ RowsMove
  <1> USE DEF TypeOK
  <1>1. UNCHANGED <<receiver, stored, dailyCount, member, access, locked, applied, dropped>>
    BY DEF SweepSelect, SweepAdd, SweepCommit, SweepDies
  <1>2. CASE SweepSelect
    <2>1. \A d \in Deliveries :
            /\ d \in sweep'.doomed => rows[d].status = "queue_failed" /\ rows[d].age = Expired
            /\ d \in sweep'.todo \cup sweep'.added => rows[d].status \in {"queued", "queue_failed"}
      BY <1>2 DEF SweepSelect, Eligible
    <2>2. ProducersOK'  BY <1>1, <1>2 DEF SweepSelect, ProducersOK
    <2>3. UNCHANGED rows  BY <1>2 DEF SweepSelect
    <2>4. TablesOK'  BY <1>1, <2>3 DEF TablesOK
    <2>5. RowsMove
      BY <1>1, <2>1, <2>3 DEF RowsInv, RowInv, RowsMove, RowMove, DealtWith, Final
    <2> QED  BY <2>2, <2>4, <2>5
  <1>3. CASE SweepAdd
    <2>1. PICK d \in First(sweep.todo) :
            sweep' = [sweep EXCEPT !.todo = @ \ {d}, !.added = @ \cup {d}]
      BY <1>3 DEF SweepAdd
    <2>2. d \in sweep.todo  BY DEF First
    <2>3. /\ sweep'.doomed = sweep.doomed
          /\ sweep'.todo = sweep.todo \ {d} /\ sweep'.added = sweep.added \cup {d}
          /\ ProducersOK'
      <3>1. sweep \in [doomed : SUBSET Deliveries, todo : SUBSET Deliveries, added : SUBSET Deliveries]
        BY DEF ProducersOK
      <3>2. d \in Deliveries  BY <2>2, <3>1
      <3> QED  BY <1>1, <2>1, <3>1, <3>2 DEF ProducersOK
    <2>4. UNCHANGED rows  BY <1>3 DEF SweepAdd
    <2>5. TablesOK'  BY <1>1, <2>4 DEF TablesOK
    <2>6. RowsMove
      BY <1>1, <2>2, <2>3, <2>4 DEF RowsInv, RowInv, RowsMove, RowMove, DealtWith, Final
    <2> QED  BY <2>3, <2>5, <2>6
  <1>4. CASE SweepDies
    <2>1. sweep' = NoSweep /\ UNCHANGED rows  BY <1>4 DEF SweepDies
    <2>2. ProducersOK' /\ TablesOK'  BY <1>1, <2>1 DEF ProducersOK, TablesOK, NoSweep
    <2>3. RowsMove
      BY <1>1, <2>1 DEF NoSweep, RowsInv, RowInv, RowsMove, RowMove, DealtWith, Final
    <2> QED  BY <2>2, <2>3
  <1>5. CASE SweepCommit
    <2>1. sweep' = NoSweep  BY <1>5 DEF SweepCommit
    <2>2. /\ rows' \in [Deliveries -> [status : Status, age : Fresh .. MaxAge]]
          /\ \A d \in Deliveries :
               /\ rows'[d].age = rows[d].age
               /\ rows'[d].status = IF d \in sweep.doomed THEN "queue_abandoned"
                                    ELSE IF d \in sweep.added THEN "queued" ELSE rows[d].status
      <3> DEFINE row(d) == IF d \in sweep.doomed THEN [rows[d] EXCEPT !.status = "queue_abandoned"]
                           ELSE IF d \in sweep.added THEN [rows[d] EXCEPT !.status = "queued"]
                           ELSE rows[d]
      <3>1. rows' = [d \in Deliveries |-> row(d)]  BY <1>5 DEF SweepCommit
      <3>2. ASSUME NEW d \in Deliveries
            PROVE  /\ row(d) \in [status : Status, age : Fresh .. MaxAge]
                   /\ row(d).age = rows[d].age
                   /\ row(d).status = IF d \in sweep.doomed THEN "queue_abandoned"
                                      ELSE IF d \in sweep.added THEN "queued" ELSE rows[d].status
        <4>1. rows[d] \in [status : Status, age : Fresh .. MaxAge]  BY DEF TablesOK
        <4> QED  BY <4>1 DEF Status
      <3> HIDE DEF row
      <3> QED  BY <3>1, <3>2
    <2>3. TablesOK'  BY <1>1, <2>2 DEF TablesOK
    <2>4. ProducersOK'  BY <1>1, <2>1 DEF ProducersOK, NoSweep
    <2>5. RowsMove
      BY <1>1, <2>1, <2>2 DEF NoSweep, RowsInv, RowInv, RowsMove, RowMove, DealtWith, Final
    <2> QED  BY <2>3, <2>4, <2>5
  <1> QED  BY <1>2, <1>3, <1>4, <1>5

LEMMA TimeMoves ==
  ASSUME TypeOK, RowsInv, PurgeDeliveries \/ \E d \in Deliveries : RowAges(d)
  PROVE  TablesOK' /\ ProducersOK' /\ RowsMove
  <1> USE DEF TypeOK
  <1>1. UNCHANGED <<receiver, sweep, stored, dailyCount, member, access, locked, applied, dropped>>
    BY DEF PurgeDeliveries, RowAges
  <1>2. ProducersOK'  BY <1>1 DEF ProducersOK
  <1>3. CASE PurgeDeliveries
    <2>1. PICK S \in SUBSET {d \in Deliveries : /\ rows[d].status \in Final
                                                /\ rows[d].age = Expired /\ Unlocked(d)} :
            rows' = [d \in Deliveries |->
                       IF d \in S THEN [rows[d] EXCEPT !.status = "purged"] ELSE rows[d]]
      BY <1>3 DEF PurgeDeliveries
    <2>2. ASSUME NEW d \in Deliveries
          PROVE  /\ rows'[d] \in [status : Status, age : Fresh .. MaxAge]
                 /\ rows'[d].age = rows[d].age
                 /\ rows'[d].status = IF d \in S THEN "purged" ELSE rows[d].status
      <3>1. rows[d] \in [status : Status, age : Fresh .. MaxAge]  BY DEF TablesOK
      <3>2. rows'[d] = IF d \in S THEN [rows[d] EXCEPT !.status = "purged"] ELSE rows[d]
        BY <2>1
      <3> QED  BY <3>1, <3>2 DEF Status
    <2>3. rows' \in [Deliveries -> [status : Status, age : Fresh .. MaxAge]]  BY <2>1, <2>2
    <2>4. TablesOK'  BY <1>1, <2>3 DEF TablesOK
    <2>5. ASSUME NEW d \in Deliveries PROVE RowMove(d)
      <3>1. CASE d \in S
        <4>1. /\ rows[d].status \in Final /\ rows[d].age = Expired
              /\ d \notin sweep.doomed \cup sweep.todo \cup sweep.added
          BY <3>1 DEF Unlocked
        <4> QED
          BY <1>1, <2>2, <3>1, <4>1
          DEF RowsInv, RowInv, RowMove, DealtWith, Final, Fresh, Expired
      <3>2. CASE d \notin S
        BY <1>1, <2>2, <3>2 DEF RowsInv, RowInv, RowMove, DealtWith, Final
      <3> QED  BY <3>1, <3>2
    <2> QED  BY <1>2, <2>4, <2>5 DEF RowsMove
  <1>4. ASSUME NEW d \in Deliveries, RowAges(d)
        PROVE  TablesOK' /\ RowsMove
    <2> DEFINE r == [rows[d] EXCEPT !.age = rows[d].age + 1]
    <2>1. /\ Present(d) /\ receiver[d] = "done" /\ rows[d].age < MaxAge
          /\ rows' = [rows EXCEPT ![d] = r]
      BY <1>4 DEF RowAges
    <2>2. rows[d] \in [status : Status, age : Fresh .. MaxAge] /\ MaxAge \in Fresh .. Expired
      BY PipelineAssumption DEF TablesOK, PipelineAssumption
    <2>3. /\ r \in [status : Status, age : Fresh .. MaxAge]
          /\ r.status = rows[d].status /\ r.age = rows[d].age + 1
      BY <2>1, <2>2 DEF Fresh, Expired
    <2> HIDE DEF r
    <2>4. rows' \in [Deliveries -> [status : Status, age : Fresh .. MaxAge]]
      BY <2>1, <2>3 DEF TablesOK
    <2>5. rows'[d] = r /\ \A x \in Deliveries \ {d} : rows'[x] = rows[x]
      BY <2>1 DEF TablesOK
    <2>6. rows[d].age # Expired  BY <2>1, <2>2 DEF Fresh, Expired
    <2>7. RowMove(d)
      BY <1>1, <2>1, <2>3, <2>5, <2>6 DEF RowsInv, RowInv, RowMove, DealtWith, Final
    <2>8. ASSUME NEW x \in Deliveries \ {d} PROVE RowMove(x)
      BY <1>1, <2>5 DEF RowsInv, RowInv, RowMove, DealtWith, Final
    <2>9. TablesOK'  BY <1>1, <2>4 DEF TablesOK
    <2> QED  BY <2>7, <2>8, <2>9 DEF RowsMove
  <1> QED  BY <1>2, <1>3, <1>4

LEMMA DropMoves ==
  ASSUME TypeOK, RowsInv, NEW d \in Deliveries, Drop(d), receiver[d] # "idle",
         UNCHANGED <<receiver, sweep, stored, dailyCount, member, access, locked, applied>>
  PROVE  TablesOK' /\ RowsMove /\ DealtWith(d)'
  <1>0. rows[d].status \in Status /\ RowInv(d)  BY DEF TypeOK, TablesOK, RowsInv
  <1>1. CASE rows[d].status \in {"queued", "queue_failed"}
    <2>1. SetStatus(d, "dropped") /\ dropped' = dropped \cup {d}  BY <1>1 DEF Drop
    <2>2. "dropped" \in Status  BY DEF Status
    <2>3. /\ rows' \in [Deliveries -> [status : Status, age : Fresh .. MaxAge]]
          /\ \A x \in Deliveries : /\ rows'[x].age = rows[x].age
                                   /\ rows'[x].status = IF x = d THEN "dropped" ELSE rows[x].status
      BY <2>1, <2>2, StatusSet DEF TypeOK
    <2>4. TablesOK'  BY <2>1, <2>3 DEF TypeOK, TablesOK
    <2>5. d \notin sweep.doomed \cup sweep.todo \cup sweep.added
      BY <2>1 DEF SetStatus, Unlocked
    <2>6. RowMove(d)
      BY <1>0, <1>1, <2>1, <2>3, <2>5 DEF RowMove, RowInv, DealtWith, Final
    <2>7. ASSUME NEW x \in Deliveries \ {d} PROVE RowMove(x)
      BY <2>1, <2>3 DEF RowsInv, RowMove, RowInv, DealtWith, Final
    <2> QED  BY <2>1, <2>4, <2>6, <2>7 DEF RowsMove, DealtWith
  <1>2. CASE rows[d].status \notin {"queued", "queue_failed"}
    <2>1. UNCHANGED <<rows, dropped>>  BY <1>2 DEF Drop
    <2>2. TablesOK'  BY <2>1 DEF TypeOK, TablesOK
    <2>3. DealtWith(d)  BY <1>0, <1>2 DEF RowInv, DealtWith, Status
    <2> QED  BY <2>1, <2>2, <2>3, RowsStill DEF RowsMove, RowMove
  <1> QED  BY <1>1, <1>2

(* _process_entry: whatever it does, its delivery is settled then.         *)
LEMMA ProcessMoves ==
  ASSUME TypeOK, RowsInv, NEW c, NEW d \in Deliveries, Process(c, d), receiver[d] # "idle",
         UNCHANGED <<receiver, sweep, locked>>
  PROVE  TablesOK' /\ RowsMove /\ DealtWith(d)'
  <1>0. rows[d].status \in Status /\ RowInv(d)  BY DEF TypeOK, TablesOK, RowsInv
  <1>1. CASE ~Present(d) \/ ~Normalizable(d)
    <2>1. UNCHANGED <<rows, stored, dailyCount, member, access, applied, dropped>>
      BY <1>1 DEF Process
    <2>2. TablesOK'  BY <2>1 DEF TypeOK, TablesOK
    <2>3. DealtWith(d)  BY <1>0, <1>1 DEF RowInv, DealtWith, Present
    <2> QED  BY <2>1, <2>2, <2>3, RowsStill DEF RowsMove, RowMove
  <1>2. CASE Present(d) /\ Normalizable(d) /\ Kind[d] = "malformed"
    <2>1. Drop(d) /\ UNCHANGED <<stored, dailyCount, member, access, applied>>
      BY <1>2 DEF Process
    <2> QED  BY <2>1, DropMoves
  <1>3. CASE Present(d) /\ Normalizable(d) /\ Kind[d] # "malformed"
    <2>1. Write(d)  BY <1>3 DEF Process
    <2>2. SetStatus(d, "processed") /\ applied' = applied \cup {d} /\ UNCHANGED dropped
      BY <2>1 DEF Write
    <2>3. "processed" \in Status  BY DEF Status
    <2>4. /\ rows' \in [Deliveries -> [status : Status, age : Fresh .. MaxAge]]
          /\ \A x \in Deliveries :
               /\ rows'[x].age = rows[x].age
               /\ rows'[x].status = IF x = d THEN "processed" ELSE rows[x].status
      BY <2>2, <2>3, StatusSet DEF TypeOK
    <2>5. /\ stored' \subseteq {Guid[x] : x \in Deliveries} /\ dailyCount' \in Nat
          /\ member' \in [Tenants -> Deliveries \cup {0}] /\ access' \in [Tenants -> BOOLEAN]
      <3>1. CASE InsertEvent(d)  BY <3>1 DEF InsertEvent, TypeOK, TablesOK
      <3>2. CASE UpsertMember(d)  BY <3>2 DEF UpsertMember, TypeOK, TablesOK
      <3>3. CASE RemoveMember(d)
        <4>1. member' \in [Tenants -> Deliveries \cup {0}]
          BY <3>3 DEF RemoveMember, TypeOK, TablesOK
        <4>2. access' \in [Tenants -> BOOLEAN]
          <5> DEFINE t == Tenant[d]
                     v == access[t] /\ member'[t] # 0
          <5>1. access' = [access EXCEPT ![t] = v]  BY <3>3 DEF RemoveMember
          <5>2. v \in BOOLEAN  OBVIOUS
          <5> HIDE DEF v
          <5> QED  BY <5>1, <5>2 DEF TypeOK, TablesOK
        <4> QED  BY <3>3, <4>1, <4>2 DEF RemoveMember, TypeOK, TablesOK
      <3> QED  BY <2>1, <3>1, <3>2, <3>3 DEF Write
    <2>6. TablesOK'  BY <2>2, <2>4, <2>5 DEF TypeOK, TablesOK
    <2>7. d \notin sweep.doomed \cup sweep.todo \cup sweep.added
      BY <2>2 DEF SetStatus, Unlocked
    <2>8. RowMove(d)
      BY <1>0, <2>2, <2>4, <2>7 DEF RowMove, RowInv, DealtWith, Final
    <2>9. ASSUME NEW x \in Deliveries \ {d} PROVE RowMove(x)
      BY <2>2, <2>4 DEF RowsInv, RowMove, RowInv, DealtWith, Final
    <2> QED  BY <2>2, <2>6, <2>8, <2>9 DEF RowsMove, DealtWith
  <1> QED  BY <1>1, <1>2, <1>3

-----------------------------------------------------------------------------
(* What the stream, the consumers and Redis say of each other.             *)

(* An entry names a row that was stored.                                   *)
StreamInv == \A e \in Entries : receiver[stream[e]] # "idle"

(* A consumer keeps an entry under the tenant of its delivery; when it is  *)
(* about to acknowledge a deferred one, that one is the head of its queue; *)
(* and what it is about to acknowledge is settled.                         *)
DeferInv(c) ==
  \A t \in Tenants : \A i \in 1 .. Len(deferred[c][t]) : Tenant[stream[deferred[c][t][i]]] = t

HeadInv(c) ==
  /\ stage[c] \in {"down", "read"} => acking[c] = 0
  /\ stage[c] = "retry" /\ acking[c] # 0 =>
       LET t == Tenant[stream[acking[c]]] IN t \in Tenants /\ deferred[c][t] # <<>>

AckInv(c) == acking[c] > gone => DealtWith(stream[acking[c]])

ConsumerInv(c) == DeferInv(c) /\ HeadInv(c) /\ AckInv(c)

PipelineInv ==
  /\ TypeOK /\ RowsInv /\ StreamInv
  /\ \A c \in Consumers : ConsumerInv(c)
  /\ AckAfterCommit

LEMMA StreamKept ==
  ASSUME RedisOK, StreamInv, Grows, RowsMove,
         \A e \in Entries' : e \in Entries \/ receiver[stream'[e]] # "idle"
  PROVE  StreamInv'
  <1>1. \A e \in Entries : stream'[e] = stream[e] /\ stream[e] \in Deliveries
    BY DEF Grows, RedisOK, Entries
  <1>2. \A e \in Entries' : stream'[e] \in Deliveries
    BY DEF Grows, Entries
  <1>3. \A d \in Deliveries : receiver[d] # "idle" => receiver'[d] # "idle"
    BY DEF RowsMove, RowMove
  <1> QED  BY <1>1, <1>2, <1>3 DEF StreamInv

(* A consumer that does nothing is not disturbed by what the others do.    *)
LEMMA ConsumerKept ==
  ASSUME TypeOK, NEW c \in Consumers, ConsumerInv(c), Grows, RowsMove,
         stage'[c] = stage[c], acking'[c] = acking[c], deferred'[c] = deferred[c]
  PROVE  ConsumerInv(c)'
  <1>1. \A e \in Entries : stream'[e] = stream[e] /\ stream[e] \in Deliveries
    BY DEF Grows, RedisOK, TypeOK, Entries
  <1>2. acking[c] \in {0} \cup Entries /\ deferred[c] \in [Tenants -> Seq(Entries)]
    BY DEF TypeOK, LoopsOK, MemoryOK
  <1>3. DeferInv(c)'
    <2>1. \A t \in Tenants : \A i \in 1 .. Len(deferred[c][t]) : deferred[c][t][i] \in Entries
      BY <1>2
    <2> QED  BY <1>1, <2>1 DEF ConsumerInv, DeferInv
  <1>4. HeadInv(c)'  BY <1>1, <1>2 DEF ConsumerInv, HeadInv
  <1>5. AckInv(c)'
    <2>1. gone \in Nat /\ gone' \in Nat /\ gone <= gone' /\ Entries \subseteq Nat
      BY DEF Grows, TypeOK, RedisOK, Entries
    <2>2. CASE acking[c] = 0  BY <2>1, <2>2 DEF AckInv
    <2>3. CASE acking[c] \in Entries /\ acking[c] > gone'
      <3>0. acking[c] > gone
        <4> DEFINE e == acking[c]
        <4>1. e \in Nat /\ e > gone'  BY <2>1, <2>3
        <4> HIDE DEF e
        <4>2. e > gone  BY <2>1, <4>1
        <4> QED  BY <4>2 DEF e
      <3>1. DealtWith(stream[acking[c]])  BY <3>0 DEF ConsumerInv, AckInv
      <3> QED  BY <1>1, <2>3, <3>1 DEF AckInv, RowsMove, RowMove
    <2> QED  BY <1>2, <2>2, <2>3 DEF AckInv
  <1> QED  BY <1>3, <1>4, <1>5 DEF ConsumerInv

LEMMA AckKept ==
  ASSUME TypeOK, AckAfterCommit, Grows, RowsMove,
         \A e \in Entries' :
           e > gone' /\ e <= cursor' /\ e \notin DOMAIN pel' =>
             \/ e > gone /\ e <= cursor /\ e \notin DOMAIN pel
             \/ e \in Entries /\ DealtWith(stream[e])
  PROVE  AckAfterCommit'
  <1> SUFFICES ASSUME NEW e \in Retained', e <= cursor', e \notin DOMAIN pel'
               PROVE  DealtWith(stream[e])'
    BY DEF AckAfterCommit, DealtWith
  <1>1. e \in Entries' /\ e > gone'
    BY DEF Retained, Entries, Grows, TypeOK, RedisOK
  <1>2. e \in Entries /\ DealtWith(stream[e])
    <2>1. CASE e > gone /\ e <= cursor /\ e \notin DOMAIN pel
      <3>1. e \in Entries /\ e \in Retained
        BY <1>1, <2>1 DEF Retained, Entries, TypeOK, RedisOK, NoGroup
      <3> QED  BY <2>1, <3>1 DEF AckAfterCommit, DealtWith
    <2> QED  BY <1>1, <2>1
  <1>3. stream'[e] = stream[e] /\ stream[e] \in Deliveries
    BY <1>2 DEF Grows, TypeOK, RedisOK, Entries
  <1> QED  BY <1>2, <1>3 DEF RowsMove, RowMove

(* The steps in which no consumer moves.                                   *)
LEMMA QuietStep ==
  ASSUME PipelineInv, Grows, RowsMove, TablesOK', RedisOK', ProducersOK', UNCHANGED loop,
         UNCHANGED deferred, MemoryOK',
         \A e \in Entries' : e \in Entries \/ receiver[stream'[e]] # "idle",
         UNCHANGED <<cursor, pel>> \/ gone' = Len(stream')
  PROVE  PipelineInv'
  <1> USE DEF PipelineInv
  <1>1. LoopsOK'
    <2>1. Entries \subseteq Entries'  BY DEF Grows, Entries, TypeOK, RedisOK
    <2> QED  BY <2>1 DEF TypeOK, LoopsOK
  <1>2. TypeOK'  BY <1>1 DEF TypeOK
  <1>3. RowsInv'  BY DEF RowsMove, RowMove, RowsInv
  <1>4. StreamInv'  BY StreamKept DEF TypeOK
  <1>5. \A c \in Consumers : ConsumerInv(c)'  BY ConsumerKept
  <1>6. AckAfterCommit'
    <2>1. gone \in Nat /\ gone' \in Nat /\ gone <= gone' /\ Entries' = 1 .. Len(stream')
      BY DEF Grows, TypeOK, RedisOK, Entries
    <2>2. \A e \in Entries' : e > gone' => e > gone  BY <2>1
    <2>3. CASE UNCHANGED <<cursor, pel>>  BY <2>2, <2>3, AckKept
    <2>4. CASE gone' = Len(stream')  BY <2>4 DEF AckAfterCommit, Retained, Grows, TypeOK, RedisOK
    <2> QED  BY <2>3, <2>4
  <1> QED  BY <1>2, <1>3, <1>4, <1>5, <1>6

LEMMA ReceiverStepKeeps ==
  ASSUME PipelineInv, NEW d \in Deliveries,
         Receive(d) \/ Enqueue(d) \/ EnqueueRaises(d) \/ MarkQueueFailed(d) \/ ReceiverDies(d)
  PROVE  PipelineInv' /\ RowsMove
  <1>1. TypeOK /\ RowsInv  BY DEF PipelineInv
  <1>2. TablesOK' /\ ProducersOK' /\ RowsMove  BY <1>1, ReceiverMoves
  <1>3. UNCHANGED <<loop, memory>>
    BY DEF Receive, Enqueue, EnqueueRaises, MarkQueueFailed, ReceiverDies
  <1>4. /\ Grows /\ RedisOK' /\ UNCHANGED <<cursor, pel>>
        /\ \A e \in Entries' : e \in Entries \/ receiver[stream'[e]] # "idle"
    <2>1. CASE stream' = Append(stream, d)
      <3>1. receiver[d] = "stored" /\ gone' \in {gone, gone + 1} /\ UNCHANGED <<cursor, pel>>
        <4>1. CASE Enqueue(d)  BY <4>1 DEF Enqueue, XAdd
        <4>2. CASE EnqueueRaises(d)  BY <4>2 DEF EnqueueRaises
        <4>3. CASE UNCHANGED stream
          <5>1. Len(stream') # Len(stream)  BY <1>1, <2>1, Appended DEF TypeOK, RedisOK
          <5> QED  BY <4>3, <5>1
        <4> QED  BY <4>1, <4>2, <4>3 DEF Receive, MarkQueueFailed, ReceiverDies
      <3> QED  BY <1>1, <2>1, <3>1, AddGrows DEF TypeOK
    <2>2. CASE stream' # Append(stream, d)
      <3>1. UNCHANGED redis
        BY <2>2 DEF Receive, Enqueue, EnqueueRaises, MarkQueueFailed, ReceiverDies, XAdd
      <3> QED  BY <1>1, <3>1, SameStream DEF TypeOK, RedisOK, Entries
    <2> QED  BY <2>1, <2>2
  <1>5. MemoryOK'  BY <1>1, <1>3, <1>4, LoopsKept DEF TypeOK
  <1> QED  BY <1>2, <1>3, <1>4, <1>5, QuietStep

LEMMA SweepStepKeeps ==
  ASSUME PipelineInv, SweepStep \/ SweepDies
  PROVE  PipelineInv' /\ RowsMove
  <1>1. TypeOK /\ RowsInv  BY DEF PipelineInv
  <1>2. TablesOK' /\ ProducersOK' /\ RowsMove  BY <1>1, SweepMoves DEF SweepStep
  <1>3. UNCHANGED <<loop, memory, receiver, cursor, pel>>
    BY DEF SweepStep, SweepSelect, SweepAdd, SweepCommit, SweepDies, XAdd
  <1>4. /\ Grows /\ RedisOK'
        /\ \A e \in Entries' : e \in Entries \/ receiver[stream'[e]] # "idle"
    <2>1. CASE UNCHANGED <<stream, gone>>
      <3>1. RedisOK'  BY <1>1, <1>3, <2>1 DEF TypeOK, RedisOK, Entries
      <3> QED  BY <1>1, <2>1, <3>1, SameStream DEF TypeOK
    <2>2. CASE ~UNCHANGED <<stream, gone>>
      <3>1. PICK d \in First(sweep.todo) :
              stream' = Append(stream, d) /\ gone' \in {gone, gone + 1}
        BY <2>2 DEF SweepStep, SweepSelect, SweepAdd, SweepCommit, SweepDies, XAdd
      <3>2. d \in sweep.todo /\ d \in Deliveries
        BY <1>1 DEF First, TypeOK, ProducersOK
      <3>3. receiver[d] # "idle"  BY <1>1, <3>2 DEF RowsInv, RowInv
      <3> QED  BY <1>1, <1>3, <3>1, <3>2, <3>3, AddGrows DEF TypeOK
    <2> QED  BY <2>1, <2>2
  <1>5. MemoryOK'  BY <1>1, <1>3, <1>4, LoopsKept DEF TypeOK
  <1> QED  BY <1>2, <1>3, <1>4, <1>5, QuietStep

(* Time, retention, a loss of Redis and the reconcile jobs.                *)
LEMMA WorldKeeps ==
  ASSUME PipelineInv,
         \/ PurgeDeliveries \/ RedisLosesData \/ \E d \in Deliveries : RowAges(d)
         \/ \E e \in DOMAIN pel : EntryIdles(e)
         \/ \E c \in Consumers, t \in Tenants : BackoffEnds(c, t)
         \/ \E t \in Tenants : ReconcileLocks(t) \/ ReconcileUnlocks(t)
  PROVE  PipelineInv' /\ RowsMove
  <1>1. TypeOK /\ RowsInv  BY DEF PipelineInv
  <1>2. UNCHANGED <<stream, receiver, sweep, loop, deferred, failures, applied, dropped>>
    BY DEF PurgeDeliveries, RedisLosesData, RowAges, EntryIdles, BackoffEnds, ReconcileLocks,
           ReconcileUnlocks
  <1>3. TablesOK' /\ ProducersOK' /\ RowsMove
    <2>1. CASE PurgeDeliveries \/ \E d \in Deliveries : RowAges(d)
      BY <1>1, <2>1, TimeMoves
    <2>2. CASE \/ RedisLosesData \/ \E e \in DOMAIN pel : EntryIdles(e)
               \/ \E c \in Consumers, t \in Tenants : BackoffEnds(c, t)
      <3>1. UNCHANGED <<tables, locked, history>>
        BY <2>2 DEF RedisLosesData, EntryIdles, BackoffEnds
      <3> QED  BY <1>1, <1>2, <3>1, RowsStill DEF TypeOK, TablesOK, ProducersOK
    <2>3. CASE \E t \in Tenants : ReconcileLocks(t) \/ ReconcileUnlocks(t)
      <3>1. UNCHANGED <<tables, history>> /\ locked' \in [Tenants -> BOOLEAN]
        BY <1>1, <2>3 DEF ReconcileLocks, ReconcileUnlocks, TypeOK, TablesOK
      <3> QED  BY <1>1, <1>2, <3>1, RowsStill DEF TypeOK, TablesOK, ProducersOK
    <2> QED  BY <2>1, <2>2, <2>3
  <1>4. MemoryOK'
    <2>1. backoff' \in [Consumers -> [Tenants -> BOOLEAN]]
      <3>1. CASE UNCHANGED backoff  BY <1>1, <3>1 DEF TypeOK, MemoryOK
      <3>2. CASE \E c \in Consumers, t \in Tenants : BackoffEnds(c, t)
        <4>1. PICK c \in Consumers, t \in Tenants : BackoffEnds(c, t)  BY <3>2
        <4>2. backoff' = [backoff EXCEPT ![c] = [backoff[c] EXCEPT ![t] = FALSE]]
          BY <4>1 DEF BackoffEnds
        <4>3. [backoff[c] EXCEPT ![t] = FALSE] \in [Tenants -> BOOLEAN]
          BY <1>1 DEF TypeOK, MemoryOK
        <4> QED  BY <1>1, <4>2, <4>3 DEF TypeOK, MemoryOK
      <3> QED
        BY <3>1, <3>2
        DEF PurgeDeliveries, RedisLosesData, RowAges, EntryIdles, ReconcileLocks, ReconcileUnlocks
    <2> QED  BY <1>1, <1>2, <2>1 DEF TypeOK, MemoryOK, Entries
  <1>5. CASE \E e \in DOMAIN pel : EntryIdles(e)
    <2>1. PICK e \in DOMAIN pel : EntryIdles(e)  BY <1>5
    <2>2. pel[e] \in [tries : 1 .. MaxAttempts, idle : BOOLEAN]
      BY <1>1 DEF TypeOK, RedisOK
    <2>3. pel' = [pel EXCEPT ![e] = [pel[e] EXCEPT !.idle = TRUE]] /\ UNCHANGED <<gone, cursor>>
      BY <2>1 DEF EntryIdles
    <2>4. [pel[e] EXCEPT !.idle = TRUE] \in [tries : 1 .. MaxAttempts, idle : BOOLEAN]
      BY <2>2
    <2>5. DOMAIN pel' = DOMAIN pel /\ RedisOK'
      BY <1>1, <1>2, <2>3, <2>4 DEF TypeOK, RedisOK, Entries
    <2>6. Grows /\ Entries' = Entries  BY <1>1, <1>2, <2>3, SameStream DEF TypeOK
    <2>7. TypeOK'
      BY <1>1, <1>2, <1>3, <1>4, <2>5, <2>6 DEF TypeOK, LoopsOK
    <2>8. RowsInv' /\ StreamInv' /\ \A c \in Consumers : ConsumerInv(c)'
      BY <1>1, <1>2, <1>3, <2>6, StreamKept, ConsumerKept
      DEF PipelineInv, TypeOK, RowsMove, RowMove, RowsInv
    <2>9. AckAfterCommit'
      BY <1>1, <1>3, <2>3, <2>5, <2>6, AckKept DEF PipelineInv
    <2> QED  BY <1>3, <2>7, <2>8, <2>9 DEF PipelineInv
  <1>6. CASE ~ \E e \in DOMAIN pel : EntryIdles(e)
    <2>1. /\ Grows /\ RedisOK' /\ Entries' = Entries
          /\ UNCHANGED <<cursor, pel>> \/ gone' = Len(stream')
      <3>1. CASE RedisLosesData
        <4>1. /\ gone' = Len(stream) /\ cursor' = NoGroup /\ DOMAIN pel' = {}
              /\ pel' = [e \in {} |-> 0]
          BY <3>1 DEF RedisLosesData
        <4>2. pel' \in [DOMAIN pel' -> [tries : 1 .. MaxAttempts, idle : BOOLEAN]]
          BY <4>1
        <4>3. stream \in Seq(Deliveries) /\ gone \in 0 .. Len(stream) /\ Len(stream) \in Nat
          BY <1>1 DEF TypeOK, RedisOK
        <4>4. RedisOK'  BY <1>2, <4>1, <4>2, <4>3 DEF RedisOK, Entries
        <4> QED  BY <1>2, <4>1, <4>3, <4>4 DEF Grows, Entries
      <3>2. CASE ~RedisLosesData
        <4>1. UNCHANGED redis
          BY <1>6, <3>2 DEF PurgeDeliveries, RowAges, BackoffEnds, ReconcileLocks, ReconcileUnlocks
        <4> QED  BY <1>1, <4>1, SameStream DEF TypeOK, RedisOK, Entries
      <3> QED  BY <3>1, <3>2
    <2> QED  BY <1>2, <1>3, <1>4, <2>1, QuietStep
  <1> QED  BY <1>5, <1>6

-----------------------------------------------------------------------------
(* The steps of a consumer.                                                *)

LEMMA PutOK ==
  ASSUME NEW S, NEW T, NEW V, NEW f \in [S -> [T -> V]], NEW c \in S, NEW t, NEW v \in V,
         NEW g, g = [f EXCEPT ![c][t] = v]
  PROVE  /\ g \in [S -> [T -> V]]
         /\ \A o \in S \ {c} : g[o] = f[o]
         /\ \A x \in T : g[c][x] = IF x = t THEN v ELSE f[c][x]
  OBVIOUS

(* It changes nothing else, and of the others' memory nothing.             *)
LEMMA ConsumerFrame ==
  ASSUME TypeOK, NEW c \in Consumers, ConsumerStep(c) \/ ConsumerFault(c)
  PROVE  /\ UNCHANGED <<stream, gone, receiver, sweep, locked>>
         /\ \A o \in Consumers \ {c} :
              stage'[o] = stage[o] /\ acking'[o] = acking[o] /\ deferred'[o] = deferred[o]
  <1> USE DEF TypeOK, LoopsOK, MemoryOK
  <1>1. ASSUME NEW t, SkipTenant(c, t) \/ RetryHead(c, t)
        PROVE  /\ UNCHANGED <<stream, gone, receiver, sweep, locked>>
               /\ \A o \in Consumers \ {c} :
                    stage'[o] = stage[o] /\ acking'[o] = acking[o] /\ deferred'[o] = deferred[o]
    BY <1>1 DEF SkipTenant, RetryHead
  <1>2. ASSUME NEW t, RetryFails(c, t)
        PROVE  /\ UNCHANGED <<stream, gone, receiver, sweep, locked>>
               /\ \A o \in Consumers \ {c} :
                    stage'[o] = stage[o] /\ acking'[o] = acking[o] /\ deferred'[o] = deferred[o]
    BY <1>2 DEF RetryFails, HeadFails
  <1>3. CASE EndRetry(c) \/ DropExhausted(c) \/ ClaimIdle(c) \/ ReadNew(c) \/ RecreateGroup(c)
    BY <1>3 DEF EndRetry, DropExhausted, ClaimIdle, ReadNew, RecreateGroup, StartCycle, Goto
  <1>4. CASE Dispatch(c) \/ EndBatch(c) \/ Restart(c) \/ DispatchFails(c) \/ CycleFails(c)
    BY <1>4 DEF Dispatch, EndBatch, Restart, DispatchFails, CycleFails, StartCycle, Goto
  <1>5. CASE ConsumerDies(c)  BY <1>5 DEF ConsumerDies, Goto
  <1>6. CASE AckFails(c)  BY <1>6 DEF AckFails, HeadFails
  <1>7. CASE Acknowledge(c)
    <2>1. acking' = [acking EXCEPT ![c] = 0]
          /\ UNCHANGED <<stream, gone, receiver, sweep, locked, stage>>
      BY <1>7 DEF Acknowledge
    <2>2. CASE UNCHANGED deferred  BY <2>1, <2>2
    <2>3. CASE ~UNCHANGED deferred
      <3> DEFINE t == Tenant[stream[acking[c]]]
      <3>1. deferred' = [deferred EXCEPT ![c][t] = Tail(deferred[c][t])]
        BY <1>7, <2>3 DEF Acknowledge
      <3> QED  BY <2>1, <3>1
    <2> QED  BY <2>2, <2>3
  <1>8. CASE Defer(c)
    <2>1. PICK e \in todo[c] :
            /\ UNCHANGED <<stream, gone, receiver, sweep, locked, stage, acking>>
            /\ \/ UNCHANGED deferred
               \/ deferred' = [deferred EXCEPT ![c][Tenant[stream[e]]] =
                                 Append(deferred[c][Tenant[stream[e]]], e)]
      BY <1>8 DEF Defer
    <2> QED  BY <2>1
  <1> QED
    BY <1>1, <1>2, <1>3, <1>4, <1>5, <1>6, <1>7, <1>8 DEF ConsumerStep, ConsumerFault

(* What is left to show of a step of consumer c.                           *)
StepOf(c) ==
  /\ TablesOK' /\ RowsMove /\ RedisOK' /\ LoopsOK' /\ MemoryOK'
  /\ ConsumerInv(c)' /\ AckAfterCommit'

LEMMA ConsumerKeeps ==
  ASSUME PipelineInv, NEW c \in Consumers, ConsumerStep(c) \/ ConsumerFault(c), StepOf(c)
  PROVE  PipelineInv' /\ RowsMove
  <1> USE DEF PipelineInv, StepOf
  <1>1. /\ UNCHANGED <<stream, gone, receiver, sweep, locked>>
        /\ \A o \in Consumers \ {c} :
             stage'[o] = stage[o] /\ acking'[o] = acking[o] /\ deferred'[o] = deferred[o]
    BY ConsumerFrame
  <1>2. Grows /\ Entries' = Entries  BY <1>1, SameStream DEF TypeOK
  <1>3. TypeOK'  BY <1>1 DEF TypeOK, ProducersOK
  <1>4. RowsInv'  BY DEF RowsMove, RowMove, RowsInv
  <1>5. StreamInv'  BY <1>2, StreamKept DEF TypeOK
  <1>6. \A o \in Consumers : ConsumerInv(o)'  BY <1>1, <1>2, ConsumerKept
  <1> QED  BY <1>3, <1>4, <1>5, <1>6

LEMMA TablesStill ==
  ASSUME PipelineInv, UNCHANGED <<tables, locked, history, receiver, sweep>>
  PROVE  TablesOK' /\ RowsMove
  BY RowsStill DEF PipelineInv, TypeOK, TablesOK

LEMMA RedisStill ==
  ASSUME PipelineInv, UNCHANGED redis, RowsMove
  PROVE  Grows /\ Entries' = Entries /\ RedisOK' /\ AckAfterCommit'
  <1>1. Grows /\ Entries' = Entries  BY SameStream DEF PipelineInv, TypeOK
  <1>2. RedisOK'  BY DEF PipelineInv, TypeOK, RedisOK, Entries
  <1>3. AckAfterCommit'  BY <1>1, AckKept DEF PipelineInv
  <1> QED  BY <1>1, <1>2, <1>3

LEMMA LetsGo ==
  ASSUME TypeOK, NEW c \in Consumers, ConsumerInv(c), Grows, RowsMove,
         deferred'[c] = deferred[c], acking'[c] = 0
  PROVE  ConsumerInv(c)'
  <1>1. DeferInv(c)'
    <2>1. \A e \in Entries : stream'[e] = stream[e]  BY DEF Grows
    <2>2. \A t \in Tenants : \A i \in 1 .. Len(deferred[c][t]) : deferred[c][t][i] \in Entries
      BY DEF TypeOK, MemoryOK
    <2> QED  BY <2>1, <2>2 DEF ConsumerInv, DeferInv
  <1>2. HeadInv(c)'  BY DEF HeadInv
  <1>3. AckInv(c)'  BY DEF AckInv, Grows, TypeOK, RedisOK
  <1> QED  BY <1>1, <1>2, <1>3 DEF ConsumerInv

LEMMA Holds ==
  ASSUME TypeOK, NEW c \in Consumers, ConsumerInv(c), Grows, RowsMove,
         deferred'[c] = deferred[c], stage'[c] = stage[c], stage[c] \notin {"down", "read"},
         NEW e \in Entries, acking'[c] = e,
         stage[c] = "retry" => /\ Tenant[stream[e]] \in Tenants
                               /\ deferred[c][Tenant[stream[e]]] # <<>>,
         e > gone' => DealtWith(stream[e])'
  PROVE  ConsumerInv(c)'
  <1>0. \A f \in Entries : stream'[f] = stream[f]  BY DEF Grows
  <1>1. DeferInv(c)'
    <2>2. \A t \in Tenants : \A i \in 1 .. Len(deferred[c][t]) : deferred[c][t][i] \in Entries
      BY DEF TypeOK, MemoryOK
    <2> QED  BY <1>0, <2>2 DEF ConsumerInv, DeferInv
  <1>2. HeadInv(c)'  BY <1>0 DEF HeadInv
  <1>3. AckInv(c)'  BY <1>0 DEF AckInv, DealtWith
  <1> QED  BY <1>1, <1>2, <1>3 DEF ConsumerInv

(* Steps that touch neither a table nor Redis and let go of the entry.     *)
LEMMA LoopStep ==
  ASSUME PipelineInv, NEW c \in Consumers, LoopsOK', MemoryOK',
         UNCHANGED <<tables, redis, locked, history, receiver, sweep>>,
         deferred'[c] = deferred[c], acking'[c] = 0
  PROVE  StepOf(c)
  <1>1. TablesOK' /\ RowsMove  BY TablesStill
  <1>2. Grows /\ RedisOK' /\ AckAfterCommit'  BY <1>1, RedisStill
  <1>3. ConsumerInv(c)'  BY <1>1, <1>2, LetsGo DEF PipelineInv
  <1> QED  BY <1>1, <1>2, <1>3 DEF StepOf

LEMMA LoopSteps ==
  ASSUME PipelineInv, NEW c \in Consumers,
         \/ \E t \in Tenants : SkipTenant(c, t)
         \/ EndRetry(c) \/ EndBatch(c) \/ Restart(c) \/ DispatchFails(c) \/ CycleFails(c)
  PROVE  StepOf(c)
  <1> USE DEF PipelineInv, TypeOK
  <1>1. UNCHANGED <<tables, redis, locked, history, receiver, sweep, memory>>
    BY DEF SkipTenant, EndRetry, EndBatch, Restart, DispatchFails, CycleFails
  <1>2. MemoryOK'  BY <1>1 DEF MemoryOK, Entries
  <1>3. acking' \in [Consumers -> {0} \cup Entries'] /\ acking'[c] = 0
    <2>1. acking \in [Consumers -> {0} \cup Entries'] BY <1>1 DEF LoopsOK, Entries
    <2>2. CASE CycleFails(c)  BY <2>1, <2>2 DEF CycleFails
    <2>3. CASE Restart(c)
      BY <2>1, <2>3 DEF Restart, ConsumerInv, HeadInv
    <2>4. CASE \/ \E t \in Tenants : SkipTenant(c, t)
               \/ EndRetry(c) \/ EndBatch(c) \/ DispatchFails(c)
      BY <2>1, <2>4 DEF SkipTenant, EndRetry, EndBatch, DispatchFails, Dispatching
    <2> QED  BY <2>2, <2>3, <2>4
  <1>4. LoopsOK'
    <2>1. stage' \in [Consumers -> Stage]
      BY DEF SkipTenant, EndRetry, EndBatch, Restart, DispatchFails, CycleFails, StartCycle, Goto,
             LoopsOK, Stage
    <2>2. visit' \in [Consumers -> SUBSET Tenants]
      BY DEF SkipTenant, EndRetry, EndBatch, Restart, DispatchFails, CycleFails, StartCycle,
             LoopsOK
    <2>3. todo' \in [Consumers -> SUBSET Entries']
      <3>1. todo \in [Consumers -> SUBSET Entries']  BY <1>1 DEF LoopsOK, Entries
      <3> QED  BY <3>1 DEF SkipTenant, EndRetry, EndBatch, Restart, DispatchFails, CycleFails
    <2> QED  BY <1>3, <2>1, <2>2, <2>3 DEF LoopsOK
  <1> QED  BY <1>1, <1>2, <1>3, <1>4, LoopStep

LEMMA DiesStep ==
  ASSUME PipelineInv, NEW c \in Consumers, ConsumerDies(c)
  PROVE  StepOf(c)
  <1> USE DEF PipelineInv, TypeOK
  <1>1. UNCHANGED <<tables, redis, locked, history, receiver, sweep, visit>>
    BY DEF ConsumerDies
  <1>2. TablesOK' /\ RowsMove  BY <1>1, TablesStill
  <1>3. Grows /\ Entries' = Entries /\ RedisOK' /\ AckAfterCommit'
    BY <1>1, <1>2, RedisStill
  <1>4. LoopsOK'  BY <1>3 DEF ConsumerDies, Goto, LoopsOK, Stage
  <1>5. MemoryOK'
    <2>1. deferred' \in [Consumers -> [Tenants -> Seq(Entries)]]
      <3>1. [t \in Tenants |-> <<>>] \in [Tenants -> Seq(Entries)]  OBVIOUS
      <3> QED  BY <3>1 DEF ConsumerDies, MemoryOK
    <2>2. failures' \in [Consumers -> [Tenants -> 0 .. MaxAttempts - 1]]
      <3>1. [t \in Tenants |-> 0] \in [Tenants -> 0 .. MaxAttempts - 1]
        BY PipelineAssumption DEF PipelineAssumption
      <3> QED  BY <3>1 DEF ConsumerDies, MemoryOK
    <2>3. backoff' \in [Consumers -> [Tenants -> BOOLEAN]]
      <3>1. [t \in Tenants |-> FALSE] \in [Tenants -> BOOLEAN]  OBVIOUS
      <3> QED  BY <3>1 DEF ConsumerDies, MemoryOK
    <2> QED  BY <1>3, <2>1, <2>2, <2>3 DEF MemoryOK
  <1>6. ConsumerInv(c)'
    <2>1. acking'[c] = 0 /\ deferred'[c] = [t \in Tenants |-> <<>>]
      BY DEF ConsumerDies, LoopsOK, MemoryOK
    <2>2. DeferInv(c)'  BY <2>1 DEF DeferInv
    <2>3. HeadInv(c)' /\ AckInv(c)'
      BY <1>3, <2>1 DEF HeadInv, AckInv, RedisOK
    <2> QED  BY <2>2, <2>3 DEF ConsumerInv
  <1> QED  BY <1>2, <1>3, <1>4, <1>5, <1>6 DEF StepOf

(* Reading, claiming and creating the group again change Redis alone.      *)
LEMMA ReadSteps ==
  ASSUME PipelineInv, NEW c \in Consumers, ClaimIdle(c) \/ ReadNew(c) \/ RecreateGroup(c)
  PROVE  StepOf(c)
  <1> USE DEF PipelineInv, TypeOK
  <1>0. gone \in Nat /\ Len(stream) \in Nat /\ gone <= Len(stream) /\ MaxAttempts \in Nat \ {0}
    BY PipelineAssumption DEF RedisOK, PipelineAssumption
  <1>1. UNCHANGED <<tables, locked, history, receiver, sweep, memory, stream, gone, acking>>
    BY DEF ClaimIdle, ReadNew, RecreateGroup
  <1>2. TablesOK' /\ RowsMove  BY <1>1, TablesStill
  <1>3. Grows /\ Entries' = Entries  BY <1>1, SameStream
  <1>4. MemoryOK'  BY <1>1, <1>3 DEF MemoryOK
  <1>5. ConsumerInv(c)'
    <2>1. acking'[c] = 0
      BY <1>1 DEF ClaimIdle, ReadNew, RecreateGroup, ConsumerInv, HeadInv
    <2> QED  BY <1>1, <1>2, <1>3, <2>1, LetsGo
  <1>6. CASE ClaimIdle(c)
    <2> DEFINE claimed == Idle(c) \cap Retained
               kept == DOMAIN pel \ (Idle(c) \ claimed)
               entry(e) == IF e \in claimed THEN [tries |-> pel[e].tries + 1, idle |-> FALSE]
                           ELSE pel[e]
    <2>1. /\ Exhausted(c) = {} /\ stage' = [stage EXCEPT ![c] = "claimed"]
          /\ pel' = [e \in kept |-> entry(e)]
          /\ todo' = [todo EXCEPT ![c] = claimed] /\ UNCHANGED <<cursor, visit>>
      BY <1>6 DEF ClaimIdle, Goto
    <2>2. claimed \subseteq Entries /\ claimed \subseteq DOMAIN pel
      BY DEF Idle, RedisOK
    <2>3. ASSUME NEW e \in kept
          PROVE  entry(e) \in [tries : 1 .. MaxAttempts, idle : BOOLEAN]
      <3>1. pel[e] \in [tries : 1 .. MaxAttempts, idle : BOOLEAN]  BY DEF RedisOK
      <3>2. e \in claimed => ~(pel[e].tries >= MaxAttempts)  BY <2>1 DEF Exhausted
      <3>3. e \in claimed => pel[e].tries + 1 \in 1 .. MaxAttempts  BY <1>0, <3>1, <3>2
      <3> QED  BY <3>1, <3>3
    <2>4. /\ DOMAIN pel' = kept /\ kept \subseteq Entries
          /\ pel' \in [kept -> [tries : 1 .. MaxAttempts, idle : BOOLEAN]]
      BY <2>1, <2>3 DEF RedisOK
    <2>5. RedisOK'  BY <1>1, <1>3, <2>1, <2>4 DEF RedisOK
    <2>6. LoopsOK'  BY <1>1, <1>3, <2>1, <2>2 DEF LoopsOK, Stage
    <2>7. \A e \in Entries : e > gone /\ e \notin kept => e \notin DOMAIN pel
      BY <1>0 DEF Retained, Entries
    <2>8. AckAfterCommit'  BY <1>1, <1>2, <1>3, <2>1, <2>4, <2>7, AckKept
    <2> QED  BY <1>2, <1>4, <1>5, <2>5, <2>6, <2>8 DEF StepOf
  <1>7. CASE ReadNew(c)
    <2> DEFINE from  == IF cursor < gone THEN gone ELSE cursor
               last  == IF from + BatchSize < Len(stream) THEN from + BatchSize ELSE Len(stream)
               batch == from + 1 .. last
    <2>1. /\ pel' = [e \in DOMAIN pel \cup batch |->
                       IF e \in batch THEN [tries |-> 1, idle |-> FALSE] ELSE pel[e]]
          /\ cursor' = IF batch = {} THEN cursor ELSE last
          /\ todo' = [todo EXCEPT ![c] = batch] /\ stage' = [stage EXCEPT ![c] = "batch"]
          /\ cursor # NoGroup /\ UNCHANGED visit
      BY <1>7 DEF ReadNew, Goto
    <2>2. /\ cursor \in 0 .. Len(stream) /\ from \in 0 .. Len(stream) /\ cursor <= from
          /\ gone <= from /\ last \in from .. Len(stream)
      <3>1. cursor \in 0 .. Len(stream)
        <4>1. cursor \in {NoGroup} \cup (0 .. Len(stream))  BY DEF RedisOK
        <4> QED  BY <2>1, <4>1
      <3>2. from \in 0 .. Len(stream) /\ cursor <= from /\ gone <= from  BY <1>0, <3>1
      <3>3. BatchSize \in Nat \ {0}  BY PipelineAssumption DEF PipelineAssumption
      <3>4. last \in from .. Len(stream)
        <4> HIDE DEF from
        <4> QED  BY <1>0, <3>2, <3>3
      <3> QED  BY <3>1, <3>2, <3>4
    <2>3. batch \subseteq Entries  BY <1>0, <2>2 DEF Entries
    <2>4. /\ DOMAIN pel' = DOMAIN pel \cup batch
          /\ pel' \in [DOMAIN pel' -> [tries : 1 .. MaxAttempts, idle : BOOLEAN]]
      <3>1. [tries |-> 1, idle |-> FALSE] \in [tries : 1 .. MaxAttempts, idle : BOOLEAN]
        BY <1>0
      <3> HIDE DEF batch
      <3> QED  BY <2>1, <3>1 DEF RedisOK
    <2>5. cursor' \in 0 .. Len(stream')  BY <1>0, <1>1, <2>1, <2>2
    <2>6. RedisOK'
      <3> HIDE DEF batch
      <3> QED  BY <1>1, <1>3, <2>3, <2>4, <2>5 DEF RedisOK
    <2>7. LoopsOK'
      <3> HIDE DEF batch
      <3> QED  BY <1>1, <1>3, <2>1, <2>3 DEF LoopsOK, Stage
    <2>8. \A e \in Entries : e > gone /\ e <= cursor' /\ e \notin batch => e <= cursor
      <3> SUFFICES ASSUME NEW e \in Entries, e > gone, e <= cursor', e \notin batch, ~(e <= cursor)
                   PROVE  FALSE
        OBVIOUS
      <3>1. e \in Nat /\ e > from  BY <1>0, <2>2 DEF Entries
      <3>2. ~(e <= last)  BY <2>2, <3>1
      <3>3. cursor' = cursor  BY <2>1, <3>1, <3>2
      <3> QED  BY <3>3
    <2>9. AckAfterCommit'  
      <3> HIDE DEF batch
      <3> QED  BY <1>1, <1>2, <1>3, <2>4, <2>8, AckKept
    <2> QED  BY <1>2, <1>4, <1>5, <2>6, <2>7, <2>9 DEF StepOf
  <1>8. CASE RecreateGroup(c)
    <2>1. /\ cursor' = gone /\ UNCHANGED <<pel, todo>> /\ stage' = [stage EXCEPT ![c] = "retry"]
          /\ visit' = [visit EXCEPT ![c] = Tenants]
      BY <1>8 DEF RecreateGroup, StartCycle, Goto
    <2>2. RedisOK'  BY <1>0, <1>1, <1>3, <2>1 DEF RedisOK
    <2>3. LoopsOK'  BY <1>1, <1>3, <2>1 DEF LoopsOK, Stage
    <2>4. AckAfterCommit'
      <3>1. \A e \in Entries' : ~(e > gone' /\ e <= cursor')  BY <1>0, <1>1, <2>1 DEF Entries
      <3> QED  BY <1>2, <1>3, <3>1, AckKept
    <2> QED  BY <1>2, <1>4, <1>5, <2>2, <2>3, <2>4 DEF StepOf
  <1> QED  BY <1>6, <1>7, <1>8

(* What a consumer has in hand.                                            *)
LEMMA InHand ==
  ASSUME PipelineInv, NEW c \in Consumers
  PROVE  /\ \A e \in Entries : stream[e] \in Deliveries /\ receiver[stream[e]] # "idle"
         /\ todo[c] \subseteq Entries
         /\ \A t \in Tenants : deferred[c][t] # <<>> =>
              /\ Head(deferred[c][t]) \in Entries
              /\ Tenant[stream[Head(deferred[c][t])]] = t
  <1> USE DEF PipelineInv, TypeOK
  <1>1. \A e \in Entries : stream[e] \in Deliveries /\ receiver[stream[e]] # "idle"
    BY DEF StreamInv, RedisOK, Entries
  <1>2. todo[c] \subseteq Entries  BY DEF LoopsOK
  <1>3. ASSUME NEW t \in Tenants, deferred[c][t] # <<>>
        PROVE  Head(deferred[c][t]) \in Entries /\ Tenant[stream[Head(deferred[c][t])]] = t
    <2>1. deferred[c][t] \in Seq(Entries)  BY DEF MemoryOK
    <2>2. /\ 1 \in 1 .. Len(deferred[c][t]) /\ Head(deferred[c][t]) = deferred[c][t][1]
          /\ deferred[c][t][1] \in Entries
      BY <1>3, <2>1
    <2> QED  BY <2>2 DEF ConsumerInv, DeferInv
  <1> QED  BY <1>1, <1>2, <1>3

(* Steps that decide the fate of the entry they will acknowledge.          *)
LEMMA HoldStep ==
  ASSUME PipelineInv, NEW c \in Consumers, NEW e \in Entries, TablesOK', RowsMove,
         UNCHANGED <<redis, stage, visit, deferred, failures, backoff>>,
         todo' \in [Consumers -> SUBSET Entries], acking' = [acking EXCEPT ![c] = e],
         stage[c] \notin {"down", "read"},
         stage[c] = "retry" => /\ Tenant[stream[e]] \in Tenants
                               /\ deferred[c][Tenant[stream[e]]] # <<>>,
         e > gone => DealtWith(stream[e])'
  PROVE  StepOf(c)
  <1> USE DEF PipelineInv, TypeOK
  <1>1. Grows /\ Entries' = Entries /\ RedisOK' /\ AckAfterCommit'  BY RedisStill
  <1>2. LoopsOK' /\ acking'[c] = e  BY <1>1 DEF LoopsOK
  <1>3. MemoryOK'  BY <1>1 DEF MemoryOK
  <1>4. ConsumerInv(c)'  BY <1>1, <1>2, Holds
  <1> QED  BY <1>1, <1>2, <1>3, <1>4 DEF StepOf

LEMMA RetryHeadStep ==
  ASSUME PipelineInv, NEW c \in Consumers, NEW t \in Tenants, RetryHead(c, t)
  PROVE  StepOf(c)
  <1>1. PICK e \in Entries : /\ e = Head(deferred[c][t])
                            /\ stream[e] \in Deliveries /\ Tenant[stream[e]] = t
                            /\ receiver[stream[e]] # "idle"
    BY InHand DEF RetryHead
  <1>2. /\ Process(c, stream[e]) /\ acking' = [acking EXCEPT ![c] = e]
        /\ stage[c] = "retry" /\ deferred[c][t] # <<>>
        /\ UNCHANGED <<locked, redis, receiver, sweep, stage, todo, visit, memory>>
    BY <1>1 DEF RetryHead
  <1>3. TablesOK' /\ RowsMove /\ DealtWith(stream[e])'
    <2>1. PICK d \in Deliveries : d = stream[e] /\ Process(c, d) /\ receiver[d] # "idle"
      BY <1>1, <1>2
    <2>2. d = stream'[e]  BY <1>2, <2>1
    <2>3. TablesOK' /\ RowsMove /\ DealtWith(d)'
      BY <1>2, <2>1, ProcessMoves DEF PipelineInv
    <2> QED  BY <2>2, <2>3 DEF DealtWith
  <1>4. todo' \in [Consumers -> SUBSET Entries]  BY <1>2 DEF PipelineInv, TypeOK, LoopsOK
  <1> QED  BY <1>1, <1>2, <1>3, <1>4, HoldStep

LEMMA DispatchStep ==
  ASSUME PipelineInv, NEW c \in Consumers, Dispatch(c)
  PROVE  StepOf(c)
  <1>1. PICK e \in todo[c] :
          /\ Dispatching(c, e) /\ Process(c, stream[e])
          /\ acking' = [acking EXCEPT ![c] = e]
          /\ todo' = [todo EXCEPT ![c] = todo[c] \ {e}]
          /\ UNCHANGED <<locked, redis, receiver, sweep, stage, visit, memory>>
    BY DEF Dispatch
  <1>2. e \in Entries /\ stream[e] \in Deliveries /\ receiver[stream[e]] # "idle"
    BY InHand
  <1>3. TablesOK' /\ RowsMove /\ DealtWith(stream[e])'
    <2>1. PICK d \in Deliveries : d = stream[e] /\ Process(c, d) /\ receiver[d] # "idle"
      BY <1>1, <1>2
    <2>2. d = stream'[e]  BY <1>1, <2>1
    <2>3. TablesOK' /\ RowsMove /\ DealtWith(d)'
      BY <1>1, <2>1, ProcessMoves DEF PipelineInv
    <2> QED  BY <2>2, <2>3 DEF DealtWith
  <1>4. todo' \in [Consumers -> SUBSET Entries]  BY <1>1 DEF PipelineInv, TypeOK, LoopsOK
  <1>5. stage[c] \notin {"down", "read", "retry"}  BY <1>1 DEF Dispatching
  <1> QED  BY <1>1, <1>2, <1>3, <1>4, <1>5, HoldStep

LEMMA DropExhaustedStep ==
  ASSUME PipelineInv, NEW c \in Consumers, DropExhausted(c)
  PROVE  StepOf(c)
  <1>1. PICK e \in First(Exhausted(c)) :
          /\ IF e \in Retained THEN Drop(stream[e]) ELSE UNCHANGED <<rows, dropped>>
          /\ acking' = [acking EXCEPT ![c] = e]
    BY DEF DropExhausted
  <1>2. /\ stage[c] = "sweep"
        /\ UNCHANGED <<stored, dailyCount, member, access, locked, redis, receiver, sweep, stage,
                       todo, visit, memory, applied>>
    BY DEF DropExhausted
  <1>3. e \in Entries
    BY DEF First, Exhausted, Idle, PipelineInv, TypeOK, RedisOK
  <1>4. stream[e] \in Deliveries /\ receiver[stream[e]] # "idle"  BY <1>3, InHand
  <1>5. TablesOK' /\ RowsMove /\ (e > gone => DealtWith(stream[e])')
    <2>1. CASE e \in Retained
      <3>1. PICK d \in Deliveries : d = stream[e] /\ Drop(d) /\ receiver[d] # "idle"
        BY <1>1, <1>4, <2>1
      <3>2. d = stream'[e]  BY <1>2, <3>1
      <3>3. TablesOK' /\ RowsMove /\ DealtWith(d)'
        BY <1>2, <3>1, DropMoves DEF PipelineInv
      <3> QED  BY <3>2, <3>3 DEF DealtWith
    <2>2. CASE e \notin Retained
      <3>1. ~(e > gone)
        BY <1>3, <2>2 DEF Retained, Entries, PipelineInv, TypeOK, RedisOK
      <3> QED  BY <1>1, <1>2, <2>2, <3>1, TablesStill
    <2> QED  BY <2>1, <2>2
  <1>6. todo' \in [Consumers -> SUBSET Entries]  BY <1>2 DEF PipelineInv, TypeOK, LoopsOK
  <1> QED  BY <1>1, <1>2, <1>3, <1>5, <1>6, HoldStep

(* A failed head, by an error or by an acknowledgment that fails.          *)
LEMMA HeadFailsStep ==
  ASSUME PipelineInv, NEW c \in Consumers, NEW t \in Tenants, HeadFails(c, t),
         stage[c] = "retry", deferred[c][t] # <<>>,
         UNCHANGED <<stored, dailyCount, member, access, locked, redis, receiver, sweep, stage, todo,
                     deferred, applied>>
  PROVE  StepOf(c)
  <1>1. CASE failures[c][t] + 1 < MaxAttempts
    <2>1. /\ failures' = [failures EXCEPT ![c][t] = failures[c][t] + 1]
          /\ backoff' = [backoff EXCEPT ![c][t] = TRUE]
          /\ visit' = [visit EXCEPT ![c] = visit[c] \ {t}]
          /\ acking' = [acking EXCEPT ![c] = 0] /\ UNCHANGED <<rows, dropped>>
      BY <1>1 DEF HeadFails
    <2>2. Entries' = Entries  BY DEF Entries
    <2>3. failures' \in [Consumers -> [Tenants -> 0 .. MaxAttempts - 1]]
      <3>1. failures \in [Consumers -> [Tenants -> 0 .. MaxAttempts - 1]] /\ MaxAttempts \in Nat
        BY PipelineAssumption DEF PipelineInv, TypeOK, MemoryOK, PipelineAssumption
      <3>2. failures[c][t] + 1 \in 0 .. MaxAttempts - 1  BY <1>1, <3>1
      <3> QED  BY <2>1, <3>1, <3>2, PutOK
    <2>4. backoff' \in [Consumers -> [Tenants -> BOOLEAN]]
      <3>1. backoff \in [Consumers -> [Tenants -> BOOLEAN]]
        BY DEF PipelineInv, TypeOK, MemoryOK
      <3> QED  BY <2>1, <3>1, PutOK
    <2>5. MemoryOK'  BY <2>2, <2>3, <2>4 DEF PipelineInv, TypeOK, MemoryOK
    <2>6. LoopsOK' /\ acking'[c] = 0
      BY <2>1, <2>2 DEF PipelineInv, TypeOK, LoopsOK
    <2> QED  BY <2>1, <2>5, <2>6, LoopStep
  <1>2. CASE ~(failures[c][t] + 1 < MaxAttempts)
    <2>2. PICK e \in Entries : /\ e = Head(deferred[c][t])
                              /\ stream[e] \in Deliveries /\ Tenant[stream[e]] = t
                              /\ receiver[stream[e]] # "idle"
      BY InHand
    <2>1. /\ Drop(stream[e]) /\ acking' = [acking EXCEPT ![c] = e]
          /\ UNCHANGED <<failures, backoff, visit>>
      BY <1>2, <2>2 DEF HeadFails
    <2>3. TablesOK' /\ RowsMove /\ DealtWith(stream[e])'
      <3>1. PICK d \in Deliveries : d = stream[e] /\ Drop(d) /\ receiver[d] # "idle"
        BY <2>1, <2>2
      <3>2. d = stream'[e]  BY <3>1
      <3>3. TablesOK' /\ RowsMove /\ DealtWith(d)'  BY <3>1, DropMoves DEF PipelineInv
      <3> QED  BY <3>2, <3>3 DEF DealtWith
    <2>4. todo' \in [Consumers -> SUBSET Entries]  BY DEF PipelineInv, TypeOK, LoopsOK
    <2> QED  BY <2>1, <2>2, <2>3, <2>4, HoldStep
  <1> QED  BY <1>1, <1>2

LEMMA FailSteps ==
  ASSUME PipelineInv, NEW c \in Consumers, AckFails(c) \/ \E t \in Tenants : RetryFails(c, t)
  PROVE  StepOf(c)
  <1>1. ASSUME NEW t \in Tenants, RetryFails(c, t) PROVE StepOf(c)
    BY <1>1, HeadFailsStep DEF RetryFails
  <1>2. CASE AckFails(c) /\ stage[c] = "retry"
    <2> DEFINE t == Tenant[stream[acking[c]]]
    <2>1. t \in Tenants /\ deferred[c][t] # <<>>
      BY <1>2 DEF AckFails, PipelineInv, ConsumerInv, HeadInv
    <2>2. HeadFails(c, t)  BY <1>2 DEF AckFails
    <2>3. UNCHANGED <<stored, dailyCount, member, access, locked, redis, receiver, sweep, stage,
                      todo, deferred, applied>>
      BY <1>2 DEF AckFails
    <2> HIDE DEF t
    <2> QED  BY <1>2, <2>1, <2>2, <2>3, HeadFailsStep
  <1>3. CASE AckFails(c) /\ stage[c] # "retry"
    <2>1. /\ acking' = [acking EXCEPT ![c] = 0]
          /\ UNCHANGED <<tables, redis, locked, history, receiver, sweep, stage, todo, visit, memory>>
      BY <1>3 DEF AckFails
    <2>2. MemoryOK' /\ LoopsOK' /\ acking'[c] = 0
      BY <2>1 DEF PipelineInv, TypeOK, MemoryOK, LoopsOK, Entries
    <2> QED  BY <2>1, <2>2, LoopStep
  <1> QED  BY <1>1, <1>2, <1>3

LEMMA DeferStep ==
  ASSUME PipelineInv, NEW c \in Consumers, Defer(c)
  PROVE  StepOf(c)
  <1> USE DEF PipelineInv, TypeOK
  <1>1. PICK e \in todo[c] :
          /\ Dispatching(c, e) /\ (Queued(c, stream[e]) \/ LockBusy(c, stream[e]))
          /\ \/ UNCHANGED deferred
             \/ deferred' = [deferred EXCEPT ![c][Tenant[stream[e]]] =
                               Append(deferred[c][Tenant[stream[e]]], e)]
          /\ todo' = [todo EXCEPT ![c] = todo[c] \ {e}]
    BY DEF Defer
  <1>2. UNCHANGED <<tables, locked, redis, receiver, sweep, stage, acking, visit, failures, backoff,
                    history>>
    BY DEF Defer
  <1> DEFINE t == Tenant[stream[e]]
  <1>3. e \in Entries /\ stream[e] \in Deliveries  BY InHand
  <1>4. t \in Tenants
    BY <1>1, <1>3, PipelineAssumption DEF Queued, LockBusy, Normalizable, PipelineAssumption
  <1>5. TablesOK' /\ RowsMove  BY <1>2, TablesStill
  <1>6. Grows /\ Entries' = Entries /\ RedisOK' /\ AckAfterCommit'  BY <1>2, <1>5, RedisStill
  <1>7. LoopsOK'  BY <1>1, <1>2, <1>6 DEF LoopsOK
  <1>8. acking'[c] = 0  BY <1>1, <1>2 DEF Dispatching
  <1>9. CASE UNCHANGED deferred
    <2>1. MemoryOK'  BY <1>2, <1>6, <1>9 DEF MemoryOK
    <2> QED  BY <1>2, <1>7, <1>8, <1>9, <2>1, LoopStep
  <1>10. CASE deferred' = [deferred EXCEPT ![c][t] = Append(deferred[c][t], e)]
    <2> DEFINE q == Append(deferred[c][t], e)
    <2>1. deferred \in [Consumers -> [Tenants -> Seq(Entries)]] /\ deferred[c][t] \in Seq(Entries)
      BY <1>4 DEF MemoryOK
    <2>2. /\ q \in Seq(Entries) /\ Len(q) = Len(deferred[c][t]) + 1 /\ q[Len(q)] = e
          /\ \A i \in 1 .. Len(deferred[c][t]) : q[i] = deferred[c][t][i]
      BY <1>3, <2>1
    <2>3. deferred' = [deferred EXCEPT ![c][t] = q]  BY <1>10
    <2> HIDE DEF q, t
    <2>4. /\ deferred' \in [Consumers -> [Tenants -> Seq(Entries)]]
          /\ \A x \in Tenants : deferred'[c][x] = IF x = t THEN q ELSE deferred[c][x]
      BY <2>1, <2>2, <2>3, PutOK
    <2>5. MemoryOK'  BY <1>2, <1>6, <2>4 DEF MemoryOK
    <2>6. DeferInv(c)'
      <3> SUFFICES ASSUME NEW x \in Tenants, NEW i \in 1 .. Len(deferred'[c][x])
                   PROVE  Tenant[stream[deferred'[c][x][i]]] = x
        BY <1>2 DEF DeferInv
      <3>1. CASE x = t /\ i = Len(q)  BY <2>2, <2>4, <3>1 DEF t
      <3>2. CASE x = t /\ i # Len(q)
        <4>1. i \in 1 .. Len(deferred[c][t])  BY <2>1, <2>2, <2>4, <3>2
        <4>2. Tenant[stream[deferred[c][t][i]]] = t
          BY <1>4, <4>1 DEF ConsumerInv, DeferInv, t
        <4>3. deferred'[c][x][i] = deferred[c][t][i]  BY <2>2, <2>4, <3>2, <4>1
        <4> QED  BY <3>2, <4>2, <4>3
      <3>3. CASE x # t  BY <2>4, <3>3 DEF ConsumerInv, DeferInv
      <3> QED  BY <3>1, <3>2, <3>3
    <2>7. HeadInv(c)' /\ AckInv(c)'
      BY <1>6, <1>8 DEF HeadInv, AckInv, RedisOK
    <2> QED  BY <1>5, <1>6, <1>7, <2>5, <2>6, <2>7 DEF StepOf, ConsumerInv
  <1> QED  BY <1>1, <1>9, <1>10

LEMMA AcknowledgeStep ==
  ASSUME PipelineInv, NEW c \in Consumers, Acknowledge(c)
  PROVE  StepOf(c)
  <1> USE DEF PipelineInv, TypeOK
  <1>1. /\ acking[c] # 0 /\ acking' = [acking EXCEPT ![c] = 0]
        /\ pel' = Restrict(pel, DOMAIN pel \ {acking[c]})
        /\ UNCHANGED <<tables, locked, stream, gone, cursor, receiver, sweep, stage, todo, visit,
                       history>>
    BY DEF Acknowledge
  <1>2. TablesOK' /\ RowsMove  BY <1>1, TablesStill
  <1>3. Grows /\ Entries' = Entries  BY <1>1, SameStream
  <1>4. /\ DOMAIN pel' = DOMAIN pel \ {acking[c]}
        /\ \A e \in DOMAIN pel' : pel'[e] = pel[e]
        /\ pel' = [e \in DOMAIN pel' |-> pel'[e]]
    BY <1>1 DEF Restrict
  <1>5. RedisOK'  BY <1>1, <1>3, <1>4 DEF RedisOK
  <1>6. LoopsOK' /\ acking'[c] = 0  BY <1>1, <1>3 DEF LoopsOK
  <1>7. AckAfterCommit'
    <2>1. acking[c] \in Entries  BY <1>1 DEF LoopsOK
    <2>2. acking[c] > gone => DealtWith(stream[acking[c]])  BY DEF ConsumerInv, AckInv
    <2> QED  BY <1>1, <1>2, <1>3, <1>4, <2>1, <2>2, AckKept
  <1>8. CASE stage[c] # "retry"
    <2>1. UNCHANGED memory  BY <1>8 DEF Acknowledge
    <2>2. MemoryOK'  BY <1>3, <2>1 DEF MemoryOK
    <2>3. ConsumerInv(c)'  BY <1>2, <1>3, <1>6, <2>1, LetsGo
    <2> QED  BY <1>2, <1>5, <1>6, <1>7, <2>2, <2>3 DEF StepOf
  <1>9. CASE stage[c] = "retry"
    <2> DEFINE t == Tenant[stream[acking[c]]]
               q == Tail(deferred[c][t])
    <2>1. t \in Tenants /\ deferred[c][t] # <<>>
      BY <1>1, <1>9 DEF ConsumerInv, HeadInv
    <2>2. /\ deferred' = [deferred EXCEPT ![c][t] = q]
          /\ failures' = [failures EXCEPT ![c][t] = 0]
          /\ backoff' = [backoff EXCEPT ![c][t] = FALSE]
      BY <1>9 DEF Acknowledge
    <2>3. /\ deferred \in [Consumers -> [Tenants -> Seq(Entries)]]
          /\ failures \in [Consumers -> [Tenants -> 0 .. MaxAttempts - 1]]
          /\ backoff \in [Consumers -> [Tenants -> BOOLEAN]]
          /\ deferred[c][t] \in Seq(Entries) /\ 0 \in 0 .. MaxAttempts - 1
      BY <2>1, PipelineAssumption DEF MemoryOK, PipelineAssumption
    <2>4. /\ q \in Seq(Entries) /\ Len(q) = Len(deferred[c][t]) - 1
          /\ \A i \in 1 .. Len(q) : i + 1 \in 1 .. Len(deferred[c][t]) /\ q[i] = deferred[c][t][i + 1]
      BY <2>1, <2>3
    <2> HIDE DEF q, t
    <2>5. /\ deferred' \in [Consumers -> [Tenants -> Seq(Entries)]]
          /\ \A x \in Tenants : deferred'[c][x] = IF x = t THEN q ELSE deferred[c][x]
      <3>1. deferred' = [deferred EXCEPT ![c][t] = q] /\ q \in Seq(Entries)  BY <2>2, <2>4
      <3>2. deferred \in [Consumers -> [Tenants -> Seq(Entries)]]  BY <2>3
      <3> QED  BY <3>1, <3>2
    <2>6. failures' \in [Consumers -> [Tenants -> 0 .. MaxAttempts - 1]]
      BY <2>2, <2>3, PutOK
    <2>7. backoff' \in [Consumers -> [Tenants -> BOOLEAN]]
      BY <2>2, <2>3, PutOK
    <2>8. MemoryOK'  BY <1>3, <2>5, <2>6, <2>7 DEF MemoryOK
    <2>9. DeferInv(c)'
      <3> SUFFICES ASSUME NEW x \in Tenants, NEW i \in 1 .. Len(deferred'[c][x])
                   PROVE  Tenant[stream[deferred'[c][x][i]]] = x
        BY <1>1 DEF DeferInv
      <3>1. CASE x = t
        <4>1. \A j \in 1 .. Len(deferred[c][t]) : Tenant[stream[deferred[c][t][j]]] = t
          BY <2>1 DEF ConsumerInv, DeferInv
        <4> QED  BY <2>1, <2>4, <2>5, <3>1, <4>1
      <3>2. CASE x # t  BY <2>5, <3>2 DEF ConsumerInv, DeferInv
      <3> QED  BY <3>1, <3>2
    <2>10. HeadInv(c)' /\ AckInv(c)'
      BY <1>5, <1>6 DEF HeadInv, AckInv, RedisOK
    <2> QED  BY <1>2, <1>5, <1>6, <1>7, <2>8, <2>9, <2>10 DEF StepOf, ConsumerInv
  <1> QED  BY <1>8, <1>9

LEMMA ConsumerStepKeeps ==
  ASSUME PipelineInv, NEW c \in Consumers, ConsumerStep(c) \/ ConsumerFault(c)
  PROVE  PipelineInv' /\ RowsMove
  <1>1. CASE \/ \E t \in Tenants : SkipTenant(c, t)
             \/ EndRetry(c) \/ EndBatch(c) \/ Restart(c) \/ DispatchFails(c) \/ CycleFails(c)
    BY <1>1, LoopSteps, ConsumerKeeps
  <1>2. CASE ClaimIdle(c) \/ ReadNew(c) \/ RecreateGroup(c)
    BY <1>2, ReadSteps, ConsumerKeeps
  <1>3. CASE \E t \in Tenants : RetryHead(c, t)  BY <1>3, RetryHeadStep, ConsumerKeeps
  <1>4. CASE AckFails(c) \/ \E t \in Tenants : RetryFails(c, t)
    BY <1>4, FailSteps, ConsumerKeeps
  <1>5. CASE Dispatch(c)  BY <1>5, DispatchStep, ConsumerKeeps
  <1>6. CASE DropExhausted(c)  BY <1>6, DropExhaustedStep, ConsumerKeeps
  <1>7. CASE Defer(c)  BY <1>7, DeferStep, ConsumerKeeps
  <1>8. CASE Acknowledge(c)  BY <1>8, AcknowledgeStep, ConsumerKeeps
  <1>9. CASE ConsumerDies(c)  BY <1>9, DiesStep, ConsumerKeeps
  <1> QED
    BY <1>1, <1>2, <1>3, <1>4, <1>5, <1>6, <1>7, <1>8, <1>9 DEF ConsumerStep, ConsumerFault

LEMMA InitPipeline ==
  ASSUME Init
  PROVE  PipelineInv
  <1>0. /\ MaxAttempts \in Nat \ {0} /\ MaxAge \in Fresh .. Expired
    BY PipelineAssumption DEF PipelineAssumption
  <1>1. TablesOK
    <2>1. [status |-> "absent", age |-> Fresh] \in [status : Status, age : Fresh .. MaxAge]
      BY <1>0 DEF Status, Fresh, Expired
    <2> QED  BY <2>1 DEF Init, TablesOK
  <1>2. RedisOK  BY DEF Init, RedisOK, Entries
  <1>3. ProducersOK  BY DEF Init, ProducersOK, NoSweep
  <1>4. LoopsOK  BY DEF Init, LoopsOK, Stage
  <1>5. MemoryOK  BY <1>0 DEF Init, MemoryOK
  <1>6. RowsInv
    <2>1. \A d \in Deliveries : rows[d].status = "absent" /\ rows[d].age = Fresh /\ receiver[d] = "idle"
      BY DEF Init
    <2>2. sweep.doomed = {} /\ sweep.todo = {} /\ sweep.added = {}  BY DEF Init, NoSweep
    <2> QED  BY <2>1, <2>2 DEF RowsInv, RowInv
  <1>7. StreamInv /\ AckAfterCommit
    <2>1. Len(stream) = 0 /\ gone = 0  BY DEF Init
    <2> QED  BY <2>1 DEF StreamInv, AckAfterCommit, Entries, Retained
  <1>8. ASSUME NEW c \in Consumers PROVE ConsumerInv(c)
    BY DEF Init, ConsumerInv, DeferInv, HeadInv, AckInv
  <1> QED  BY <1>1, <1>2, <1>3, <1>4, <1>5, <1>6, <1>7, <1>8 DEF PipelineInv, TypeOK

LEMMA NextKeeps ==
  ASSUME PipelineInv, [Next]_vars
  PROVE  PipelineInv' /\ RowsMove
  <1>1. CASE \E d \in Deliveries : ReceiverStep(d) \/ EnqueueRaises(d) \/ ReceiverDies(d)
    BY <1>1, ReceiverStepKeeps DEF ReceiverStep
  <1>2. CASE SweepStep \/ SweepDies  BY <1>2, SweepStepKeeps
  <1>3. CASE \/ PurgeDeliveries \/ RedisLosesData \/ \E d \in Deliveries : RowAges(d)
             \/ \E e \in DOMAIN pel : EntryIdles(e)
             \/ \E c \in Consumers, t \in Tenants : BackoffEnds(c, t)
             \/ \E t \in Tenants : ReconcileLocks(t) \/ ReconcileUnlocks(t)
    BY <1>3, WorldKeeps
  <1>4. CASE \E c \in Consumers : ConsumerStep(c) \/ ConsumerFault(c)
    BY <1>4, ConsumerStepKeeps
  <1>5. CASE UNCHANGED vars
    <2>1. UNCHANGED <<tables, locked, redis, receiver, sweep, loop, memory, history>>
      BY <1>5 DEF vars
    <2>2. TablesOK' /\ RowsMove  BY <2>1, TablesStill
    <2>3. Grows /\ Entries' = Entries /\ RedisOK'  BY <2>1, <2>2, RedisStill
    <2>4. ProducersOK' /\ MemoryOK'
      BY <2>1, <2>3 DEF PipelineInv, TypeOK, ProducersOK, MemoryOK
    <2> QED  BY <2>1, <2>2, <2>3, <2>4, QuietStep
  <1> QED  BY <1>1, <1>2, <1>3, <1>4, <1>5 DEF Next

(* All of it holds in every state; the theorems below are parts of it.     *)
THEOREM Invariance == Spec => []PipelineInv
  BY InitPipeline, NextKeeps, PTL DEF Spec

(* Every variable holds values of its type, whatever fails.                *)
THEOREM TypeCorrect == Spec => []TypeOK
  <1>1. PipelineInv => TypeOK  BY DEF PipelineInv
  <1> QED  BY <1>1, Invariance, PTL

(* No entry is acknowledged before its delivery is dealt with: the code    *)
(* commits the row's outcome first, in Process, in Drop, at every retry.   *)
THEOREM NothingAckedUnsettled == Spec => []AckAfterCommit
  <1>1. PipelineInv => AckAfterCommit  BY DEF PipelineInv
  <1> QED  BY <1>1, Invariance, PTL

(* Neither the requeue sweep nor a consumer reopens a settled row: only a  *)
(* receiver whose XADD raised may, with its late "queue_failed".           *)
THEOREM NothingReopens == Spec => SettledStaysSettled
  <1>1. PipelineInv /\ [Next]_vars => [StaysSettled]_vars
    BY NextKeeps DEF RowsMove, RowMove, StaysSettled
  <1> QED  BY <1>1, Invariance, PTL DEF Spec, SettledStaysSettled

-----------------------------------------------------------------------------
(* What the deliveries leave behind.                                       *)

Data == <<stored, dailyCount, member, access, applied>>

(* Data is written in one way only: by Write, of a normalized delivery.    *)
LEMMA DataSteps ==
  ASSUME PipelineInv, [Next]_vars
  PROVE  UNCHANGED Data \/ \E d \in Deliveries : Write(d) /\ Normalizable(d)
  <1>1. CASE \/ \E d \in Deliveries : ReceiverStep(d) \/ EnqueueRaises(d) \/ ReceiverDies(d)
             \/ SweepStep \/ SweepDies
    BY <1>1
    DEF ReceiverStep, Receive, Enqueue, EnqueueRaises, MarkQueueFailed, ReceiverDies,
        SweepStep, SweepSelect, SweepAdd, SweepCommit, SweepDies, Data
  <1>2. CASE \/ PurgeDeliveries \/ RedisLosesData \/ \E d \in Deliveries : RowAges(d)
             \/ \E e \in DOMAIN pel : EntryIdles(e)
             \/ \E c \in Consumers, t \in Tenants : BackoffEnds(c, t)
             \/ \E t \in Tenants : ReconcileLocks(t) \/ ReconcileUnlocks(t)
    BY <1>2
    DEF PurgeDeliveries, RedisLosesData, RowAges, EntryIdles, BackoffEnds, ReconcileLocks,
        ReconcileUnlocks, Data
  <1>3. ASSUME NEW c, NEW d \in Deliveries, Process(c, d)
        PROVE  UNCHANGED Data \/ \E x \in Deliveries : Write(x) /\ Normalizable(x)
    <2>1. CASE ~Present(d) \/ ~Normalizable(d) \/ Kind[d] = "malformed"
      BY <1>3, <2>1 DEF Process, Data
    <2>2. CASE Present(d) /\ Normalizable(d) /\ Kind[d] # "malformed"
      BY <1>3, <2>2 DEF Process
    <2> QED  BY <2>1, <2>2
  <1>4. ASSUME NEW c \in Consumers, ConsumerStep(c) \/ ConsumerFault(c)
        PROVE  UNCHANGED Data \/ \E d \in Deliveries : Write(d) /\ Normalizable(d)
    <2>1. CASE \E t \in Tenants : RetryHead(c, t)
      <3>1. PICK t \in Tenants : RetryHead(c, t)  BY <2>1
      <3>2. PICK d \in Deliveries : Process(c, d)  BY <3>1, InHand DEF RetryHead
      <3> QED  BY <1>3, <3>2
    <2>2. CASE Dispatch(c)
      <3>1. PICK d \in Deliveries : Process(c, d)  BY <2>2, InHand DEF Dispatch
      <3> QED  BY <1>3, <3>1
    <2>3. CASE \/ \E t \in Tenants : SkipTenant(c, t) \/ RetryFails(c, t)
               \/ EndRetry(c) \/ DropExhausted(c) \/ ClaimIdle(c) \/ ReadNew(c)
               \/ RecreateGroup(c) \/ Defer(c) \/ Acknowledge(c) \/ EndBatch(c) \/ Restart(c)
               \/ DispatchFails(c) \/ AckFails(c) \/ CycleFails(c) \/ ConsumerDies(c)
      BY <2>3
      DEF SkipTenant, RetryFails, EndRetry, DropExhausted, ClaimIdle, ReadNew, RecreateGroup,
          Defer, Acknowledge, EndBatch, Restart, DispatchFails, AckFails, CycleFails,
          ConsumerDies, Data
    <2> QED  BY <1>4, <2>1, <2>2, <2>3 DEF ConsumerStep, ConsumerFault
  <1>5. CASE UNCHANGED vars  BY <1>5 DEF vars, Data
  <1> QED  BY <1>1, <1>2, <1>4, <1>5 DEF Next

CountInv == IsFiniteSet(stored) /\ CountMatchesEvents

LEMMA CountKept ==
  ASSUME CountInv, UNCHANGED Data \/ \E d \in Deliveries : Write(d)
  PROVE  CountInv'
  <1>1. CASE UNCHANGED <<stored, dailyCount>>
    BY <1>1 DEF CountInv, CountMatchesEvents
  <1>2. CASE \E d \in Deliveries : InsertEvent(d)
    <2>1. PICK d \in Deliveries : InsertEvent(d)  BY <1>2
    <2>2. /\ stored' = stored \cup {Guid[d]}
          /\ dailyCount' = IF Guid[d] \in stored THEN dailyCount ELSE dailyCount + 1
      BY <2>1 DEF InsertEvent
    <2>3. /\ IsFiniteSet(stored \cup {Guid[d]})
          /\ Guid[d] \in stored => stored \cup {Guid[d]} = stored
          /\ Guid[d] \notin stored => Cardinality(stored \cup {Guid[d]}) = Cardinality(stored) + 1
      BY FS_AddElement DEF CountInv
    <2> QED  BY <2>2, <2>3 DEF CountInv, CountMatchesEvents
  <1> QED  BY <1>1, <1>2 DEF Write, UpsertMember, RemoveMember, Data

(* Events are counted once: the daily counts add up to the stored events,  *)
(* however often GitHub, the sweep or a claim repeats a delivery.          *)
THEOREM EventsCountedOnce == Spec => []CountMatchesEvents
  <1>1. Init => CountInv
    BY FS_EmptySet DEF Init, CountInv, CountMatchesEvents
  <1>2. PipelineInv /\ CountInv /\ [Next]_vars => CountInv'
    BY DataSteps, CountKept
  <1>3. CountInv => CountMatchesEvents  BY DEF CountInv
  <1> QED  BY <1>1, <1>2, <1>3, Invariance, PTL DEF Spec

(* A member's row comes from an "added" event that was written.            *)
MemberInv ==
  /\ NewestEventWins
  /\ \A t \in Tenants :
       \/ member[t] = 0
       \/ member[t] \in applied /\ Kind[member[t]] = "added" /\ Tenant[member[t]] = t
  /\ \A d \in applied : Tenant[d] \in Tenants

LEMMA MemberKept ==
  ASSUME TypeOK, MemberInv, NEW d \in Deliveries, Write(d), Normalizable(d)
  PROVE  MemberInv'
  <1>0. /\ Deliveries \subseteq Nat \ {0} /\ Tenant[d] \in Tenants
        /\ applied \subseteq Deliveries /\ applied' = applied \cup {d}
        /\ member \in [Tenants -> Deliveries \cup {0}] /\ access \in [Tenants -> BOOLEAN]
    BY PipelineAssumption DEF PipelineAssumption, Normalizable, TypeOK, TablesOK, Write
  <1>1. CASE Kind[d] = "event" /\ InsertEvent(d)
    BY <1>0, <1>1 DEF InsertEvent, MemberInv, NewestEventWins, Membership, Roster
  <1>2. CASE Kind[d] = "added" /\ UpsertMember(d)
    <2> DEFINE t == Tenant[d]
    <2>1. /\ member' = [member EXCEPT ![t] = IF member[t] <= d THEN d ELSE member[t]]
          /\ UNCHANGED access
      BY <1>2 DEF UpsertMember
    <2>2. \A x \in Tenants : member'[x] = IF x = t /\ member[t] <= d THEN d ELSE member[x]
      BY <1>0, <2>1
    <2>3. ASSUME NEW e \in applied', Kind[e] \in Membership, \A x \in applied' : Roster(x, e) => x <= e
          PROVE  IF Kind[e] = "added" THEN member'[Tenant[e]] = e ELSE ~access'[Tenant[e]]
      <3>1. CASE e = d
        <4>1. member[t] = 0 \/ (member[t] \in applied /\ Roster(member[t], d))
          BY <1>0, <1>2 DEF MemberInv, Roster, Membership
        <4>2. member[t] <= d
          <5>1. member[t] \in applied /\ Roster(member[t], d) => member[t] <= d
            BY <1>0, <2>3, <3>1
          <5> QED  BY <1>0, <4>1, <5>1
        <4> QED  BY <1>0, <1>2, <2>2, <3>1, <4>2
      <3>2. CASE e # d
        <4>1. e \in applied /\ \A x \in applied : Roster(x, e) => x <= e  BY <1>0, <2>3, <3>2
        <4>2. IF Kind[e] = "added" THEN member[Tenant[e]] = e ELSE ~access[Tenant[e]]
          BY <2>3, <4>1 DEF MemberInv, NewestEventWins
        <4>3. Tenant[e] = t => ~(e <= d)
          <5>1. Tenant[e] = t => Roster(d, e)  BY <1>2 DEF Roster, Membership
          <5> QED  BY <1>0, <2>3, <3>2, <4>1, <5>1
        <4>4. Tenant[e] \in Tenants  BY <4>1 DEF MemberInv
        <4>5. member'[Tenant[e]] = member[Tenant[e]] \/ Tenant[e] = t  BY <2>2, <4>4
        <4>6. Tenant[e] = t => member[Tenant[e]] = e \/ Kind[e] # "added"  BY <4>2
        <4> QED  BY <1>0, <2>1, <2>2, <4>2, <4>3, <4>4, <4>5, <4>6
      <3> QED  BY <3>1, <3>2
    <2>4. NewestEventWins'  BY <2>3 DEF NewestEventWins, Roster
    <2> QED  BY <1>0, <1>2, <2>2, <2>4 DEF MemberInv
  <1>3. CASE Kind[d] = "removed" /\ RemoveMember(d)
    <2> DEFINE t == Tenant[d]
    <2>1. /\ member' = [member EXCEPT ![t] = IF member[t] <= d THEN 0 ELSE member[t]]
          /\ access' = [access EXCEPT ![t] = access[t] /\ member'[t] # 0]
      BY <1>3 DEF RemoveMember
    <2>2. \A x \in Tenants : member'[x] = IF x = t /\ member[t] <= d THEN 0 ELSE member[x]
      BY <1>0, <2>1
    <2>3. \A x \in Tenants : ~access[x] => ~access'[x]
      BY <1>0, <2>1
    <2>4. member[t] <= d => ~access'[t]
      <3>1. member[t] <= d => member'[t] = 0  BY <1>0, <2>2
      <3> QED  BY <1>0, <2>1, <3>1
    <2>5. ASSUME NEW e \in applied', Kind[e] \in Membership, \A x \in applied' : Roster(x, e) => x <= e
          PROVE  IF Kind[e] = "added" THEN member'[Tenant[e]] = e ELSE ~access'[Tenant[e]]
      <3>1. CASE e = d
        <4>1. member[t] = 0 \/ (member[t] \in applied /\ Roster(member[t], d))
          BY <1>0, <1>3 DEF MemberInv, Roster, Membership
        <4>2. member[t] <= d
          <5>1. member[t] \in applied /\ Roster(member[t], d) => member[t] <= d
            BY <1>0, <2>5, <3>1
          <5> QED  BY <1>0, <4>1, <5>1
        <4> QED  BY <1>3, <2>4, <3>1, <4>2
      <3>2. CASE e # d
        <4>1. e \in applied /\ \A x \in applied : Roster(x, e) => x <= e  BY <1>0, <2>5, <3>2
        <4>2. IF Kind[e] = "added" THEN member[Tenant[e]] = e ELSE ~access[Tenant[e]]
          BY <2>5, <4>1 DEF MemberInv, NewestEventWins
        <4>3. Tenant[e] = t => ~(e <= d)
          <5>1. Tenant[e] = t => Roster(d, e)  BY <1>3 DEF Roster, Membership
          <5> QED  BY <1>0, <2>5, <3>2, <4>1, <5>1
        <4>4. Tenant[e] \in Tenants  BY <4>1 DEF MemberInv
        <4>5. CASE Kind[e] = "added"
          <5>1. member[Tenant[e]] = e  BY <4>2, <4>5
          <5>2. ~(Tenant[e] = t /\ member[t] <= d)  BY <4>3, <5>1
          <5> QED  BY <2>2, <4>4, <4>5, <5>1, <5>2
        <4>6. CASE Kind[e] # "added"  BY <2>3, <4>2, <4>4, <4>6
        <4> QED  BY <4>5, <4>6
      <3> QED  BY <3>1, <3>2
    <2>6. NewestEventWins'  BY <2>5 DEF NewestEventWins, Roster
    <2> QED  BY <1>0, <1>3, <2>2, <2>6 DEF MemberInv
  <1> QED  BY <1>1, <1>2, <1>3 DEF Write

(* The newest membership event that was written decides, in whatever order *)
(* and however often the events of a member arrive: db.py compares times   *)
(* in the upsert and in both deletes.                                      *)
THEOREM NewestWins == Spec => []NewestEventWins
  <1>1. Init => MemberInv
    BY DEF Init, MemberInv, NewestEventWins
  <1>2. PipelineInv /\ MemberInv /\ [Next]_vars => MemberInv'
    <2> SUFFICES ASSUME PipelineInv, MemberInv, [Next]_vars PROVE MemberInv'  OBVIOUS
    <2>1. CASE UNCHANGED Data
      BY <2>1 DEF Data, MemberInv, NewestEventWins, Roster
    <2>2. CASE \E d \in Deliveries : Write(d) /\ Normalizable(d)
      BY <2>2, MemberKept DEF PipelineInv
    <2> QED  BY <2>1, <2>2, DataSteps
  <1>3. MemberInv => NewestEventWins  BY DEF MemberInv
  <1> QED  BY <1>1, <1>2, <1>3, Invariance, PTL DEF Spec
=============================================================================
