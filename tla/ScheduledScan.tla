--------------------------- MODULE ScheduledScan ---------------------------
(***************************************************************************)
(* The sweep that scans orgs on a schedule (scheduled_scan_sweep.py) and   *)
(* what a stored scan may alert about (scan_service.py), next to scans     *)
(* that people start.                                                      *)
(*                                                                         *)
(* Each replica lists the orgs that are due, and for each of them takes    *)
(* the org's slot, looks again, commits a marker, which frees the slot,    *)
(* and scans.  The marker keeps others away for a window of time.          *)
(*                                                                         *)
(* Time is in the states: a scan is fresh or due, a marker or a failure is *)
(* there as long as it counts.                                             *)
(***************************************************************************)
EXTENDS Integers, FiniteSets, Sequences, SequencesExt

CONSTANTS
  Orgs, Replicas,
  MaxPerTick,     \* MAX_SCANS_PER_TICK
  LongScans,      \* a scan may last longer than IN_PROGRESS_WINDOW
  TokenErrors,    \* resolving a token may raise
  MaxChanges,     \* bound on changes of an org on GitHub
  MaxManual,      \* bound on scans that people start
  MaxCrashes

VARIABLES
  version,   \* how often each org changed on GitHub
  score,     \* what a scan of it would give now: "low" or "high"
  latest,    \* the latest stored scan of each org
  due,       \* orgs whose latest scan is older than their cadence, or that have none
  order,     \* the orgs, the one that was scanned longest ago first
  marked,    \* orgs with a started marker that counts
  failed,    \* orgs with a failure that counts
  slot,      \* the replica that holds the org's slot, or Nobody
  pass,      \* each replica's pass
  manual,    \* a scan of the org that a person started, or NoScan
  alert,     \* the last alert: the two scans it compared
  changes, manuals, crashes

counts == <<changes, manuals, crashes>>
github == <<version, score>>
stored == <<latest, due, order, alert>>
vars == <<github, stored, marked, failed, slot, pass, manual, counts>>

Nobody == "nobody"
NoScan == [score |-> "none", version |-> 0]
Idle == [pc |-> "idle", todo |-> <<>>, scanned |-> 0, tried |-> 0, scan |-> NoScan]

ASSUME ScanAssumption ==
  /\ IsFiniteSet(Orgs) /\ IsFiniteSet(Replicas) /\ Nobody \notin Replicas
  /\ MaxPerTick \in Nat \ {0} /\ LongScans \in BOOLEAN /\ TokenErrors \in BOOLEAN
  /\ {MaxChanges, MaxManual, MaxCrashes} \subseteq Nat

Init ==
  /\ version = [o \in Orgs |-> 0] /\ score = [o \in Orgs |-> "low"]
  /\ latest = [o \in Orgs |-> NoScan] /\ due = Orgs /\ order = SetToSeq(Orgs)
  /\ alert = <<NoScan, NoScan>>
  /\ marked = {} /\ failed = {}
  /\ slot = [o \in Orgs |-> Nobody] /\ pass = [r \in Replicas |-> Idle]
  /\ manual = [o \in Orgs |-> NoScan]
  /\ changes = 0 /\ manuals = 0 /\ crashes = 0

-----------------------------------------------------------------------------
(* The sweep *)

\* Due since its latest scan, unless it failed or was started a short time ago.
Candidate(o) == o \in due \ (failed \cup marked)

Before(o, p) == \E i, j \in DOMAIN order : i < j /\ order[i] = o /\ order[j] = p

\* The candidates, the one that was scanned longest ago first.
Candidates ==
  LET chosen == {o \in Orgs : Candidate(o)}
  IN  {s \in [1 .. Cardinality(chosen) -> chosen] : \A i, j \in DOMAIN s : i < j => Before(s[i], s[j])}

Tick(r) ==
  /\ pass[r].pc = "idle"
  /\ \E todo \in Candidates : pass' = [pass EXCEPT ![r] = [Idle EXCEPT !.pc = "next", !.todo = todo]]
  /\ UNCHANGED <<github, stored, marked, failed, slot, manual, counts>>

To(r, pc) == pass' = [pass EXCEPT ![r].pc = pc]

\* To the next candidate, having stored n scans.
NextAfter(r, n) ==
  pass' = [pass EXCEPT ![r] = [pc |-> "next", todo |-> Tail(@.todo), scanned |-> @.scanned + n,
                               tried |-> @.tried, scan |-> NoScan]]

At(r, o, pc) == pass[r].pc = pc /\ pass[r].todo # <<>> /\ o = Head(pass[r].todo)

Free(r, o) == slot' = [slot EXCEPT ![o] = IF @ = r THEN Nobody ELSE @]

TakeSlot(r, o) ==
  /\ At(r, o, "next") /\ pass[r].scanned < MaxPerTick
  /\ IF slot[o] = Nobody THEN slot' = [slot EXCEPT ![o] = r] /\ To(r, "check")
     ELSE NextAfter(r, 0) /\ UNCHANGED slot
  /\ UNCHANGED <<github, stored, marked, failed, manual, counts>>

EndPass(r) ==
  /\ pass[r].pc = "next" /\ (pass[r].todo = <<>> \/ pass[r].scanned >= MaxPerTick)
  /\ pass' = [pass EXCEPT ![r] = Idle]
  /\ UNCHANGED <<github, stored, marked, failed, slot, manual, counts>>

\* A deliberate mistake (DropIsReal): what was due when the pass began is scanned.
Check_Trusting(r, o) ==
  /\ At(r, o, "check") /\ To(r, "token")
  /\ UNCHANGED <<github, stored, marked, failed, slot, manual, counts>>

\* The org may have been scanned since the pass began.
Check(r, o) ==
  /\ At(r, o, "check")
  /\ IF Candidate(o) THEN To(r, "token") /\ UNCHANGED slot ELSE Free(r, o) /\ NextAfter(r, 0)
  /\ UNCHANGED <<github, stored, marked, failed, manual, counts>>

NoToken(r, o) ==
  /\ At(r, o, "token") /\ TokenErrors
  /\ Free(r, o) /\ NextAfter(r, 0)
  /\ UNCHANGED <<github, stored, marked, failed, manual, counts>>

\* The rollback frees the slot before the failure is written.
TokenRaises(r, o) ==
  /\ At(r, o, "token") /\ TokenErrors
  /\ Free(r, o) /\ To(r, "failing")
  /\ UNCHANGED <<github, stored, marked, failed, manual, counts>>

\* A deliberate mistake (OneScan): no marker.
Start_Unmarked(r, o) ==
  /\ At(r, o, "token")
  /\ Free(r, o)
  /\ pass' = [pass EXCEPT ![r] = [@ EXCEPT !.pc = "scan", !.tried = pass[r].tried + 1]]
  /\ UNCHANGED <<github, stored, marked, failed, manual, counts>>

\* The marker's commit frees the slot.
Start(r, o) ==
  /\ At(r, o, "token")
  /\ marked' = marked \cup {o}
  /\ Free(r, o)
  /\ pass' = [pass EXCEPT ![r] = [@ EXCEPT !.pc = "scan", !.tried = pass[r].tried + 1]]
  /\ UNCHANGED <<github, stored, failed, manual, counts>>

Seen(o) == [score |-> score[o], version |-> version[o]]

Scan(r, o) ==
  /\ At(r, o, "scan")
  /\ pass' = [pass EXCEPT ![r] = [@ EXCEPT !.pc = "store", !.scan = Seen(o)]]
  /\ UNCHANGED <<github, stored, marked, failed, slot, manual, counts>>

ToTheEnd(o) ==
  LET at == CHOOSE i \in DOMAIN order : order[i] = o
  IN  order' = [i \in DOMAIN order |-> IF i < at THEN order[i]
                                       ELSE IF i < Len(order) THEN order[i + 1] ELSE o]

\* Stored as the org's latest scan, with an alert if that lowers the score.
Persist(o, scan) ==
  /\ latest' = [latest EXCEPT ![o] = scan] /\ due' = due \ {o} /\ ToTheEnd(o)
  /\ alert' = IF latest[o].score = "high" /\ scan.score = "low" THEN <<latest[o], scan>> ELSE alert
  /\ marked' = marked \ {o}

\* Or the audit row behind it is not written.
Store(r, o) ==
  /\ At(r, o, "store") /\ Persist(o, pass[r].scan)
  /\ NextAfter(r, 1) \/ To(r, "failing")
  /\ UNCHANGED <<github, failed, slot, manual, counts>>

ScanFails(r, o) ==
  /\ pass[r].pc \in {"scan", "store"} /\ At(r, o, pass[r].pc) /\ To(r, "failing")
  /\ UNCHANGED <<github, stored, marked, failed, slot, manual, counts>>

RecordFailure(r, o) ==
  /\ At(r, o, "failing")
  /\ failed' = failed \cup {o} /\ NextAfter(r, 0)
  /\ UNCHANGED <<github, stored, marked, slot, manual, counts>>

Crash(r) ==
  /\ pass[r].pc # "idle" /\ crashes < MaxCrashes /\ crashes' = crashes + 1
  /\ pass' = [pass EXCEPT ![r] = Idle]
  /\ slot' = [o \in Orgs |-> IF slot[o] = r THEN Nobody ELSE slot[o]]
  /\ UNCHANGED <<github, stored, marked, failed, manual, changes, manuals>>

-----------------------------------------------------------------------------
(* Scans that people start, GitHub, and time *)

ManualScan(o) ==
  /\ manual[o] = NoScan /\ manuals < MaxManual /\ manuals' = manuals + 1
  /\ manual' = [manual EXCEPT ![o] = Seen(o)]
  /\ UNCHANGED <<github, stored, marked, failed, slot, pass, changes, crashes>>

ManualStore(o) ==
  /\ manual[o] # NoScan /\ Persist(o, manual[o])
  /\ manual' = [manual EXCEPT ![o] = NoScan]
  /\ UNCHANGED <<github, failed, slot, pass, counts>>

Change(o) ==
  /\ changes < MaxChanges /\ changes' = changes + 1
  /\ version' = [version EXCEPT ![o] = @ + 1]
  /\ score' = [score EXCEPT ![o] = IF @ = "low" THEN "high" ELSE "low"]
  /\ UNCHANGED <<stored, marked, failed, slot, pass, manual, manuals, crashes>>

Scanning(r, o) == \E pc \in {"scan", "store", "failing"} : At(r, o, pc)

\* The cadence is much longer than a scan.
GoDue(o) ==
  /\ o \notin due /\ due' = due \cup {o}
  /\ \A r \in Replicas : ~Scanning(r, o)
  /\ UNCHANGED <<github, latest, order, alert, marked, failed, slot, pass, manual, counts>>

WindowEnds(o) ==
  /\ o \in marked /\ (LongScans \/ \A r \in Replicas : ~Scanning(r, o))
  /\ marked' = marked \ {o}
  /\ UNCHANGED <<github, stored, failed, slot, pass, manual, counts>>

RetryDue(o) ==
  /\ o \in failed /\ failed' = failed \ {o}
  /\ UNCHANGED <<github, stored, marked, slot, pass, manual, counts>>

Step(r, o) ==
  \/ TakeSlot(r, o) \/ Check(r, o) \/ NoToken(r, o) \/ TokenRaises(r, o) \/ Start(r, o)
  \/ Scan(r, o) \/ Store(r, o) \/ ScanFails(r, o) \/ RecordFailure(r, o)

Next ==
  \/ \E r \in Replicas : Tick(r) \/ EndPass(r) \/ Crash(r) \/ \E o \in Orgs : Step(r, o)
  \/ \E o \in Orgs : ManualScan(o) \/ ManualStore(o) \/ Change(o)
  \/ \E o \in Orgs : GoDue(o) \/ WindowEnds(o) \/ RetryDue(o)

Spec == Init /\ [][Next]_vars

\* The loops tick, a pass moves on, markers and failures cease to count.
FairSpec ==
  /\ Spec
  /\ \A r \in Replicas :
       WF_vars(Tick(r)) /\ WF_vars(EndPass(r)) /\ WF_vars(\E o \in Orgs : Step(r, o))
  /\ \A o \in Orgs : WF_vars(WindowEnds(o)) /\ WF_vars(RetryDue(o))

-----------------------------------------------------------------------------
(* Properties *)

Result == [score : {"none", "low", "high"}, version : Nat]

Pass ==
  [pc : {"idle", "next", "check", "token", "scan", "store", "failing"}, todo : Seq(Orgs),
   scanned : Nat, tried : Nat, scan : Result]

\* Every variable holds values of its type; no org falls out of the order.
TypeOK ==
  /\ version \in [Orgs -> Nat] /\ score \in [Orgs -> {"low", "high"}]
  /\ latest \in [Orgs -> Result] /\ due \subseteq Orgs /\ alert \in Result \X Result
  /\ order \in [1 .. Cardinality(Orgs) -> Orgs] /\ ToSet(order) = Orgs
  /\ marked \subseteq Orgs /\ failed \subseteq Orgs
  /\ slot \in [Orgs -> Replicas \cup {Nobody}] /\ pass \in [Replicas -> Pass]
  /\ manual \in [Orgs -> Result]
  /\ {changes, manuals, crashes} \subseteq Nat

\* Two replicas do not scan the same org at once, as long as no scan outlasts its marker.
OneScan ==
  \A o \in Orgs : Cardinality({r \in DOMAIN pass : At(r, o, "scan") \/ At(r, o, "store")}) <= 1

\* An org that failed is not tried again before its time, where tokens resolve.
RestsAfterFailure == \A r \in Replicas, o \in failed : pass'[r].tried > pass[r].tried => ~At(r, o, "token")
BacksOff == [][RestsAfterFailure]_vars

\* Every org that is due is scanned, or tried and found broken, however many others there are.
EachIsScanned == \A o \in Orgs : o \in due ~> o \notin due \/ o \in failed

\* A pass makes no more than MAX_SCANS_PER_TICK scans (scheduled_scan_sweep.py: "at most
\* MAX_SCANS_PER_TICK scans per tick").
TickIsCapped == \A r \in Replicas : pass[r].tried <= MaxPerTick

\* An alert compares a scan with an earlier one (scan_service.py: "alert if it dropped from
\* the org's previous one").
AlertLooksBack == alert[1].version <= alert[2].version

\* So it is as long as nobody starts one by hand.
DropIsReal == manuals = 0 => AlertLooksBack
=============================================================================
