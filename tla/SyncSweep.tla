----------------------------- MODULE SyncSweep -----------------------------
(***************************************************************************)
(* The sweeps that keep a tenant's GitHub data fresh (gap_heal_sweep.py,   *)
(* membership_reconcile_sweep.py, sweep_lock.py, sweep_loop.py), with the  *)
(* jobs they enqueue and the installations that come and go.               *)
(*                                                                         *)
(* Every replica of the API goes through all tenants again and again.  A   *)
(* pass reads a tenant's cursor, takes the tenant's slot (an advisory lock *)
(* of its transaction), looks for a job that blocks a new one, resolves a  *)
(* token and enqueues; whatever ends the transaction frees the slot.       *)
(*                                                                         *)
(* Time is in the states: a cursor is fresh or stale, a failed job is in   *)
(* the table as long as it is younger than the window.  A pass is short    *)
(* next to the window, so its cutoff is taken as that of each moment.      *)
(***************************************************************************)
EXTENDS Integers, FiniteSets, Sequences, SequencesExt

CONSTANTS
  Tenants, Replicas,
  Healthy,       \* tenants whose token can be resolved while they are installed
  Kind,          \* "activity" or "members": which of the two sweeps
  MaxTries,      \* attempts at a job
  MaxInstalls, MaxUninstalls, MaxCrashes

VARIABLES
  installed,   \* tenants with a GitHub App installation
  cursor,      \* last_synced_at of each tenant: "none", "stale" or "fresh"
  data,        \* tenants with rows that came from GitHub
  jobs,        \* each tenant's jobs that are active or failed within the window
  slot,        \* the replica that holds the tenant's slot, or Nobody
  pass,        \* each replica's pass
  installs, uninstalls, crashes

counts == <<installs, uninstalls, crashes>>
vars == <<installed, cursor, data, jobs, slot, pass, counts>>

Nobody == "nobody"

SweepAssumption ==
  /\ IsFiniteSet(Tenants) /\ IsFiniteSet(Replicas) /\ Nobody \notin Replicas
  /\ Healthy \subseteq Tenants /\ Kind \in {"activity", "members"}
  /\ MaxTries \in Nat \ {0} /\ {MaxInstalls, MaxUninstalls, MaxCrashes} \subseteq Nat

Queued(by) == [by |-> by, st |-> "queued", tries |-> 1]
Active(job) == job.st \in {"queued", "processing", "fetched"}
Idle == [pc |-> "idle", todo |-> {}, at |-> Nobody]

Init ==
  /\ installed \in SUBSET Tenants
  /\ cursor = [t \in Tenants |-> "none"] /\ data = {}
  /\ jobs = [t \in Tenants |-> <<>>]
  /\ slot = [t \in Tenants |-> Nobody]
  /\ pass = [r \in Replicas |-> Idle]
  /\ installs = 0 /\ uninstalls = 0 /\ crashes = 0

-----------------------------------------------------------------------------
(* A replica's pass *)

Tick(r) ==
  /\ pass[r].pc = "idle"
  /\ pass' = [pass EXCEPT ![r] = [pc |-> "next", todo |-> Tenants, at |-> Nobody]]
  /\ UNCHANGED <<installed, cursor, data, jobs, slot, counts>>

Due(t) ==
  \/ cursor[t] = "stale"
  \/ cursor[t] = "none" /\ (Kind = "members" \/ t \in installed)

To(r, t, pc) == pass' = [pass EXCEPT ![r] = [@ EXCEPT !.pc = pc, !.at = t]]

Leave(r, t) == pass' = [pass EXCEPT ![r] = [pc |-> "next", todo |-> @.todo \ {t}, at |-> Nobody]]

\* The cursor is read before the slot is taken.
Look(r, t) ==
  /\ pass[r].pc = "next" /\ t \in pass[r].todo
  /\ IF Due(t) THEN To(r, t, "slot") ELSE Leave(r, t)
  /\ UNCHANGED <<installed, cursor, data, jobs, slot, counts>>

\* A replica that finds the slot taken skips the tenant.
TakeSlot(r, t) ==
  /\ pass[r].pc = "slot" /\ pass[r].at = t
  /\ IF slot[t] = Nobody
     THEN slot' = [slot EXCEPT ![t] = r] /\ To(r, t, "check")
     ELSE Leave(r, t) /\ UNCHANGED slot
  /\ UNCHANGED <<installed, cursor, data, jobs, counts>>

\* A deliberate mistake (OneSweepJob): only failed jobs block.
Blocked_Failed(t) == \E i \in DOMAIN jobs[t] : ~Active(jobs[t][i])

\* Active, or failed within the window: no other jobs are kept.
Blocked(t) == jobs[t] # <<>>

Free(r, t) == slot' = [slot EXCEPT ![t] = IF @ = r THEN Nobody ELSE @]

Check(r, t) ==
  /\ pass[r].pc = "check" /\ pass[r].at = t
  /\ IF Blocked(t) THEN Free(r, t) /\ Leave(r, t) ELSE To(r, t, "token") /\ UNCHANGED slot
  /\ UNCHANGED <<installed, cursor, data, jobs, counts>>

HasToken(t) == t \in installed \cap Healthy

\* A deliberate mistake (Tried): an error ends the pass.
Skip_Ends(r, t) ==
  /\ pass[r].pc = "token" /\ pass[r].at = t /\ ~HasToken(t)
  /\ Free(r, t) /\ pass' = [pass EXCEPT ![r] = Idle]
  /\ UNCHANGED <<installed, cursor, data, jobs, counts>>

\* No token, which commits, or any other error, which rolls back: the pass goes on.
Skip(r, t) ==
  /\ pass[r].pc = "token" /\ pass[r].at = t /\ ~HasToken(t)
  /\ Free(r, t) /\ Leave(r, t)
  /\ UNCHANGED <<installed, cursor, data, jobs, counts>>

Enqueue(r, t) ==
  /\ pass[r].pc = "token" /\ pass[r].at = t /\ HasToken(t)
  /\ jobs' = [jobs EXCEPT ![t] = Append(@, Queued("sweep"))]
  /\ Free(r, t) /\ Leave(r, t)
  /\ UNCHANGED <<installed, cursor, data, counts>>

EndPass(r) ==
  /\ pass[r].pc = "next" /\ pass[r].todo = {}
  /\ pass' = [pass EXCEPT ![r] = Idle]
  /\ UNCHANGED <<installed, cursor, data, jobs, slot, counts>>

\* The process dies, or an error outside of the try ends the pass: the transaction is rolled back.
Crash(r) ==
  /\ pass[r].pc # "idle" /\ crashes < MaxCrashes /\ crashes' = crashes + 1
  /\ pass' = [pass EXCEPT ![r] = Idle]
  /\ slot' = [t \in Tenants |-> IF slot[t] = r THEN Nobody ELSE slot[t]]
  /\ UNCHANGED <<installed, cursor, data, jobs, installs, uninstalls>>

-----------------------------------------------------------------------------
(* Installations *)

\* The sync route stores the installation and enqueues a sync of its own, without the slot.
Install(t) ==
  /\ installs < MaxInstalls /\ installs' = installs + 1
  /\ installed' = installed \cup {t}
  /\ jobs' = IF Kind = "activity" /\ t \in Healthy
             THEN [jobs EXCEPT ![t] = Append(@, Queued("install"))] ELSE jobs
  /\ UNCHANGED <<cursor, data, slot, pass, uninstalls, crashes>>

\* The last installation goes, and what came from GitHub with it.
Uninstall(t) ==
  /\ t \in installed /\ uninstalls < MaxUninstalls /\ uninstalls' = uninstalls + 1
  /\ installed' = installed \ {t}
  /\ cursor' = [cursor EXCEPT ![t] = "none"] /\ data' = data \ {t}
  /\ UNCHANGED <<jobs, slot, pass, installs, crashes>>

-----------------------------------------------------------------------------
(* The worker's side of a job *)

Set(t, i, st) == jobs' = [jobs EXCEPT ![t][i].st = st]

Claim(t, i) ==
  /\ jobs[t][i].st = "queued" /\ Set(t, i, "processing")
  /\ UNCHANGED <<installed, cursor, data, slot, pass, counts>>

\* A token of an installation that is gone is refused.
Fetch(t, i) ==
  /\ jobs[t][i].st = "processing"
  /\ Set(t, i, IF t \in installed THEN "fetched" ELSE "failed")
  /\ UNCHANGED <<installed, cursor, data, slot, pass, counts>>

\* Rows, cursor and outcome; a job that is done no longer matters.
Store(t, i) ==
  /\ jobs[t][i].st = "fetched"
  /\ data' = data \cup {t} /\ cursor' = [cursor EXCEPT ![t] = "fresh"]
  /\ jobs' = [jobs EXCEPT ![t] = RemoveAt(@, i)]
  /\ UNCHANGED <<installed, slot, pass, counts>>

\* GitHub refuses, or the last attempt fails.
Fail(t, i) ==
  /\ jobs[t][i].st \in {"processing", "fetched"}
  /\ Set(t, i, "failed")
  /\ UNCHANGED <<installed, cursor, data, slot, pass, counts>>

\* A passing error, or a worker that died.
Again(t, i) ==
  /\ jobs[t][i].st \in {"processing", "fetched"} /\ jobs[t][i].tries < MaxTries
  /\ jobs' = [jobs EXCEPT ![t][i].st = "queued", ![t][i].tries = @ + 1]
  /\ UNCHANGED <<installed, cursor, data, slot, pass, counts>>

-----------------------------------------------------------------------------
(* Time *)

GoStale(t) ==
  /\ cursor[t] = "fresh" /\ cursor' = [cursor EXCEPT ![t] = "stale"]
  /\ UNCHANGED <<installed, data, jobs, slot, pass, counts>>

\* The failure leaves the window; retention keeps failed jobs longer than any window.
Age(t, i) ==
  /\ jobs[t][i].st = "failed"
  /\ jobs' = [jobs EXCEPT ![t] = RemoveAt(@, i)]
  /\ UNCHANGED <<installed, cursor, data, slot, pass, counts>>

Step(r, t) == Look(r, t) \/ TakeSlot(r, t) \/ Check(r, t) \/ Skip(r, t) \/ Enqueue(r, t)

Work(t, i) == Claim(t, i) \/ Fetch(t, i) \/ Store(t, i) \/ Fail(t, i) \/ Again(t, i)

Next ==
  \/ \E r \in Replicas : Tick(r) \/ EndPass(r) \/ Crash(r) \/ \E t \in Tenants : Step(r, t)
  \/ \E t \in Tenants : Install(t) \/ Uninstall(t) \/ GoStale(t)
  \/ \E t \in Tenants : \E i \in DOMAIN jobs[t] : Work(t, i) \/ Age(t, i)

Spec == Init /\ [][Next]_vars

\* The loops tick, a pass moves on, workers work, and time passes.
FairSpec ==
  /\ Spec
  /\ \A r \in Replicas :
       WF_vars(Tick(r)) /\ WF_vars(EndPass(r)) /\ WF_vars(\E t \in Tenants : Step(r, t))
  /\ \A t \in Tenants :
       /\ WF_vars(\E i \in DOMAIN jobs[t] : Work(t, i))
       /\ WF_vars(\E i \in DOMAIN jobs[t] : Age(t, i))

-----------------------------------------------------------------------------
(* Properties *)

Job == [by : {"sweep", "install"}, st : {"queued", "processing", "fetched", "failed"},
        tries : 1 .. MaxTries]

Pass == [pc : {"idle", "next", "slot", "check", "token"}, todo : SUBSET Tenants,
         at : Tenants \cup {Nobody}]

\* Every variable holds values of its type, and a tenant's job is done or retried in budget.
TypeOK ==
  /\ installed \subseteq Tenants /\ data \subseteq Tenants
  /\ cursor \in [Tenants -> {"none", "stale", "fresh"}]
  /\ jobs \in [Tenants -> Seq(Job)]
  /\ slot \in [Tenants -> Replicas \cup {Nobody}]
  /\ pass \in [Replicas -> Pass]
  /\ installs \in 0 .. MaxInstalls /\ uninstalls \in 0 .. MaxUninstalls
  /\ crashes \in 0 .. MaxCrashes

\* However passes, crashes and syncs by hand interleave, the sweeps never have two jobs of a
\* tenant under way (sweep_lock.py: both could pass the check before either enqueues).
OneSweepJob ==
  \A t \in Tenants :
    Cardinality({i \in DOMAIN jobs[t] : jobs[t][i].by = "sweep" /\ Active(jobs[t][i])}) <= 1

\* The sweeps do not try again while a failure of theirs is younger than the window.
WaitsAfterFailure ==
  \A t \in Tenants :
    Len(jobs'[t]) > Len(jobs[t]) /\ Last(jobs'[t]).by = "sweep" =>
      \A i \in DOMAIN jobs[t] : jobs[t][i].by # "sweep"
FailuresWait == [][WaitsAfterFailure]_vars

\* A tenant that is not fresh and has a token gets a job, whatever the other tenants do.
Tried ==
  \A t \in Healthy :
    t \in installed /\ cursor[t] # "fresh" ~>
      t \notin installed \/ cursor[t] = "fresh" \/ \E i \in DOMAIN jobs[t] : Active(jobs[t][i])

\* A sweep enqueues for tenants that are not fresh only (gap_heal_sweep.py: "rather than
\* re-deriving a stale answer").
EnqueuesForTheStale ==
  [][\A t \in Tenants :
       Len(jobs'[t]) > Len(jobs[t]) /\ Last(jobs'[t]).by = "sweep" => cursor[t] # "fresh"]_vars

\* Without an installation nothing that came from GitHub is left (installation_repo.py:
\* "Delete a tenant's GitHub-derived rows once its last installation is gone.").
PurgedStaysPurged == \A t \in Tenants \ installed : t \notin data /\ cursor[t] = "none"
=============================================================================
