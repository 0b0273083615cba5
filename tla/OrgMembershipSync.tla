------------------------- MODULE OrgMembershipSync -------------------------
(***************************************************************************)
(* How the members of one org reach org_members, and who loses access      *)
(* (worker.py, event_consumer.py, org_membership_store.py and              *)
(* membership_reconcile.py).                                               *)
(*                                                                         *)
(* Additions and removals on GitHub send webhooks, which the database      *)
(* stamps when they are received and the consumer applies.  Changes of     *)
(* role send none: a job fetches the roster, page by page, and writes it   *)
(* over the table.  The tenant's lock keeps the two apart, the stamps keep *)
(* old webhooks from undoing what is newer.                                *)
(*                                                                         *)
(* The org's owner, who is always in the roster, is not among Logins.      *)
(***************************************************************************)
EXTENDS Integers, FiniteSets, Sequences, SequencesExt

CONSTANTS
  Logins,      \* numbers, in the order GitHub lists them
  PageSize,    \* members on a page of the roster
  InOrder,     \* webhooks are received and applied in the order they were sent
  MayLose,     \* a webhook may be lost
  MaxChanges,  \* bound on changes on GitHub
  MaxJobs      \* bound on attempts of reconcile jobs

VARIABLES
  github,   \* each login's role in the org, or "none"
  flight,   \* webhooks sent and not received
  queue,    \* webhooks received and not applied
  rows,     \* org_members: each login's role and added_at, or NoRow
  access,   \* logins with a Clevis membership that GitHub is the source of
  job,      \* the reconcile job that holds the tenant's lock, or NoJob
  synced,   \* last_synced_at of the cursor
  clock,    \* the database's
  changes, jobs,
  unseen,   \* history: logins whose role the last roster may not have settled
  snap,     \* history: when the last roster that had the login began, or 0
  amiss     \* history: a webhook was lost or overtook another, or a roster that
            \* someone left between two pages was written

bounds == <<changes, jobs>>
vars == <<github, flight, queue, rows, access, job, synced, clock, bounds, unseen, snap, amiss>>

Roles == {"member", "admin"}
NoRow == [role |-> "none", at |-> 0]
NoJob == [pc |-> "none", at |-> 0, admins |-> {}, roster |-> {}, page |-> 0,
          stayed |-> {}, late |-> {}, shifted |-> FALSE]

ASSUME SyncAssumption ==
  /\ Logins \subseteq Nat \ {0} /\ IsFiniteSet(Logins) /\ PageSize \in Nat \ {0}
  /\ InOrder \in BOOLEAN /\ MayLose \in BOOLEAN /\ {MaxChanges, MaxJobs} \subseteq Nat

-----------------------------------------------------------------------------
(* org_membership_store.py *)

\* The role is set on insert only; an older event changes nothing.
Upserted(table, e) ==
  IF table[e.login] = NoRow THEN [table EXCEPT ![e.login] = [role |-> e.role, at |-> e.at]]
  ELSE IF e.at >= table[e.login].at THEN [table EXCEPT ![e.login].at = e.at] ELSE table

Removed(table, e) == IF table[e.login].at <= e.at THEN [table EXCEPT ![e.login] = NoRow] ELSE table

\* The role is always overwritten; added_at is kept, or is the time of the snapshot.
Written(table, members, roleOf, at) ==
  [l \in Logins |-> IF l \notin members THEN table[l]
                    ELSE [role |-> roleOf[l], at |-> IF table[l] = NoRow THEN at ELSE table[l].at]]

\* A deliberate mistake (RosterMends): rows of logins that left stay.
Reconciled_Kept(table, members, roleOf, at) == Written(table, members, roleOf, at)

Reconciled(table, members, roleOf, at) ==
  [l \in Logins |-> IF l \in members THEN Written(table, members, roleOf, at)[l] ELSE NoRow]

-----------------------------------------------------------------------------
Init ==
  /\ github \in [Logins -> {"none", "member"}]
  /\ flight = <<>> /\ queue = <<>>
  /\ rows = [l \in Logins |-> IF github[l] = "none" THEN NoRow ELSE [role |-> github[l], at |-> 1]]
  /\ access = {l \in Logins : github[l] # "none"}
  /\ job = NoJob /\ synced = 0 /\ clock = 1
  /\ changes = 0 /\ jobs = 0 /\ unseen = {}
  /\ snap = [l \in Logins |-> 0] /\ amiss = FALSE

\* History of a job that is under way: who changed since it took the lock, who stayed,
\* and whether the rest of the list moved up between two pages.
Noted(l, how) ==
  job' = IF job = NoJob THEN job
         ELSE [job EXCEPT !.late = @ \cup {l},
                          !.stayed = IF how = "role" THEN @ ELSE @ \ {l},
                          !.shifted = @ \/ (how = "left" /\ job.pc = "pages" /\ job.page > 0)]

Change == changes < MaxChanges /\ changes' = changes + 1

Join(l) ==
  /\ Change /\ github[l] = "none"
  /\ github' = [github EXCEPT ![l] = "member"]
  /\ flight' = Append(flight, [kind |-> "added", login |-> l, role |-> "member"])
  /\ Noted(l, "joined")
  /\ UNCHANGED <<queue, rows, access, synced, clock, jobs, unseen, snap, amiss>>

Leave(l) ==
  /\ Change /\ github[l] # "none"
  /\ github' = [github EXCEPT ![l] = "none"]
  /\ flight' = Append(flight, [kind |-> "removed", login |-> l, role |-> "none"])
  /\ Noted(l, "left")
  /\ UNCHANGED <<queue, rows, access, synced, clock, jobs, unseen, snap, amiss>>

\* No webhook tells of it.
SetRole(l, role) ==
  /\ Change /\ github[l] \notin {"none", role}
  /\ github' = [github EXCEPT ![l] = role]
  /\ unseen' = unseen \cup {l}
  /\ Noted(l, "role")
  /\ UNCHANGED <<flight, queue, rows, access, synced, clock, jobs, snap, amiss>>

Candidates(q) == IF InOrder THEN {1} \cap DOMAIN q ELSE DOMAIN q

Overtakes(i) == amiss' = (amiss \/ i # 1)

Receive(i) ==
  /\ i \in Candidates(flight)
  /\ clock' = clock + 1
  /\ queue' = Append(queue, [kind |-> flight[i].kind, login |-> flight[i].login,
                             role |-> flight[i].role, at |-> clock'])
  /\ flight' = RemoveAt(flight, i) /\ Overtakes(i)
  /\ UNCHANGED <<github, rows, access, job, synced, bounds, unseen, snap>>

Lose(i) ==
  /\ MayLose /\ i \in DOMAIN flight
  /\ flight' = RemoveAt(flight, i) /\ amiss' = TRUE
  /\ UNCHANGED <<github, queue, rows, access, job, synced, clock, bounds, unseen, snap>>

-----------------------------------------------------------------------------
(* The consumer: one transaction, under the tenant's lock. *)

\* A deliberate mistake (TableInStep): the consumer does not take the tenant's lock.
Free_Always == TRUE

Free == job = NoJob

ApplyAdded(i) ==
  /\ Free /\ i \in Candidates(queue) /\ queue[i].kind = "added"
  /\ rows' = Upserted(rows, queue[i])
  /\ queue' = RemoveAt(queue, i) /\ Overtakes(i)
  /\ UNCHANGED <<github, flight, access, job, synced, clock, bounds, unseen, snap>>

\* A deliberate mistake (TableInStep): without a row to delete there is nothing to revoke.
Revoked_WithRow(table, l) == IF rows[l] # NoRow /\ table[l] = NoRow THEN access \ {l} ELSE access

\* A row that is still there means that the removal is older than a re-add.
Revoked(table, l) == IF table[l] = NoRow THEN access \ {l} ELSE access

ApplyRemoved(i) ==
  /\ Free /\ i \in Candidates(queue) /\ queue[i].kind = "removed"
  /\ rows' = Removed(rows, queue[i])
  /\ access' = Revoked(rows', queue[i].login)
  /\ queue' = RemoveAt(queue, i) /\ Overtakes(i)
  /\ UNCHANGED <<github, flight, job, synced, clock, bounds, unseen, snap>>

-----------------------------------------------------------------------------
(* The reconcile job *)

Members == {l \in Logins : github[l] # "none"}

SnapshotTime(at) == at

Lock ==
  /\ Free /\ jobs < MaxJobs
  /\ jobs' = jobs + 1 /\ clock' = clock + 1
  /\ job' = [pc |-> "admins", at |-> clock', admins |-> {}, roster |-> {}, page |-> 0,
             stayed |-> Members, shifted |-> FALSE,
             late |-> {e.login : e \in ToSet(flight) \cup ToSet(queue)}]
  /\ UNCHANGED <<github, flight, queue, rows, access, synced, changes, unseen, snap, amiss>>

FetchAdmins ==
  /\ job.pc = "admins"
  /\ job' = [job EXCEPT !.pc = "pages", !.admins = {l \in Logins : github[l] = "admin"}]
  /\ UNCHANGED <<github, flight, queue, rows, access, synced, clock, bounds, unseen, snap, amiss>>

Place(l) == Cardinality({m \in Members : m <= l})

\* GitHub cuts the list it has at the moment into pages; the last page has no next.
FetchPage ==
  LET end == (job.page + 1) * PageSize
  IN  /\ job.pc = "pages"
      /\ job' = [job EXCEPT !.roster = @ \cup {l \in Members : Place(l) \in (end - PageSize + 1)..end},
                            !.page = @ + 1,
                            !.pc = IF Cardinality(Members) > end THEN "pages" ELSE "write"]
      /\ UNCHANGED <<github, flight, queue, rows, access, synced, clock, bounds, unseen, snap, amiss>>

RoleOf == [l \in Logins |-> IF l \in job.admins THEN "admin" ELSE "member"]

Write ==
  /\ job.pc = "write"
  /\ rows' = Reconciled(rows, job.roster, RoleOf, SnapshotTime(job.at))
  /\ synced' = clock
  /\ unseen' = job.late
  /\ snap' = [l \in Logins |-> IF l \in job.roster THEN job.at ELSE 0]
  /\ amiss' = (amiss \/ job.shifted)
  /\ job' = NoJob
  /\ UNCHANGED <<github, flight, queue, access, clock, bounds>>

\* An HTTP error, a roster that is not complete or a database error: nothing is written.
Abort ==
  /\ job # NoJob
  /\ job' = NoJob
  /\ UNCHANGED <<github, flight, queue, rows, access, synced, clock, bounds, unseen, snap, amiss>>

\* Any other exception passes the rollback by, and the release of the lock commits.
Raise ==
  /\ job.pc = "write"
  /\ \E some \in SUBSET job.roster : rows' = Written(rows, some, RoleOf, SnapshotTime(job.at))
  /\ job' = NoJob
  /\ UNCHANGED <<github, flight, queue, access, synced, clock, bounds, unseen, snap, amiss>>

Next ==
  \/ \E l \in Logins : Join(l) \/ Leave(l) \/ \E role \in Roles : SetRole(l, role)
  \/ \E i \in DOMAIN flight : Receive(i) \/ Lose(i)
  \/ \E i \in DOMAIN queue : ApplyAdded(i) \/ ApplyRemoved(i)
  \/ Lock \/ FetchAdmins \/ FetchPage \/ Write \/ Abort \/ Raise

Spec == Init /\ [][Next]_vars

-----------------------------------------------------------------------------
(* Properties *)

Event ==
  [kind : {"added"}, login : Logins, role : {"member"}]
    \cup [kind : {"removed"}, login : Logins, role : {"none"}]
Stamped ==
  [kind : {"added"}, login : Logins, role : {"member"}, at : 1..clock]
    \cup [kind : {"removed"}, login : Logins, role : {"none"}, at : 1..clock]

Job ==
  {NoJob} \cup
    [pc : {"admins", "pages", "write"}, at : 1..clock, admins : SUBSET Logins, roster : SUBSET Logins,
     page : Nat, stayed : SUBSET Logins, late : SUBSET Logins, shifted : BOOLEAN]

(* Every variable holds values of its type, and no stamp is from the       *)
(* future.                                                                 *)
TypeOK ==
  /\ github \in [Logins -> Roles \cup {"none"}]
  /\ flight \in Seq(Event) /\ queue \in Seq(Stamped)
  /\ rows \in [Logins -> {NoRow} \cup [role : Roles, at : 1..clock]]
  /\ access \subseteq Logins /\ synced \in 0..clock /\ clock \in Nat \ {0}
  /\ job \in Job
  /\ unseen \subseteq Logins /\ amiss \in BOOLEAN

Quiet == flight = <<>> /\ queue = <<>> /\ job = NoJob

(* While no webhook was lost or overtook another, and no roster written    *)
(* that had moved up between its pages: the table has, once all is quiet,  *)
(* the members of GitHub, wherever rosters, whole or interrupted, came in  *)
(* between.                                                                *)
InStep == \A l \in Logins : (rows[l] = NoRow) = (github[l] = "none")

(* It has the roles that a whole roster settled: those of logins about     *)
(* which no webhook was on its way when the roster was asked for, and      *)
(* nothing changed since.                                                  *)
RolesAgree == \A l \in Members \ unseen : rows[l].role = github[l]

(* Who was removed from the org has lost the membership, even when a       *)
(* roster was first to see it.                                             *)
RemovedLosesAccess == access \subseteq Members

TableInStep == TypeOK /\ (Quiet /\ ~amiss => InStep /\ RolesAgree /\ RemovedLosesAccess)

(* The cursor moves only with a whole roster: nobody stays who was not in  *)
(* it.                                                                     *)
CursorIsWhole == synced' # synced => \A l \in Logins \ job.roster : rows'[l] = NoRow

(* Whatever webhooks were lost or applied out of order: a roster that      *)
(* nothing changed under leaves in the table the members that GitHub has,  *)
(* with their roles.                                                       *)
Mends == synced' # synced /\ job.late = {} => \A l \in Logins : rows'[l].role = github[l]

(* A roster deletes no one who was in the org all the time it was fetched  *)
(* (membership_reconcile.py:22, "a partial list would wipe real members"), *)
(* unless someone left between two of its pages.                           *)
KeepsMembers ==
  job # NoJob /\ job' = NoJob /\ ~job.shifted =>
    \A l \in job.stayed : rows[l] # NoRow => rows'[l] # NoRow

RosterMends == [][CursorIsWhole /\ Mends /\ KeepsMembers]_vars

(* The same without the exception.                                         *)
MembersAreNotWiped ==
  [][job # NoJob /\ job' = NoJob =>
       \A l \in job.stayed : rows[l] # NoRow => rows'[l] # NoRow]_vars

(* A removal received before a roster that has the login is older than its *)
(* re-add: it neither deletes the row nor revokes the membership.          *)
OldRemovalIsIgnored ==
  [][\A l \in Logins :
       rows[l] # NoRow /\ rows'[l] = NoRow /\ job = NoJob =>
         \E i \in DOMAIN queue : queue[i].login = l /\ queue[i].at >= snap[l] /\ queue' = RemoveAt(queue, i)]_vars
=============================================================================
