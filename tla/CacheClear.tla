----------------------------- MODULE CacheClear -----------------------------
(***************************************************************************)
(* The Actions-cache panel of the dashboard and the worker job behind it   *)
(* (apps/ui/components/repo/cache-panel.tsx,                               *)
(* apps/api/src/services/cache_service.py,                                 *)
(* _handle_clear_actions_cache in apps/worker/src/worker.py).              *)
(*                                                                         *)
(* The panel stays mounted while the route moves from one repository to    *)
(* another.  It looks up the token stored for the owner, lists the caches, *)
(* queues a clear and polls the job it was told.  The worker pages through *)
(* GitHub's list, then deletes by id, while CI adds, touches and evicts    *)
(* entries.  Each repository has an owner of its own, which names it, and  *)
(* an entry is its own key.                                                *)
(***************************************************************************)
EXTENDS Integers, FiniteSets, Sequences, SequencesExt

CONSTANTS
  Repos,        \* repositories, each with its own owner
  First,        \* the one the panel opens with
  Installed,    \* owners the GitHub App is installed for
  Stored,       \* owners with a token stored by an earlier visit
  Cached,       \* the caches of each repository at first, in list order
  PageSize,     \* entries of a page of GitHub's list (100 in the code)
  MaxRetries,   \* settings.max_retries of the worker
  MaxClears, MaxSwitches, MaxTyped, MaxTabs, MaxLists,
                \* bounds: clears sent, route changes, tokens typed, tab changes, lists asked
  MaxFaults, MaxPollFails,
                \* bounds: requests that fail, polls that fail
  MaxAdds, MaxTouches, MaxEvictions
                \* bounds: what CI does to the caches meanwhile

None == 0

\* A token is None, the one stored at first (1) or the n-th typed (n + 1).
Legacy == 1

\* The first entry that CI adds; the next ones follow.
FirstAdded == 100

\* An entry of GitHub has an id of its own, which no other entry ever gets.
ASSUME CacheAssumption ==
  /\ Repos \subseteq Nat \ {None} /\ First \in Repos /\ Installed \subseteq Repos /\ Stored \subseteq Repos
  /\ Cached \in [Repos -> Seq(1 .. FirstAdded - 1)]
  /\ \A q, r \in Repos : \A i \in DOMAIN Cached[q], k \in DOMAIN Cached[r] :
       Cached[q][i] = Cached[r][k] => q = r /\ i = k
  /\ PageSize \in Nat \ {0} /\ {MaxRetries, MaxTyped} \subseteq Nat

VARIABLES
  panel,    \* the state of CachePanel
  lookup,   \* api.tokens.resolve: the owner last asked for and not answered, else None
  loaded,   \* owners whose installations the panel knows
  listing,  \* the list request the panel waits for
  clears,   \* clear requests on their way
  saving,   \* api.tokens.upsert: the token on its way, else None
  tokens,   \* the API: the token stored for an owner
  jobs,     \* the API: the clear jobs, in the order queued
  caches,   \* GitHub: the caches of each repository, most recent first
  used      \* how often each bounded thing happened

pvars == <<panel, lookup, loaded, listing, clears, saving>>
svars == <<tokens, jobs, caches>>
vars == <<pvars, svars, used>>

Bounds == [clears |-> MaxClears, switches |-> MaxSwitches, typed |-> MaxTyped, tabs |-> MaxTabs,
           lists |-> MaxLists, faults |-> MaxFaults, pollFails |-> MaxPollFails, adds |-> MaxAdds,
           touches |-> MaxTouches, evictions |-> MaxEvictions]
MayUse(what) == used[what] < Bounds[what]
Use(what) == used' = [used EXCEPT ![what] = @ + 1]

All == 0              \* clearTarget null: every cache of the repository
NoTable == {None}     \* listMutation.data undefined
Idle == [step |-> "idle", got |-> {}]
Asked == [step |-> "asked", got |-> {}]

\* The panel right after the owner or the repository changed.
Fresh(r, active) ==
  [repo |-> r, active |-> active, token |-> None, saved |-> FALSE, resolved |-> active, answered |-> FALSE,
   confirm |-> FALSE, target |-> All, table |-> NoTable, jobId |-> None, seen |-> "none", pollError |-> FALSE]

Job(r, target) ==
  [repo |-> r, target |-> target, status |-> "queued", retries |-> 0, page |-> 1, ids |-> <<>>,
   before |-> {}, removed |-> {}, deleted |-> 0]

Init ==
  /\ panel = Fresh(First, TRUE)
  /\ lookup = First
  /\ loaded = {} /\ listing = Idle /\ clears = {} /\ saving = None
  /\ tokens = [r \in Repos |-> IF r \in Stored THEN Legacy ELSE None]
  /\ jobs = <<>>
  /\ caches = Cached
  /\ used = [what \in DOMAIN Bounds |-> 0]

-----------------------------------------------------------------------------
(* What the panel shows *)

Hidden == panel.repo \in loaded \cap Installed          \* hasInstallationForOwner
ClearPending == \E c \in clears : c.attached            \* clearMutation.isPending
JobActive == panel.jobId # None /\ panel.seen \notin {"done", "failed"} /\ ~panel.pollError
Loading == listing # Idle \/ ClearPending \/ JobActive

-----------------------------------------------------------------------------
(* The token *)

\* api.tokens.resolve answers; the answer counts only for the owner shown, and not once
\* an installation is known for it.
Resolved ==
  /\ lookup # None
  /\ LET applies == lookup = panel.repo /\ ~Hidden /\ tokens[lookup] # None IN
     panel' = [panel EXCEPT !.answered = @ \/ (lookup = panel.repo /\ panel.resolved),
                 !.token = IF applies THEN tokens[lookup] ELSE @,
                 !.saved = IF applies THEN TRUE ELSE IF tokens[lookup] = None THEN FALSE ELSE @]
  /\ lookup' = None
  /\ UNCHANGED <<loaded, listing, clears, saving, svars, used>>

InstallationsLoad ==
  /\ panel.repo \notin loaded
  /\ loaded' = loaded \cup {panel.repo}
  /\ UNCHANGED <<panel, lookup, listing, clears, saving, svars, used>>

Type ==
  /\ panel.active /\ ~Hidden /\ ~panel.confirm /\ MayUse("typed") /\ Use("typed")
  /\ panel' = [panel EXCEPT !.token = used.typed + 2, !.saved = FALSE]
  /\ UNCHANGED <<lookup, loaded, listing, clears, saving, svars>>

Save ==
  /\ panel.active /\ ~panel.saved /\ panel.token # None /\ saving = None /\ ~panel.confirm
  /\ saving' = panel.token
  /\ tokens' = [tokens EXCEPT ![panel.repo] = panel.token]
  /\ UNCHANGED <<panel, lookup, loaded, listing, clears, jobs, caches, used>>

\* onSuccess of saveTokenMutation: whatever the panel shows by now is called saved.
Saved ==
  /\ saving # None
  /\ saving' = None
  /\ panel' = [panel EXCEPT !.saved = TRUE]
  /\ UNCHANGED <<lookup, loaded, listing, clears, svars, used>>

-----------------------------------------------------------------------------
(* The route and the tabs *)

\* The route names another repository: the table, the dialog and the job are reset, and a
\* clear still on its way is detached, not cancelled.  The panel of a tab is looked up for
\* when the tab opens, the one of the cache route at once.
Switch(r, active) ==
  /\ r # panel.repo /\ MayUse("switches") /\ Use("switches")
  /\ panel' = Fresh(r, active)
  /\ lookup' = IF active THEN r ELSE lookup
  /\ listing' = Idle
  /\ clears' = {[c EXCEPT !.attached = FALSE] : c \in clears}
  /\ UNCHANGED <<loaded, saving, svars>>

\* A deliberate mistake (RoutesStayApart): the token is looked up at every opening.
Tab_Again ==
  /\ ~panel.confirm /\ MayUse("tabs") /\ Use("tabs")
  /\ LET ask == ~panel.active IN
     /\ panel' = [panel EXCEPT !.active = ~@, !.resolved = @ \/ ask]
     /\ lookup' = IF ask THEN panel.repo ELSE lookup
  /\ UNCHANGED <<loaded, listing, clears, saving, svars>>

\* The cache tab opens or closes; only its first opening for an owner looks the token up.
Tab ==
  /\ ~panel.confirm /\ MayUse("tabs") /\ Use("tabs")
  /\ LET ask == ~panel.active /\ ~panel.resolved IN
     /\ panel' = [panel EXCEPT !.active = ~@, !.resolved = @ \/ ask]
     /\ lookup' = IF ask THEN panel.repo ELSE lookup
  /\ UNCHANGED <<loaded, listing, clears, saving, svars>>

-----------------------------------------------------------------------------
(* Lists and clears *)

LoadCaches ==
  /\ panel.active /\ ~Loading /\ ~panel.confirm /\ MayUse("lists") /\ Use("lists")
  /\ listing' = Asked
  /\ panel' = [panel EXCEPT !.table = NoTable]
  /\ UNCHANGED <<lookup, loaded, clears, saving, svars>>

ListServed ==
  /\ listing.step = "asked"
  /\ listing' = [step |-> "served", got |-> Range(caches[panel.repo])]
  /\ UNCHANGED <<panel, lookup, loaded, clears, saving, svars, used>>

Listed ==
  /\ listing.step = "served"
  /\ panel' = [panel EXCEPT !.table = listing.got]
  /\ listing' = Idle
  /\ UNCHANGED <<lookup, loaded, clears, saving, svars, used>>

ListFails ==
  /\ listing.step = "asked" /\ MayUse("faults") /\ Use("faults")
  /\ listing' = Idle
  /\ UNCHANGED <<panel, lookup, loaded, clears, saving, svars>>

\* "Clear" and "Clear key" only open the dialog.
OpenDialog ==
  /\ panel.active /\ ~Loading /\ ~panel.confirm
  /\ \E target \in {All} \cup (panel.table \ NoTable) :
       panel' = [panel EXCEPT !.confirm = TRUE, !.target = target]
  /\ UNCHANGED <<lookup, loaded, listing, clears, saving, svars, used>>

CancelDialog ==
  /\ panel.confirm /\ ~ClearPending
  /\ panel' = [panel EXCEPT !.confirm = FALSE]
  /\ UNCHANGED <<lookup, loaded, listing, clears, saving, svars, used>>

Request(dry) == [repo |-> panel.repo, target |-> panel.target, dry |-> dry, job |-> None, attached |-> TRUE]

Confirm ==
  /\ panel.confirm /\ ~ClearPending /\ MayUse("clears") /\ Use("clears")
  /\ clears' = clears \cup {Request(FALSE)}
  /\ UNCHANGED <<panel, lookup, loaded, listing, saving, svars>>

DryRun ==
  /\ panel.active /\ ~Loading /\ ~panel.confirm /\ MayUse("lists") /\ Use("lists")
  /\ panel' = [panel EXCEPT !.target = All, !.table = NoTable]
  /\ clears' = clears \cup {[Request(TRUE) EXCEPT !.target = All]}
  /\ listing' = Asked
  /\ UNCHANGED <<lookup, loaded, saving, svars>>

\* personal_clear_caches: the job and its audit row commit together.
ClearServed(c) ==
  /\ ~c.dry /\ c.job = None
  /\ jobs' = Append(jobs, Job(c.repo, c.target))
  /\ clears' = (clears \ {c}) \cup {[c EXCEPT !.job = Len(jobs) + 1]}
  /\ UNCHANGED <<panel, lookup, loaded, listing, saving, tokens, caches, used>>

\* onSuccess of clearMutation, which runs for a detached request as well.
ClearAnswered(c) ==
  /\ c.dry \/ c.job # None
  /\ clears' = clears \ {c}
  /\ panel' = [panel EXCEPT !.confirm = FALSE,
                 !.jobId = IF c.dry THEN @ ELSE c.job,
                 !.seen = IF c.dry THEN @ ELSE "none",
                 !.pollError = IF c.dry THEN @ ELSE FALSE]
  /\ UNCHANGED <<lookup, loaded, listing, saving, svars, used>>

ClearFails(c) ==
  /\ c.job = None /\ MayUse("faults") /\ Use("faults")
  /\ clears' = clears \ {c}
  /\ panel' = [panel EXCEPT !.confirm = FALSE]
  /\ UNCHANGED <<lookup, loaded, listing, saving, svars>>

\* jobs.status, which does not tell the two halves of the work apart.
Status(job) == IF job.status \in {"listing", "deleting"} THEN "processing" ELSE job.status

\* A deliberate mistake (DoneIsListedAgain): a done job refreshes nothing.
Poll_NoList ==
  /\ panel.jobId # None /\ panel.seen \notin {"done", "failed"}
  /\ LET now == Status(jobs[panel.jobId])
         again == FALSE
     IN  /\ <<now, FALSE>> # <<panel.seen, panel.pollError>>
         /\ panel' = [panel EXCEPT !.seen = now, !.pollError = FALSE, !.table = IF again THEN NoTable ELSE @]
         /\ listing' = IF again THEN Asked ELSE listing
  /\ UNCHANGED <<lookup, loaded, clears, saving, svars, used>>

\* A deliberate mistake (PanelSeesEnd): the polls stop once the job runs.
Poll_UntilTaken ==
  /\ panel.jobId # None /\ panel.seen \notin {"processing", "done", "failed"}
  /\ LET now == Status(jobs[panel.jobId])
         again == now = "done" /\ panel.table # NoTable
     IN  /\ <<now, FALSE>> # <<panel.seen, panel.pollError>>
         /\ panel' = [panel EXCEPT !.seen = now, !.pollError = FALSE, !.table = IF again THEN NoTable ELSE @]
         /\ listing' = IF again THEN Asked ELSE listing
  /\ UNCHANGED <<lookup, loaded, clears, saving, svars, used>>

\* A poll of the job, or the Retry button after one failed.  When the job turns out done the
\* table is listed again, if it was listed at all.
Poll ==
  /\ panel.jobId # None /\ panel.seen \notin {"done", "failed"}
  /\ LET now == Status(jobs[panel.jobId])
         again == now = "done" /\ panel.table # NoTable
     IN  /\ <<now, FALSE>> # <<panel.seen, panel.pollError>>
         /\ panel' = [panel EXCEPT !.seen = now, !.pollError = FALSE, !.table = IF again THEN NoTable ELSE @]
         /\ listing' = IF again THEN Asked ELSE listing
  /\ UNCHANGED <<lookup, loaded, clears, saving, svars, used>>

PollFails ==
  /\ panel.jobId # None /\ panel.seen \notin {"done", "failed"} /\ ~panel.pollError
  /\ MayUse("pollFails") /\ Use("pollFails")
  /\ panel' = [panel EXCEPT !.pollError = TRUE]
  /\ UNCHANGED <<lookup, loaded, listing, clears, saving, svars>>

-----------------------------------------------------------------------------
(* The worker *)

Set(j, new) == jobs' = [jobs EXCEPT ![j] = new]
Remaining(r) == Range(caches[r])

\* A list without an entry.
Without(list, id) ==
  IF \E i \in DOMAIN list : list[i] = id THEN RemoveAt(list, CHOOSE i \in DOMAIN list : list[i] = id) ELSE list

\* _requeue_for_retry
Requeued(job) ==
  [job EXCEPT !.retries = @ + 1, !.status = IF job.retries + 1 > MaxRetries THEN "failed" ELSE "queued"]

\* A deliberate mistake (ClearedAll): a retry goes on from the page the last attempt reached.
Take_KeepsPage(j) ==
  /\ jobs[j].status = "queued"
  /\ Set(j, [jobs[j] EXCEPT !.status = IF jobs[j].target = All THEN "listing" ELSE "deleting",
               !.ids = IF jobs[j].target = All THEN <<>> ELSE <<jobs[j].target>>, !.deleted = 0,
               !.before = Remaining(jobs[j].repo)])
  /\ UNCHANGED <<pvars, tokens, caches, used>>

Take(j) ==
  /\ jobs[j].status = "queued"
  /\ Set(j, [jobs[j] EXCEPT !.status = IF jobs[j].target = All THEN "listing" ELSE "deleting",
               !.page = 1, !.ids = IF jobs[j].target = All THEN <<>> ELSE <<jobs[j].target>>, !.deleted = 0,
               !.before = Remaining(jobs[j].repo)])
  /\ UNCHANGED <<pvars, tokens, caches, used>>

ReadPage(j) ==
  /\ jobs[j].status = "listing"
  /\ LET list == caches[jobs[j].repo]
         from == (jobs[j].page - 1) * PageSize + 1
         to == IF from + PageSize - 1 < Len(list) THEN from + PageSize - 1 ELSE Len(list)
         batch == SubSeq(list, from, to)
     IN  Set(j, [jobs[j] EXCEPT !.ids = @ \o batch, !.page = @ + 1,
                   !.status = IF Len(batch) < PageSize THEN "deleting" ELSE @])
  /\ UNCHANGED <<pvars, tokens, caches, used>>

\* One DELETE.  An id that is gone is skipped, a key that is gone is a 404 like any other.
Delete(j) ==
  /\ jobs[j].status = "deleting" /\ jobs[j].ids # <<>>
  /\ LET job == jobs[j]
         id == Head(job.ids)
         there == id \in Remaining(job.repo)
         gone == [job EXCEPT !.ids = Tail(@), !.removed = IF there THEN @ \cup {id} ELSE @]
     IN  /\ Set(j, IF job.target = All THEN [gone EXCEPT !.deleted = IF there THEN @ + 1 ELSE @]
                   ELSE [gone EXCEPT !.status = IF there THEN "deleting" ELSE "failed"])
         /\ caches' = [caches EXCEPT ![job.repo] = Without(@, id)]
  /\ UNCHANGED <<pvars, tokens, used>>

\* A request fails: GitHub refuses it for good, or it is retried - a transient error, or a
\* DELETE that took effect and whose answer is lost.
Fault(j) ==
  /\ jobs[j].status \in {"listing", "deleting"} /\ MayUse("faults") /\ Use("faults")
  /\ \E lost \in IF jobs[j].status = "deleting" /\ jobs[j].ids # <<>> THEN BOOLEAN ELSE {FALSE} :
       LET job == jobs[j]
           id == Head(job.ids)
       IN  /\ \/ ~lost /\ Set(j, [job EXCEPT !.status = "failed"])
              \/ Set(j, Requeued(IF lost /\ id \in Remaining(job.repo)
                                 THEN [job EXCEPT !.removed = @ \cup {id}] ELSE job))
           /\ caches' = IF lost THEN [caches EXCEPT ![job.repo] = Without(@, id)] ELSE caches
  /\ UNCHANGED <<pvars, tokens>>

Done(j) ==
  /\ jobs[j].status = "deleting" /\ jobs[j].ids = <<>>
  /\ Set(j, [jobs[j] EXCEPT !.status = "done"])
  /\ UNCHANGED <<pvars, tokens, caches, used>>

-----------------------------------------------------------------------------
(* CI *)

Add(r) ==
  /\ MayUse("adds") /\ Use("adds")
  /\ caches' = [caches EXCEPT ![r] = <<FirstAdded + used.adds>> \o @]
  /\ UNCHANGED <<pvars, tokens, jobs>>

\* A run uses an entry: it becomes the most recent.
Touch(r) ==
  /\ MayUse("touches") /\ Use("touches")
  /\ \E id \in Remaining(r) : caches' = [caches EXCEPT ![r] = <<id>> \o Without(@, id)]
  /\ UNCHANGED <<pvars, tokens, jobs>>

Evict(r) ==
  /\ MayUse("evictions") /\ Use("evictions")
  /\ \E id \in Remaining(r) : caches' = [caches EXCEPT ![r] = Without(@, id)]
  /\ UNCHANGED <<pvars, tokens, jobs>>

-----------------------------------------------------------------------------
User ==
  \/ Type \/ Save \/ Tab \/ LoadCaches \/ OpenDialog \/ CancelDialog \/ Confirm \/ DryRun
  \/ \E r \in Repos : \E active \in BOOLEAN : Switch(r, active)

Answers ==
  \/ Resolved \/ InstallationsLoad \/ Saved \/ ListServed \/ Listed \/ ListFails \/ Poll \/ PollFails
  \/ \E c \in clears : ClearServed(c) \/ ClearAnswered(c) \/ ClearFails(c)

Work(j) == Take(j) \/ ReadPage(j) \/ Delete(j) \/ Done(j)
Worker == \E j \in DOMAIN jobs : Work(j) \/ Fault(j)
CI == \E r \in Repos : Add(r) \/ Touch(r) \/ Evict(r)

Next == User \/ Answers \/ Worker \/ CI

Spec == Init /\ [][Next]_vars

\* Requests are answered, the panel polls every two seconds and the worker works.
FairSpec ==
  /\ Spec
  /\ WF_vars(ListServed) /\ WF_vars(Listed) /\ WF_vars(Poll /\ ~panel.pollError)
  /\ \A j \in 1..MaxClears : WF_vars(j \in DOMAIN jobs /\ Work(j))

-----------------------------------------------------------------------------
(* Properties *)

TypeOK ==
  /\ panel \in [repo : Repos, active : BOOLEAN, token : 0..(MaxTyped + 1), saved : BOOLEAN,
                resolved : BOOLEAN, answered : BOOLEAN, confirm : BOOLEAN,
                target : {All} \cup Nat, table : SUBSET Nat, jobId : 0..Len(jobs),
                seen : {"none", "queued", "processing", "done", "failed"}, pollError : BOOLEAN]
  /\ lookup \in Repos \cup {None} /\ loaded \subseteq Repos
  /\ listing.step \in {"idle", "asked", "served"} /\ listing.got \subseteq Nat
  /\ saving \in 0..(MaxTyped + 1) /\ tokens \in [Repos -> 0..(MaxTyped + 1)]
  /\ \A c \in clears : c.repo \in Repos /\ c.job \in 0..Len(jobs)
  /\ \A j \in DOMAIN jobs : jobs[j].status \in {"queued", "listing", "deleting", "done", "failed"}
                            /\ jobs[j].retries \in 0..(MaxRetries + 1) /\ jobs[j].deleted \in Nat

\* A done clear of everything left none of the entries that were there when its last attempt
\* began (the dialog: "permanently deletes every Actions cache entry for this repo").
ClearedAll ==
  \A j \in DOMAIN jobs : jobs[j].status = "done" /\ jobs[j].target = All =>
    jobs[j].before \cap Remaining(jobs[j].repo) = {}

\* The clear of one key never deletes another entry, in no attempt of it.
DeletesItsTarget ==
  \A j \in DOMAIN jobs : jobs[j].target # All => jobs[j].removed \subseteq {jobs[j].target}

\* The counts the jobs report never add up to more than what was deleted, although they meet
\* each other's deletions and their own earlier ones.
CountsWhatItDeleted ==
  \A j \in DOMAIN jobs : jobs[j].deleted <= Cardinality(jobs[j].removed)

\* The count a done job reports is what it deleted (toast: "n entries deleted").
ReportsWhatItDeleted ==
  \A j \in DOMAIN jobs : jobs[j].status = "done" /\ jobs[j].target = All =>
    jobs[j].deleted = Cardinality(jobs[j].removed)

\* A failed clear of one key did not delete it (toast: "Cache clear failed").
FailedDidNotClear ==
  \A j \in DOMAIN jobs : jobs[j].status = "failed" /\ jobs[j].target # All => jobs[j].removed = {}

Ended(j) == jobs[j].status \in {"done", "failed"}

\* A queued or running clear blocks another clear of the repository from this panel.
OneClear ==
  \A i, j \in DOMAIN jobs : jobs[i].repo = jobs[j].repo /\ ~Ended(i) /\ ~Ended(j) => i = j

\* The job shown is a clear of the repository shown.
JobIsShownRepo == panel.jobId # None => jobs[panel.jobId].repo = panel.repo

\* Once the panel reports a clear done and no list is on its way, its table shows nothing
\* that clear deleted: neither an old list nor a late answer brings it back.
DoneIsListedAgain ==
  panel.jobId # None /\ panel.seen = "done" /\ listing = Idle =>
    panel.table \cap jobs[panel.jobId].removed = {}

\* The table never shows the caches of another repository, whatever was on its way when the
\* route changed.
TableIsOfShownRepo == \A r \in DOMAIN caches \ {panel.repo} : panel.table \cap Remaining(r) = {}

\* No saved token is in the field once the field is hidden.
HiddenSendsNoToken == Hidden => ~(panel.saved /\ panel.token # None)

\* A token marked as saved is the one stored for the owner shown.
SavedIsStored == panel.saved /\ panel.token # None => panel.token = tokens[panel.repo]

\* Once the lookup for the owner was answered, no later answer replaces what the user typed.
KeepsTyped == panel.answered /\ panel.token > Legacy /\ panel'.repo = panel.repo => panel'.token >= panel.token

\* The route changed nothing under the panel, and no poll failed: it knows of its clears.
Watched == used.switches = 0 /\ used.pollFails = 0

\* Nor did CI reorder or drop an entry, which moves others to a page already read.
Undisturbed == Watched /\ used.touches = 0 /\ used.evictions = 0

\* A done clear left nothing of what its last attempt found; no attempt deletes another entry,
\* or counts one that it did not delete.
AllIsCleared == (Undisturbed => ClearedAll) /\ DeletesItsTarget /\ CountsWhatItDeleted

\* Once a clear is reported done, the table shows nothing it deleted; and none is started
\* while one runs.
DoneIsShown == Watched => DoneIsListedAgain /\ OneClear

\* A route change never leaves the caches of another repository shown, and a late token lookup
\* never replaces what the user typed.
RoutesStayApart == []TableIsOfShownRepo /\ [][KeepsTyped]_vars

\* A clear that was queued ends, and the panel that waits for it sees it end.
ClearEnds == \A j \in 1..MaxClears : (j \in DOMAIN jobs) ~> (j \in DOMAIN jobs /\ jobs[j].status \in {"done", "failed"})
PanelSeesEnd ==
  [](panel.jobId # None => <>(panel.seen \in {"done", "failed"} \/ panel.jobId = None \/ panel.pollError))
=============================================================================
