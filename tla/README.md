# Clevis in TLA+

Clevis is a GitHub analytics and security dashboard: a FastAPI service
(`apps/api`), a worker process that may be replicated (`apps/worker`), a Next.js
UI (`apps/ui`), a library of checks (`packages/checks`) and a small GitHub
Action. Postgres is the only store of record; Redis carries one stream. The
repository also bundles a live design tool (`.agents/skills/impeccable`): an
overlay in the page, a helper server and scripts that edit source files, used by
an agent and a person at the same time.

What can go wrong in ways tests hardly reach is where several actors share
state: jobs that workers claim, lose and reclaim; webhooks that pass through two
stores that do not commit together; sweeps of several replicas; tabs of one
browser; a page, a server and an agent that pass the same session around. This
directory models that part, checks it with TLC, and proves what it can with
TLAPS.

Contents: 1 inventory, 2 plan, 3 modules and code, 4 runs, 5 proofs, 6 where
the code and its comments disagree, 7 what is not modelled.

## 1. Inventory

| Component | State | Operations | Interacts with | Hard behaviour | Correct when |
|---|---|---|---|---|---|
| Job queue (`worker.py`, `job_repo.py`) | rows of `jobs`, per-job advisory locks, what each poll loop holds | enqueue, reclaim, claim, lock, heartbeat, done/failed/requeue, release, purge | API enqueues, handlers call GitHub | stall between two commits, lost session, crash, late straggler | one effective outcome per attempt, one retry budget, nothing stuck |
| Job handlers (`backfill.py`, `membership_reconcile.py`, cache clearing) | `repo_events`, sync cursors, `org_members` | three job types | queue, tenant lock, GitHub | partial failure, repeated execution | side effects repeatable |
| Webhook pipeline (`webhooks.py`, `event_consumer.py`, `webhook_requeue_sweep.py`) | `webhook_deliveries`, the stream and its group, per-process deferred queues | receive, XADD, requeue, read, claim idle, dispatch, defer, retry, acknowledge, drop | Redis, reconcile jobs through the tenant lock | commit and XACK apart, lost replies, trimmed entries, reordering | nothing lost, nothing counted twice, order within a tenant |
| Org membership sync (`org_membership_store.py`, `membership_reconcile.py`) | `org_members`, `memberships`, the cursor | upsert, remove, revoke, roster | pipeline, reconcile job | a snapshot against events | the newest fact wins |
| Sync sweeps (`gap_heal_sweep.py`, `membership_reconcile_sweep.py`, `sweep_lock.py`) | cursors, `jobs` | check cursor, take slot, check for a job, enqueue | job queue, installations | several API replicas | at most one active job per kind and tenant |
| Scheduled scans (`scheduled_scan_sweep.py`, `scan_service.py`) and digests | markers in the audit log, scan results | scan, record, alert | sweep slot, people's scans | scan longer than its marker's window | one scan per period, true alerts |
| Retention (`retention_sweep.py`) | deletes from `jobs`, `webhook_deliveries`, `repo_events` | purge terminal rows | all of the above | purge of a row in use | only terminal rows go |
| Authentication (`core/auth.py`, `auth-context.tsx`, `client.ts`) | `token_version`, tokens, cookie, localStorage, query cache | login, logout, revoke, restore, 401 | tabs, OAuth | late answers, two tabs | shown user, token and cache agree |
| Actions cache panel (`cache-panel.tsx`, `cache_service.py`, clear handler) | panel, stored tokens, jobs, GitHub's list | list, clear, poll, switch repository | queue, GitHub | pages that move, late answers | a clear that is done left nothing it found, and is shown |
| Live variant tool (`live-server.mjs`, `session-store.mjs`, `live-poll.mjs`) | queue, leases, parked polls, journal | event, poll, reply, checkpoint, restart | page, agent | lease expiry, restart, duplicates | what is pending reaches the agent |
| Live copy edits (`manual-edit-routes.mjs`, `manual-apply.mjs`, ...) | buffer, transaction file, commits, events | save, commit, repair, decide, discard | agent, files | timeout against late reply, restart | source is what the user was told |
| Live browser overlay (`live-browser.js`) | session, DOM wrapper, timers, stream, localStorage | go, cycle, accept, discard, steer, reload, apply | server, hot updates | timers against events, reloads | no undecided session is lost |
| Live source edits (`live-wrap.mjs`, `live-insert.mjs`, `live-accept.mjs`) | one source file, the edit buffer | wrap, insert, write, accept, discard, carbonize | agent, copy edits | several sessions in one file | the file comes back |
| Design hook (`hook.mjs`, `hook-before-edit.mjs`, `hook-lib.mjs`, `hook-admin.mjs`) | `hook.cache.json`, the hook section of `config.json` | scan after an edit, refuse a write, commands | agents of several sessions, their edits | a file read, and written as a whole after an await | no finding is held back, no write refused for ever |
| Invitations and memberships (`invitations.py`, `org_membership_repo.py`, `org_provisioning.py`) | `invitations`, `memberships` | create, reissue, revoke, preview, accept, sync at a GitHub login | GitHub's roles, the roster's revocations | two commits of an acceptance, a login against an acceptance | who accepted is in, and an admin is one on GitHub |
| Installations and tokens | `github_installations`, token cache | sync, delete, mint | webhooks, every GitHub call | cache against invalidation | no token of a removed installation |
| Configuration cache (`app_config.py`, `routers/config.py`) and rate limit | rows of `app_config`, a copy of each in every process; buckets | get, set, invalidate; allow | all sweeps and routers | a read that overlaps a write, a database that is away | a setting that is read was one less than a lifetime ago |
| Waivers, scoring, nudges | `check_waivers`, pure functions | create, expire, score | scans | boundary dates, caps | score matches its definition |
| Analytics, reports, write-backs, notifications, other pages, schema, detector | - | reads, formatting, rules, synchronous calls | - | - | not modelled, see section 7 |

`PROJECT.json` lists every component with its files and its status, and under
`hazards` what is hard to test, each at its line.

## 2. Plan

1. `JobLifecycle`, `JobQueue` and their proofs. **Done.**
2. `WebhookPipeline` and its proofs. **Done.**
3. `OrgMembershipSync`, webhooks against rosters, and its proofs. **Done.**
4. `SyncSweep`, `ScheduledScan` and their proofs. **Done.**
5. `BrowserSession` and its proofs; `CacheClear`, which joins a panel, the API, a
   worker job and GitHub's list, and its proofs. **Done.**
6. The live tool: `LiveServer` and `ApplyDock` with their proofs; `ManualEdits` on the
   server's side, `LiveBrowser` in the page and `SourceWrap` for files, checked only.
   The design hook: `DesignHook` and its proofs. **Done.**
7. `Invitations`, `ConfigCache` and their proofs. **Done.**
8. Left: proofs about `SourceWrap` (a discard is the inverse of a wrap), `ManualEdits`
   and `LiveBrowser`; the installation-token cache and the backfill handler;
   security alerts and repo collaborators in the pipeline.

Modules that are proved about hold no RECURSIVE operator; parameters are
CONSTANTS with a named assumption; there is one action per commit, Redis
command, request, timer or message, whichever is the unit the others can come
between.

## 3. Modules and code

| Module | Models |
|---|---|
| `JobLifecycle` | what the queue promises: one row's life without workers, locks or clocks |
| `JobQueue` | the queue: table, locks, workers, faults, time |
| `JobQueueProofs` | its invariants; it implements `JobLifecycle` |
| `WebhookPipeline`, `WebhookPipelineProofs` | receiver, stream, consumers, sweeps; its invariants |
| `OrgMembershipSync` | members of one org: webhooks and rosters |
| `Invitations` | how one person gets into an org: invitations and GitHub logins |
| `MembershipProofs` | the invariants of these two, the writers of `memberships` |
| `SyncSweep` | the two sync sweeps, jobs, installations; one job a tenant |
| `ScheduledScan` | scheduled and manual scans, markers, drop alerts |
| `ConfigCache` | one setting: its row, the processes' copies, readers and writers |
| `SweepsProofs` | the invariants of these three: sweeps, and the settings they read |
| `BrowserSession`, `BrowserSessionProofs` | who is signed in, for the tabs of one browser |
| `CacheClear`, `CacheClearProofs` | the cache panel, the clear job and GitHub's list; its invariants |
| `LiveServer` | the live tool's server: queue, leases, journal |
| `ManualEdits` | copy edits on the server: buffer, commits, transactions |
| `ApplyDock`, `ApplyDockProofs` | copy edits in the page: the dock of each tab; its invariants |
| `LiveBrowser` | a session of variants in the page |
| `SourceWrap` | what wrap, insert, accept and discard do to a file |
| `DesignHook` | the hooks before and after an agent's edits, their cache and config |
| `SkillProofs` | the invariants of `LiveServer` and `DesignHook` |
| `MC...` | the instances TLC checks |

How they relate: `JobQueue` is refined against `JobLifecycle`. `CacheClear`,
`OrgMembershipSync` and `SyncSweep` have jobs in them, as the status their
attempts go through; claiming and fencing are `JobQueue`'s and not repeated.
`WebhookPipeline` has the reconcile job as a holder of the tenant's lock;
`OrgMembershipSync` has what that job writes, and the pipeline as a queue that
may or may not keep order. `ApplyDock` has `ManualEdits` as the answers and
events it sends, `LiveBrowser` has `LiveServer` as a queue and a stream.
`SyncSweep` and `ScheduledScan` are two users of one slot and one loop; a run
checks them side by side with `ConfigCache`, where they read their settings, and
another `OrgMembershipSync` and `Invitations`, the two that write `memberships`.

### JobQueue

One action per commit of `run` in `worker.py`: `ReclaimStale`, `SelectJob` and
`CommitClaim` (the UPDATE and its commit, between which the row is locked and
SKIP LOCKED passes over it), `AcquireJobLock`, `RequeueRefused`, the outcomes
`MarkDone`, `MarkFailed`, `RequeueForRetry` through `FencedUpdate`,
`ReleaseJobLock`. `Heartbeat` is a tick of the background thread on its own
connection. A handler is its outcome: any of the three may come.

- `attempt[w]` is the `retry_count` the claim returned, the fence's value.
- `age` and `heartbeat` stand for `updated_at` and `heartbeat_at` against the
  backoff and the 30 minutes; `RowAges` and `HeartbeatLapses` move them at any
  time, so a worker may stall arbitrarily long between any two of its steps.
- `online` is the poll session. When it is lost the server drops the session's
  locks at once or leaves them with `DeadSession` for a while; the process may
  go on for a while and its next statement raises (`NoticeLoss`).
- `claims` counts committed claims: history only.
- `_mark_*` in `job_repo.py` have no callers and are left out.

### WebhookPipeline

`Receive` commits the row, `Enqueue` is its XADD; `EnqueueRaises` and
`MarkQueueFailed` are the except branch of `_handle_ingested_event`. The requeue
sweep is one transaction with row locks (`Unlocked`) and one XADD per row, oldest
first (`First`); `SweepCommit` also covers the XADD that raised. A consumer's
cycle is `run`: `_retry_deferred` (`RetryHead`, `SkipTenant`, `RetryFails`),
`_sweep_pending` (`DropExhausted`, `ClaimIdle`), `xreadgroup` (`ReadNew`), and
for each entry `_dispatch` (`Dispatch`, `Defer`, `DispatchFails`). `Process` is
`_process_entry` up to its commit, `Acknowledge` its XACK.

- Entries are positions in `stream`; `gone` marks what was trimmed or lost,
  `cursor` is the group's last delivered id, `pel` the pending list with
  `times_delivered` and whether an entry has been idle for 60 s.
- A delivery is its number (the order of `received_at`), its kind, tenant and
  GUID. One login stands for a tenant's members: `member` is the `added_at` of
  its row, `access` the GitHub-sourced membership.
- "malformed" is a payload `json.loads` rejects or that lacks required fields.
  "unnormalized" are `membership` and `team`.
- `applied` and `dropped` are history.
- A request of the receiver is over before its row counts as stuck: its Redis
  calls time out after seconds, a row is stuck after 30 minutes.

### OrgMembershipSync

Changes on GitHub (`Join`, `Leave`, `SetRole`) put webhooks in `flight`;
`Receive` stamps them (`received_at`), `ApplyAdded` and `ApplyRemoved` are
`upsert_org_member`, `remove_org_member` and the revocation, under the tenant's
lock. A reconcile job is `Lock`, `FetchAdmins`, `FetchPage` page by page,
`Write`; `Abort` is the return on an incomplete fetch, `Raise` an exception after
some rows were written, which `process_job` commits with the job's outcome.

- Pages are numbered, as the client asks for them: a member who leaves shifts
  who comes after. That GitHub numbers them over the current list is external.
- The org's owner is in every roster, so it is never empty; external as well.
- Whether webhooks arrive in order, and whether they may be lost, are constants;
  `amiss` remembers of whom one was lost or overtook another, and that a list moved
  up under a roster, since what holds differs. `late` and `stayed` of a job are
  history: who changed under a roster, and who was in the org throughout. Two-factor
  flags and collaborators, which have the same guards, are left out.

### Invitations

One step is what a request does up to its next commit, or up to a read that
others may overtake: `Create` looks for a live invitation, `Insert` meets the
partial unique index; `AskRevoke` checks the status, `Revoke` writes it; `Accept`
and `Preview` read the row, `Expire` and `Refresh` are `_expire` and what is read
again, `Find` and `Persist` the membership (a savepoint when somebody else
inserted it first), `Mark` the status, in a commit of its own. `Reissue` locks
the row and is one step. A login is `ListGithub`, `LookUp` and `Grant` for an
admin, then `ListMemberships` and `Delete` or `Demote`.

- One address, one account, one org: rows of others are not touched by any of it.
- A link is its number; a request that holds an old one and has not read the row
  yet finds none, and is left out.
- `late` says that GitHub changed after a sync asked; `settled`, that one which
  was not late has ended since; `left`, that a sync removed the person.

### SyncSweep and ScheduledScan

`Tick` starts a pass of a replica (`sweep_loop.py`); `Step` is one of: read the
cursor, take the slot (`try_acquire`; it fails if another holds it), look for a
blocking job, resolve the token, enqueue. The slot is freed by whatever ends the
transaction. `Kind` chooses between the two sweeps, which differ in the cursor,
the blocking jobs and what a token error does. `Work` is an attempt at a job up
to its outcome, in two steps (fetched, stored), `Install` includes the job the
installation enqueues, `Uninstall` its purge.

A scheduled scan lists the due orgs, and for each takes the slot, looks again,
resolves the token, commits the marker (which frees the slot), scans and stores
with the baseline read in the same step. `ManualScan` and `ManualStore` are a
person's, without slot or marker.

- Time is in the states: a cursor is fresh or stale, a failure is in the table as
  long as it is young. A pass is short next to a window. A scan becomes due only
  while nobody scans the org.
- `Healthy` tenants always resolve a token while installed; others never do.

### ConfigCache

`Ask` is the look at the copy, `Read` and `ReadFails` the SELECT, `Store` the
assignment after it; `ServeKnown` is the second look, after the error is logged. `Put`
is a PUT up to its commit, `PutEnds` its `invalidate`, in its own process only. No
lock orders them. The row and the copies are of one key: keys share nothing. A PUT
that is refused or rolled back changes nothing and is no step.

- `until` remembers when a value stopped being the setting; `raced`, that a copy was
  out of date when it was stored; `known`, that a process has read the setting.
- `ConfigAssumption` says that threads have processes; `Ttl` is any positive number.

### BrowserSession

localStorage and the cookie are the browser's, React state and the query cache a
tab's. A request is a message with three moments: sent, served, handled; or it
fails. `Person` is what somebody does in a tab: load, sign in by password or
GitHub, sign out, query, save. `Handle` has the session epoch of
`auth-context.tsx`, the 401 of `client.ts`, the redirects of `auth-guard.tsx` and
the clearing of `query-auth-sync.tsx`. `Serve` is `get_current_user` with the
token's version, login and logout. Of a payload only its owner is kept.

### CacheClear

`User` clicks, types, switches; `Answers` are the answers to requests;
`Worker` is the handler of `clear_actions_cache`, page by page and then id by
id; `CI` adds, touches (moves to the front) and evicts entries of GitHub's list.
Each repository is of its own owner; the panel stays mounted across routes; an
entry is its own key.

### LiveServer, ManualEdits, ApplyDock, LiveBrowser, SourceWrap

The tool is bundled with the repository and run by its developers on it. It is
modelled because it holds state in four places that nothing keeps in step: the
page, the server's memory, files on disk and the agent.

`LiveServer`: a page's event is journaled, queued, leased by a poll and removed by
a reply; `LeaseTimerFires` and `Tick` are time; `Restart` rebuilds the queue from
the journal. An SSE message reaches a connected page at once or never.

`ManualEdits`: `Save` is `stageEntry`, `Commit` a run of Apply: chunks of
`ChunkOps`, one event at a time, `Take`, `Write` and `Reply` by the agent,
`Timeout` by the timer, verification, repairs up to `MaxAttempts`, then clear or
restore. What runs between two awaits of the server is one step. The transaction
file, the snapshot of an event and a commit's own memory are three states, as in
the code. A restart leaves an agent writing. A reply after its timeout (`Late`) puts
back the snapshot of its event, whatever has been written since.

`ApplyDock`: a tab is its flags, its buttons and the phase sessionStorage keeps.
Answers come in any order, events in order on a stream of their own; a commit is
a job that ends in one of the ways `ManualEdits` lets it end.

`LiveBrowser`: Go, capture and post; variants come by a hot update
(`MutationObserver`) or a request for the source; the timers "inject", "settle",
"clean" and "unwrap" are the `setTimeout`s; `Reload` rebuilds from localStorage,
`Connected` from the server's list.

- A request for the source is asked for (`Ask`, `Restoring`, `Become`), read by the
  server (`Serve`) and answered or lost (`Land`, `Lose`), with anything in between.
  `Ask` looks at state and session, 750 ms after the done; what the answer does
  (`Injected`) looks at neither, as the code after the await.
- Only the answer to a post comes before the user's next gesture: a failed one is
  undone at once.
- `CleanTimer` may load the page anew (`location.reload`), where the accepted
  element has no parent left.
- An event is a done with or without a file, a complete, a discard, an error or the
  end of a steer. The agent takes its work in order, and reports an error on a
  generate only before it has written every variant.

`SourceWrap`: a file is a sequence of lines, each a tag, a comment or a text, with
an indent. `Wrap`, `Insert`, `Accept`, `Discard` rewrite it as the scripts do, with
their markers, `Carbonize` is the agent's integration of CSS, `Stage` a copy edit.
The agent's `Write` is one step. An accept is three: `Accept` rewrites the file,
`ReadBuffer` and `WriteBuffer` drop its edits from the buffer, and the live server may
`Stage` and `Unstage` in between. That the script dies between them is left out: it
would leave edits staged whose text is gone. The search for file and element, Svelte
components and `live-inject.mjs` are left out.

### DesignHook

A hook is a process started for one tool call. After an edit: `ReadState`, one
`PassOver`, `Suppress` or `Scan` for each file (the awaits of the detector are
between them), `Cut` and `Fill` (`writeFileSync` truncates and then writes),
`Emit`. Before a write in Cursor: `Judge`, `Object`, `Cut`, `Fill`, `Verdict`.
`Command` and `Reset` are `hook-admin.mjs`.

- A file is the set of findings the detector has for it, a finding its rule and line.
- A file that is cut, or was written over by two at once, does not parse; both
  readers take it for an empty one (`Filled`).
- `told`, `noticed`, `tried` and `ignored` are history.
- What the harness does with a write whose hook it ended is external: either.
- Simpler than the code: `Signature` is a set of rules, where the code's key is their
  sorted list, a rule for each finding; `Reset` removes config and cache at once, where
  the code unlinks one after the other; a session's entry appears when something is
  remembered in it, where `ensureFile` makes an empty one.

## 4. Runs

A run checks several small instances at once: its MC module has a variable
`case`, set in the first state and never changed, and instantiates the component
once per case with bounds of its own. So a property can be asked where it is at
stake, and fairness where it is needed (`WF_vars(case = "ends" /\ ...)`). The
type invariant of every instance is checked together with a run's first
property (`TypesOK`). States are those TLC finds.

| Run | Cases | Properties and what they show |
|---|---|---|
| `queue` | 2 workers, 2 retries, 2 faults | `LiveHandlersExclusive`: a job's handler runs in one live worker; `ResultOfLastClaim`: a finished row is that of its newest attempt; `ImplementsLifecycle`; `EveryJobSettles` |
| `pipeline` (513k) | twin, order, return, broken | `CountMatchesEvents`: an event delivered twice is counted once; `AckAfterCommit`: what is acknowledged is settled; `NewestEventWins`; `NothingGoesBack`: what is settled stays, one consumer keeps the order of a tenant, and waiting for a tenant spends no attempt; `AllSettle` |
| `session` (434k) | one, github, two | `CacheBelongsToUser`: a tab alone serves nobody another's cache; `TabsShowTheChosen`: late answers undo no choice, and a tab alone sends the token of the user it shows; `OneSignInWorks`: the spinner ends, and with passwords nobody gets another's account |
| `live_server` (188k) | agent, forgets | `PendingIsInQueue`: what the journal has pending is in the queue, and exit waits for the last page; `AgentGetsEvents` |
| `edits` (320k) | timers, restart, agreed, late | `SourceIsAsAgreed`: a failed agent leaves nothing behind (agreed), and in a commit of one event neither does a late reply or a discard (late); `EditsLeaveWhenWritten`; `CommitsEnd`, whether or not the agent answers |
| `dock` (14k) | clicks, reload, ends | `CountIsStaged`: once all has arrived, a dock shows how many edits are staged; `ControlsFit`: edits can be applied, a question is asked in every tab, none hangs; `ApplyingEnds` |
| `browser` (1.5M) | hurried, reload, lossy, ends, static | `UndecidedStays`: open or saved, but for the timers of another's accept; `DecidedStays`: of late variants, events, timers and answers only an answer under way reopens an accept; `WaitsAreDue`: nobody waits for what was not asked or was refused, unless an answer under way says so, and what is there is offered; `WaitsEnd`, also without hot updates and with the done lost (static) |
| `cache` (634k) | clear, route, token, ends | `AllIsCleared`: a clear that is done left nothing it found, deleted only its own and counts what it deleted; `DoneIsShown`: what is reported done is listed again, one clear runs at a time; `RoutesStayApart`: neither tables nor typed tokens of two repositories mix; `ClearIsSeenToEnd` |
| `scripts` (496k) | html, jsx, edits; races, alone, gate | `FileComesBack`, and a decision takes its own markers only; `OthersEditsStay`: an accept drops its own of the edits it has read; `HooksTell`: hooks that overwrite each other's cache hold no finding back and let no refused write through before its time; `GateLetsGo`: it passes in the end |
| `org` (509k) | order, lost; invites, logins | `TableInStep`: the table ends as GitHub's, and who was removed is out; `RosterMends`; `InvitesLetIn`: who accepted is in, wherever the request was cut off, and who goes on trying is let in; `LoginsFollowGithub`: an admin is one on GitHub, and an invitation's membership is not taken by a login |
| `sweeps` (452k) | slots, turns, scans, drops, queue; here, there | `OneScan`: two replicas scan no org at once; `DropIsReal`: an alert compares with an earlier scan; `SettingsAreRecent`: what is read of a setting is not older than a copy may be, with one process (here) and two (there); `SweepsTakeTurns`: a tenant has one job at a time, each gets its turn, and one that failed rests |
| `purged` | one tenant, one replica | violation: what an uninstallation purged comes back (`PurgedStaysPurged`) |

Every property of a passing run has a mistake it must reject (`mutants` in
`PROJECT.json`): an operator beside the definition it replaces, marked with the
property, that is a plausible slip in that piece of code.

### Bounds

- Two actors of a kind: a race in the queue is between two workers and a row, one
  in a sweep between two replicas and a tenant, one in the browser between two
  tabs and the storage. Three sessions in `scripts`, since two may surround a third.
- Faults: one, or two where a counter has to reach its limit (`queue`, twin). A
  fault is a crash, lost session, error, lost reply, trim or loss of Redis. In
  `return` there is none, and order and broken have one.
- `MaxRetries`, `MaxAttempts` 1 or 2 for the code's 5, pages of 1 for 100, chunks of
  1 or 2: what happens at the limit and below it both occur.
- `MaxCopies`, entries added although the row still has one, is the backlog of more
  than 30 minutes the requeue sweep's comment describes. `MaxAge` leaves rows fresh
  in the cases about order and lets them expire in the others.
- `BatchSize` 1 or 2, `StreamCap` 2: a batch of more than one entry and a trim both
  occur.
- What a person may do is counted: clicks, saves, reloads, route changes, toggles.
  Two or three of what matters in a case, one or none of the rest: a late answer
  needs one other action to be late for. `MaxRequests` is 2 for the same reason.
- Not bounded but left out: the retry budget of 50 per cycle, pages of 100 pending
  entries, 200 rows per sweep; all limit how much one pass does.

Larger instances that do break a property are named in section 6.

### Fairness

Only what the code's own scheduling gives:

- `JobQueue`: a worker's loop takes steps (statements and HTTP calls have timeouts,
  the container restarts a dead process), clocks advance, dead sessions end.
- `WebhookPipeline`: the consumer loop, requests and the API's sweep loop run on,
  idle times advance, and a reconcile job ends (its lock is released in a
  `finally`). Nothing obliges a fault, an enqueue, a purge, a heartbeat or a
  reconcile.
- `SyncSweep`, `ScheduledScan`: loops tick, passes and workers go on, failures age.
- `BrowserSession`, `CacheClear`: requests end (`fetchWithTimeout`), the poll of two
  seconds goes on unless it failed, the worker works.
- `LiveServer`: time passes, the agent polls whenever it may and answers what it
  got. Strong for the poll, which a restart disables now and again.
- `ManualEdits`: timers only, the agent need not answer. Weak fairness of `Timeout`
  is written out as `[]<>~Armed \/ []<><<Timeout>>`, so that TLC need not compute
  its ENABLED.
- `ApplyDock`: messages arrive and commits end, which is `ManualEdits!CommitsEnd`.
- `LiveBrowser`: timers, deliveries, reconnects and captures happen, requests for the
  source are answered, and the agent does the work it was given. `SourceWrap` and `OrgMembershipSync` state no liveness.
- `Invitations`: requests end, and the person opens a link that works again and again
  (strong: it may be revoked and reissued in between). No admin has to do anything.
- `DesignHook`: a process that was started goes on, and the agent whose write is
  refused tries again. Edits of others, timeouts and resets are finitely many.

Deadlock is checked in `queue`, `sweeps` and `purged`, whose loops never stop; the other
runs may stop when nobody wants anything more and the bounds are used up.

## 5. Proofs

Proofs about twelve components, in eight modules, for every value of the constants that
the named assumption of the component allows; a theorem that needs more says so in its
hypothesis. None of the invariants the runs check is inductive alone.

`JobQueueProofs`: `TypeCorrect`, `FenceSound`, `HandlersExclusive`,
`BudgetHolds`, `ResultIsCurrent`, `TokenScrubbed`; and `Refines` (Spec implements
`JobLifecycle`'s), `FinishedIsFinal`, `AttemptUndisturbed`. `IndInv` adds that a running worker
with a live session holds the job's lock (`LockHeld`), that an open claim
transaction has a queued row with the count it read and excludes another
(`SelectInv`, `SelectExclusive`), that a worker that thinks a job is its own either
holds the row's current count of a row in processing or is behind it
(`StragglerBehind`: this is why the fence works), and what each status says of
count, token, result and claims (`RowInv`). Every action gets a lemma. The refinement
classifies what a step does to one row (`RowMove`) and maps each move to a step of
`JobLifecycle` or a stutter.

`WebhookPipelineProofs`: `TypeCorrect`, `NothingAckedUnsettled` (what the group has
acknowledged is settled in the database), `NothingReopens`, `EventsCountedOnce`,
`NewestWins`. `PipelineInv` is `TypeOK` with
- `RowsInv`: what a row's status says of the receiver, its age, `applied`, `dropped`
  and the rows the sweep has locked;
- `StreamInv`: an entry names a stored row;
- for each consumer `ConsumerInv`: deferred entries are under their own tenant, in
  retry there is a head, down or reading there is nothing left to acknowledge, and
  what it is about to acknowledge is settled (unless it was trimmed away);
- `AckAfterCommit` itself.

A settled row stays settled (`RowMove`), so only the steps of the consumer that
acknowledges matter: the receiver, sweep and outside world are disposed of together
as quiet steps, then one lemma for each consumer action. The counts and the roster
are written by one operator only (`Write`), so they need no more than that
(`DataSteps`): two small inductions over it give `EventsCountedOnce` and
`NewestWins`.

`MembershipProofs`, of `OrgMembershipSync`: `TypeCorrect`, `QuietTableInStep` (`TableInStep`: once nothing
is under way the table is GitHub's list) and `RostersMend` (`RosterMends`: what a roster
leaves in the table, and whom it deletes; this one whatever webhooks did). Neither is
about a single step: the table may be wrong for as long as the last word about a login is
still on its way. `Invariant` says just that, place by place: the last pending event of a
login, in flight (`FlightTells`) or received (`QueueTells`), or else the table
(`TableTells`) and the access it gives (`AccessTells`), tells what the login is on GitHub,
unless something is `amiss`. Stamps grow in the order of receipt (`StampsGrow`), so the
guards on `added_at` refuse only what is older. Of a roster being fetched it says that of
whoever did not change since the lock nothing is pending and what was fetched is true
(`NotLate`), and that the pages so far hold all who stayed and come first, unless the list
moved up (`PagesWhole`). `RolesTell` is what a whole roster settles about admins: an admin's
row is one's, and who is no longer an admin has a removal under way that deletes the row.

`SweepsProofs`, of `SyncSweep`: `SyncTypes`, `OneJob` (at most one active job of a sweep
for a tenant), `SweepsWait` (none is enqueued while a failure is young). `SyncInv` is that
whoever is between the check and the enqueue holds the tenant's slot (`TenantSlotIsHeld`),
and that nothing was enqueued since it checked (`NoneSinceCheck`).

Of `ScheduledScan`: `TypeCorrect`, `ScansDoNotMeet` (`OneScan`),
`DropsRunForward` (`DropIsReal`), `FailuresRest` (`BacksOff`: no scan is started of
an org whose last one failed a short time ago). A replica gives the slot up before
it scans, so the slot alone does not keep two apart: what does is that it commits
the marker with it. `ScanInv` is that whoever is between the look and the commit
holds the slot (`SlotIsHeld`), that nobody scans the org since it looked
(`ClearSinceCheck`), and that an org which is being scanned is marked or no longer
due (`BusyIsKnown`), so that the next look finds out. `VersionInv` is that nothing
seen of an org is ahead of it (`SeenBefore`) and that without scans by hand what is
about to be stored is not older than what is (`StoresForward`). The three need that
no scan outlasts its marker's window (`~LongScans`), the last one also that tokens
resolve (`~TokenErrors`): neither is certain, and section 6 says what breaks.

Of `Invitations`, in `MembershipProofs`: `InvitationTypes` (with it, that no two invitations of an address are
pending), `AcceptedIn`, `AcceptKeepsRole`, and for one login at a time `AdminsMatch`
and `InvitedStay`. `InviteInv` adds that a request about to mark an invitation has its member
(`MarkedIsIn`): the order of the two commits is all that needs. `LoginInv` adds that
only GitHub makes admins (`AdminIsGithubs`) and that what a login is about to write
fits what it was told, unless GitHub moved since (`LoginFits`). Two logins at once do
break both theorems, see section 6. The assumptions on the constants are
hypotheses of each theorem.

Of `ConfigCache`, in `SweepsProofs`: `ConfigTypes`, `ReadsAreRecent`, for one process
`CopyFollows`, and `SettingsFollow`, which joins the two. `ConfigInv` says of each copy, and of each reader that has read and not stored, that its
value was the setting at its time or later (`CopiesSince`, `ReadSince`); a commit keeps
that, since the value it replaces was the setting until now (`CommitKeepsSince`).

`BrowserSessionProofs`: `TypeCorrect`, `TabsShowTruly` (`TabsShowTheChosen`, for any
number of tabs), and for a tab that is alone and saves nothing `OwnCacheOnly`
(`CacheBelongsToUser`) and `OwnScopeOnly` (`ScopeFollowsUser`).
`SessionInv` says of each request in flight that it is about `/auth/me` only if it was
sent at epoch 0 (`RequestOK`; an "online" check too, since every sign-in and sign-out
confirms the user), so that one sign-in makes all of them late; and that an answer names
the owner of the token that was presented. `AloneInv` adds that what was asked at epoch 0
was asked with the token that is stored, if one still is. If all sign in with a password,
`PasswordInv` says that what was asked since the cache was last cleared was asked as the
user shown. With GitHub there is a cookie beside the token, which outlives a refused
sign-out; `GithubInv` says that a cookie the server still takes is the shown user's
unless a token is stored (`CookieInv`), and that a query the cache still knows was asked as
the user shown, or with what was already denied, which will be refused (`QueryOK`).
That needs that no other device ends a session (`MaxRevokes = 0`): then the token is
refused and the older cookie taken instead. Steps are first sorted by what they do to a
tab (`Quiet`, `SignsOut`, `SignsIn`, `Confirms`, `Caches`). Where the hypotheses fail both
theorems are false, see section 6.

`ApplyDockProofs`: `TypeCorrect`, `CountsAgree` (`CountIsStaged`), `EditsStayInReach`
(`ControlsFit`). Whoever acts does so when all messages have arrived, so that what is
under way stems from one act. `CountInv`: every count under way is that of the buffer, and
a dock with another count has one to come (`Counted`). `FitInv`, before a rollback: the
dock of each tab is free, busy or asking, as the commit is, or the event that makes it so
is the next on its stream (`Fit`); `StuckInv`, after one: it asks with all else locked, or
was told that there is no transaction (`Stuck`). Both are about pages that were not
reloaded. `~NoRunner` and `~AskedSaves` exclude an Apply that no agent takes up, and a Save
while the question is asked, which do break the properties.

`CacheClearProofs`: `TypeCorrect`, `AllCleared` (`AllIsCleared`), `DoneShown`
(`DoneIsShown`), `RoutesApart` (`RoutesStayApart`), from one invariant. `GitInv`: an entry
has one place in one list, and what was deleted does not come back. `JobInv`: what a job
holds at each of its steps. `TokenInv`: what the field holds was stored or typed, and once
it was filled no lookup for the panel's owner is under way. `PanelInv`: while the panel is
`Watched` it knows of its clears, so that one is under way at most (`Waits`, `Asks`,
`Tracks`, `Tells`); after a route change or a failed poll it may lose sight of one.
`PagesInv`: while the list is `Undisturbed` what a clear still has to delete is noted
already or on a page to come (`Paged`); a touch or an eviction moves entries to a page
that was read.

`SkillProofs`, of `LiveServer`: `TypeCorrect`, `PendingInQueue` (`PendingIsInQueue`). Beside the property
itself, that entries with an id are requests and only an exit is added by the server
(`TypeInv`), and that an exit is queued only while no page is connected (`ExitMeansAlone`).
Most of the proof is about the queue: an entry is removed by keeping those at a set of
places (`AtPlaces`), so who stays and in which order is counted by ranks (`Rank...`).
`LiveAssumption` keeps the ids apart from "none", as the server's check of them does.

`SkillProofs`, of `DesignHook`: `HookTypes` and `HooksTellAll` (`HooksTell`), for any tool
calls, sessions, files and findings. Every process works on a copy of the cache that may be
older or newer than the file, and writes it over the file. So the invariant says of every
copy what it says of the file: it knows of no finding that its session was not told or is
about to be told (`MissInv`), and counts no denial that was not an attempt, less those that
are not counted yet (`DenyInv`: an attempt is made before it is counted, and what is in
`Objecting` has still to count). Both survive any overwriting, and a cache read as empty,
since less is known and counted then. For one call at a time the copy is followed through the
process (`Memory`): ignored rules are in the config or in the command's copy of it
(`QuietInv`), what was told is remembered (`OnceInv`), and beyond the threshold the notice
was given or is on its way (`SilenceInv`). The hypotheses are part of `HooksTell`:
all findings fit in one message, no kills, one call at a time, one file without
stylesheets; without them the parts are false, see section 6.

Only model-checked:
- liveness and fairness, which the provers do not reach;
- `WaitingCostsNoAttempt` and `InStreamOrder` of the pipeline, whose states of one entry
  go through several cycles of a consumer;
- `ManualEdits` and `SourceWrap`, whose batches and files are built with folds and
  filters of sequences: what those give for every sequence needs inductions over data;
- `LiveBrowser`, whose properties hold within small numbers of reloads, toggles and
  losses only (section 6).

## 6. Where the code and its comments disagree

These are stated as properties in the modules, and TLC gives a behaviour that
breaks them. One, `PurgedStaysPurged`, is kept as a run and listed in `PROJECT.json`;
the others can be asked by naming the property in the component's cfg with the
bounds given here. Passing runs use weaker or narrower forms of them.

**JobQueue.** `NoSecondClaim`, `NeverRunTwiceAtOnce`: a claim whose worker stalls past the
heartbeat is given to another, so a handler may run twice at once. The fence keeps the
row right; what the handler does elsewhere is its own.

**WebhookPipeline.**
- `ReplayHarmless` (`org_membership_store.py:81`): the guard compares with the row's
  `added_at`, and a removal deletes the row; an "added" that is processed again
  after it inserts the member anew, although `webhook_requeue_sweep.py:34` calls
  every such write an idempotent upsert.
- `DroppedNeverRequeued` (`webhooks.py:204`): an XADD whose reply is lost; the consumer
  drops the delivery, the receiver then sets `queue_failed` over it.
- `NoOvertaking` (`event_consumer.py:299`), with two consumers: deferral is per process,
  so the second writes a tenant's later event first.

With failures, a replica or a requeue, the order within a tenant is therefore kept by
the guards on `added_at` alone: the newest event processed decides
(`NewestEventWins`), with the gap above until the next roster.

**OrgMembershipSync.** `MembersAreNotWiped` (`membership_reconcile.py:49`): a member
listed on a page that was already read leaves, and the first of the next page is
missed and deleted. `OldRemovalIsIgnored` (`org_membership_store.py:188`): a roster
leaves the row's old `added_at`, so an older removal still deletes. A removal
whose webhook is lost never revokes the Clevis membership: the roster does not.

**Invitations.**
- `FinalStays` (`invitations.py:193`, "accepted and revoked ones are final"): revoking,
  accepting and expiring write what they decided from an earlier read, over each other.
- `OldLinkIsDead` (`:225`, "the previous link stops working"): one that was read before
  the reissue is accepted after it. `FreshLinkStays` (`:54`): a reissue between the look
  and the commit of `_expire` is written off.
- `AdminAsOnGithub`, `KeepsInvited` with two logins at once (`org_provisioning.py:102`,
  `:110`): an older answer of GitHub is written after a newer one; a removal decided on
  GitHub's row deletes one that an acceptance made since.

**SyncSweep, ScheduledScan.**
- `PurgedStaysPurged` (`worker.py:307`): a job stores what it fetched before the
  uninstallation.
- `EnqueuesForTheStale` (`gap_heal_sweep.py:91`): the cursor is read before the slot is
  taken and not again.
- `OneScan` with `LongScans` (`scheduled_scan_sweep.py:70`): the marker counts for an
  hour whether or not the scan has ended.
- `TickIsCapped` (`:170`): only stored scans count; failing ones are started without
  limit.
- `BacksOff` with two replicas and `TokenErrors` (`:123`): the rollback that frees the
  slot comes before the failure is recorded.
- `AlertLooksBack` with manual scans and changes (`scan_service.py:57`): the baseline is
  what was stored last, not what was scanned earlier.

**ConfigCache.**
- `RaceCostsARead` (`app_config.py:3`, "a TTL race costs at most one extra DB read"): a
  reader that read before a PUT's commit stores after its invalidation, and the process
  that took the PUT serves the old value for a lifetime; an entry that is invalidated
  between the two looks of a failed read (`:58`, `:60`) raises KeyError.
- `NotFlipped` (`:56`, "serve the last-known-good value rather than flip a security
  setting"): a PUT drops that value, and a read that fails next gives the default.

**BrowserSession.**
- `OnlyStaleTokensCleared` (`client.ts:139`): a late 401 removes the token of another,
  newer sign-in.
- `CacheBelongsToUser` with "save" among `Calls` (`badge-settings-card.tsx:31` and
  others): a mutation's `onSuccess` writes the first user's answer into the second's
  cache. In `github` with revocations a query of the one is answered by the cookie of
  the other. Both definitions are about a tab that is alone: of two tabs one is not told
  that the other signed in, and caches what the other's token or cookie was given.
- `ScopeFollowsUser` with GitHub sign-ins (`auth-context.tsx:151`): they reset no scope.

**CacheClear.**
- `JobIsShownRepo` (`cache-panel.tsx:120`): a clear's answer after a route change sets
  the job of the wrong panel. `OneClear` (`:93`): going away and back forgets a
  running job.
- `ClearedAll` with touches and evictions (`worker.py:245`): entries shift between pages.
- `ReportsWhatItDeleted` (`worker.py:254`): a retry counts from 0.
  `FailedDidNotClear` (`:234`): a DELETE whose answer is lost gets 404 and fails.
- `DoneIsListedAgain` (`cache-panel.tsx:157`), `HiddenSendsNoToken` (`:59`), `SavedIsStored`
  (`:100`): answers that come after the panel has moved on.

**LiveServer.**
- `NoIdlePoll` (`live-server.mjs:168`): a new poll takes the first expired lease and
  clears the timer of the second; a parked poll stays beside it.
- `QueuedIsPending` (`session-store.mjs:187`): an accept before the reply to generate is in
  memory only, and a restart forgets it.
- `ReopenedOnlyByPage` (`live-server.mjs:176`): a reply acknowledges the first entry of
  the id, whatever its type; the discard comes back and reopens the session.
- `AcceptedIsLatest` (`:142`): a retry with another variant is dropped as a duplicate.

**ManualEdits.**
- `SourceAsAgreed`: a late reply restores the snapshot of an event that timed out
  (`manual-apply.mjs:229`); a discard restores the transaction and then the snapshot
  of the event in flight (`:266`). The snapshot of a second chunk or of a repair has in
  it what the commit wrote before, and that of a commit's event lacks what a later
  commit wrote. `LateIsUndone` is the part that holds: every event was dispatched
  before its commit had written anything, and there is one commit.
- `EditLeavesWhenWritten` with `LateTab` (`live-commit-manual-edits.mjs:562`): entries are
  cleared by id, whatever text they hold by then.
- `DecisionKeepsTxn` with two pages (`manual-apply.mjs:747`): one transaction file for both.

**ApplyDock.** `LoadingMeansApplying` with a reload (`live-browser.js:3924`),
`EditsCanBeApplied` with a rollback (`:4080`), `DecisionIsOffered` with `AskedSaves`
(`:3639`) or `NoRunner` (`:4055`): the stored phase and the buttons outlive what they
stand for.

**LiveBrowser.** An answer to a request for the source is applied whatever has happened
since it was asked for (`live-browser.js:5519`):
- `AcceptIsShown` (`:5591`): it takes the page from SAVING or CONFIRMED back to CYCLING,
  so that the choice is offered again and the accept's timer closes it, or a discard of
  what is being accepted is sent. `ChoiceStaysMade` excepts such answers.
- `WaitHasSession` (`:5554`): after a discard, with the element gone, it sets
  GENERATING with no session open, and nothing ends that wait. With another session
  open it offers that one's choice before its variants are there.
- `FailedIsClosed` without its exception (`:5554`): it makes a page wait again for what
  the agent has refused.
- `GenerateEnds` with failures (`:5601`): a request that fails leaves the page at
  GENERATING; so does, without hot updates, a done that names no file (`:6126`).

The timer of an accept closes whatever is open (`:7514`): `UndecidedIsKept` excepts it.

In instances with more reloads, toggles, timeouts or losses:
- `DiscardedIsClosed` (`:7954`): the mark of a discarded session is dropped when no
  wrapper is mounted, and a late one is resumed; `ChoiceStaysMade` likewise (`:11062`).
- `GeneratingIsAsked` (`:6655`): a reload before the screenshot loses the request.
- `VariantsAreOffered` (`:5977`): a restored count hides that the variants are there.
- `UndecidedIsKept` (`:7489`): a failed accept is CYCLING in memory and SAVING on disk;
  two reloads with toggles, or a timeout and an error, lose it.
- `AcceptEnds` (`:7757`): a complete that is broadcast while the stream is down.
- `FailedIsClosed` (`:6170`): an error keeps the saved session, which a reload restores.

**SourceWrap.**
- `FileIsTheSource`, `OpenCanBeDecided` with `Nesting` (`live-accept.mjs:609`, `:373`): a
  session inside another's original is taken for it, or lost with it. With a `<style>`
  in the original (`:597`) a discard loses that.
- `IndentsAreKept` with a line left of its opener (`live-wrap.mjs:267`), `FileIsExact`
  (`live-accept.mjs:600`): indents and empty lines are not restored.
- `StagedIsFindable` (`:242`): a discard writes staged copy edits to the source.
- `EditsOfOthersStay` with equal texts (`:205`): an edit of another element is dropped.
- `KeepsLateEdits`, `TakenBackStays` (`:187`): the buffer is read and written without a
  lock in a process beside the live server, so an edit staged in between is lost, and
  one that was taken back in between comes back.

**DesignHook.**
- `PendingIsTrue` (`hook-lib.mjs:507`): "Still has N issue(s)" counts all that was ever
  remembered of the file, the fixed ones too.
- `SilenceIsTold` with stylesheets, or two files in a patch (`:1186`): the notice that
  hints end gives way to a reminder about another file, and is not repeated.
- `NothingIsMissed` with `MaxShown` below the findings (`:1138`): all are remembered, the
  first are shown; with kills (`:1149`): the cache is written before the output.
- `ToldOnce`, `IgnoredIsQuiet` with two calls (`:1053`, `hook-admin.mjs:143`): updates are
  lost, and a cut config reads as the default.
- `LoopsEnd` with two calls of one Cursor session (`hook-before-edit.mjs:440`): each may
  overwrite the other's count, so that neither is let through "to avoid a loop".

## 7. Not modelled

- Installations' setup and the token cache: a request is one or two transactions on
  a row, and minting is under one lock for each installation, looked at again. Of
  invitations: connecting an org with a PAT, orgs whose GitHub identity changed,
  listings, audit rows and mail.
- The backfill handler, security alerts, repo collaborators and two-factor flags:
  writes under the same lock and guards as those that are modelled.
- The rate limit: counters of one process behind one lock.
- Waivers, nudges, scoring: pure functions of one scan and single-row writes.
- Analytics, reports, write-backs, notifications, the score action and the other
  pages of the UI: reads, formatting and calls whose state is GitHub's.
- Schema, row-level security, migrations: declarative SQL.
- Of the bundled skill: the detector of anti-patterns and its browser bundle (rules
  over one document; two copies of the same code), the installer, drawing,
  picking, voice and parameter panels of the overlay, Svelte previews and
  `live-inject.mjs`. They are most of the repository's JavaScript by lines, and hold
  no state that actors share; a model of them would be a transliteration.
- The content of payloads, prompts and files beyond what a property tells apart.
