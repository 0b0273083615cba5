----------------------------- MODULE ApplyDock -----------------------------
(***************************************************************************)
(* The dock with which a page of the live tool applies, discards, repairs  *)
(* or rolls back its staged copy edits (live-browser.js).  ManualEdits has *)
(* what the server does with them; here it is reduced to what it tells the *)
(* tabs: answers to requests, which arrive in any order, and events, which *)
(* arrive in order on a stream of their own.                               *)
(*                                                                         *)
(* A tab is the dock's flags and buttons, and the phase of the apply that  *)
(* sessionStorage keeps across a reload.  A request reaches the server as  *)
(* the user clicks.                                                        *)
(***************************************************************************)
EXTENDS Integers, Sequences, FiniteSets

CONSTANTS Tabs,
          MaxAttempts, \* repairAttemptLimit
          AskedSaves,  \* the user goes on saving while a decision is asked for
          NoRunner,    \* nobody writes edits: a commit may end before its request is answered
          MaxSaves, MaxCommits, MaxRollbacks, MaxReloads, MaxDiscards  \* bounds

ASSUME DockAssumption ==
  /\ {AskedSaves, NoRunner} \subseteq BOOLEAN
  /\ MaxAttempts \in Nat
  /\ {MaxSaves, MaxCommits, MaxRollbacks, MaxReloads, MaxDiscards} \subseteq Nat

VARIABLES staged,    \* edits in the buffer of the page
          txn,       \* the commit whose transaction is on disk, or 0
          jobs,      \* commits under way, with the transaction and the edits of each
          commits,   \* how many were started
          tabs, sse, answers,  \* of each tab: dock, events and answers under way
          rollbacks, reloads, discards

vars == <<staged, txn, jobs, commits, tabs, sse, answers, rollbacks, reloads, discards>>

Phases == {"none", "applying", "repairing", "repair-decision"}

Dock == [inFlight : BOOLEAN, stored : Phases, count : 0 .. MaxSaves,
         pill : BOOLEAN, trash : BOOLEAN, trashShown : BOOLEAN, asks : BOOLEAN]

(* A new dock, and what hidePendingApplyDock leaves of one.                *)
Fresh(stored) == [inFlight |-> FALSE, stored |-> stored, count |-> 0, pill |-> TRUE,
                  trash |-> TRUE, trashShown |-> FALSE, asks |-> FALSE]

Init ==
  /\ staged = 0 /\ txn = 0 /\ jobs = {} /\ commits = 0
  /\ tabs = [t \in Tabs |-> Fresh("none")]
  /\ sse = [t \in Tabs |-> <<>>] /\ answers = [t \in Tabs |-> {}]
  /\ rollbacks = 0 /\ reloads = 0 /\ discards = 0

-----------------------------------------------------------------------------
(* What the dock's functions do to a tab.                                  *)

(* A deliberate mistake (EditsCanBeApplied): nobody enables the pill.      *)
Loading_PillStays(d, on) ==
  [d EXCEPT !.inFlight = on,
            !.stored = IF ~on THEN "none" ELSE IF @ = "none" /\ d.count > 0 THEN "applying" ELSE @,
            !.pill = ~on /\ @, !.trash = ~on,
            !.trashShown = on \/ @, !.asks = ~on /\ @]

(* setPendingApplyLoading.                                                 *)
Loading(d, on) ==
  [d EXCEPT !.inFlight = on,
            !.stored = IF ~on THEN "none" ELSE IF @ = "none" /\ d.count > 0 THEN "applying" ELSE @,
            !.pill = ~on, !.trash = ~on,
            !.trashShown = on \/ @, !.asks = ~on /\ @]

(* A deliberate mistake (CountIsStaged): a count of zero is not shown.     *)
Counter_KeepsDock(d, n) ==
  IF n = 0 THEN Loading(d, FALSE)
  ELSE LET shown == [d EXCEPT !.count = n, !.trashShown = TRUE]
       IN  IF d.inFlight \/ d.stored # "none" THEN Loading(shown, TRUE) ELSE shown

(* updatePendingCounter.  A stored phase is taken for an apply under way.  *)
Counter(d, n) ==
  IF n = 0 THEN Fresh("none")
  ELSE LET shown == [d EXCEPT !.count = n, !.trashShown = TRUE]
       IN  IF d.inFlight \/ d.stored # "none" THEN Loading(shown, TRUE) ELSE shown

(* showManualApplyDecision.                                                *)
Decision(d) ==
  [d EXCEPT !.inFlight = FALSE, !.stored = IF d.count > 0 THEN "repair-decision" ELSE @,
            !.pill = FALSE, !.trashShown = FALSE, !.asks = TRUE]

(* updateManualApplyRepairState.                                           *)
Repairing(d) ==
  IF d.count = 0 THEN d ELSE Loading([d EXCEPT !.stored = "repairing"], TRUE)

Started(d, n, repair) ==
  LET counted == IF n > 0 THEN Counter(d, n) ELSE d
      phased  == IF repair THEN Repairing(counted)
                 ELSE IF n > 0 THEN [counted EXCEPT !.stored = "applying"] ELSE counted
  IN  Loading(phased, TRUE)

(* A deliberate mistake (LoadingMeansApplying, ApplyEnds): the flag is   *)
(* not cleared before the counter.                                         *)
Ended_FlagKept(d, n) == Counter(d, n)

(* manual_edit_commit_done: the flag is cleared, then the counter updated. *)
Ended(d, n) == Counter(Loading(d, FALSE), n)

(* handleManualEditActivity.                                               *)
Heard(d, m) ==
  CASE m.type = "stashed"  -> Counter(d, m.n)
    [] m.type = "started"  -> Started(d, m.n, m.repair)
    [] m.type = "repair"   -> Repairing(d)
    [] m.type = "decision" -> Decision(d)
    [] m.type = "done"     -> Ended(d, m.n)
    [] m.type = "failed"   -> Loading(d, FALSE)
    [] m.type = "rolled_back" -> [d EXCEPT !.stored = "none"]
    [] OTHER               -> d

(* Events after which the tab asks for the count.                          *)
Fetches == {"rolled_back", "failed", "discarded"}

(* What is done with the answer to a request.                              *)
Answer(d, a) ==
  CASE a.type \in {"count", "stash", "discard"} -> Counter(d, a.n)
    [] a.type = "rollback"    -> Counter([d EXCEPT !.stored = "none"], a.n)
    [] a.type = "keep_fixing" -> [d EXCEPT !.asks = FALSE, !.trashShown = TRUE]
    [] a.type = "no_transaction" -> Decision(d)

-----------------------------------------------------------------------------
(* Messages.                                                               *)

Msg(type, n) == [type |-> type, n |-> n, repair |-> FALSE]

Broadcast(ms) == sse' = [t \in Tabs |-> sse[t] \o ms]

Reply(t, type, n) == answers' = [answers EXCEPT ![t] = @ \cup {[type |-> type, n |-> n]}]

Hear(t) ==
  LET m == Head(sse[t])
  IN  /\ sse[t] # <<>>
      /\ tabs' = [tabs EXCEPT ![t] = Heard(@, m)]
      /\ sse' = [sse EXCEPT ![t] = Tail(@)]
      /\ IF m.type \in Fetches THEN Reply(t, "count", staged) ELSE UNCHANGED answers
      /\ UNCHANGED <<staged, txn, jobs, commits, rollbacks, reloads, discards>>

Receive(t, a) ==
  /\ a \in answers[t]
  /\ tabs' = [tabs EXCEPT ![t] = Answer(@, a)]
  /\ answers' = [answers EXCEPT ![t] = @ \ {a}]
  /\ UNCHANGED <<staged, txn, jobs, commits, sse, rollbacks, reloads, discards>>

-----------------------------------------------------------------------------
(* The user, who is slower than messages.                                  *)

Arrived == \A t \in Tabs : sse[t] = <<>> /\ answers[t] = {}

(* applyEditing, and POST /manual-edit-stash.                              *)
Save(t) ==
  /\ Arrived
  /\ staged < MaxSaves /\ ~tabs[t].inFlight /\ (AskedSaves \/ ~tabs[t].asks)
  /\ staged' = staged + 1
  /\ Broadcast(<<Msg("stashed", staged + 1)>>) /\ Reply(t, "stash", staged + 1)
  /\ UNCHANGED <<txn, jobs, commits, tabs, rollbacks, reloads, discards>>

(* A commit starts; with nothing staged it ends at once.                   *)
Begin(id, held, repair) ==
  LET started == [Msg("started", staged) EXCEPT !.repair = repair]
  IN  IF staged = 0
      THEN Broadcast(<<started, Msg("done", 0)>>) /\ UNCHANGED jobs
      ELSE Broadcast(<<started>>) /\ jobs' = jobs \cup {[id |-> id, txn |-> held, edits |-> staged, attempt |-> 0]}

(* onPendingPillClick, and POST /manual-edit-commit: an abandoned          *)
(* transaction is rolled back first.                                       *)
Apply(t) ==
  LET n == commits + 1
  IN  /\ commits < MaxCommits /\ Arrived
      /\ tabs[t].count > 0 /\ tabs[t].pill /\ ~tabs[t].inFlight
      /\ tabs' = [tabs EXCEPT ![t] = Loading([@ EXCEPT !.stored = "applying"], TRUE)]
      /\ commits' = n
      /\ txn' = IF staged > 0 THEN n ELSE 0
      /\ Begin(n, n, FALSE)
      /\ UNCHANGED <<staged, answers, rollbacks, reloads, discards>>

(* onPendingKeepFixingClick, and POST /manual-edit-commit?repair=1.        *)
KeepFixing(t) ==
  /\ commits < MaxCommits /\ Arrived
  /\ tabs[t].asks /\ tabs[t].count > 0
  /\ tabs' = [tabs EXCEPT ![t] = Repairing(@)]
  /\ commits' = commits + 1
  /\ IF txn = 0
     THEN Reply(t, "no_transaction", 0) /\ UNCHANGED <<jobs, sse>>
     ELSE Reply(t, "keep_fixing", 0) /\ Begin(commits + 1, txn, TRUE)
  /\ UNCHANGED <<staged, txn, rollbacks, reloads, discards>>

(* onPendingRollbackClick, and POST /manual-edit-repair-decision.          *)
Rollback(t) ==
  /\ rollbacks < MaxRollbacks /\ Arrived /\ tabs[t].asks
  /\ rollbacks' = rollbacks + 1
  /\ txn' = 0
  /\ Broadcast(<<Msg("rolled_back", staged)>>) /\ Reply(t, "rollback", staged)
  /\ UNCHANGED <<staged, jobs, commits, tabs, reloads, discards>>

(* onPendingTrashClick, and POST /manual-edit-discard.                     *)
Discard(t) ==
  /\ discards < MaxDiscards /\ Arrived
  /\ tabs[t].count > 0 /\ tabs[t].trash /\ tabs[t].trashShown /\ ~tabs[t].inFlight
  /\ discards' = discards + 1
  /\ staged' = 0 /\ txn' = 0
  /\ jobs' = {[j EXCEPT !.edits = 0] : j \in jobs}
  /\ Broadcast(<<Msg("discarded", 0)>>) /\ Reply(t, "discard", 0)
  /\ UNCHANGED <<commits, tabs, rollbacks, reloads>>

(* The tab is loaded again: sessionStorage stays; it asks for the count.   *)
Reload(t) ==
  /\ reloads < MaxReloads
  /\ reloads' = reloads + 1
  /\ tabs' = [tabs EXCEPT ![t] = Fresh(@.stored)]
  /\ sse' = [sse EXCEPT ![t] = <<>>]
  /\ answers' = [answers EXCEPT ![t] = {[type |-> "count", n |-> staged]}]
  /\ UNCHANGED <<staged, txn, jobs, commits, rollbacks, discards>>

-----------------------------------------------------------------------------
(* The server's side of a commit.                                          *)

(* A commit that an agent works on outlasts the messages under way.        *)
AgentActs(j) == j \in jobs /\ (NoRunner \/ Arrived)

(* An attempt at a repair is dispatched.                                   *)
RepairStep(j) ==
  /\ AgentActs(j) /\ j.attempt < MaxAttempts
  /\ Broadcast(<<Msg("repair", staged)>>)
  /\ jobs' = (jobs \ {j}) \cup {[j EXCEPT !.attempt = @ + 1]}
  /\ UNCHANGED <<staged, txn, commits, tabs, answers, rollbacks, reloads, discards>>

(* The edits that were applied leave the buffer; so does the transaction.  *)
Done(j) ==
  /\ AgentActs(j)
  /\ \E left \in 0 .. staged :
       /\ staged - left <= j.edits /\ staged' = left
       /\ Broadcast(<<Msg("done", left)>>)
  /\ jobs' = jobs \ {j} /\ txn' = IF txn = j.txn THEN 0 ELSE txn
  /\ UNCHANGED <<commits, tabs, answers, rollbacks, reloads, discards>>

NeedsDecision(j) ==
  /\ AgentActs(j) /\ j.edits > 0
  /\ Broadcast(<<Msg("decision", staged)>>)
  /\ jobs' = jobs \ {j}
  /\ UNCHANGED <<staged, txn, commits, tabs, answers, rollbacks, reloads, discards>>

(* commitManualEdits throws.                                               *)
Failed(j) ==
  /\ AgentActs(j)
  /\ Broadcast(<<Msg("failed", 0)>>)
  /\ jobs' = jobs \ {j} /\ txn' = IF txn = j.txn THEN 0 ELSE txn
  /\ UNCHANGED <<staged, commits, tabs, answers, rollbacks, reloads, discards>>

-----------------------------------------------------------------------------
Next ==
  \/ \E t \in Tabs :
       \/ Hear(t) \/ Save(t) \/ Apply(t) \/ KeepFixing(t) \/ Rollback(t) \/ Discard(t) \/ Reload(t)
       \/ \E a \in answers[t] : Receive(t, a)
  \/ \E j \in jobs : RepairStep(j) \/ Done(j) \/ NeedsDecision(j) \/ Failed(j)

Spec == Init /\ [][Next]_vars

(* Events and answers arrive, and commits end (ManualEdits!CommitEnds).    *)
FairSpec ==
  /\ Spec
  /\ \A t \in Tabs : WF_vars(Hear(t)) /\ WF_vars(\E a \in answers[t] : Receive(t, a))
  /\ WF_vars(\E j \in jobs : Done(j) \/ NeedsDecision(j) \/ Failed(j))

-----------------------------------------------------------------------------
(* Properties.                                                             *)

TypeOK ==
  /\ staged \in 0 .. MaxSaves /\ txn \in 0 .. MaxCommits /\ commits \in 0 .. MaxCommits
  /\ jobs \subseteq [id : 1 .. MaxCommits, txn : 1 .. MaxCommits, edits : 0 .. MaxSaves,
                    attempt : 0 .. MaxAttempts]
  /\ tabs \in [Tabs -> Dock]

(* All that the server has to say has arrived.                             *)
Settled == jobs = {} /\ Arrived

(* live-browser.js:4152: a dock never stays in its loading state, which    *)
(* locks every control of the page, when no apply is under way.            *)
LoadingMeansApplying == Settled => \A t \in Tabs : ~tabs[t].inFlight

(* The count on the dock is that of the buffer, whatever order answers and *)
(* events arrive in.                                                       *)
CountIsStaged == Settled => \A t \in Tabs : tabs[t].count = staged

(* live-browser.js:4081: edits that are staged, with no question open, can *)
(* be applied and discarded.                                               *)
EditsCanBeApplied ==
  Settled /\ txn = 0 /\ staged > 0 => \A t \in Tabs : tabs[t].pill /\ tabs[t].trash

(* live.md:534: after a repair that failed, the tab asks what to do.       *)
DecisionIsOffered == Settled /\ txn # 0 => \A t \in Tabs : tabs[t].asks

(* Until a tab is loaded again: staged edits can be applied and discarded, *)
(* unless a commit was rolled back; or a commit was given up and every tab *)
(* asks what to do; none is left in its loading state.                     *)
ControlsFit ==
  reloads = 0 => /\ LoadingMeansApplying /\ DecisionIsOffered
                 /\ rollbacks = 0 => EditsCanBeApplied

(* A dock that is loading is freed or asks, in the end.                    *)
ApplyEnds == \A t \in Tabs : tabs[t].inFlight ~> ~tabs[t].inFlight
=============================================================================
