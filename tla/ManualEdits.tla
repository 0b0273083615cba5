---------------------------- MODULE ManualEdits ----------------------------
(***************************************************************************)
(* Copy edits of the bundled live tool: texts that the user changes in a   *)
(* page are staged in a buffer on disk (live/manual-edits-buffer.mjs) and  *)
(* written to the source, on Apply, by an agent that polls for them        *)
(* (live/manual-edit-routes.mjs, live/manual-apply.mjs,                    *)
(* live-commit-manual-edits.mjs).                                          *)
(*                                                                         *)
(* A commit is one run of Apply: it dispatches the batch of its page in    *)
(* chunks, one event at a time, verifies what the agent says, asks it to   *)
(* repair what does not hold, and clears or restores.  The source is the   *)
(* text of each reference; files are restored as a whole.  Text 0 is the   *)
(* original.  What happens between two awaits of the server is one step.   *)
(***************************************************************************)
EXTENDS Integers, Sequences, FiniteSets, SequencesExt

CONSTANTS Pages, Refs,       \* references of editable texts
          PageOf, FileOf,    \* of a reference
          MaxText,           \* texts are 0 .. MaxText
          ChunkOps,          \* manualEditApplyChunkSize
          MaxAttempts,       \* repairAttemptLimit
          LateTab,           \* a tab that knows of no running commit is open
          Careless,          \* the agent may claim what it did not write
          MaxHeld,           \* events that agents work on at once
          MaxSaves, MaxCommits, MaxTimeouts, MaxDiscards, MaxRestarts  \* bounds

ASSUME EditsAssumption ==
  /\ PageOf \in [Refs -> Pages] /\ DOMAIN FileOf = Refs
  /\ {MaxText, ChunkOps, MaxAttempts, MaxHeld} \subseteq Nat \ {0}
  /\ {MaxSaves, MaxCommits, MaxTimeouts, MaxDiscards, MaxRestarts} \subseteq Nat
  /\ {LateTab, Careless} \subseteq BOOLEAN

VARIABLES source,   \* [Refs -> Text], the project's files
          buffer,   \* pending-manual-edits.json: entries in order
          txn,      \* manual-edit-apply-transaction.json, or NoTxn
          commits,  \* the commits started, by number
          events,   \* the events dispatched, by number
          agreed,   \* history: the text last cleared as applied
          saves, timeouts, discards, restarts

vars == <<source, buffer, txn, commits, events, agreed, saves, timeouts, discards, restarts>>

Text  == 0 .. MaxText
Files == {FileOf[r] : r \in Refs}
Op    == [entry : 1 .. MaxSaves, ref : Refs, text : Text]
NoTxn == [id |-> 0, page |-> CHOOSE p \in Pages : TRUE, entries |-> {}, files |-> {},
          content |-> [r \in Refs |-> 0]]

IdsOf(ops)   == {op.entry : op \in Range(ops)}
FilesOf(ops) == {FileOf[op.ref] : op \in Range(ops)}
OfPage(b, p) == SelectSeq(b, LAMBDA op : PageOf[op.ref] = p)

Init ==
  /\ source = [r \in Refs |-> 0] /\ agreed = source
  /\ buffer = <<>> /\ txn = NoTxn /\ commits = <<>> /\ events = <<>>
  /\ saves = 0 /\ timeouts = 0 /\ discards = 0 /\ restarts = 0

Running(p)  == \E c \in DOMAIN commits : commits[c].page = p /\ commits[c].phase \in {"applying", "repairing"}
Deciding(p) == \E c \in DOMAIN commits : commits[c].page = p /\ commits[c].phase = "decision"

-----------------------------------------------------------------------------
(* The batch of a commit: ops of one entry are neighbours.                 *)

(* The ops of an entry stay together when they fit a chunk.                *)
SplitEntry(acc, ops) ==
  LET fits == Len(ops) <= ChunkOps
      full == acc.last # <<>> /\ (~fits \/ Len(acc.last) + Len(ops) > ChunkOps)
      from == IF full THEN [done |-> Append(acc.done, acc.last), last |-> <<>>] ELSE acc
      Add(a, op) == IF Len(a.last) >= ChunkOps
                    THEN [done |-> Append(a.done, a.last), last |-> <<op>>]
                    ELSE [a EXCEPT !.last = Append(@, op)]
  IN  IF fits THEN [from EXCEPT !.last = @ \o ops] ELSE FoldLeft(Add, from, ops)

Entries(batch) ==
  LET ids == SetToSortSeq(IdsOf(batch), <)
  IN  [k \in DOMAIN ids |-> SelectSeq(batch, LAMBDA op : op.entry = ids[k])]

(* splitManualApplyBatch.                                                  *)
Chunks(batch) ==
  LET split == FoldLeft(SplitEntry, [done |-> <<>>, last |-> <<>>], Entries(batch))
  IN  IF split.last = <<>> THEN split.done ELSE Append(split.done, split.last)

-----------------------------------------------------------------------------
(* Steps of a commit, on a record of the variables they change.            *)

World == [source |-> source, buffer |-> buffer, txn |-> txn, commits |-> commits,
          events |-> events, agreed |-> agreed]

Become(w) ==
  /\ source' = w.source /\ buffer' = w.buffer /\ txn' = w.txn
  /\ commits' = w.commits /\ events' = w.events /\ agreed' = w.agreed

Restore(src, content, files) == [r \in Refs |-> IF FileOf[r] \in files THEN content[r] ELSE src[r]]

(* pushApplyEventAndWait: snapshot of the event's files, and dispatch.     *)
Push(w, c, ops) ==
  [w EXCEPT !.events = Append(@, [commit |-> c, ops |-> ops, content |-> w.source,
                                  state |-> "waiting", agent |-> "queued"])]

(* The end of a commit; its transaction stays for a decision of the user.  *)
End(w, c, phase) ==
  [w EXCEPT !.commits[c].phase = phase,
            !.txn = IF phase # "decision" /\ @.id = w.commits[c].txn THEN NoTxn ELSE @]

(* rollbackChangedFiles, to what the commit found.                         *)
RollBack(w, c) ==
  End([w EXCEPT !.source = Restore(@, w.commits[c].content, FilesOf(w.commits[c].batch))],
      c, "ended")

(* A deliberate mistake (EditLeavesWhenWritten): the page's batch goes.    *)
Clear_Batch(w, c, ids) ==
  LET gone == {op \in Range(w.buffer) : op.entry \in IdsOf(w.commits[c].batch)}
  IN  End([w EXCEPT !.buffer = SelectSeq(@, LAMBDA op : op \notin gone)], c, "ended")

(* clearAppliedEntries.                                                    *)
Clear(w, c, ids) ==
  LET gone    == ids \cap IdsOf(w.buffer)
      written == {op \in Range(w.commits[c].batch) : op.entry \in gone}
  IN  End([w EXCEPT !.buffer = SelectSeq(@, LAMBDA op : op.entry \notin ids),
                    !.agreed = [r \in Refs |-> IF \E op \in written : op.ref = r
                                               THEN (CHOOSE op \in written : op.ref = r).text
                                               ELSE @[r]]],
          c, "ended")

(* verifyAppliedEntry: all of the entry's ops show in the source.          *)
Verified(w, c, id) ==
  \A op \in Range(w.commits[c].batch) : op.entry = id => w.source[op.ref] = op.text

(* findUnappliedEntrySourceChanges.                                        *)
Leaked(w, c, ids) ==
  \E op \in Range(w.commits[c].batch) :
     op.entry \notin ids /\ w.source[op.ref] = op.text /\ w.commits[c].content[op.ref] # op.text

Unreported(w, c, files) ==
  \E r \in Refs : /\ FileOf[r] \in FilesOf(w.commits[c].batch) \ files
                  /\ w.source[r] # w.commits[c].content[r]

(* The next attempt of a repair, or the question to the user.              *)
Attempt(w, c) ==
  IF w.commits[c].attempt < MaxAttempts
  THEN Push([w EXCEPT !.commits[c].attempt = @ + 1], c, w.commits[c].batch)
  ELSE End(w, c, "decision")

Repair(w, c, ids) == Attempt([w EXCEPT !.commits[c].phase = "repairing", !.commits[c].ids = ids], c)

(* commitManualEdits, after the agent: `checks` is the outcome of          *)
(* runCopyEditPostApplyChecks.                                             *)
Conclude(w, c, result, checks) ==
  LET all == IdsOf(w.commits[c].batch)
      ids == result.applied
  IN  IF \/ result.status = "error" \/ ids \cap result.failed # {}
         \/ Unreported(w, c, result.files)
         \/ result.status = "done" /\ ids = {}
      THEN RollBack(w, c)
      ELSE IF ids # {} /\ result.files = {} THEN Repair(w, c, ids)
      ELSE IF Leaked(w, c, ids) THEN RollBack(w, c)
      ELSE IF \E id \in ids : ~Verified(w, c, id) THEN Repair(w, c, ids)
      ELSE IF ~checks THEN Repair(w, c, IF ids = {} THEN all ELSE ids)
      ELSE Clear(w, c, ids)

(* repairPostApplyValidation, after an attempt: no look at other entries.  *)
Repaired(w, c, result, checks) ==
  LET ids == w.commits[c].ids \cup result.applied
      v   == [w EXCEPT !.commits[c].ids = ids]
  IN  IF result.status = "rejected" THEN Attempt(w, c)
      ELSE IF (\E id \in ids : ~Verified(w, c, id)) \/ ~checks THEN Attempt(v, c)
      ELSE Clear(v, c, ids)

(* pushBatchInChunksAndWait, after chunk `k`.                              *)
Combined(c) ==
  LET whole(id) == \A op \in Range(c.batch) : op.entry = id => op \in c.applied
      ids == {id \in IdsOf(c.batch) \ c.failed : whole(id)}
  IN  [applied |-> ids, failed |-> IdsOf(c.batch) \ ids, files |-> c.files,
       status |-> IF ids = IdsOf(c.batch) THEN "done" ELSE IF ids # {} THEN "partial" ELSE "error"]

ChunkDone(w, c, result, checks) ==
  LET commit == w.commits[c]
      chunks == Chunks(commit.batch)
      chunk  == chunks[commit.chunk]
      stop   == result.status \in {"rejected", "error"}
      rest   == UNION {IdsOf(chunks[k]) : k \in commit.chunk .. Len(chunks)}
      next   == [commit EXCEPT
                   !.failed = @ \cup IF stop THEN rest ELSE IdsOf(chunk) \ (result.applied \ result.failed),
                   !.applied = @ \cup {op \in Range(chunk) : ~stop /\ op.entry \in result.applied \ result.failed},
                   !.files = @ \cup result.files,
                   !.chunk = @ + 1]
      v      == [w EXCEPT !.commits[c] = next]
  IN  IF Len(chunks) = 1
      THEN IF result.status = "rejected" THEN RollBack(w, c) ELSE Conclude(w, c, result, checks)
      ELSE IF stop \/ commit.chunk = Len(chunks) THEN Conclude(v, c, Combined(next), checks)
      ELSE Push(v, c, chunks[next.chunk])

(* The commit goes on with what became of its event.                       *)
Resume(w, c, result, checks) ==
  IF w.commits[c].phase = "repairing" THEN Repaired(w, c, result, checks)
                                      ELSE ChunkDone(w, c, result, checks)

Rejected == [status |-> "rejected", applied |-> {}, failed |-> {}, files |-> {}]

(* rollbackManualApplyTransaction: of the page, and of edits still staged. *)
RollBackTxn(w, p) ==
  IF w.txn = NoTxn \/ w.txn.page # p THEN w
  ELSE [w EXCEPT !.txn = NoTxn,
                 !.source = IF w.txn.entries \cap IdsOf(w.buffer) = {} THEN @
                            ELSE Restore(@, w.txn.content, w.txn.files)]

-----------------------------------------------------------------------------
(* The routes.                                                             *)

Staged(r) == {op.text : op \in {o \in Range(buffer) : o.ref = r}}

(* What the page shows.                                                    *)
Shown(r) == IF Staged(r) # {} THEN CHOOSE t \in Staged(r) : TRUE ELSE source[r]

(* POST /manual-edit-stash: a Save of the texts of `refs`.                 *)
Save(p, refs, t) ==
  LET staged  == {op.ref : op \in Range(buffer)}
      news    == SetToSeq(refs \ staged)
      updated == [k \in DOMAIN buffer |->
                    IF buffer[k].ref \in refs THEN [buffer[k] EXCEPT !.text = t] ELSE buffer[k]]
  IN  /\ saves < MaxSaves /\ (LateTab \/ ~Running(p))
      /\ refs # {} /\ \A r \in refs : PageOf[r] = p /\ t # Shown(r)
      /\ buffer' = updated \o [k \in DOMAIN news |-> [entry |-> saves + 1, ref |-> news[k], text |-> t]]
      /\ saves' = saves + 1
      /\ UNCHANGED <<source, txn, commits, events, agreed, timeouts, discards, restarts>>

NewCommit(w, p, id) ==
  [phase |-> "applying", page |-> p, batch |-> OfPage(w.buffer, p), content |-> w.source,
   txn |-> id, chunk |-> 1, applied |-> {}, failed |-> {}, files |-> {}, attempt |-> 0, ids |-> {}]

(* POST /manual-edit-commit.  Only one transaction is kept on disk.        *)
Commit(p) ==
  LET w == RollBackTxn(World, p)
      n == Len(commits) + 1
      c == NewCommit(w, p, n)
  IN  /\ Len(commits) < MaxCommits /\ OfPage(buffer, p) # <<>>
      /\ LateTab \/ ~(Running(p) \/ Deciding(p))
      /\ Become(Push([w EXCEPT !.commits = Append(@, c),
                               !.txn = [id |-> n, page |-> p, entries |-> IdsOf(c.batch),
                                        files |-> FilesOf(c.batch), content |-> w.source]],
                     n, Chunks(c.batch)[1]))
      /\ UNCHANGED <<saves, timeouts, discards, restarts>>

(* The question is answered: whoever asked it has gone on.                 *)
Answered(w, p) ==
  [w EXCEPT !.commits = [k \in DOMAIN @ |-> IF @[k].page = p /\ @[k].phase = "decision"
                                            THEN [@[k] EXCEPT !.phase = "ended"] ELSE @[k]]]

(* POST /manual-edit-commit?repair=1: Keep fixing.  It takes whatever      *)
(* transaction there is.                                                   *)
KeepFixing(p) ==
  LET w   == Answered(World, p)
      n   == Len(commits) + 1
      c   == NewCommit(w, p, txn.id)
      all == [status |-> "done", applied |-> IdsOf(c.batch), failed |-> {}, files |-> FilesOf(c.batch)]
  IN  /\ Len(commits) < MaxCommits /\ Deciding(p) /\ txn # NoTxn /\ OfPage(buffer, p) # <<>>
      /\ \E checks \in BOOLEAN : Become(Conclude([w EXCEPT !.commits = Append(@, c)], n, all, checks))
      /\ UNCHANGED <<saves, timeouts, discards, restarts>>

(* POST /manual-edit-repair-decision: Rollback.                            *)
Decide(p) ==
  /\ Deciding(p)
  /\ Become(RollBackTxn(Answered(World, p), p))
  /\ UNCHANGED <<saves, timeouts, discards, restarts>>

(* cancelPendingEvents: events of the page leave the queue; those waited   *)
(* for are undone and rejected, which resumes their commits.               *)
Cancel(w, p, checks) ==
  LET mine == SelectSeq([e \in DOMAIN w.events |-> e], LAMBDA e :
                w.events[e].state = "waiting" /\ w.commits[w.events[e].commit].page = p)
      Undo(v, e) ==
        [v EXCEPT !.source = Restore(@, v.events[e].content, FilesOf(v.events[e].ops)),
                  !.events[e].state = "late",
                  !.events[e].agent = IF @ = "queued" THEN "never" ELSE @]
      Reject(v, e) == Resume(v, v.events[e].commit, Rejected, checks)
  IN  FoldLeft(Reject, FoldLeft(Undo, w, mine), mine)

(* POST /manual-edit-discard.                                              *)
Discard(p) ==
  /\ discards < MaxDiscards /\ OfPage(buffer, p) # <<>>
  /\ LateTab \/ ~(Running(p) \/ Deciding(p))
  /\ \E checks \in BOOLEAN :
       LET w == RollBackTxn(World, p)
       IN  Become(Cancel([w EXCEPT !.buffer = SelectSeq(@, LAMBDA op : PageOf[op.ref] # p)], p, checks))
  /\ discards' = discards + 1
  /\ UNCHANGED <<saves, timeouts, restarts>>

-----------------------------------------------------------------------------
(* The agent, and time.                                                    *)

Held == {e \in DOMAIN events : events[e].agent = "held"}

Take(e) ==
  /\ events[e].agent = "queued" /\ Cardinality(Held) < MaxHeld
  /\ events' = [events EXCEPT ![e].agent = "held"]
  /\ UNCHANGED <<source, buffer, txn, commits, agreed, saves, timeouts, discards, restarts>>

(* The agent writes to the source whenever it works on an event.           *)
Write(e, op) ==
  /\ e \in Held /\ op \in Range(events[e].ops) /\ source[op.ref] # op.text
  /\ source' = [source EXCEPT ![op.ref] = op.text]
  /\ UNCHANGED <<buffer, txn, commits, events, agreed, saves, timeouts, discards, restarts>>

(* What validateManualApplyResultMessage lets through.                     *)
Results(ops) ==
  {r \in [status : {"done", "partial", "error"}, applied : SUBSET IdsOf(ops),
          failed : SUBSET IdsOf(ops), files : {{}, FilesOf(ops)}] :
     /\ r.status = "done" => r.failed = {} /\ r.applied # {}
     /\ r.status = "partial" => r.applied # {} \/ r.failed # {}
     /\ r.status = "error" => r.applied = {}}

(* What a careful agent says: applied is what it wrote.                    *)
Truthful(ops, r) ==
  /\ r.files = FilesOf(ops) /\ r.applied \cap r.failed = {}
  /\ \A op \in Range(ops) :
       /\ op.entry \in r.applied => source[op.ref] = op.text
       /\ op.entry \notin r.applied => source[op.ref] # op.text

(* A deliberate mistake (LateIsUndone): a late reply is only turned away.  *)
Late_Ignored(e) == UNCHANGED source

(* rollbackTimedOutReply.                                                  *)
Late(e) == source' = Restore(source, events[e].content, FilesOf(events[e].ops))

(* POST /poll with the result of an event.                                 *)
Reply(e) ==
  /\ e \in Held
  /\ \/ /\ events[e].state = "waiting"
        /\ \E r \in Results(events[e].ops), checks \in BOOLEAN :
             /\ Careless \/ Truthful(events[e].ops, r)
             /\ Become(Resume([World EXCEPT !.events[e].state = "gone", !.events[e].agent = "done"],
                              events[e].commit, r, checks))
     \/ /\ events[e].state = "late"
        /\ Late(e)
        /\ events' = [events EXCEPT ![e].state = "gone", ![e].agent = "done"]
        /\ UNCHANGED <<buffer, txn, commits, agreed>>
     \/ /\ events[e].state = "gone"
        /\ events' = [events EXCEPT ![e].agent = "done"]
        /\ UNCHANGED <<source, buffer, txn, commits, agreed>>
  /\ UNCHANGED <<saves, timeouts, discards, restarts>>

(* A deliberate mistake (CommitEnds, OneEventPerCommit): the timer only   *)
(* leaves a tombstone.                                                     *)
Timeout_NoReject(e) ==
  /\ timeouts < MaxTimeouts /\ events[e].state = "waiting"
  /\ events' = [events EXCEPT ![e].state = "late", ![e].agent = IF @ = "queued" THEN "never" ELSE @]
  /\ timeouts' = timeouts + 1
  /\ UNCHANGED <<source, buffer, txn, commits, agreed, saves, discards, restarts>>

(* The hard timeout of an event.                                           *)
Timeout(e) ==
  /\ timeouts < MaxTimeouts /\ events[e].state = "waiting"
  /\ \E checks \in BOOLEAN :
       Become(Resume([World EXCEPT !.events[e].state = "late",
                                   !.events[e].agent = IF @ = "queued" THEN "never" ELSE @],
                     events[e].commit, Rejected, checks))
  /\ timeouts' = timeouts + 1
  /\ UNCHANGED <<saves, discards, restarts>>

(* The server goes and comes back: commits and events were in memory.      *)
Restart ==
  /\ restarts < MaxRestarts
  /\ restarts' = restarts + 1
  /\ Become([RollBackTxn(World, txn.page) EXCEPT
       !.commits = [c \in DOMAIN @ |-> [@[c] EXCEPT !.phase = "ended"]],
       !.events = [e \in DOMAIN @ |->
         [@[e] EXCEPT !.state = "gone", !.agent = IF @ = "queued" THEN "never" ELSE @]]])
  /\ UNCHANGED <<saves, timeouts, discards>>

-----------------------------------------------------------------------------
Next ==
  \/ \E p \in Pages :
       \/ \E refs \in SUBSET Refs, t \in Text : Save(p, refs, t)
       \/ Commit(p) \/ KeepFixing(p) \/ Decide(p) \/ Discard(p)
  \/ \E e \in DOMAIN events :
       \/ Take(e) \/ Reply(e) \/ Timeout(e)
       \/ \E op \in Range(events[e].ops) : Write(e, op)
  \/ Restart

Spec == Init /\ [][Next]_vars

Armed == timeouts < MaxTimeouts /\ \E e \in DOMAIN events : events[e].state = "waiting"

(* Only timers are certain: the agent need not answer.  This is weak       *)
(* fairness of Timeout, which is enabled exactly when Armed.               *)
FairSpec == /\ Spec
            /\ []<>~Armed \/ []<><<\E e \in DOMAIN events : Timeout(e)>>_vars

-----------------------------------------------------------------------------
(* Properties.                                                             *)

TypeOK ==
  /\ {source, agreed} \subseteq [Refs -> Text]
  /\ buffer \in Seq(Op)
  /\ txn.id \in 0 .. MaxCommits /\ txn.content \in [Refs -> Text] /\ txn.entries \subseteq 1 .. MaxSaves
  /\ \A c \in DOMAIN commits :
       /\ commits[c].phase \in {"applying", "repairing", "decision", "ended"}
       /\ commits[c].attempt \in 0 .. MaxAttempts
  /\ \A e \in DOMAIN events :
       /\ events[e].state \in {"waiting", "late", "gone"}
       /\ events[e].agent \in {"queued", "held", "done", "never"}

(* A batch is dispatched whole, each op once, an entry that fits whole.    *)
ChunksCoverBatch ==
  \A c \in DOMAIN commits :
    LET batch == commits[c].batch
        chunks == Chunks(batch)
    IN  /\ FlattenSeq(chunks) = FlattenSeq(Entries(batch))
        /\ \A k \in DOMAIN chunks : Len(chunks[k]) \in 1 .. ChunkOps
        /\ \A k, l \in DOMAIN chunks : \A id \in IdsOf(chunks[k]) \cap IdsOf(chunks[l]) :
             k # l => Len(SelectSeq(batch, LAMBDA op : op.entry = id)) > ChunkOps

(* A running commit waits for exactly one event, so that it goes on        *)
(* whatever happens; an ended one for none.                                *)
OneEventPerCommit ==
  \A c \in DOMAIN commits :
    Cardinality({e \in DOMAIN events : events[e].state = "waiting" /\ events[e].commit = c})
      = IF commits[c].phase \in {"applying", "repairing"} THEN 1 ELSE 0

(* The transaction on disk is that of a commit that runs or waits for the  *)
(* user's decision: never a leftover that a later commit would restore.    *)
TxnHasOwner ==
  txn # NoTxn => \E c \in DOMAIN commits : commits[c].txn = txn.id /\ commits[c].phase # "ended"

(* live-commit-manual-edits.mjs:9: only what was reported applied is       *)
(* cleared: an edit leaves the buffer when it is in the source, when the   *)
(* user edits it again, or with a discard.                                 *)
LeavesWhenWritten ==
  discards' = discards =>
    \A r \in Refs : Staged(r) # {} /\ Staged(r)' = {} => Staged(r) = {source'[r]}

EditLeavesWhenWritten == [][LeavesWhenWritten]_vars

Quiet == /\ \A c \in DOMAIN commits : commits[c].phase = "ended"
         /\ Held = {} /\ \A e \in DOMAIN events : events[e].agent # "queued"

(* When nothing is under way, the source is what the user was told: the    *)
(* edits applied and no other, whatever the agent failed to write.  Late    *)
(* replies and discards during a commit break it.                          *)
SourceAsAgreed == Quiet => source = agreed

(* The same where they do not: a reply that comes after its timeout, and a *)
(* discard that cancels an event, undo what was written, as long as every  *)
(* event was dispatched before anything of its commit was in the source.   *)
(* The snapshot of a later chunk or of a repair has what went before in it.*)
DispatchedFirst ==
  \A e \in DOMAIN events : events[e].content = commits[events[e].commit].content

LateIsUndone == DispatchedFirst => SourceAsAgreed

(* live-browser.js:4081: after a failed repair the user may go back, so    *)
(* the transaction of the commit is there until the decision.              *)
DecisionKeepsTxn == \A c \in DOMAIN commits : commits[c].phase = "decision" => txn.id = commits[c].txn

(* Every commit ends, with a result or with a question to the user.        *)
CommitEnds ==
  \A c \in 1 .. MaxCommits :
    (c \in DOMAIN commits /\ commits[c].phase \in {"applying", "repairing"})
      ~> (c \in DOMAIN commits /\ commits[c].phase \in {"decision", "ended"})
=============================================================================
