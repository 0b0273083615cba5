--------------------------- MODULE MCManualEdits ---------------------------
(***************************************************************************)
(* The instances of ManualEdits that one run of TLC checks: `case` says    *)
(* which, from the first state on.  A page has its texts in one file.      *)
(*                                                                         *)
(*   timers   two texts, an agent that may claim what it did not write and *)
(*            need not answer: under fairness                              *)
(*   restart  the same with a restart and a discard                        *)
(*   agreed   three texts in chunks of two, a careful agent, a discard     *)
(*            between two commits                                          *)
(*   late     one commit of a careful agent that may reply too late; a tab *)
(*            saves and discards meanwhile                                 *)
(***************************************************************************)
EXTENDS ManualEdits

VARIABLE case

TwoRefs   == {"title", "lead"}
ThreeRefs == TwoRefs \cup {"button"}
OnePage   == [r \in TwoRefs |-> "home"]
OneFile   == [r \in TwoRefs |-> "index"]

Restarted == INSTANCE ManualEdits WITH
  MaxSaves <- 1, MaxCommits <- 2, MaxTimeouts <- 1, MaxDiscards <- 1, MaxRestarts <- 1

Careful == INSTANCE ManualEdits WITH
  Refs <- ThreeRefs, PageOf <- [r \in ThreeRefs |-> "home"],
  FileOf <- [r \in ThreeRefs |-> "index"], ChunkOps <- 2, Careless <- FALSE,
  MaxSaves <- 2, MaxCommits <- 2, MaxTimeouts <- 0, MaxDiscards <- 1

Later == INSTANCE ManualEdits WITH
  Refs <- ThreeRefs, PageOf <- [r \in ThreeRefs |-> "home"],
  FileOf <- [r \in ThreeRefs |-> "index"], ChunkOps <- 3, Careless <- FALSE, LateTab <- TRUE,
  MaxSaves <- 2, MaxCommits <- 1, MaxTimeouts <- 2, MaxDiscards <- 1

MCInit ==
  \/ case = "timers" /\ Init
  \/ case = "restart" /\ Restarted!Init
  \/ case = "agreed" /\ Careful!Init
  \/ case = "late" /\ Later!Init

MCNext ==
  \/ case = "timers" /\ Next /\ UNCHANGED case
  \/ case = "restart" /\ Restarted!Next /\ UNCHANGED case
  \/ case = "agreed" /\ Careful!Next /\ UNCHANGED case
  \/ case = "late" /\ Later!Next /\ UNCHANGED case

(* The fairness of FairSpec, for the first instance.                       *)
MCSpec ==
  /\ MCInit /\ [][MCNext]_<<vars, case>>
  /\ \/ []<>~(case = "timers" /\ Armed)
     \/ []<><<case = "timers" /\ \E e \in DOMAIN events : Timeout(e)>>_vars

-----------------------------------------------------------------------------
(* The properties of ManualEdits, each where it is at stake.               *)

(* Types, in every instance: checked with the invariant.                   *)
TypesOK ==
  /\ case = "timers" => TypeOK
  /\ case = "restart" => Restarted!TypeOK
  /\ case = "agreed" => Careful!TypeOK
  /\ case = "late" => Later!TypeOK

(* While nothing is under way the source is what the user was told, though *)
(* an agent fails (agreed), or replies too late to the one event of a      *)
(* commit, or a discard cancels it (late).  A batch is dispatched whole,   *)
(* and a running commit waits for one event.                               *)
(* After a restart too, the transaction on disk is that of a commit that   *)
(* runs or waits for the user, and is there as long as the user may decide. *)
SourceIsAsAgreed ==
  /\ TypesOK
  /\ case = "agreed" => Careful!SourceAsAgreed /\ Careful!ChunksCoverBatch /\ Careful!OneEventPerCommit
  /\ case = "late" => Later!LateIsUndone /\ Later!OneEventPerCommit
  /\ case = "timers" => OneEventPerCommit
  /\ case = "restart" => Restarted!TxnHasOwner /\ Restarted!DecisionKeepsTxn

(* An edit leaves the buffer only when it is in the source.                *)
EditsLeaveWhenWritten ==
  [][/\ case = "timers" => LeavesWhenWritten
     /\ case = "restart" => Restarted!LeavesWhenWritten
     /\ case = "agreed" => Careful!LeavesWhenWritten]_vars

(* Every commit ends, with a result or a question to the user.             *)
CommitsEnd == case = "timers" => CommitEnds
=============================================================================
