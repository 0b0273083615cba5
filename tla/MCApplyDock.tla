---------------------------- MODULE MCApplyDock ----------------------------
(***************************************************************************)
(* The instances of ApplyDock that one run of TLC checks: `case` says      *)
(* which, from the first state on.  Two tabs show the page.                *)
(*                                                                         *)
(*   clicks  saves, commits and a discard                                  *)
(*   reload  fewer of each, with a reload and a rollback                   *)
(*   ends    a rollback and a discard, under fairness                      *)
(***************************************************************************)
EXTENDS ApplyDock

VARIABLE case

Reloaded == INSTANCE ApplyDock WITH
  MaxCommits <- 2, MaxSaves <- 2, MaxRollbacks <- 1, MaxReloads <- 1

Ending == INSTANCE ApplyDock WITH MaxSaves <- 2, MaxRollbacks <- 1

MCInit ==
  \/ case = "clicks" /\ Init
  \/ case = "reload" /\ Reloaded!Init
  \/ case = "ends" /\ Ending!Init

MCNext ==
  \/ case = "clicks" /\ Next /\ UNCHANGED case
  \/ case = "reload" /\ Reloaded!Next /\ UNCHANGED case
  \/ case = "ends" /\ Ending!Next /\ UNCHANGED case

(* The fairness of FairSpec, for the instance that must end.               *)
MCSpec ==
  /\ MCInit /\ [][MCNext]_<<vars, case>>
  /\ \A t \in Tabs :
       /\ WF_vars(case = "ends" /\ Ending!Hear(t))
       /\ WF_vars(case = "ends" /\ \E a \in answers[t] : Ending!Receive(t, a))
  /\ WF_vars(case = "ends" /\ \E j \in jobs : \/ Ending!Done(j)
                                              \/ Ending!NeedsDecision(j)
                                              \/ Ending!Failed(j))

-----------------------------------------------------------------------------
(* CountIsStaged and ControlsFit are checked as they are, in every         *)
(* instance.                                                               *)

(* Types, in every instance.                                               *)
TypesOK ==
  /\ case = "clicks" => TypeOK
  /\ case = "reload" => Reloaded!TypeOK
  /\ case = "ends" => Ending!TypeOK

(* A dock that locked the page frees it or asks, in the end.               *)
ApplyingEnds == []TypesOK /\ (case = "ends" => ApplyEnds)
=============================================================================
