---------------------------- MODULE MCLiveServer ----------------------------
(***************************************************************************)
(* The instances of LiveServer that one run of TLC checks: `case` says     *)
(* which, from the first state on.                                         *)
(*                                                                         *)
(*   agent    a session and a steer message, an agent that answers what it *)
(*            got, and a restart: under fairness                           *)
(*   forgets  a session with checkpoints, an agent that may drop an event, *)
(*            and a restart                                                *)
(***************************************************************************)
EXTENDS LiveServer

CONSTANT s1

VARIABLE case

Forgets == INSTANCE LiveServer WITH
  Sessions <- {s1}, Steers <- {}, MaxHeld <- 1, MaxForgets <- 1, MaxRevision <- 1

MCInit ==
  \/ case = "agent" /\ Init
  \/ case = "forgets" /\ Forgets!Init

MCNext ==
  \/ case = "agent" /\ Next /\ UNCHANGED case
  \/ case = "forgets" /\ Forgets!Next /\ UNCHANGED case

(* The fairness of FairSpec, for the first instance.                       *)
MCSpec ==
  /\ MCInit /\ [][MCNext]_<<vars, case>>
  /\ WF_vars(case = "agent" /\ Tick) /\ WF_vars(case = "agent" /\ LeaseTimerFires)
  /\ SF_vars(case = "agent" /\ Poll)
  /\ WF_vars(case = "agent" /\ \E i \in DOMAIN held : Reply(i) \/ Stop(i))
  /\ WF_vars(case = "agent" /\ \E i \in DOMAIN held : held[i].id = NoId /\ Forget(i))

-----------------------------------------------------------------------------
(* The properties of LiveServer, each where it is at stake; PendingIsInQueue *)
(* is checked in both instances.                                           *)

(* Types, in both instances: checked with the liveness.                    *)
TypesOK ==
  /\ case = "agent" => TypeOK
  /\ case = "forgets" => Forgets!TypeOK

(* An event that waits for a poll is handed over in the end.               *)
AgentGetsEvents == []TypesOK /\ (case = "agent" => EventsReachAgent)
=============================================================================
