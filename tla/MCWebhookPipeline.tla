------------------------- MODULE MCWebhookPipeline -------------------------
(***************************************************************************)
(* The instances of WebhookPipeline that one run of TLC checks: `case`     *)
(* says which, from the first state on.  Each has deliveries of its own.   *)
(*                                                                         *)
(*   twin    an event that GitHub delivers twice under one GUID, with      *)
(*           faults, duplicate entries and rows that age: under fairness   *)
(*   broken  a payload without its required fields, then a removal         *)
(*   return  a member removed and added again, two consumers               *)
(*   order   a member added and removed, behind an event of an             *)
(*           installation that is not known, while a reconcile job runs    *)
(***************************************************************************)
EXTENDS WebhookPipeline

CONSTANTS c1, c2

VARIABLE case

TwinDeliveries   == 1 .. 2
BrokenDeliveries == 3 .. 4
ReturnDeliveries == 5 .. 6
OrderDeliveries  == 7 .. 9

KindOf   == <<"event", "event", "malformed", "removed", "removed", "added", "event", "added", "removed">>
GuidOf   == <<"g1", "g1", "g3", "g4", "g5", "g6", "g7", "g8", "g9">>
TenantOf == <<"t", "t", "t", "t", "t", "t", NoTenant, "t", "t">>

Broken == INSTANCE WebhookPipeline WITH
  Deliveries <- BrokenDeliveries, MaxFaults <- 1, MaxCopies <- 1

Return == INSTANCE WebhookPipeline WITH
  Deliveries <- ReturnDeliveries, Consumers <- {c1, c2},
  MaxFaults <- 0, MaxAge <- Fresh, MaxReconciles <- 1

Order == INSTANCE WebhookPipeline WITH
  Deliveries <- OrderDeliveries, BatchSize <- 2, MaxFaults <- 1, MaxAge <- Fresh, MaxReconciles <- 1

MCInit ==
  \/ case = "twin" /\ Init
  \/ case = "broken" /\ Broken!Init
  \/ case = "return" /\ Return!Init
  \/ case = "order" /\ Order!Init

MCNext ==
  \/ case = "twin" /\ Next /\ UNCHANGED case
  \/ case = "broken" /\ Broken!Next /\ UNCHANGED case
  \/ case = "return" /\ Return!Next /\ UNCHANGED case
  \/ case = "order" /\ Order!Next /\ UNCHANGED case

(* WebhookPipeline!Fairness, for the instance that is checked under it.     *)
MCSpec ==
  /\ MCInit /\ [][MCNext]_<<vars, case>>
  /\ WF_vars(case = "twin" /\ ConsumerStep(c1))
  /\ \A d \in Deliveries :
       /\ WF_vars(case = "twin" /\ (Enqueue(d) \/ MarkQueueFailed(d)))
       /\ WF_vars(case = "twin" /\ RowAges(d))
       /\ WF_vars(case = "twin" /\ \E e \in DOMAIN pel : stream[e] = d /\ EntryIdles(e))
  /\ WF_vars(case = "twin" /\ SweepStep)
  /\ WF_vars(case = "twin" /\ ReconcileUnlocks("t"))
  /\ WF_vars(case = "twin" /\ BackoffEnds(c1, "t"))

-----------------------------------------------------------------------------
(* The properties of WebhookPipeline, each where it is at stake: the       *)
(* invariants are checked as they are, in every instance.                  *)

(* Types, in every instance: checked with NothingGoesBack.                 *)
TypesOK ==
  /\ case = "twin" => TypeOK
  /\ case = "broken" => Broken!TypeOK
  /\ case = "return" => Return!TypeOK
  /\ case = "order" => Order!TypeOK

(* A reconcile job that holds the lock costs a waiting event no attempt.   *)
(* No step takes a delivery back: none overtakes one of its tenant that    *)
(* waits for the lock, and none reopens what was settled.                  *)
NothingGoesBack ==
  /\ [](TypesOK /\ (case = "order" => Order!WaitingCostsNoAttempt))
  /\ [][/\ case = "twin" => StaysSettled
        /\ case = "broken" => Broken!StaysSettled
        /\ case = "order" => Order!InStreamOrder]_vars

(* Every delivery is settled in the end: EveryDeliverySettles, asked of no *)
(* state of the other instances.                                           *)
AllSettle ==
  \A d \in Deliveries : case = "twin" /\ Expected(d) ~> case # "twin" \/ Settled(d)
=============================================================================
