------------------------ MODULE MCOrgMembershipSync ------------------------
(***************************************************************************)
(* The instances of OrgMembershipSync and of Invitations that one run of   *)
(* TLC checks: `case` says which, from the first state on.  What only the  *)
(* other module uses stays as it is: empty, or an org without members.     *)
(* TableInStep and RosterMends are checked as they are, in every instance. *)
(*                                                                         *)
(*   order    every webhook arrives and is applied in order; two logins    *)
(*   lost     webhooks are lost and overtake each other; a roster comes in *)
(*            pages of one                                                 *)
(*   invites  two requests about two invitations: under fairness           *)
(*   logins   a request and a sync with GitHub, whose roles change         *)
(***************************************************************************)
EXTENDS OrgMembershipSync

VARIABLES case, invitations, member, onGithub, reqs, left, settled, used

invited == <<invitations, member, onGithub, reqs, left, settled, used>>

Lossy == INSTANCE OrgMembershipSync WITH
  PageSize <- 1, InOrder <- FALSE, MayLose <- TRUE, MaxJobs <- 1

TwoRequests == {"p", "q"}

Invites == INSTANCE Invitations WITH
  Ids <- {1, 2}, Requests <- TwoRequests, Syncs <- {}, MaxLinks <- 2, MaxCrashes <- 1, MaxMoves <- 0

SignIns == INSTANCE Invitations WITH
  Ids <- {1}, Requests <- {"p"}, Syncs <- {"y"}, MaxLinks <- 1, MaxCrashes <- 1, MaxMoves <- 2

ASSUME Invites!InvitationAssumption /\ SignIns!InvitationAssumption

Unused == {}

NoInvitations ==
  /\ invitations = Unused /\ member = Unused /\ onGithub = Unused /\ reqs = Unused
  /\ left = Unused /\ settled = Unused /\ used = Unused

NoTable == Init /\ github = [l \in Logins |-> "none"]

MCInit ==
  \/ case = "order" /\ Init /\ NoInvitations
  \/ case = "lost" /\ Lossy!Init /\ NoInvitations
  \/ case = "invites" /\ Invites!Init /\ NoTable
  \/ case = "logins" /\ SignIns!Init /\ NoTable

MCNext ==
  \/ case = "order" /\ Next /\ UNCHANGED <<invited, case>>
  \/ case = "lost" /\ Lossy!Next /\ UNCHANGED <<invited, case>>
  \/ case = "invites" /\ Invites!Next /\ UNCHANGED <<vars, case>>
  \/ case = "logins" /\ SignIns!Next /\ UNCHANGED <<vars, case>>

(* The fairness of Invitations!FairSpec, for the instance that asks for it. *)
MCSpec ==
  /\ MCInit /\ [][MCNext]_<<vars, invited, case>>
  /\ \A q \in TwoRequests :
       /\ WF_invited(case = "invites" /\ Invites!RequestStep(q))
       /\ SF_invited(case = "invites" /\ Invites!Accept(q))

-----------------------------------------------------------------------------
(* The properties of the two modules, each where it is at stake.           *)

(* Types of the invitations: checked with what they let in.                *)
TypesOK ==
  /\ case = "invites" => Invites!InvitationTypeOK
  /\ case = "logins" => SignIns!InvitationTypeOK

(* Who accepted an invitation is in, wherever a request was cut off; and a *)
(* person who goes on trying is let in.                                    *)
InvitesLetIn ==
  /\ [](/\ TypesOK
        /\ case = "invites" => Invites!AcceptedIsIn
        /\ case = "logins" => SignIns!AcceptedIsIn)
  /\ \A i \in {1, 2} : []<>(case = "invites" => ~Invites!Live(i))

(* A login makes the person an admin just as GitHub does, and takes away   *)
(* no membership that an invitation gave; accepting never demotes.         *)
LoginsFollowGithub ==
  /\ [](case = "logins" => SignIns!AdminAsOnGithub)
  /\ [][case = "logins" => SignIns!KeepsInvited /\ SignIns!NeverDemotes]_invited
=============================================================================
