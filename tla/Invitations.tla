---------------------------- MODULE Invitations ----------------------------
(***************************************************************************)
(* How one person gets into an org: invitations (routers/invitations.py    *)
(* and invitation_repo.py), and the sync of a GitHub login                 *)
(* (org_provisioning.py), which both write the same row of `memberships`.  *)
(*                                                                         *)
(* A step is what one request does up to its next commit, or up to a read  *)
(* that others may overtake.  Only reissue locks the invitation; the other *)
(* requests read it, decide, and write what they decided.  A request may   *)
(* be cut off between any two steps.                                       *)
(*                                                                         *)
(* One email address stands for all: invitations of two addresses have     *)
(* nothing in common.  A link is its number, and the newest is the one a   *)
(* row has.  The invited person's account has that address, verified.      *)
(* Audit rows and the sending of mail are left out.                        *)
(***************************************************************************)
EXTENDS Integers, FiniteSets

CONSTANTS
  Ids,       \* ids of invitations, in the order they are created
  Requests,  \* requests of admins and of the invited person at once
  Syncs,     \* logins with GitHub at once
  MaxLinks, MaxCrashes, MaxMoves  \* bounds

InvitationAssumption ==
  /\ Ids \subseteq Nat /\ IsFiniteSet(Ids) /\ Requests \cap Syncs = {}
  /\ MaxLinks \in Nat \ {0} /\ {MaxCrashes, MaxMoves} \subseteq Nat

VARIABLES
  invitations,  \* rows: status, whether expires_at has passed, the number of the link
  member,       \* the person's row of `memberships`: role and source
  onGithub,     \* the person's role in the GitHub org, or "none"
  reqs,         \* what each request and each sync is about to do
  left,         \* history: a sync removed the person last
  settled,      \* history: a sync that saw GitHub as it is has ended
  used          \* how much of the bounds is used

ivars == <<invitations, member, onGithub, reqs, left, settled, used>>

Final    == {"accepted", "revoked"}
NoMember == [role |-> "none", source |-> "none"]
NoId     == -1
Idle     == [pc |-> "idle", id |-> NoId, link |-> 0, saw |-> "none", late |-> FALSE]

Init ==
  /\ invitations = [i \in Ids |-> [st |-> "none", lapsed |-> FALSE, link |-> 0]]
  /\ member = NoMember
  /\ onGithub \in {"none", "admin"}
  /\ reqs = [q \in Requests \cup Syncs |-> Idle]
  /\ left = FALSE /\ settled = FALSE
  /\ used = [crashes |-> 0, moves |-> 0]

At(q, pc)  == reqs[q].pc = pc
Go(q, req) == reqs' = [reqs EXCEPT ![q] = req]
To(q, pc)  == Go(q, [reqs[q] EXCEPT !.pc = pc])
Use(what, max) == used[what] < max /\ used' = [used EXCEPT ![what] = @ + 1]

-----------------------------------------------------------------------------
(* Admins                                                                  *)

Pending(rows) == {i \in Ids : rows[i].st = "pending"}
Live(i) == invitations[i].st = "pending" /\ ~invitations[i].lapsed

\* _expire_lapsed
Expired(rows, spared) ==
  [i \in Ids |-> IF rows[i].st = "pending" /\ rows[i].lapsed /\ i # spared
                 THEN [rows[i] EXCEPT !.st = "expired"] ELSE rows[i]]

New(i) == invitations[i].st = "none" /\ \A j \in Ids : j < i => invitations[j].st # "none"

\* create_invitation: nothing live was found ...
Create(q) ==
  /\ At(q, "idle") /\ ~\E i \in Ids : Live(i)
  /\ To(q, "insert")
  /\ UNCHANGED <<invitations, member, onGithub, left, settled, used>>

\* ... and the index may still refuse the row of the second of two that looked at once.
Insert(q) ==
  /\ At(q, "insert")
  /\ IF Pending(Expired(invitations, NoId)) # {} \/ ~\E i \in Ids : New(i)
     THEN UNCHANGED invitations
     ELSE \E i \in Ids : New(i) /\ invitations' = [Expired(invitations, NoId) EXCEPT ![i] =
                                     [st |-> "pending", lapsed |-> FALSE, link |-> 1]]
  /\ Go(q, Idle)
  /\ UNCHANGED <<member, onGithub, left, settled, used>>

\* revoke_invitation: the status is checked ...
AskRevoke(q) ==
  /\ At(q, "idle")
  /\ \E i \in Pending(invitations) : Go(q, [Idle EXCEPT !.pc = "revoke", !.id = i])
  /\ UNCHANGED <<invitations, member, onGithub, left, settled, used>>

\* ... and written, whatever it is by now.
Revoke(q) ==
  /\ At(q, "revoke")
  /\ invitations' = [invitations EXCEPT ![reqs[q].id].st = "revoked"]
  /\ Go(q, Idle)
  /\ UNCHANGED <<member, onGithub, left, settled, used>>

\* regenerate and resend: the row is locked from the check to the commit.
Reissue ==
  /\ \E i \in Ids :
       LET rows == Expired(invitations, i)
       IN  /\ invitations[i].st \in {"pending", "expired"} /\ invitations[i].link < MaxLinks
           /\ Pending(rows) \subseteq {i}
           /\ invitations' = [rows EXCEPT ![i] = [st |-> "pending", lapsed |-> FALSE, link |-> @.link + 1]]
  /\ UNCHANGED <<member, onGithub, reqs, left, settled, used>>

\* Seven days go by.
Lapse ==
  /\ \E i \in Ids : Live(i) /\ invitations' = [invitations EXCEPT ![i].lapsed = TRUE]
  /\ UNCHANGED <<member, onGithub, reqs, left, settled, used>>

-----------------------------------------------------------------------------
(* The invited person                                                      *)

\* A link that was replaced finds no row.  One that lapsed is written off first.
Open(q, i, pc) ==
  /\ At(q, "idle") /\ invitations[i].st = "pending"
  /\ Go(q, [Idle EXCEPT !.pc = IF invitations[i].lapsed THEN "expire" ELSE pc, !.id = i,
                        !.link = invitations[i].link, !.saw = pc])
  /\ UNCHANGED <<invitations, member, onGithub, left, settled, used>>

Preview(q) == \E i \in Ids : invitations[i].lapsed /\ Open(q, i, "preview")
Accept(q)  == \E i \in Ids : Open(q, i, "find")

\* _expire; accept_invitation goes by the row as it is read again.
Expire(q) ==
  /\ At(q, "expire")
  /\ invitations' = [invitations EXCEPT ![reqs[q].id].st = "expired"]
  /\ IF reqs[q].saw = "find" THEN To(q, "refresh") ELSE Go(q, Idle)
  /\ UNCHANGED <<member, onGithub, left, settled, used>>

Refresh(q) ==
  /\ At(q, "refresh")
  /\ IF invitations[reqs[q].id].st = "pending" THEN To(q, "find") ELSE Go(q, Idle)
  /\ UNCHANGED <<invitations, member, onGithub, left, settled, used>>

\* Mistake (InvitesLetIn): who is a member already is told so.
Find_Refuses(q) ==
  /\ At(q, "find")
  /\ IF member = NoMember THEN To(q, "persist") ELSE Go(q, Idle)
  /\ UNCHANGED <<invitations, member, onGithub, left, settled, used>>

\* create_if_missing: a row that exists is kept ...
Find(q) ==
  /\ At(q, "find")
  /\ To(q, IF member = NoMember THEN "persist" ELSE "mark")
  /\ UNCHANGED <<invitations, member, onGithub, left, settled, used>>

\* Mistake (LoginsFollowGithub): the role of the invitation is written over another's.
Invited_Always(m) == [role |-> "member", source |-> "invite"]

\* ... also one that somebody else inserted first.
Invited(m) == IF m = NoMember THEN [role |-> "member", source |-> "invite"] ELSE m

Persist(q) ==
  /\ At(q, "persist")
  /\ member' = Invited(member)
  /\ left' = FALSE
  /\ To(q, "mark")
  /\ UNCHANGED <<invitations, onGithub, settled, used>>

Mark(q) ==
  /\ At(q, "mark")
  /\ invitations' = [invitations EXCEPT ![reqs[q].id].st = "accepted"]
  /\ Go(q, Idle)
  /\ UNCHANGED <<member, onGithub, left, settled, used>>

Crash(q) ==
  /\ ~At(q, "idle") /\ Use("crashes", MaxCrashes)
  /\ Go(q, Idle)
  /\ UNCHANGED <<invitations, member, onGithub, left, settled>>

-----------------------------------------------------------------------------
(* A login with GitHub: sync_org_admin_memberships                         *)

\* The role on GitHub changes: what a running sync was told is late.
Move ==
  /\ Use("moves", MaxMoves)
  /\ \E role \in {"none", "member", "admin"} \ {onGithub} : onGithub' = role
  /\ settled' = FALSE
  /\ reqs' = [q \in Requests \cup Syncs |-> IF q \in Syncs THEN [reqs[q] EXCEPT !.late = TRUE] ELSE reqs[q]]
  /\ UNCHANGED <<invitations, member, left>>

ListGithub(y) ==
  /\ At(y, "idle")
  /\ Go(y, [Idle EXCEPT !.pc = IF onGithub = "admin" THEN "look" ELSE "list", !.saw = onGithub])
  /\ UNCHANGED <<invitations, member, onGithub, left, settled, used>>

LookUp(y) ==
  /\ At(y, "look")
  /\ To(y, IF member.role = "admin" THEN "list" ELSE "grant")
  /\ UNCHANGED <<invitations, member, onGithub, left, settled, used>>

\* Mistake (LoginsFollowGithub): a promoted row keeps its source.
Upserted_KeepsSource(m) == [role |-> "admin", source |-> IF m = NoMember THEN "github" ELSE m.source]

\* upsert_membership: a change of the role takes the row over.
Upserted(m) == IF m.role = "admin" THEN m ELSE [role |-> "admin", source |-> "github"]

Grant(y) ==
  /\ At(y, "grant")
  /\ member' = Upserted(member)
  /\ left' = FALSE
  /\ To(y, "list")
  /\ UNCHANGED <<invitations, onGithub, settled, used>>

\* Mistake (LoginsFollowGithub): rows of any source are reconciled.
Reconciles_Any(m) == m # NoMember

\* Only rows that GitHub is the source of are reconciled.
Reconciles(m) == m # NoMember /\ m.source = "github"

End(y) == Go(y, Idle) /\ settled' = (settled \/ ~reqs[y].late)

ListMemberships(y) ==
  /\ At(y, "list")
  /\ IF Reconciles(member) /\ reqs[y].saw = "none" THEN To(y, "delete") /\ UNCHANGED settled
     ELSE IF Reconciles(member) /\ reqs[y].saw = "member" /\ member.role # "member"
          THEN To(y, "demote") /\ UNCHANGED settled
          ELSE End(y)
  /\ UNCHANGED <<invitations, member, onGithub, left, used>>

Delete(y) ==
  /\ At(y, "delete")
  /\ member' = NoMember /\ left' = TRUE
  /\ End(y)
  /\ UNCHANGED <<invitations, onGithub, used>>

Demote(y) ==
  /\ At(y, "demote")
  /\ member' = IF member = NoMember THEN member ELSE [member EXCEPT !.role = "member"]
  /\ End(y)
  /\ UNCHANGED <<invitations, onGithub, left, used>>

-----------------------------------------------------------------------------
RequestStep(q) == Insert(q) \/ Revoke(q) \/ Expire(q) \/ Refresh(q) \/ Find(q) \/ Persist(q) \/ Mark(q)
SyncStep(y) == LookUp(y) \/ Grant(y) \/ ListMemberships(y) \/ Delete(y) \/ Demote(y)

Next ==
  \/ \E q \in Requests : RequestStep(q) \/ Create(q) \/ AskRevoke(q) \/ Preview(q) \/ Accept(q)
  \/ \E y \in Syncs : SyncStep(y) \/ ListGithub(y)
  \/ \E q \in Requests \cup Syncs : Crash(q)
  \/ Reissue \/ Lapse \/ Move

Spec == Init /\ [][Next]_ivars

\* Requests end, and the person goes on opening a link that works.
FairSpec ==
  /\ Spec
  /\ \A q \in Requests : WF_ivars(RequestStep(q)) /\ SF_ivars(Accept(q))

-----------------------------------------------------------------------------
(* Properties *)

\* Types; and no two invitations are pending at once.
InvitationTypeOK ==
  /\ \A i \in Ids : /\ invitations[i].st \in Final \cup {"none", "pending", "expired"}
                    /\ invitations[i].link \in 0 .. MaxLinks
  /\ \A i, j \in Pending(invitations) : i = j
  /\ member = NoMember \/ member \in [role : {"member", "admin"}, source : {"invite", "github"}]

\* Who accepted is a member, unless a sync removed them since: also when the request was cut off.
AcceptedIsIn == (\E i \in Ids : invitations[i].st = "accepted") => member # NoMember \/ left

\* A person who goes on trying is let in: no link works for ever.
LinkIsUsed == \A i \in Ids : []<>~Live(i)

\* Once a sync has seen GitHub as it is, an admin is an admin there, and an admin there is one here.
AdminAsOnGithub == settled => (member.role = "admin") = (onGithub = "admin")

\* What an invitation gave is not taken by what GitHub says.
KeepsInvited == member.source = "invite" => member' # NoMember

\* Accepting never demotes.
NeverDemotes == (\E q \in Requests : At(q, "persist") /\ reqs'[q].pc = "mark") =>
                   member = NoMember \/ member' = member

\* "accepted and revoked ones are final"
FinalStays == \A i \in Ids : invitations[i].st \in Final => invitations'[i].st = invitations[i].st

\* "the previous link stops working"
OldLinkIsDead ==
  \A q \in Requests : At(q, "mark") /\ reqs'[q] = Idle /\ invitations'[reqs[q].id].st = "accepted" =>
    reqs[q].link = invitations[reqs[q].id].link

\* A link that was just made is not written off.
FreshLinkStays == \A i \in Ids : Live(i) => invitations'[i].st # "expired"
=============================================================================
