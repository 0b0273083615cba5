------------------------- MODULE MembershipProofs -------------------------
(***************************************************************************)
(* Proofs about OrgMembershipSync.tla, for any logins, page size and       *)
(* numbers of changes and jobs, in order or not, with and without losses,  *)
(* and about Invitations.tla, for any number of invitations, links,        *)
(* requests and moves.  Each theorem is about one of the two; as in        *)
(* MCOrgMembershipSync they are kept apart.                                *)
(*                                                                         *)
(* OrgMembershipSync: its types, that the table follows GitHub             *)
(* (TableInStep) and that a roster repairs it (RosterMends).  The          *)
(* invariant says of every login what its last pending event will do to    *)
(* the table: while nothing is amiss that event tells what the login is on *)
(* GitHub, and if it is a removal no row is newer than its stamp.          *)
(***************************************************************************)
EXTENDS OrgMembershipSync, FiniteSetTheorems, SequenceTheorems, TLAPS

CONSTANTS Ids, Requests, Syncs, MaxLinks, MaxCrashes, MaxMoves            \* of Invitations
VARIABLES invitations, member, onGithub, reqs, left, settled, used        \* of Invitations

I == INSTANCE Invitations

-----------------------------------------------------------------------------
(* OrgMembershipSync.                                                      *)

(* l is in an event of the sequence; its last one is the i-th.             *)
In(s, l) == \E i \in DOMAIN s : s[i].login = l

LastOf(s, l, i) == /\ i \in DOMAIN s /\ s[i].login = l
                   /\ \A j \in DOMAIN s : j > i => s[j].login # l

-----------------------------------------------------------------------------
(* Sequences: what is pending after one event more or less. *)

(* RemoveAt leaves out one element and keeps the order of the others.      *)
LEMMA RemovedAt ==
  ASSUME NEW S, NEW s \in Seq(S), NEW i \in DOMAIN s
  PROVE  /\ RemoveAt(s, i) \in Seq(S) /\ Len(RemoveAt(s, i)) = Len(s) - 1
         /\ \A k \in DOMAIN RemoveAt(s, i) :
              RemoveAt(s, i)[k] = s[IF k < i THEN k ELSE k + 1]
  <1>1. i \in 1 .. Len(s) /\ Len(s) \in Nat  OBVIOUS
  <1> DEFINE front == SubSeq(s, 1, i - 1)
             back  == SubSeq(s, i + 1, Len(s))
  <1>2. /\ front \in Seq(S) /\ Len(front) = i - 1
        /\ \A k \in 1 .. i - 1 : front[k] = s[k]
    BY <1>1
  <1>3. /\ back \in Seq(S) /\ Len(back) = Len(s) - i
        /\ \A k \in 1 .. Len(s) - i : back[k] = s[k + i]
    BY <1>1
  <1>4. RemoveAt(s, i) = front \o back  BY DEF RemoveAt
  <1> HIDE DEF front, back
  <1>5. /\ front \o back \in Seq(S) /\ Len(front \o back) = Len(s) - 1
        /\ \A k \in 1 .. Len(s) - 1 :
             (front \o back)[k] = IF k <= i - 1 THEN front[k] ELSE back[k - (i - 1)]
    <2>1. Len(front) + Len(back) = Len(s) - 1 /\ Len(front) \in Nat /\ Len(back) \in Nat
      BY <1>1, <1>2, <1>3
    <2>2. /\ front \o back \in Seq(S) /\ Len(front \o back) = Len(front) + Len(back)
          /\ \A k \in 1 .. Len(front) + Len(back) :
               (front \o back)[k] = IF k <= Len(front) THEN front[k] ELSE back[k - Len(front)]
      BY <1>2, <1>3, ConcatProperties
    <2> QED  BY <1>2, <2>1, <2>2
  <1>6. ASSUME NEW k \in 1 .. Len(s) - 1
        PROVE  (front \o back)[k] = s[IF k < i THEN k ELSE k + 1]
    <2>1. CASE k < i  BY <1>1, <1>2, <1>5, <2>1
    <2>2. CASE ~(k < i)
      <3>1. k - (i - 1) \in 1 .. Len(s) - i /\ (k - (i - 1)) + i = k + 1  BY <1>1, <2>2
      <3>2. back[k - (i - 1)] = s[k + 1]  BY <1>3, <3>1
      <3>3. (front \o back)[k] = IF k <= i - 1 THEN front[k] ELSE back[k - (i - 1)]  BY <1>5
      <3>4. ~(k <= i - 1)  BY <1>1, <2>2
      <3> QED  BY <2>2, <3>2, <3>3, <3>4
    <2> QED  BY <2>1, <2>2
  <1> DEFINE r == RemoveAt(s, i)
  <1>7. r \in Seq(S) /\ Len(r) = Len(s) - 1 /\ DOMAIN r = 1 .. Len(s) - 1
    BY <1>4, <1>5
  <1>8. \A k \in 1 .. Len(s) - 1 : r[k] = s[IF k < i THEN k ELSE k + 1]
    BY <1>4, <1>6
  <1> QED  BY <1>7, <1>8

(* What is left was there before, in the order in which it was.            *)
LEMMA LeftOver ==
  ASSUME NEW S, NEW s \in Seq(S), NEW i \in DOMAIN s, NEW r, r = RemoveAt(s, i)
  PROVE  /\ r \in Seq(S)
         /\ \A k \in DOMAIN r : \E j \in DOMAIN s : r[k] = s[j]
         /\ \A j, k \in DOMAIN r : j < k => \E m, n \in DOMAIN s : m < n /\ r[j] = s[m] /\ r[k] = s[n]
         /\ \A l : In(r, l) => In(s, l)
  <1>1. /\ r \in Seq(S) /\ DOMAIN r = 1 .. Len(s) - 1 /\ DOMAIN s = 1 .. Len(s) /\ Len(s) \in Nat
        /\ \A k \in DOMAIN r : r[k] = s[IF k < i THEN k ELSE k + 1]
    BY RemovedAt
  <1>2. \A k \in DOMAIN r : (IF k < i THEN k ELSE k + 1) \in DOMAIN s
    BY <1>1
  <1>3. \A j, k \in DOMAIN r : j < k => (IF j < i THEN j ELSE j + 1) < (IF k < i THEN k ELSE k + 1)
    BY <1>1
  <1> QED  BY <1>1, <1>2, <1>3 DEF In

(* The head is gone: the last event of every other login is still the last *)
(* one.                                                                    *)
LEMMA HeadGone ==
  ASSUME NEW S, NEW s \in Seq(S), 1 \in DOMAIN s, NEW r, r = RemoveAt(s, 1)
  PROVE  /\ r \in Seq(S)
         /\ \A j \in DOMAIN s : j # 1 => j - 1 \in DOMAIN r /\ r[j - 1] = s[j]
         /\ \A k \in DOMAIN r : k + 1 \in DOMAIN s /\ r[k] = s[k + 1]
         /\ \A l, k : LastOf(r, l, k) => LastOf(s, l, k + 1)
         /\ \A l : In(r, l) => In(s, l)
         /\ \A l : In(s, l) => In(r, l) \/ LastOf(s, l, 1)
  <1>1. /\ r \in Seq(S) /\ DOMAIN r = 1 .. Len(s) - 1 /\ DOMAIN s = 1 .. Len(s) /\ Len(s) \in Nat
        /\ \A k \in DOMAIN r : r[k] = s[k + 1]
    <2>1. \A k \in DOMAIN r : r[k] = s[IF k < 1 THEN k ELSE k + 1]  BY RemovedAt
    <2>2. r \in Seq(S) /\ DOMAIN r = 1 .. Len(s) - 1 /\ DOMAIN s = 1 .. Len(s) /\ Len(s) \in Nat
      BY RemovedAt
    <2> QED  BY <2>1, <2>2
  <1>2. \A k \in DOMAIN r : k + 1 \in DOMAIN s /\ r[k] = s[k + 1]  BY <1>1
  <1>3. \A j \in DOMAIN s : j # 1 => j - 1 \in DOMAIN r /\ r[j - 1] = s[j]
    <2> TAKE j \in DOMAIN s
    <2> HAVE j # 1
    <2>1. j - 1 \in DOMAIN r /\ (j - 1) + 1 = j  BY <1>1
    <2> QED  BY <1>1, <2>1
  <1>4. ASSUME NEW l, NEW k, LastOf(r, l, k) PROVE LastOf(s, l, k + 1)
    <2>1. k \in DOMAIN r /\ s[k + 1].login = l  BY <1>2, <1>4 DEF LastOf
    <2>2. ASSUME NEW j \in DOMAIN s, j > k + 1 PROVE s[j].login # l
      <3>1. j - 1 \in DOMAIN r /\ r[j - 1] = s[j] /\ j - 1 > k  BY <1>1, <1>3, <2>1, <2>2
      <3> QED  BY <1>4, <3>1 DEF LastOf
    <2> QED  BY <1>2, <2>1, <2>2 DEF LastOf
  <1>5. ASSUME NEW l, In(s, l), ~In(r, l) PROVE LastOf(s, l, 1)
    <2>1. \A j \in DOMAIN s : j # 1 => s[j].login # l  BY <1>3, <1>5 DEF In
    <2> QED  BY <1>1, <1>5, <2>1 DEF In, LastOf
  <1> QED  BY <1>1, <1>2, <1>3, <1>4, <1>5 DEF In

(* An event more at the end.                                               *)
LEMMA Appended ==
  ASSUME NEW S, NEW s \in Seq(S), NEW e \in S, NEW r, r = Append(s, e)
  PROVE  /\ r \in Seq(S)
         /\ DOMAIN r = DOMAIN s \cup {Len(s) + 1} /\ Len(s) + 1 \notin DOMAIN s
         /\ r[Len(s) + 1] = e
         /\ \A k \in DOMAIN s : r[k] = s[k] /\ k < Len(s) + 1
         /\ \A l : In(r, l) <=> In(s, l) \/ e.login = l
         /\ \A l, k : LastOf(r, l, k) => IF e.login = l THEN k = Len(s) + 1 ELSE LastOf(s, l, k)
  <1>1. /\ r \in Seq(S) /\ DOMAIN r = 1 .. Len(s) + 1 /\ DOMAIN s = 1 .. Len(s) /\ Len(s) \in Nat
        /\ r[Len(s) + 1] = e /\ \A k \in DOMAIN s : r[k] = s[k]
    OBVIOUS
  <1>2. DOMAIN r = DOMAIN s \cup {Len(s) + 1} /\ \A k \in DOMAIN s : k < Len(s) + 1
    BY <1>1
  <1>3. ASSUME NEW l PROVE In(r, l) <=> In(s, l) \/ e.login = l
    BY <1>1, <1>2 DEF In
  <1>4. ASSUME NEW l, NEW k, LastOf(r, l, k), e.login = l PROVE k = Len(s) + 1
    BY <1>1, <1>2, <1>4 DEF LastOf
  <1>5. ASSUME NEW l, NEW k, LastOf(r, l, k), e.login # l PROVE LastOf(s, l, k)
    BY <1>1, <1>2, <1>5 DEF LastOf
  <1> QED  BY <1>1, <1>2, <1>3, <1>4, <1>5

-----------------------------------------------------------------------------
USE SyncAssumption DEF bounds

Pending(l)  == In(flight, l) \/ In(queue, l)
IsMember(l) == github[l] # "none"

(* A removal of l is on its way that deletes a row of time t.              *)
Deletes(l, t) ==
  \/ \E i \in DOMAIN flight : flight[i].login = l /\ flight[i].kind = "removed"
  \/ \E i \in DOMAIN queue : queue[i].login = l /\ queue[i].kind = "removed" /\ queue[i].at >= t

StampsGrow == \A i, j \in DOMAIN queue : i < j => queue[i].at < queue[j].at

-----------------------------------------------------------------------------
(* A roster that is being fetched. *)

Fetched == job.pc \in {"pages", "write"}

(* Nothing is said or was changed since the lock of those not late.        *)
NotLate ==
  \A l \in Logins \ job.late : job # NoJob =>
    /\ ~Pending(l)
    /\ l \in job.stayed <=> IsMember(l)
    /\ Fetched => (l \in job.admins <=> github[l] = "admin")
    /\ l \in job.roster => IsMember(l)

(* The pages so far have all those who stayed and come first.              *)
PagesWhole ==
  /\ job.stayed \subseteq Members
  /\ ~job.shifted /\ job.pc = "pages" =>
       \A l \in job.stayed : Place(l) <= job.page * PageSize => l \in job.roster
  /\ ~job.shifted /\ job.pc = "write" => job.stayed \subseteq job.roster
  /\ job.pc = "admins" => job.page = 0 /\ job.roster = {} /\ ~job.shifted
  /\ job.page = 0 \/ job.late = {} => ~job.shifted

JobInv == NotLate /\ PagesWhole

-----------------------------------------------------------------------------
(* The table and what is on its way, while nothing is amiss. *)

(* The last event of a login tells what it is on GitHub.                   *)
FlightTells ==
  \A l \in Logins, i \in DOMAIN flight :
    LastOf(flight, l, i) => (flight[i].kind = "added" <=> IsMember(l))

QueueTells ==
  \A l \in Logins, i \in DOMAIN queue :
    LastOf(queue, l, i) /\ ~In(flight, l) =>
      /\ queue[i].kind = "added" <=> IsMember(l)
      /\ queue[i].kind = "removed" =>
           rows[l].at <= queue[i].at /\ (l \in job.roster => job.at <= queue[i].at)

TableTells ==
  \A l \in Logins : ~Pending(l) =>
    /\ rows[l] = NoRow <=> ~IsMember(l)
    /\ job # NoJob => (l \in job.roster => IsMember(l)) /\ (IsMember(l) => l \in job.stayed)

AccessTells == \A l \in access : IsMember(l) \/ Pending(l)

MembersTell == FlightTells /\ QueueTells /\ TableTells /\ AccessTells

(* Roles, of the logins a whole roster settled.                            *)
AdminsSettled ==
  \A l \in Logins \ unseen : github[l] = "admin" =>
    ~Pending(l) /\ rows[l].role = "admin" /\ (Fetched => l \in job.admins)

OldAdminsGo ==
  \A l \in Logins \ unseen : github[l] # "admin" =>
    /\ rows[l].role = "admin" => Deletes(l, rows[l].at)
    /\ Fetched /\ l \in job.admins => Deletes(l, rows[l].at) /\ Deletes(l, job.at)

RolesTell == AdminsSettled /\ OldAdminsGo

IInv == TypeOK /\ StampsGrow /\ JobInv /\ (~amiss => MembersTell /\ RolesTell)

-----------------------------------------------------------------------------
(* The places of a list. *)

LEMMA MembersFinite == Members \subseteq Logins /\ IsFiniteSet(Members)
  BY FS_Subset DEF Members

LEMMA Placed ==
  ASSUME NEW S \in SUBSET Logins, NEW l
  PROVE  LET p == Cardinality({m \in S : m <= l})
         IN  p \in Nat /\ (l \in S => p >= 1) /\ p <= Cardinality(S) /\ Cardinality(S) \in Nat
  <1> DEFINE T == {m \in S : m <= l}
  <1>1. IsFiniteSet(S) /\ Cardinality(S) \in Nat  BY FS_Subset, FS_CardinalityType
  <1>2. IsFiniteSet(T) /\ Cardinality(T) <= Cardinality(S) /\ Cardinality(T) \in Nat
    BY <1>1, FS_Subset, FS_CardinalityType
  <1>3. ASSUME l \in S PROVE Cardinality(T) >= 1
    <2>1. l \in T  BY <1>3
    <2>2. Cardinality(T) # 0  BY <1>2, <2>1, FS_EmptySet
    <2> QED  BY <1>2, <2>2
  <1> QED  BY <1>1, <1>2, <1>3

LEMMA PlacedBehind ==
  ASSUME NEW T \in SUBSET Logins, NEW S \in SUBSET T, NEW l
  PROVE  Cardinality({m \in S : m <= l}) <= Cardinality({m \in T : m <= l})
  <1>1. {m \in S : m <= l} \subseteq {m \in T : m <= l}  OBVIOUS
  <1>2. IsFiniteSet({m \in T : m <= l})
    <2>1. {m \in T : m <= l} \in SUBSET Logins  OBVIOUS
    <2> QED  BY <2>1, FS_Subset
  <1> QED  BY <1>1, <1>2, FS_Subset

(* Where a page ends.                                                      *)
LEMMA PageEnd ==
  ASSUME NEW p \in Nat
  PROVE  /\ (p + 1) * PageSize - PageSize = p * PageSize
         /\ p * PageSize \in Nat /\ (p + 1) * PageSize \in Nat
  OBVIOUS

-----------------------------------------------------------------------------
(* Types *)

LEMMA JobTyped ==
  ASSUME TypeOK
  PROVE  /\ job.pc \in {"none", "admins", "pages", "write"} /\ (job = NoJob <=> job.pc = "none")
         /\ job.at \in 0 .. clock /\ job.admins \subseteq Logins /\ job.roster \subseteq Logins
         /\ job.page \in Nat /\ job.shifted \in BOOLEAN
  <1>1. job \in Job /\ clock \in Nat  BY DEF TypeOK
  <1>2. CASE job = NoJob  BY <1>1, <1>2 DEF NoJob
  <1>3. CASE job # NoJob  BY <1>1, <1>3 DEF Job, NoJob
  <1> QED  BY <1>2, <1>3

LEMMA RowTyped ==
  ASSUME TypeOK, NEW l \in Logins
  PROVE  /\ rows[l].at \in 0 .. clock /\ (rows[l] = NoRow <=> rows[l].role = "none")
         /\ rows[l] # NoRow => rows[l].role \in Roles /\ rows[l].at >= 1
  <1>1. rows[l] \in {NoRow} \cup [role : Roles, at : 1 .. clock] /\ clock \in Nat  BY DEF TypeOK
  <1> QED  BY <1>1 DEF NoRow, Roles

LEMMA QueueTyped ==
  ASSUME TypeOK, NEW i \in DOMAIN queue
  PROVE  /\ queue[i] \in Stamped /\ queue[i].login \in Logins /\ queue[i].at \in 1 .. clock
         /\ queue[i].kind \in {"added", "removed"}
         /\ queue[i].kind = "added" => queue[i].role = "member"
  <1>1. queue[i] \in Stamped  BY DEF TypeOK
  <1> QED  BY <1>1 DEF Stamped

LEMMA FlightTyped ==
  ASSUME TypeOK, NEW i \in DOMAIN flight
  PROVE  /\ flight[i] \in Event /\ flight[i].login \in Logins
         /\ flight[i].kind \in {"added", "removed"}
  <1>1. flight[i] \in Event  BY DEF TypeOK
  <1> QED  BY <1>1 DEF Event

(* What is stamped is still of its type when the clock moves on.           *)
LEMMA ClockMoves ==
  ASSUME TypeOK, clock' = clock + 1
  PROVE  /\ queue \in Seq(Stamped') /\ job \in Job' /\ Stamped \subseteq Stamped'
         /\ rows \in [Logins -> {NoRow} \cup [role : Roles, at : 1 .. clock']]
         /\ synced \in 0 .. clock' /\ clock' \in Nat \ {0}
  <1>1. clock \in Nat \ {0} /\ 1 .. clock \subseteq 1 .. clock' /\ synced \in 0 .. clock  BY DEF TypeOK
  <1>2. Stamped \subseteq Stamped'  BY <1>1 DEF Stamped
  <1>3. queue \in Seq(Stamped')
    <2>1. queue \in Seq(Stamped) /\ \A i \in 1 .. Len(queue) : queue[i] \in Stamped  BY DEF TypeOK
    <2>2. Len(queue) \in Nat /\ DOMAIN queue = 1 .. Len(queue)  BY <2>1
    <2>3. queue = [i \in 1 .. Len(queue) |-> queue[i]]  BY <2>1
    <2>4. queue \in [1 .. Len(queue) -> Stamped']  BY <1>2, <2>1, <2>3
    <2> QED  BY <2>2, <2>4, SeqDef
  <1>4. job \in Job'  BY <1>1 DEF TypeOK, Job
  <1>5. rows \in [Logins -> {NoRow} \cup [role : Roles, at : 1 .. clock']]  BY <1>1 DEF TypeOK
  <1> QED  BY <1>1, <1>2, <1>3, <1>4, <1>5

-----------------------------------------------------------------------------
(* Changes on GitHub *)

LEMMA NotedJob ==
  ASSUME TypeOK, NEW l \in Logins, NEW how \in {"joined", "left", "role"}, Noted(l, how)
  PROVE  /\ job' \in Job /\ (job' = NoJob <=> job = NoJob)
         /\ job'.pc = job.pc /\ job'.at = job.at /\ job'.admins = job.admins
         /\ job'.roster = job.roster /\ job'.page = job.page
         /\ job # NoJob => /\ job'.late = job.late \cup {l}
                           /\ job'.stayed = IF how = "role" THEN job.stayed ELSE job.stayed \ {l}
                           /\ job'.shifted = (job.shifted \/ (how = "left" /\ job.pc = "pages" /\ job.page > 0))
  <1>1. CASE job = NoJob  BY <1>1 DEF Noted, TypeOK
  <1>2. CASE job # NoJob
    <2>1. job' = [job EXCEPT !.late = @ \cup {l},
                             !.stayed = IF how = "role" THEN @ ELSE @ \ {l},
                             !.shifted = @ \/ (how = "left" /\ job.pc = "pages" /\ job.page > 0)]
      BY <1>2 DEF Noted
    <2>2. job \in Job \ {NoJob} /\ job.pc # "none"  BY <1>2 DEF TypeOK, Job
    <2>3. job' \in Job /\ job'.pc = job.pc  BY <2>1, <2>2 DEF Job
    <2>4. job' # NoJob  BY <2>2, <2>3 DEF NoJob
    <2>5. /\ job'.at = job.at /\ job'.admins = job.admins
          /\ job'.roster = job.roster /\ job'.page = job.page
          /\ job'.late = job.late \cup {l}
          /\ job'.stayed = IF how = "role" THEN job.stayed ELSE job.stayed \ {l}
          /\ job'.shifted = (job.shifted \/ (how = "left" /\ job.pc = "pages" /\ job.page > 0))
      BY <2>1, <2>2 DEF Job
    <2> QED  BY <1>2, <2>2, <2>3, <2>4, <2>5
  <1> QED  BY <1>1, <1>2

(* A removal that is on its way stays there when an event is sent.         *)
LEMMA DeletesMore ==
  ASSUME NEW S, flight \in Seq(S), NEW e \in S, flight' = Append(flight, e), queue' = queue,
         NEW l, NEW t, Deletes(l, t)
  PROVE  Deletes(l, t)'
  <1>1. DOMAIN flight \subseteq DOMAIN flight' /\ \A i \in DOMAIN flight : flight'[i] = flight[i]
    BY Appended
  <1> QED  BY <1>1 DEF Deletes

(* Somebody joins or leaves, and a webhook says so.                        *)
LEMMA MoveKeeps ==
  ASSUME IInv, NEW l \in Logins, Join(l) \/ Leave(l)
  PROVE  IInv'
  <1> DEFINE joins == github[l] = "none"
             role  == IF joins THEN "member" ELSE "none"
             kind  == IF joins THEN "added" ELSE "removed"
             e     == [kind |-> kind, login |-> l, role |-> role]
  <1>0. TypeOK /\ StampsGrow /\ NotLate /\ PagesWhole /\ (~amiss => MembersTell /\ RolesTell)
    BY DEF IInv, JobInv
  <1>1. /\ github' = [github EXCEPT ![l] = role] /\ flight' = Append(flight, e)
        /\ Noted(l, IF joins THEN "joined" ELSE "left")
        /\ UNCHANGED <<queue, rows, access, synced, clock, unseen, amiss>>
    BY DEF Join, Leave
  <1>2. github \in [Logins -> Roles \cup {"none"}] /\ flight \in Seq(Event) /\ e \in Event
    BY <1>0 DEF TypeOK, Event
  <1> HIDE DEF e
  <1>3. /\ flight' \in Seq(Event)
        /\ DOMAIN flight' = DOMAIN flight \cup {Len(flight) + 1}
        /\ flight'[Len(flight) + 1] = e
        /\ \A k \in DOMAIN flight : flight'[k] = flight[k]
        /\ \A x : In(flight', x) <=> In(flight, x) \/ x = l
        /\ \A x, k : LastOf(flight', x, k) => IF x = l THEN k = Len(flight) + 1 ELSE LastOf(flight, x, k)
    <2>1. e.login = l  BY DEF e
    <2>2. /\ flight' \in Seq(Event)
          /\ DOMAIN flight' = DOMAIN flight \cup {Len(flight) + 1}
          /\ flight'[Len(flight) + 1] = e
          /\ \A k \in DOMAIN flight : flight'[k] = flight[k]
      BY <1>1, <1>2, Appended
    <2>3. \A x : In(flight', x) <=> In(flight, x) \/ e.login = x
      BY <2>2 DEF In
    <2>4. \A x, k : LastOf(flight', x, k) => IF e.login = x THEN k = Len(flight) + 1 ELSE LastOf(flight, x, k)
      <3>1. Len(flight) \in Nat /\ DOMAIN flight = 1 .. Len(flight)  BY <1>2
      <3> QED  BY <2>2, <3>1 DEF LastOf
    <2> QED  BY <2>1, <2>2, <2>3, <2>4
  <1>4. /\ \A x \in Logins : x # l => github'[x] = github[x] /\ (IsMember(x)' <=> IsMember(x))
        /\ IsMember(l)' <=> joins
        /\ github'[l] # "admin" /\ (joins <=> ~IsMember(l))
    BY <1>1, <1>2 DEF IsMember
  <1>5. /\ job' \in Job /\ (job' = NoJob <=> job = NoJob)
        /\ job'.pc = job.pc /\ job'.at = job.at /\ job'.admins = job.admins
        /\ job'.roster = job.roster /\ job'.page = job.page /\ (Fetched' <=> Fetched)
        /\ job # NoJob => /\ job'.late = job.late \cup {l} /\ job'.stayed = job.stayed \ {l}
                          /\ job'.shifted = (job.shifted \/ (~joins /\ job.pc = "pages" /\ job.page > 0))
    BY <1>0, <1>1, NotedJob DEF Fetched
  <1>6. \A x : Pending(x)' <=> Pending(x) \/ x = l
    BY <1>1, <1>3 DEF Pending
  <1>7. TypeOK'
    <2>1. github' \in [Logins -> Roles \cup {"none"}]  BY <1>1, <1>2 DEF Roles
    <2>2. Stamped' = Stamped /\ Job' = Job  BY <1>1 DEF Stamped, Job
    <2> QED  BY <1>0, <1>1, <1>3, <1>5, <2>1, <2>2 DEF TypeOK
  <1>8. StampsGrow'  BY <1>0, <1>1 DEF StampsGrow
  <1>9. NotLate'  BY <1>0, <1>4, <1>5, <1>6 DEF NotLate
  <1>10. PagesWhole'
    <2>1. CASE job = NoJob  BY <1>5, <2>1 DEF PagesWhole, NoJob
    <2>2. CASE job # NoJob
      <3>1. job'.stayed \subseteq Members'
        BY <1>0, <1>4, <1>5, <2>2 DEF PagesWhole, Members, IsMember
      <3>2. ASSUME ~job'.shifted, job.pc = "pages", NEW x \in job'.stayed,
                   Place(x)' <= job.page * PageSize
            PROVE  x \in job.roster
        <4>1. x \in job.stayed /\ x \in Members /\ x \in Members' /\ ~job.shifted
          BY <1>0, <1>5, <2>2, <3>1, <3>2 DEF PagesWhole
        <4>2. Members \subseteq Logins /\ Members' \subseteq Logins  BY DEF Members
        <4>3. CASE joins
          <5>1. Members \subseteq Members'  BY <1>4, <4>3 DEF Members, IsMember
          <5>2. Place(x) <= Place(x)'  BY <4>2, <5>1, PlacedBehind DEF Place
          <5>3. Place(x) \in Nat /\ Place(x)' \in Nat  BY <4>2, Placed DEF Place
          <5>4. job.page * PageSize \in Nat
            <6>1. job.page \in Nat  BY <1>0, JobTyped
            <6> QED  BY <6>1, PageEnd
          <5>5. Place(x) <= job.page * PageSize  BY <3>2, <5>2, <5>3, <5>4
          <5> QED  BY <1>0, <3>2, <4>1, <5>5 DEF PagesWhole
        <4>4. CASE ~joins
          <5>1. job.page = 0  BY <1>0, <1>5, <2>2, <3>2, <4>4 DEF TypeOK, Job
          <5>2. Place(x)' \in Nat /\ Place(x)' >= 1  BY <4>1, <4>2, Placed DEF Place
          <5> QED  BY <3>2, <5>1, <5>2
        <4> QED  BY <4>3, <4>4
      <3>3. ~job'.shifted /\ job.pc = "write" => job'.stayed \subseteq job.roster
        <4>1. job.stayed \subseteq job.roster \/ job.shifted \/ job.pc # "write"
          BY <1>0 DEF PagesWhole
        <4>2. ~job'.shifted => ~job.shifted  BY <1>5, <2>2
        <4> QED  BY <1>5, <2>2, <4>1, <4>2
      <3>4. /\ job.pc = "admins" => job.page = 0 /\ job.roster = {} /\ ~job'.shifted
            /\ job.page = 0 \/ job'.late = {} => ~job'.shifted
        <4>1. job.page \in Nat  BY <1>0, JobTyped
        <4>2. /\ job.pc = "admins" => job.page = 0 /\ job.roster = {} /\ ~job.shifted
              /\ job.page = 0 => ~job.shifted
          BY <1>0 DEF PagesWhole
        <4>3. job'.shifted => job.shifted \/ (job.pc = "pages" /\ job.page > 0)  BY <1>5, <2>2
        <4>4. job'.late # {}  BY <1>5, <2>2
        <4> QED  BY <4>1, <4>2, <4>3, <4>4
      <3> QED  BY <1>5, <3>1, <3>2, <3>3, <3>4 DEF PagesWhole
    <2> QED  BY <2>1, <2>2
  <1>11. ASSUME ~amiss PROVE MembersTell'
    <2>0. FlightTells /\ QueueTells /\ TableTells /\ AccessTells
      BY <1>0, <1>11 DEF MembersTell
    <2>1. FlightTells'
      <3> SUFFICES ASSUME NEW x \in Logins, NEW i \in DOMAIN flight', LastOf(flight', x, i)
                   PROVE  flight'[i].kind = "added" <=> IsMember(x)'
        BY DEF FlightTells
      <3>1. CASE x = l  BY <1>3, <1>4, <3>1 DEF e
      <3>2. CASE x # l
        <4>1. LastOf(flight, x, i) /\ i \in DOMAIN flight  BY <1>3, <3>2 DEF LastOf
        <4> QED  BY <1>3, <1>4, <2>0, <3>2, <4>1 DEF FlightTells
      <3> QED  BY <3>1, <3>2
    <2>2. QueueTells'
      <3> SUFFICES ASSUME NEW x \in Logins, NEW i \in DOMAIN queue, LastOf(queue, x, i), ~In(flight', x)
                   PROVE  /\ queue[i].kind = "added" <=> IsMember(x)'
                          /\ queue[i].kind = "removed" =>
                               rows[x].at <= queue[i].at /\ (x \in job.roster => job.at <= queue[i].at)
        BY <1>1, <1>5 DEF QueueTells
      <3>1. x # l /\ ~In(flight, x)  BY <1>3
      <3> QED  BY <1>4, <2>0, <3>1 DEF QueueTells
    <2>3. TableTells'
      <3> SUFFICES ASSUME NEW x \in Logins, ~Pending(x)'
                   PROVE  (/\ rows[x] = NoRow <=> ~IsMember(x)
                           /\ job # NoJob => (x \in job.roster => IsMember(x)) /\ (IsMember(x) => x \in job.stayed))'
        BY DEF TableTells
      <3>1. x # l /\ ~Pending(x)  BY <1>6
      <3> QED  BY <1>1, <1>4, <1>5, <2>0, <3>1 DEF TableTells
    <2>4. AccessTells'  BY <1>0, <1>1, <1>4, <1>6, <2>0 DEF AccessTells, TypeOK
    <2> QED  BY <2>1, <2>2, <2>3, <2>4 DEF MembersTell
  <1>12. ASSUME ~amiss PROVE RolesTell'
    <2>0. AdminsSettled /\ OldAdminsGo  BY <1>0, <1>12 DEF RolesTell
    <2>1. AdminsSettled'
      BY <1>1, <1>4, <1>5, <1>6, <2>0 DEF AdminsSettled
    <2>2. OldAdminsGo'
      <3> SUFFICES ASSUME NEW x \in Logins \ unseen, github'[x] # "admin"
                   PROVE  /\ rows[x].role = "admin" => Deletes(x, rows[x].at)'
                          /\ Fetched /\ x \in job.admins => Deletes(x, rows[x].at)' /\ Deletes(x, job.at)'
        BY <1>1, <1>5 DEF OldAdminsGo, Deletes
      <3>1. \A t : Deletes(x, t) => Deletes(x, t)'
        BY <1>1, <1>2, DeletesMore
      <3>2. CASE x = l /\ ~joins
        <4>1. flight'[Len(flight) + 1].kind = "removed" /\ flight'[Len(flight) + 1].login = x
          BY <1>3, <3>2 DEF e
        <4>2. \A t : Deletes(x, t)'  BY <1>3, <4>1 DEF Deletes
        <4> QED  BY <4>2
      <3>3. CASE ~(x = l /\ ~joins)
        <4>1. github[x] # "admin"  BY <1>4, <3>3
        <4>2. /\ rows[x].role = "admin" => Deletes(x, rows[x].at)
              /\ Fetched /\ x \in job.admins => Deletes(x, rows[x].at) /\ Deletes(x, job.at)
          BY <2>0, <4>1 DEF OldAdminsGo
        <4>3. /\ Deletes(x, rows[x].at) => Deletes(x, rows[x].at)'
              /\ Deletes(x, job.at) => Deletes(x, job.at)'
          BY <1>1, <1>5, <3>1 DEF Deletes
        <4> QED  BY <4>2, <4>3
      <3> QED  BY <3>2, <3>3
    <2> QED  BY <2>1, <2>2 DEF RolesTell
  <1> QED  BY <1>1, <1>7, <1>8, <1>9, <1>10, <1>11, <1>12 DEF IInv, JobInv

(* A role changes, and nothing says so.                                    *)
LEMMA SetRoleKeeps ==
  ASSUME IInv, NEW l \in Logins, NEW role \in Roles, SetRole(l, role)
  PROVE  IInv'
  <1>0. TypeOK /\ StampsGrow /\ NotLate /\ PagesWhole /\ (~amiss => MembersTell /\ RolesTell)
    BY DEF IInv, JobInv
  <1>1. /\ github[l] # "none" /\ github' = [github EXCEPT ![l] = role] /\ unseen' = unseen \cup {l}
        /\ Noted(l, "role")
        /\ UNCHANGED <<flight, queue, rows, access, synced, clock, amiss>>
    BY DEF SetRole
  <1>2. github \in [Logins -> Roles \cup {"none"}]  BY <1>0 DEF TypeOK
  <1>3. /\ \A x \in Logins : IsMember(x)' <=> IsMember(x)
        /\ \A x \in Logins : x # l => github'[x] = github[x]
    BY <1>1, <1>2 DEF IsMember, Roles
  <1>4. Members' = Members  BY <1>3 DEF Members, IsMember
  <1>5. \A x : Place(x)' = Place(x)  BY <1>4 DEF Place
  <1>6. \A x : Pending(x)' <=> Pending(x)  BY <1>1 DEF Pending, In
  <1>7. \A x, t : Deletes(x, t)' <=> Deletes(x, t)  BY <1>1 DEF Deletes
  <1>8. /\ job' \in Job /\ (job' = NoJob <=> job = NoJob)
        /\ job'.pc = job.pc /\ job'.at = job.at /\ job'.admins = job.admins
        /\ job'.roster = job.roster /\ job'.page = job.page /\ (Fetched' <=> Fetched)
        /\ job # NoJob => /\ job'.late = job.late \cup {l} /\ job'.stayed = job.stayed
                          /\ job'.shifted = job.shifted
    <2>1. /\ job' \in Job /\ (job' = NoJob <=> job = NoJob)
          /\ job'.pc = job.pc /\ job'.at = job.at /\ job'.admins = job.admins
          /\ job'.roster = job.roster /\ job'.page = job.page
          /\ job # NoJob => /\ job'.late = job.late \cup {l} /\ job'.stayed = job.stayed
                            /\ job'.shifted = (job.shifted \/ FALSE)
      BY <1>0, <1>1, NotedJob
    <2>2. job \in Job  BY <1>0 DEF TypeOK
    <2> QED  BY <2>1, <2>2 DEF Fetched, Job
  <1>9. TypeOK'
    <2>1. github' \in [Logins -> Roles \cup {"none"}]  BY <1>1, <1>2
    <2>2. Stamped' = Stamped /\ Job' = Job  BY <1>1 DEF Stamped, Job
    <2> QED  BY <1>0, <1>1, <1>8, <2>1, <2>2 DEF TypeOK
  <1>10. StampsGrow'  BY <1>0, <1>1 DEF StampsGrow
  <1>11. NotLate'  BY <1>0, <1>3, <1>6, <1>8 DEF NotLate
  <1>12. PagesWhole'
    <2>1. job = NoJob => job' = NoJob  BY <1>8
    <2>2. /\ job'.stayed = job.stayed /\ job'.shifted = job.shifted
          /\ job'.late = {} => job.late = {}
      BY <1>8, <2>1
    <2> QED  BY <1>0, <1>4, <1>5, <1>8, <2>2 DEF PagesWhole
  <1>13. ASSUME ~amiss PROVE MembersTell'
    <2>0. FlightTells /\ QueueTells /\ TableTells /\ AccessTells
      BY <1>0, <1>13 DEF MembersTell
    <2>1. FlightTells'  BY <1>1, <1>3, <2>0 DEF FlightTells, LastOf
    <2>2. QueueTells'  BY <1>1, <1>3, <1>8, <2>0 DEF QueueTells, LastOf, In
    <2>3. TableTells'  BY <1>1, <1>3, <1>6, <1>8, <2>0 DEF TableTells
    <2>4. AccessTells'
      <3>1. access \subseteq Logins  BY <1>0 DEF TypeOK
      <3> QED  BY <1>1, <1>3, <1>6, <2>0, <3>1 DEF AccessTells
    <2> QED  BY <2>1, <2>2, <2>3, <2>4 DEF MembersTell
  <1>14. ASSUME ~amiss PROVE RolesTell'
    <2>0. AdminsSettled /\ OldAdminsGo  BY <1>0, <1>14 DEF RolesTell
    <2>1. AdminsSettled'  BY <1>1, <1>3, <1>6, <1>8, <2>0 DEF AdminsSettled
    <2>2. OldAdminsGo'
      <3> SUFFICES ASSUME NEW x \in Logins \ unseen', github'[x] # "admin"
                   PROVE  /\ rows[x].role = "admin" => Deletes(x, rows[x].at)
                          /\ Fetched /\ x \in job.admins => Deletes(x, rows[x].at) /\ Deletes(x, job.at)
        BY <1>1, <1>8 DEF OldAdminsGo, Deletes
      <3> QED  BY <1>1, <1>3, <2>0 DEF OldAdminsGo
    <2> QED  BY <2>1, <2>2 DEF RolesTell
  <1> QED  BY <1>1, <1>9, <1>10, <1>11, <1>12, <1>13, <1>14 DEF IInv, JobInv

-----------------------------------------------------------------------------
(* Webhooks *)

(* The database stamps a webhook.                                          *)
LEMMA ReceiveKeeps ==
  ASSUME IInv, NEW i \in DOMAIN flight, Receive(i)
  PROVE  IInv'
  <1> DEFINE e == [kind |-> flight[i].kind, login |-> flight[i].login,
                   role |-> flight[i].role, at |-> clock']
             n == Len(queue) + 1
  <1>0. TypeOK /\ StampsGrow /\ NotLate /\ PagesWhole /\ (~amiss => MembersTell /\ RolesTell)
    BY DEF IInv, JobInv
  <1>1. /\ clock' = clock + 1 /\ queue' = Append(queue, e) /\ flight' = RemoveAt(flight, i)
        /\ amiss' = (amiss \/ i # 1)
        /\ UNCHANGED <<github, rows, access, job, synced, unseen>>
    BY DEF Receive, Overtakes
  <1>2. /\ flight \in Seq(Event) /\ queue \in Seq(Stamped) /\ queue \in Seq(Stamped')
        /\ clock \in Nat \ {0} /\ clock' = clock + 1
    BY <1>0, <1>1, ClockMoves DEF TypeOK
  <1>3. e \in Stamped' /\ e.login = flight[i].login /\ e.kind = flight[i].kind /\ e.at = clock + 1
    <2>1. flight[i] \in Event  BY <1>2
    <2>2. clock' \in 1 .. clock'  BY <1>2
    <2> QED  BY <1>1, <2>1, <2>2 DEF Event, Stamped
  <1> HIDE DEF e
  <1>4. /\ queue' \in Seq(Stamped')
        /\ DOMAIN queue' = DOMAIN queue \cup {n} /\ n \notin DOMAIN queue /\ queue'[n] = e
        /\ \A k \in DOMAIN queue : queue'[k] = queue[k] /\ k < n
    <2>1. queue' \in Seq(Stamped')
      BY <1>1, <1>2, <1>3, Appended
    <2> QED  BY <1>1, <1>2, <1>3, <2>1, Appended
  <1>5. \A x : In(queue', x) <=> In(queue, x) \/ e.login = x  BY <1>4 DEF In
  <1>6. \A x, k : LastOf(queue', x, k) => IF e.login = x THEN k = n ELSE LastOf(queue, x, k)
    BY <1>4 DEF LastOf
  <1>7. flight' \in Seq(Event) /\ \A x : In(flight', x) => In(flight, x)
    BY <1>1, <1>2, LeftOver
  <1>8. ASSUME NEW x, Pending(x)' PROVE Pending(x)
    BY <1>3, <1>5, <1>7, <1>8 DEF Pending, In
  <1>9. TypeOK'
    BY <1>0, <1>1, <1>2, <1>4, <1>7, ClockMoves DEF TypeOK
  <1>10. StampsGrow'
    <2>1. \A k \in DOMAIN queue : queue[k].at < e.at
      <3>1. \A k \in DOMAIN queue : queue[k].at \in 1 .. clock  BY <1>0, QueueTyped
      <3> QED  BY <1>2, <1>3, <3>1
    <2> QED
      <3> SUFFICES ASSUME NEW j \in DOMAIN queue', NEW k \in DOMAIN queue', j < k
                   PROVE  queue'[j].at < queue'[k].at
        BY DEF StampsGrow
      <3>0. \A m \in DOMAIN queue' : m \in Int  BY <1>4
      <3>1. j \in DOMAIN queue
        <4>1. CASE j = n /\ k = n  BY <3>0, <4>1
        <4>2. CASE j = n /\ k # n
          <5>1. k < n  BY <1>4, <4>2
          <5> QED  BY <3>0, <4>2, <5>1
        <4> QED  BY <1>4, <4>1, <4>2
      <3> QED  BY <1>0, <1>4, <2>1, <3>1 DEF StampsGrow
  <1>11. NotLate'  BY <1>0, <1>1, <1>8 DEF NotLate, Fetched, IsMember
  <1>12. PagesWhole'  BY <1>0, <1>1 DEF PagesWhole, Members, Place
  <1>13. ASSUME ~amiss' PROVE MembersTell' /\ RolesTell'
    <2>0. /\ i = 1 /\ flight' = RemoveAt(flight, 1)
          /\ FlightTells /\ QueueTells /\ TableTells /\ AccessTells /\ AdminsSettled /\ OldAdminsGo
      BY <1>0, <1>1, <1>13 DEF MembersTell, RolesTell
    <2>1. /\ \A x, k : LastOf(flight', x, k) => LastOf(flight, x, k + 1)
          /\ \A k \in DOMAIN flight' : flight'[k] = flight[k + 1]
          /\ \A j \in DOMAIN flight : j # 1 => j - 1 \in DOMAIN flight' /\ flight'[j - 1] = flight[j]
      BY <1>2, <2>0, HeadGone
    <2>2. \A x : In(flight, x) => In(flight', x) \/ LastOf(flight, x, 1)
      BY <1>2, <2>0, HeadGone
    <2>3. \A x : LastOf(flight, x, 1) => e.login = x  BY <1>3, <2>0 DEF LastOf
    <2>4. \A x : Pending(x)' <=> Pending(x)
      BY <1>5, <1>8, <2>2, <2>3 DEF Pending
    <2>5. FlightTells'
      <3> SUFFICES ASSUME NEW x \in Logins, NEW k \in DOMAIN flight', LastOf(flight', x, k)
                   PROVE  flight'[k].kind = "added" <=> IsMember(x)'
        BY DEF FlightTells
      <3>1. LastOf(flight, x, k + 1) /\ k + 1 \in DOMAIN flight  BY <2>1 DEF LastOf
      <3> QED  BY <1>1, <2>0, <2>1, <3>1 DEF FlightTells, IsMember
    <2>6. QueueTells'
      <3> SUFFICES ASSUME NEW x \in Logins, NEW k \in DOMAIN queue', LastOf(queue', x, k), ~In(flight', x)
                   PROVE  /\ queue'[k].kind = "added" <=> IsMember(x)
                          /\ queue'[k].kind = "removed" =>
                               rows[x].at <= queue'[k].at /\ (x \in job.roster => job.at <= queue'[k].at)
        BY <1>1 DEF QueueTells, IsMember
      <3>1. CASE e.login = x
        <4>1. queue'[k].at = clock + 1 /\ queue'[k].kind = flight[1].kind
          BY <1>3, <1>4, <1>6, <2>0, <3>1
        <4>2. LastOf(flight, x, 1)
          <5>1. In(flight, x)  BY <1>3, <3>1 DEF In
          <5> QED  BY <2>2, <5>1
        <4>3. flight[1].kind = "added" <=> IsMember(x)  BY <2>0, <4>2 DEF FlightTells
        <4>4. rows[x].at \in 0 .. clock /\ job.at \in 0 .. clock  BY <1>0, JobTyped, RowTyped
        <4> QED  BY <1>2, <4>1, <4>3, <4>4
      <3>2. CASE e.login # x
        <4>1. ~In(flight, x)  BY <2>2, <2>3, <3>2
        <4>2. LastOf(queue, x, k) /\ k \in DOMAIN queue  BY <1>6, <3>2 DEF LastOf
        <4> QED  BY <1>4, <2>0, <4>1, <4>2 DEF QueueTells
      <3> QED  BY <3>1, <3>2
    <2>7. TableTells'  BY <1>1, <2>0, <2>4 DEF TableTells, IsMember
    <2>8. AccessTells'  BY <1>1, <2>0, <2>4 DEF AccessTells, IsMember
    <2>9. AdminsSettled'  BY <1>1, <2>0, <2>4 DEF AdminsSettled, Fetched
    <2>10. ASSUME NEW x, NEW t \in 0 .. clock, Deletes(x, t) PROVE Deletes(x, t)'
      <3>1. ASSUME NEW j \in DOMAIN flight, flight[j].login = x, flight[j].kind = "removed"
            PROVE  Deletes(x, t)'
        <4>1. CASE j = 1
          <5>1. queue'[n].login = x /\ queue'[n].kind = "removed" /\ queue'[n].at >= t
            BY <1>2, <1>3, <1>4, <2>0, <3>1, <4>1
          <5> QED  BY <1>4, <5>1 DEF Deletes
        <4>2. CASE j # 1  BY <2>1, <3>1, <4>2 DEF Deletes
        <4> QED  BY <4>1, <4>2
      <3>2. ASSUME NEW j \in DOMAIN queue, queue[j].login = x, queue[j].kind = "removed", queue[j].at >= t
            PROVE  Deletes(x, t)'
        BY <1>4, <3>2 DEF Deletes
      <3> QED  BY <2>10, <3>1, <3>2 DEF Deletes
    <2>11. OldAdminsGo'
      <3> SUFFICES ASSUME NEW x \in Logins \ unseen, github[x] # "admin"
                   PROVE  /\ rows[x].role = "admin" => Deletes(x, rows[x].at)'
                          /\ Fetched /\ x \in job.admins => Deletes(x, rows[x].at)' /\ Deletes(x, job.at)'
        BY <1>1 DEF OldAdminsGo, Fetched, Deletes
      <3>1. rows[x].at \in 0 .. clock /\ job.at \in 0 .. clock  BY <1>0, JobTyped, RowTyped
      <3>2. \A t \in 0 .. clock : Deletes(x, t) => Deletes(x, t)'  BY <2>10
      <3>3. /\ Deletes(x, rows[x].at) => Deletes(x, rows[x].at)'
            /\ Deletes(x, job.at) => Deletes(x, job.at)'
        BY <1>1, <3>1, <3>2 DEF Deletes
      <3> QED  BY <2>0, <3>3 DEF OldAdminsGo
    <2> QED  BY <2>5, <2>6, <2>7, <2>8, <2>9, <2>11 DEF MembersTell, RolesTell
  <1> QED  BY <1>9, <1>10, <1>11, <1>12, <1>13 DEF IInv, JobInv

LEMMA LoseKeeps ==
  ASSUME IInv, NEW i \in DOMAIN flight, Lose(i)
  PROVE  IInv'
  <1>0. TypeOK /\ StampsGrow /\ NotLate /\ PagesWhole  BY DEF IInv, JobInv
  <1>1. /\ flight' = RemoveAt(flight, i) /\ amiss' = TRUE
        /\ UNCHANGED <<github, queue, rows, access, job, synced, clock, unseen>>
    BY DEF Lose
  <1>2. flight \in Seq(Event)  BY <1>0 DEF TypeOK
  <1>3. flight' \in Seq(Event) /\ \A x : In(flight', x) => In(flight, x)
    BY <1>1, <1>2, LeftOver
  <1>4. \A x : Pending(x)' => Pending(x)  BY <1>1, <1>3 DEF Pending, In
  <1>5. TypeOK'
    <2>1. Stamped' = Stamped /\ Job' = Job  BY <1>1 DEF Stamped, Job
    <2> QED  BY <1>0, <1>1, <1>3, <2>1 DEF TypeOK
  <1>6. StampsGrow'  BY <1>0, <1>1 DEF StampsGrow
  <1>7. NotLate'  BY <1>0, <1>1, <1>4 DEF NotLate, Fetched, IsMember
  <1>8. PagesWhole'  BY <1>0, <1>1 DEF PagesWhole, Members, Place
  <1> QED  BY <1>1, <1>5, <1>6, <1>7, <1>8 DEF IInv, JobInv

(* An event leaves the queue: whatever it does to the table, the job and   *)
(* what is still on its way are as they were.  In order, it is the first;  *)
(* a login about which nothing more is to come learns its last state.      *)
LEMMA Applied ==
  ASSUME IInv, NEW i \in DOMAIN queue, job = NoJob,
         queue' = RemoveAt(queue, i), amiss' = (amiss \/ i # 1),
         UNCHANGED <<github, flight, job, synced, clock, unseen>>
  PROVE  /\ queue' \in Seq(Stamped') /\ StampsGrow' /\ JobInv'
         /\ ~amiss' => /\ i = 1 /\ MembersTell /\ RolesTell /\ FlightTells'
                       /\ \A x : Pending(x)' => Pending(x)
                       /\ \A x : Pending(x) /\ ~Pending(x)' => LastOf(queue, x, 1) /\ ~In(flight, x)
                       /\ \A x, k : LastOf(queue', x, k) =>
                            /\ LastOf(queue, x, k + 1) /\ k + 1 \in DOMAIN queue
                            /\ queue'[k] = queue[k + 1] /\ queue[1].at < queue[k + 1].at
                       /\ \A j \in DOMAIN queue : j # 1 =>
                            j - 1 \in DOMAIN queue' /\ queue'[j - 1] = queue[j] /\ queue[1].at < queue[j].at
  <1>0. TypeOK /\ StampsGrow /\ NotLate /\ PagesWhole /\ (~amiss => MembersTell /\ RolesTell)
    BY DEF IInv, JobInv
  <1>1. queue \in Seq(Stamped) /\ Stamped' = Stamped  BY <1>0 DEF TypeOK, Stamped
  <1>2. /\ queue' \in Seq(Stamped)
        /\ \A j, k \in DOMAIN queue' : j < k =>
             \E m, n \in DOMAIN queue : m < n /\ queue'[j] = queue[m] /\ queue'[k] = queue[n]
        /\ \A l : In(queue', l) => In(queue, l)
    BY <1>1, LeftOver
  <1>3. StampsGrow'  BY <1>0, <1>2 DEF StampsGrow
  <1>4. \A x : Pending(x)' => Pending(x)  BY <1>2 DEF Pending, In
  <1>5. NotLate'  BY <1>0, <1>4 DEF NotLate, Fetched, IsMember
  <1>6. PagesWhole'  BY <1>0 DEF PagesWhole, Members, Place
  <1>7. ASSUME ~amiss'
        PROVE  /\ i = 1 /\ MembersTell /\ RolesTell /\ FlightTells'
               /\ \A x : Pending(x) /\ ~Pending(x)' => LastOf(queue, x, 1) /\ ~In(flight, x)
               /\ \A x, k : LastOf(queue', x, k) =>
                    /\ LastOf(queue, x, k + 1) /\ k + 1 \in DOMAIN queue
                    /\ queue'[k] = queue[k + 1] /\ queue[1].at < queue[k + 1].at
               /\ \A j \in DOMAIN queue : j # 1 =>
                    j - 1 \in DOMAIN queue' /\ queue'[j - 1] = queue[j] /\ queue[1].at < queue[j].at
    <2>1. i = 1 /\ MembersTell /\ RolesTell  BY <1>0, <1>7
    <2>2. FlightTells'  BY <2>1 DEF MembersTell, FlightTells, LastOf, IsMember
    <2>3. 1 \in DOMAIN queue /\ queue' = RemoveAt(queue, 1)  BY <2>1
    <2>4. /\ \A j \in DOMAIN queue : j # 1 => j - 1 \in DOMAIN queue' /\ queue'[j - 1] = queue[j]
          /\ \A k \in DOMAIN queue' : k + 1 \in DOMAIN queue /\ queue'[k] = queue[k + 1]
          /\ \A l, k : LastOf(queue', l, k) => LastOf(queue, l, k + 1)
      BY <1>1, <2>3, HeadGone
    <2>5. \A l : In(queue, l) => In(queue', l) \/ LastOf(queue, l, 1)
      BY <1>1, <2>3, HeadGone
    <2>6. ASSUME NEW j \in DOMAIN queue, j # 1 PROVE queue[1].at < queue[j].at
      <3>1. 1 < j  BY <1>1, <2>6
      <3> QED  BY <1>0, <2>3, <3>1 DEF StampsGrow
    <2>7. ASSUME NEW x, Pending(x), ~Pending(x)' PROVE LastOf(queue, x, 1) /\ ~In(flight, x)
      <3>1. ~In(flight, x) /\ ~In(queue', x)  BY <2>7 DEF Pending, In
      <3> QED  BY <2>5, <2>7, <3>1 DEF Pending
    <2>8. ASSUME NEW x, NEW k, LastOf(queue', x, k)
          PROVE  /\ LastOf(queue, x, k + 1) /\ k + 1 \in DOMAIN queue
                 /\ queue'[k] = queue[k + 1] /\ queue[1].at < queue[k + 1].at
      <3>1. k \in DOMAIN queue' /\ LastOf(queue, x, k + 1)  BY <2>4, <2>8 DEF LastOf
      <3>2. k + 1 # 1  BY <1>2, <3>1
      <3> QED  BY <2>4, <2>6, <3>1, <3>2
    <2> QED  BY <2>1, <2>2, <2>4, <2>6, <2>7, <2>8
  <1> QED  BY <1>1, <1>2, <1>3, <1>4, <1>5, <1>6, <1>7 DEF JobInv

LEMMA ApplyAddedKeeps ==
  ASSUME IInv, NEW i \in DOMAIN queue, ApplyAdded(i)
  PROVE  IInv'
  <1> DEFINE e == queue[i]
  <1>0. TypeOK  BY DEF IInv
  <1>1. /\ job = NoJob /\ e.kind = "added" /\ rows' = Upserted(rows, e)
        /\ queue' = RemoveAt(queue, i) /\ amiss' = (amiss \/ i # 1)
        /\ UNCHANGED <<github, flight, access, job, synced, clock, unseen>>
    BY DEF ApplyAdded, Overtakes, Free
  <1>2. queue' \in Seq(Stamped') /\ StampsGrow' /\ JobInv'  BY <1>1, Applied
  <1>3. e.login \in Logins /\ e.role = "member" /\ e.at \in 1 .. clock  BY <1>0, <1>1, QueueTyped
  <1>4. clock \in Nat \ {0} /\ rows \in [Logins -> {NoRow} \cup [role : Roles, at : 1 .. clock]]
    BY <1>0 DEF TypeOK
  <1> HIDE DEF e
  <1>5. /\ \A x \in Logins : x # e.login => rows'[x] = rows[x]
        /\ rows[e.login] = NoRow => rows'[e.login] = [role |-> "member", at |-> e.at]
        /\ rows[e.login] # NoRow =>
             rows'[e.login] = [rows[e.login] EXCEPT !.at = IF e.at >= rows[e.login].at THEN e.at ELSE @]
    BY <1>1, <1>3, <1>4 DEF Upserted
  <1>6. rows' \in [Logins -> {NoRow} \cup [role : Roles, at : 1 .. clock]]
    BY <1>1, <1>3, <1>4 DEF Upserted, Roles
  <1>7. TypeOK'
    <2>1. Job' = Job  BY <1>1 DEF Job
    <2> QED  BY <1>0, <1>1, <1>2, <1>6, <2>1 DEF TypeOK
  <1>8. /\ rows'[e.login] # NoRow
        /\ rows'[e.login].role = IF rows[e.login] = NoRow THEN "member" ELSE rows[e.login].role
        /\ rows'[e.login].at \in {rows[e.login].at, e.at}
    BY <1>3, <1>4, <1>5 DEF NoRow, Roles
  <1>9. ASSUME ~amiss' PROVE MembersTell' /\ RolesTell'
    <2>0. /\ i = 1 /\ FlightTells'
          /\ QueueTells /\ TableTells /\ AccessTells /\ AdminsSettled /\ OldAdminsGo
      BY <1>1, <1>9, Applied DEF MembersTell, RolesTell
    <2>1. /\ \A x : Pending(x)' => Pending(x)
          /\ \A x : Pending(x) /\ ~Pending(x)' => LastOf(queue, x, 1) /\ ~In(flight, x)
      BY <1>1, <1>9, Applied
    <2>2. /\ \A x, k : LastOf(queue', x, k) =>
               /\ LastOf(queue, x, k + 1) /\ k + 1 \in DOMAIN queue
               /\ queue'[k] = queue[k + 1] /\ queue[1].at < queue[k + 1].at
      BY <1>1, <1>9, Applied
    <2>3. \A j \in DOMAIN queue : j # 1 =>
            j - 1 \in DOMAIN queue' /\ queue'[j - 1] = queue[j] /\ queue[1].at < queue[j].at
      BY <1>1, <1>9, Applied
    <2>4. e = queue[1] /\ Pending(e.login)
      <3>1. e = queue[1]  BY <2>0 DEF e
      <3> QED  BY <2>0, <3>1 DEF Pending, In
    <2>5. \A x \in Logins : Pending(x) /\ ~Pending(x)' => x = e.login /\ IsMember(x)
      <3> SUFFICES ASSUME NEW x \in Logins, Pending(x), ~Pending(x)' PROVE x = e.login /\ IsMember(x)
        OBVIOUS
      <3>1. LastOf(queue, x, 1) /\ ~In(flight, x)  BY <2>1
      <3> QED  BY <1>1, <2>0, <2>4, <3>1 DEF QueueTells, LastOf, e
    <2>6. QueueTells'
      <3> SUFFICES ASSUME NEW x \in Logins, NEW k \in DOMAIN queue', LastOf(queue', x, k), ~In(flight, x)
                   PROVE  /\ queue'[k].kind = "added" <=> IsMember(x)
                          /\ queue'[k].kind = "removed" => rows'[x].at <= queue'[k].at
        BY <1>1 DEF QueueTells, IsMember, NoJob
      <3>1. /\ LastOf(queue, x, k + 1) /\ k + 1 \in DOMAIN queue
            /\ queue'[k] = queue[k + 1] /\ e.at < queue[k + 1].at
        BY <2>2, <2>4
      <3>2. /\ queue'[k].kind = "added" <=> IsMember(x)
            /\ queue'[k].kind = "removed" => rows[x].at <= queue'[k].at
        BY <2>0, <3>1 DEF QueueTells
      <3>3. rows[x].at \in Int /\ queue'[k].at \in Int /\ e.at \in Int
        BY <1>0, <1>3, <3>1, RowTyped, QueueTyped
      <3>4. rows'[x].at = rows[x].at \/ rows'[x].at = e.at  BY <1>5, <1>8
      <3> QED  BY <3>1, <3>2, <3>3, <3>4
    <2>7. TableTells'
      <3> SUFFICES ASSUME NEW x \in Logins, ~Pending(x)' PROVE rows'[x] = NoRow <=> ~IsMember(x)
        BY <1>1 DEF TableTells, IsMember
      <3>1. CASE Pending(x)  BY <1>8, <2>5, <3>1
      <3>2. CASE ~Pending(x)
        <4>1. x # e.login  BY <2>4, <3>2
        <4> QED  BY <1>5, <2>0, <3>2, <4>1 DEF TableTells
      <3> QED  BY <3>1, <3>2
    <2>8. AccessTells'
      <3>1. access \subseteq Logins  BY <1>0 DEF TypeOK
      <3> QED  BY <1>1, <2>0, <2>5, <3>1 DEF AccessTells, IsMember
    <2>9. AdminsSettled'
      <3> SUFFICES ASSUME NEW x \in Logins \ unseen, github[x] = "admin"
                   PROVE  ~Pending(x)' /\ rows'[x].role = "admin"
        BY <1>1 DEF AdminsSettled, Fetched, NoJob
      <3>1. ~Pending(x) /\ rows[x].role = "admin"  BY <2>0 DEF AdminsSettled
      <3>2. x # e.login  BY <2>4, <3>1
      <3> QED  BY <1>5, <2>1, <3>1, <3>2
    <2>10. OldAdminsGo'
      <3> SUFFICES ASSUME NEW x \in Logins \ unseen, github[x] # "admin", rows'[x].role = "admin"
                   PROVE  Deletes(x, rows[x].at)'
        BY <1>1 DEF OldAdminsGo, Fetched, NoJob
      <3>1. rows[x].role = "admin"  BY <1>5, <1>8
      <3>2. Deletes(x, rows[x].at)  BY <2>0, <3>1 DEF OldAdminsGo
      <3>3. CASE \E j \in DOMAIN flight : flight[j].login = x /\ flight[j].kind = "removed"
        BY <1>1, <3>3 DEF Deletes
      <3>4. ASSUME NEW j \in DOMAIN queue, queue[j].login = x, queue[j].kind = "removed",
                   queue[j].at >= rows[x].at
            PROVE  Deletes(x, rows[x].at)'
        <4>1. j # 1  BY <1>1, <2>4, <3>4
        <4>2. j - 1 \in DOMAIN queue' /\ queue'[j - 1] = queue[j] /\ e.at < queue[j].at
          BY <2>3, <2>4, <4>1
        <4>3. rows'[x].at = rows[x].at \/ rows'[x].at = e.at  BY <1>5, <1>8
        <4>4. queue[j].at \in Int /\ e.at \in Int  BY <1>0, <1>3, QueueTyped
        <4>5. queue'[j - 1].at >= rows'[x].at  BY <3>4, <4>2, <4>3, <4>4
        <4> QED  BY <3>4, <4>2, <4>5 DEF Deletes
      <3> QED  BY <3>2, <3>3, <3>4 DEF Deletes
    <2> QED  BY <2>0, <2>6, <2>7, <2>8, <2>9, <2>10 DEF MembersTell, RolesTell
  <1> QED  BY <1>2, <1>7, <1>9 DEF IInv

LEMMA ApplyRemovedKeeps ==
  ASSUME IInv, NEW i \in DOMAIN queue, ApplyRemoved(i)
  PROVE  IInv'
  <1> DEFINE e == queue[i]
  <1>0. TypeOK  BY DEF IInv
  <1>1. /\ job = NoJob /\ e.kind = "removed" /\ rows' = Removed(rows, e)
        /\ access' = Revoked(rows', e.login)
        /\ queue' = RemoveAt(queue, i) /\ amiss' = (amiss \/ i # 1)
        /\ UNCHANGED <<github, flight, job, synced, clock, unseen>>
    BY DEF ApplyRemoved, Overtakes, Free
  <1>2. queue' \in Seq(Stamped') /\ StampsGrow' /\ JobInv'  BY <1>1, Applied
  <1>3. e.login \in Logins /\ e.at \in 1 .. clock  BY <1>0, QueueTyped
  <1>4. rows \in [Logins -> {NoRow} \cup [role : Roles, at : 1 .. clock]] /\ access \subseteq Logins
    BY <1>0 DEF TypeOK
  <1> HIDE DEF e
  <1>5. /\ \A x \in Logins : rows'[x] = IF x = e.login /\ rows[x].at <= e.at THEN NoRow ELSE rows[x]
        /\ rows' \in [Logins -> {NoRow} \cup [role : Roles, at : 1 .. clock]]
    BY <1>1, <1>3, <1>4 DEF Removed
  <1>6. access' \subseteq access /\ (rows'[e.login] = NoRow => e.login \notin access')
    BY <1>1 DEF Revoked
  <1>7. TypeOK'
    <2>1. Job' = Job  BY <1>1 DEF Job
    <2> QED  BY <1>0, <1>1, <1>2, <1>4, <1>5, <1>6, <2>1 DEF TypeOK
  <1>8. ASSUME ~amiss' PROVE MembersTell' /\ RolesTell'
    <2>0. /\ i = 1 /\ FlightTells'
          /\ QueueTells /\ TableTells /\ AccessTells /\ AdminsSettled /\ OldAdminsGo
      BY <1>1, <1>8, Applied DEF MembersTell, RolesTell
    <2>1. /\ \A x : Pending(x)' => Pending(x)
          /\ \A x : Pending(x) /\ ~Pending(x)' => LastOf(queue, x, 1) /\ ~In(flight, x)
      BY <1>1, <1>8, Applied
    <2>2. /\ \A x, k : LastOf(queue', x, k) =>
               /\ LastOf(queue, x, k + 1) /\ k + 1 \in DOMAIN queue
               /\ queue'[k] = queue[k + 1] /\ queue[1].at < queue[k + 1].at
      BY <1>1, <1>8, Applied
    <2>3. \A j \in DOMAIN queue : j # 1 =>
            j - 1 \in DOMAIN queue' /\ queue'[j - 1] = queue[j] /\ queue[1].at < queue[j].at
      BY <1>1, <1>8, Applied
    <2>4. e = queue[1] /\ Pending(e.login)
      <3>1. e = queue[1]  BY <2>0 DEF e
      <3> QED  BY <2>0, <3>1 DEF Pending, In
    <2>5. \A x \in Logins : Pending(x) /\ ~Pending(x)' => x = e.login /\ ~IsMember(x) /\ rows'[x] = NoRow
      <3> SUFFICES ASSUME NEW x \in Logins, Pending(x), ~Pending(x)'
                   PROVE  x = e.login /\ ~IsMember(x) /\ rows'[x] = NoRow
        OBVIOUS
      <3>1. LastOf(queue, x, 1) /\ ~In(flight, x)  BY <2>1
      <3>2. x = e.login /\ e.kind # "added"  BY <1>1, <2>4, <3>1 DEF LastOf
      <3>3. ~IsMember(x) /\ rows[x].at <= e.at  BY <1>1, <2>0, <2>4, <3>1, <3>2 DEF QueueTells,
                                                                                    LastOf
      <3> QED  BY <1>5, <3>2, <3>3
    <2>6. QueueTells'
      <3> SUFFICES ASSUME NEW x \in Logins, NEW k \in DOMAIN queue', LastOf(queue', x, k), ~In(flight, x)
                   PROVE  /\ queue'[k].kind = "added" <=> IsMember(x)
                          /\ queue'[k].kind = "removed" => rows'[x].at <= queue'[k].at
        BY <1>1 DEF QueueTells, IsMember, NoJob
      <3>1. /\ LastOf(queue, x, k + 1) /\ k + 1 \in DOMAIN queue
            /\ queue'[k] = queue[k + 1]
        BY <2>2, <2>4
      <3>2. /\ queue'[k].kind = "added" <=> IsMember(x)
            /\ queue'[k].kind = "removed" => rows[x].at <= queue'[k].at
        BY <2>0, <3>1 DEF QueueTells
      <3>3. queue'[k].at \in Nat  BY <1>0, <3>1, QueueTyped
      <3>4. rows'[x].at = rows[x].at \/ rows'[x].at = 0  BY <1>5 DEF NoRow
      <3> QED  BY <3>2, <3>3, <3>4
    <2>7. TableTells'
      <3> SUFFICES ASSUME NEW x \in Logins, ~Pending(x)' PROVE rows'[x] = NoRow <=> ~IsMember(x)
        BY <1>1 DEF TableTells, IsMember
      <3>1. CASE Pending(x)  BY <2>5, <3>1
      <3>2. CASE ~Pending(x)
        <4>1. x # e.login  BY <2>4, <3>2
        <4> QED  BY <1>5, <2>0, <3>2, <4>1 DEF TableTells
      <3> QED  BY <3>1, <3>2
    <2>8. AccessTells'
      <3> SUFFICES ASSUME NEW x \in access', ~Pending(x)' PROVE IsMember(x)
        BY <1>1 DEF AccessTells, IsMember
      <3>1. x \in access /\ x \in Logins  BY <1>4, <1>6
      <3>2. CASE Pending(x)  BY <1>6, <2>5, <3>1, <3>2
      <3>3. CASE ~Pending(x)  BY <2>0, <3>1, <3>3 DEF AccessTells
      <3> QED  BY <3>2, <3>3
    <2>9. AdminsSettled'
      <3> SUFFICES ASSUME NEW x \in Logins \ unseen, github[x] = "admin"
                   PROVE  ~Pending(x)' /\ rows'[x].role = "admin"
        BY <1>1 DEF AdminsSettled, Fetched, NoJob
      <3>1. ~Pending(x) /\ rows[x].role = "admin"  BY <2>0 DEF AdminsSettled
      <3>2. x # e.login  BY <2>4, <3>1
      <3> QED  BY <1>5, <2>1, <3>1, <3>2
    <2>10. OldAdminsGo'
      <3> SUFFICES ASSUME NEW x \in Logins \ unseen, github[x] # "admin", rows'[x].role = "admin"
                   PROVE  Deletes(x, rows[x].at)'
        BY <1>1 DEF OldAdminsGo, Fetched, NoJob
      <3>1. rows'[x] = rows[x] /\ ~(x = e.login /\ rows[x].at <= e.at)  BY <1>5 DEF NoRow
      <3>2. Deletes(x, rows[x].at)  BY <2>0, <3>1 DEF OldAdminsGo
      <3>3. CASE \E j \in DOMAIN flight : flight[j].login = x /\ flight[j].kind = "removed"
        BY <1>1, <3>3 DEF Deletes
      <3>4. ASSUME NEW j \in DOMAIN queue, queue[j].login = x, queue[j].kind = "removed",
                   queue[j].at >= rows[x].at
            PROVE  Deletes(x, rows[x].at)'
        <4>1. rows[x].at \in Int /\ e.at \in Int  BY <1>0, <1>3, RowTyped
        <4>2. j # 1  BY <2>4, <3>1, <3>4, <4>1
        <4>3. j - 1 \in DOMAIN queue' /\ queue'[j - 1] = queue[j]  BY <2>3, <4>2
        <4> QED  BY <3>1, <3>4, <4>3 DEF Deletes
      <3> QED  BY <3>2, <3>3, <3>4 DEF Deletes
    <2> QED  BY <2>0, <2>6, <2>7, <2>8, <2>9, <2>10 DEF MembersTell, RolesTell
  <1> QED  BY <1>2, <1>7, <1>8 DEF IInv

-----------------------------------------------------------------------------
(* The reconcile job *)

LEMMA LockKeeps ==
  ASSUME IInv, Lock
  PROVE  IInv'
  <1>0. TypeOK /\ StampsGrow /\ NotLate /\ PagesWhole /\ (~amiss => MembersTell /\ RolesTell)
    BY DEF IInv, JobInv
  <1> DEFINE late == {e.login : e \in ToSet(flight) \cup ToSet(queue)}
  <1>1. /\ job = NoJob /\ clock' = clock + 1
        /\ job' = [pc |-> "admins", at |-> clock', admins |-> {}, roster |-> {}, page |-> 0,
                   stayed |-> Members, shifted |-> FALSE, late |-> late]
        /\ UNCHANGED <<github, flight, queue, rows, access, synced, unseen, amiss>>
    BY DEF Lock, Free
  <1>2. \A x : In(flight, x) \/ In(queue, x) => x \in late  BY DEF In, ToSet
  <1>3. late \subseteq Logins
    <2>1. ASSUME NEW e \in ToSet(flight) PROVE e.login \in Logins
      BY <1>0, <2>1, FlightTyped DEF ToSet
    <2>2. ASSUME NEW e \in ToSet(queue) PROVE e.login \in Logins
      BY <1>0, <2>2, QueueTyped DEF ToSet
    <2> QED  BY <2>1, <2>2
  <1> HIDE DEF late
  <1>4. /\ job' # NoJob /\ ~Fetched' /\ job'.pc = "admins" /\ job'.roster = {} /\ job'.page = 0
        /\ job'.stayed = Members /\ job'.late = late /\ ~job'.shifted
    BY <1>1 DEF Fetched, NoJob
  <1>5. \A x : Pending(x)' <=> Pending(x)  BY <1>1 DEF Pending, In
  <1>6. TypeOK'
    <2>1. clock' \in 1 .. clock'  BY <1>0, <1>1, ClockMoves
    <2>2. job' \in Job'  BY <1>1, <1>3, <2>1 DEF Job, Members
    <2> QED  BY <1>0, <1>1, <2>2, ClockMoves DEF TypeOK
  <1>7. StampsGrow'  BY <1>0, <1>1 DEF StampsGrow
  <1>8. NotLate'  BY <1>1, <1>2, <1>4, <1>5 DEF NotLate, Pending, Members, IsMember
  <1>9. PagesWhole'  BY <1>1, <1>4 DEF PagesWhole, Members
  <1>10. ASSUME ~amiss PROVE MembersTell'
    <2>0. FlightTells /\ QueueTells /\ TableTells /\ AccessTells
      BY <1>0, <1>10 DEF MembersTell
    <2>1. FlightTells'  BY <1>1, <2>0 DEF FlightTells, LastOf, IsMember
    <2>2. QueueTells'  BY <1>1, <1>4, <2>0 DEF QueueTells, LastOf, In, IsMember
    <2>3. TableTells'  BY <1>1, <1>4, <1>5, <2>0 DEF TableTells, IsMember, Members
    <2>4. AccessTells'  BY <1>1, <1>5, <2>0 DEF AccessTells, IsMember
    <2> QED  BY <2>1, <2>2, <2>3, <2>4 DEF MembersTell
  <1>11. ASSUME ~amiss PROVE RolesTell'
    <2>0. AdminsSettled /\ OldAdminsGo  BY <1>0, <1>11 DEF RolesTell
    <2>1. AdminsSettled'  BY <1>1, <1>4, <1>5, <2>0 DEF AdminsSettled
    <2>2. OldAdminsGo'  BY <1>1, <1>4, <2>0 DEF OldAdminsGo, Deletes
    <2> QED  BY <2>1, <2>2 DEF RolesTell
  <1> QED  BY <1>1, <1>6, <1>7, <1>8, <1>9, <1>10, <1>11 DEF IInv, JobInv

LEMMA FetchAdminsKeeps ==
  ASSUME IInv, FetchAdmins
  PROVE  IInv'
  <1>0. TypeOK /\ StampsGrow /\ NotLate /\ PagesWhole /\ (~amiss => MembersTell /\ RolesTell)
    BY DEF IInv, JobInv
  <1>1. /\ job.pc = "admins"
        /\ job' = [job EXCEPT !.pc = "pages", !.admins = {l \in Logins : github[l] = "admin"}]
        /\ UNCHANGED <<github, flight, queue, rows, access, synced, clock, unseen, amiss>>
    BY DEF FetchAdmins
  <1>2. job \in Job \ {NoJob}  BY <1>0, <1>1 DEF TypeOK, NoJob
  <1>3. /\ job' \in Job /\ job'.pc = "pages" /\ job'.admins = {l \in Logins : github[l] = "admin"}
        /\ job'.roster = job.roster /\ job'.stayed = job.stayed /\ job'.late = job.late
        /\ job'.page = job.page /\ job'.shifted = job.shifted /\ job'.at = job.at
    BY <1>1, <1>2 DEF Job
  <1>4. job # NoJob /\ job' # NoJob /\ Fetched' /\ job.page = 0 /\ job.roster = {} /\ ~job.shifted
    <2>1. NoJob.pc = "none"  BY DEF NoJob
    <2>2. job # NoJob /\ job' # NoJob /\ Fetched'  BY <1>1, <1>3, <2>1 DEF Fetched
    <2> QED  BY <1>0, <1>1, <2>2 DEF PagesWhole
  <1>5. \A x : Pending(x)' <=> Pending(x)  BY <1>1 DEF Pending, In
  <1>6. TypeOK'
    <2>1. Stamped' = Stamped /\ Job' = Job  BY <1>1 DEF Stamped, Job
    <2> QED  BY <1>0, <1>1, <1>3, <2>1 DEF TypeOK
  <1>7. StampsGrow'  BY <1>0, <1>1 DEF StampsGrow
  <1>8. NotLate'  BY <1>0, <1>1, <1>3, <1>4, <1>5 DEF NotLate, IsMember
  <1>9. PagesWhole'
    <2>1. Members' = Members /\ \A x : Place(x)' = Place(x)  BY <1>1 DEF Members, Place
    <2>2. job.stayed \subseteq Members  BY <1>0 DEF PagesWhole
    <2>3. ASSUME NEW x \in job.stayed PROVE Place(x) \in Nat /\ Place(x) >= 1
      BY <2>2, <2>3, Placed DEF Place, Members
    <2>4. job.page * PageSize = 0  BY <1>4
    <2>5. \A x \in job.stayed : ~(Place(x) <= job.page * PageSize)  BY <2>3, <2>4
    <2> QED  BY <1>3, <1>4, <2>1, <2>2, <2>5 DEF PagesWhole
  <1>10. ASSUME ~amiss PROVE MembersTell'
    <2>0. FlightTells /\ QueueTells /\ TableTells /\ AccessTells
      BY <1>0, <1>10 DEF MembersTell
    <2>1. FlightTells'  BY <1>1, <2>0 DEF FlightTells, LastOf, IsMember
    <2>2. QueueTells'  BY <1>1, <1>3, <2>0 DEF QueueTells, LastOf, In, IsMember
    <2>3. TableTells'  BY <1>1, <1>3, <1>4, <1>5, <2>0 DEF TableTells, IsMember
    <2>4. AccessTells'  BY <1>1, <1>5, <2>0 DEF AccessTells, IsMember
    <2> QED  BY <2>1, <2>2, <2>3, <2>4 DEF MembersTell
  <1>11. ASSUME ~amiss PROVE RolesTell'
    <2>0. AdminsSettled /\ OldAdminsGo  BY <1>0, <1>11 DEF RolesTell
    <2>1. AdminsSettled'  BY <1>1, <1>3, <1>5, <2>0 DEF AdminsSettled
    <2>2. OldAdminsGo'
      <3> SUFFICES ASSUME NEW x \in Logins \ unseen, github[x] # "admin"
                   PROVE  rows[x].role = "admin" => Deletes(x, rows[x].at)
        BY <1>1, <1>3 DEF OldAdminsGo, Deletes
      <3> QED  BY <2>0 DEF OldAdminsGo
    <2> QED  BY <2>1, <2>2 DEF RolesTell
  <1> QED  BY <1>1, <1>6, <1>7, <1>8, <1>9, <1>10, <1>11 DEF IInv, JobInv

LEMMA FetchPageKeeps ==
  ASSUME IInv, FetchPage
  PROVE  IInv'
  <1> DEFINE end == (job.page + 1) * PageSize
             got == {l \in Members : Place(l) \in (end - PageSize + 1) .. end}
  <1>0. TypeOK /\ StampsGrow /\ NotLate /\ PagesWhole /\ (~amiss => MembersTell /\ RolesTell)
    BY DEF IInv, JobInv
  <1>1. /\ job.pc = "pages"
        /\ job' = [job EXCEPT !.roster = @ \cup got, !.page = @ + 1,
                              !.pc = IF Cardinality(Members) > end THEN "pages" ELSE "write"]
        /\ UNCHANGED <<github, flight, queue, rows, access, synced, clock, unseen, amiss>>
    BY DEF FetchPage
  <1>2. job \in Job \ {NoJob} /\ job # NoJob /\ job.page \in Nat
    BY <1>0, <1>1, JobTyped DEF TypeOK, NoJob
  <1>3. got \subseteq Members /\ Members \subseteq Logins  BY DEF Members
  <1>4. end - PageSize = job.page * PageSize /\ end \in Nat /\ job.page * PageSize \in Nat
    BY <1>2, PageEnd
  <1>5. \A x \in Members : Place(x) <= end => x \in got \/ Place(x) <= job.page * PageSize
    <2> SUFFICES ASSUME NEW x \in Members, Place(x) <= end, ~(Place(x) <= job.page * PageSize)
                 PROVE  x \in got
      OBVIOUS
    <2>1. Place(x) \in Nat  BY <1>3, Placed DEF Place
    <2> QED  BY <1>4, <2>1
  <1>6. \A x \in Members : Place(x) \in Nat /\ Place(x) <= Cardinality(Members)
    BY <1>3, Placed DEF Place
  <1> HIDE DEF end, got
  <1>7. /\ job' \in Job /\ job'.pc = (IF Cardinality(Members) > end THEN "pages" ELSE "write")
        /\ job'.roster = job.roster \cup got /\ job'.page = job.page + 1
        /\ job'.admins = job.admins /\ job'.stayed = job.stayed /\ job'.late = job.late
        /\ job'.shifted = job.shifted /\ job'.at = job.at
    <2> DEFINE next == IF Cardinality(Members) > end THEN "pages" ELSE "write"
    <2>1. next \in {"admins", "pages", "write"}  OBVIOUS
    <2>2. job' = [job EXCEPT !.roster = @ \cup got, !.page = @ + 1, !.pc = next]  BY <1>1
    <2> HIDE DEF next
    <2>3. /\ job'.pc = next /\ job'.roster = job.roster \cup got /\ job'.page = job.page + 1
          /\ job'.admins = job.admins /\ job'.stayed = job.stayed /\ job'.late = job.late
          /\ job'.shifted = job.shifted /\ job'.at = job.at
      BY <1>2, <2>2 DEF Job
    <2>4. job' \in Job
      <3>1. job.roster \subseteq Logins  BY <1>0, JobTyped
      <3>2. job.roster \cup got \in SUBSET Logins  BY <1>3, <3>1
      <3>3. job.page + 1 \in Nat  BY <1>2
      <3> QED  BY <1>2, <2>1, <2>2, <3>2, <3>3 DEF Job
    <2> QED  BY <2>3, <2>4 DEF next
  <1>8. job' # NoJob /\ Fetched /\ Fetched'
    BY <1>1, <1>7 DEF Fetched, NoJob
  <1>9. \A x : Pending(x)' <=> Pending(x)  BY <1>1 DEF Pending, In
  <1>10. TypeOK'
    <2>1. Stamped' = Stamped /\ Job' = Job  BY <1>1 DEF Stamped, Job
    <2> QED  BY <1>0, <1>1, <1>7, <2>1 DEF TypeOK
  <1>11. StampsGrow'  BY <1>0, <1>1 DEF StampsGrow
  <1>12. \A x \in Logins : x \in got => IsMember(x)  BY <1>3 DEF Members, IsMember
  <1>13. NotLate'  BY <1>0, <1>1, <1>2, <1>7, <1>8, <1>9, <1>12 DEF NotLate, IsMember
  <1>14. PagesWhole'
    <2>1. Members' = Members /\ \A x : Place(x)' = Place(x)  BY <1>1 DEF Members, Place
    <2>2. job.stayed \subseteq Members  BY <1>0 DEF PagesWhole
    <2>3. ~job.shifted => \A x \in job.stayed : Place(x) <= job.page * PageSize => x \in job.roster
      BY <1>0, <1>1 DEF PagesWhole
    <2>4. ~job.shifted => \A x \in job.stayed : Place(x) <= end => x \in job'.roster
      BY <1>5, <1>7, <2>2, <2>3
    <2>5. ~(Cardinality(Members) > end) => \A x \in job.stayed : Place(x) <= end
      <3>1. Cardinality(Members) \in Nat  BY MembersFinite, FS_CardinalityType
      <3> QED  BY <1>4, <1>6, <2>2, <3>1
    <2>6. job'.page * PageSize = end  BY <1>7 DEF end
    <2>7. job'.page # 0 /\ job'.pc # "admins" /\ (job'.late = {} => ~job'.shifted)
      BY <1>0, <1>2, <1>7 DEF PagesWhole
    <2>8. /\ job'.pc = "pages" => \A x \in job'.stayed : Place(x)' <= job'.page * PageSize <=> Place(x) <= end
          /\ job'.pc = "write" => \A x \in job'.stayed : Place(x) <= end
          /\ job'.stayed = job.stayed /\ (job'.shifted <=> job.shifted)
      BY <1>7, <2>1, <2>5, <2>6
    <2> QED  BY <2>1, <2>2, <2>4, <2>7, <2>8 DEF PagesWhole
  <1>15. ASSUME ~amiss PROVE MembersTell'
    <2>0. FlightTells /\ QueueTells /\ TableTells /\ AccessTells
      BY <1>0, <1>15 DEF MembersTell
    <2>1. FlightTells'  BY <1>1, <2>0 DEF FlightTells, LastOf, IsMember
    <2>2. QueueTells'
      <3> SUFFICES ASSUME NEW x \in Logins, NEW k \in DOMAIN queue, LastOf(queue, x, k), ~In(flight, x)
                   PROVE  /\ queue[k].kind = "added" <=> IsMember(x)
                          /\ queue[k].kind = "removed" =>
                               rows[x].at <= queue[k].at /\ (x \in job.roster \cup got => job.at <= queue[k].at)
        BY <1>1, <1>7 DEF QueueTells, LastOf, In, IsMember
      <3>1. x \in got => queue[k].kind = "added"  BY <1>12, <2>0 DEF QueueTells
      <3> QED  BY <2>0, <3>1 DEF QueueTells
    <2>3. TableTells'  BY <1>1, <1>2, <1>7, <1>9, <1>12, <2>0 DEF TableTells, IsMember
    <2>4. AccessTells'  BY <1>1, <1>9, <2>0 DEF AccessTells, IsMember
    <2> QED  BY <2>1, <2>2, <2>3, <2>4 DEF MembersTell
  <1>16. ASSUME ~amiss PROVE RolesTell'
    <2>0. AdminsSettled /\ OldAdminsGo  BY <1>0, <1>16 DEF RolesTell
    <2>1. AdminsSettled'  BY <1>1, <1>7, <1>8, <1>9, <2>0 DEF AdminsSettled
    <2>2. OldAdminsGo'  BY <1>1, <1>7, <1>8, <2>0 DEF OldAdminsGo, Deletes
    <2> QED  BY <2>1, <2>2 DEF RolesTell
  <1> QED  BY <1>1, <1>10, <1>11, <1>13, <1>14, <1>15, <1>16 DEF IInv, JobInv

(* What a roster writes, whole or in part.                                 *)
LEMMA WrittenRow ==
  ASSUME TypeOK, NEW x \in Logins, NEW some
  PROVE  LET new == Written(rows, some, RoleOf, SnapshotTime(job.at))
         IN  /\ x \notin some => new[x] = rows[x]
             /\ x \in some => /\ new[x].role = (IF x \in job.admins THEN "admin" ELSE "member")
                              /\ new[x].at = IF rows[x] = NoRow THEN job.at ELSE rows[x].at
                              /\ new[x] # NoRow
  BY DEF Written, RoleOf, SnapshotTime, NoRow

LEMMA WrittenTyped ==
  ASSUME TypeOK, job # NoJob, NEW some
  PROVE  Written(rows, some, RoleOf, SnapshotTime(job.at))
           \in [Logins -> {NoRow} \cup [role : Roles, at : 1 .. clock]]
  <1>1. job.at \in 1 .. clock  BY DEF TypeOK, Job
  <1>2. rows \in [Logins -> {NoRow} \cup [role : Roles, at : 1 .. clock]]  BY DEF TypeOK
  <1> QED  BY <1>1, <1>2 DEF Written, RoleOf, SnapshotTime, Roles, NoRow

(* The tenant's lock is free again, and nothing but the table is written.  *)
LEMMA Unlocked ==
  ASSUME IInv, job' = NoJob,
         rows' \in [Logins -> {NoRow} \cup [role : Roles, at : 1 .. clock]],
         synced' \in 0 .. clock, unseen' \subseteq Logins, amiss' \in BOOLEAN,
         UNCHANGED <<github, flight, queue, access, clock>>
  PROVE  /\ TypeOK' /\ StampsGrow' /\ JobInv' /\ ~Fetched'
         /\ \A x : Pending(x)' <=> Pending(x)
         /\ MembersTell => FlightTells' /\ AccessTells'
  <1>0. TypeOK /\ StampsGrow  BY DEF IInv
  <1>1. job' \in Job' /\ Stamped' = Stamped  BY DEF Job, Stamped
  <1>2. TypeOK'  BY <1>0, <1>1 DEF TypeOK
  <1>3. StampsGrow'  BY <1>0 DEF StampsGrow
  <1>4. JobInv' /\ ~Fetched'  BY DEF JobInv, NotLate, PagesWhole, Fetched, NoJob
  <1>5. \A x : Pending(x)' <=> Pending(x)  BY DEF Pending, In
  <1>6. MembersTell => FlightTells' /\ AccessTells'
    BY <1>5 DEF MembersTell, FlightTells, LastOf, AccessTells, IsMember
  <1> QED  BY <1>2, <1>3, <1>4, <1>5, <1>6

(* Nothing is written.                                                     *)
LEMMA AbortKeeps ==
  ASSUME IInv, Abort
  PROVE  IInv'
  <1>1. /\ job' = NoJob
        /\ UNCHANGED <<github, flight, queue, rows, access, synced, clock, unseen, amiss>>
    BY DEF Abort
  <1>2. TypeOK /\ (~amiss => MembersTell /\ RolesTell)  BY DEF IInv
  <1>3. /\ TypeOK' /\ StampsGrow' /\ JobInv' /\ ~Fetched'
        /\ \A x : Pending(x)' <=> Pending(x)
        /\ MembersTell => FlightTells' /\ AccessTells'
    <2>1. /\ rows' \in [Logins -> {NoRow} \cup [role : Roles, at : 1 .. clock]]
          /\ synced' \in 0 .. clock /\ unseen' \subseteq Logins /\ amiss' \in BOOLEAN
      BY <1>1, <1>2 DEF TypeOK
    <2> QED  BY <1>1, <2>1, Unlocked
  <1>4. QueueTells => QueueTells'  BY <1>1 DEF QueueTells, LastOf, In, IsMember, NoJob
  <1>5. TableTells => TableTells'  BY <1>1, <1>3 DEF TableTells, IsMember
  <1>6. AdminsSettled => AdminsSettled'  BY <1>1, <1>3 DEF AdminsSettled
  <1>7. OldAdminsGo => OldAdminsGo'
    <2>1. \A l, t : Deletes(l, t)' <=> Deletes(l, t)  BY <1>1 DEF Deletes
    <2> QED  BY <1>1, <1>3, <2>1 DEF OldAdminsGo
  <1> QED  BY <1>1, <1>2, <1>3, <1>4, <1>5, <1>6, <1>7 DEF IInv, MembersTell, RolesTell

(* Part of the roster is written.                                          *)
LEMMA RaiseKeeps ==
  ASSUME IInv, Raise
  PROVE  IInv'
  <1>1. /\ job.pc = "write" /\ job' = NoJob
        /\ UNCHANGED <<github, flight, queue, access, synced, clock, unseen, amiss>>
    BY DEF Raise
  <1>2. PICK some \in SUBSET job.roster : rows' = Written(rows, some, RoleOf, SnapshotTime(job.at))
    BY DEF Raise
  <1>3. TypeOK /\ (~amiss => MembersTell /\ RolesTell) /\ job # NoJob /\ Fetched
    BY <1>1 DEF IInv, NoJob, Fetched
  <1>4. ASSUME NEW x \in Logins
        PROVE  /\ x \notin some => rows'[x] = rows[x]
               /\ x \in some => /\ rows'[x].role = (IF x \in job.admins THEN "admin" ELSE "member")
                                /\ rows'[x].at = IF rows[x] = NoRow THEN job.at ELSE rows[x].at
                                /\ rows'[x] # NoRow /\ x \in job.roster
    BY <1>2, <1>3, WrittenRow
  <1>5. /\ TypeOK' /\ StampsGrow' /\ JobInv' /\ ~Fetched'
        /\ \A x : Pending(x)' <=> Pending(x)
        /\ MembersTell => FlightTells' /\ AccessTells'
    <2>1. /\ rows' \in [Logins -> {NoRow} \cup [role : Roles, at : 1 .. clock]]
          /\ synced' \in 0 .. clock /\ unseen' \subseteq Logins /\ amiss' \in BOOLEAN
      BY <1>1, <1>2, <1>3, WrittenTyped DEF TypeOK
    <2> QED  BY <1>1, <2>1, Unlocked
  <1>6. ASSUME QueueTells PROVE QueueTells'
    <2> SUFFICES ASSUME NEW x \in Logins, NEW k \in DOMAIN queue, LastOf(queue, x, k), ~In(flight, x)
                 PROVE  /\ queue[k].kind = "added" <=> IsMember(x)
                        /\ queue[k].kind = "removed" => rows'[x].at <= queue[k].at
      BY <1>1 DEF QueueTells, LastOf, In, IsMember, NoJob
    <2> QED  BY <1>4, <1>6 DEF QueueTells
  <1>7. ASSUME TableTells PROVE TableTells'
    <2> SUFFICES ASSUME NEW x \in Logins, ~Pending(x) PROVE rows'[x] = NoRow <=> ~IsMember(x)
      BY <1>1, <1>5 DEF TableTells, IsMember
    <2> QED  BY <1>3, <1>4, <1>7 DEF TableTells
  <1>8. ASSUME AdminsSettled PROVE AdminsSettled'
    BY <1>1, <1>3, <1>4, <1>5, <1>8 DEF AdminsSettled
  <1>9. ASSUME OldAdminsGo PROVE OldAdminsGo'
    <2> SUFFICES ASSUME NEW x \in Logins \ unseen, github[x] # "admin", rows'[x].role = "admin"
                 PROVE  Deletes(x, rows[x].at)'
      BY <1>1, <1>5 DEF OldAdminsGo
    <2>1. CASE x \notin some
      <3>1. rows'[x] = rows[x]  BY <1>4, <2>1
      <3> QED  BY <1>1, <1>9, <3>1 DEF OldAdminsGo, Deletes
    <2>2. CASE x \in some
      <3>1. x \in job.admins /\ rows'[x].at \in {job.at, rows[x].at}  BY <1>4, <2>2
      <3>2. Deletes(x, rows[x].at) /\ Deletes(x, job.at)  BY <1>3, <1>9, <3>1 DEF OldAdminsGo
      <3> QED  BY <1>1, <3>1, <3>2 DEF Deletes
    <2> QED  BY <2>1, <2>2
  <1> QED  BY <1>1, <1>3, <1>5, <1>6, <1>7, <1>8, <1>9 DEF IInv, MembersTell, RolesTell

(* The roster is written, and settles the roles of those not late.         *)
LEMMA WriteKeeps ==
  ASSUME IInv, Write
  PROVE  IInv'
  <1>1. /\ job.pc = "write" /\ job' = NoJob /\ unseen' = job.late /\ synced' = clock
        /\ amiss' = (amiss \/ job.shifted)
        /\ rows' = Reconciled(rows, job.roster, RoleOf, SnapshotTime(job.at))
        /\ UNCHANGED <<github, flight, queue, access, clock>>
    BY DEF Write
  <1>2. /\ TypeOK /\ NotLate /\ PagesWhole /\ (~amiss => MembersTell /\ RolesTell)
        /\ job # NoJob /\ Fetched /\ job \in Job
    BY <1>1 DEF IInv, JobInv, NoJob, Fetched, TypeOK
  <1>3. ASSUME NEW x \in Logins
        PROVE  /\ x \notin job.roster => rows'[x] = NoRow
               /\ x \in job.roster => /\ rows'[x].role = (IF x \in job.admins THEN "admin" ELSE "member")
                                      /\ rows'[x].at = IF rows[x] = NoRow THEN job.at ELSE rows[x].at
                                      /\ rows'[x] # NoRow
    <2>1. rows'[x] = IF x \in job.roster THEN Written(rows, job.roster, RoleOf, SnapshotTime(job.at))[x]
                     ELSE NoRow
      BY <1>1 DEF Reconciled
    <2> QED  BY <1>2, <2>1, WrittenRow
  <1>4. /\ TypeOK' /\ StampsGrow' /\ JobInv' /\ ~Fetched'
        /\ \A x : Pending(x)' <=> Pending(x)
        /\ MembersTell => FlightTells' /\ AccessTells'
    <2>1. rows' \in [Logins -> {NoRow} \cup [role : Roles, at : 1 .. clock]]
      <3>1. Written(rows, job.roster, RoleOf, SnapshotTime(job.at))
              \in [Logins -> {NoRow} \cup [role : Roles, at : 1 .. clock]]
        BY <1>2, WrittenTyped
      <3> QED  BY <1>1, <3>1 DEF Reconciled
    <2>2. synced' \in 0 .. clock /\ amiss' \in BOOLEAN /\ unseen' \subseteq Logins
      <3>1. job.late \subseteq Logins  BY <1>2 DEF Job
      <3>2. job.shifted \in BOOLEAN /\ amiss \in BOOLEAN /\ clock \in Nat
        BY <1>2, JobTyped DEF TypeOK
      <3> QED  BY <1>1, <3>1, <3>2
    <2> QED  BY <1>1, <2>1, <2>2, Unlocked
  <1>5. ASSUME ~amiss' PROVE MembersTell' /\ RolesTell'
    <2>0. ~amiss /\ MembersTell /\ QueueTells /\ TableTells /\ job.stayed \subseteq job.roster
      BY <1>1, <1>2, <1>5 DEF MembersTell, PagesWhole
    <2>1. QueueTells'
      <3> SUFFICES ASSUME NEW x \in Logins, NEW k \in DOMAIN queue, LastOf(queue, x, k), ~In(flight, x)
                   PROVE  /\ queue[k].kind = "added" <=> IsMember(x)
                          /\ queue[k].kind = "removed" => rows'[x].at <= queue[k].at
        BY <1>1 DEF QueueTells, LastOf, In, IsMember, NoJob
      <3>1. CASE x \in job.roster  BY <1>3, <2>0, <3>1 DEF QueueTells
      <3>2. CASE x \notin job.roster
        <4>1. rows'[x].at = 0  BY <1>3, <3>2 DEF NoRow
        <4>2. queue[k].at \in Nat  BY <1>2, QueueTyped
        <4> QED  BY <2>0, <4>1, <4>2 DEF QueueTells
      <3> QED  BY <3>1, <3>2
    <2>2. TableTells'
      <3> SUFFICES ASSUME NEW x \in Logins, ~Pending(x) PROVE rows'[x] = NoRow <=> ~IsMember(x)
        BY <1>1, <1>4 DEF TableTells, IsMember
      <3> QED  BY <1>2, <1>3, <2>0 DEF TableTells
    <2>3. AdminsSettled'
      <3> SUFFICES ASSUME NEW x \in Logins \ job.late, github[x] = "admin"
                   PROVE  ~Pending(x) /\ rows'[x].role = "admin"
        BY <1>1, <1>4 DEF AdminsSettled
      <3>1. ~Pending(x) /\ x \in job.admins /\ (x \in job.stayed <=> IsMember(x))
        BY <1>2 DEF NotLate
      <3>2. x \in job.roster  BY <2>0, <3>1 DEF IsMember
      <3> QED  BY <1>3, <3>1, <3>2
    <2>4. OldAdminsGo'
      <3> SUFFICES ASSUME NEW x \in Logins \ job.late, github[x] # "admin"
                   PROVE  rows'[x].role # "admin"
        BY <1>1, <1>4 DEF OldAdminsGo
      <3>1. x \notin job.admins  BY <1>2 DEF NotLate
      <3> QED  BY <1>3, <3>1 DEF NoRow
    <2> QED  BY <1>4, <2>0, <2>1, <2>2, <2>3, <2>4 DEF MembersTell, RolesTell
  <1> QED  BY <1>4, <1>5 DEF IInv

-----------------------------------------------------------------------------
(* Theorems *)

LEMMA InitInv == Init => IInv
  <1> SUFFICES ASSUME Init PROVE IInv  OBVIOUS
  <1>1. /\ github \in [Logins -> {"none", "member"}]
        /\ flight = <<>> /\ queue = <<>> /\ job = NoJob /\ synced = 0 /\ clock = 1
        /\ unseen = {} /\ amiss = FALSE
        /\ rows = [l \in Logins |-> IF github[l] = "none" THEN NoRow ELSE [role |-> github[l], at |-> 1]]
        /\ access = {l \in Logins : github[l] # "none"}
    BY DEF Init
  <1>2. \A l \in Logins : rows[l] = IF github[l] = "none" THEN NoRow ELSE [role |-> github[l], at |-> 1]
    BY <1>1
  <1>3. DOMAIN flight = {} /\ DOMAIN queue = {} /\ \A l : ~Pending(l)
    BY <1>1 DEF Pending, In
  <1>4. TypeOK
    <2>1. rows \in [Logins -> {NoRow} \cup [role : Roles, at : 1 .. clock]]  BY <1>1 DEF Roles
    <2>2. flight \in Seq(Event) /\ queue \in Seq(Stamped)  BY <1>1
    <2>3. job \in Job  BY <1>1 DEF Job
    <2>4. github \in [Logins -> Roles \cup {"none"}] /\ access \subseteq Logins /\ unseen \subseteq Logins
      BY <1>1 DEF Roles
    <2>5. synced = 0 /\ clock = 1  BY <1>1
    <2>6. synced \in 0 .. clock /\ clock \in Nat \ {0}  BY <2>5
    <2>7. amiss \in BOOLEAN  BY <1>1
    <2> QED  BY <2>1, <2>2, <2>3, <2>4, <2>6, <2>7 DEF TypeOK
  <1>5. StampsGrow  BY <1>3 DEF StampsGrow
  <1>6. JobInv  BY <1>1 DEF JobInv, NotLate, PagesWhole, NoJob, Fetched
  <1>7. MembersTell
    <2>1. FlightTells /\ QueueTells  BY <1>3 DEF FlightTells, QueueTells
    <2>2. TableTells  BY <1>1, <1>2 DEF TableTells, IsMember, NoRow
    <2>3. AccessTells  BY <1>1 DEF AccessTells, IsMember
    <2> QED  BY <2>1, <2>2, <2>3 DEF MembersTell
  <1>8. RolesTell
    <2>1. \A l \in Logins : github[l] # "admin" /\ rows[l].role # "admin"  BY <1>1, <1>2 DEF NoRow
    <2>2. ~Fetched  BY <1>1 DEF Fetched, NoJob
    <2> QED  BY <2>1, <2>2 DEF RolesTell, AdminsSettled, OldAdminsGo
  <1> QED  BY <1>4, <1>5, <1>6, <1>7, <1>8 DEF IInv

LEMMA NextInv == IInv /\ [Next]_vars => IInv'
  <1> SUFFICES ASSUME IInv, [Next]_vars PROVE IInv'  OBVIOUS
  <1>1. ASSUME NEW l \in Logins, Join(l) \/ Leave(l) PROVE IInv'  BY <1>1, MoveKeeps
  <1>2. ASSUME NEW l \in Logins, NEW role \in Roles, SetRole(l, role) PROVE IInv'  BY <1>2, SetRoleKeeps
  <1>3. ASSUME NEW i \in DOMAIN flight, Receive(i) PROVE IInv'  BY <1>3, ReceiveKeeps
  <1>4. ASSUME NEW i \in DOMAIN flight, Lose(i) PROVE IInv'  BY <1>4, LoseKeeps
  <1>5. ASSUME NEW i \in DOMAIN queue, ApplyAdded(i) PROVE IInv'  BY <1>5, ApplyAddedKeeps
  <1>6. ASSUME NEW i \in DOMAIN queue, ApplyRemoved(i) PROVE IInv'  BY <1>6, ApplyRemovedKeeps
  <1>7. CASE Lock  BY <1>7, LockKeeps
  <1>8. CASE FetchAdmins  BY <1>8, FetchAdminsKeeps
  <1>9. CASE FetchPage  BY <1>9, FetchPageKeeps
  <1>10. CASE Write  BY <1>10, WriteKeeps
  <1>11. CASE Abort  BY <1>11, AbortKeeps
  <1>12. CASE Raise  BY <1>12, RaiseKeeps
  <1>13. CASE UNCHANGED vars
    <2>1. UNCHANGED <<github, flight, queue, rows, access, job, synced, clock, unseen, amiss>>
      BY <1>13 DEF vars
    <2>2. Stamped' = Stamped /\ Job' = Job /\ Members' = Members /\ (Fetched' <=> Fetched)
      BY <2>1 DEF Stamped, Job, Members, Fetched
    <2>3. \A x : /\ Place(x)' = Place(x) /\ (Pending(x)' <=> Pending(x)) /\ (IsMember(x)' <=> IsMember(x))
      BY <2>1, <2>2 DEF Place, Pending, In, IsMember
    <2>4. TypeOK' /\ StampsGrow'  BY <2>1, <2>2 DEF IInv, TypeOK, StampsGrow
    <2>5. NotLate'  BY <2>1, <2>2, <2>3 DEF IInv, JobInv, NotLate
    <2>6. PagesWhole'  BY <2>1, <2>2, <2>3 DEF IInv, JobInv, PagesWhole
    <2>7. FlightTells /\ QueueTells => FlightTells' /\ QueueTells'
      BY <2>1, <2>3 DEF FlightTells, QueueTells, LastOf, In
    <2>8. TableTells /\ AccessTells => TableTells' /\ AccessTells'
      BY <2>1, <2>3 DEF TableTells, AccessTells
    <2>9. AdminsSettled => AdminsSettled'  BY <2>1, <2>2, <2>3 DEF AdminsSettled
    <2>10. OldAdminsGo => OldAdminsGo'  BY <2>1, <2>2 DEF OldAdminsGo, Deletes
    <2> QED  BY <2>1, <2>4, <2>5, <2>6, <2>7, <2>8, <2>9, <2>10 DEF IInv, JobInv, MembersTell,
                                                                    RolesTell
  <1> QED  BY <1>1, <1>2, <1>3, <1>4, <1>5, <1>6, <1>7, <1>8, <1>9, <1>10, <1>11, <1>12, <1>13 DEF Next

THEOREM Invariant == Spec => []IInv
  BY InitInv, NextInv, PTL DEF Spec

(* Every variable keeps its type: a row or a webhook has no stamp that the *)
(* database did not give yet, a job that runs has the time of its lock     *)
(* (org_membership_store.py, membership_reconcile.py).                     *)
THEOREM TypeCorrect == Spec => []TypeOK
  <1>1. IInv => TypeOK  BY DEF IInv
  <1> QED  BY <1>1, Invariant, PTL

(* Whatever interleaving of webhooks, interrupted and whole rosters, and   *)
(* changes between them: once all is quiet the table has GitHub's members, *)
(* with the roles a roster settled, and who is no member has no access --  *)
(* for any number of logins, pages, jobs and changes, unless a webhook was *)
(* lost or overtook another or the list moved up under a roster.           *)
THEOREM QuietTableInStep == Spec => []TableInStep
  <1>1. ASSUME IInv PROVE TableInStep
    <2>1. TypeOK /\ (~amiss => MembersTell /\ RolesTell)  BY <1>1 DEF IInv
    <2>2. ASSUME Quiet, ~amiss PROVE InStep /\ RolesAgree /\ RemovedLosesAccess
      <3>1. \A l : ~Pending(l)  BY <2>2 DEF Quiet, Pending, In
      <3>2. InStep  BY <2>1, <2>2, <3>1 DEF MembersTell, TableTells, InStep, IsMember
      <3>3. RolesAgree
        <4> SUFFICES ASSUME NEW l \in Members \ unseen PROVE rows[l].role = github[l]
          BY DEF RolesAgree
        <4>1. l \in Logins \ unseen /\ github[l] \in {"member", "admin"}
          BY <2>1 DEF Members, TypeOK, Roles
        <4>2. rows[l] # NoRow  BY <3>2, <4>1 DEF InStep
        <4>3. rows[l].role \in Roles  BY <2>1, <4>1, <4>2, RowTyped
        <4>4. github[l] = "admin" => rows[l].role = "admin"
          BY <2>1, <2>2, <4>1 DEF RolesTell, AdminsSettled
        <4>5. ~Deletes(l, rows[l].at)  BY <2>2 DEF Quiet, Deletes
        <4>6. github[l] # "admin" => rows[l].role # "admin"
          BY <2>1, <2>2, <4>1, <4>5 DEF RolesTell, OldAdminsGo
        <4> QED  BY <4>1, <4>3, <4>4, <4>6 DEF Roles
      <3>4. RemovedLosesAccess
        BY <2>1, <2>2, <3>1
        DEF MembersTell, AccessTells, IsMember, RemovedLosesAccess, Members, TypeOK
      <3> QED  BY <3>2, <3>3, <3>4
    <2> QED  BY <2>1, <2>2 DEF TableInStep
  <1> QED  BY <1>1, Invariant, PTL

(* A roster leaves no one in the table who was not in it, settles the role *)
(* of everyone when nothing changed under it, and deletes no one who was   *)
(* in the org throughout unless someone left between two pages             *)
(* (membership_reconcile.py).  It takes no order of the webhooks.          *)
THEOREM RostersMend == Spec => RosterMends
  <1>1. ASSUME IInv, [Next]_vars PROVE [CursorIsWhole /\ Mends /\ KeepsMembers]_vars
    <2>0. TypeOK /\ NotLate /\ PagesWhole  BY <1>1 DEF IInv, JobInv
    <2>1. CASE Write
      <3>1. /\ job.pc = "write" /\ job # NoJob /\ Fetched /\ job.admins \subseteq Logins
            /\ rows' = Reconciled(rows, job.roster, RoleOf, SnapshotTime(job.at))
        BY <2>0, <2>1, JobTyped DEF Write, NoJob, Fetched
      <3>2. ASSUME NEW x \in Logins
            PROVE  /\ x \notin job.roster => rows'[x] = NoRow
                   /\ x \in job.roster => /\ rows'[x].role = (IF x \in job.admins THEN "admin" ELSE "member")
                                          /\ rows'[x] # NoRow
        <4>1. rows'[x] = IF x \in job.roster THEN Written(rows, job.roster, RoleOf, SnapshotTime(job.at))[x]
                         ELSE NoRow
          BY <3>1 DEF Reconciled
        <4>2. CASE x \notin job.roster  BY <4>1, <4>2
        <4>3. CASE x \in job.roster
          <5> DEFINE new == Written(rows, job.roster, RoleOf, SnapshotTime(job.at))
          <5>1. new[x].role = (IF x \in job.admins THEN "admin" ELSE "member") /\ new[x] # NoRow
            BY <2>0, <4>3, WrittenRow
          <5>2. rows'[x] = new[x]  BY <4>1, <4>3
          <5> HIDE DEF new
          <5> QED  BY <4>3, <5>1, <5>2
        <4> QED  BY <4>2, <4>3
      <3>3. CursorIsWhole  BY <3>2 DEF CursorIsWhole
      <3>4. ASSUME job.late = {}, NEW x \in Logins PROVE rows'[x].role = github[x]
        <4>1. /\ x \in job.stayed <=> IsMember(x)
              /\ x \in job.admins <=> github[x] = "admin"
              /\ x \in job.roster => IsMember(x)
          BY <2>0, <3>1, <3>4 DEF NotLate
        <4>2. github[x] \in {"none", "member", "admin"}  BY <2>0 DEF TypeOK, Roles
        <4>3. IsMember(x) => x \in job.roster
          BY <2>0, <3>1, <3>4, <4>1 DEF PagesWhole
        <4>4. CASE IsMember(x)
          <5>1. rows'[x].role = IF x \in job.admins THEN "admin" ELSE "member"
            BY <3>2, <4>3, <4>4
          <5> QED  BY <4>1, <4>2, <4>4, <5>1 DEF IsMember
        <4>5. CASE ~IsMember(x)
          <5>1. rows'[x] = NoRow  BY <3>2, <4>1, <4>5
          <5> QED  BY <4>5, <5>1 DEF IsMember, NoRow
        <4> QED  BY <4>4, <4>5
      <3>5. KeepsMembers
        <4> SUFFICES ASSUME ~job.shifted, NEW l \in job.stayed PROVE rows'[l] # NoRow
          BY DEF KeepsMembers
        <4>1. l \in job.roster /\ l \in Logins  BY <2>0, <3>1 DEF PagesWhole, Members
        <4> QED  BY <3>2, <4>1
      <3> QED  BY <3>3, <3>4, <3>5 DEF Mends
    <2>2. CASE Raise
      <3>1. synced' = synced /\ job.pc = "write" /\ job.stayed \subseteq Logins
        BY <2>0, <2>2 DEF Raise, PagesWhole, Members
      <3>2. PICK some \in SUBSET job.roster : rows' = Written(rows, some, RoleOf, SnapshotTime(job.at))
        BY <2>2 DEF Raise
      <3>3. \A l \in Logins : rows[l] # NoRow => rows'[l] # NoRow  BY <2>0, <3>2, WrittenRow
      <3> QED  BY <3>1, <3>3 DEF CursorIsWhole, Mends, KeepsMembers
    <2>3. ASSUME synced' = synced, job = NoJob \/ job' # NoJob \/ rows' = rows
          PROVE  CursorIsWhole /\ Mends /\ KeepsMembers
      BY <2>3 DEF CursorIsWhole, Mends, KeepsMembers
    <2>4. ASSUME NEW l \in Logins, Join(l) \/ Leave(l) \/ \E role \in Roles : SetRole(l, role)
          PROVE  synced' = synced /\ rows' = rows
      BY <2>4 DEF Join, Leave, SetRole
    <2>5. ASSUME NEW i \in DOMAIN flight, Receive(i) \/ Lose(i) PROVE synced' = synced /\ rows' = rows
      BY <2>5 DEF Receive, Lose
    <2>6. ASSUME NEW i \in DOMAIN queue, ApplyAdded(i) \/ ApplyRemoved(i) PROVE synced' = synced /\ job = NoJob
      BY <2>6 DEF ApplyAdded, ApplyRemoved, Free
    <2>7. ASSUME Lock \/ FetchAdmins \/ FetchPage \/ Abort PROVE synced' = synced /\ rows' = rows
      BY <2>7 DEF Lock, FetchAdmins, FetchPage, Abort
    <2>8. CASE UNCHANGED vars  BY <2>8
    <2> QED  BY <1>1, <2>1, <2>2, <2>3, <2>4, <2>5, <2>6, <2>7, <2>8 DEF Next
  <1>2. IInv /\ [Next]_vars => [CursorIsWhole /\ Mends /\ KeepsMembers]_vars  BY <1>1
  <1> QED  BY <1>2, Invariant, PTL DEF Spec, RosterMends

-----------------------------------------------------------------------------
(* Invitations.  What is said of accepting needs no more than the order of *)
(* its two commits.  What is said of a login needs that one runs at a      *)
(* time: then nothing but an acceptance comes between its steps, and that  *)
(* adds a member where there was none.                                     *)

RequestPcs == {"idle", "insert", "revoke", "expire", "refresh", "find", "persist", "mark"}
SyncPcs    == {"idle", "look", "grant", "list", "delete", "demote"}
WithRow    == {"revoke", "expire", "refresh", "find", "persist", "mark"}
LoginRoles      == {"none", "member", "admin"}

Row    == [st : I!Final \cup {"none", "pending", "expired"}, lapsed : BOOLEAN, link : 0 .. MaxLinks]
Member == {I!NoMember} \cup [role : {"member", "admin"}, source : {"invite", "github"}]
Req    == [pc : RequestPcs \cup SyncPcs, id : Ids \cup {I!NoId}, link : 0 .. MaxLinks,
           saw : LoginRoles \cup {"find", "preview"}, late : BOOLEAN]

(* A request of the person or an admin, and a sync, that hold what they    *)
(* need for the step they are at.                                          *)
RequestOK(r) == r.pc \in RequestPcs /\ (r.pc \in WithRow => r.id \in Ids)
SyncOK(r)    == r.pc \in SyncPcs /\ r.saw \in LoginRoles

RowsOK == invitations \in [Ids -> Row]
RestOK == member \in Member /\ onGithub \in LoginRoles /\ left \in BOOLEAN /\ settled \in BOOLEAN
ReqsOK ==
  /\ reqs \in [Requests \cup Syncs -> Req]
  /\ \A q \in Requests : RequestOK(reqs[q])
  /\ \A y \in Syncs : SyncOK(reqs[y])

InviteTypes == RowsOK /\ RestOK /\ ReqsOK

OnePending == \A i, j \in I!Pending(invitations) : i = j

(* What is about to be marked as accepted has its member.                  *)
MarkedIsIn == \A q \in Requests : I!At(q, "mark") => member # I!NoMember \/ left

InviteInv == InviteTypes /\ OnePending /\ MarkedIsIn /\ I!AcceptedIsIn

(* An invitation makes nobody an admin, and a promotion takes over.        *)
AdminIsGithubs == member.role = "admin" => member.source = "github"

(* What a login is about to do fits what it was told and what is stored.   *)
LoginFits ==
  \A y \in Syncs :
    /\ reqs[y].pc \in {"look", "grant"} => reqs[y].saw = "admin"
    /\ I!At(y, "list") /\ reqs[y].saw = "admin" => member.role = "admin"
    /\ I!At(y, "delete") => reqs[y].saw = "none" /\ member.source = "github"
    /\ I!At(y, "demote") => reqs[y].saw = "member" /\ member.source = "github"
    /\ ~I!At(y, "idle") /\ ~reqs[y].late => reqs[y].saw = onGithub
    /\ ~I!At(y, "idle") /\ reqs[y].late => ~settled

OneSync == \A y, z \in Syncs : y = z

LoginInv == InviteTypes /\ AdminIsGithubs /\ LoginFits /\ I!AdminAsOnGithub

-----------------------------------------------------------------------------
LEMMA Facts ==
  I!InvitationAssumption =>
    /\ Ids \subseteq Nat /\ I!NoId \notin Ids /\ Requests \cap Syncs = {}
    /\ MaxLinks \in Nat /\ 1 \in 0 .. MaxLinks /\ 0 \in 0 .. MaxLinks
  BY DEF I!InvitationAssumption, I!NoId

LEMMA IdleIsReq ==
  I!InvitationAssumption =>
    I!Idle \in Req /\ I!Idle.pc = "idle" /\ I!Idle.saw = "none" /\ ~I!Idle.late /\ RequestOK(I!Idle) /\ SyncOK(I!Idle)
  BY Facts DEF I!Idle, Req, RequestPcs, SyncPcs, WithRow, LoginRoles, RequestOK, SyncOK

(* What Go and To leave of the requests.                                   *)
LEMMA GoTypes ==
  ASSUME I!InvitationAssumption, ReqsOK, NEW q \in Requests \cup Syncs, NEW r \in Req,
         q \in Requests => RequestOK(r), q \in Syncs => SyncOK(r), I!Go(q, r)
  PROVE  ReqsOK' /\ reqs'[q] = r /\ \A p \in (Requests \cup Syncs) \ {q} : reqs'[p] = reqs[p]
  <1>1. /\ reqs' \in [Requests \cup Syncs -> Req] /\ reqs'[q] = r
        /\ \A p \in (Requests \cup Syncs) \ {q} : reqs'[p] = reqs[p]
    BY DEF I!Go, ReqsOK
  <1> QED  BY <1>1 DEF ReqsOK

LEMMA PcTypes ==
  ASSUME NEW r \in Req, NEW pc \in RequestPcs \cup SyncPcs
  PROVE  /\ [r EXCEPT !.pc = pc] \in Req /\ [r EXCEPT !.pc = pc].pc = pc
         /\ [r EXCEPT !.pc = pc].id = r.id /\ [r EXCEPT !.pc = pc].saw = r.saw
         /\ [r EXCEPT !.pc = pc].late = r.late
  BY DEF Req

LEMMA IdleTypes ==
  ASSUME I!InvitationAssumption, ReqsOK, NEW q \in Requests \cup Syncs, I!Go(q, I!Idle)
  PROVE  /\ ReqsOK' /\ reqs'[q].pc = "idle" /\ reqs'[q] = I!Idle
         /\ \A p \in (Requests \cup Syncs) \ {q} : reqs'[p] = reqs[p]
  BY IdleIsReq, GoTypes

LEMMA RequestTo ==
  ASSUME I!InvitationAssumption, ReqsOK, NEW q \in Requests, NEW pc \in RequestPcs, I!To(q, pc),
         pc \in WithRow => reqs[q].id \in Ids
  PROVE  /\ ReqsOK' /\ reqs'[q].pc = pc
         /\ \A p \in (Requests \cup Syncs) \ {q} : reqs'[p] = reqs[p]
  <1> DEFINE r == [reqs[q] EXCEPT !.pc = pc]
  <1>1. r \in Req /\ r.pc = pc /\ r.id = reqs[q].id  BY PcTypes DEF ReqsOK
  <1>2. RequestOK(r) /\ q \notin Syncs  BY <1>1, Facts DEF RequestOK
  <1>3. I!Go(q, r)  BY DEF I!To
  <1> HIDE DEF r
  <1> QED  BY <1>1, <1>2, <1>3, GoTypes

LEMMA SyncTo ==
  ASSUME I!InvitationAssumption, ReqsOK, NEW y \in Syncs, NEW pc \in SyncPcs, I!To(y, pc)
  PROVE  /\ ReqsOK' /\ reqs'[y].pc = pc /\ reqs'[y].saw = reqs[y].saw /\ reqs'[y].late = reqs[y].late
         /\ \A p \in (Requests \cup Syncs) \ {y} : reqs'[p] = reqs[p]
  <1> DEFINE r == [reqs[y] EXCEPT !.pc = pc]
  <1>1. r \in Req /\ r.pc = pc /\ r.saw = reqs[y].saw /\ r.late = reqs[y].late  BY PcTypes DEF ReqsOK
  <1>2. SyncOK(r) /\ y \notin Requests  BY <1>1, Facts DEF SyncOK, ReqsOK
  <1>3. I!Go(y, r)  BY DEF I!To
  <1> HIDE DEF r
  <1> QED  BY <1>1, <1>2, <1>3, GoTypes

LEMMA ExpiredTypes ==
  ASSUME NEW table \in [Ids -> Row], NEW i
  PROVE  /\ I!Expired(table, i) \in [Ids -> Row]
         /\ \A j \in Ids : I!Expired(table, i)[j].st \in {table[j].st, "expired"}
         /\ \A j \in Ids : table[j].st # "pending" => I!Expired(table, i)[j] = table[j]
         /\ i \in Ids => I!Expired(table, i)[i] = table[i]
  <1> SUFFICES ASSUME NEW j \in Ids
               PROVE  /\ table[j] \in Row /\ [table[j] EXCEPT !.st = "expired"] \in Row
                      /\ [table[j] EXCEPT !.st = "expired"].st = "expired"
    BY DEF I!Expired
  <1> QED  BY DEF Row

LEMMA StTypes ==
  ASSUME RowsOK, NEW i \in Ids, NEW st \in I!Final \cup {"pending", "expired"},
         invitations' = [invitations EXCEPT ![i].st = st]
  PROVE  RowsOK' /\ invitations'[i].st = st /\ \A j \in Ids \ {i} : invitations'[j] = invitations[j]
  BY DEF RowsOK, Row

-----------------------------------------------------------------------------
(* Types *)

LEMMA TypeInit == I!InvitationAssumption /\ I!Init => InviteTypes
  <1> SUFFICES ASSUME I!InvitationAssumption, I!Init PROVE InviteTypes  OBVIOUS
  <1>1. RowsOK  BY Facts DEF I!Init, RowsOK, Row
  <1>2. ReqsOK  BY IdleIsReq DEF I!Init, ReqsOK
  <1>3. RestOK  BY DEF I!Init, RestOK, Member, LoginRoles
  <1> QED  BY <1>1, <1>2, <1>3 DEF InviteTypes

RequestMove(q) == I!RequestStep(q) \/ I!Create(q) \/ I!AskRevoke(q) \/ I!Preview(q) \/ I!Accept(q)
SyncMove(y)    == I!SyncStep(y) \/ I!ListGithub(y)

LEMMA OpenTypes ==
  ASSUME I!InvitationAssumption, InviteTypes, NEW q \in Requests, NEW i \in Ids, NEW pc \in {"find", "preview"},
         I!Open(q, i, pc), pc = "preview" => invitations[i].lapsed
  PROVE  /\ ReqsOK' /\ reqs'[q].pc \in {"expire", "find"}
         /\ \A p \in (Requests \cup Syncs) \ {q} : reqs'[p] = reqs[p]
  <1> DEFINE to == IF invitations[i].lapsed THEN "expire" ELSE pc
             link == invitations[i].link
             r  == [I!Idle EXCEPT !.pc = to, !.id = i, !.link = link, !.saw = pc]
  <1>1. to \in {"expire", "find"}  OBVIOUS
  <1>2. link \in 0 .. MaxLinks  BY DEF InviteTypes, RowsOK, Row
  <1>4. I!Go(q, r)  BY DEF I!Open
  <1> HIDE DEF to, link
  <1>5. r \in Req /\ r.pc = to /\ r.id = i  BY <1>1, <1>2, IdleIsReq DEF I!Idle, Req, RequestPcs
  <1> HIDE DEF r
  <1>6. RequestOK(r) /\ q \notin Syncs  BY <1>1, <1>5, Facts DEF RequestOK, RequestPcs
  <1> QED  BY <1>1, <1>4, <1>5, <1>6, GoTypes DEF InviteTypes

LEMMA RequestTypes ==
  ASSUME I!InvitationAssumption, InviteTypes, NEW q \in Requests, RequestMove(q)
  PROVE  InviteTypes' /\ \A p \in (Requests \cup Syncs) \ {q} : reqs'[p] = reqs[p]
  <1> USE DEF InviteTypes
  <1> DEFINE Others == \A p \in (Requests \cup Syncs) \ {q} : reqs'[p] = reqs[p]
  <1>0. ASSUME UNCHANGED member \/ member' = I!Invited(member), UNCHANGED <<onGithub, settled>>,
               UNCHANGED left \/ left' = FALSE
        PROVE  RestOK'
    <2>1. I!Invited(member) \in Member  BY DEF RestOK, Member, I!Invited
    <2> QED  BY <1>0, <2>1 DEF RestOK
  <1>1. CASE I!Create(q)
    <2>1. RowsOK' /\ RestOK'  BY <1>1, <1>0 DEF I!Create, RowsOK
    <2>2. ReqsOK' /\ Others  BY <1>1, RequestTo DEF I!Create, RequestPcs, WithRow
    <2> QED  BY <2>1, <2>2
  <1>2. CASE I!Insert(q)
    <2>1. I!Expired(invitations, I!NoId) \in [Ids -> Row]  BY ExpiredTypes DEF RowsOK
    <2>2. [st |-> "pending", lapsed |-> FALSE, link |-> 1] \in Row  BY Facts DEF Row
    <2>3. RowsOK'  BY <1>2, <2>1, <2>2 DEF I!Insert, RowsOK
    <2>4. RestOK'  BY <1>2, <1>0 DEF I!Insert
    <2>5. ReqsOK' /\ Others  BY <1>2, IdleTypes DEF I!Insert
    <2> QED  BY <2>3, <2>4, <2>5
  <1>3. CASE I!AskRevoke(q)
    <2>1. PICK i \in Ids : I!Go(q, [I!Idle EXCEPT !.pc = "revoke", !.id = i])  BY <1>3 DEF I!AskRevoke,
                                                                                           I!Pending
    <2> DEFINE r == [I!Idle EXCEPT !.pc = "revoke", !.id = i]
    <2>2. r \in Req /\ r.pc = "revoke" /\ r.id = i  BY Facts DEF I!Idle, Req, RequestPcs, LoginRoles
    <2>3. I!Go(q, r)  BY <2>1
    <2> HIDE DEF r
    <2>4. RequestOK(r) /\ q \notin Syncs  BY <2>2, Facts DEF RequestOK, RequestPcs
    <2>5. ReqsOK' /\ Others  BY <2>2, <2>3, <2>4, GoTypes
    <2>6. RowsOK' /\ RestOK'  BY <1>3, <1>0 DEF I!AskRevoke, RowsOK
    <2> QED  BY <2>5, <2>6
  <1>4. CASE I!Preview(q) \/ I!Accept(q)
    <2>1. ReqsOK' /\ Others  BY <1>4, OpenTypes DEF I!Preview, I!Accept
    <2>2. RowsOK' /\ RestOK'  BY <1>4, <1>0 DEF I!Preview, I!Accept, I!Open, RowsOK
    <2> QED  BY <2>1, <2>2
  <1>5. CASE I!Revoke(q) \/ I!Mark(q)
    <2>1. reqs[q].id \in Ids  BY <1>5 DEF I!Revoke, I!Mark, I!At, ReqsOK, RequestOK, WithRow
    <2>2. RowsOK'  BY <1>5, <2>1, StTypes DEF I!Revoke, I!Mark, I!Final
    <2>3. ReqsOK' /\ Others  BY <1>5, IdleTypes DEF I!Revoke, I!Mark
    <2>4. RestOK'  BY <1>5, <1>0 DEF I!Revoke, I!Mark
    <2> QED  BY <2>2, <2>3, <2>4
  <1>6. CASE I!Expire(q)
    <2>1. reqs[q].id \in Ids  BY <1>6 DEF I!Expire, I!At, ReqsOK, RequestOK, WithRow
    <2>2. RowsOK'  BY <1>6, <2>1, StTypes DEF I!Expire
    <2>3. ReqsOK' /\ Others  BY <1>6, <2>1, IdleTypes, RequestTo DEF I!Expire, RequestPcs
    <2>4. RestOK'  BY <1>6, <1>0 DEF I!Expire
    <2> QED  BY <2>2, <2>3, <2>4
  <1>7. CASE I!Refresh(q) \/ I!Find(q) \/ I!Persist(q)
    <2>1. reqs[q].id \in Ids  BY <1>7 DEF I!Refresh, I!Find, I!Persist, I!At, ReqsOK, RequestOK,
                                          WithRow
    <2>2. RowsOK' /\ RestOK'  BY <1>7, <1>0 DEF I!Refresh, I!Find, I!Persist, RowsOK
    <2>3. I!Go(q, I!Idle) \/ \E pc \in {"find", "persist", "mark"} : I!To(q, pc)
      BY <1>7 DEF I!Refresh, I!Find, I!Persist
    <2>4. ReqsOK' /\ Others  BY <2>1, <2>3, IdleTypes, RequestTo DEF RequestPcs
    <2> QED  BY <2>2, <2>4
  <1> QED  BY <1>1, <1>2, <1>3, <1>4, <1>5, <1>6, <1>7 DEF RequestMove, I!RequestStep

LEMMA SyncTypes ==
  ASSUME I!InvitationAssumption, InviteTypes, NEW y \in Syncs, SyncMove(y)
  PROVE  InviteTypes' /\ UNCHANGED <<invitations, onGithub>>
         /\ \A p \in (Requests \cup Syncs) \ {y} : reqs'[p] = reqs[p]
  <1> USE DEF InviteTypes
  <1> DEFINE Others == \A p \in (Requests \cup Syncs) \ {y} : reqs'[p] = reqs[p]
  <1>1. CASE I!ListGithub(y)
    <2> DEFINE to == IF onGithub = "admin" THEN "look" ELSE "list"
               r  == [I!Idle EXCEPT !.pc = to, !.saw = onGithub]
    <2>1. onGithub \in LoginRoles  BY DEF RestOK
    <2>2. I!Go(y, r)  BY <1>1 DEF I!ListGithub
    <2>3. to \in SyncPcs  BY DEF SyncPcs
    <2> HIDE DEF to
    <2>4. r \in Req /\ r.pc = to /\ r.saw = onGithub  BY <2>1, <2>3, Facts DEF I!Idle, Req
    <2> HIDE DEF r
    <2>5. SyncOK(r) /\ y \notin Requests  BY <2>1, <2>3, <2>4, Facts DEF SyncOK
    <2>6. ReqsOK' /\ Others  BY <2>2, <2>4, <2>5, GoTypes
    <2> QED  BY <1>1, <2>6 DEF I!ListGithub, RowsOK, RestOK
  <1>2. CASE I!SyncStep(y)
    <2>1. I!Go(y, I!Idle) \/ \E pc \in {"list", "grant", "delete", "demote"} : I!To(y, pc)
      BY <1>2 DEF I!SyncStep, I!LookUp, I!Grant, I!ListMemberships, I!Delete, I!Demote, I!End
    <2>2. ReqsOK' /\ Others  BY <2>1, IdleTypes, SyncTo DEF SyncPcs
    <2>3. UNCHANGED <<invitations, onGithub>>
      BY <1>2 DEF I!SyncStep, I!LookUp, I!Grant, I!ListMemberships, I!Delete, I!Demote
    <2>4. left' \in BOOLEAN /\ settled' \in BOOLEAN
      BY <1>2
      DEF I!SyncStep, I!LookUp, I!Grant, I!ListMemberships, I!Delete, I!Demote, I!End, RestOK
    <2>5. I!Upserted(member) \in Member /\ (member # I!NoMember => [member EXCEPT !.role = "member"] \in Member)
      BY DEF RestOK, Member, I!Upserted
    <2>6. member' \in Member
      BY <1>2, <2>5
      DEF I!SyncStep, I!LookUp, I!Grant, I!ListMemberships, I!Delete, I!Demote, RestOK, Member
    <2> QED  BY <2>2, <2>3, <2>4, <2>6 DEF RowsOK, RestOK
  <1> QED  BY <1>1, <1>2 DEF SyncMove

LEMMA CrashTypes ==
  ASSUME I!InvitationAssumption, InviteTypes, NEW q \in Requests \cup Syncs, I!Crash(q)
  PROVE  InviteTypes' /\ reqs'[q].pc = "idle" /\ \A p \in (Requests \cup Syncs) \ {q} : reqs'[p] = reqs[p]
  BY IdleTypes DEF InviteTypes, I!Crash, RowsOK, RestOK

LEMMA MoveTypes ==
  ASSUME I!InvitationAssumption, InviteTypes, I!Move
  PROVE  /\ InviteTypes' /\ \A q \in Requests : reqs'[q] = reqs[q]
         /\ \A y \in Syncs : /\ reqs'[y].pc = reqs[y].pc /\ reqs'[y].saw = reqs[y].saw /\ reqs'[y].late
  <1>1. \A y \in Syncs : LET r == [reqs[y] EXCEPT !.late = TRUE]
                         IN  r \in Req /\ r.pc = reqs[y].pc /\ r.saw = reqs[y].saw /\ r.late
    BY DEF InviteTypes, ReqsOK, Req
  <1>2. \A q \in Requests : q \notin Syncs  BY Facts
  <1>3. ReqsOK' /\ \A q \in Requests : reqs'[q] = reqs[q]
    BY <1>1, <1>2 DEF I!Move, InviteTypes, ReqsOK, SyncOK
  <1>4. onGithub' \in LoginRoles  BY DEF I!Move, LoginRoles
  <1>5. RowsOK' /\ RestOK'  BY <1>4 DEF I!Move, InviteTypes, RowsOK, RestOK
  <1>6. \A y \in Syncs : reqs'[y] = [reqs[y] EXCEPT !.late = TRUE]  BY DEF I!Move
  <1> QED  BY <1>1, <1>3, <1>5, <1>6 DEF InviteTypes

LEMMA RowTypes ==
  ASSUME I!InvitationAssumption, InviteTypes, I!Reissue \/ I!Lapse
  PROVE  InviteTypes'
  <1>1. CASE I!Lapse
    <2>1. \A r \in Row : [r EXCEPT !.lapsed = TRUE] \in Row  BY DEF Row
    <2>2. RowsOK'  BY <1>1, <2>1 DEF I!Lapse, InviteTypes, RowsOK
    <2> QED  BY <1>1, <2>2 DEF I!Lapse, InviteTypes, RestOK, ReqsOK
  <1>2. CASE I!Reissue
    <2>1. PICK i \in Ids : /\ invitations[i].link < MaxLinks
                           /\ invitations' = [I!Expired(invitations, i) EXCEPT ![i] =
                                [st |-> "pending", lapsed |-> FALSE, link |-> I!Expired(invitations, i)[i].link + 1]]
      BY <1>2 DEF I!Reissue
    <2>2. I!Expired(invitations, i) \in [Ids -> Row] /\ I!Expired(invitations, i)[i] = invitations[i]
      BY ExpiredTypes DEF InviteTypes, RowsOK
    <2>3. invitations[i].link + 1 \in 0 .. MaxLinks  BY <2>1, Facts DEF InviteTypes, RowsOK, Row
    <2>4. [st |-> "pending", lapsed |-> FALSE, link |-> invitations[i].link + 1] \in Row  BY <2>3 DEF Row
    <2>5. RowsOK'  BY <2>1, <2>2, <2>4 DEF RowsOK
    <2> QED  BY <1>2, <2>5 DEF I!Reissue, InviteTypes, RestOK, ReqsOK
  <1> QED  BY <1>1, <1>2

LEMMA TypeStep ==
  ASSUME I!InvitationAssumption, InviteTypes, [I!Next]_I!ivars PROVE InviteTypes'
  <1>1. ASSUME NEW q \in Requests, RequestMove(q) PROVE InviteTypes'  BY <1>1, RequestTypes
  <1>2. ASSUME NEW y \in Syncs, SyncMove(y) PROVE InviteTypes'  BY <1>2, SyncTypes
  <1>3. ASSUME NEW q \in Requests \cup Syncs, I!Crash(q) PROVE InviteTypes'  BY <1>3, CrashTypes
  <1>4. CASE I!Reissue \/ I!Lapse  BY <1>4, RowTypes
  <1>5. CASE I!Move  BY <1>5, MoveTypes
  <1>6. CASE UNCHANGED I!ivars  BY <1>6 DEF I!ivars, InviteTypes, RowsOK, RestOK, ReqsOK
  <1> QED  BY <1>1, <1>2, <1>3, <1>4, <1>5, <1>6 DEF I!Next, RequestMove, SyncMove

-----------------------------------------------------------------------------
(* Accepting *)

(* An invitation becomes pending only where no other is.                   *)
LEMMA PendingStep ==
  ASSUME I!InvitationAssumption, InviteTypes, OnePending, [I!Next]_I!ivars PROVE OnePending'
  <1> USE DEF InviteTypes
  <1>1. CASE I!Pending(invitations)' \subseteq I!Pending(invitations)  BY <1>1 DEF OnePending
  <1>2. ASSUME NEW q \in Requests, I!Insert(q) PROVE OnePending'
    <2>1. CASE UNCHANGED invitations  BY <1>1, <2>1 DEF I!Pending
    <2>2. CASE I!Pending(I!Expired(invitations, I!NoId)) = {} /\
               \E i \in Ids : invitations' = [I!Expired(invitations, I!NoId) EXCEPT ![i] =
                                     [st |-> "pending", lapsed |-> FALSE, link |-> 1]]
      BY <2>2, ExpiredTypes DEF RowsOK, OnePending, I!Pending
    <2> QED  BY <1>2, <2>1, <2>2 DEF I!Insert
  <1>3. CASE I!Reissue
    <2>1. PICK i \in Ids : /\ I!Pending(I!Expired(invitations, i)) \subseteq {i}
                           /\ invitations' = [I!Expired(invitations, i) EXCEPT ![i] =
                                [st |-> "pending", lapsed |-> FALSE, link |-> I!Expired(invitations, i)[i].link + 1]]
      BY <1>3 DEF I!Reissue
    <2>2. \A j \in Ids \ {i} : invitations'[j] = I!Expired(invitations, i)[j]
      BY <2>1, ExpiredTypes DEF RowsOK
    <2>3. I!Pending(invitations)' \subseteq {i}  BY <2>1, <2>2 DEF I!Pending
    <2> QED  BY <2>3 DEF OnePending
  <1>4. ASSUME NEW q \in Requests, I!Revoke(q) \/ I!Expire(q) \/ I!Mark(q)
        PROVE  OnePending'
    <2>1. reqs[q].id \in Ids  BY <1>4 DEF I!Revoke, I!Expire, I!Mark, I!At, ReqsOK, RequestOK,
                                          WithRow
    <2>2. PICK st \in {"revoked", "expired", "accepted"} : invitations' = [invitations EXCEPT ![reqs[q].id].st = st]
      BY <1>4 DEF I!Revoke, I!Expire, I!Mark
    <2>3. invitations'[reqs[q].id].st = st /\ \A j \in Ids \ {reqs[q].id} : invitations'[j] = invitations[j]
      BY <2>1, <2>2, StTypes DEF I!Final
    <2> QED  BY <1>1, <2>3 DEF I!Pending
  <1>5. CASE I!Lapse
    <2>1. \A j \in Ids : invitations'[j].st = invitations[j].st  BY <1>5 DEF I!Lapse, RowsOK, Row
    <2> QED  BY <1>1, <2>1 DEF I!Pending
  <1>6. CASE UNCHANGED invitations  BY <1>1, <1>6 DEF I!Pending
  <1>7. ASSUME NEW q \in Requests, RequestMove(q), ~(I!Insert(q) \/ I!Revoke(q) \/ I!Expire(q) \/ I!Mark(q))
        PROVE  UNCHANGED invitations
    BY <1>7
    DEF RequestMove, I!RequestStep, I!Create, I!AskRevoke, I!Preview, I!Accept, I!Open,
        I!Refresh, I!Find, I!Persist
  <1>8. ASSUME NEW y \in Syncs, SyncMove(y) PROVE UNCHANGED invitations  BY <1>8, SyncTypes
  <1>9. ASSUME (\E q \in Requests \cup Syncs : I!Crash(q)) \/ I!Move \/ UNCHANGED I!ivars PROVE UNCHANGED invitations
    BY <1>9 DEF I!Crash, I!Move, I!ivars
  <1> QED
    BY <1>2, <1>3, <1>4, <1>5, <1>6, <1>7, <1>8, <1>9 DEF I!Next, RequestMove, SyncMove

(* A membership is only ever lost to a sync.                               *)
LEMMA MemberStep ==
  ASSUME I!InvitationAssumption, InviteTypes, [I!Next]_I!ivars, member # I!NoMember \/ left
  PROVE  member' # I!NoMember \/ left'
  <1>1. CASE UNCHANGED <<member, left>>  BY <1>1
  <1>2. ASSUME NEW q \in Requests, RequestMove(q), ~UNCHANGED <<member, left>> PROVE member' # I!NoMember
    <2>1. I!Persist(q)
      BY <1>2
      DEF RequestMove, I!RequestStep, I!Create, I!AskRevoke, I!Preview, I!Accept, I!Open,
          I!Insert, I!Revoke, I!Expire,
                  I!Refresh, I!Find, I!Mark
    <2>2. I!Invited(member) # I!NoMember  BY DEF I!Invited, I!NoMember
    <2> QED  BY <2>1, <2>2 DEF I!Persist
  <1>3. ASSUME NEW y \in Syncs, SyncMove(y), ~UNCHANGED <<member, left>> PROVE member' # I!NoMember \/ left'
    <2>1. CASE I!Grant(y)
      <3>1. I!Upserted(member) # I!NoMember  BY DEF I!Upserted, I!NoMember
      <3> QED  BY <2>1, <3>1 DEF I!Grant
    <2>2. CASE I!Delete(y)  BY <2>2 DEF I!Delete
    <2>3. CASE I!Demote(y)
      <3>1. member # I!NoMember => [member EXCEPT !.role = "member"] # I!NoMember
        BY DEF InviteTypes, RestOK, Member, I!NoMember
      <3> QED  BY <2>3, <3>1 DEF I!Demote
    <2> QED  BY <1>3, <2>1, <2>2, <2>3 DEF SyncMove, I!SyncStep, I!ListGithub, I!LookUp,
                                           I!ListMemberships
  <1>4. ASSUME (\E q \in Requests \cup Syncs : I!Crash(q)) \/ I!Reissue \/ I!Lapse \/ I!Move \/ UNCHANGED I!ivars
        PROVE  UNCHANGED <<member, left>>
    BY <1>4 DEF I!Crash, I!Reissue, I!Lapse, I!Move, I!ivars
  <1> QED  BY <1>1, <1>2, <1>3, <1>4 DEF I!Next, RequestMove, SyncMove

(* A request comes to mark an acceptance from a membership that is there.  *)
LEMMA MarkedStep ==
  ASSUME I!InvitationAssumption, InviteTypes, MarkedIsIn, [I!Next]_I!ivars PROVE MarkedIsIn'
  <1> SUFFICES ASSUME NEW q \in Requests, reqs'[q].pc = "mark" PROVE member' # I!NoMember \/ left'
    BY DEF MarkedIsIn, I!At
  <1>1. CASE reqs[q].pc = "mark"  BY <1>1, MemberStep DEF MarkedIsIn, I!At
  <1>2. CASE RequestMove(q)
    <2>1. CASE I!Find(q)
      <3>1. reqs[q].id \in Ids  BY <2>1 DEF I!Find, I!At, InviteTypes, ReqsOK, RequestOK, WithRow
      <3>2. member = I!NoMember => reqs'[q].pc = "persist"
        BY <2>1, <3>1, RequestTo DEF I!Find, InviteTypes, RequestPcs
      <3> QED  BY <3>2, MemberStep
    <2>2. CASE I!Persist(q)
      <3>1. I!Invited(member) # I!NoMember  BY DEF I!Invited, I!NoMember
      <3> QED  BY <2>2, <3>1 DEF I!Persist
    <2>3. CASE I!Preview(q) \/ I!Accept(q)
      <3>1. reqs'[q].pc \in {"expire", "find"}  BY <2>3, OpenTypes DEF I!Preview, I!Accept
      <3> QED  BY <3>1
    <2>4. CASE I!AskRevoke(q)
      <3>1. PICK i \in Ids : reqs' = [reqs EXCEPT ![q] = [I!Idle EXCEPT !.pc = "revoke", !.id = i]]
        BY <2>4 DEF I!AskRevoke, I!Pending, I!Go
      <3>2. reqs'[q].pc = "revoke"  BY <3>1 DEF I!Idle, InviteTypes, ReqsOK
      <3> QED  BY <3>2
    <2>5. CASE I!Create(q) \/ I!Insert(q) \/ I!Revoke(q) \/ I!Mark(q)
      <3>1. I!Go(q, I!Idle) \/ I!To(q, "insert")  BY <2>5 DEF I!Create, I!Insert, I!Revoke, I!Mark
      <3>2. reqs'[q].pc \in {"idle", "insert"}
        BY <3>1, IdleTypes, RequestTo DEF RequestPcs, WithRow, InviteTypes
      <3> QED  BY <3>2
    <2>6. CASE I!Expire(q) \/ I!Refresh(q)
      <3>1. reqs[q].id \in Ids  BY <2>6 DEF I!Expire, I!Refresh, I!At, InviteTypes, ReqsOK,
                                            RequestOK, WithRow
      <3>2. I!Go(q, I!Idle) \/ I!To(q, "find") \/ I!To(q, "refresh")  BY <2>6 DEF I!Expire,
                                                                                  I!Refresh
      <3>3. reqs'[q].pc \in {"idle", "find", "refresh"}
        BY <3>1, <3>2, IdleTypes, RequestTo DEF RequestPcs, InviteTypes
      <3> QED  BY <3>3
    <2> QED  BY <1>2, <2>1, <2>2, <2>3, <2>4, <2>5, <2>6 DEF RequestMove, I!RequestStep
  <1>3. ASSUME NEW p \in Requests, p # q, RequestMove(p) PROVE reqs'[q] = reqs[q]  BY <1>3, RequestTypes
  <1>4. ASSUME NEW y \in Syncs, SyncMove(y) PROVE reqs'[q] = reqs[q]  BY <1>4, SyncTypes, Facts
  <1>5. ASSUME NEW p \in Requests \cup Syncs, I!Crash(p) PROVE reqs'[q].pc \in {"idle", reqs[q].pc}
    BY <1>5, CrashTypes
  <1>6. ASSUME I!Reissue \/ I!Lapse \/ UNCHANGED I!ivars PROVE reqs'[q] = reqs[q]
    BY <1>6 DEF I!Reissue, I!Lapse, I!ivars
  <1>7. CASE I!Move  BY <1>1, <1>7, MoveTypes
  <1> QED  BY <1>1, <1>2, <1>3, <1>4, <1>5, <1>6, <1>7 DEF I!Next, RequestMove, SyncMove

LEMMA AcceptStep ==
  ASSUME I!InvitationAssumption, InviteTypes, MarkedIsIn, I!AcceptedIsIn, [I!Next]_I!ivars PROVE I!AcceptedIsIn'
  <1> SUFFICES ASSUME NEW i \in Ids, invitations'[i].st = "accepted" PROVE member' # I!NoMember \/ left'
    BY DEF I!AcceptedIsIn
  <1> USE DEF InviteTypes
  <1>1. CASE invitations[i].st = "accepted"  BY <1>1, MemberStep DEF I!AcceptedIsIn
  <1>2. ASSUME NEW q \in Requests, I!Mark(q) PROVE member' # I!NoMember \/ left'
    BY <1>2 DEF I!Mark, MarkedIsIn
  <1>3. ASSUME NEW q \in Requests, I!Revoke(q) \/ I!Expire(q) PROVE invitations[i].st = "accepted"
    <2>1. reqs[q].id \in Ids  BY <1>3 DEF I!Revoke, I!Expire, I!At, ReqsOK, RequestOK, WithRow
    <2>2. PICK st \in {"revoked", "expired"} : invitations' = [invitations EXCEPT ![reqs[q].id].st = st]
      BY <1>3 DEF I!Revoke, I!Expire
    <2>3. invitations'[reqs[q].id].st = st /\ \A j \in Ids \ {reqs[q].id} : invitations'[j] = invitations[j]
      BY <2>1, <2>2, StTypes DEF I!Final
    <2> QED  BY <2>3
  <1>4. ASSUME NEW q \in Requests, I!Insert(q) PROVE invitations[i].st = "accepted"
    <2>1. CASE UNCHANGED invitations  BY <2>1
    <2>2. ASSUME NEW j \in Ids, invitations' = [I!Expired(invitations, I!NoId) EXCEPT ![j] =
                                     [st |-> "pending", lapsed |-> FALSE, link |-> 1]]
          PROVE  invitations[i].st = "accepted"
      BY <2>2, ExpiredTypes DEF RowsOK
    <2> QED  BY <1>4, <2>1, <2>2 DEF I!Insert
  <1>5. CASE I!Reissue
    <2>1. PICK j \in Ids : invitations' = [I!Expired(invitations, j) EXCEPT ![j] =
                                [st |-> "pending", lapsed |-> FALSE, link |-> I!Expired(invitations, j)[j].link + 1]]
      BY <1>5 DEF I!Reissue
    <2>2. invitations[i].st = "accepted"  BY <2>1, ExpiredTypes DEF RowsOK
    <2> QED  BY <1>1, <2>2
  <1>6. CASE I!Lapse
    <2>1. invitations'[i].st = invitations[i].st  BY <1>6 DEF I!Lapse, RowsOK, Row
    <2> QED  BY <1>1, <2>1
  <1>7. ASSUME NEW q \in Requests, RequestMove(q), ~(I!Insert(q) \/ I!Revoke(q) \/ I!Expire(q) \/ I!Mark(q))
        PROVE  UNCHANGED invitations
    BY <1>7
    DEF RequestMove, I!RequestStep, I!Create, I!AskRevoke, I!Preview, I!Accept, I!Open,
        I!Refresh, I!Find, I!Persist
  <1>8. ASSUME NEW y \in Syncs, SyncMove(y) PROVE UNCHANGED invitations  BY <1>8, SyncTypes
  <1>9. ASSUME (\E q \in Requests \cup Syncs : I!Crash(q)) \/ I!Move \/ UNCHANGED I!ivars PROVE UNCHANGED invitations
    BY <1>9 DEF I!Crash, I!Move, I!ivars
  <1> QED
    BY <1>1, <1>2, <1>3, <1>4, <1>5, <1>6, <1>7, <1>8, <1>9 DEF I!Next, RequestMove, SyncMove

LEMMA Invariance ==
  ASSUME I!InvitationAssumption PROVE I!Spec => []InviteInv
  <1>1. I!Init => InviteInv
    <2>1. I!Init => InviteTypes  BY TypeInit
    <2>2. I!Init => OnePending /\ I!AcceptedIsIn  BY DEF I!Init, OnePending, I!Pending,
                                                         I!AcceptedIsIn
    <2>3. I!Init => MarkedIsIn  BY IdleIsReq DEF I!Init, MarkedIsIn, I!At
    <2> QED  BY <2>1, <2>2, <2>3 DEF InviteInv
  <1>2. InviteInv /\ [I!Next]_I!ivars => InviteInv'
    BY TypeStep, PendingStep, MarkedStep, AcceptStep DEF InviteInv
  <1> QED  BY <1>1, <1>2, PTL DEF I!Spec

(* Rows are table, links are links, and no two invitations of one address   *)
(* are pending at once, although every request that makes one looked       *)
(* before it wrote.                                                        *)
THEOREM InvitationTypes ==
  ASSUME I!InvitationAssumption PROVE I!Spec => []I!InvitationTypeOK
  <1>1. InviteInv => I!InvitationTypeOK
    BY DEF InviteInv, InviteTypes, RowsOK, RestOK, OnePending, I!InvitationTypeOK, Row, Member
  <1> QED  BY Invariance, <1>1, PTL

(* However requests interleave and wherever one is cut off: an invitation  *)
(* that says "accepted" let its person in.                                 *)
THEOREM AcceptedIn ==
  ASSUME I!InvitationAssumption PROVE I!Spec => []I!AcceptedIsIn
  <1>1. InviteInv => I!AcceptedIsIn  BY DEF InviteInv
  <1> QED  BY Invariance, <1>1, PTL

-----------------------------------------------------------------------------
(* Logins *)

(* A request changes a membership only where there is none.                *)
LEMMA RequestMember ==
  ASSUME I!InvitationAssumption, InviteTypes, NEW q \in Requests, RequestMove(q)
  PROVE  /\ UNCHANGED <<onGithub, settled>>
         /\ UNCHANGED member \/ (member = I!NoMember /\ member' = [role |-> "member", source |-> "invite"])
  <1>1. CASE I!Persist(q)
    <2>1. member' = IF member = I!NoMember THEN [role |-> "member", source |-> "invite"] ELSE member
      BY <1>1 DEF I!Persist, I!Invited
    <2>2. UNCHANGED <<onGithub, settled>>  BY <1>1 DEF I!Persist
    <2> QED  BY <2>1, <2>2
  <1>2. CASE ~I!Persist(q)
    <2>1. UNCHANGED <<onGithub, settled, member>>
      BY <1>2
      DEF RequestMove, I!RequestStep, I!Create, I!AskRevoke, I!Preview, I!Accept, I!Open,
          I!Insert, I!Revoke, I!Expire,
                  I!Refresh, I!Find, I!Mark
    <2> QED  BY <2>1
  <1> QED  BY <1>1, <1>2

LEMMA LoginRequest ==
  ASSUME I!InvitationAssumption, LoginInv, NEW q \in Requests, RequestMove(q)
  PROVE  LoginInv'
  <1>1. InviteTypes' /\ \A y \in Syncs : reqs'[y] = reqs[y]  BY RequestTypes, Facts DEF LoginInv
  <1>2. /\ onGithub' = onGithub /\ settled' = settled
        /\ UNCHANGED member \/ (member = I!NoMember /\ member' = [role |-> "member", source |-> "invite"])
    BY RequestMember DEF LoginInv
  <1>3. (member'.role = "admin") = (member.role = "admin") /\ (member.source = "github" => member' = member)
    BY <1>2 DEF I!NoMember
  <1>4. AdminIsGithubs' /\ I!AdminAsOnGithub'  BY <1>2, <1>3 DEF LoginInv, AdminIsGithubs,
                                                                 I!AdminAsOnGithub
  <1>5. LoginFits'  BY <1>1, <1>2, <1>3 DEF LoginInv, LoginFits, I!At
  <1> QED  BY <1>1, <1>4, <1>5 DEF LoginInv

(* A sync that ends without a change left the row as GitHub has it.        *)
LEMMA EndFits ==
  ASSUME I!InvitationAssumption, LoginInv, NEW y \in Syncs, I!At(y, "list"), ~reqs[y].late,
         ~(I!Reconciles(member) /\ reqs[y].saw = "none"),
         ~(I!Reconciles(member) /\ reqs[y].saw = "member" /\ member.role # "member")
  PROVE  (member.role = "admin") = (onGithub = "admin")
  <1>1. reqs[y].saw \in LoginRoles /\ reqs[y].saw = onGithub /\ (onGithub = "admin" => member.role = "admin")
    BY DEF LoginInv, InviteTypes, ReqsOK, SyncOK, LoginFits, I!At
  <1>2. onGithub # "admin" => member.role # "admin"
    BY <1>1 DEF LoginInv, AdminIsGithubs, I!Reconciles, I!NoMember, LoginRoles
  <1> QED  BY <1>1, <1>2

LEMMA LoginSync ==
  ASSUME I!InvitationAssumption, OneSync, LoginInv, NEW y \in Syncs, SyncMove(y)
  PROVE  LoginInv'
  <1>1. InviteTypes' /\ onGithub' = onGithub  BY SyncTypes DEF LoginInv
  <1>2. \A z \in Syncs : z = y  BY DEF OneSync
  <1> DEFINE Fits == /\ reqs[y].pc \in {"look", "grant"} => reqs[y].saw = "admin"
                     /\ I!At(y, "list") /\ reqs[y].saw = "admin" => member.role = "admin"
                     /\ I!At(y, "delete") => reqs[y].saw = "none" /\ member.source = "github"
                     /\ I!At(y, "demote") => reqs[y].saw = "member" /\ member.source = "github"
                     /\ ~I!At(y, "idle") /\ ~reqs[y].late => reqs[y].saw = onGithub
                     /\ ~I!At(y, "idle") /\ reqs[y].late => ~settled
  <1>3. Fits  BY DEF LoginInv, LoginFits
  <1>4. SUFFICES Fits' /\ AdminIsGithubs' /\ I!AdminAsOnGithub'
    BY <1>1, <1>2 DEF LoginInv, LoginFits
  <1>5. CASE I!ListGithub(y)
    <2> DEFINE to == IF onGithub = "admin" THEN "look" ELSE "list"
               r  == [I!Idle EXCEPT !.pc = to, !.saw = onGithub]
    <2>1. r.pc = to /\ r.saw = onGithub /\ ~r.late  BY DEF I!Idle
    <2>2. reqs'[y] = r  BY <1>5 DEF I!ListGithub, I!Go, LoginInv, InviteTypes, ReqsOK
    <2>3. reqs'[y].pc = to /\ reqs'[y].saw = onGithub /\ ~reqs'[y].late  BY <2>1, <2>2
    <2>4. UNCHANGED <<member, settled, onGithub>>  BY <1>5 DEF I!ListGithub
    <2> QED  BY <2>3, <2>4 DEF I!At, LoginInv, AdminIsGithubs, I!AdminAsOnGithub
  <1>6. CASE I!LookUp(y)
    <2> DEFINE to == IF member.role = "admin" THEN "list" ELSE "grant"
    <2>1. /\ reqs'[y].pc = to /\ reqs'[y].saw = reqs[y].saw /\ reqs'[y].late = reqs[y].late
      BY <1>6, SyncTo DEF I!LookUp, SyncPcs, LoginInv, InviteTypes
    <2>2. UNCHANGED <<member, settled, onGithub>> /\ I!At(y, "look")  BY <1>6 DEF I!LookUp
    <2> QED  BY <1>3, <2>1, <2>2 DEF I!At, LoginInv, AdminIsGithubs, I!AdminAsOnGithub
  <1>7. CASE I!Grant(y)
    <2>1. /\ reqs'[y].pc = "list" /\ reqs'[y].saw = reqs[y].saw /\ reqs'[y].late = reqs[y].late
      BY <1>7, SyncTo DEF I!Grant, SyncPcs, LoginInv, InviteTypes
    <2>2. I!Upserted(member).role = "admin" /\ I!Upserted(member).source = "github"
      BY DEF I!Upserted, LoginInv, AdminIsGithubs
    <2>3. member' = I!Upserted(member) /\ UNCHANGED <<settled, onGithub>> /\ I!At(y, "grant")  BY <1>7 DEF I!Grant
    <2>4. settled => onGithub = "admin"  BY <1>3, <2>3 DEF I!At, LoginInv, InviteTypes, ReqsOK, Req
    <2> QED  BY <1>3, <2>1, <2>2, <2>3, <2>4 DEF I!At, AdminIsGithubs, I!AdminAsOnGithub
  <1>8. CASE I!ListMemberships(y)
    <2>1. UNCHANGED <<member, onGithub>> /\ I!At(y, "list")  BY <1>8 DEF I!ListMemberships
    <2>2. CASE I!To(y, "delete") /\ UNCHANGED settled /\ I!Reconciles(member) /\ reqs[y].saw = "none"
      <3>1. /\ reqs'[y].pc = "delete" /\ reqs'[y].saw = reqs[y].saw /\ reqs'[y].late = reqs[y].late
        BY <2>2, SyncTo DEF SyncPcs, LoginInv, InviteTypes
      <3> QED  BY <1>3, <2>1, <2>2, <3>1 DEF I!At, LoginInv, AdminIsGithubs, I!AdminAsOnGithub,
                                             I!Reconciles
    <2>3. CASE I!To(y, "demote") /\ UNCHANGED settled /\ I!Reconciles(member) /\ reqs[y].saw = "member"
      <3>1. /\ reqs'[y].pc = "demote" /\ reqs'[y].saw = reqs[y].saw /\ reqs'[y].late = reqs[y].late
        BY <2>3, SyncTo DEF SyncPcs, LoginInv, InviteTypes
      <3> QED  BY <1>3, <2>1, <2>3, <3>1 DEF I!At, LoginInv, AdminIsGithubs, I!AdminAsOnGithub,
                                             I!Reconciles
    <2>4. CASE /\ I!End(y) /\ ~(I!Reconciles(member) /\ reqs[y].saw = "none")
               /\ ~(I!Reconciles(member) /\ reqs[y].saw = "member" /\ member.role # "member")
      <3>1. reqs'[y].pc = "idle"  BY <2>4, IdleTypes DEF I!End, LoginInv, InviteTypes
      <3>2. settled' => settled \/ ~reqs[y].late  BY <2>4 DEF I!End
      <3>3. ~reqs[y].late => (member.role = "admin") = (onGithub = "admin")  BY <2>1, <2>4, EndFits
      <3> QED  BY <2>1, <3>1, <3>2, <3>3 DEF I!At, LoginInv, AdminIsGithubs, I!AdminAsOnGithub
    <2> QED  BY <1>8, <2>2, <2>3, <2>4 DEF I!ListMemberships
  <1>9. CASE I!Delete(y) \/ I!Demote(y)
    <2>1. /\ reqs'[y].pc = "idle" /\ (settled' => settled \/ ~reqs[y].late) /\ UNCHANGED onGithub
      BY <1>9, IdleTypes DEF I!Delete, I!Demote, I!End, LoginInv, InviteTypes
    <2>2. reqs[y].saw # "admin" /\ ~I!At(y, "idle")  BY <1>3, <1>9 DEF I!Delete, I!Demote, I!At
    <2>3. settled' => onGithub # "admin"  BY <1>3, <2>1, <2>2
    <2>4. member'.role # "admin"
      BY <1>9 DEF I!Delete, I!Demote, I!NoMember, LoginInv, InviteTypes, RestOK, Member
    <2> QED  BY <2>1, <2>3, <2>4 DEF I!At, AdminIsGithubs, I!AdminAsOnGithub
  <1> QED  BY <1>5, <1>6, <1>7, <1>8, <1>9 DEF SyncMove, I!SyncStep

LEMMA LoginStep ==
  ASSUME I!InvitationAssumption, OneSync, LoginInv, [I!Next]_I!ivars PROVE LoginInv'
  <1>1. ASSUME NEW q \in Requests, RequestMove(q) PROVE LoginInv'  BY <1>1, LoginRequest
  <1>2. ASSUME NEW y \in Syncs, SyncMove(y) PROVE LoginInv'  BY <1>2, LoginSync
  <1>3. ASSUME NEW q \in Requests \cup Syncs, I!Crash(q) PROVE LoginInv'
    <2>1. InviteTypes' /\ reqs'[q].pc = "idle" /\ \A y \in Syncs \ {q} : reqs'[y] = reqs[y]
      BY <1>3, CrashTypes DEF LoginInv
    <2>2. UNCHANGED <<member, onGithub, settled>>  BY <1>3 DEF I!Crash
    <2> QED  BY <2>1, <2>2 DEF LoginInv, LoginFits, I!At, AdminIsGithubs, I!AdminAsOnGithub
  <1>4. CASE I!Reissue \/ I!Lapse
    <2>1. UNCHANGED <<member, onGithub, settled, reqs>>  BY <1>4 DEF I!Reissue, I!Lapse
    <2>2. InviteTypes'  BY <1>4, RowTypes DEF LoginInv
    <2> QED  BY <2>1, <2>2 DEF LoginInv, LoginFits, I!At, AdminIsGithubs, I!AdminAsOnGithub
  <1>5. CASE I!Move
    <2>1. /\ InviteTypes'
          /\ \A y \in Syncs : reqs'[y].pc = reqs[y].pc /\ reqs'[y].saw = reqs[y].saw /\ reqs'[y].late
      BY <1>5, MoveTypes DEF LoginInv
    <2>2. UNCHANGED member /\ ~settled'  BY <1>5 DEF I!Move
    <2> QED  BY <2>1, <2>2 DEF LoginInv, LoginFits, I!At, AdminIsGithubs, I!AdminAsOnGithub
  <1>6. CASE UNCHANGED I!ivars
    BY <1>6
    DEF I!ivars, LoginInv, LoginFits, I!At, AdminIsGithubs, I!AdminAsOnGithub, InviteTypes,
        RowsOK, RestOK, ReqsOK
  <1> QED  BY <1>1, <1>2, <1>3, <1>4, <1>5, <1>6 DEF I!Next, RequestMove, SyncMove

LEMMA LoginInvariance ==
  ASSUME I!InvitationAssumption, OneSync PROVE I!Spec => []LoginInv
  <1>1. I!Init => LoginInv
    <2>1. I!Init => InviteTypes  BY TypeInit
    <2>2. I!Init => LoginFits  BY IdleIsReq DEF I!Init, LoginFits, I!At
    <2>3. I!Init => AdminIsGithubs /\ I!AdminAsOnGithub  BY DEF I!Init, AdminIsGithubs,
                                                                I!AdminAsOnGithub, I!NoMember
    <2> QED  BY <2>1, <2>2, <2>3 DEF LoginInv
  <1>2. LoginInv /\ [I!Next]_I!ivars => LoginInv'  BY LoginStep
  <1> QED  BY <1>1, <1>2, PTL DEF I!Spec

(* With one login at a time: once one has seen GitHub as it is, and until  *)
(* the role changes there, the person is an admin here just if there.      *)
THEOREM AdminsMatch ==
  ASSUME I!InvitationAssumption, OneSync PROVE I!Spec => []I!AdminAsOnGithub
  <1>1. LoginInv => I!AdminAsOnGithub  BY DEF LoginInv
  <1> QED  BY LoginInvariance, <1>1, PTL

(* With one login at a time, none removes a membership that came from an   *)
(* invitation: what a sync read as GitHub's stays GitHub's till it writes. *)
THEOREM InvitedStay ==
  ASSUME I!InvitationAssumption, OneSync PROVE I!Spec => [][I!KeepsInvited]_I!ivars
  <1>1. LoginInv /\ [I!Next]_I!ivars => [I!KeepsInvited]_I!ivars
    <2> SUFFICES ASSUME LoginInv, [I!Next]_I!ivars, member.source = "invite" PROVE member' # I!NoMember
      BY DEF I!KeepsInvited
    <2>1. member # I!NoMember  BY DEF I!NoMember
    <2>2. CASE UNCHANGED member  BY <2>1, <2>2
    <2>3. ASSUME NEW q \in Requests, RequestMove(q) PROVE UNCHANGED member
      BY <2>1, <2>3, RequestMember DEF LoginInv
    <2>4. ASSUME NEW y \in Syncs, SyncMove(y), ~UNCHANGED member PROVE member' # I!NoMember
      <3>1. ~I!Delete(y)  BY DEF I!Delete, LoginInv, LoginFits
      <3>2. I!Upserted(member) # I!NoMember /\ [member EXCEPT !.role = "member"] # I!NoMember
        BY <2>1 DEF I!Upserted, I!NoMember, LoginInv, InviteTypes, RestOK, Member
      <3> QED
        BY <2>1, <2>4, <3>1, <3>2
        DEF SyncMove, I!SyncStep, I!ListGithub, I!LookUp, I!Grant, I!ListMemberships, I!Demote
    <2>5. ASSUME (\E q \in Requests \cup Syncs : I!Crash(q)) \/ I!Reissue \/ I!Lapse \/ I!Move \/ UNCHANGED I!ivars
          PROVE  UNCHANGED member
      BY <2>5 DEF I!Crash, I!Reissue, I!Lapse, I!Move, I!ivars
    <2> QED  BY <2>2, <2>3, <2>4, <2>5 DEF I!Next, RequestMove, SyncMove
  <1> QED  BY LoginInvariance, <1>1, PTL DEF I!Spec

(* Accepting writes a role only where there is no row, whoever inserts one *)
(* between the look and the write.                                         *)
THEOREM AcceptKeepsRole ==
  ASSUME I!InvitationAssumption PROVE I!Spec => [][I!NeverDemotes]_I!ivars
  <1>1. InviteTypes /\ [I!Next]_I!ivars => [I!NeverDemotes]_I!ivars
    <2> SUFFICES ASSUME InviteTypes, [I!Next]_I!ivars, NEW q \in Requests, I!At(q, "persist"), reqs'[q].pc = "mark"
                 PROVE  member = I!NoMember \/ member' = member
      BY DEF I!NeverDemotes
    <2>1. ASSUME NEW p \in Requests, RequestMove(p) PROVE member = I!NoMember \/ member' = member
      BY <2>1, RequestMember
    <2>2. ASSUME NEW y \in Syncs, SyncMove(y) PROVE FALSE
      BY <2>2, SyncTypes, Facts DEF I!At
    <2>3. ASSUME (\E p \in Requests \cup Syncs : I!Crash(p)) \/ I!Reissue \/ I!Lapse \/ I!Move \/ UNCHANGED I!ivars
          PROVE  UNCHANGED member
      BY <2>3 DEF I!Crash, I!Reissue, I!Lapse, I!Move, I!ivars
    <2> QED  BY <2>1, <2>2, <2>3 DEF I!Next, RequestMove, SyncMove
  <1>2. InviteInv => InviteTypes  BY DEF InviteInv
  <1> QED  BY Invariance, <1>1, <1>2, PTL DEF I!Spec
=============================================================================
