-------------------------- MODULE CacheClearProofs --------------------------
(***************************************************************************)
(* What CacheClear promises, for every set of repositories, every list of  *)
(* caches, every page size and every bound.                                *)
(*                                                                         *)
(*   TypeInv    the types, with those TypeOK leaves open                   *)
(*   GitInv     an entry has one place in one list, and none that was      *)
(*              deleted comes back                                         *)
(*   JobInv     what a job holds, by the step it is at                     *)
(*   TokenInv   tokens are those stored or typed; once the field was       *)
(*              filled, no lookup for the panel's owner is under way       *)
(*   PanelInv   while the panel knows of its clears, there is one at most, *)
(*              and no list under way besides it                           *)
(*   PagesInv   while nothing moves entries, those that a running clear    *)
(*              still has to delete are noted, or on a page to come        *)
(***************************************************************************)
EXTENDS CacheClear, FiniteSetTheorems, TLAPS

Ids == Nat \ {None}

Statuses == {"queued", "listing", "deleting", "done", "failed"}

Panels ==
  [repo : Repos, active : BOOLEAN, token : Nat, saved : BOOLEAN, resolved : BOOLEAN, answered : BOOLEAN,
   confirm : BOOLEAN, target : Nat, table : SUBSET Nat, jobId : Nat,
   seen : {"none", "queued", "processing", "done", "failed"}, pollError : BOOLEAN]

Requests == [repo : Repos, target : Nat, dry : BOOLEAN, job : Nat, attached : BOOLEAN]

Jobs ==
  [repo : Repos, target : Nat, status : Statuses, retries : Nat, page : Nat \ {0}, ids : Seq(Nat),
   before : SUBSET Nat, removed : SUBSET Nat, deleted : Nat]

Counters == {"clears", "switches", "typed", "tabs", "lists", "faults", "pollFails", "adds", "touches",
             "evictions"}

TypeInv ==
  /\ panel \in Panels /\ panel.jobId \in 0 .. Len(jobs)
  /\ lookup \in Repos \cup {None} /\ loaded \subseteq Repos
  /\ listing \in [step : {"idle", "asked", "served"}, got : SUBSET Nat]
  /\ clears \subseteq Requests /\ \A c \in clears : c.job \in 0 .. Len(jobs)
  /\ saving \in Nat /\ tokens \in [Repos -> Nat]
  /\ jobs \in Seq(Jobs)
  /\ caches \in [Repos -> Seq(Ids)]
  /\ used \in [Counters -> Nat]

(* Tokens are those stored at first and those typed.                       *)
TokenInv ==
  /\ used.typed <= MaxTyped
  /\ panel.token <= used.typed + 1 /\ saving <= used.typed + 1
  /\ \A r \in Repos : tokens[r] <= used.typed + 1
  /\ panel.answered => panel.resolved /\ lookup # panel.repo

(* Entries are those listed at first and those added.                      *)
Known == 0 .. (FirstAdded + used.adds - 1)

GitInv ==
  /\ \A r \in Repos : Remaining(r) \subseteq Known
  /\ \A q, r \in Repos : \A i \in DOMAIN caches[q], k \in DOMAIN caches[r] :
       caches[q][i] = caches[r][k] => q = r /\ i = k
  /\ panel.table \subseteq Known /\ listing.got \subseteq Known
  /\ \A r \in Repos \ {panel.repo} :
       panel.table \cap Remaining(r) = {} /\ listing.got \cap Remaining(r) = {}

Retries(job) == job.retries <= IF job.status = "failed" THEN MaxRetries + 1 ELSE MaxRetries
Lists(job)   == job.status = "listing" => job.target = All
Targets(job) == job.target # All => \A i \in DOMAIN job.ids : job.ids[i] = job.target

Fine(job, known, lists) ==
  /\ Retries(job) /\ Lists(job) /\ Targets(job)
  /\ job.before \subseteq known /\ job.removed \subseteq known
  /\ None \notin job.removed /\ IsFiniteSet(job.removed) /\ job.deleted <= Cardinality(job.removed)
  /\ job.removed \cap Range(lists[job.repo]) = {}
  /\ job.target # All => job.removed \subseteq {job.target}

JobInv == \A j \in DOMAIN jobs : Fine(jobs[j], Known, caches)

Busy == panel.jobId # None /\ panel.seen \notin {"done", "failed"}

(* What the panel waits for, its requests and the jobs they became, and    *)
(* what it shows of the job it was told.                                   *)
Waits ==
  /\ ~panel.pollError
  /\ Busy => ~panel.confirm /\ clears = {} /\ listing = Idle
  /\ panel.confirm => listing = Idle

Asks ==
  \A c \in clears :
    /\ c.attached /\ clears = {c} /\ c.repo = panel.repo
    /\ IF c.dry THEN ~panel.confirm ELSE listing = Idle
    /\ c.job # None => ~c.dry

Tracks ==
  \A j \in DOMAIN jobs :
    jobs[j].repo = panel.repo /\ (Ended(j) \/ (\E c \in clears : c.job = j) \/ (Busy /\ panel.jobId = j))

Tells ==
  panel.jobId # None =>
    /\ panel.seen \in {"done", "failed"} => jobs[panel.jobId].status = panel.seen
    /\ panel.seen = "done" => /\ panel.table \cap jobs[panel.jobId].removed = {}
                              /\ listing.got \cap jobs[panel.jobId].removed = {}

PanelInv == Watched => Waits /\ Asks /\ Tracks /\ Tells

Noted(job, e)        == \E i \in DOMAIN job.ids : job.ids[i] = e
ToCome(job, list, e) == \E i \in DOMAIN list : i > (job.page - 1) * PageSize /\ list[i] = e

Paged(job, list) ==
  job.target = All =>
    /\ job.status = "listing" => \A e \in job.before : Noted(job, e) \/ ToCome(job, list, e)
    /\ job.status = "deleting" => \A e \in job.before \cap Range(list) : Noted(job, e)
    /\ job.status = "done" => job.before \cap Range(list) = {}

PagesInv == Undisturbed => \A j \in DOMAIN jobs : Paged(jobs[j], caches[jobs[j].repo])

-----------------------------------------------------------------------------
(* Lists and counters.                                                     *)

(* RemoveAt, element by element.                                           *)
LEMMA RemovedAt ==
  ASSUME NEW S, NEW s \in Seq(S), NEW i \in DOMAIN s
  PROVE  /\ RemoveAt(s, i) \in Seq(S)
         /\ Len(RemoveAt(s, i)) = Len(s) - 1
         /\ \A k \in 1 .. Len(s) - 1 : RemoveAt(s, i)[k] = IF k < i THEN s[k] ELSE s[k + 1]
  <1>1. Len(s) \in Nat /\ i \in 1 .. Len(s)  OBVIOUS
  <1>2. /\ SubSeq(s, 1, i - 1) \in Seq(S) /\ Len(SubSeq(s, 1, i - 1)) = i - 1
        /\ \A k \in 1 .. i - 1 : SubSeq(s, 1, i - 1)[k] = s[k]
    BY <1>1
  <1>3. /\ SubSeq(s, i + 1, Len(s)) \in Seq(S) /\ Len(SubSeq(s, i + 1, Len(s))) = Len(s) - i
        /\ \A k \in 1 .. Len(s) - i : SubSeq(s, i + 1, Len(s))[k] = s[k + i]
    BY <1>1
  <1> DEFINE a == SubSeq(s, 1, i - 1)
             b == SubSeq(s, i + 1, Len(s))
  <1> HIDE DEF a, b
  <1>4. /\ RemoveAt(s, i) = a \o b /\ a \in Seq(S) /\ b \in Seq(S)
        /\ Len(a) = i - 1 /\ Len(b) = Len(s) - i
        /\ \A k \in 1 .. i - 1 : a[k] = s[k]
        /\ \A k \in 1 .. Len(s) - i : b[k] = s[k + i]
    BY <1>2, <1>3 DEF a, b, RemoveAt
  <1>5. /\ a \o b \in Seq(S) /\ Len(a \o b) = Len(s) - 1
        /\ \A k \in 1 .. Len(s) - 1 : (a \o b)[k] = IF k <= Len(a) THEN a[k] ELSE b[k - Len(a)]
    <2> DEFINE n == Len(a) + Len(b)
    <2>1. a \in Seq(S) /\ b \in Seq(S)  BY <1>4
    <2>2. a \o b \in Seq(S) /\ Len(a \o b) = n  BY <2>1
    <2>3. \A k \in 1 .. n : (a \o b)[k] = IF k <= Len(a) THEN a[k] ELSE b[k - Len(a)]  BY <2>1
    <2>4. n = Len(s) - 1  BY <1>1, <1>4
    <2> HIDE DEF n
    <2> QED  BY <2>2, <2>3, <2>4
  <1>6. ASSUME NEW k \in 1 .. Len(s) - 1
        PROVE  RemoveAt(s, i)[k] = IF k < i THEN s[k] ELSE s[k + 1]
    <2>1. CASE k < i
      <3>1. k <= Len(a) /\ k \in 1 .. i - 1  BY <1>1, <1>4, <2>1
      <3> QED  BY <1>4, <1>5, <2>1, <3>1
    <2>2. CASE ~(k < i)
      <3>1. ~(k <= Len(a)) /\ k - Len(a) \in 1 .. Len(s) - i /\ (k - Len(a)) + i = k + 1
        BY <1>1, <1>4, <2>2
      <3> QED  BY <1>4, <1>5, <2>2, <3>1
    <2> QED  BY <2>1, <2>2
  <1> QED  BY <1>4, <1>5, <1>6

(* An entry that a list had once is gone from it, and the others stay.     *)
LEMMA WithoutOf ==
  ASSUME NEW list \in Seq(Ids), NEW id,
         \A i, k \in DOMAIN list : list[i] = list[k] => i = k
  PROVE  /\ Without(list, id) \in Seq(Ids)
         /\ Range(Without(list, id)) = Range(list) \ {id}
         /\ \A i, k \in DOMAIN Without(list, id) :
              Without(list, id)[i] = Without(list, id)[k] => i = k
  <1>1. CASE \E i \in DOMAIN list : list[i] = id
    <2> DEFINE at == CHOOSE i \in DOMAIN list : list[i] = id
               less == RemoveAt(list, at)
    <2>1. at \in DOMAIN list /\ list[at] = id  BY <1>1
    <2>2. Without(list, id) = less  BY <1>1 DEF Without
    <2> HIDE DEF at
    <2>3. /\ less \in Seq(Ids) /\ Len(less) = Len(list) - 1
          /\ \A k \in 1 .. Len(list) - 1 : less[k] = IF k < at THEN list[k] ELSE list[k + 1]
      BY <2>1, RemovedAt
    <2>4. /\ DOMAIN less = 1 .. Len(list) - 1 /\ DOMAIN list = 1 .. Len(list) /\ Len(list) \in Nat
      BY <2>3
    <2> HIDE DEF less
    <2>5. \A i \in DOMAIN list : i = at \/ \E k \in DOMAIN less : less[k] = list[i]
      <3> SUFFICES ASSUME NEW i \in DOMAIN list, i # at PROVE \E k \in DOMAIN less : less[k] = list[i]
        OBVIOUS
      <3>1. CASE i < at
        <4>1. i \in DOMAIN less /\ less[i] = list[i]  BY <2>1, <2>3, <2>4, <3>1
        <4> QED  BY <4>1
      <3>2. CASE at < i
        <4>1. i - 1 \in DOMAIN less /\ less[i - 1] = list[i]  BY <2>1, <2>3, <2>4, <3>2
        <4> QED  BY <4>1
      <3> QED  BY <2>1, <2>4, <3>1, <3>2
    <2> DEFINE from(k) == IF k < at THEN k ELSE k + 1
    <2>a. \A k \in DOMAIN less : from(k) \in DOMAIN list /\ from(k) # at /\ less[k] = list[from(k)]
      <3> SUFFICES ASSUME NEW k \in DOMAIN less
                   PROVE  from(k) \in DOMAIN list /\ from(k) # at /\ less[k] = list[from(k)]
        OBVIOUS
      <3>1. CASE k < at
        <4>1. k \in DOMAIN list /\ k # at  BY <2>1, <2>4, <3>1
        <4> QED  BY <2>3, <2>4, <3>1, <4>1
      <3>2. CASE ~(k < at)
        <4>1. k + 1 \in DOMAIN list /\ k + 1 # at  BY <2>1, <2>4, <3>2
        <4> QED  BY <2>3, <2>4, <3>2, <4>1
      <3> QED  BY <3>1, <3>2
    <2>b. \A i, k \in DOMAIN less : from(i) = from(k) => i = k  BY <2>1, <2>4
    <2> HIDE DEF from
    <2>6. \A k \in DOMAIN less : \E i \in DOMAIN list : i # at /\ less[k] = list[i]
      BY <2>a
    <2>7. Range(less) = Range(list) \ {id}  BY <2>1, <2>5, <2>6 DEF Range
    <2>8. \A i, k \in DOMAIN less : less[i] = less[k] => i = k  BY <2>a, <2>b
    <2> QED  BY <2>2, <2>3, <2>7, <2>8
  <1>2. CASE ~ \E i \in DOMAIN list : list[i] = id
    BY <1>2 DEF Without, Range
  <1> QED  BY <1>1, <1>2

(* A list that gets a new first entry.                                     *)
LEMMA PrependOf ==
  ASSUME NEW list \in Seq(Ids), NEW id \in Ids
  PROVE  /\ <<id>> \o list \in Seq(Ids)
         /\ Len(<<id>> \o list) = Len(list) + 1
         /\ (<<id>> \o list)[1] = id
         /\ \A i \in DOMAIN list : i + 1 \in DOMAIN (<<id>> \o list) /\ (<<id>> \o list)[i + 1] = list[i]
         /\ \A i \in DOMAIN (<<id>> \o list) :
              i = 1 \/ (i - 1 \in DOMAIN list /\ (<<id>> \o list)[i] = list[i - 1])
         /\ Range(<<id>> \o list) = {id} \cup Range(list)
  <1> DEFINE more == <<id>> \o list
  <1>1. more \in Seq(Ids) /\ Len(more) = Len(list) + 1 /\ more[1] = id /\ Len(list) \in Nat
    OBVIOUS
  <1>2. \A i \in DOMAIN list : i + 1 \in DOMAIN more /\ more[i + 1] = list[i]  OBVIOUS
  <1>3. \A i \in DOMAIN more : i = 1 \/ (i - 1 \in DOMAIN list /\ more[i] = list[i - 1])  OBVIOUS
  <1>4. 1 \in DOMAIN more  BY <1>1
  <1> HIDE DEF more
  <1>5. Range(more) = {id} \cup Range(list)
    <2>1. ASSUME NEW e \in Range(more) PROVE e \in {id} \cup Range(list)
      BY <1>1, <1>3, <2>1 DEF Range
    <2>2. ASSUME NEW e \in Range(list) PROVE e \in Range(more)
      BY <1>2, <2>2 DEF Range
    <2>3. id \in Range(more)  BY <1>1, <1>4 DEF Range
    <2> QED  BY <2>1, <2>2, <2>3
  <1> QED  BY <1>1, <1>2, <1>3, <1>5 DEF more

LEMMA UseOf ==
  ASSUME TypeInv, NEW what \in Counters, Use(what)
  PROVE  /\ used' \in [Counters -> Nat] /\ used'[what] = used[what] + 1
         /\ \A w \in Counters : w # what => used'[w] = used[w]
  BY DEF TypeInv, Use

LEMMA BoundsOf == DOMAIN Bounds = Counters
  BY DEF Bounds, Counters

(* Remaining, before and after.                                            *)
LEMMA RemainingOf ==
  ASSUME TypeInv, NEW r \in Repos
  PROVE  /\ Remaining(r) = {caches[r][i] : i \in DOMAIN caches[r]}
         /\ Remaining(r) \subseteq Ids /\ caches[r] \in Seq(Ids)
  BY DEF Remaining, Range, TypeInv

(* One job changed.                                                        *)
LEMMA SetOf ==
  ASSUME TypeInv, NEW j \in DOMAIN jobs, NEW new \in Jobs, Set(j, new)
  PROVE  /\ jobs' \in Seq(Jobs) /\ Len(jobs') = Len(jobs) /\ DOMAIN jobs' = DOMAIN jobs
         /\ jobs'[j] = new
         /\ \A i \in DOMAIN jobs : i # j => jobs'[i] = jobs[i]
  BY DEF TypeInv, Set

LEMMA JobOf ==
  ASSUME TypeInv, NEW j \in DOMAIN jobs
  PROVE  jobs[j] \in Jobs /\ j \in 1 .. Len(jobs) /\ Len(jobs) \in Nat /\ DOMAIN jobs = 1 .. Len(jobs)
  BY DEF TypeInv

-----------------------------------------------------------------------------
(* The types.                                                              *)

LEMMA TypeInit == Init => TypeInv
  <1> SUFFICES ASSUME Init PROVE TypeInv  OBVIOUS
  <1>1. panel \in Panels /\ panel.jobId = 0
    BY CacheAssumption DEF Init, Panels, Fresh, All, NoTable, None
  <1>2. /\ lookup \in Repos \cup {None} /\ loaded \subseteq Repos
        /\ listing \in [step : {"idle", "asked", "served"}, got : SUBSET Nat]
        /\ clears \subseteq Requests /\ \A c \in clears : c.job \in 0 .. Len(jobs)
        /\ saving \in Nat
    BY CacheAssumption DEF Init, Idle, None
  <1>3. tokens \in [Repos -> Nat]  BY DEF Init, Legacy, None
  <1>4. jobs \in Seq(Jobs) /\ Len(jobs) = 0  BY DEF Init
  <1>5. caches \in [Repos -> Seq(Ids)]
    <2>1. \A r \in Repos : Cached[r] \in Seq(1 .. FirstAdded - 1)  BY CacheAssumption
    <2>2. 1 .. FirstAdded - 1 \subseteq Ids  BY DEF FirstAdded, Ids, None
    <2>3. ASSUME NEW r \in Repos PROVE Cached[r] \in Seq(Ids)
      <3>1. Cached[r] \in Seq(1 .. FirstAdded - 1)  BY <2>1
      <3> DEFINE list == Cached[r]
                 first == 1 .. FirstAdded - 1
      <3>a. list \in Seq(first) /\ first \subseteq Ids  BY <2>2, <3>1
      <3> HIDE DEF list, first
      <3>2. Len(list) \in Nat /\ \A i \in 1 .. Len(list) : list[i] \in Ids  BY <3>a
      <3>3. list = [i \in 1 .. Len(list) |-> list[i]]  BY <3>1 DEF list
      <3>4. [i \in 1 .. Len(list) |-> list[i]] \in Seq(Ids)  BY <3>2
      <3> QED  BY <3>3, <3>4 DEF list
    <2> QED  BY <2>3, CacheAssumption DEF Init
  <1>6. used \in [Counters -> Nat]
    BY BoundsOf DEF Init
  <1> QED  BY <1>1, <1>2, <1>3, <1>4, <1>5, <1>6 DEF TypeInv

LEMMA NoTableOf == NoTable \in SUBSET Nat
  BY DEF NoTable, None

LEMMA RequestOf ==
  ASSUME TypeInv, NEW dry \in BOOLEAN
  PROVE  /\ Request(dry) \in Requests
         /\ [Request(dry) EXCEPT !.target = All] \in Requests
         /\ Request(dry).job = 0 /\ [Request(dry) EXCEPT !.target = All].job = 0
  BY DEF TypeInv, Panels, Requests, Request, All, None

LEMMA TypePanel ==
  ASSUME TypeInv,
         \/ Type \/ Save \/ Tab \/ LoadCaches \/ OpenDialog \/ CancelDialog \/ Confirm \/ DryRun
         \/ \E r \in Repos : \E active \in BOOLEAN : Switch(r, active)
         \/ Resolved \/ InstallationsLoad \/ Saved \/ ListServed \/ Listed \/ ListFails
         \/ Poll \/ PollFails
  PROVE  TypeInv'
  <1>1. CASE Type
    <2>1. used' \in [Counters -> Nat]  BY <1>1, UseOf DEF Type, Counters
    <2>2. used.typed + 2 \in Nat  BY DEF TypeInv, Counters
    <2>3. panel' \in Panels /\ panel'.jobId = panel.jobId  BY <1>1, <2>2 DEF TypeInv, Panels, Type
    <2> QED  BY <1>1, <2>1, <2>3 DEF TypeInv, svars, Type
  <1>2. CASE Save
    BY <1>2, CacheAssumption DEF TypeInv, Panels, svars, Save, All, NoTable, None, Idle, Asked
  <1>3. CASE Tab
    <2>1. used' \in [Counters -> Nat]  BY <1>3, UseOf DEF Tab, Counters
    <2> QED  BY <1>3, <2>1, CacheAssumption DEF TypeInv, Panels, Requests, svars, Tab, All, NoTable, None, Idle, Asked, Request
  <1>4. CASE LoadCaches
    <2>1. used' \in [Counters -> Nat]  BY <1>4, UseOf DEF LoadCaches, Counters
    <2>2. panel' \in Panels /\ panel'.jobId = panel.jobId
      BY <1>4, NoTableOf DEF TypeInv, Panels, LoadCaches
    <2> QED  BY <1>4, <2>1, <2>2 DEF TypeInv, svars, LoadCaches, Asked
  <1>5. CASE OpenDialog
    <2>1. PICK target \in {All} \cup (panel.table \ NoTable) :
            panel' = [panel EXCEPT !.confirm = TRUE, !.target = target]
      BY <1>5 DEF OpenDialog
    <2>2. target \in Nat  BY <2>1 DEF TypeInv, Panels, All
    <2>3. panel' \in Panels /\ panel'.jobId = panel.jobId  BY <2>1, <2>2 DEF TypeInv, Panels
    <2> QED  BY <1>5, <2>3 DEF TypeInv, svars, OpenDialog
  <1>6. CASE CancelDialog
    BY <1>6, CacheAssumption DEF TypeInv, Panels, svars, CancelDialog, All, NoTable, None, Idle, Asked
  <1>7. CASE Confirm
    <2>1. used' \in [Counters -> Nat]  BY <1>7, UseOf DEF Confirm, Counters
    <2>2. Request(FALSE) \in Requests /\ Request(FALSE).job = 0  BY RequestOf
    <2>3. clears' = clears \cup {Request(FALSE)}  BY <1>7 DEF Confirm
    <2>4. clears' \subseteq Requests /\ \A c \in clears' : c.job \in 0 .. Len(jobs)
      <3>1. Len(jobs) \in Nat  BY DEF TypeInv
      <3>2. 0 \in 0 .. Len(jobs)  BY <3>1
      <3> QED  BY <2>2, <2>3, <3>2 DEF TypeInv
    <2> QED  BY <1>7, <2>1, <2>4 DEF TypeInv, svars, Confirm
  <1>8. CASE DryRun
    <2>1. used' \in [Counters -> Nat]  BY <1>8, UseOf DEF DryRun, Counters
    <2>2. [Request(TRUE) EXCEPT !.target = All] \in Requests /\ [Request(TRUE) EXCEPT !.target = All].job = 0
      BY RequestOf
    <2>3. clears' = clears \cup {[Request(TRUE) EXCEPT !.target = All]}  BY <1>8 DEF DryRun
    <2>4. clears' \subseteq Requests /\ \A c \in clears' : c.job \in 0 .. Len(jobs)
      <3>1. Len(jobs) \in Nat  BY DEF TypeInv
      <3>2. 0 \in 0 .. Len(jobs)  BY <3>1
      <3> QED  BY <2>2, <2>3, <3>2 DEF TypeInv
    <2>5. panel' \in Panels /\ panel'.jobId = panel.jobId
      BY <1>8, NoTableOf DEF TypeInv, Panels, DryRun, All
    <2> QED  BY <1>8, <2>1, <2>4, <2>5 DEF TypeInv, svars, DryRun, Asked
  <1>9. CASE Resolved
    BY <1>9, CacheAssumption DEF TypeInv, Panels, svars, Resolved, All, NoTable, None, Idle, Asked
  <1>10. CASE InstallationsLoad
    BY <1>10, CacheAssumption DEF TypeInv, Panels, svars, InstallationsLoad, All, NoTable, None, Idle, Asked
  <1>11. CASE Saved
    BY <1>11, CacheAssumption DEF TypeInv, Panels, svars, Saved, All, NoTable, None, Idle, Asked
  <1>12. CASE ListServed
    <2>1. Range(caches[panel.repo]) \subseteq Nat
      BY RemainingOf DEF TypeInv, Panels, Remaining, Ids
    <2>2. listing' \in [step : {"idle", "asked", "served"}, got : SUBSET Nat]
      BY <1>12, <2>1 DEF ListServed
    <2> QED  BY <1>12, <2>2 DEF TypeInv, svars, ListServed
  <1>13. CASE Listed
    BY <1>13, CacheAssumption DEF TypeInv, Panels, svars, Listed, All, NoTable, None, Idle, Asked
  <1>14. CASE ListFails
    <2>1. used' \in [Counters -> Nat]  BY <1>14, UseOf DEF ListFails, Counters
    <2> QED  BY <1>14, <2>1, CacheAssumption DEF TypeInv, Panels, Requests, svars, ListFails, All, NoTable, None, Idle, Asked, Request
  <1>15. CASE Poll
    <2> DEFINE now == Status(jobs[panel.jobId])
               again == now = "done" /\ panel.table # NoTable
               table == IF again THEN NoTable ELSE panel.table
    <2>1. jobs[panel.jobId] \in Jobs
      BY <1>15 DEF TypeInv, Panels, Poll, None
    <2>2. now \in {"none", "queued", "processing", "done", "failed"}
      BY <2>1 DEF Jobs, Statuses, Status
    <2>3. table \in SUBSET Nat  BY DEF TypeInv, Panels, NoTable, None
    <2>4. panel' = [panel EXCEPT !.seen = now, !.pollError = FALSE, !.table = table]
      BY <1>15 DEF Poll
    <2>5. listing' = IF again THEN Asked ELSE listing  BY <1>15 DEF Poll
    <2> HIDE DEF now, again, table
    <2>6. panel' \in Panels /\ panel'.jobId = panel.jobId  BY <2>2, <2>3, <2>4 DEF TypeInv, Panels
    <2>7. listing' \in [step : {"idle", "asked", "served"}, got : SUBSET Nat]
      BY <2>5 DEF TypeInv, Asked
    <2> QED  BY <1>15, <2>6, <2>7 DEF TypeInv, svars, Poll
  <1>16. CASE PollFails
    <2>1. used' \in [Counters -> Nat]  BY <1>16, UseOf DEF PollFails, Counters
    <2> QED  BY <1>16, <2>1, CacheAssumption DEF TypeInv, Panels, Requests, svars, PollFails, All, NoTable, None, Idle, Asked, Request
  <1>17. ASSUME NEW r \in Repos, NEW active \in BOOLEAN, Switch(r, active) PROVE TypeInv'
    <2>1. used' \in [Counters -> Nat]  BY <1>17, UseOf DEF Switch, Counters
    <2>2. panel' \in Panels /\ panel'.jobId = 0
      BY <1>17, CacheAssumption DEF Switch, Panels, Fresh, All, NoTable, None
    <2>3. clears' \subseteq Requests /\ \A c \in clears' : c.job \in 0 .. Len(jobs)
      <3>1. clears' = {[c EXCEPT !.attached = FALSE] : c \in clears}  BY <1>17 DEF Switch
      <3>2. \A c \in Requests : /\ [c EXCEPT !.attached = FALSE] \in Requests
                               /\ [c EXCEPT !.attached = FALSE].job = c.job
        BY DEF Requests
      <3> QED  BY <3>1, <3>2 DEF TypeInv
    <2> QED  BY <1>17, <2>1, <2>2, <2>3 DEF TypeInv, svars, Switch, Idle
  <1> QED  BY <1>1, <1>2, <1>3, <1>4, <1>5, <1>6, <1>7, <1>8, <1>9, <1>10, <1>11, <1>12, <1>13, <1>14, <1>15, <1>16, <1>17

LEMMA TypeRequests ==
  ASSUME TypeInv, NEW c \in clears, ClearServed(c) \/ ClearAnswered(c) \/ ClearFails(c)
  PROVE  TypeInv'
  <1>0. c \in Requests /\ c.job \in 0 .. Len(jobs) /\ Len(jobs) \in Nat  BY DEF TypeInv
  <1>1. CASE ClearServed(c)
    <2> DEFINE sent == [c EXCEPT !.job = Len(jobs) + 1]
               new == Job(c.repo, c.target)
    <2>1. sent \in Requests /\ sent.job = Len(jobs) + 1  BY <1>0 DEF Requests
    <2>2. new \in Jobs  BY <1>0 DEF Requests, Job, Jobs, Statuses
    <2>3. clears' = (clears \ {c}) \cup {sent} /\ jobs' = Append(jobs, new)  BY <1>1 DEF ClearServed
    <2> HIDE DEF sent, new
    <2>4. jobs' \in Seq(Jobs) /\ Len(jobs') = Len(jobs) + 1  BY <2>2, <2>3 DEF TypeInv
    <2>5. clears' \subseteq Requests  BY <2>1, <2>3 DEF TypeInv
    <2>6. \A d \in clears' : d.job \in 0 .. Len(jobs')  BY <1>0, <2>1, <2>3, <2>4 DEF TypeInv
    <2>7. panel' = panel /\ panel.jobId \in 0 .. Len(jobs')  BY <1>0, <1>1, <2>4 DEF TypeInv, ClearServed
    <2> QED  BY <1>1, <2>4, <2>5, <2>6, <2>7 DEF TypeInv, ClearServed
  <1>2. CASE ClearAnswered(c)
    <2>1. panel' \in Panels /\ panel'.jobId \in 0 .. Len(jobs)
      <3>1. CASE c.dry
        <4>1. panel' = [panel EXCEPT !.confirm = FALSE]
          BY <1>2, <3>1 DEF ClearAnswered, TypeInv, Panels
        <4> QED  BY <4>1 DEF TypeInv, Panels
      <3>2. CASE ~c.dry
        <4>1. panel' = [panel EXCEPT !.confirm = FALSE, !.jobId = c.job, !.seen = "none", !.pollError = FALSE]
          BY <1>2, <3>2 DEF ClearAnswered
        <4>2. c.job \in Nat  BY <1>0
        <4>3. panel' \in Panels  BY <4>1, <4>2 DEF TypeInv, Panels
        <4>4. panel'.jobId = c.job  BY <4>1 DEF TypeInv, Panels
        <4> QED  BY <1>0, <4>3, <4>4
      <3> QED  BY <3>1, <3>2
    <2> QED  BY <1>2, <2>1 DEF TypeInv, svars, ClearAnswered
  <1>3. CASE ClearFails(c)
    <2>1. used' \in [Counters -> Nat]  BY <1>3, UseOf DEF ClearFails, Counters
    <2>2. panel' \in Panels /\ panel'.jobId = panel.jobId  BY <1>3 DEF TypeInv, Panels, ClearFails
    <2> QED  BY <1>3, <2>1, <2>2 DEF TypeInv, svars, ClearFails
  <1> QED  BY <1>1, <1>2, <1>3

(* What the worker makes of a job, and of the caches.                      *)
LEMMA CachesOf ==
  ASSUME TypeInv, NEW r \in Repos, NEW list \in Seq(Ids), caches' = [caches EXCEPT ![r] = list]
  PROVE  /\ caches' \in [Repos -> Seq(Ids)] /\ caches'[r] = list
         /\ \A q \in Repos : q # r => caches'[q] = caches[q]
  BY DEF TypeInv

LEMMA ReadOf ==
  ASSUME TypeInv, NEW j \in DOMAIN jobs, ReadPage(j)
  PROVE  \E batch \in Seq(Ids) :
           LET job == jobs[j]
               list == caches[job.repo]
               from == (job.page - 1) * PageSize + 1
               new == [job EXCEPT !.ids = @ \o batch, !.page = @ + 1,
                         !.status = IF Len(batch) < PageSize THEN "deleting" ELSE @]
           IN  /\ new \in Jobs /\ Set(j, new)
               /\ \A k \in 1 .. Len(batch) : from + k - 1 \in DOMAIN list /\ batch[k] = list[from + k - 1]
               /\ \A i \in DOMAIN list : i >= from /\ i < from + PageSize =>
                    i - from + 1 \in 1 .. Len(batch) /\ batch[i - from + 1] = list[i]
               /\ Len(batch) < PageSize => Len(list) < from + PageSize - 1
  <1> DEFINE job == jobs[j]
             list == caches[job.repo]
             from == (job.page - 1) * PageSize + 1
             to == IF from + PageSize - 1 < Len(list) THEN from + PageSize - 1 ELSE Len(list)
             batch == SubSeq(list, from, to)
             new == [job EXCEPT !.ids = @ \o batch, !.page = @ + 1,
                       !.status = IF Len(batch) < PageSize THEN "deleting" ELSE @]
  <1>1. job \in Jobs  BY DEF TypeInv
  <1>2. list \in Seq(Ids) /\ Len(list) \in Nat  BY <1>1 DEF TypeInv, Jobs
  <1>3. PageSize \in Nat \ {0} /\ job.page \in Nat \ {0}  BY <1>1, CacheAssumption DEF Jobs
  <1>4. from \in Nat \ {0}
    <2> DEFINE p == job.page - 1
    <2>1. p \in Nat  BY <1>3
    <2> HIDE DEF p
    <2>2. p * PageSize \in Nat  BY <1>3, <2>1
    <2> QED  BY <2>2 DEF p
  <1>5. Set(j, new)  BY DEF ReadPage
  <1> HIDE DEF job, list, from
  <1>6. to \in Int /\ to <= Len(list) /\ to <= from + PageSize - 1  BY <1>2, <1>3, <1>4
  <1>a. Len(list) < from + PageSize - 1 => to = Len(list)  BY <1>2, <1>3, <1>4
  <1>b. Len(list) >= from + PageSize - 1 => to = from + PageSize - 1  BY <1>2, <1>3, <1>4
  <1> HIDE DEF to
  <1>7. /\ batch \in Seq(Ids) /\ Len(batch) = IF from <= to THEN to - from + 1 ELSE 0
        /\ \A k \in 1 .. Len(batch) : batch[k] = list[from + k - 1]
    BY <1>2, <1>4, <1>6
  <1> HIDE DEF batch
  <1>8. \A k \in 1 .. Len(batch) : from + k - 1 \in DOMAIN list  BY <1>2, <1>4, <1>6, <1>7
  <1>9. \A i \in DOMAIN list : i >= from /\ i < from + PageSize =>
          i - from + 1 \in 1 .. Len(batch) /\ batch[i - from + 1] = list[i]
    <2> SUFFICES ASSUME NEW i \in DOMAIN list, i >= from, i < from + PageSize
                 PROVE  i - from + 1 \in 1 .. Len(batch) /\ batch[i - from + 1] = list[i]
      OBVIOUS
    <2>1. i \in 1 .. Len(list) /\ i <= to  BY <1>2, <1>3, <1>4, <1>6, <1>a, <1>b
    <2>2. i - from + 1 \in 1 .. Len(batch) /\ from + (i - from + 1) - 1 = i
      BY <1>2, <1>4, <1>6, <1>7, <2>1
    <2> QED  BY <1>7, <2>2
  <1>10. Len(batch) < PageSize => Len(list) < from + PageSize - 1
    BY <1>2, <1>3, <1>4, <1>6, <1>7, <1>b
  <1>11. new \in Jobs
    <2>1. job.ids \o batch \in Seq(Nat)
      <3>1. batch \in Seq(Nat)  BY <1>7 DEF Ids
      <3> QED  BY <1>1, <3>1 DEF Jobs
    <2>2. (IF Len(batch) < PageSize THEN "deleting" ELSE job.status) \in Statuses
      BY <1>1 DEF Jobs, Statuses
    <2>3. job.page + 1 \in Nat \ {0}  BY <1>3
    <2> QED  BY <1>1, <2>1, <2>2, <2>3 DEF Jobs
  <1> QED  BY <1>5, <1>7, <1>8, <1>9, <1>10, <1>11 DEF job, list, from

LEMMA WithoutType ==
  ASSUME NEW list \in Seq(Ids), NEW id
  PROVE  Without(list, id) \in Seq(Ids)
  <1>1. CASE \E i \in DOMAIN list : list[i] = id
    <2>1. (CHOOSE i \in DOMAIN list : list[i] = id) \in DOMAIN list  BY <1>1
    <2> QED  BY <1>1, <2>1, RemovedAt DEF Without
  <1>2. CASE ~ \E i \in DOMAIN list : list[i] = id  BY <1>2 DEF Without
  <1> QED  BY <1>1, <1>2

(* What a step of the worker does to job j: `new` is what it becomes.      *)
Deleting(j, new) ==
  /\ jobs[j].status = "deleting" /\ jobs[j].ids # <<>>
  /\ caches' = [caches EXCEPT ![jobs[j].repo] = Without(@, Head(jobs[j].ids))]
  /\ new.removed = jobs[j].removed \cup ({Head(jobs[j].ids)} \cap Remaining(jobs[j].repo))

Counting(j, new) ==
  \/ new.deleted = 0 \/ new.deleted = jobs[j].deleted
  \/ /\ Deleting(j, new) /\ Head(jobs[j].ids) \in Remaining(jobs[j].repo)
     /\ new.deleted = jobs[j].deleted + 1

Step(j, new) ==
  /\ Set(j, new) /\ UNCHANGED <<pvars, tokens>>
  /\ used' \in [Counters -> Nat] /\ \A w \in Counters \ {"faults"} : used'[w] = used[w]
  /\ jobs[j].status \in {"queued", "listing", "deleting"}
  /\ new.repo = jobs[j].repo /\ new.target = jobs[j].target
  /\ (caches' = caches /\ new.removed = jobs[j].removed) \/ Deleting(j, new)
  /\ Counting(j, new)
  /\ new.before = jobs[j].before \/ new.before = Remaining(jobs[j].repo)
  /\ Retries(jobs[j]) => Retries(new)
  /\ Lists(jobs[j]) => Lists(new)
  /\ Lists(jobs[j]) /\ Targets(jobs[j]) => Targets(new)

LEMMA RequeuedOf ==
  ASSUME NEW job \in Jobs
  PROVE  /\ Requeued(job) \in Jobs /\ Requeued(job).status \in {"failed", "queued"}
         /\ Requeued(job).retries = job.retries + 1
         /\ (Requeued(job).status = "queued" => Requeued(job).retries <= MaxRetries)
         /\ Requeued(job).repo = job.repo /\ Requeued(job).target = job.target
         /\ Requeued(job).deleted = job.deleted /\ Requeued(job).before = job.before
         /\ Requeued(job).ids = job.ids /\ Requeued(job).removed = job.removed
  <1> DEFINE status == IF job.retries + 1 > MaxRetries THEN "failed" ELSE "queued"
  <1>1. status \in {"failed", "queued"} /\ (status = "queued" => job.retries + 1 <= MaxRetries)
    BY CacheAssumption DEF Jobs
  <1>2. Requeued(job) = [job EXCEPT !.retries = @ + 1, !.status = status]  BY DEF Requeued
  <1> HIDE DEF status
  <1>3. status \in Statuses /\ job.retries + 1 \in Nat  BY <1>1 DEF Jobs, Statuses
  <1>4. Requeued(job) \in Jobs  BY <1>2, <1>3 DEF Jobs
  <1> QED  BY <1>1, <1>2, <1>4 DEF Jobs

LEMMA WorkerOf ==
  ASSUME TypeInv, NEW j \in DOMAIN jobs, Work(j) \/ Fault(j)
  PROVE  \E new \in Jobs : Step(j, new)
  <1> DEFINE job == jobs[j]
  <1>0. job \in Jobs /\ used \in [Counters -> Nat]  BY DEF TypeInv
  <1>1. CASE Take(j)
    <2> DEFINE ids == IF job.target = All THEN <<>> ELSE <<job.target>>
               status == IF job.target = All THEN "listing" ELSE "deleting"
               new == [job EXCEPT !.status = status, !.page = 1, !.ids = ids, !.deleted = 0,
                         !.before = Remaining(job.repo)]
    <2>1. Set(j, new) /\ job.status = "queued" /\ UNCHANGED <<pvars, tokens, caches, used>>
      BY <1>1 DEF Take
    <2>2. ids \in Seq(Nat)  BY <1>0 DEF Jobs
    <2>3. status \in Statuses /\ (status = "listing" => job.target = All) /\ status # "failed"
      BY DEF Statuses
    <2>4. Remaining(job.repo) \in SUBSET Nat  BY <1>0, RemainingOf DEF Jobs, Ids
    <2>5. job.target # All => \A i \in DOMAIN ids : ids[i] = job.target  OBVIOUS
    <2> HIDE DEF ids, status
    <2>6. new \in Jobs /\ new.status = status /\ new.ids = ids /\ new.deleted = 0 /\ new.retries = job.retries
          /\ new.before = Remaining(job.repo) /\ new.repo = job.repo /\ new.target = job.target
          /\ new.removed = job.removed
      <3>1. 1 \in Nat \ {0} /\ 0 \in Nat  OBVIOUS
      <3>2. new \in Jobs  BY <1>0, <2>2, <2>3, <2>4, <3>1 DEF Jobs
      <3> QED  BY <1>0, <3>2 DEF Jobs
    <2> HIDE DEF new
    <2>7. Retries(job) => Retries(new)  BY <2>1, <2>3, <2>6 DEF Retries
    <2>8. Lists(new) /\ Targets(new)  BY <2>3, <2>5, <2>6 DEF Lists, Targets
    <2> QED  BY <1>0, <2>1, <2>6, <2>7, <2>8 DEF Step, Counting
  <1>2. CASE ReadPage(j)
    <2>1. job.status = "listing" /\ UNCHANGED <<pvars, tokens, caches, used>>  BY <1>2 DEF ReadPage
    <2>2. PICK batch \in Seq(Ids) :
            LET new == [job EXCEPT !.ids = @ \o batch, !.page = @ + 1,
                          !.status = IF Len(batch) < PageSize THEN "deleting" ELSE @]
            IN  new \in Jobs /\ Set(j, new)
      BY <1>2, ReadOf
    <2> DEFINE status == IF Len(batch) < PageSize THEN "deleting" ELSE job.status
               new == [job EXCEPT !.ids = @ \o batch, !.page = @ + 1, !.status = status]
    <2>3. new \in Jobs /\ Set(j, new)  BY <2>2
    <2>4. status \in {"listing", "deleting"}  BY <2>1
    <2> HIDE DEF status
    <2>5. new.status = status /\ new.retries = job.retries /\ new.deleted = job.deleted
          /\ new.before = job.before /\ new.repo = job.repo /\ new.target = job.target
          /\ new.removed = job.removed
      BY <1>0 DEF Jobs
    <2> HIDE DEF new
    <2>7. Retries(job) => Retries(new)  BY <2>1, <2>4, <2>5 DEF Retries
    <2>8. Lists(job) => Lists(new)  BY <2>1, <2>5 DEF Lists
    <2>9. Lists(job) => Targets(new)  BY <2>1, <2>5 DEF Lists, Targets
    <2> QED  BY <1>0, <2>1, <2>3, <2>5, <2>7, <2>8, <2>9 DEF Step, Counting
  <1>3. CASE Delete(j)
    <2> DEFINE id == Head(job.ids)
               there == id \in Remaining(job.repo)
               removed == IF there THEN job.removed \cup {id} ELSE job.removed
               deleted == IF there THEN job.deleted + 1 ELSE job.deleted
               ids == Tail(job.ids)
               gone == [job EXCEPT !.ids = ids, !.removed = removed]
               new == IF job.target = All THEN [gone EXCEPT !.deleted = deleted]
                      ELSE [gone EXCEPT !.status = IF there THEN "deleting" ELSE "failed"]
    <2>1. /\ job.status = "deleting" /\ job.ids # <<>> /\ Set(j, new)
          /\ caches' = [caches EXCEPT ![job.repo] = Without(@, id)] /\ UNCHANGED <<pvars, tokens, used>>
      <3>1. gone = [job EXCEPT !.ids = Tail(@), !.removed = IF there THEN @ \cup {id} ELSE @]
        BY <1>0 DEF Jobs
      <3>2. [gone EXCEPT !.deleted = deleted] = [gone EXCEPT !.deleted = IF there THEN @ + 1 ELSE @]
        BY <1>0 DEF Jobs
      <3> QED  BY <1>3, <3>1, <3>2 DEF Delete
    <2>2. id \in Nat /\ ids \in Seq(Nat) /\ \A i \in DOMAIN ids : i + 1 \in DOMAIN job.ids /\ ids[i] = job.ids[i + 1]
      BY <1>0, <2>1 DEF Jobs
    <2>3. removed = job.removed \cup ({id} \cap Remaining(job.repo))  OBVIOUS
    <2>4. removed \in SUBSET Nat /\ deleted \in Nat  BY <1>0, <2>2 DEF Jobs
    <2>5. there \/ deleted = job.deleted  OBVIOUS
    <2>6. there => deleted = job.deleted + 1  OBVIOUS
    <2> HIDE DEF id, removed, deleted, ids, there
    <2>7. /\ new \in Jobs /\ new.ids = ids /\ new.removed = removed
          /\ new.before = job.before /\ (new.deleted = job.deleted \/ (there /\ new.deleted = deleted))
          /\ new.repo = job.repo /\ new.target = job.target /\ new.retries = job.retries
          /\ new.status # "listing"
      <3>1. gone \in Jobs /\ gone.ids = ids /\ gone.removed = removed /\ gone.deleted = job.deleted
            /\ gone.before = job.before /\ gone.repo = job.repo /\ gone.target = job.target
            /\ gone.retries = job.retries /\ gone.status = "deleting"
        BY <1>0, <2>1, <2>2, <2>4 DEF Jobs
      <3> HIDE DEF gone
      <3>2. CASE job.target = All
        <4>1. new = [gone EXCEPT !.deleted = deleted]  BY <3>2
        <4> QED  BY <2>4, <2>5, <3>1, <4>1 DEF Jobs
      <3>3. CASE job.target # All
        <4>1. new = [gone EXCEPT !.status = IF there THEN "deleting" ELSE "failed"]  BY <3>3
        <4> QED  BY <3>1, <4>1 DEF Jobs, Statuses
      <3> QED  BY <3>2, <3>3
    <2> HIDE DEF new
    <2>8. Deleting(j, new)  BY <2>1, <2>3, <2>7 DEF Deleting, id
    <2>9. Counting(j, new)  BY <2>6, <2>7, <2>8 DEF Counting, there, id
    <2>10. Retries(job) => Retries(new)  BY <1>0, <2>1, <2>7, CacheAssumption DEF Retries, Jobs
    <2>11. Lists(new) /\ (Targets(job) => Targets(new))  BY <2>2, <2>7 DEF Lists, Targets
    <2> QED  BY <1>0, <2>1, <2>7, <2>8, <2>9, <2>10, <2>11 DEF Step
  <1>4. CASE Fault(j)
    <2>1. /\ job.status \in {"listing", "deleting"} /\ UNCHANGED <<pvars, tokens>> /\ Use("faults")
          /\ used' \in [Counters -> Nat] /\ \A w \in Counters \ {"faults"} : used'[w] = used[w]
      BY <1>4, UseOf DEF Fault, Counters
    <2> DEFINE id == Head(job.ids)
    <2>2. PICK lost \in IF job.status = "deleting" /\ job.ids # <<>> THEN BOOLEAN ELSE {FALSE} :
            /\ \/ ~lost /\ Set(j, [job EXCEPT !.status = "failed"])
               \/ Set(j, Requeued(IF lost /\ id \in Remaining(job.repo)
                                  THEN [job EXCEPT !.removed = @ \cup {id}] ELSE job))
            /\ caches' = IF lost THEN [caches EXCEPT ![job.repo] = Without(@, id)] ELSE caches
      BY <1>4 DEF Fault
    <2>3. CASE lost
      <3>1. job.status = "deleting" /\ job.ids # <<>>  BY <2>2, <2>3
      <3>2. caches' = [caches EXCEPT ![job.repo] = Without(@, id)]  BY <2>2, <2>3
      <3> DEFINE removed == job.removed \cup ({id} \cap Remaining(job.repo))
                 new == Requeued([job EXCEPT !.removed = removed])
      <3>3. Set(j, new)
        <4>1. CASE id \in Remaining(job.repo)
          <5>1. removed = job.removed \cup {id}  BY <4>1
          <5> QED  BY <1>0, <2>2, <2>3, <4>1, <5>1 DEF Jobs
        <4>2. CASE id \notin Remaining(job.repo)
          <5>1. removed = job.removed  BY <4>2
          <5>2. [job EXCEPT !.removed = removed] = job  BY <1>0, <5>1 DEF Jobs
          <5> QED  BY <2>2, <2>3, <4>2, <5>2
        <4> QED  BY <4>1, <4>2
      <3>4. removed \in SUBSET Nat
        <4>1. id \in Nat  BY <1>0, <3>1 DEF Jobs
        <4> QED  BY <1>0, <4>1 DEF Jobs
      <3> HIDE DEF removed
      <3>5. /\ new \in Jobs /\ new.status \in {"failed", "queued"} /\ new.removed = removed
            /\ new.retries = job.retries + 1 /\ (new.status = "queued" => new.retries <= MaxRetries)
            /\ new.repo = job.repo /\ new.target = job.target /\ new.deleted = job.deleted
            /\ new.before = job.before /\ new.ids = job.ids
        <4> DEFINE mid == [job EXCEPT !.removed = removed]
        <4>1. mid \in Jobs /\ mid.removed = removed /\ mid.retries = job.retries /\ mid.repo = job.repo
              /\ mid.target = job.target /\ mid.deleted = job.deleted /\ mid.before = job.before
              /\ mid.ids = job.ids
          BY <1>0, <3>4 DEF Jobs
        <4> HIDE DEF mid
        <4> QED  BY <4>1, RequeuedOf DEF mid
      <3> HIDE DEF new
      <3>6. Deleting(j, new)  BY <3>1, <3>2, <3>5 DEF Deleting, removed
      <3>7. Retries(job) => Retries(new)  BY <1>0, <3>1, <3>5, CacheAssumption DEF Retries, Jobs
      <3>8. Lists(new) /\ (Targets(job) => Targets(new))  BY <3>5 DEF Lists, Targets
      <3> QED  BY <2>1, <3>3, <3>5, <3>6, <3>7, <3>8 DEF Step, Counting
    <2>4. CASE ~lost
      <3>1. caches' = caches  BY <2>2, <2>4
      <3>2. CASE Set(j, [job EXCEPT !.status = "failed"])
        <4> DEFINE new == [job EXCEPT !.status = "failed"]
        <4>1. /\ new \in Jobs /\ new.status = "failed" /\ new.removed = job.removed
              /\ new.retries = job.retries /\ new.repo = job.repo /\ new.target = job.target
              /\ new.deleted = job.deleted /\ new.before = job.before /\ new.ids = job.ids
          BY <1>0 DEF Jobs, Statuses
        <4>2. Set(j, new)  BY <3>2
        <4> HIDE DEF new
        <4>3. Retries(job) => Retries(new)  BY <1>0, <2>1, <4>1, CacheAssumption DEF Retries, Jobs
        <4>4. Lists(new) /\ (Targets(job) => Targets(new))  BY <4>1 DEF Lists, Targets
        <4> QED  BY <2>1, <3>1, <4>1, <4>2, <4>3, <4>4 DEF Step, Counting
      <3>3. CASE Set(j, Requeued(job))
        <4> DEFINE new == Requeued(job)
        <4>1. /\ new \in Jobs /\ new.status \in {"failed", "queued"} /\ new.removed = job.removed
              /\ new.retries = job.retries + 1 /\ (new.status = "queued" => new.retries <= MaxRetries)
              /\ new.repo = job.repo /\ new.target = job.target /\ new.deleted = job.deleted
              /\ new.before = job.before /\ new.ids = job.ids
          BY <1>0, RequeuedOf
        <4>2. Set(j, new)  BY <3>3
        <4> HIDE DEF new
        <4>3. Retries(job) => Retries(new)  BY <1>0, <2>1, <4>1, CacheAssumption DEF Retries, Jobs
        <4>4. Lists(new) /\ (Targets(job) => Targets(new))  BY <4>1 DEF Lists, Targets
        <4> QED  BY <2>1, <3>1, <4>1, <4>2, <4>3, <4>4 DEF Step, Counting
      <3> QED  BY <2>2, <2>4, <3>2, <3>3
    <2> QED  BY <2>2, <2>3, <2>4
  <1>5. CASE Done(j)
    <2> DEFINE new == [job EXCEPT !.status = "done"]
    <2>1. Set(j, new) /\ job.status = "deleting" /\ UNCHANGED <<pvars, tokens, caches, used>>
      BY <1>5 DEF Done
    <2>2. /\ new \in Jobs /\ new.status = "done" /\ new.removed = job.removed
          /\ new.retries = job.retries /\ new.repo = job.repo /\ new.target = job.target
          /\ new.deleted = job.deleted /\ new.before = job.before /\ new.ids = job.ids
      BY <1>0 DEF Jobs, Statuses
    <2> HIDE DEF new
    <2>3. Retries(job) => Retries(new)  BY <1>0, <2>1, <2>2, CacheAssumption DEF Retries, Jobs
    <2>4. Lists(new) /\ (Targets(job) => Targets(new))  BY <2>2 DEF Lists, Targets
    <2> QED  BY <1>0, <2>1, <2>2, <2>3, <2>4 DEF Step, Counting
  <1> QED  BY <1>1, <1>2, <1>3, <1>4, <1>5 DEF Work

LEMMA TypeWorker ==
  ASSUME TypeInv, NEW j \in DOMAIN jobs, NEW new \in Jobs, Step(j, new)
  PROVE  TypeInv'
  <1>1. jobs' \in Seq(Jobs) /\ Len(jobs') = Len(jobs)  BY SetOf DEF Step
  <1>2. caches' \in [Repos -> Seq(Ids)]
    <2>1. CASE caches' = caches  BY <2>1 DEF TypeInv
    <2>2. CASE Deleting(j, new)
      <3>1. jobs[j].repo \in Repos  BY JobOf DEF Jobs
      <3>2. caches[jobs[j].repo] \in Seq(Ids)  BY <3>1 DEF TypeInv
      <3> QED  BY <2>2, <3>1, <3>2, WithoutType, CachesOf DEF Deleting
    <2> QED  BY <2>1, <2>2 DEF Step
  <1>3. UNCHANGED <<pvars, tokens>> /\ used' \in [Counters -> Nat]  BY DEF Step
  <1> QED  BY <1>1, <1>2, <1>3 DEF TypeInv, pvars

LEMMA TypeCI ==
  ASSUME TypeInv, NEW r \in Repos, Add(r) \/ Touch(r) \/ Evict(r)
  PROVE  TypeInv'
  <1>1. used' \in [Counters -> Nat]  BY UseOf DEF Add, Touch, Evict, Counters
  <1>2. caches[r] \in Seq(Ids) /\ Remaining(r) \subseteq Ids  BY RemainingOf
  <1>3. UNCHANGED <<pvars, tokens, jobs>>  BY DEF Add, Touch, Evict
  <1>4. caches' \in [Repos -> Seq(Ids)]
    <2>1. CASE Add(r)
      <3>1. FirstAdded + used.adds \in Ids  BY DEF TypeInv, Counters, FirstAdded, Ids, None
      <3>2. <<FirstAdded + used.adds>> \o caches[r] \in Seq(Ids)  BY <1>2, <3>1, PrependOf
      <3> QED  BY <2>1, <3>2, CachesOf DEF Add
    <2>2. CASE Touch(r)
      <3>1. PICK id \in Remaining(r) : caches' = [caches EXCEPT ![r] = <<id>> \o Without(@, id)]
        BY <2>2 DEF Touch
      <3>2. <<id>> \o Without(caches[r], id) \in Seq(Ids)  BY <1>2, WithoutType, PrependOf
      <3> QED  BY <3>1, <3>2, CachesOf
    <2>3. CASE Evict(r)
      <3>1. PICK id \in Remaining(r) : caches' = [caches EXCEPT ![r] = Without(@, id)]
        BY <2>3 DEF Evict
      <3> QED  BY <1>2, <3>1, WithoutType, CachesOf
    <2> QED  BY <2>1, <2>2, <2>3
  <1> QED  BY <1>1, <1>3, <1>4 DEF TypeInv, pvars

LEMMA TypeStep == TypeInv /\ [Next]_vars => TypeInv'
  <1> SUFFICES ASSUME TypeInv, [Next]_vars PROVE TypeInv'  OBVIOUS
  <1>1. CASE User  BY <1>1, TypePanel DEF User
  <1>2. CASE Answers  BY <1>2, TypePanel, TypeRequests DEF Answers
  <1>3. CASE Worker  BY <1>3, WorkerOf, TypeWorker DEF Worker
  <1>4. CASE CI  BY <1>4, TypeCI DEF CI
  <1>5. CASE UNCHANGED vars  BY <1>5 DEF TypeInv, vars, pvars, svars
  <1> QED  BY <1>1, <1>2, <1>3, <1>4, <1>5 DEF Next

-----------------------------------------------------------------------------
(* What the panel's steps leave alone.                                     *)

(* The panel and its requests never touch GitHub's lists, nor what CI did. *)
LEMMA PanelFrame ==
  ASSUME TypeInv, User \/ Answers
  PROVE  /\ caches' = caches /\ used'.adds = used.adds
         /\ used'.touches = used.touches /\ used'.evictions = used.evictions
         /\ jobs' = jobs \/ \E c \in clears : ClearServed(c)
  <1>1. \/ UNCHANGED used
        \/ \E what \in {"clears", "switches", "typed", "tabs", "lists", "faults", "pollFails"} : Use(what)
    BY DEF User, Answers, Type, Save, Tab, LoadCaches, OpenDialog, CancelDialog, Confirm, DryRun, Switch,
           Resolved, InstallationsLoad, Saved, ListServed, Listed, ListFails, Poll, PollFails,
           ClearServed, ClearAnswered, ClearFails
  <1>2. used'.adds = used.adds /\ used'.touches = used.touches /\ used'.evictions = used.evictions
    BY <1>1, UseOf DEF Counters
  <1>3. caches' = caches /\ (jobs' = jobs \/ \E c \in clears : ClearServed(c))
    BY DEF User, Answers, Type, Save, Tab, LoadCaches, OpenDialog, CancelDialog, Confirm, DryRun, Switch,
           Resolved, InstallationsLoad, Saved, ListServed, Listed, ListFails, Poll, PollFails,
           ClearServed, ClearAnswered, ClearFails, svars
  <1> QED  BY <1>2, <1>3

(* What the panel shows comes from a list asked for its repository.        *)
Shows ==
  \/ /\ panel'.repo = panel.repo
     /\ panel'.table \in {panel.table, NoTable, listing.got}
     /\ listing'.got \in {listing.got, {}, Remaining(panel.repo)}
  \/ panel'.repo \in Repos /\ panel'.table = NoTable /\ listing'.got = {}

LEMMA ShowsOf ==
  ASSUME TypeInv, User \/ Answers
  PROVE  Shows
  <1>0. panel \in Panels  BY DEF TypeInv
  <1>1. CASE Type \/ Tab \/ OpenDialog \/ CancelDialog \/ Saved \/ PollFails
             \/ \E c \in clears : ClearAnswered(c) \/ ClearFails(c)
    BY <1>0, <1>1 DEF Panels, Shows, Type, Tab, OpenDialog, CancelDialog, Saved, PollFails, ClearAnswered, ClearFails
  <1>2. CASE Save \/ Confirm \/ InstallationsLoad \/ \E c \in clears : ClearServed(c)
    BY <1>2 DEF Shows, Save, Confirm, InstallationsLoad, ClearServed
  <1>3. CASE LoadCaches \/ DryRun
    <2>1. panel'.repo = panel.repo /\ panel'.table = NoTable
      BY <1>0, <1>3 DEF Panels, LoadCaches, DryRun
    <2>2. listing' = Asked /\ Asked.got = {}  BY <1>3 DEF LoadCaches, DryRun, Asked
    <2> QED  BY <2>1, <2>2 DEF Shows
  <1>4. CASE Resolved
    BY <1>0, <1>4 DEF Panels, Shows, Resolved
  <1>5. CASE ListServed
    BY <1>5 DEF Shows, ListServed, Remaining
  <1>6. CASE Listed
    BY <1>0, <1>6 DEF Panels, Shows, Listed, Idle
  <1>7. CASE ListFails
    BY <1>7 DEF Shows, ListFails, Idle
  <1>8. CASE Poll
    <2> DEFINE again == Status(jobs[panel.jobId]) = "done" /\ panel.table # NoTable
    <2>1. panel'.repo = panel.repo /\ panel'.table = IF again THEN NoTable ELSE panel.table
      BY <1>0, <1>8 DEF Panels, Poll
    <2>2. listing' = IF again THEN Asked ELSE listing  BY <1>8 DEF Poll
    <2> QED  BY <2>1, <2>2 DEF Shows, Asked
  <1>9. CASE \E r \in Repos : \E active \in BOOLEAN : Switch(r, active)
    BY <1>9 DEF Shows, Switch, Fresh, Idle
  <1> QED  BY <1>1, <1>2, <1>3, <1>4, <1>5, <1>6, <1>7, <1>8, <1>9 DEF User, Answers

-----------------------------------------------------------------------------
(* The token.                                                              *)

TokenFrame ==
  /\ panel'.token = panel.token /\ panel'.repo = panel.repo
  /\ (panel'.answered => panel.answered) /\ (panel.resolved => panel'.resolved)
  /\ UNCHANGED <<lookup, saving, tokens>> /\ used'.typed = used.typed

LEMMA TokenKept ==
  ASSUME TypeInv, TokenInv, TokenFrame
  PROVE  TokenInv' /\ KeepsTyped
  <1>1. panel.token \in Nat  BY DEF TypeInv, Panels
  <1> QED  BY <1>1 DEF TokenInv, TokenFrame, KeepsTyped

LEMMA TokenInit == Init => TokenInv
  <1> SUFFICES ASSUME Init PROVE TokenInv  OBVIOUS
  <1>1. used.typed = 0  BY BoundsOf DEF Init, Counters
  <1>2. panel.token = 0 /\ ~panel.answered /\ saving = 0  BY DEF Init, Fresh, None
  <1>3. \A r \in Repos : tokens[r] <= 1  BY DEF Init, Legacy, None
  <1> QED  BY <1>1, <1>2, <1>3, CacheAssumption DEF TokenInv

LEMMA TokenStep == TypeInv /\ TokenInv /\ [Next]_vars => TokenInv' /\ KeepsTyped
  <1> SUFFICES ASSUME TypeInv, TokenInv, [Next]_vars PROVE TokenInv' /\ KeepsTyped  OBVIOUS
  <1>0. panel \in Panels /\ used \in [Counters -> Nat] /\ tokens \in [Repos -> Nat] /\ saving \in Nat
        /\ MaxTyped \in Nat
    BY CacheAssumption DEF TypeInv
  <1>1. CASE Type
    <2>1. used'.typed = used.typed + 1  BY <1>1, UseOf DEF Type, Counters
    <2>2. used.typed < MaxTyped  BY <1>1, BoundsOf DEF Type, MayUse, Bounds
    <2>3. panel' = [panel EXCEPT !.token = used.typed + 2, !.saved = FALSE]
          /\ UNCHANGED <<lookup, saving, tokens>>
      BY <1>1 DEF Type, svars
    <2>4. panel'.token = used.typed + 2 /\ panel'.repo = panel.repo  BY <1>0, <2>3 DEF Panels
    <2>5. (panel'.answered => panel.answered) /\ (panel.resolved => panel'.resolved)
      BY <1>0, <2>3 DEF Panels
    <2>6. used.typed \in Nat /\ panel.token \in Nat  BY <1>0 DEF Counters, Panels
    <2>7. used'.typed <= MaxTyped /\ panel'.token <= used'.typed + 1 /\ saving' <= used'.typed + 1
      BY <1>0, <2>1, <2>2, <2>3, <2>4, <2>6 DEF TokenInv
    <2>8. \A r \in Repos : tokens'[r] <= used'.typed + 1
      BY <1>0, <2>1, <2>3, <2>6 DEF TokenInv
    <2>9. panel'.answered => panel'.resolved /\ lookup' # panel'.repo
      BY <2>3, <2>4, <2>5 DEF TokenInv
    <2>10. KeepsTyped  BY <2>4, <2>6 DEF KeepsTyped, TokenInv
    <2> QED  BY <2>7, <2>8, <2>9, <2>10 DEF TokenInv
  <1>2. CASE Save
    BY <1>0, <1>2 DEF Save, TokenInv, KeepsTyped, Panels
  <1>3. CASE Saved
    <2>1. panel'.token = panel.token /\ panel'.repo = panel.repo /\ UNCHANGED <<lookup, tokens, used>> /\ saving' = 0
      BY <1>0, <1>3 DEF Saved, Panels, svars, None
    <2>2. (panel'.answered => panel.answered) /\ (panel.resolved => panel'.resolved)
      BY <1>0, <1>3 DEF Saved, Panels
    <2>3. used.typed \in Nat /\ panel.token \in Nat  BY <1>0 DEF Counters, Panels
    <2> QED  BY <2>1, <2>2, <2>3 DEF TokenInv, KeepsTyped
  <1>4. CASE Resolved
    <2> DEFINE applies == lookup = panel.repo /\ ~Hidden /\ tokens[lookup] # None
               token == IF applies THEN tokens[lookup] ELSE panel.token
    <2>1. UNCHANGED <<saving, tokens, used>> /\ lookup' = None /\ lookup # None
      BY <1>4 DEF Resolved, svars
    <2>2. panel'.token = token /\ panel'.repo = panel.repo
      BY <1>0, <1>4 DEF Resolved, Panels
    <2>3. (panel'.answered => panel.answered \/ (lookup = panel.repo /\ panel.resolved))
          /\ (panel.resolved => panel'.resolved)
      BY <1>0, <1>4 DEF Resolved, Panels
    <2>4. used.typed \in Nat /\ panel.token \in Nat /\ panel.repo \in Repos /\ None \notin Repos
      BY <1>0, CacheAssumption DEF Counters, Panels
    <2>5. token <= used.typed + 1  BY <2>1, <2>4 DEF TokenInv
    <2>6. panel.answered => token = panel.token  BY DEF TokenInv
    <2> HIDE DEF token
    <2>7. panel'.answered => panel'.resolved /\ lookup' # panel'.repo
      BY <2>1, <2>2, <2>3, <2>4 DEF TokenInv
    <2>8. KeepsTyped  BY <2>2, <2>4, <2>6 DEF KeepsTyped
    <2> QED  BY <2>1, <2>2, <2>4, <2>5, <2>7, <2>8 DEF TokenInv
  <1>5. ASSUME NEW r \in Repos, NEW active \in BOOLEAN, Switch(r, active) PROVE TokenInv' /\ KeepsTyped
    <2>1. used'.typed = used.typed  BY <1>5, UseOf DEF Switch, Counters
    <2>2. panel'.token = 0 /\ ~panel'.answered /\ panel'.repo = r /\ r # panel.repo
          /\ UNCHANGED <<saving, tokens>>
      BY <1>5 DEF Switch, Fresh, None, svars
    <2>3. used.typed \in Nat  BY <1>0 DEF Counters
    <2> QED  BY <2>1, <2>2, <2>3 DEF TokenInv, KeepsTyped
  <1>6. CASE Tab
    <2> DEFINE ask == ~panel.active /\ ~panel.resolved
    <2>1. used'.typed = used.typed  BY <1>6, UseOf DEF Tab, Counters
    <2>2. /\ panel' = [panel EXCEPT !.active = ~@, !.resolved = @ \/ ask]
          /\ lookup' = (IF ask THEN panel.repo ELSE lookup) /\ UNCHANGED <<saving, tokens>>
      BY <1>6 DEF Tab, svars
    <2>3. panel'.token = panel.token /\ panel'.repo = panel.repo  BY <1>0, <2>2 DEF Panels
    <2>4. (panel'.answered => panel.answered) /\ (panel.resolved => panel'.resolved)
      BY <1>0, <2>2 DEF Panels
    <2>5. panel.answered => lookup' = lookup  BY <2>2 DEF TokenInv
    <2>6. used.typed \in Nat /\ panel.token \in Nat  BY <1>0 DEF Counters, Panels
    <2> QED  BY <2>1, <2>2, <2>3, <2>4, <2>5, <2>6 DEF TokenInv, KeepsTyped
  <1>7. CASE OpenDialog \/ CancelDialog \/ InstallationsLoad \/ ListServed \/ Listed \/ Poll
             \/ \E c \in clears : ClearServed(c) \/ ClearAnswered(c)
    <2>1. UNCHANGED <<lookup, saving, tokens, used>>
      BY <1>7 DEF OpenDialog, CancelDialog, InstallationsLoad, ListServed, Listed, Poll, ClearServed,
                  ClearAnswered, svars
    <2>2. panel'.token = panel.token /\ panel'.repo = panel.repo
      BY <1>0, <1>7 DEF Panels, OpenDialog, CancelDialog, InstallationsLoad, ListServed, Listed, Poll,
                        ClearServed, ClearAnswered
    <2>3. (panel'.answered => panel.answered) /\ (panel.resolved => panel'.resolved)
      BY <1>0, <1>7 DEF Panels, OpenDialog, CancelDialog, InstallationsLoad, ListServed, Listed, Poll,
                        ClearServed, ClearAnswered
    <2> QED  BY <2>1, <2>2, <2>3, TokenKept DEF TokenFrame
  <1>8. CASE LoadCaches \/ Confirm \/ DryRun \/ ListFails \/ PollFails \/ \E c \in clears : ClearFails(c)
    <2>1. UNCHANGED <<lookup, saving, tokens>>
      BY <1>8 DEF LoadCaches, Confirm, DryRun, ListFails, PollFails, ClearFails, svars
    <2>2. panel'.token = panel.token /\ panel'.repo = panel.repo
      BY <1>0, <1>8 DEF Panels, LoadCaches, Confirm, DryRun, ListFails, PollFails, ClearFails
    <2>3. (panel'.answered => panel.answered) /\ (panel.resolved => panel'.resolved)
      BY <1>0, <1>8 DEF Panels, LoadCaches, Confirm, DryRun, ListFails, PollFails, ClearFails
    <2>4. \E what \in {"lists", "clears", "faults", "pollFails"} : Use(what)
      BY <1>8 DEF LoadCaches, Confirm, DryRun, ListFails, PollFails, ClearFails
    <2>5. used'.typed = used.typed  BY <2>4, UseOf DEF Counters
    <2> QED  BY <2>1, <2>2, <2>3, <2>5, TokenKept DEF TokenFrame
  <1>9. CASE Worker
    <2>1. PICK j \in DOMAIN jobs : \E new \in Jobs : Step(j, new)  BY <1>9, WorkerOf DEF Worker
    <2>2. UNCHANGED <<pvars, tokens>> /\ used'.typed = used.typed  BY <2>1 DEF Step, Counters
    <2> QED  BY <2>2, TokenKept DEF TokenFrame, pvars
  <1>10. CASE CI
    <2>1. UNCHANGED <<pvars, tokens>> /\ \E what \in {"adds", "touches", "evictions"} : Use(what)
      BY <1>10 DEF CI, Add, Touch, Evict
    <2>2. used'.typed = used.typed  BY <2>1, UseOf DEF Counters
    <2> QED  BY <2>1, <2>2, TokenKept DEF TokenFrame, pvars
  <1>11. CASE UNCHANGED vars
    BY <1>11, TokenKept DEF TokenFrame, vars, pvars, svars
  <1> QED
    BY <1>1, <1>2, <1>3, <1>4, <1>5, <1>6, <1>7, <1>8, <1>9, <1>10, <1>11 DEF Next, User, Answers

-----------------------------------------------------------------------------
(* The lists of GitHub.                                                    *)

(* An entry has one place, in one list.                                    *)
Places(lists) ==
  \A q, r \in Repos : \A i \in DOMAIN lists[q], k \in DOMAIN lists[r] :
    lists[q][i] = lists[r][k] => q = r /\ i = k

LEMMA RangeOf ==
  ASSUME NEW list \in Seq(Ids), NEW e
  PROVE  e \in Range(list) <=> \E i \in DOMAIN list : list[i] = e
  BY DEF Range

(* One list loses entries or moves them about.                             *)
LEMMA PlacesLess ==
  ASSUME NEW lists \in [Repos -> Seq(Ids)], Places(lists), NEW r \in Repos, NEW list \in Seq(Ids),
         Range(list) \subseteq Range(lists[r]),
         \A i, k \in DOMAIN list : list[i] = list[k] => i = k
  PROVE  Places([lists EXCEPT ![r] = list])
  <1> DEFINE after == [lists EXCEPT ![r] = list]
  <1>1. after[r] = list /\ \A q \in Repos : q # r => after[q] = lists[q]  OBVIOUS
  <1> HIDE DEF after
  <1>2. \A i \in DOMAIN list : \E k \in DOMAIN lists[r] : lists[r][k] = list[i]
    BY RangeOf
  <1>3. SUFFICES ASSUME NEW p \in Repos, NEW q \in Repos, NEW i \in DOMAIN after[p], NEW k \in DOMAIN after[q],
                        after[p][i] = after[q][k]
                 PROVE  p = q /\ i = k
    BY DEF Places, after
  <1>4. CASE p = r /\ q = r  BY <1>1, <1>3, <1>4
  <1>5. CASE p = r /\ q # r
    BY <1>1, <1>2, <1>3, <1>5 DEF Places
  <1>6. CASE p # r /\ q = r
    BY <1>1, <1>2, <1>3, <1>6 DEF Places
  <1>7. CASE p # r /\ q # r
    BY <1>1, <1>3, <1>7 DEF Places
  <1> QED  BY <1>4, <1>5, <1>6, <1>7

(* What GitHub does to its lists in a step: an entry goes, moves or is new. *)
Shrinks ==
  /\ Places(caches') /\ used'.adds = used.adds
  /\ \A r \in Repos : Range(caches'[r]) \subseteq Range(caches[r])

Grows(r) ==
  /\ Places(caches') /\ used'.adds = used.adds + 1
  /\ caches'[r] = <<FirstAdded + used.adds>> \o caches[r]
  /\ Range(caches'[r]) = {FirstAdded + used.adds} \cup Range(caches[r])
  /\ \A q \in Repos : q # r => caches'[q] = caches[q]

LEMMA LosesOne ==
  ASSUME TypeInv, Places(caches), NEW r \in Repos, NEW id, caches' = [caches EXCEPT ![r] = Without(@, id)]
  PROVE  /\ Places(caches') /\ Range(caches'[r]) = Range(caches[r]) \ {id}
         /\ \A q \in Repos : q # r => caches'[q] = caches[q]
         /\ \A q \in Repos : Range(caches'[q]) \subseteq Range(caches[q])
  <1>1. caches \in [Repos -> Seq(Ids)] /\ caches[r] \in Seq(Ids)  BY DEF TypeInv
  <1>2. \A i, k \in DOMAIN caches[r] : caches[r][i] = caches[r][k] => i = k  BY DEF Places
  <1> DEFINE list == Without(caches[r], id)
  <1>3. /\ list \in Seq(Ids) /\ Range(list) = Range(caches[r]) \ {id}
        /\ \A i, k \in DOMAIN list : list[i] = list[k] => i = k
    BY <1>1, <1>2, WithoutOf
  <1>4. caches' = [caches EXCEPT ![r] = list]  OBVIOUS
  <1> HIDE DEF list
  <1>a. Range(list) \subseteq Range(caches[r])  BY <1>3
  <1>5. Places([caches EXCEPT ![r] = list])  BY <1>1, <1>3, <1>a, PlacesLess
  <1>6. caches'[r] = list /\ \A q \in Repos : q # r => caches'[q] = caches[q]  BY <1>1, <1>4
  <1> QED  BY <1>3, <1>4, <1>5, <1>6

LEMMA ShrinksWorker ==
  ASSUME TypeInv, GitInv, NEW j \in DOMAIN jobs, NEW new \in Jobs, Step(j, new)
  PROVE  Shrinks
  <1>1. used'.adds = used.adds  BY DEF Step, Counters
  <1>2. Places(caches)  BY DEF GitInv, Places
  <1>3. CASE caches' = caches  BY <1>1, <1>2, <1>3 DEF Shrinks
  <1>4. CASE Deleting(j, new)
    <2>1. jobs[j].repo \in Repos  BY JobOf DEF Jobs
    <2> QED  BY <1>1, <1>2, <1>4, <2>1, LosesOne DEF Shrinks, Deleting
  <1> QED  BY <1>3, <1>4 DEF Step

LEMMA NewIsFirst ==
  ASSUME TypeInv, GitInv, NEW r \in Repos, Add(r)
  PROVE  Grows(r)
  <1> DEFINE id == FirstAdded + used.adds
             list == <<id>> \o caches[r]
  <1>1. used.adds \in Nat /\ used'.adds = used.adds + 1  BY UseOf DEF TypeInv, Counters, Add
  <1>2. id \in Ids  BY <1>1 DEF FirstAdded, Ids, None
  <1>3. caches' = [caches EXCEPT ![r] = list]  BY DEF Add
  <1>4. caches \in [Repos -> Seq(Ids)] /\ caches[r] \in Seq(Ids)  BY DEF TypeInv
  <1>5. /\ list \in Seq(Ids) /\ list[1] = id /\ Range(list) = {id} \cup Range(caches[r])
        /\ \A i \in DOMAIN list : i = 1 \/ (i - 1 \in DOMAIN caches[r] /\ list[i] = caches[r][i - 1])
    BY <1>2, <1>4, PrependOf
  <1>6. caches'[r] = list /\ \A q \in Repos : q # r => caches'[q] = caches[q]
    BY <1>3, <1>4
  <1>7. \A q \in Repos : id \notin Range(caches[q])
    BY <1>1 DEF GitInv, Remaining, Known, FirstAdded
  <1> HIDE DEF list, id
  <1>8. \A i, k \in DOMAIN list : list[i] = list[k] => i = k
    <2> SUFFICES ASSUME NEW i \in DOMAIN list, NEW k \in DOMAIN list, list[i] = list[k] PROVE i = k
      OBVIOUS
    <2>1. \A n \in DOMAIN caches[r] : caches[r][n] # id  BY <1>4, <1>7, RangeOf
    <2>2. CASE i = 1 \/ k = 1  BY <1>5, <2>1, <2>2
    <2>3. CASE i # 1 /\ k # 1
      <3>1. i - 1 = k - 1  BY <1>5, <2>3 DEF GitInv
      <3>2. i \in Int /\ k \in Int  BY <1>5
      <3> QED  BY <3>1, <3>2
    <2> QED  BY <2>2, <2>3
  <1>9. Places(caches')
    <2> SUFFICES ASSUME NEW p \in Repos, NEW q \in Repos, NEW i \in DOMAIN caches'[p], NEW k \in DOMAIN caches'[q],
                        caches'[p][i] = caches'[q][k]
                 PROVE  p = q /\ i = k
      BY DEF Places
    <2>1. \A s \in Repos : s # r => \A n \in DOMAIN list, m \in DOMAIN caches[s] : list[n] # caches[s][m]
      <3> SUFFICES ASSUME NEW s \in Repos, s # r, NEW n \in DOMAIN list, NEW m \in DOMAIN caches[s],
                          list[n] = caches[s][m]
                   PROVE  FALSE
        OBVIOUS
      <3>1. list[n] # id
        <4>1. caches[s] \in Seq(Ids) /\ caches[s][m] \in Range(caches[s])  BY <1>4, RangeOf
        <4> QED  BY <1>7, <4>1
      <3>2. n - 1 \in DOMAIN caches[r] /\ list[n] = caches[r][n - 1]  BY <1>5, <3>1
      <3>3. caches[s][m] = caches[r][n - 1]  BY <3>2
      <3> QED  BY <3>2, <3>3 DEF GitInv
    <2>2. CASE p = r /\ q = r  BY <1>6, <1>8, <2>2
    <2>3. CASE p = r /\ q # r  BY <1>6, <2>1, <2>3
    <2>4. CASE p # r /\ q = r  BY <1>6, <2>1, <2>4
    <2>5. CASE p # r /\ q # r  BY <1>6, <2>5 DEF GitInv
    <2> QED  BY <2>2, <2>3, <2>4, <2>5
  <1> QED  BY <1>1, <1>5, <1>6, <1>9 DEF Grows, id, list

LEMMA ShrinksCI ==
  ASSUME TypeInv, GitInv, NEW r \in Repos, Touch(r) \/ Evict(r)
  PROVE  Shrinks
  <1>1. used'.adds = used.adds  BY UseOf DEF Touch, Evict, Counters
  <1>2. Places(caches)  BY DEF GitInv, Places
  <1>3. CASE Evict(r)  BY <1>1, <1>2, <1>3, LosesOne DEF Evict, Shrinks
  <1>4. CASE Touch(r)
    <2>1. PICK id \in Remaining(r) : caches' = [caches EXCEPT ![r] = <<id>> \o Without(@, id)]
      BY <1>4 DEF Touch
    <2> DEFINE rest == Without(caches[r], id)
               list == <<id>> \o rest
    <2>2. caches \in [Repos -> Seq(Ids)] /\ caches[r] \in Seq(Ids) /\ id \in Range(caches[r]) /\ id \in Ids
      BY RemainingOf DEF TypeInv, Remaining
    <2>3. \A i, k \in DOMAIN caches[r] : caches[r][i] = caches[r][k] => i = k  BY <1>2 DEF Places
    <2>4. /\ rest \in Seq(Ids) /\ Range(rest) = Range(caches[r]) \ {id}
          /\ \A i, k \in DOMAIN rest : rest[i] = rest[k] => i = k
      BY <2>2, <2>3, WithoutOf
    <2> HIDE DEF rest
    <2>5. /\ list \in Seq(Ids) /\ list[1] = id /\ Range(list) = {id} \cup Range(rest)
          /\ \A i \in DOMAIN list : i = 1 \/ (i - 1 \in DOMAIN rest /\ list[i] = rest[i - 1])
      BY <2>2, <2>4, PrependOf
    <2>6. caches' = [caches EXCEPT ![r] = list]  BY <2>1 DEF rest
    <2> HIDE DEF list
    <2>7. \A i, k \in DOMAIN list : list[i] = list[k] => i = k
      <3> SUFFICES ASSUME NEW i \in DOMAIN list, NEW k \in DOMAIN list, list[i] = list[k] PROVE i = k
        OBVIOUS
      <3>1. \A n \in DOMAIN rest : rest[n] # id
        <4>1. \A n \in DOMAIN rest : rest[n] \in Range(rest)  BY <2>4, RangeOf
        <4> QED  BY <2>4, <4>1
      <3>2. CASE i = 1 \/ k = 1  BY <2>5, <3>1, <3>2
      <3>3. CASE i # 1 /\ k # 1
        <4>1. i - 1 = k - 1  BY <2>4, <2>5, <3>3
        <4>2. i \in Int /\ k \in Int  BY <2>5
        <4> QED  BY <4>1, <4>2
      <3> QED  BY <3>2, <3>3
    <2>8. Range(list) \subseteq Range(caches[r])  BY <2>2, <2>4, <2>5
    <2>9. Places(caches')  BY <1>2, <2>2, <2>5, <2>6, <2>7, <2>8, PlacesLess
    <2>10. caches'[r] = list /\ \A q \in Repos : q # r => caches'[q] = caches[q]  BY <2>2, <2>6
    <2> QED  BY <1>1, <2>8, <2>9, <2>10 DEF Shrinks
  <1> QED  BY <1>3, <1>4

LEMMA GitInit == Init => GitInv
  <1> SUFFICES ASSUME Init PROVE GitInv  OBVIOUS
  <1>1. used.adds = 0  BY BoundsOf DEF Init, Counters
  <1>2. caches = Cached /\ panel.table = {0} /\ listing.got = {}
    BY DEF Init, Fresh, NoTable, None, Idle
  <1>3. TypeInv  BY TypeInit
  <1>4. \A r \in Repos : Range(caches[r]) \subseteq 1 .. FirstAdded - 1
    <2> SUFFICES ASSUME NEW r \in Repos PROVE Range(caches[r]) \subseteq 1 .. FirstAdded - 1
      OBVIOUS
    <2> DEFINE first == 1 .. FirstAdded - 1
    <2>1. caches[r] \in Seq(first)  BY <1>2, CacheAssumption
    <2> HIDE DEF first
    <2>2. Range(caches[r]) \subseteq first  BY <2>1 DEF Range
    <2> QED  BY <2>2 DEF first
  <1>5. Places(caches)  BY <1>2, CacheAssumption DEF Places
  <1> QED  BY <1>1, <1>2, <1>4, <1>5 DEF GitInv, Places, Remaining, Known, FirstAdded

LEMMA GitStep == TypeInv /\ GitInv /\ [Next]_vars => GitInv'
  <1> SUFFICES ASSUME TypeInv, GitInv, [Next]_vars PROVE GitInv'  OBVIOUS
  <1>0. used.adds \in Nat /\ panel.repo \in Repos  BY DEF TypeInv, Counters, Panels
  <1>a. Places(caches) /\ \A r \in Repos : Range(caches[r]) \subseteq Known
    BY DEF GitInv, Places, Remaining
  <1>b. /\ panel.table \subseteq Known /\ listing.got \subseteq Known
        /\ \A r \in Repos : r # panel.repo =>
             panel.table \cap Range(caches[r]) = {} /\ listing.got \cap Range(caches[r]) = {}
    BY DEF GitInv, Remaining
  <1>1. CASE User \/ Answers
    <2>1. caches' = caches /\ used'.adds = used.adds  BY <1>1, PanelFrame
    <2>2. Shows  BY <1>1, ShowsOf
    <2>3. NoTable \subseteq Known /\ \A r \in Repos : NoTable \cap Range(caches[r]) = {}
      <3>1. \A r \in Repos : Range(caches[r]) \subseteq Ids  BY RemainingOf DEF Remaining
      <3> QED  BY <1>0, <3>1 DEF NoTable, Known, Ids, None, FirstAdded
    <2>4. CASE panel'.repo = panel.repo /\ panel'.table \in {panel.table, NoTable, listing.got}
               /\ listing'.got \in {listing.got, {}, Remaining(panel.repo)}
      <3>1. Remaining(panel.repo) \subseteq Known  BY <1>0, <1>a DEF Remaining
      <3>2. \A r \in Repos : r # panel.repo => Remaining(panel.repo) \cap Range(caches[r]) = {}
        BY <1>0, <1>a DEF Remaining, Places, Range
      <3>3. panel'.table \subseteq Known /\ listing'.got \subseteq Known
        BY <1>b, <2>3, <2>4, <3>1
      <3>4. \A r \in Repos : r # panel.repo =>
              panel'.table \cap Range(caches[r]) = {} /\ listing'.got \cap Range(caches[r]) = {}
        BY <1>b, <2>3, <2>4, <3>2
      <3> QED  BY <1>a, <2>1, <2>4, <3>3, <3>4 DEF GitInv, Places, Remaining, Known
    <2>5. CASE panel'.repo \in Repos /\ panel'.table = NoTable /\ listing'.got = {}
      BY <1>a, <2>1, <2>3, <2>5 DEF GitInv, Places, Remaining, Known
    <2> QED  BY <2>2, <2>4, <2>5 DEF Shows
  <1>2. CASE UNCHANGED vars
    BY <1>2 DEF GitInv, Remaining, Known, vars, pvars, svars
  <1>3. ASSUME Shrinks, UNCHANGED pvars PROVE GitInv'
    <2>1. \A r \in Repos : Range(caches'[r]) \subseteq Known  BY <1>3, <1>a DEF Shrinks
    <2>2. \A r \in Repos : r # panel.repo =>
            panel.table \cap Range(caches'[r]) = {} /\ listing.got \cap Range(caches'[r]) = {}
      BY <1>3, <1>b DEF Shrinks
    <2>3. panel' = panel /\ listing' = listing  BY <1>3 DEF pvars
    <2> QED  BY <1>3, <1>b, <2>1, <2>2, <2>3 DEF GitInv, Remaining, Known, Shrinks, Places
  <1>4. CASE Worker
    <2>1. PICK j \in DOMAIN jobs : \E new \in Jobs : Step(j, new)  BY <1>4, WorkerOf DEF Worker
    <2> QED  BY <1>3, <2>1, ShrinksWorker DEF Step
  <1>5. CASE CI
    <2>1. PICK r \in Repos : Add(r) \/ Touch(r) \/ Evict(r)  BY <1>5 DEF CI
    <2>2. UNCHANGED pvars  BY <2>1 DEF Add, Touch, Evict
    <2>3. CASE Add(r)
      <3> DEFINE id == FirstAdded + used.adds
      <3>1. Grows(r)  BY <2>3, NewIsFirst
      <3>2. id \notin Known  BY <1>0 DEF Known, FirstAdded
      <3>3. Known \cup {id} = 0 .. FirstAdded + used'.adds - 1  BY <1>0, <3>1 DEF Known, Grows, FirstAdded
      <3>4. \A q \in Repos : Range(caches'[q]) \subseteq Range(caches[q]) \cup {id}  BY <3>1 DEF Grows
      <3> HIDE DEF id
      <3>5. \A q \in Repos : Range(caches'[q]) \subseteq Known \cup {id}  BY <1>a, <3>4
      <3>6. \A q \in Repos : q # panel.repo =>
              panel.table \cap Range(caches'[q]) = {} /\ listing.got \cap Range(caches'[q]) = {}
        BY <1>b, <3>2, <3>4
      <3>7. panel' = panel /\ listing' = listing  BY <2>2 DEF pvars
      <3>8. Places(caches') BY <3>1 DEF Grows
      <3>9. Known' = Known \cup {id}  BY <3>3 DEF Known
      <3> QED  BY <1>b, <3>5, <3>6, <3>7, <3>8, <3>9 DEF GitInv, Remaining, Places
    <2>4. CASE Touch(r) \/ Evict(r)  BY <1>3, <2>2, <2>4, ShrinksCI
    <2> QED  BY <2>1, <2>3, <2>4
  <1> QED  BY <1>1, <1>2, <1>4, <1>5 DEF Next

-----------------------------------------------------------------------------
(* The jobs.                                                               *)

LEMMA JobInit == Init => JobInv
  BY DEF Init, JobInv

LEMMA FineKept ==
  ASSUME TypeInv, GitInv, NEW j \in DOMAIN jobs, Fine(jobs[j], Known, caches),
         Shrinks \/ \E r \in Repos : Grows(r)
  PROVE  Fine(jobs[j], Known', caches')
  <1> DEFINE job == jobs[j]
  <1>1. job \in Jobs /\ job.repo \in Repos  BY JobOf DEF Jobs
  <1>2. used.adds \in Nat  BY DEF TypeInv, Counters
  <1> HIDE DEF job
  <1>3. CASE Shrinks
    <2>1. Known' = Known /\ Range(caches'[job.repo]) \subseteq Range(caches[job.repo])
      BY <1>1, <1>3 DEF Shrinks, Known
    <2>2. Fine(job, Known, caches)  BY DEF job
    <2>3. job.removed \cap Range(caches'[job.repo]) = {}  BY <2>1, <2>2 DEF Fine
    <2>4. Fine(job, Known', caches')  BY <2>1, <2>2, <2>3 DEF Fine
    <2> QED  BY <2>4 DEF job
  <1>4. ASSUME NEW r \in Repos, Grows(r) PROVE Fine(job, Known', caches')
    <2>1. FirstAdded + used.adds \notin Known /\ Known \subseteq Known'
      BY <1>2, <1>4 DEF Known, Grows, FirstAdded
    <2>2. Range(caches'[job.repo]) \subseteq Range(caches[job.repo]) \cup {FirstAdded + used.adds}
      BY <1>1, <1>4 DEF Grows
    <2>3. Fine(job, Known, caches)  BY DEF job
    <2> DEFINE id == FirstAdded + used.adds
    <2> HIDE DEF id
    <2>4. id \notin Known /\ Range(caches'[job.repo]) \subseteq Range(caches[job.repo]) \cup {id}
      BY <2>1, <2>2 DEF id
    <2>5. job.removed \cap Range(caches'[job.repo]) = {}
      BY <2>3, <2>4 DEF Fine
    <2>6. job.before \subseteq Known' /\ job.removed \subseteq Known'  BY <2>1, <2>3 DEF Fine
    <2> QED  BY <2>3, <2>5, <2>6 DEF Fine
  <1> QED  BY <1>3, <1>4 DEF job

LEMMA FineStep ==
  ASSUME TypeInv, GitInv, NEW j \in DOMAIN jobs, Fine(jobs[j], Known, caches), NEW new \in Jobs, Step(j, new)
  PROVE  Fine(new, Known', caches')
  <1> DEFINE job == jobs[j]
             id == Head(job.ids)
  <1>1. job \in Jobs /\ job.repo \in Repos  BY JobOf DEF Jobs
  <1>2. Shrinks  BY ShrinksWorker
  <1>3. Known' = Known  BY <1>2 DEF Shrinks, Known
  <1>4. Remaining(job.repo) \subseteq Known /\ Remaining(job.repo) \subseteq Ids
    BY <1>1, RemainingOf DEF GitInv
  <1>5. Retries(new) /\ Lists(new) /\ Targets(new)  BY DEF Fine, Step
  <1>6. new.before \subseteq Known  BY <1>4 DEF Fine, Step
  <1>7. new.repo = job.repo /\ new.target = job.target  BY DEF Step
  <1>8. CASE caches' = caches /\ new.removed = job.removed /\ ~Deleting(j, new)
    <2>1. new.deleted = 0 \/ new.deleted = job.deleted  BY <1>8 DEF Step, Counting
    <2>2. Cardinality(new.removed) \in Nat  BY <1>8, FS_CardinalityType DEF Fine
    <2>3. new.deleted <= Cardinality(new.removed)  BY <1>8, <2>1, <2>2 DEF Fine
    <2> QED  BY <1>3, <1>5, <1>6, <1>7, <1>8, <2>3 DEF Fine
  <1>9. CASE Deleting(j, new)
    <2> DEFINE there == {id} \cap Remaining(job.repo)
    <2>1. new.removed = job.removed \cup there  BY <1>9 DEF Deleting
    <2>2. Range(caches'[job.repo]) = Remaining(job.repo) \ {id}
      <3>1. Places(caches)  BY DEF GitInv, Places
      <3> QED  BY <1>1, <1>9, <3>1, LosesOne DEF Deleting, Remaining
    <2>3. there \subseteq Known /\ None \notin there  BY <1>4 DEF Ids
    <2>4. job.target # All => there \subseteq {job.target}
      <3> SUFFICES ASSUME job.target # All PROVE id = job.target  OBVIOUS
      <3>1. job.ids \in Seq(Nat) /\ job.ids # <<>>  BY <1>1, <1>9 DEF Jobs, Deleting
      <3>2. 1 \in DOMAIN job.ids /\ id = job.ids[1]  BY <3>1
      <3> QED  BY <3>2 DEF Fine, Targets
    <2>5. job.removed \cap Remaining(job.repo) = {}  BY DEF Fine, Remaining
    <2>6. IsFiniteSet(new.removed) /\ new.deleted <= Cardinality(new.removed)
      <3>1. IsFiniteSet(job.removed) /\ Cardinality(job.removed) \in Nat /\ job.deleted <= Cardinality(job.removed)
            /\ job.deleted \in Nat
        BY <1>1, FS_CardinalityType DEF Fine, Jobs
      <3>2. CASE id \in Remaining(job.repo)
        <4>1. new.removed = job.removed \cup {id} /\ id \notin job.removed  BY <2>1, <2>5, <3>2
        <4>2. IsFiniteSet(new.removed) /\ Cardinality(new.removed) = Cardinality(job.removed) + 1
          BY <3>1, <4>1, FS_AddElement
        <4>3. new.deleted = 0 \/ new.deleted = job.deleted \/ new.deleted = job.deleted + 1
          BY DEF Step, Counting
        <4> QED  BY <3>1, <4>2, <4>3
      <3>3. CASE id \notin Remaining(job.repo)
        <4>1. new.removed = job.removed  BY <2>1, <3>3
        <4>2. new.deleted = 0 \/ new.deleted = job.deleted  BY <3>3 DEF Step, Counting
        <4> QED  BY <3>1, <4>1, <4>2
      <3> QED  BY <3>2, <3>3
    <2> HIDE DEF there, id, job
    <2>7. new.removed \cap Range(caches'[new.repo]) = {}
      <3>1. there \subseteq {id}  BY DEF there
      <3> QED  BY <1>7, <2>1, <2>2, <2>5, <3>1
    <2>8. new.removed \subseteq Known /\ None \notin new.removed
          /\ (new.target # All => new.removed \subseteq {new.target})
      <3>1. Fine(job, Known, caches)  BY DEF job
      <3> QED  BY <1>7, <2>1, <2>3, <2>4, <3>1 DEF Fine
    <2> QED  BY <1>3, <1>5, <1>6, <2>6, <2>7, <2>8 DEF Fine
  <1> QED  BY <1>8, <1>9 DEF Step

LEMMA JobStep == TypeInv /\ GitInv /\ JobInv /\ [Next]_vars => JobInv'
  <1> SUFFICES ASSUME TypeInv, GitInv, JobInv, [Next]_vars PROVE JobInv'  OBVIOUS
  <1>1. CASE User \/ Answers
    <2>1. caches' = caches /\ Known' = Known  BY <1>1, PanelFrame DEF Known
    <2>2. CASE jobs' = jobs  BY <2>1, <2>2 DEF JobInv
    <2>3. ASSUME NEW c \in clears, ClearServed(c) PROVE JobInv'
      <3> DEFINE new == Job(c.repo, c.target)
      <3>1. c \in Requests  BY DEF TypeInv
      <3>2. new \in Jobs /\ new.removed = {} /\ new.deleted = 0 /\ new.before = {} /\ new.ids = <<>>
            /\ new.status = "queued" /\ new.retries = 0
        BY <3>1 DEF Requests, Job, Jobs, Statuses
      <3>3. jobs' = Append(jobs, new)  BY <2>3 DEF ClearServed
      <3> HIDE DEF new
      <3>4. Fine(new, Known, caches)
        <4>1. Cardinality({}) = 0 /\ IsFiniteSet({})  BY FS_EmptySet
        <4>2. Retries(new)  BY <3>2, CacheAssumption DEF Retries
        <4>3. Lists(new) /\ Targets(new)  BY <3>2 DEF Lists, Targets
        <4> QED  BY <3>2, <4>1, <4>2, <4>3 DEF Fine
      <3>5. \A j \in DOMAIN jobs' : jobs'[j] = new \/ (j \in DOMAIN jobs /\ jobs'[j] = jobs[j])
        BY <3>2, <3>3 DEF TypeInv
      <3> QED  BY <2>1, <3>4, <3>5 DEF JobInv
    <2> QED  BY <1>1, <2>2, <2>3, PanelFrame
  <1>2. CASE UNCHANGED vars
    BY <1>2 DEF JobInv, Known, vars, pvars, svars
  <1>3. CASE Worker
    <2>1. PICK j \in DOMAIN jobs : \E new \in Jobs : Step(j, new)  BY <1>3, WorkerOf DEF Worker
    <2>2. PICK new \in Jobs : Step(j, new)  BY <2>1
    <2>3. Shrinks  BY <2>2, ShrinksWorker
    <2>4. Fine(new, Known', caches')  BY <2>2, FineStep DEF JobInv
    <2>5. \A i \in DOMAIN jobs : Fine(jobs[i], Known', caches')  BY <2>3, FineKept DEF JobInv
    <2>6. DOMAIN jobs' = DOMAIN jobs /\ jobs'[j] = new /\ \A i \in DOMAIN jobs : i # j => jobs'[i] = jobs[i]
      BY <2>2, SetOf DEF Step
    <2> QED  BY <2>4, <2>5, <2>6 DEF JobInv
  <1>4. CASE CI
    <2>1. PICK r \in Repos : Add(r) \/ Touch(r) \/ Evict(r)  BY <1>4 DEF CI
    <2>2. Shrinks \/ \E q \in Repos : Grows(q)  BY <2>1, NewIsFirst, ShrinksCI
    <2>3. jobs' = jobs  BY <2>1 DEF Add, Touch, Evict
    <2>4. \A i \in DOMAIN jobs : Fine(jobs[i], Known', caches')  BY <2>2, FineKept DEF JobInv
    <2> QED  BY <2>3, <2>4 DEF JobInv
  <1> QED  BY <1>1, <1>2, <1>3, <1>4 DEF Next

-----------------------------------------------------------------------------
(* The panel and its jobs, while it knows of them.                         *)

LEMMA WatchedBefore ==
  ASSUME TypeInv, [Next]_vars, Watched'
  PROVE  /\ Watched
         /\ ~PollFails /\ \A r \in Repos, active \in BOOLEAN : ~Switch(r, active)
  <1>0. used \in [Counters -> Nat]  BY DEF TypeInv
  <1>1. CASE UNCHANGED used
    <2>1. ~PollFails /\ \A r \in Repos, active \in BOOLEAN : ~Switch(r, active)
      <3>1. ~(\E what \in Counters : Use(what))
        <4> SUFFICES ASSUME NEW what \in Counters, Use(what) PROVE FALSE  OBVIOUS
        <4>1. used[what] \in Nat /\ used'[what] = used[what] + 1 /\ used'[what] = used[what]
          BY <1>0, <1>1, UseOf
        <4> QED  BY <4>1
      <3> QED  BY <3>1 DEF PollFails, Switch, Counters
    <2> QED  BY <1>1, <2>1 DEF Watched
  <1>2. ASSUME NEW what \in Counters, Use(what) PROVE Watched /\ what # "pollFails" /\ what # "switches"
    <2>1. used.switches \in Nat /\ used.pollFails \in Nat  BY <1>0 DEF Counters
    <2>2. what # "pollFails" /\ what # "switches"
      BY <1>2, <2>1, UseOf DEF Watched, Counters
    <2>3. used'.switches = used.switches /\ used'.pollFails = used.pollFails
      BY <1>2, <2>2, UseOf DEF Counters
    <2> QED  BY <2>2, <2>3 DEF Watched
  <1>3. ~PollFails /\ \A r \in Repos, active \in BOOLEAN : ~Switch(r, active)
    BY <1>2 DEF PollFails, Switch, Counters
  <1>4. UNCHANGED used \/ \E what \in Counters : Use(what)
    <2>1. CASE User \/ Answers
      BY <2>1 DEF User, Answers, Type, Save, Tab, LoadCaches, OpenDialog, CancelDialog, Confirm, DryRun, Switch,
           Resolved, InstallationsLoad, Saved, ListServed, Listed, ListFails, Poll, PollFails,
           ClearServed, ClearAnswered, ClearFails, Counters
    <2>2. CASE Worker
      BY <2>2 DEF Worker, Work, Take, ReadPage, Delete, Done, Fault, Counters
    <2>3. CASE CI
      BY <2>3 DEF CI, Add, Touch, Evict, Counters
    <2>4. CASE UNCHANGED vars  BY <2>4 DEF vars
    <2> QED  BY <2>1, <2>2, <2>3, <2>4 DEF Next
  <1> QED  BY <1>1, <1>2, <1>3, <1>4

LEMMA PanelInit == Init => PanelInv
  <1> SUFFICES ASSUME Init PROVE PanelInv  OBVIOUS
  <1>1. ~panel.pollError /\ ~panel.confirm /\ panel.jobId = None /\ clears = {} /\ jobs = <<>>
    BY DEF Init, Fresh
  <1> QED  BY <1>1 DEF PanelInv, Waits, Asks, Tracks, Tells, Busy

(* Steps that leave what the panel shows of lists and clears.              *)
PanelFields ==
  /\ panel'.repo = panel.repo /\ panel'.table = panel.table
  /\ panel'.jobId = panel.jobId /\ panel'.seen = panel.seen
  /\ (panel'.confirm => panel.confirm) /\ (panel'.pollError => panel.pollError)

LEMMA PanelKept ==
  ASSUME Waits, Asks, Tracks, Tells, PanelFields, UNCHANGED <<listing, clears, jobs>>
  PROVE  Waits' /\ Asks' /\ Tracks' /\ Tells'
  <1>1. Busy' <=> Busy  BY DEF Busy, PanelFields
  <1>2. Waits'  BY <1>1 DEF Waits, PanelFields
  <1>3. Asks'  BY DEF Asks, PanelFields
  <1>4. Tracks'  BY <1>1 DEF Tracks, PanelFields, Ended
  <1>5. Tells'  BY DEF Tells, PanelFields
  <1> QED  BY <1>2, <1>3, <1>4, <1>5

(* A panel that is not loading has no request, list or job to wait for.    *)
LEMMA NotLoading ==
  ASSUME TypeInv, Waits, Asks, ~Loading
  PROVE  clears = {} /\ listing = Idle /\ ~Busy
  BY DEF Waits, Asks, Loading, ClearPending, JobActive, Busy

LEMMA NoneRemoved ==
  ASSUME TypeInv, JobInv, panel.jobId # None
  PROVE  /\ panel.jobId \in DOMAIN jobs /\ NoTable \cap jobs[panel.jobId].removed = {}
         /\ jobs[panel.jobId].removed \cap Range(caches[jobs[panel.jobId].repo]) = {}
  <1>1. panel.jobId \in DOMAIN jobs  BY DEF TypeInv, None
  <1> QED  BY <1>1 DEF JobInv, Fine, NoTable

LEMMA PanelUser ==
  ASSUME TypeInv, JobInv, Waits, Asks, Tracks, Tells,
         \/ Type \/ Save \/ Tab \/ LoadCaches \/ OpenDialog \/ CancelDialog \/ Confirm \/ DryRun
         \/ Resolved \/ InstallationsLoad \/ Saved \/ ListServed \/ Listed \/ ListFails
  PROVE  Waits' /\ Asks' /\ Tracks' /\ Tells'
  <1>0. panel \in Panels  BY DEF TypeInv
  <1>1. CASE Type \/ Save \/ Tab \/ CancelDialog \/ Resolved \/ InstallationsLoad \/ Saved
    <2>1. UNCHANGED <<listing, clears, jobs>>
      BY <1>1 DEF Type, Save, Tab, CancelDialog, Resolved, InstallationsLoad, Saved, svars
    <2>2. panel'.repo = panel.repo /\ panel'.table = panel.table
          /\ panel'.jobId = panel.jobId /\ panel'.seen = panel.seen
      BY <1>0, <1>1 DEF Panels, Type, Save, Tab, CancelDialog, Resolved, InstallationsLoad, Saved
    <2>3. (panel'.confirm => panel.confirm) /\ (panel'.pollError => panel.pollError)
      BY <1>0, <1>1 DEF Panels, Type, Save, Tab, CancelDialog, Resolved, InstallationsLoad, Saved
    <2> QED  BY <2>1, <2>2, <2>3, PanelKept DEF PanelFields
  <1>2. CASE LoadCaches
    <2>1. ~Loading /\ ~panel.confirm /\ listing' = Asked /\ UNCHANGED <<clears, jobs>>
          /\ panel' = [panel EXCEPT !.table = NoTable]
      BY <1>2 DEF LoadCaches, svars
    <2>2. clears = {} /\ ~Busy  BY <2>1, NotLoading
    <2>3. panel'.repo = panel.repo /\ panel'.table = NoTable
          /\ panel'.jobId = panel.jobId /\ panel'.seen = panel.seen
      BY <1>0, <2>1 DEF Panels
    <2>4. (panel'.confirm => panel.confirm) /\ (panel'.pollError => panel.pollError)
      BY <1>0, <2>1 DEF Panels
    <2>5. ~Busy'  BY <2>2, <2>3 DEF Busy
    <2>6. Waits' /\ Asks'  BY <2>1, <2>2, <2>4, <2>5 DEF Waits, Asks
    <2>7. Tracks'  BY <2>1, <2>2, <2>3 DEF Tracks, Ended
    <2>8. Tells'
      <3>1. Asked.got = {}  BY DEF Asked
      <3> QED  BY <2>1, <2>3, <3>1, NoneRemoved DEF Tells
    <2> QED  BY <2>6, <2>7, <2>8
  <1>3. CASE OpenDialog
    <2>1. ~Loading /\ UNCHANGED <<listing, clears, jobs>>
      BY <1>3 DEF OpenDialog, svars
    <2>2. clears = {} /\ listing = Idle /\ ~Busy  BY <2>1, NotLoading
    <2>3. panel'.repo = panel.repo /\ panel'.table = panel.table
          /\ panel'.jobId = panel.jobId /\ panel'.seen = panel.seen
      BY <1>0, <1>3 DEF Panels, OpenDialog
    <2>4. panel'.pollError => panel.pollError
      BY <1>0, <1>3 DEF Panels, OpenDialog
    <2>5. ~Busy'  BY <2>2, <2>3 DEF Busy
    <2>6. Waits' /\ Asks'  BY <2>1, <2>2, <2>4, <2>5 DEF Waits, Asks
    <2>7. Tracks'  BY <2>1, <2>2, <2>3 DEF Tracks, Ended
    <2>8. Tells'  BY <2>1, <2>3 DEF Tells
    <2> QED  BY <2>6, <2>7, <2>8
  <1>4. CASE Confirm
    <2>1. panel.confirm /\ ~ClearPending /\ clears' = clears \cup {Request(FALSE)}
          /\ UNCHANGED <<panel, listing, jobs>>
      BY <1>4 DEF Confirm, svars
    <2>2. clears = {}  BY <2>1 DEF ClearPending, Asks
    <2>3. listing = Idle /\ ~Busy  BY <2>1 DEF Waits
    <2>4. clears' = {Request(FALSE)} /\ Request(FALSE).repo = panel.repo /\ Request(FALSE).job = None
          /\ ~Request(FALSE).dry /\ Request(FALSE).attached
      BY <2>1, <2>2 DEF Request
    <2>5. ~Busy'  BY <2>1, <2>3 DEF Busy
    <2>6. Waits' /\ Asks'  BY <2>1, <2>3, <2>4, <2>5 DEF Waits, Asks
    <2>7. Tracks'  BY <2>1, <2>2, <2>3 DEF Tracks, Ended
    <2>8. Tells'  BY <2>1 DEF Tells
    <2> QED  BY <2>6, <2>7, <2>8
  <1>5. CASE DryRun
    <2> DEFINE new == [Request(TRUE) EXCEPT !.target = All]
    <2>1. ~Loading /\ ~panel.confirm /\ clears' = clears \cup {new} /\ listing' = Asked
          /\ UNCHANGED jobs /\ panel' = [panel EXCEPT !.target = All, !.table = NoTable]
      BY <1>5 DEF DryRun, svars
    <2>2. clears = {} /\ ~Busy  BY <2>1, NotLoading
    <2>3. panel'.repo = panel.repo /\ panel'.table = NoTable
          /\ panel'.jobId = panel.jobId /\ panel'.seen = panel.seen
      BY <1>0, <2>1 DEF Panels
    <2>4. (panel'.confirm => panel.confirm) /\ (panel'.pollError => panel.pollError)
      BY <1>0, <2>1 DEF Panels
    <2>5. new.repo = panel.repo /\ new.job = None  BY DEF Request
    <2>6. new.dry /\ new.attached  BY DEF Request
    <2>7. clears' = {new}  BY <2>1, <2>2
    <2> HIDE DEF new
    <2>8. ~Busy'  BY <2>2, <2>3 DEF Busy
    <2>9. Waits' /\ Asks'  BY <2>1, <2>3, <2>4, <2>5, <2>6, <2>7, <2>8 DEF Waits, Asks
    <2>10. Tracks'  BY <2>1, <2>2, <2>3 DEF Tracks, Ended
    <2>11. Tells'
      <3>1. Asked.got = {}  BY DEF Asked
      <3> QED  BY <2>1, <2>3, <3>1, NoneRemoved DEF Tells
    <2> QED  BY <2>9, <2>10, <2>11
  <1>6. CASE ListServed
    <2>1. listing.step = "asked" /\ listing'.got = Range(caches[panel.repo]) /\ UNCHANGED <<panel, clears, jobs>>
      BY <1>6 DEF ListServed, svars
    <2>2. listing # Idle  BY <2>1 DEF Idle
    <2>3. ~Busy /\ ~Busy'  BY <2>1, <2>2 DEF Waits, Busy
    <2>4. Waits' /\ Asks'  BY <2>1, <2>2, <2>3 DEF Waits, Asks
    <2>5. Tracks'  BY <2>1, <2>3 DEF Tracks, Ended
    <2>6. Tells'
      <3>1. panel.jobId # None => jobs[panel.jobId].repo = panel.repo  BY NoneRemoved DEF Tracks
      <3> QED  BY <2>1, <3>1, NoneRemoved DEF Tells
    <2> QED  BY <2>4, <2>5, <2>6
  <1>7. CASE Listed \/ ListFails
    <2>1. listing.step # "idle" /\ listing' = Idle /\ UNCHANGED <<clears, jobs>>
      BY <1>7 DEF Listed, ListFails, svars
    <2>2. listing # Idle /\ Idle.got = {}  BY <2>1 DEF Idle
    <2>3. ~Busy  BY <2>2 DEF Waits
    <2>4. panel'.repo = panel.repo /\ panel'.table \in {panel.table, listing.got}
          /\ panel'.jobId = panel.jobId /\ panel'.seen = panel.seen
      BY <1>0, <1>7 DEF Panels, Listed, ListFails
    <2>5. (panel'.confirm => panel.confirm) /\ (panel'.pollError => panel.pollError)
      BY <1>0, <1>7 DEF Panels, Listed, ListFails
    <2>6. ~Busy'  BY <2>3, <2>4 DEF Busy
    <2>7. Waits' /\ Asks'  BY <2>1, <2>2, <2>4, <2>5, <2>6 DEF Waits, Asks
    <2>8. Tracks'  BY <2>1, <2>3, <2>4 DEF Tracks, Ended
    <2>9. Tells'  BY <2>1, <2>2, <2>4 DEF Tells
    <2> QED  BY <2>7, <2>8, <2>9
  <1> QED  BY <1>1, <1>2, <1>3, <1>4, <1>5, <1>6, <1>7

LEMMA PanelPoll ==
  ASSUME TypeInv, JobInv, Waits, Asks, Tracks, Tells, Poll
  PROVE  Waits' /\ Asks' /\ Tracks' /\ Tells'
  <1> DEFINE now == Status(jobs[panel.jobId])
             again == now = "done" /\ panel.table # NoTable
             table == IF again THEN NoTable ELSE panel.table
  <1>0. panel \in Panels  BY DEF TypeInv
  <1>1. panel.jobId # None /\ Busy  BY DEF Poll, Busy
  <1>2. ~panel.confirm /\ clears = {} /\ listing = Idle  BY <1>1 DEF Waits
  <1>3. panel' = [panel EXCEPT !.seen = now, !.pollError = FALSE, !.table = table]
        /\ listing' = (IF again THEN Asked ELSE listing) /\ UNCHANGED <<clears, jobs>>
    BY DEF Poll, svars
  <1>4. jobs[panel.jobId].status \in Statuses /\ panel.jobId \in DOMAIN jobs
    BY <1>1, NoneRemoved, JobOf DEF Jobs
  <1>5. now \in {"done", "failed"} => jobs[panel.jobId].status = now
    BY <1>4 DEF Status, Statuses
  <1>6. again => now = "done"  OBVIOUS
  <1>7. now = "done" => table = NoTable  OBVIOUS
  <1> HIDE DEF now, again, table
  <1>8. panel'.repo = panel.repo /\ panel'.jobId = panel.jobId /\ panel'.seen = now /\ panel'.table = table
    BY <1>0, <1>3 DEF Panels
  <1>9. (panel'.confirm => panel.confirm) /\ ~panel'.pollError
    BY <1>0, <1>3 DEF Panels
  <1>10. Busy' => listing' = Idle  BY <1>2, <1>3, <1>6, <1>8 DEF Busy
  <1>11. Waits' /\ Asks'  BY <1>2, <1>3, <1>9, <1>10 DEF Waits, Asks
  <1>12. Tracks'
    <2> SUFFICES ASSUME NEW j \in DOMAIN jobs
                 PROVE  jobs[j].repo = panel.repo /\ (Ended(j) \/ (Busy' /\ panel.jobId = j))
      BY <1>3, <1>8 DEF Tracks, Ended
    <2>1. jobs[j].repo = panel.repo /\ (Ended(j) \/ panel.jobId = j)  BY <1>2 DEF Tracks
    <2>2. CASE now \in {"done", "failed"}  BY <1>5, <2>1, <2>2 DEF Ended
    <2>3. CASE now \notin {"done", "failed"}  BY <1>1, <1>8, <2>1, <2>3 DEF Busy
    <2> QED  BY <2>2, <2>3
  <1>13. Tells'
    <2>1. listing'.got = {}  BY <1>2, <1>3 DEF Asked, Idle
    <2>2. NoTable \cap jobs[panel.jobId].removed = {}  BY <1>1, NoneRemoved
    <2> QED  BY <1>3, <1>5, <1>7, <1>8, <2>1, <2>2 DEF Tells
  <1> QED  BY <1>11, <1>12, <1>13

LEMMA PanelRequests ==
  ASSUME TypeInv, JobInv, Waits, Asks, Tracks, Tells,
         NEW c \in clears, ClearServed(c) \/ ClearAnswered(c) \/ ClearFails(c)
  PROVE  Waits' /\ Asks' /\ Tracks' /\ Tells'
  <1>0. panel \in Panels /\ Len(jobs) \in Nat /\ DOMAIN jobs = 1 .. Len(jobs)  BY DEF TypeInv
  <1>a. c \in Requests /\ c.job \in 0 .. Len(jobs)  BY DEF TypeInv
  <1>b. c.attached /\ clears = {c} /\ c.repo = panel.repo /\ ~Busy  BY DEF Asks, Waits
  <1>c. (c.dry => ~panel.confirm /\ c.job = None) /\ (~c.dry => listing = Idle)  BY DEF Asks
  <1>1. CASE ClearServed(c)
    <2> DEFINE sent == [c EXCEPT !.job = Len(jobs) + 1]
               new == Job(c.repo, c.target)
    <2>1. ~c.dry /\ c.job = None /\ jobs' = Append(jobs, new) /\ clears' = (clears \ {c}) \cup {sent}
          /\ UNCHANGED <<panel, listing>>
      BY <1>1 DEF ClearServed
    <2>2. sent.attached /\ ~sent.dry  BY <1>a, <1>b, <2>1 DEF Requests
    <2>3. sent.repo = panel.repo /\ sent.job = Len(jobs) + 1  BY <1>a, <1>b DEF Requests
    <2>4. new.repo = panel.repo  BY <1>b DEF Job
    <2> HIDE DEF sent, new
    <2>5. clears' = {sent}  BY <1>b, <2>1
    <2>6. \A j \in DOMAIN jobs' : (j \in DOMAIN jobs /\ jobs'[j] = jobs[j]) \/ (j = Len(jobs) + 1 /\ jobs'[j] = new)
      BY <1>0, <2>1 DEF TypeInv
    <2>7. ~Busy'  BY <1>b, <2>1 DEF Busy
    <2>8. Waits'  BY <2>1, <2>7 DEF Waits
    <2>9. Asks'  BY <1>c, <2>1, <2>2, <2>3, <2>5 DEF Asks
    <2>10. Tracks'
      <3> SUFFICES ASSUME NEW j \in DOMAIN jobs'
                   PROVE  jobs'[j].repo = panel.repo /\ (jobs'[j].status \in {"done", "failed"} \/ sent.job = j)
        BY <2>1, <2>5 DEF Tracks, Ended
      <3>1. CASE j = Len(jobs) + 1 /\ jobs'[j] = new  BY <2>3, <2>4, <3>1
      <3>2. CASE j \in DOMAIN jobs /\ jobs'[j] = jobs[j]
        <4>1. j # None  BY <1>0, <3>2 DEF None
        <4>2. Ended(j) /\ jobs[j].repo = panel.repo  BY <1>b, <2>1, <3>2, <4>1 DEF Tracks
        <4> QED  BY <3>2, <4>2 DEF Ended
      <3> QED  BY <2>6, <3>1, <3>2
    <2>11. Tells'
      <3>1. panel.jobId # None => jobs'[panel.jobId] = jobs[panel.jobId]
        <4>1. panel.jobId # None => panel.jobId \in DOMAIN jobs  BY NoneRemoved
        <4>2. \A j \in DOMAIN jobs : jobs'[j] = jobs[j]  BY <1>0, <2>1 DEF TypeInv
        <4> QED  BY <4>1, <4>2
      <3> QED  BY <2>1, <3>1 DEF Tells
    <2> QED  BY <2>8, <2>9, <2>10, <2>11
  <1>2. CASE ClearFails(c) \/ (ClearAnswered(c) /\ c.dry)
    <2>1. clears' = {} /\ c.job = None /\ UNCHANGED <<listing, jobs>>
      BY <1>b, <1>c, <1>2 DEF ClearAnswered, ClearFails, svars
    <2>2. panel' = [panel EXCEPT !.confirm = FALSE]
      BY <1>0, <1>2 DEF ClearAnswered, ClearFails, Panels
    <2>3. panel'.repo = panel.repo /\ panel'.table = panel.table
          /\ panel'.jobId = panel.jobId /\ panel'.seen = panel.seen
      BY <1>0, <2>2 DEF Panels
    <2>4. ~panel'.confirm /\ (panel'.pollError => panel.pollError)  BY <1>0, <2>2 DEF Panels
    <2>5. ~Busy'  BY <1>b, <2>3 DEF Busy
    <2>6. Waits' /\ Asks'  BY <2>1, <2>4, <2>5 DEF Waits, Asks
    <2>7. Tracks'
      <3>1. \A j \in DOMAIN jobs : j # None  BY <1>0 DEF None
      <3>2. \A j \in DOMAIN jobs : jobs[j].repo = panel.repo /\ Ended(j)  BY <1>b, <2>1, <3>1 DEF Tracks
      <3> QED  BY <2>1, <2>3, <3>2 DEF Tracks, Ended
    <2>8. Tells'  BY <2>1, <2>3 DEF Tells
    <2> QED  BY <2>6, <2>7, <2>8
  <1>3. CASE ClearAnswered(c) /\ ~c.dry
    <2>1. clears' = {} /\ c.job # None /\ UNCHANGED <<listing, jobs>> /\ listing = Idle
      BY <1>b, <1>c, <1>3 DEF ClearAnswered, svars
    <2>2. panel' = [panel EXCEPT !.confirm = FALSE, !.jobId = c.job, !.seen = "none", !.pollError = FALSE]
      BY <1>3 DEF ClearAnswered
    <2>3. panel'.repo = panel.repo /\ panel'.jobId = c.job /\ panel'.seen = "none"
      BY <1>0, <2>2 DEF Panels
    <2>4. ~panel'.confirm /\ ~panel'.pollError  BY <1>0, <2>2 DEF Panels
    <2>5. Busy'  BY <2>1, <2>3 DEF Busy
    <2>6. Waits' /\ Asks'  BY <2>1, <2>4 DEF Waits, Asks
    <2>7. Tracks'
      <3>1. \A j \in DOMAIN jobs : jobs[j].repo = panel.repo /\ (Ended(j) \/ c.job = j)  BY <1>b DEF Tracks
      <3> QED  BY <2>1, <2>3, <2>5, <3>1 DEF Tracks, Ended
    <2>8. Tells'  BY <2>3 DEF Tells
    <2> QED  BY <2>6, <2>7, <2>8
  <1> QED  BY <1>1, <1>2, <1>3

LEMMA PanelStep == TypeInv /\ JobInv /\ PanelInv /\ [Next]_vars => PanelInv'
  <1> SUFFICES ASSUME TypeInv, JobInv, PanelInv, [Next]_vars, Watched' PROVE (Waits /\ Asks /\ Tracks /\ Tells)'
    BY DEF PanelInv
  <1>0. Watched /\ ~PollFails /\ \A r \in Repos, active \in BOOLEAN : ~Switch(r, active)
    BY WatchedBefore
  <1>a. Waits /\ Asks /\ Tracks /\ Tells  BY <1>0 DEF PanelInv
  <1>1. CASE User  BY <1>0, <1>a, <1>1, PanelUser DEF User
  <1>2. CASE Answers  BY <1>0, <1>a, <1>2, PanelUser, PanelPoll, PanelRequests DEF Answers
  <1>3. CASE Worker
    <2>1. PICK j \in DOMAIN jobs : \E new \in Jobs : Step(j, new)  BY <1>3, WorkerOf DEF Worker
    <2>2. PICK new \in Jobs : Step(j, new)  BY <2>1
    <2>3. DOMAIN jobs' = DOMAIN jobs /\ jobs'[j] = new /\ \A i \in DOMAIN jobs : i # j => jobs'[i] = jobs[i]
      BY <2>2, SetOf DEF Step
    <2>4. UNCHANGED <<panel, listing, clears>> /\ ~Ended(j) /\ new.repo = jobs[j].repo
      BY <2>2 DEF Step, pvars, Ended
    <2>5. Busy' <=> Busy  BY <2>4 DEF Busy
    <2>6. Waits' /\ Asks'  BY <1>a, <2>4, <2>5 DEF Waits, Asks
    <2>7. Tracks'
      <3>1. \A i \in DOMAIN jobs : jobs'[i].repo = jobs[i].repo  BY <2>3, <2>4
      <3>2. \A i \in DOMAIN jobs : Ended(i) => jobs'[i] = jobs[i]  BY <2>3, <2>4
      <3> QED  BY <1>a, <2>3, <2>4, <2>5, <3>1, <3>2 DEF Tracks, Ended
    <2>8. Tells'
      <3>1. panel.jobId # None /\ panel.seen \in {"done", "failed"} => jobs'[panel.jobId] = jobs[panel.jobId]
        <4>1. panel.jobId # None => panel.jobId \in DOMAIN jobs  BY NoneRemoved
        <4>2. panel.jobId # None /\ panel.seen \in {"done", "failed"} => panel.jobId # j
          BY <1>a, <2>4 DEF Tells, Ended
        <4> QED  BY <2>3, <4>1, <4>2
      <3> QED  BY <1>a, <2>4, <3>1 DEF Tells
    <2> QED  BY <2>6, <2>7, <2>8
  <1>4. CASE CI
    <2>1. UNCHANGED <<panel, listing, clears, jobs>>  BY <1>4 DEF CI, Add, Touch, Evict, pvars
    <2> QED  BY <1>a, <2>1, PanelKept DEF PanelFields
  <1>5. CASE UNCHANGED vars
    <2>1. UNCHANGED <<panel, listing, clears, jobs>>  BY <1>5 DEF vars, pvars, svars
    <2> QED  BY <1>a, <2>1, PanelKept DEF PanelFields
  <1> QED  BY <1>1, <1>2, <1>3, <1>4, <1>5 DEF Next

(* So one clear runs at most.                                              *)
LEMMA OneRuns ==
  ASSUME TypeInv, PanelInv, Watched
  PROVE  \A i, j \in DOMAIN jobs : ~Ended(i) /\ ~Ended(j) => i = j
  <1> SUFFICES ASSUME NEW i \in DOMAIN jobs, NEW j \in DOMAIN jobs, ~Ended(i), ~Ended(j) PROVE i = j
    OBVIOUS
  <1>1. Waits /\ Asks /\ Tracks  BY DEF PanelInv
  <1>2. CASE Busy  BY <1>1, <1>2 DEF Waits, Tracks
  <1>3. CASE ~Busy
    <2>1. PICK c \in clears : c.job = i  BY <1>1, <1>3 DEF Tracks
    <2>2. PICK d \in clears : d.job = j  BY <1>1, <1>3 DEF Tracks
    <2> QED  BY <1>1, <2>1, <2>2 DEF Asks
  <1> QED  BY <1>2, <1>3

-----------------------------------------------------------------------------
(* What a clear finds, while nothing moves the entries.                    *)

LEMMA UndisturbedBefore ==
  ASSUME TypeInv, [Next]_vars, Undisturbed'
  PROVE  Undisturbed /\ \A r \in Repos : ~Touch(r) /\ ~Evict(r)
  <1>0. used \in [Counters -> Nat] /\ used.touches \in Nat /\ used.evictions \in Nat  BY DEF TypeInv, Counters
  <1>1. Watched  BY WatchedBefore DEF Undisturbed
  <1>2. ASSUME NEW r \in Repos, Touch(r) \/ Evict(r) PROVE FALSE
    <2>1. CASE Touch(r)
      <3>1. used'.touches = used.touches + 1  BY <2>1, UseOf DEF Touch, Counters
      <3> QED  BY <1>0, <3>1 DEF Undisturbed
    <2>2. CASE Evict(r)
      <3>1. used'.evictions = used.evictions + 1  BY <2>2, UseOf DEF Evict, Counters
      <3> QED  BY <1>0, <3>1 DEF Undisturbed
    <2> QED  BY <1>2, <2>1, <2>2
  <1>3. used'.touches = used.touches /\ used'.evictions = used.evictions
    <2>1. CASE User \/ Answers  BY <2>1, PanelFrame
    <2>2. CASE Worker
      <3>1. PICK j \in DOMAIN jobs : \E new \in Jobs : Step(j, new)  BY <2>2, WorkerOf DEF Worker
      <3> QED  BY <3>1 DEF Step, Counters
    <2>3. CASE CI
      <3>1. PICK r \in Repos : Add(r)  BY <1>2, <2>3 DEF CI
      <3> QED  BY <3>1, UseOf DEF Add, Counters
    <2>4. CASE UNCHANGED vars  BY <2>4 DEF vars
    <2> QED  BY <2>1, <2>2, <2>3, <2>4 DEF Next
  <1> QED  BY <1>1, <1>2, <1>3 DEF Undisturbed

LEMMA PagesInit == Init => PagesInv
  BY DEF Init, PagesInv

(* A list that loses entries leaves a clear that ended as it is.           *)
LEMMA PagedEnded ==
  ASSUME NEW job, NEW list, NEW less, Paged(job, list), Range(less) \subseteq Range(list),
         job.status \in {"done", "failed"}
  PROVE  Paged(job, less)
  BY DEF Paged

(* A new first entry moves the others one place on.                        *)
LEMMA PagedGrows ==
  ASSUME TypeInv, GitInv, NEW j \in DOMAIN jobs, Fine(jobs[j], Known, caches), NEW r \in Repos, Grows(r),
         Paged(jobs[j], caches[jobs[j].repo])
  PROVE  Paged(jobs[j], caches'[jobs[j].repo])
  <1> DEFINE job == jobs[j]
             list == caches[r]
             id == FirstAdded + used.adds
  <1>1. job \in Jobs  BY JobOf
  <1>2. CASE job.repo # r  BY <1>1, <1>2 DEF Grows, Jobs
  <1>3. CASE job.repo = r
    <2>1. list \in Seq(Ids) /\ used.adds \in Nat  BY DEF TypeInv, Counters
    <2>2. id \in Ids  BY <2>1 DEF Ids, None, FirstAdded
    <2>3. caches'[r] = <<id>> \o list /\ Range(caches'[r]) = {id} \cup Range(list)  BY DEF Grows
    <2>4. \A i \in DOMAIN list : i + 1 \in DOMAIN caches'[r] /\ caches'[r][i + 1] = list[i]
      BY <2>1, <2>2, <2>3, PrependOf
    <2>5. id \notin job.before
      <3>1. id \notin Known  BY <2>1 DEF Known, FirstAdded
      <3> QED  BY <3>1 DEF Fine
    <2>6. \A e : ToCome(job, list, e) => ToCome(job, caches'[r], e)
      <3> SUFFICES ASSUME NEW e, ToCome(job, list, e) PROVE ToCome(job, caches'[r], e)  OBVIOUS
      <3> DEFINE from == (job.page - 1) * PageSize
      <3>1. PICK i \in DOMAIN list : i > from /\ list[i] = e  BY DEF ToCome
      <3>2. from \in Int  BY <1>1, CacheAssumption DEF Jobs
      <3> HIDE DEF from
      <3>3. i + 1 > from /\ i + 1 \in DOMAIN caches'[r] /\ caches'[r][i + 1] = e
        BY <2>1, <2>4, <3>1, <3>2
      <3> QED  BY <3>3 DEF ToCome, from
    <2>7. Paged(job, list)  BY <1>3
    <2> HIDE DEF id, list, job
    <2>8. \A e \in job.before : e \in Range(caches'[r]) => e \in Range(list)  BY <2>3, <2>5
    <2>9. Paged(job, caches'[r])  BY <2>6, <2>7, <2>8 DEF Paged
    <2> QED  BY <1>3, <2>9 DEF job
  <1> QED  BY <1>2, <1>3

LEMMA PagedTake ==
  ASSUME TypeInv, NEW j \in DOMAIN jobs, Take(j)
  PROVE  Paged(jobs'[j], caches'[jobs[j].repo])
  <1> DEFINE job == jobs[j]
             list == caches[job.repo]
             ids == IF job.target = All THEN <<>> ELSE <<job.target>>
             status == IF job.target = All THEN "listing" ELSE "deleting"
             new == [job EXCEPT !.status = status, !.page = 1, !.ids = ids, !.deleted = 0,
                       !.before = Remaining(job.repo)]
  <1>1. job \in Jobs /\ j \in DOMAIN jobs /\ jobs' = [jobs EXCEPT ![j] = new] /\ caches' = caches
    BY JobOf DEF Take, Set
  <1>2. jobs'[j] = new  BY <1>1
  <1>3. new.target = job.target /\ new.status = status /\ new.page = 1 /\ new.before = Range(list)
    BY <1>1 DEF Jobs, Remaining
  <1>4. list \in Seq(Ids)  BY <1>1 DEF TypeInv, Jobs
  <1>5. job.target = All => status = "listing"  OBVIOUS
  <1> HIDE DEF new, list, status
  <1>6. ASSUME NEW e \in new.before PROVE ToCome(new, list, e)
    <2>1. PICK i \in DOMAIN list : list[i] = e  BY <1>3, <1>4, RangeOf
    <2>2. (new.page - 1) * PageSize = 0  BY <1>3, CacheAssumption
    <2>3. i > 0  BY <1>4
    <2> QED  BY <2>1, <2>2, <2>3 DEF ToCome
  <1>7. Paged(new, list)  BY <1>3, <1>5, <1>6 DEF Paged
  <1> QED  BY <1>1, <1>2, <1>7 DEF list

LEMMA NextPage ==
  ASSUME NEW p \in Nat \ {0}
  PROVE  /\ (p - 1) * PageSize \in Nat
         /\ (p + 1 - 1) * PageSize = (p - 1) * PageSize + PageSize
  <1>1. PageSize \in Nat  BY CacheAssumption
  <1>2. PICK q \in Nat : p = q + 1
    <2>1. p - 1 \in Nat /\ p = (p - 1) + 1  OBVIOUS
    <2> QED  BY <2>1
  <1>3. p - 1 = q /\ p + 1 - 1 = q + 1  BY <1>2
  <1>4. q * PageSize \in Nat /\ (q + 1) * PageSize = q * PageSize + PageSize  BY <1>1
  <1> QED  BY <1>3, <1>4

LEMMA PagedRead ==
  ASSUME TypeInv, NEW j \in DOMAIN jobs, ReadPage(j), Paged(jobs[j], caches[jobs[j].repo])
  PROVE  Paged(jobs'[j], caches'[jobs[j].repo])
  <1> DEFINE job == jobs[j]
             list == caches[job.repo]
             from == (job.page - 1) * PageSize + 1
  <1>1. PICK batch \in Seq(Ids) :
          LET new == [job EXCEPT !.ids = @ \o batch, !.page = @ + 1,
                        !.status = IF Len(batch) < PageSize THEN "deleting" ELSE @]
          IN  /\ new \in Jobs /\ Set(j, new)
              /\ \A k \in 1 .. Len(batch) : from + k - 1 \in DOMAIN list /\ batch[k] = list[from + k - 1]
              /\ \A i \in DOMAIN list : i >= from /\ i < from + PageSize =>
                   i - from + 1 \in 1 .. Len(batch) /\ batch[i - from + 1] = list[i]
              /\ Len(batch) < PageSize => Len(list) < from + PageSize - 1
    BY ReadOf
  <1> DEFINE status == IF Len(batch) < PageSize THEN "deleting" ELSE job.status
             ids == job.ids \o batch
             new == [job EXCEPT !.ids = ids, !.page = @ + 1, !.status = status]
  <1>2. job \in Jobs /\ new \in Jobs /\ Set(j, new)  BY <1>1, JobOf
  <1>3. jobs'[j] = new  BY <1>2, SetOf
  <1>4. job.status = "listing" /\ caches' = caches  BY DEF ReadPage
  <1>5. new.target = job.target /\ new.status = status /\ new.page = job.page + 1
        /\ new.before = job.before /\ new.ids = ids
    BY <1>2 DEF Jobs
  <1>6. list \in Seq(Ids) /\ job.ids \in Seq(Nat) /\ batch \in Seq(Nat)
    <2>1. list \in Seq(Ids) /\ job.ids \in Seq(Nat)  BY <1>2 DEF TypeInv, Jobs
    <2> QED  BY <2>1 DEF Ids
  <1>7. /\ \A i \in DOMAIN job.ids : i \in DOMAIN ids /\ ids[i] = job.ids[i]
        /\ \A k \in 1 .. Len(batch) : Len(job.ids) + k \in DOMAIN ids /\ ids[Len(job.ids) + k] = batch[k]
    BY <1>6
  <1>8. job.page \in Nat \ {0} /\ PageSize \in Nat \ {0}  BY <1>2, CacheAssumption DEF Jobs
  <1>9. from \in Nat /\ (new.page - 1) * PageSize = from - 1 + PageSize
    <2> DEFINE n == (job.page - 1) * PageSize
    <2>1. n \in Nat /\ (job.page + 1 - 1) * PageSize = n + PageSize  BY <1>8, NextPage
    <2>2. from = n + 1  OBVIOUS
    <2> HIDE DEF n, from
    <2> QED  BY <1>5, <1>8, <2>1, <2>2
  <1>10. \A e : ToCome(job, list, e) <=> \E i \in DOMAIN list : i >= from /\ list[i] = e
    <2> DEFINE n == (job.page - 1) * PageSize
    <2>1. n \in Nat  BY <1>8, NextPage
    <2>2. from = n + 1  OBVIOUS
    <2>3. \A e : ToCome(job, list, e) <=> \E i \in DOMAIN list : i > n /\ list[i] = e  BY DEF ToCome
    <2> HIDE DEF n, from
    <2>4. \A i \in DOMAIN list : i > n <=> i >= from  BY <1>6, <2>1, <2>2
    <2> QED  BY <2>3, <2>4
  <1>11. /\ \A i \in DOMAIN list : i >= from /\ i < from + PageSize =>
              i - from + 1 \in 1 .. Len(batch) /\ batch[i - from + 1] = list[i]
         /\ Len(batch) < PageSize => Len(list) < from + PageSize - 1
    BY <1>1
  <1>12. status = "deleting" => Len(batch) < PageSize  BY <1>4
  <1>a. Paged(job, list)  OBVIOUS
  <1> HIDE DEF new, list, status, ids, from, job
  <1>13. ASSUME NEW e, Noted(job, e) PROVE Noted(new, e)
    BY <1>5, <1>7, <1>13 DEF Noted
  <1>14. ASSUME NEW e, ToCome(job, list, e) PROVE Noted(new, e) \/ (ToCome(new, list, e) /\ Len(batch) >= PageSize)
    <2>1. PICK i \in DOMAIN list : i >= from /\ list[i] = e  BY <1>10, <1>14
    <2>2. i \in 1 .. Len(list) /\ Len(list) \in Nat /\ Len(batch) \in Nat  BY <1>6
    <2>3. CASE i < from + PageSize
      <3>1. i - from + 1 \in 1 .. Len(batch) /\ batch[i - from + 1] = e  BY <1>11, <2>1, <2>3
      <3>2. PICK k \in 1 .. Len(batch) : batch[k] = e  BY <3>1
      <3> QED  BY <1>5, <1>7, <3>2 DEF Noted
    <2>4. CASE ~(i < from + PageSize)
      <3>1. i > (new.page - 1) * PageSize  BY <1>8, <1>9, <2>2, <2>4
      <3>2. ToCome(new, list, e)  BY <2>1, <3>1 DEF ToCome
      <3>3. Len(batch) >= PageSize  BY <1>8, <1>9, <1>11, <2>2, <2>4
      <3> QED  BY <3>2, <3>3
    <2> QED  BY <2>3, <2>4
  <1>15. ASSUME job.target = All, NEW e \in job.before
         PROVE  Noted(new, e) \/ (ToCome(new, list, e) /\ Len(batch) >= PageSize)
    BY <1>4, <1>a, <1>13, <1>14, <1>15 DEF Paged
  <1>16. Len(batch) \in Nat /\ status \in {"listing", "deleting"}  BY <1>4, <1>6 DEF status
  <1>17. status = "deleting" => ~(Len(batch) >= PageSize)  BY <1>8, <1>12, <1>16
  <1>18. Paged(new, list)
    BY <1>5, <1>15, <1>16, <1>17 DEF Paged
  <1> QED  BY <1>3, <1>4, <1>18 DEF list, job

LEMMA PagedDelete ==
  ASSUME TypeInv, GitInv, NEW j \in DOMAIN jobs, Delete(j), Paged(jobs[j], caches[jobs[j].repo])
  PROVE  Paged(jobs'[j], caches'[jobs[j].repo])
  <1> DEFINE job == jobs[j]
             list == caches[job.repo]
             id == Head(job.ids)
  <1>1. job \in Jobs /\ job.status = "deleting" /\ job.ids # <<>>
        /\ caches' = [caches EXCEPT ![job.repo] = Without(@, id)]
    BY JobOf DEF Delete
  <1>2. job.repo \in Repos /\ Places(caches)  BY <1>1 DEF Jobs, GitInv, Places
  <1>3. Range(caches'[job.repo]) = Range(list) \ {id}  BY <1>1, <1>2, LosesOne
  <1>4. PICK new \in Jobs : Step(j, new)  BY WorkerOf DEF Work
  <1>5. jobs'[j] = new /\ new.target = job.target  BY <1>4, SetOf DEF Step
  <1>6. CASE job.target # All  BY <1>5, <1>6 DEF Paged
  <1>7. CASE job.target = All
    <2>1. jobs'[j].ids = Tail(job.ids) /\ jobs'[j].status = "deleting" /\ jobs'[j].before = job.before
      BY <1>1, <1>7 DEF Delete, Set, Jobs, TypeInv
    <2>2. job.ids \in Seq(Nat)  BY <1>1 DEF Jobs
    <2>3. /\ id = job.ids[1]
          /\ \A i \in DOMAIN job.ids : i # 1 => i - 1 \in DOMAIN Tail(job.ids) /\ Tail(job.ids)[i - 1] = job.ids[i]
      BY <1>1, <2>2
    <2> HIDE DEF id
    <2>4. ASSUME NEW e \in job.before \cap Range(caches'[job.repo]) PROVE Noted(jobs'[j], e)
      <3>1. e # id /\ e \in Range(list)  BY <1>3, <2>4
      <3>2. Noted(job, e)  BY <1>1, <1>7, <2>4, <3>1 DEF Paged
      <3>3. PICK i \in DOMAIN job.ids : job.ids[i] = e  BY <3>2 DEF Noted
      <3>4. i # 1  BY <2>3, <3>1, <3>3
      <3>5. i - 1 \in DOMAIN Tail(job.ids) /\ Tail(job.ids)[i - 1] = e  BY <2>3, <3>3, <3>4
      <3> QED  BY <2>1, <3>5 DEF Noted
    <2> QED  BY <2>1, <2>4 DEF Paged
  <1> QED  BY <1>6, <1>7

LEMMA PagedWork ==
  ASSUME TypeInv, GitInv, NEW j \in DOMAIN jobs, Work(j) \/ Fault(j), Paged(jobs[j], caches[jobs[j].repo])
  PROVE  Paged(jobs'[j], caches'[jobs[j].repo])
  <1>0. jobs[j] \in Jobs /\ jobs \in Seq(Jobs)  BY JobOf DEF TypeInv
  <1>1. CASE Take(j)  BY <1>1, PagedTake
  <1>2. CASE ReadPage(j)  BY <1>2, PagedRead
  <1>3. CASE Delete(j)  BY <1>3, PagedDelete
  <1>4. CASE Fault(j)
    <2>1. jobs'[j].status \in {"failed", "queued"}
      <3> DEFINE job == jobs[j]
                 more == [job EXCEPT !.removed = @ \cup {Head(job.ids)}]
      <3>1. PICK lost \in IF job.status = "deleting" /\ job.ids # <<>> THEN BOOLEAN ELSE {FALSE} :
              \/ Set(j, [job EXCEPT !.status = "failed"])
              \/ Set(j, Requeued(IF lost /\ Head(job.ids) \in Remaining(job.repo) THEN more ELSE job))
        BY <1>4 DEF Fault
      <3>2. \/ Set(j, [job EXCEPT !.status = "failed"]) \/ Set(j, Requeued(job))
            \/ job.ids # <<>> /\ Set(j, Requeued(more))
        BY <3>1
      <3>3. CASE Set(j, [job EXCEPT !.status = "failed"])
        <4>1. jobs'[j] = [job EXCEPT !.status = "failed"]  BY <1>0, <3>3 DEF Set
        <4> QED  BY <1>0, <4>1 DEF Jobs
      <3>4. CASE Set(j, Requeued(job))
        <4>1. jobs'[j] = Requeued(job)  BY <1>0, <3>4 DEF Set
        <4> QED  BY <1>0, <4>1, RequeuedOf
      <3>5. CASE job.ids # <<>> /\ Set(j, Requeued(more))
        <4>a. job.ids \in Seq(Nat) /\ job.ids # <<>>  BY <1>0, <3>5 DEF Jobs
        <4>1. Head(job.ids) \in Nat  BY <4>a
        <4>2. more \in Jobs  BY <1>0, <4>1 DEF Jobs
        <4>3. jobs'[j] = Requeued(more)  BY <1>0, <3>5 DEF Set
        <4> QED  BY <4>2, <4>3, RequeuedOf
      <3> QED  BY <3>2, <3>3, <3>4, <3>5
    <2> QED  BY <2>1 DEF Paged
  <1>5. CASE Done(j)
    <2>1. jobs'[j] = [jobs[j] EXCEPT !.status = "done"] /\ caches' = caches /\ jobs[j].status = "deleting"
          /\ jobs[j].ids = <<>>
      BY <1>0, <1>5 DEF Done, Set
    <2>2. jobs'[j].status = "done" /\ jobs'[j].target = jobs[j].target /\ jobs'[j].before = jobs[j].before
      BY <1>0, <2>1 DEF Jobs
    <2>3. \A e : ~Noted(jobs[j], e)  BY <2>1 DEF Noted
    <2> QED  BY <2>1, <2>2, <2>3 DEF Paged
  <1> QED  BY <1>1, <1>2, <1>3, <1>4, <1>5 DEF Work

LEMMA PagesStep == TypeInv /\ GitInv /\ JobInv /\ PanelInv /\ PagesInv /\ [Next]_vars => PagesInv'
  <1> SUFFICES ASSUME TypeInv, GitInv, JobInv, PanelInv, PagesInv, [Next]_vars, Undisturbed',
                      NEW j \in DOMAIN jobs'
               PROVE  Paged(jobs'[j], caches'[jobs'[j].repo])
    BY DEF PagesInv
  <1>0. Undisturbed /\ \A r \in Repos : ~Touch(r) /\ ~Evict(r)  BY UndisturbedBefore
  <1>a. \A i \in DOMAIN jobs : Paged(jobs[i], caches[jobs[i].repo])  BY <1>0 DEF PagesInv
  <1>1. CASE User \/ Answers
    <2>1. caches' = caches  BY <1>1, PanelFrame
    <2>2. CASE jobs' = jobs  BY <1>a, <2>1, <2>2
    <2>3. ASSUME NEW c \in clears, ClearServed(c) PROVE Paged(jobs'[j], caches'[jobs'[j].repo])
      <3> DEFINE new == Job(c.repo, c.target)
      <3>1. c \in Requests  BY DEF TypeInv
      <3>2. new \in Jobs /\ new.status = "queued"
        BY <3>1 DEF Requests, Job, Jobs, Statuses
      <3>3. jobs' = Append(jobs, new)  BY <2>3 DEF ClearServed
      <3> HIDE DEF new
      <3>4. jobs'[j] = new \/ (j \in DOMAIN jobs /\ jobs'[j] = jobs[j])
        BY <3>2, <3>3 DEF TypeInv
      <3>5. Paged(new, caches[new.repo])  BY <3>2 DEF Paged
      <3> QED  BY <1>a, <2>1, <3>4, <3>5
    <2> QED  BY <1>1, <2>2, <2>3, PanelFrame
  <1>2. CASE Worker
    <2>1. PICK k \in DOMAIN jobs : Work(k) \/ Fault(k)  BY <1>2 DEF Worker
    <2>2. PICK new \in Jobs : Step(k, new)  BY <2>1, WorkerOf
    <2>3. DOMAIN jobs' = DOMAIN jobs /\ jobs'[k] = new /\ \A i \in DOMAIN jobs : i # k => jobs'[i] = jobs[i]
      BY <2>2, SetOf DEF Step
    <2>4. new.repo = jobs[k].repo /\ ~Ended(k)  BY <2>2 DEF Step, Ended
    <2>5. CASE j = k
      <3>1. Paged(jobs'[k], caches'[jobs[k].repo])  BY <1>a, <2>1, PagedWork
      <3> QED  BY <2>3, <2>4, <2>5, <3>1
    <2>6. CASE j # k
      <3>1. j \in DOMAIN jobs /\ jobs'[j] = jobs[j] /\ jobs[j].repo \in Repos
        BY <2>3, <2>6, JobOf DEF Jobs
      <3>2. Ended(j)  BY <1>0, <2>4, <2>6, <3>1, OneRuns DEF Undisturbed
      <3>3. Range(caches'[jobs[j].repo]) \subseteq Range(caches[jobs[j].repo])
        BY <2>2, <3>1, ShrinksWorker DEF Shrinks
      <3> QED  BY <1>a, <3>1, <3>2, <3>3, PagedEnded DEF Ended
    <2> QED  BY <2>5, <2>6
  <1>3. CASE CI
    <2>1. PICK r \in Repos : Add(r)  BY <1>0, <1>3 DEF CI
    <2>2. Grows(r) /\ jobs' = jobs  BY <2>1, NewIsFirst DEF Add
    <2> QED  BY <1>a, <2>2, PagedGrows DEF JobInv
  <1>4. CASE UNCHANGED vars
    <2>1. jobs' = jobs /\ caches' = caches  BY <1>4 DEF vars, svars
    <2> QED  BY <1>a, <2>1
  <1> QED  BY <1>1, <1>2, <1>3, <1>4 DEF Next

-----------------------------------------------------------------------------
(* The theorems.                                                           *)

IInv == TypeInv /\ TokenInv /\ GitInv /\ JobInv /\ PanelInv /\ PagesInv

(* The invariant that every result here rests on.                          *)
THEOREM Invariant == Spec => []IInv
  <1>1. Init => IInv
    BY TypeInit, TokenInit, GitInit, JobInit, PanelInit, PagesInit DEF IInv
  <1>2. IInv /\ [Next]_vars => IInv'
    BY TypeStep, TokenStep, GitStep, JobStep, PanelStep, PagesStep DEF IInv
  <1> QED  BY <1>1, <1>2, PTL DEF Spec

(* Every value stays of its kind, tokens and retries within their bounds.  *)
THEOREM TypeCorrect == Spec => []TypeOK
  <1>1. IInv => TypeOK
    <2> SUFFICES ASSUME IInv PROVE TypeOK  OBVIOUS
    <2>0. TypeInv /\ TokenInv /\ JobInv  BY DEF IInv
    <2>1. used.typed \in Nat /\ MaxTyped \in Nat /\ used.typed <= MaxTyped
      BY <2>0, CacheAssumption DEF TypeInv, Counters, TokenInv
    <2>2. panel.token \in 0 .. (MaxTyped + 1) /\ saving \in 0 .. (MaxTyped + 1)
      BY <2>0, <2>1 DEF TypeInv, Panels, TokenInv
    <2>3. tokens \in [Repos -> 0 .. (MaxTyped + 1)]
      <3>1. tokens \in [Repos -> Nat] /\ \A r \in Repos : tokens[r] <= used.typed + 1
        BY <2>0 DEF TypeInv, TokenInv
      <3>2. \A r \in Repos : tokens[r] \in 0 .. (MaxTyped + 1)  BY <2>1, <3>1
      <3> QED  BY <3>1, <3>2
    <2>4. panel \in [repo : Repos, active : BOOLEAN, token : 0..(MaxTyped + 1), saved : BOOLEAN,
                resolved : BOOLEAN, answered : BOOLEAN, confirm : BOOLEAN,
                target : {All} \cup Nat, table : SUBSET Nat, jobId : 0..Len(jobs),
                seen : {"none", "queued", "processing", "done", "failed"}, pollError : BOOLEAN]
      <3>1. panel \in Panels /\ panel.jobId \in 0 .. Len(jobs)  BY <2>0 DEF TypeInv
      <3> QED  BY <2>2, <3>1 DEF Panels
    <2>5. \A j \in DOMAIN jobs : jobs[j].status \in {"queued", "listing", "deleting", "done", "failed"}
                            /\ jobs[j].retries \in 0..(MaxRetries + 1) /\ jobs[j].deleted \in Nat
      <3> SUFFICES ASSUME NEW j \in DOMAIN jobs
                   PROVE  /\ jobs[j].status \in {"queued", "listing", "deleting", "done", "failed"}
                          /\ jobs[j].retries \in 0..(MaxRetries + 1) /\ jobs[j].deleted \in Nat
        OBVIOUS
      <3>1. jobs[j] \in Jobs /\ Retries(jobs[j])  BY <2>0, JobOf DEF JobInv, Fine
      <3> QED  BY <3>1, CacheAssumption DEF Jobs, Statuses, Retries
    <2>6. /\ lookup \in Repos \cup {None} /\ loaded \subseteq Repos
          /\ listing.step \in {"idle", "asked", "served"} /\ listing.got \subseteq Nat
          /\ \A c \in clears : c.repo \in Repos /\ c.job \in 0..Len(jobs)
      BY <2>0 DEF TypeInv, Requests
    <2> QED  BY <2>2, <2>3, <2>4, <2>5, <2>6 DEF TypeOK
  <1> QED  BY <1>1, Invariant, PTL

(* A clear that is done left nothing of what its last attempt found, and   *)
(* no attempt deletes another entry than its own or counts one twice.      *)
THEOREM AllCleared == Spec => []AllIsCleared
  <1>1. IInv => AllIsCleared
    <2> SUFFICES ASSUME IInv PROVE AllIsCleared  OBVIOUS
    <2>0. TypeInv /\ JobInv /\ PagesInv  BY DEF IInv
    <2>1. Undisturbed => ClearedAll
      BY <2>0 DEF PagesInv, Paged, ClearedAll, Remaining
    <2>2. DeletesItsTarget /\ CountsWhatItDeleted
      BY <2>0 DEF JobInv, Fine, DeletesItsTarget, CountsWhatItDeleted
    <2> QED  BY <2>1, <2>2 DEF AllIsCleared
  <1> QED  BY <1>1, Invariant, PTL

(* Once the panel says done it shows nothing the clear deleted, and it     *)
(* never starts a second clear beside a running one.                       *)
THEOREM DoneShown == Spec => []DoneIsShown
  <1>1. IInv => DoneIsShown
    <2> SUFFICES ASSUME IInv, Watched PROVE DoneIsListedAgain /\ OneClear
      BY DEF DoneIsShown
    <2>0. TypeInv /\ PanelInv  BY DEF IInv
    <2>1. DoneIsListedAgain  BY <2>0 DEF PanelInv, Tells, DoneIsListedAgain
    <2>2. OneClear  BY <2>0, OneRuns DEF OneClear
    <2> QED  BY <2>1, <2>2
  <1> QED  BY <1>1, Invariant, PTL

(* The table is of the repository shown, and a lookup answered late never  *)
(* replaces a typed token.                                                 *)
THEOREM RoutesApart == Spec => RoutesStayApart
  <1>1. IInv => TableIsOfShownRepo
    <2> SUFFICES ASSUME IInv PROVE TableIsOfShownRepo  OBVIOUS
    <2>1. DOMAIN caches = Repos /\ GitInv  BY DEF IInv, TypeInv
    <2> QED  BY <2>1 DEF GitInv, TableIsOfShownRepo
  <1>2. IInv /\ [Next]_vars => [KeepsTyped]_vars
    BY TokenStep DEF IInv
  <1> QED  BY <1>1, <1>2, Invariant, PTL DEF RoutesStayApart, Spec
=============================================================================
