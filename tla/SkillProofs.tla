---------------------------- MODULE SkillProofs ----------------------------
(***************************************************************************)
(* Proofs about two parts of the bundled skill, LiveServer.tla and         *)
(* DesignHook.tla, for any sessions, messages, pages, files, calls and     *)
(* bounds.  Each theorem is about one of the specifications, which share   *)
(* nothing.                                                                *)
(*                                                                         *)
(* LiveServer: what a journal has pending is queued while the server runs. *)
(* The queue is cut by AtPlaces, which keeps the entries at a set of       *)
(* places: it is counted by ranks.                                         *)
(*                                                                         *)
(* DesignHook: what the cache holds, and what each process that runs has   *)
(* read of it and will write, is never ahead of what the sessions were     *)
(* told; a process that has a turn alone is not behind either.             *)
(***************************************************************************)
EXTENDS LiveServer, FiniteSetTheorems, SequenceTheorems, TLAPS

CONSTANTS
  Calls, SessionOf, Cursor, Files, Findings, Sheets, Patches, Texts, Threshold, MaxSessions,
  MaxShown, MaxEdits, MaxKills, MaxCommands, MaxResets              \* of DesignHook
VARIABLES disk, cache, config, calls, told, noticed, tried, ignored, used   \* of DesignHook

H == INSTANCE DesignHook

-----------------------------------------------------------------------------
(* Ranks: how many of a set of numbers are not above one of them.          *)

Rank(S, i) == Cardinality({j \in S : j <= i})

LEMMA Finite ==
  ASSUME NEW n \in Nat, NEW S, S \subseteq 1 .. n
  PROVE  IsFiniteSet(S) /\ Cardinality(S) \in Nat /\ Cardinality(S) <= n
  <1>1. IsFiniteSet(1 .. n) /\ Cardinality(1 .. n) <= n
    <2>1. 1 \in Int /\ n \in Int  OBVIOUS
    <2> QED  BY <2>1, FS_Interval
  <1>2. IsFiniteSet(S) /\ Cardinality(S) <= Cardinality(1 .. n)  BY <1>1, FS_Subset
  <1>3. Cardinality(S) \in Nat /\ Cardinality(1 .. n) \in Nat  BY <1>1, <1>2, FS_CardinalityType
  <1> QED  BY <1>1, <1>2, <1>3

LEMMA RankRange ==
  ASSUME NEW n \in Nat, NEW S, S \subseteq 1 .. n, NEW i \in S
  PROVE  Rank(S, i) \in 1 .. Cardinality(S)
  <1> DEFINE below == {j \in S : j <= i}
  <1>1. IsFiniteSet(S) /\ Cardinality(S) \in Nat  BY Finite
  <1>2. IsFiniteSet(below) /\ Cardinality(below) <= Cardinality(S)  BY <1>1, FS_Subset
  <1>3. Cardinality(below) \in Nat  BY <1>2, FS_CardinalityType
  <1>4. i \in below  OBVIOUS
  <1>5. Cardinality(below) # 0  BY <1>2, <1>4, FS_EmptySet
  <1> HIDE DEF below
  <1>6. Cardinality(below) \in 1 .. Cardinality(S)  BY <1>1, <1>2, <1>3, <1>5
  <1> QED  BY <1>6 DEF Rank, below

LEMMA RankGrows ==
  ASSUME NEW n \in Nat, NEW S, S \subseteq 1 .. n, NEW i \in S, NEW j \in S, i < j
  PROVE  Rank(S, i) < Rank(S, j)
  <1> DEFINE low  == {k \in S : k <= i}
             high == {k \in S : k <= j}
  <1>0. i \in Nat /\ j \in Nat /\ \A k \in S : k \in Nat  OBVIOUS
  <1>1. low \subseteq high /\ j \in high /\ j \notin low
    <2>1. j <= j /\ ~(j <= i)  BY <1>0
    <2>2. low \subseteq high
      <3> SUFFICES ASSUME NEW k \in S, k <= i PROVE k <= j  OBVIOUS
      <3> QED  BY <1>0
    <2> QED  BY <2>1, <2>2
  <1>2. IsFiniteSet(high)
    <2>1. high \subseteq 1 .. n  OBVIOUS
    <2> QED  BY <2>1, Finite
  <1> HIDE DEF low, high
  <1>3. IsFiniteSet(low) /\ Cardinality(low) <= Cardinality(high)
        /\ (Cardinality(high) = Cardinality(low) => high = low)
    BY <1>1, <1>2, FS_Subset
  <1>4. Cardinality(low) \in Nat /\ Cardinality(high) \in Nat  BY <1>2, <1>3, FS_CardinalityType
  <1>5. Cardinality(low) < Cardinality(high)  BY <1>1, <1>3, <1>4
  <1> QED  BY <1>5 DEF Rank, low, high

LEMMA RankInjects ==
  ASSUME NEW n \in Nat, NEW S, S \subseteq 1 .. n, NEW T, T \subseteq S, NEW m \in Nat,
         \A i \in T : Rank(S, i) <= m
  PROVE  [i \in T |-> Rank(S, i)] \in Injection(T, 1 .. m)
  <1> DEFINE f == [i \in T |-> Rank(S, i)]
  <1>1. ASSUME NEW i \in T PROVE f[i] \in 1 .. m
    <2>1. Rank(S, i) \in 1 .. Cardinality(S) /\ Cardinality(S) \in Nat  BY RankRange, Finite
    <2>2. Rank(S, i) <= m  OBVIOUS
    <2>3. f[i] = Rank(S, i)  OBVIOUS
    <2> HIDE DEF f
    <2> QED  BY <2>1, <2>2, <2>3
  <1>2. ASSUME NEW i \in T, NEW j \in T, f[i] = f[j] PROVE i = j
    <2>1. Rank(S, i) = Rank(S, j)  BY <1>2
    <2>2. i \in S /\ j \in S /\ i \in Nat /\ j \in Nat  OBVIOUS
    <2>3. Rank(S, i) \in Nat
      <3>1. Rank(S, i) \in 1 .. Cardinality(S) /\ Cardinality(S) \in Nat  BY <2>2, RankRange, Finite
      <3> QED  BY <3>1
    <2>4. ~(i < j)
      <3>1. i < j => Rank(S, i) < Rank(S, j)  BY <2>2, RankGrows
      <3> QED  BY <2>1, <2>3, <3>1
    <2>5. ~(j < i)
      <3>1. j < i => Rank(S, j) < Rank(S, i)  BY <2>2, RankGrows
      <3> QED  BY <2>1, <2>3, <3>1
    <2> QED  BY <2>2, <2>4, <2>5
  <1>3. f \in [T -> 1 .. m]  BY <1>1
  <1>4. DOMAIN f = T  OBVIOUS
  <1> HIDE DEF f
  <1>5. IsInjective(f)  BY <1>2, <1>4 DEF IsInjective
  <1>6. f \in Injection(T, 1 .. m)  BY <1>3, <1>5 DEF Injection
  <1> QED  BY <1>6 DEF f

(* Every number up to the size is somebody's rank.                         *)
LEMMA RankOnto ==
  ASSUME NEW n \in Nat, NEW S, S \subseteq 1 .. n, NEW k \in 1 .. Cardinality(S)
  PROVE  \E i \in S : Rank(S, i) = k
  <1> DEFINE m == Cardinality(S)
             f == [i \in S |-> Rank(S, i)]
  <1>1. m \in Nat /\ IsFiniteSet(S)  BY Finite
  <1>2. \A i \in S : Rank(S, i) <= m
    <2> TAKE i \in S
    <2>1. Rank(S, i) \in 1 .. m  BY RankRange
    <2> QED  BY <1>1, <2>1
  <1>3. f \in Injection(S, 1 .. m)
    <2> HIDE DEF m
    <2> QED  BY <1>1, <1>2, RankInjects
  <1>4. IsFiniteSet(1 .. m) /\ Cardinality(1 .. m) = m
    <2>1. 1 \in Int /\ m \in Int  BY <1>1
    <2>2. IsFiniteSet(1 .. m) /\ Cardinality(1 .. m) = IF 1 > m THEN 0 ELSE m - 1 + 1  BY <2>1, FS_Interval
    <2> HIDE DEF m
    <2> QED  BY <1>1, <2>2
  <1>5. f \in Surjection(S, 1 .. m)
    <2> HIDE DEF f
    <2>1. Cardinality(S) = Cardinality(1 .. m) <=> f \in Surjection(S, 1 .. m)  BY <1>3, <1>4, FS_Injection
    <2> QED  BY <1>4, <2>1
  <1>6. \E i \in S : f[i] = k  BY <1>5 DEF Surjection
  <1> QED  BY <1>6

(* The least of some numbers is the one of rank 1.                         *)
LEMMA Least ==
  ASSUME NEW n \in Nat, NEW S, S \subseteq 1 .. n, S # {}
  PROVE  Min(S) \in S /\ \A i \in S : Min(S) <= i
  <1>1. IsFiniteSet(S) /\ Cardinality(S) \in Nat  BY Finite
  <1>2. Cardinality(S) # 0  BY <1>1, FS_EmptySet
  <1>3. 1 \in 1 .. Cardinality(S)  BY <1>1, <1>2
  <1>4. PICK i \in S : Rank(S, i) = 1  BY <1>3, RankOnto
  <1>5. ASSUME NEW j \in S PROVE i <= j
    <2>1. j < i => Rank(S, j) < Rank(S, i)  BY RankGrows
    <2>2. Rank(S, j) \in 1 .. Cardinality(S)  BY RankRange
    <2> QED  BY <1>1, <1>4, <2>1, <2>2
  <1> QED  BY <1>5 DEF Min

LEMMA NthOf ==
  ASSUME NEW n \in Nat, NEW S, S \subseteq 1 .. n, NEW k \in 1 .. Cardinality(S)
  PROVE  Nth(S, k) \in S /\ Rank(S, Nth(S, k)) = k
  <1>1. \E i \in S : Rank(S, i) = k  BY RankOnto
  <1> QED  BY <1>1 DEF Nth, Rank

-----------------------------------------------------------------------------
(* What is kept of a queue.                                                *)

LEMMA KeptAtPlaces ==
  ASSUME NEW T, NEW q \in Seq(T), NEW S, S \subseteq DOMAIN q
  PROVE  /\ AtPlaces(q, S) \in Seq(T) /\ Len(AtPlaces(q, S)) = Cardinality(S)
         /\ \A k \in DOMAIN AtPlaces(q, S) : \E i \in S : AtPlaces(q, S)[k] = q[i]
         /\ \A i \in S : \E k \in DOMAIN AtPlaces(q, S) : AtPlaces(q, S)[k] = q[i]
  <1> DEFINE n == Len(q)
             m == Cardinality(S)
             w(k) == Nth(S, k)
             a == [k \in 1 .. m |-> q[w(k)]]
  <1>1. n \in Nat /\ DOMAIN q = 1 .. n /\ S \subseteq 1 .. n  OBVIOUS
  <1>2. m \in Nat
    <2> HIDE DEF n
    <2> QED  BY <1>1, Finite
  <1>3. a = AtPlaces(q, S)  BY DEF AtPlaces
  <1>4. ASSUME NEW k \in 1 .. m PROVE w(k) \in S /\ Rank(S, w(k)) = k
    <2> HIDE DEF n
    <2> QED  BY <1>1, NthOf
  <1>5. \A i \in S : q[i] \in T  OBVIOUS
  <1>6. \A k \in 1 .. m : a[k] = q[w(k)] /\ w(k) \in S  BY <1>4
  <1>7. DOMAIN a = 1 .. m  OBVIOUS
  <1>8. \A k \in 1 .. m : a[k] \in T  BY <1>5, <1>6
  <1>9. a \in [1 .. m -> T]  BY <1>4, <1>5
  <1>10. ASSUME NEW i \in S PROVE \E k \in 1 .. m : a[k] = q[i]
    <2> DEFINE k == Rank(S, i)
    <2>1. k \in 1 .. m
      <3> HIDE DEF n
      <3> QED  BY <1>1, RankRange
    <2>2. w(k) \in S /\ Rank(S, w(k)) = k  BY <1>4, <2>1
    <2>3. w(k) = i
      <3>1. i \in 1 .. n /\ w(k) \in 1 .. n  BY <1>1, <2>2
      <3>2. w(k) < i => Rank(S, w(k)) < Rank(S, i)
        <4> HIDE DEF n, w
        <4> QED  BY <1>1, <2>2, RankGrows
      <3>3. i < w(k) => Rank(S, i) < Rank(S, w(k))
        <4> HIDE DEF n, w
        <4> QED  BY <1>1, <2>2, RankGrows
      <3>4. ~(k < k)
        <4> HIDE DEF k
        <4> QED  BY <1>2, <2>1
      <3> HIDE DEF w
      <3> QED  BY <1>1, <2>2, <3>1, <3>2, <3>3, <3>4
    <2> HIDE DEF w
    <2>4. a[k] = q[i]  BY <2>1, <2>3
    <2> QED  BY <2>1, <2>4
  <1> HIDE DEF a, w, m
  <1>11. a \in Seq(T) /\ Len(a) = m  BY <1>2, <1>9
  <1>12. \A k \in DOMAIN a : \E i \in S : a[k] = q[i]  BY <1>6, <1>7
  <1> QED  BY <1>3, <1>7, <1>10, <1>11, <1>12 DEF m
-----------------------------------------------------------------------------
(* The invariant.                                                          *)

Requests == {"generate", "accept", "discard", "steer"}

(* Entries as they are made: those with an id are a page's requests, and   *)
(* only an exit is queued by itself.                                       *)
Sound == {e \in Entry : (e.id # NoId => e.type \in Requests) /\ (e.auto => e.type = "exit")}

TypeInv == TypeOK /\ queue \in Seq(Sound) /\ held \in Seq(Sound)

IInv == TypeInv /\ PendingIsQueued /\ ExitMeansAlone

(* A request of s is in the queue q; r still has what q had.               *)
Carries(q, s, type) == \E i \in DOMAIN q : q[i].id = s /\ q[i].type = type

Keeps(q, r) == \A s \in Ids, type \in Requests : Carries(q, s, type) => Carries(r, s, type)

(* What is queued by itself in r was so in q.                              *)
NoNewAuto(q, r) == \A k \in DOMAIN r : r[k].auto => \E i \in DOMAIN q : q[i].auto

LEMMA LeaseType == Lease \in Nat /\ Lease > 0 /\ NoId \notin Ids /\ MaxHeld \in Nat
  BY LiveAssumption DEF LiveAssumption, Ids, NoId

LEMMA EntryMarked ==
  ASSUME NEW e \in Sound, NEW l \in 0 .. Lease
  PROVE  /\ [e EXCEPT !.lease = l] \in Sound /\ [e EXCEPT !.lease = l].id = e.id
         /\ [e EXCEPT !.lease = l].type = e.type
         /\ [e EXCEPT !.lease = l].auto <=> e.auto
  <1> DEFINE f == [e EXCEPT !.lease = l]
  <1>1. e \in Entry  BY DEF Sound
  <1>2. f \in Entry  BY <1>1 DEF Entry
  <1>3. f.id = e.id /\ f.type = e.type /\ f.auto = e.auto  BY <1>1 DEF Entry
  <1> HIDE DEF f
  <1>4. f \in Sound  BY <1>2, <1>3 DEF Sound
  <1> QED  BY <1>3, <1>4 DEF f

LEMMA NewEntryType ==
  ASSUME NEW id \in Ids \cup {NoId}, NEW type, NEW v \in Variants \cup {0}, NEW auto \in BOOLEAN,
         type \in {"generate", "accept", "discard", "steer", "exit", "prefetch"},
         id # NoId => type \in Requests, auto => type = "exit"
  PROVE  /\ NewEntry(id, type, v, auto) \in Sound /\ NewEntry(id, type, v, auto).id = id
         /\ NewEntry(id, type, v, auto).type = type /\ (NewEntry(id, type, v, auto).auto <=> auto)
  <1> DEFINE e == NewEntry(id, type, v, auto)
  <1>1. 0 \in 0 .. Lease  BY LeaseType
  <1>2. e \in Entry  BY <1>1 DEF Entry, NewEntry
  <1>3. e.id = id /\ e.type = type /\ e.auto = auto  BY DEF NewEntry
  <1> HIDE DEF e
  <1>4. e \in Sound  BY <1>2, <1>3 DEF Sound
  <1> QED  BY <1>3, <1>4 DEF e

LEMMA RequestEntry ==
  ASSUME NEW id \in Ids, NEW type \in Requests, NEW v \in Variants \cup {0}
  PROVE  /\ NewEntry(id, type, v, FALSE) \in Sound /\ NewEntry(id, type, v, FALSE).id = id
         /\ NewEntry(id, type, v, FALSE).type = type /\ ~NewEntry(id, type, v, FALSE).auto
  <1> DEFINE e == NewEntry(id, type, v, FALSE)
  <1>1. 0 \in 0 .. Lease  BY LeaseType
  <1>2. e \in Entry  BY <1>1 DEF Entry, NewEntry, Requests
  <1>3. e.id = id /\ e.type = type /\ e.auto = FALSE  BY DEF NewEntry
  <1> HIDE DEF e
  <1>4. e \in Sound  BY <1>2, <1>3 DEF Sound
  <1> QED  BY <1>3, <1>4 DEF e

(* Leasing loses no request.                                               *)
LEMMA LeasedOf ==
  ASSUME NEW q \in Seq(Sound), NEW taken, taken \subseteq DOMAIN q
  PROVE  /\ Leased(q, taken) \in Seq(Sound) /\ Keeps(q, Leased(q, taken))
         /\ NoNewAuto(q, Leased(q, taken))
  <1> DEFINE n == Len(q)
             lease(i) == IF i \in taken THEN Lease ELSE q[i].lease
             marked == [i \in DOMAIN q |-> [q[i] EXCEPT !.lease = lease(i)]]
             stay == {i \in DOMAIN q : q[i].id # NoId \/ i \notin taken}
             cut == AtPlaces(marked, stay)
             r == Leased(q, taken)
  <1>1. n \in Nat /\ DOMAIN q = 1 .. n  OBVIOUS
  <1>2. r = IF \A i \in taken : q[i].id # NoId THEN marked ELSE cut  BY DEF Leased
  <1>3. DOMAIN marked = DOMAIN q  OBVIOUS
  <1>4. ASSUME NEW i \in DOMAIN q
        PROVE  /\ marked[i] \in Sound /\ marked[i].id = q[i].id /\ marked[i].type = q[i].type
               /\ marked[i].auto <=> q[i].auto
    <2>1. q[i] \in Sound /\ q[i] \in Entry  BY DEF Sound
    <2>2. lease(i) \in 0 .. Lease
      <3>1. q[i].lease \in 0 .. Lease  BY <2>1 DEF Entry
      <3>2. Lease \in 0 .. Lease  BY LeaseType
      <3> QED  BY <3>1, <3>2
    <2>3. marked[i] = [q[i] EXCEPT !.lease = lease(i)]  OBVIOUS
    <2> HIDE DEF lease, marked
    <2> QED  BY <2>1, <2>2, <2>3, EntryMarked
  <1>5. stay \subseteq DOMAIN q /\ \A i \in DOMAIN q : q[i].id # NoId => i \in stay  OBVIOUS
  <1>6. marked = [i \in DOMAIN q |-> marked[i]]  OBVIOUS
  <1> HIDE DEF marked, stay, n
  <1>7. marked \in Seq(Sound)
    <2>1. marked \in [1 .. n -> Sound]  BY <1>1, <1>4, <1>6
    <2> QED  BY <1>1, <2>1
  <1>8. /\ cut \in Seq(Sound)
        /\ \A k \in DOMAIN cut : \E i \in stay : cut[k] = marked[i]
        /\ \A i \in stay : \E k \in DOMAIN cut : cut[k] = marked[i]
    BY <1>3, <1>5, <1>7, KeptAtPlaces
  <1> HIDE DEF cut, r
  <1>9. /\ r \in Seq(Sound)
        /\ \A k \in DOMAIN r : \E i \in DOMAIN q : r[k] = marked[i]
        /\ \A i \in DOMAIN q : q[i].id # NoId => \E k \in DOMAIN r : r[k] = marked[i]
    <2>1. CASE r = marked  BY <1>3, <1>7, <2>1
    <2>2. CASE r = cut  BY <1>5, <1>8, <2>2
    <2> QED  BY <1>2, <2>1, <2>2
  <1>10. Keeps(q, r)
    <2> SUFFICES ASSUME NEW s \in Ids, NEW type \in Requests, NEW i \in DOMAIN q,
                        q[i].id = s, q[i].type = type
                 PROVE  Carries(r, s, type)
      BY DEF Keeps, Carries
    <2>1. PICK k \in DOMAIN r : r[k] = marked[i]  BY <1>9, LeaseType
    <2> QED  BY <1>4, <2>1 DEF Carries
  <1>11. NoNewAuto(q, r)
    <2> SUFFICES ASSUME NEW k \in DOMAIN r, r[k].auto PROVE \E i \in DOMAIN q : q[i].auto
      BY DEF NoNewAuto
    <2>1. PICK i \in DOMAIN q : r[k] = marked[i]  BY <1>9
    <2> QED  BY <1>4, <2>1
  <1> QED  BY <1>9, <1>10, <1>11 DEF r

(* No more is taken than there are polls.                                  *)
LEMMA TakenOf ==
  ASSUME NEW q \in Seq(Sound), NEW n \in Nat
  PROVE  /\ Taken(q, n) \subseteq DOMAIN q
         /\ Cardinality(Taken(q, n)) \in 0 .. n
  <1> DEFINE size == Len(q)
             free == Available(q)
             m == Min({n, Cardinality(free)})
             some == Taken(q, n)
             f == [k \in 1 .. m |-> Nth(free, k)]
  <1>1. size \in Nat /\ DOMAIN q = 1 .. size  OBVIOUS
  <1>2. free \subseteq DOMAIN q  BY DEF Available
  <1>3. some = {Nth(free, k) : k \in 1 .. m}  BY DEF Taken
  <1> HIDE DEF free, some, size
  <1>4. Cardinality(free) \in Nat  BY <1>1, <1>2, Finite
  <1>5. m \in Nat /\ m <= n /\ m <= Cardinality(free)
    <2> DEFINE c == Cardinality(free)
    <2> HIDE DEF c
    <2>1. c \in Nat  BY <1>4 DEF c
    <2>2. \E x \in {n, c} : \A y \in {n, c} : x =< y  BY <2>1
    <2>3. Min({n, c}) \in {n, c} /\ \A y \in {n, c} : Min({n, c}) =< y  BY <2>2 DEF Min
    <2> QED  BY <2>1, <2>3 DEF c
  <1> HIDE DEF m
  <1>6. \A k \in 1 .. m : Nth(free, k) \in free
    <2> SUFFICES ASSUME NEW k \in 1 .. m PROVE Nth(free, k) \in free  OBVIOUS
    <2>1. k \in 1 .. Cardinality(free)  BY <1>4, <1>5
    <2> QED  BY <1>1, <1>2, <2>1, NthOf
  <1>7. f \in Surjection(1 .. m, some)  BY <1>3 DEF Surjection
  <1>8. IsFiniteSet(1 .. m) /\ Cardinality(1 .. m) <= m /\ Cardinality(1 .. m) \in Nat
    <2>1. 1 .. m \subseteq 1 .. m  OBVIOUS
    <2> QED  BY <1>5, <2>1, Finite
  <1>9. IsFiniteSet(some) /\ Cardinality(some) <= Cardinality(1 .. m)  BY <1>7, <1>8, FS_Surjection
  <1>10. Cardinality(some) \in Nat  BY <1>9, FS_CardinalityType
  <1>11. Cardinality(some) \in 0 .. n  BY <1>5, <1>8, <1>9, <1>10
  <1>12. some \subseteq DOMAIN q  BY <1>2, <1>3, <1>6
  <1> QED  BY <1>11, <1>12 DEF some

LEMMA NextExpiryType ==
  ASSUME NEW q \in Seq(Sound)
  PROVE  NextExpiry(q) \in NoTimer .. Lease
  <1> DEFINE leases == {q[i].lease : i \in DOMAIN q} \ {0}
  <1>1. leases \subseteq 1 .. Lease
    <2> SUFFICES ASSUME NEW i \in DOMAIN q, q[i].lease # 0 PROVE q[i].lease \in 1 .. Lease
      OBVIOUS
    <2>1. q[i] \in Entry  BY DEF Sound
    <2>2. q[i].lease \in 0 .. Lease  BY <2>1 DEF Entry
    <2> QED  BY <2>2, LeaseType
  <1>2. NextExpiry(q) = IF leases = {} THEN NoTimer ELSE Min(leases)  BY DEF NextExpiry
  <1> HIDE DEF leases
  <1>3. CASE leases = {}  BY <1>2, <1>3, LeaseType DEF NoTimer
  <1>4. CASE leases # {}
    <2>1. Min(leases) \in leases  BY <1>1, <1>4, LeaseType, Least
    <2>2. Min(leases) \in 1 .. Lease  BY <1>1, <2>1
    <2> QED  BY <1>2, <1>4, <2>2, LeaseType DEF NoTimer
  <1> QED  BY <1>3, <1>4

(* What a flush leaves.                                                    *)
Flushed(q) ==
  /\ queue' \in Seq(Sound) /\ held' \in Seq(Sound)
  /\ polls' \in 0 .. MaxHeld /\ timer' \in NoTimer .. Lease
  /\ Keeps(q, queue') /\ NoNewAuto(q, queue')

LEMMA HandedType ==
  ASSUME NEW q \in Seq(Sound), NEW n \in Nat, NEW h \in Seq(Sound)
  PROVE  h \o AtPlaces(q, Taken(q, n)) \in Seq(Sound)
  <1>1. AtPlaces(q, Taken(q, n)) \in Seq(Sound)
    <2>1. Taken(q, n) \subseteq DOMAIN q  BY TakenOf
    <2> QED  BY <2>1, KeptAtPlaces
  <1> QED  BY <1>1

LEMMA FlushOf ==
  ASSUME NEW q \in Seq(Sound), NEW n \in 0 .. MaxHeld, NEW h \in Seq(Sound), Flush(q, n, h)
  PROVE  Flushed(q)
  <1>0. n \in Nat  BY LeaseType
  <1>1. queue' = Leased(q, Taken(q, n)) /\ timer' = NextExpiry(queue')  BY DEF Flush
  <1>2. queue' \in Seq(Sound) /\ Keeps(q, queue') /\ NoNewAuto(q, queue')
    BY <1>0, <1>1, LeasedOf, TakenOf
  <1>3. timer' \in NoTimer .. Lease  BY <1>1, <1>2, NextExpiryType
  <1>4. held' \in Seq(Sound)  BY <1>0, HandedType DEF Flush
  <1>5. polls' \in 0 .. MaxHeld
    <2>1. Cardinality(Taken(q, n)) \in 0 .. n  BY <1>0, TakenOf
    <2>2. polls' = n - Cardinality(Taken(q, n))  BY DEF Flush
    <2> QED  BY <1>0, <2>1, <2>2, LeaseType
  <1> QED  BY <1>2, <1>3, <1>4, <1>5 DEF Flushed

LEMMA QueuedOf ==
  ASSUME NEW q \in Seq(Sound), NEW e \in Sound
  PROVE  /\ Queued(q, e) \in Seq(Sound) /\ Keeps(q, Queued(q, e))
         /\ e.id # NoId => Carries(Queued(q, e), e.id, e.type)
         /\ ~e.auto => NoNewAuto(q, Queued(q, e))
  <1> DEFINE there == e.id # NoId /\ \E i \in DOMAIN q : q[i].id = e.id /\ q[i].type = e.type
             r == Append(q, e)
  <1>1. CASE there
    <2>1. Queued(q, e) = q  BY <1>1 DEF Queued
    <2> QED  BY <1>1, <2>1 DEF Keeps, Carries, NoNewAuto
  <1>2. CASE ~there
    <2>1. Queued(q, e) = r  BY <1>2 DEF Queued
    <2>2. /\ r \in Seq(Sound) /\ Len(q) \in Nat /\ DOMAIN q = 1 .. Len(q) /\ DOMAIN r = 1 .. Len(q) + 1
          /\ r[Len(q) + 1] = e /\ \A i \in 1 .. Len(q) : r[i] = q[i]
      OBVIOUS
    <2> HIDE DEF r, there
    <2>3. Keeps(q, r)
      <3> SUFFICES ASSUME NEW s \in Ids, NEW type \in Requests, NEW i \in DOMAIN q,
                          q[i].id = s, q[i].type = type
                   PROVE  Carries(r, s, type)
        BY DEF Keeps, Carries
      <3>1. i \in DOMAIN r /\ r[i] = q[i]  BY <2>2
      <3> QED  BY <3>1 DEF Carries
    <2>4. Carries(r, e.id, e.type)
      <3>1. Len(q) + 1 \in DOMAIN r  BY <2>2
      <3> QED  BY <2>2, <3>1 DEF Carries
    <2>5. ASSUME ~e.auto PROVE NoNewAuto(q, r)
      <3> SUFFICES ASSUME NEW k \in DOMAIN r, r[k].auto PROVE \E i \in DOMAIN q : q[i].auto
        BY DEF NoNewAuto
      <3>1. k # Len(q) + 1  BY <2>2, <2>5
      <3>2. k \in 1 .. Len(q)  BY <2>2, <3>1
      <3> QED  BY <2>2, <3>2
    <2> QED  BY <2>1, <2>2, <2>3, <2>4, <2>5
  <1> QED  BY <1>1, <1>2

LEMMA Removal ==
  ASSUME NEW s \in Seq(Sound), NEW i \in DOMAIN s
  PROVE  /\ RemoveAt(s, i) \in Seq(Sound)
         /\ \A k \in DOMAIN RemoveAt(s, i) : \E j \in DOMAIN s : RemoveAt(s, i)[k] = s[j]
         /\ \A j \in DOMAIN s \ {i} : \E k \in DOMAIN RemoveAt(s, i) : RemoveAt(s, i)[k] = s[j]
  <1> DEFINE a == SubSeq(s, 1, i - 1)
             b == SubSeq(s, i + 1, Len(s))
             r == RemoveAt(s, i)
  <1>1. Len(s) \in Nat /\ i \in 1 .. Len(s) /\ DOMAIN s = 1 .. Len(s)  OBVIOUS
  <1>2. /\ a \in Seq(Sound) /\ Len(a) = i - 1 /\ \A k \in 1 .. i - 1 : a[k] = s[k]
    BY <1>1
  <1>3. /\ b \in Seq(Sound) /\ Len(b) = Len(s) - i /\ \A k \in 1 .. Len(s) - i : b[k] = s[k + i]
    BY <1>1
  <1>4. r = a \o b  BY DEF RemoveAt
  <1> HIDE DEF a, b, r
  <1>5. /\ r \in Seq(Sound) /\ DOMAIN r = 1 .. Len(s) - 1
        /\ \A k \in 1 .. Len(s) - 1 : r[k] = IF k <= Len(a) THEN a[k] ELSE b[k - Len(a)]
    <2> DEFINE n == Len(a) + Len(b)
    <2>1. a \in Seq(Sound) /\ b \in Seq(Sound)  BY <1>2, <1>3
    <2>2. a \o b \in Seq(Sound) /\ DOMAIN (a \o b) = 1 .. n  BY <2>1
    <2>3. \A k \in 1 .. n : (a \o b)[k] = IF k <= Len(a) THEN a[k] ELSE b[k - Len(a)]  BY <2>1
    <2>4. n = Len(s) - 1  BY <1>1, <1>2, <1>3
    <2> HIDE DEF n
    <2> QED  BY <1>4, <2>2, <2>3, <2>4
  <1>6. \A k \in 1 .. Len(s) - 1 : r[k] = IF k < i THEN s[k] ELSE s[k + 1]
    <2> SUFFICES ASSUME NEW k \in 1 .. Len(s) - 1 PROVE r[k] = IF k < i THEN s[k] ELSE s[k + 1]
      OBVIOUS
    <2>1. CASE k < i
      <3>1. k <= Len(a) /\ k \in 1 .. i - 1  BY <1>1, <1>2, <2>1
      <3> QED  BY <1>2, <1>5, <2>1, <3>1
    <2>2. CASE ~(k < i)
      <3>1. ~(k <= Len(a)) /\ k - Len(a) \in 1 .. Len(s) - i /\ (k - Len(a)) + i = k + 1
        BY <1>1, <1>2, <2>2
      <3> QED  BY <1>3, <1>5, <2>2, <3>1
    <2> QED  BY <2>1, <2>2
  <1>7. ASSUME NEW k \in DOMAIN r PROVE \E j \in DOMAIN s : r[k] = s[j]
    <2>1. k \in DOMAIN s /\ k + 1 \in DOMAIN s  BY <1>1, <1>5
    <2> QED  BY <1>5, <1>6, <2>1
  <1>8. ASSUME NEW j \in DOMAIN s \ {i} PROVE \E k \in DOMAIN r : r[k] = s[j]
    <2>1. CASE j < i
      <3>1. j \in 1 .. Len(s) - 1  BY <1>1, <2>1
      <3> QED  BY <1>5, <1>6, <2>1, <3>1
    <2>2. CASE i < j
      <3>1. j - 1 \in 1 .. Len(s) - 1 /\ ~(j - 1 < i) /\ (j - 1) + 1 = j  BY <1>1, <2>2
      <3> QED  BY <1>5, <1>6, <3>1
    <2> QED  BY <1>1, <2>1, <2>2
  <1> QED  BY <1>5, <1>7, <1>8 DEF r

(* An acknowledgement takes at most one entry, of that id.                 *)
LEMMA AcknowledgedOf ==
  ASSUME TypeInv, NEW id \in Ids
  PROVE  /\ Acknowledged(id) \in Seq(Sound) /\ NoNewAuto(queue, Acknowledged(id))
         /\ \A s \in Ids \ {id}, type \in Requests :
              Carries(queue, s, type) => Carries(Acknowledged(id), s, type)
         /\ ~Waiting(id) => Acknowledged(id) = queue
  <1> DEFINE mine == {i \in DOMAIN queue : queue[i].id = id}
             at == Min(mine)
             r == RemoveAt(queue, at)
  <1>1. queue \in Seq(Sound)  BY DEF TypeInv
  <1>2. CASE mine = {}
    <2>1. Acknowledged(id) = queue  BY <1>2 DEF Acknowledged
    <2> QED  BY <1>1, <2>1 DEF NoNewAuto
  <1>3. CASE mine # {}
    <2>1. Acknowledged(id) = r  BY <1>3 DEF Acknowledged
    <2>2. mine \subseteq 1 .. Len(queue) /\ Len(queue) \in Nat  BY <1>1
    <2>3. at \in mine
      <3> HIDE DEF mine
      <3> QED  BY <1>3, <2>2, Least
    <2>4. at \in DOMAIN queue /\ queue[at].id = id /\ Waiting(id)  BY <2>3 DEF Waiting
    <2> HIDE DEF at, mine
    <2>5. /\ r \in Seq(Sound)
          /\ \A k \in DOMAIN r : \E j \in DOMAIN queue : r[k] = queue[j]
          /\ \A j \in DOMAIN queue \ {at} : \E k \in DOMAIN r : r[k] = queue[j]
      BY <1>1, <2>4, Removal
    <2> HIDE DEF r
    <2>6. NoNewAuto(queue, r)
      <3> SUFFICES ASSUME NEW k \in DOMAIN r, r[k].auto PROVE \E j \in DOMAIN queue : queue[j].auto
        BY DEF NoNewAuto
      <3>1. PICK j \in DOMAIN queue : r[k] = queue[j]  BY <2>5
      <3> QED  BY <3>1
    <2>7. ASSUME NEW s \in Ids \ {id}, NEW type \in Requests, Carries(queue, s, type)
          PROVE  Carries(r, s, type)
      <3>1. PICK j \in DOMAIN queue : queue[j].id = s /\ queue[j].type = type  BY <2>7 DEF Carries
      <3>2. j # at  BY <2>4, <3>1
      <3>3. PICK k \in DOMAIN r : r[k] = queue[j]  BY <2>5, <3>2
      <3> QED  BY <3>1, <3>3 DEF Carries
    <2> QED  BY <2>1, <2>4, <2>5, <2>6, <2>7
  <1> QED  BY <1>2, <1>3
-----------------------------------------------------------------------------
(* Types of what a step writes.                                            *)

ReplyTypes ==
  {"variants_ready", "agent_error", "completed", "carbonize_required", "discarded", "steer_done"}

LEMMA RequestedType ==
  ASSUME NEW j \in Snapshot, NEW type \in Requests, NEW v \in Variants \cup {0}
  PROVE  Requested(j, type, v) \in Snapshot /\ Requested(j, type, v).pending = type
  <1> DEFINE variant == IF type = "accept" THEN v ELSE j.variant
             r == Requested(j, type, v)
  <1>1. PhaseOf[type] \in {"generate_requested", "accept_requested", "discard_requested", "steer_requested"}
    BY DEF PhaseOf, Requests
  <1>2. variant \in Variants \cup {0}  BY DEF Snapshot
  <1>3. type \in {NoEvent, "generate", "accept", "discard", "steer"}  BY DEF Requests
  <1>4. r = [j EXCEPT !.phase = PhaseOf[type], !.pending = type, !.variant = variant]
    BY DEF Requested, Snapshot
  <1> HIDE DEF variant, r
  <1> QED  BY <1>1, <1>2, <1>3, <1>4 DEF Snapshot, r

LEMMA RepliedType ==
  ASSUME NEW j \in Snapshot, NEW reply \in ReplyTypes
  PROVE  Replied(j, reply) \in Snapshot /\ Replied(j, reply).pending = NoEvent
  BY DEF Replied, Snapshot, ReplyTypes

LEMMA NotedType ==
  ASSUME NEW j \in Snapshot, NEW c \in Checkpoint
  PROVE  /\ Noted(j, c) \in Snapshot /\ Noted(j, c).pending = j.pending
         /\ j.phase \in {"completed", "discarded"} => Noted(j, c) = j
  <1>1. CASE j.phase \in {"completed", "discarded"}  BY <1>1 DEF Noted
  <1>2. CASE j.phase \notin {"completed", "discarded"} /\ c.revision >= j.revision
    <2>1. Noted(j, c) = [j EXCEPT !.phase = c.phase, !.revision = c.revision]  BY <1>2 DEF Noted
    <2>2. c.phase \in PageStates /\ c.revision \in 0 .. MaxRevision  BY DEF Checkpoint
    <2> QED  BY <1>2, <2>1, <2>2 DEF Snapshot
  <1>3. CASE ~(c.revision >= j.revision)  BY <1>3 DEF Noted
  <1> QED  BY <1>1, <1>2, <1>3

LEMMA InformedType ==
  ASSUME NEW p \in Page, NEW reply
  PROVE  Informed(p, reply) \in Page
  <1>1. \A state \in PageStates : [p EXCEPT !.state = state] \in Page  BY DEF Page
  <1>2. {"gone", "cycling"} \subseteq PageStates  BY DEF PageStates
  <1>3. Informed(p, reply) \in {p, [p EXCEPT !.state = "gone"], [p EXCEPT !.state = "cycling"]}
    <2>1. CASE reply = "discarded"  BY <2>1 DEF Informed
    <2>2. CASE reply = "completed"  BY <2>2 DEF Informed
    <2>3. CASE reply = "agent_error"
      <3>1. Informed(p, reply) = [p EXCEPT !.state = IF p.state = "saving" THEN "cycling" ELSE "gone"]
        BY <2>3 DEF Informed, Page
      <3> QED  BY <3>1
    <2>4. CASE reply = "steer_done"  BY <2>4 DEF Informed
    <2>5. CASE reply \notin {"discarded", "completed", "agent_error", "steer_done"}  BY <2>5 DEF Informed
    <2> QED  BY <2>1, <2>2, <2>3, <2>4, <2>5
  <1> QED  BY <1>1, <1>2, <1>3

LEMMA RepliesType ==
  ASSUME NEW e \in Sound, e.id # NoId
  PROVE  Replies(e) \subseteq ReplyTypes
  <1>1. e.type \in {"generate", "accept", "discard", "steer"}  BY DEF Sound, Requests
  <1>2. CASE e.type = "generate"  BY <1>2 DEF Replies, ReplyTypes
  <1>3. CASE e.type = "accept"    BY <1>3 DEF Replies, ReplyTypes
  <1>4. CASE e.type = "discard"   BY <1>4 DEF Replies, ReplyTypes
  <1>5. CASE e.type = "steer"     BY <1>5 DEF Replies, ReplyTypes
  <1> QED  BY <1>1, <1>2, <1>3, <1>4, <1>5

LEMMA TypesBy ==
  ASSUME queue' \in Seq(Sound), held' \in Seq(Sound), up' \in BOOLEAN, exitTimer' \in BOOLEAN,
         polls' \in 0 .. MaxHeld, timer' \in NoTimer .. Lease, clients' \subseteq Clients,
         journal' \in [Ids -> Snapshot], page' \in [Ids -> Page], sent' \subseteq Checkpoint
  PROVE  TypeInv'
  <1>1. Sound \subseteq Entry  BY DEF Sound
  <1>2. queue' \in Seq(Entry) /\ held' \in Seq(Entry)  BY <1>1
  <1> QED  BY <1>2 DEF TypeInv, TypeOK

-----------------------------------------------------------------------------
(* What a step keeps.                                                      *)

(* The same in terms of Carries.                                           *)
LEMMA PendingMeans ==
  ASSUME TypeInv
  PROVE  /\ PendingIsQueued <=>
              (up => \A s \in Ids : ~Terminal(s) /\ journal[s].pending # NoEvent =>
                       Carries(queue, s, journal[s].pending))
         /\ \A s \in Ids : journal[s].pending # NoEvent => journal[s].pending \in Requests
  <1>1. journal \in [Ids -> Snapshot]  BY DEF TypeInv, TypeOK
  <1>2. \A s \in Ids : journal[s].pending \in {NoEvent, "generate", "accept", "discard", "steer"}
    BY <1>1 DEF Snapshot
  <1> QED  BY <1>1, <1>2 DEF PendingIsQueued, Carries, Requests

LEMMA PendingMeansNext ==
  ASSUME TypeInv'
  PROVE  PendingIsQueued' <=>
           (up' => \A s \in Ids : ~Terminal(s)' /\ journal'[s].pending # NoEvent =>
                     Carries(queue', s, journal'[s].pending))
  <1>1. journal' \in [Ids -> Snapshot]  BY DEF TypeInv, TypeOK
  <1> QED  BY <1>1 DEF PendingIsQueued, Carries

LEMMA SameJournal ==
  ASSUME IInv, TypeInv', UNCHANGED <<up, journal>>, Keeps(queue, queue')
  PROVE  PendingIsQueued'
  <1>1. ASSUME up, NEW s \in Ids, ~Terminal(s), journal[s].pending # NoEvent
        PROVE  Carries(queue', s, journal[s].pending)
    <2>1. Carries(queue, s, journal[s].pending) /\ journal[s].pending \in Requests
      BY <1>1, PendingMeans DEF IInv
    <2> QED  BY <2>1 DEF Keeps
  <1>2. \A s \in Ids : Terminal(s)' = Terminal(s)  BY DEF Terminal
  <1> QED  BY <1>1, <1>2, PendingMeansNext

LEMMA SamePages ==
  ASSUME IInv, UNCHANGED clients, NoNewAuto(queue, queue')
  PROVE  ExitMeansAlone'
  BY DEF IInv, ExitMeansAlone, NoNewAuto

LEMMA KeepsItself == Keeps(queue, queue) /\ NoNewAuto(queue, queue)
  BY DEF Keeps, NoNewAuto

(* Steps that leave the queue and the journal alone.                       *)
LEMMA QueueLeft ==
  ASSUME IInv, TypeInv', UNCHANGED <<up, journal, queue, clients>>
  PROVE  IInv'
  <1>1. Keeps(queue, queue') /\ NoNewAuto(queue, queue')  BY KeepsItself
  <1> QED  BY <1>1, SameJournal, SamePages DEF IInv

(* Steps that flush what they made of the queue, and no journal.           *)
LEMMA QueueFlushed ==
  ASSUME IInv, TypeInv', NEW q, Keeps(queue, q), NoNewAuto(queue, q), Flushed(q),
         UNCHANGED <<up, journal, clients>>
  PROVE  IInv'
  <1>1. Keeps(queue, queue')  BY DEF Keeps, Flushed
  <1>2. NoNewAuto(queue, queue')  BY DEF NoNewAuto, Flushed
  <1> QED  BY <1>1, <1>2, SameJournal, SamePages DEF IInv

-----------------------------------------------------------------------------
(* The pages.                                                              *)

LEMMA Typed ==
  ASSUME TypeInv
  PROVE  /\ queue \in Seq(Sound) /\ held \in Seq(Sound) /\ up \in BOOLEAN /\ exitTimer \in BOOLEAN
         /\ polls \in 0 .. MaxHeld /\ timer \in NoTimer .. Lease /\ clients \subseteq Clients
         /\ journal \in [Ids -> Snapshot] /\ page \in [Ids -> Page] /\ sent \subseteq Checkpoint
  BY DEF TypeInv, TypeOK

LEMMA EnqueueOf ==
  ASSUME TypeInv, NEW e \in Sound, Enqueue(e)
  PROVE  /\ Flushed(Queued(queue, e)) /\ Queued(queue, e) \in Seq(Sound)
         /\ Keeps(queue, Queued(queue, e)) /\ (~e.auto => NoNewAuto(queue, Queued(queue, e)))
         /\ e.id # NoId => Carries(Queued(queue, e), e.id, e.type)
  <1>1. queue \in Seq(Sound) /\ held \in Seq(Sound) /\ polls \in 0 .. MaxHeld  BY Typed
  <1>2. /\ Queued(queue, e) \in Seq(Sound) /\ Keeps(queue, Queued(queue, e))
        /\ ~e.auto => NoNewAuto(queue, Queued(queue, e))
        /\ e.id # NoId => Carries(Queued(queue, e), e.id, e.type)
    BY <1>1, QueuedOf
  <1>3. Flush(Queued(queue, e), polls, held)  BY DEF Enqueue
  <1>4. Flushed(Queued(queue, e))  BY <1>1, <1>2, <1>3, FlushOf
  <1> QED  BY <1>2, <1>4

LEMMA PostKept ==
  ASSUME IInv, NEW id \in Ids, NEW type \in Requests, NEW v \in Variants \cup {0}, Post(id, type, v),
         UNCHANGED <<up, clients, exitTimer>>, page' \in [Ids -> Page], sent' \subseteq Checkpoint
  PROVE  IInv'
  <1> DEFINE e == NewEntry(id, type, v, FALSE)
             q == Queued(queue, e)
  <1>1. TypeInv /\ up  BY DEF IInv, Post
  <1>2. e \in Sound /\ e.id = id /\ e.type = type /\ ~e.auto
    BY RequestEntry, Zenon
  <1>3. id # NoId  BY LeaseType
  <1>4. Enqueue(e)  BY DEF Post
  <1> HIDE DEF e
  <1>5. Flushed(q) /\ q \in Seq(Sound) /\ Keeps(queue, q) /\ NoNewAuto(queue, q) /\ Carries(q, id, type)
    BY <1>1, <1>2, <1>3, <1>4, EnqueueOf
  <1> HIDE DEF q
  <1>6. Keeps(queue, queue') /\ NoNewAuto(queue, queue') /\ Carries(queue', id, type)
    BY <1>5 DEF Keeps, NoNewAuto, Flushed
  <1>7. journal \in [Ids -> Snapshot]  BY <1>1, Typed
  <1>8. journal' = [journal EXCEPT ![id] = Requested(journal[id], type, v)]  BY DEF Post
  <1>9. Requested(journal[id], type, v) \in Snapshot /\ Requested(journal[id], type, v).pending = type
    BY <1>7, RequestedType
  <1>10. journal' \in [Ids -> Snapshot] /\ journal'[id].pending = type
         /\ \A s \in Ids \ {id} : journal'[s] = journal[s]
    BY <1>7, <1>8, <1>9
  <1>11. TypeInv'
    <2>1. up' \in BOOLEAN /\ exitTimer' \in BOOLEAN /\ clients' \subseteq Clients  BY <1>1, Typed
    <2> QED  BY <1>5, <1>10, <2>1, TypesBy DEF Flushed
  <1>12. PendingIsQueued'
    <2> SUFFICES ASSUME NEW s \in Ids, ~Terminal(s)', journal'[s].pending # NoEvent
                 PROVE  Carries(queue', s, journal'[s].pending)
      BY <1>11, PendingMeansNext
    <2>1. CASE s = id  BY <1>6, <1>10, <2>1
    <2>2. CASE s # id
      <3>1. journal'[s] = journal[s]  BY <1>10, <2>2
      <3>2. ~Terminal(s) /\ journal[s].pending # NoEvent  BY <3>1 DEF Terminal
      <3>3. Carries(queue, s, journal[s].pending) /\ journal[s].pending \in Requests
        BY <1>1, <3>2, PendingMeans DEF IInv
      <3> QED  BY <1>6, <3>1, <3>3 DEF Keeps
    <2> QED  BY <2>1, <2>2
  <1>13. ExitMeansAlone'  BY <1>6, SamePages
  <1> QED  BY <1>11, <1>12, <1>13 DEF IInv

LEMMA PageSet ==
  ASSUME TypeInv, NEW s \in Ids, NEW state \in PageStates, page' = [page EXCEPT ![s].state = state]
  PROVE  page' \in [Ids -> Page]
  <1>1. page \in [Ids -> Page]  BY Typed
  <1>2. [page[s] EXCEPT !.state = state] \in Page  BY <1>1 DEF Page
  <1>3. page' = [page EXCEPT ![s] = [page[s] EXCEPT !.state = state]]  OBVIOUS
  <1> QED  BY <1>1, <1>2, <1>3

LEMMA RequestsKept ==
  ASSUME IInv
  PROVE  /\ \A s \in Sessions : Generate(s) => IInv'
         /\ \A s \in Steers : Steer(s) => IInv'
         /\ \A s \in Sessions, v \in Variants : Accept(s, v) => IInv'
         /\ \A s \in Sessions : Discard(s) => IInv'
  <1>1. TypeInv /\ page \in [Ids -> Page] /\ sent \subseteq Checkpoint  BY Typed DEF IInv
  <1>2. {"generating", "steer", "saving", "gone"} \subseteq PageStates  BY DEF PageStates
  <1>3. 0 \in Variants \cup {0} /\ "generate" \in Requests /\ "steer" \in Requests
        /\ "accept" \in Requests /\ "discard" \in Requests
    BY DEF Requests
  <1>4. ASSUME NEW s \in Sessions, Generate(s) PROVE IInv'
    <2>1. s \in Ids  BY DEF Ids
    <2>2. Post(s, "generate", 0) /\ UNCHANGED <<up, clients, exitTimer, sent>>  BY <1>4 DEF Generate
    <2>3. page' = [page EXCEPT ![s].state = "generating"]  BY <1>4 DEF Generate
    <2>4. page' \in [Ids -> Page]  BY <1>1, <1>2, <2>1, <2>3, PageSet
    <2> QED  BY <1>1, <1>3, <2>1, <2>2, <2>4, PostKept
  <1>5. ASSUME NEW s \in Steers, Steer(s) PROVE IInv'
    <2>1. s \in Ids  BY DEF Ids
    <2>2. Post(s, "steer", 0) /\ UNCHANGED <<up, clients, exitTimer, sent>>  BY <1>5 DEF Steer
    <2>3. page' = [page EXCEPT ![s].state = "steer"]  BY <1>5 DEF Steer
    <2>4. page' \in [Ids -> Page]  BY <1>1, <1>2, <2>1, <2>3, PageSet
    <2> QED  BY <1>1, <1>3, <2>1, <2>2, <2>4, PostKept
  <1>6. ASSUME NEW s \in Sessions, NEW v \in Variants, Accept(s, v) PROVE IInv'
    <2>1. s \in Ids /\ v \in Variants \cup {0}  BY DEF Ids
    <2>2. Post(s, "accept", v) /\ UNCHANGED <<up, clients, exitTimer, sent>>  BY <1>6 DEF Accept
    <2>3. page' = [page EXCEPT ![s].state = "saving"] \/ page' = page  BY <1>6 DEF Accept
    <2>4. page' \in [Ids -> Page]  BY <1>1, <1>2, <2>1, <2>3, PageSet
    <2> QED  BY <1>1, <1>3, <2>1, <2>2, <2>4, PostKept
  <1>7. ASSUME NEW s \in Sessions, Discard(s) PROVE IInv'
    <2>1. s \in Ids  BY DEF Ids
    <2>2. Post(s, "discard", 0) /\ UNCHANGED <<up, clients, exitTimer, sent>>  BY <1>7 DEF Discard
    <2>3. page' = [page EXCEPT ![s].state = "gone"] \/ page' = page  BY <1>7 DEF Discard
    <2>4. page' \in [Ids -> Page]  BY <1>1, <1>2, <2>1, <2>3, PageSet
    <2> QED  BY <1>1, <1>3, <2>1, <2>2, <2>4, PostKept
  <1> QED  BY <1>4, <1>5, <1>6, <1>7
LEMMA VariantsArriveKept == ASSUME IInv, NEW s \in Sessions, VariantsArrive(s) PROVE IInv'
  <1>1. TypeInv /\ s \in Ids /\ "cycling" \in PageStates  BY DEF IInv, Ids, PageStates
  <1>2. page' \in [Ids -> Page]
    <2>1. page' = [page EXCEPT ![s].state = "cycling"]  BY DEF VariantsArrive
    <2> QED  BY <1>1, <2>1, PageSet
  <1>3. UNCHANGED <<up, queue, polls, timer, clients, exitTimer, journal, held, sent>>
    BY DEF VariantsArrive
  <1>4. TypeInv'  BY <1>1, <1>2, <1>3, Typed, TypesBy
  <1> QED  BY <1>3, <1>4, QueueLeft

LEMMA SendCheckpointKept == ASSUME IInv, NEW s \in Ids, SendCheckpoint(s) PROVE IInv'
  <1> DEFINE new == [id |-> s, phase |-> page[s].state, revision |-> page[s].revision + 1]
  <1>1. TypeInv /\ page \in [Ids -> Page] /\ sent \subseteq Checkpoint  BY Typed DEF IInv
  <1>2. page[s].revision < MaxRevision /\ page' = [page EXCEPT ![s].revision = page[s].revision + 1]
        /\ sent' = sent \cup {new}
    BY DEF SendCheckpoint
  <1>3. page[s] \in Page /\ page[s].state \in PageStates /\ page[s].revision \in 0 .. MaxRevision
    BY <1>1 DEF Page
  <1>4. page[s].revision + 1 \in 0 .. MaxRevision
    <2>1. MaxRevision \in Nat  BY LiveAssumption DEF LiveAssumption
    <2> QED  BY <1>2, <1>3, <2>1
  <1>5. [page[s] EXCEPT !.revision = page[s].revision + 1] \in Page  BY <1>3, <1>4 DEF Page
  <1>6. page' \in [Ids -> Page]
    <2>1. page' = [page EXCEPT ![s] = [page[s] EXCEPT !.revision = page[s].revision + 1]]  BY <1>2
    <2> QED  BY <1>1, <1>5, <2>1
  <1>7. new \in Checkpoint  BY <1>3, <1>4 DEF Checkpoint
  <1>8. sent' \subseteq Checkpoint  BY <1>1, <1>2, <1>7
  <1>9. UNCHANGED <<up, queue, polls, timer, clients, exitTimer, journal, held>>
    BY DEF SendCheckpoint
  <1>10. TypeInv'  BY <1>1, <1>6, <1>8, <1>9, Typed, TypesBy
  <1> QED  BY <1>9, <1>10, QueueLeft

(* A late checkpoint may change the phase of a session that is not         *)
(* terminal, and never what is pending.                                    *)
LEMMA CheckpointArrivesKept == ASSUME IInv, NEW c \in sent, CheckpointArrives(c) PROVE IInv'
  <1>1. TypeInv /\ journal \in [Ids -> Snapshot] /\ sent \subseteq Checkpoint  BY Typed DEF IInv
  <1>2. c \in Checkpoint /\ c.id \in Ids /\ sent' \subseteq Checkpoint
    BY <1>1 DEF CheckpointArrives, Checkpoint
  <1>3. UNCHANGED <<up, queue, polls, timer, clients, exitTimer, held, page>>
    BY DEF CheckpointArrives
  <1>4. journal' = IF up THEN [journal EXCEPT ![c.id] = Noted(journal[c.id], c)] ELSE journal
    BY DEF CheckpointArrives
  <1>5. journal' \in [Ids -> Snapshot]
        /\ \A s \in Ids : journal'[s] = journal[s] \/ journal'[s] = Noted(journal[s], c)
    <2>1. Noted(journal[c.id], c) \in Snapshot  BY <1>1, <1>2, NotedType
    <2> QED  BY <1>1, <1>2, <1>4, <2>1
  <1>6. TypeInv'  BY <1>1, <1>2, <1>3, <1>5, Typed, TypesBy
  <1>7. PendingIsQueued'
    <2> SUFFICES ASSUME up, NEW s \in Ids, ~Terminal(s)', journal'[s].pending # NoEvent
                 PROVE  Carries(queue, s, journal'[s].pending)
      BY <1>3, <1>6, PendingMeansNext
    <2>1. journal[s] \in Snapshot  BY <1>1
    <2>2. /\ Noted(journal[s], c).pending = journal[s].pending
          /\ journal[s].phase \in {"completed", "discarded"} => Noted(journal[s], c) = journal[s]
      BY <1>2, <2>1, NotedType
    <2>3. journal'[s].pending = journal[s].pending  BY <1>5, <2>2
    <2>4. ~Terminal(s)  BY <1>5, <2>2 DEF Terminal
    <2> QED  BY <1>1, <2>3, <2>4, PendingMeans DEF IInv
  <1>8. ExitMeansAlone'  BY <1>3, KeepsItself, SamePages
  <1> QED  BY <1>6, <1>7, <1>8 DEF IInv

LEMMA AnonymousKept ==
  ASSUME IInv, NEW type \in {"exit", "prefetch"}, NEW auto \in BOOLEAN, auto => type = "exit" /\ clients = {},
         Enqueue(NewEntry(NoId, type, 0, auto)),
         exitTimer' \in BOOLEAN, UNCHANGED <<up, clients, journal, page, sent>>
  PROVE  IInv'
  <1> DEFINE e == NewEntry(NoId, type, 0, auto)
             q == Queued(queue, e)
  <1>1. TypeInv  BY DEF IInv
  <1>2. e \in Sound /\ (e.auto <=> auto)
    <2>1. NoId \in Ids \cup {NoId} /\ 0 \in Variants \cup {0} /\ (auto => type = "exit")
          /\ type \in {"generate", "accept", "discard", "steer", "exit", "prefetch"}
      OBVIOUS
    <2> QED  BY <2>1, NewEntryType
  <1> HIDE DEF e
  <1>3. Flushed(q) /\ q \in Seq(Sound) /\ Keeps(queue, q) /\ (~auto => NoNewAuto(queue, q))
    BY <1>1, <1>2, EnqueueOf DEF e
  <1> HIDE DEF q
  <1>4. TypeInv'  BY <1>1, <1>3, Typed, TypesBy DEF Flushed
  <1>5. CASE ~auto  BY <1>3, <1>4, <1>5, QueueFlushed
  <1>6. CASE auto
    <2>1. Keeps(queue, queue')  BY <1>3 DEF Keeps, Flushed
    <2>2. PendingIsQueued'  BY <1>4, <2>1, SameJournal
    <2>3. clients' = {}  BY <1>6
    <2> QED  BY <1>4, <2>2, <2>3 DEF IInv, ExitMeansAlone
  <1> QED  BY <1>5, <1>6

LEMMA PostAnonymousKept == ASSUME IInv, NEW type \in {"exit", "prefetch"}, PostAnonymous(type) PROVE IInv'
  <1>1. /\ Enqueue(NewEntry(NoId, type, 0, FALSE))
        /\ UNCHANGED <<up, clients, exitTimer, journal, page, sent>>
    BY DEF PostAnonymous
  <1>2. exitTimer' \in BOOLEAN  BY <1>1, Typed DEF IInv
  <1>3. FALSE \in BOOLEAN /\ (FALSE => type = "exit" /\ clients = {})  OBVIOUS
  <1> QED  BY <1>1, <1>2, <1>3, AnonymousKept

LEMMA ExitTimerFiresKept == ASSUME IInv, ExitTimerFires PROVE IInv'
  <1>1. /\ exitTimer' = FALSE /\ UNCHANGED <<up, clients, journal, page, sent>>
        /\ IF clients = {} THEN Enqueue(NewEntry(NoId, "exit", 0, TRUE))
                           ELSE UNCHANGED <<queue, polls, timer, held>>
    BY DEF ExitTimerFires
  <1>2. CASE clients = {}
    <2>1. Enqueue(NewEntry(NoId, "exit", 0, TRUE)) /\ exitTimer' \in BOOLEAN  BY <1>1, <1>2
    <2>2. TRUE \in BOOLEAN /\ "exit" \in {"exit", "prefetch"} /\ (TRUE => "exit" = "exit" /\ clients = {})
      BY <1>2
    <2> QED  BY <1>1, <2>1, <2>2, AnonymousKept
  <1>3. CASE clients # {}
    <2>1. UNCHANGED <<queue, polls, timer, held>>  BY <1>1, <1>3
    <2>2. TypeInv'  BY <1>1, <2>1, Typed, TypesBy DEF IInv
    <2> QED  BY <1>1, <2>1, <2>2, QueueLeft
  <1> QED  BY <1>2, <1>3

(* A page that connects takes the exits out, and no request.               *)
LEMMA ConnectKept == ASSUME IInv, NEW c \in Clients, Connect(c) PROVE IInv'
  <1> DEFINE stay == {i \in DOMAIN queue : queue[i].type # "exit"}
             q == AtPlaces(queue, stay)
  <1>1. TypeInv /\ queue \in Seq(Sound) /\ clients \subseteq Clients  BY Typed DEF IInv
  <1>2. /\ clients' = clients \cup {c} /\ exitTimer' = FALSE
        /\ UNCHANGED <<up, polls, journal, held, page, sent>>
        /\ \/ queue' = q /\ timer' = NextExpiry(q)
           \/ queue' = queue /\ timer' = timer /\ \A i \in DOMAIN queue : queue[i].type # "exit"
    BY DEF Connect
  <1>3. /\ stay \subseteq DOMAIN queue
        /\ \A i \in DOMAIN queue : queue[i].type # "exit" => i \in stay
        /\ \A i \in stay : queue[i].type # "exit"
    OBVIOUS
  <1> HIDE DEF stay
  <1>4. /\ q \in Seq(Sound)
        /\ \A k \in DOMAIN q : \E i \in stay : q[k] = queue[i]
        /\ \A i \in stay : \E k \in DOMAIN q : q[k] = queue[i]
    BY <1>1, <1>3, KeptAtPlaces
  <1> HIDE DEF q
  <1>5. queue' \in Seq(Sound) /\ \A k \in DOMAIN queue' : \E i \in stay : queue'[k] = queue[i]
    BY <1>1, <1>2, <1>3, <1>4
  <1>6. \A i \in stay : \E k \in DOMAIN queue' : queue'[k] = queue[i]  BY <1>2, <1>3, <1>4
  <1>7. Keeps(queue, queue')
    <2> SUFFICES ASSUME NEW s \in Ids, NEW type \in Requests, NEW i \in DOMAIN queue,
                        queue[i].id = s, queue[i].type = type
                 PROVE  Carries(queue', s, type)
      BY DEF Keeps, Carries
    <2>1. type # "exit"  BY DEF Requests
    <2>2. i \in stay  BY <1>3, <2>1
    <2>3. PICK k \in DOMAIN queue' : queue'[k] = queue[i]  BY <1>6, <2>2
    <2> QED  BY <2>3 DEF Carries
  <1>8. timer' \in NoTimer .. Lease
    <2>1. NextExpiry(q) \in NoTimer .. Lease /\ timer \in NoTimer .. Lease
      BY <1>1, <1>4, NextExpiryType, Typed
    <2> QED  BY <1>2, <2>1
  <1>9. TypeInv'
    <2>1. clients' \subseteq Clients /\ exitTimer' \in BOOLEAN  BY <1>1, <1>2
    <2> QED  BY <1>1, <1>2, <1>5, <1>8, <2>1, Typed, TypesBy
  <1>10. PendingIsQueued'  BY <1>2, <1>7, <1>9, SameJournal
  <1>11. ExitMeansAlone'
    <2> SUFFICES ASSUME NEW k \in DOMAIN queue' PROVE ~queue'[k].auto  BY DEF ExitMeansAlone
    <2>1. PICK i \in stay : queue'[k] = queue[i]  BY <1>5
    <2>2. i \in DOMAIN queue /\ queue[i].type # "exit"  BY <1>3
    <2>3. queue[i] \in Sound  BY <1>1, <2>2
    <2> QED  BY <2>1, <2>2, <2>3 DEF Sound
  <1> QED  BY <1>9, <1>10, <1>11 DEF IInv

LEMMA DisconnectKept == ASSUME IInv, NEW c \in Clients, Disconnect(c) PROVE IInv'
  <1>1. /\ c \in clients /\ clients' = clients \ {c}
        /\ exitTimer' = (exitTimer \/ clients' = {})
        /\ UNCHANGED <<up, queue, polls, timer, journal, held, page, sent>>
    BY DEF Disconnect
  <1>2. TypeInv'
    <2>1. clients' \subseteq Clients  BY <1>1, Typed DEF IInv
    <2>2. exitTimer' \in BOOLEAN  BY <1>1
    <2> QED  BY <1>1, <2>1, <2>2, Typed, TypesBy DEF IInv
  <1>3. PendingIsQueued'  BY <1>1, <1>2, KeepsItself, SameJournal
  <1>4. ExitMeansAlone'  BY <1>1 DEF IInv, ExitMeansAlone
  <1> QED  BY <1>2, <1>3, <1>4 DEF IInv

-----------------------------------------------------------------------------
(* The agent.                                                              *)

LEMMA PollKept == ASSUME IInv, Poll PROVE IInv'
  <1>1. /\ TypeInv /\ queue \in Seq(Sound) /\ held \in Seq(Sound) /\ polls \in 0 .. MaxHeld
        /\ timer \in NoTimer .. Lease
    BY Typed DEF IInv
  <1>2. UNCHANGED <<up, clients, exitTimer, journal, page, sent>>  BY DEF Poll
  <1>3. CASE Available(queue) # {}
    <2>1. /\ queue' = Leased(queue, Taken(queue, 1)) /\ held' = held \o AtPlaces(queue, Taken(queue, 1))
          /\ timer' = IF Len(queue') = Len(queue) THEN NextExpiry(queue') ELSE timer
          /\ polls' = polls
      BY <1>3 DEF Poll
    <2>2. queue' \in Seq(Sound) /\ Keeps(queue, queue') /\ NoNewAuto(queue, queue')
      <3>1. 1 \in Nat  OBVIOUS
      <3>2. Taken(queue, 1) \subseteq DOMAIN queue  BY <1>1, <3>1, TakenOf
      <3> QED  BY <1>1, <2>1, <3>2, LeasedOf
    <2>3. held' \in Seq(Sound)
      <3>1. 1 \in Nat  OBVIOUS
      <3> QED  BY <1>1, <2>1, <3>1, HandedType
    <2>4. timer' \in NoTimer .. Lease
      <3>1. NextExpiry(queue') \in NoTimer .. Lease  BY <2>2, NextExpiryType
      <3> QED  BY <1>1, <2>1, <3>1
    <2>5. TypeInv'  BY <1>1, <1>2, <2>1, <2>2, <2>3, <2>4, Typed, TypesBy
    <2> QED  BY <1>2, <2>2, <2>5, SameJournal, SamePages DEF IInv
  <1>4. CASE Available(queue) = {}
    <2>1. /\ polls' = polls + 1 /\ timer' = NextExpiry(queue) /\ UNCHANGED <<queue, held>>
          /\ polls + Len(held) < MaxHeld
      BY <1>4 DEF Poll
    <2>2. polls' \in 0 .. MaxHeld
      <3>1. Len(held) \in Nat  BY <1>1
      <3> QED  BY <1>1, <2>1, <3>1, LeaseType
    <2>3. timer' \in NoTimer .. Lease  BY <1>1, <2>1, NextExpiryType
    <2>4. TypeInv'  BY <1>1, <1>2, <2>1, <2>2, <2>3, Typed, TypesBy
    <2> QED  BY <1>2, <2>1, <2>4, QueueLeft
  <1> QED  BY <1>3, <1>4

LEMMA PollEndsKept == ASSUME IInv, PollEnds PROVE IInv'
  <1>1. /\ polls > 0 /\ polls' = polls - 1
        /\ UNCHANGED <<up, queue, timer, clients, exitTimer, journal, held, page, sent>>
    BY DEF PollEnds
  <1>2. polls' \in 0 .. MaxHeld
    <2>1. polls \in 0 .. MaxHeld  BY Typed DEF IInv
    <2> QED  BY <1>1, <2>1, LeaseType
  <1>3. TypeInv'  BY <1>1, <1>2, Typed, TypesBy DEF IInv
  <1> QED  BY <1>1, <1>3, QueueLeft

(* A reply takes an entry out of the queue: what was pending of that       *)
(* session is settled by the same reply.                                   *)
LEMMA PollPostKept ==
  ASSUME IInv, NEW id \in Ids, NEW reply \in ReplyTypes, NEW h \in Seq(Sound), PollPost(id, reply, h),
         UNCHANGED <<up, clients, exitTimer, sent>>
  PROVE  IInv'
  <1> DEFINE q == Acknowledged(id)
  <1>1. /\ TypeInv /\ queue \in Seq(Sound) /\ polls \in 0 .. MaxHeld
        /\ journal \in [Ids -> Snapshot] /\ page \in [Ids -> Page]
    BY Typed DEF IInv
  <1>2. CASE ~(Waiting(id) \/ journal[id].phase # "new")
    <2>1. held' = h /\ UNCHANGED <<journal, queue, polls, timer, page>>  BY <1>2 DEF PollPost
    <2>2. TypeInv'  BY <1>1, <2>1, Typed, TypesBy
    <2> QED  BY <2>1, <2>2, QueueLeft
  <1>3. CASE Waiting(id) \/ journal[id].phase # "new"
    <2>1. /\ journal' = IF ~Waiting(id) /\ Terminal(id) THEN journal
                        ELSE [journal EXCEPT ![id] = Replied(journal[id], reply)]
          /\ Flush(q, polls, h)
          /\ page' \in {page} \cup
                 (IF clients = {} THEN {} ELSE {[page EXCEPT ![id] = Informed(page[id], reply)]})
      BY <1>3 DEF PollPost
    <2>2. /\ q \in Seq(Sound) /\ NoNewAuto(queue, q)
          /\ \A s \in Ids \ {id}, type \in Requests : Carries(queue, s, type) => Carries(q, s, type)
          /\ ~Waiting(id) => q = queue
      BY <1>1, AcknowledgedOf
    <2> HIDE DEF q
    <2>3. Flushed(q)  BY <1>1, <2>1, <2>2, FlushOf
    <2>4. page' \in [Ids -> Page]
      <3>1. page' = page \/ page' = [page EXCEPT ![id] = Informed(page[id], reply)]  BY <2>1
      <3>2. Informed(page[id], reply) \in Page  BY <1>1, InformedType
      <3> QED  BY <1>1, <3>1, <3>2
    <2>5. Replied(journal[id], reply) \in Snapshot /\ Replied(journal[id], reply).pending = NoEvent
      BY <1>1, RepliedType
    <2>6. journal' \in [Ids -> Snapshot] /\ \A s \in Ids \ {id} : journal'[s] = journal[s]
      BY <1>1, <2>1, <2>5
    <2>7. journal'[id].pending = NoEvent \/ Terminal(id)'
      <3>1. CASE ~Waiting(id) /\ Terminal(id)  BY <2>1, <3>1 DEF Terminal
      <3>2. CASE ~(~Waiting(id) /\ Terminal(id))
        <4>1. journal' = [journal EXCEPT ![id] = Replied(journal[id], reply)]  BY <2>1, <3>2
        <4> QED  BY <1>1, <2>5, <4>1
      <3> QED  BY <3>1, <3>2
    <2>8. TypeInv'  BY <1>1, <2>3, <2>4, <2>6, Typed, TypesBy DEF Flushed
    <2>9. PendingIsQueued'
      <3> SUFFICES ASSUME up, NEW s \in Ids, ~Terminal(s)', journal'[s].pending # NoEvent
                   PROVE  Carries(queue', s, journal'[s].pending)
        BY <2>8, PendingMeansNext
      <3>1. s # id  BY <2>7
      <3>2. journal'[s] = journal[s]  BY <2>6, <3>1
      <3>3. ~Terminal(s) /\ journal[s].pending # NoEvent  BY <3>2 DEF Terminal
      <3>4. Carries(queue, s, journal[s].pending) /\ journal[s].pending \in Requests
        BY <1>1, <3>3, PendingMeans DEF IInv
      <3>5. Carries(q, s, journal[s].pending)  BY <2>2, <3>1, <3>4
      <3> QED  BY <2>3, <3>2, <3>4, <3>5 DEF Flushed, Keeps
    <2>10. NoNewAuto(queue, queue')  BY <2>2, <2>3 DEF NoNewAuto, Flushed
    <2> QED  BY <2>8, <2>9, <2>10, SamePages DEF IInv
  <1> QED  BY <1>2, <1>3

LEMMA ReplyKept == ASSUME IInv, NEW i \in DOMAIN held, Reply(i) PROVE IInv'
  <1>1. held \in Seq(Sound) /\ held[i] \in Sound /\ held[i].id # NoId  BY Typed DEF IInv, Reply
  <1>2. held[i].id \in Ids  BY <1>1 DEF Sound, Entry
  <1>3. RemoveAt(held, i) \in Seq(Sound)  BY <1>1, Removal
  <1>4. PICK reply \in Replies(held[i]) : PollPost(held[i].id, reply, RemoveAt(held, i))  BY DEF Reply
  <1>5. reply \in ReplyTypes  BY <1>1, RepliesType
  <1>6. UNCHANGED <<up, clients, exitTimer, sent>>  BY DEF Reply
  <1> QED  BY <1>2, <1>3, <1>4, <1>5, <1>6, PollPostKept

LEMMA ForgetKept == ASSUME IInv, NEW i \in DOMAIN held, Forget(i) PROVE IInv'
  <1>1. held \in Seq(Sound)  BY Typed DEF IInv
  <1>2. held' \in Seq(Sound)  BY <1>1, Removal DEF Forget
  <1>3. UNCHANGED <<up, queue, polls, timer, clients, exitTimer, journal, page, sent>>  BY DEF Forget
  <1>4. TypeInv'  BY <1>2, <1>3, Typed, TypesBy DEF IInv
  <1> QED  BY <1>3, <1>4, QueueLeft

-----------------------------------------------------------------------------
(* Time, and the server's life.                                            *)

LEMMA DownKept ==
  ASSUME IInv, Down, held' \in Seq(Sound), UNCHANGED <<journal, page, sent>>
  PROVE  IInv'
  <1>1. up' = FALSE /\ queue' = <<>> /\ polls' = 0 /\ timer' = NoTimer /\ clients' = {} /\ exitTimer' = FALSE
    BY DEF Down
  <1>2. <<>> \in Seq(Sound) /\ 0 \in 0 .. MaxHeld /\ NoTimer \in NoTimer .. Lease
    BY LeaseType DEF NoTimer
  <1>3. clients' \subseteq Clients /\ up' \in BOOLEAN /\ exitTimer' \in BOOLEAN  BY <1>1
  <1>4. TypeInv'  BY <1>1, <1>2, <1>3, Typed, TypesBy DEF IInv
  <1>5. PendingIsQueued'  BY <1>1, <1>4, PendingMeansNext
  <1>6. ExitMeansAlone'  BY <1>1 DEF ExitMeansAlone
  <1> QED  BY <1>4, <1>5, <1>6 DEF IInv

LEMMA CrashKept == ASSUME IInv, Crash PROVE IInv'
  <1>1. Down /\ UNCHANGED <<journal, held, page, sent>>  BY DEF Crash
  <1>2. held' \in Seq(Sound)  BY <1>1, Typed DEF IInv
  <1> QED  BY <1>1, <1>2, DownKept

LEMMA StopKept == ASSUME IInv, NEW i \in DOMAIN held, Stop(i) PROVE IInv'
  <1>1. Down /\ UNCHANGED <<journal, page, sent>> /\ held' = RemoveAt(held, i)  BY DEF Stop
  <1>2. held \in Seq(Sound)  BY Typed DEF IInv
  <1>3. held' \in Seq(Sound)  BY <1>1, <1>2, Removal
  <1> QED  BY <1>1, <1>3, DownKept

LEMMA TickKept == ASSUME IInv, Tick PROVE IInv'
  <1> DEFINE less(i) == IF queue[i].lease = 0 THEN 0 ELSE queue[i].lease - 1
             q == [i \in DOMAIN queue |-> [queue[i] EXCEPT !.lease = less(i)]]
  <1>1. TypeInv /\ queue \in Seq(Sound) /\ timer \in NoTimer .. Lease  BY Typed DEF IInv
  <1>2. /\ queue' = q /\ timer' = (IF timer > 0 THEN timer - 1 ELSE timer)
        /\ UNCHANGED <<up, polls, clients, exitTimer, journal, held, page, sent>>
    BY DEF Tick
  <1>3. ASSUME NEW i \in DOMAIN queue
        PROVE  /\ q[i] \in Sound /\ q[i].id = queue[i].id /\ q[i].type = queue[i].type
               /\ q[i].auto <=> queue[i].auto
    <2>1. queue[i] \in Sound /\ queue[i] \in Entry  BY <1>1 DEF Sound
    <2>2. less(i) \in 0 .. Lease
      <3>1. queue[i].lease \in 0 .. Lease  BY <2>1 DEF Entry
      <3> QED  BY <3>1, LeaseType
    <2>3. q[i] = [queue[i] EXCEPT !.lease = less(i)]  OBVIOUS
    <2> HIDE DEF less, q
    <2> QED  BY <2>1, <2>2, <2>3, EntryMarked
  <1>4. DOMAIN q = DOMAIN queue /\ q = [i \in DOMAIN queue |-> q[i]]  OBVIOUS
  <1> HIDE DEF q
  <1>5. q \in Seq(Sound)
    <2>1. Len(queue) \in Nat /\ DOMAIN queue = 1 .. Len(queue)  BY <1>1
    <2>2. q \in [1 .. Len(queue) -> Sound]  BY <1>3, <1>4, <2>1
    <2> QED  BY <2>1, <2>2
  <1>6. Keeps(queue, q)
    <2> SUFFICES ASSUME NEW s \in Ids, NEW type \in Requests, NEW i \in DOMAIN queue,
                        queue[i].id = s, queue[i].type = type
                 PROVE  Carries(q, s, type)
      BY DEF Keeps, Carries
    <2> QED  BY <1>3, <1>4 DEF Carries
  <1>7. NoNewAuto(queue, q)  BY <1>3, <1>4 DEF NoNewAuto
  <1>8. timer' \in NoTimer .. Lease
    <2>1. CASE timer > 0  BY <1>1, <1>2, <2>1, LeaseType DEF NoTimer
    <2>2. CASE ~(timer > 0)  BY <1>1, <1>2, <2>2
    <2> QED  BY <2>1, <2>2
  <1>9. TypeInv'  BY <1>1, <1>2, <1>5, <1>8, Typed, TypesBy
  <1> QED  BY <1>2, <1>6, <1>7, <1>9, SameJournal, SamePages DEF IInv

LEMMA LeaseTimerFiresKept == ASSUME IInv, LeaseTimerFires PROVE IInv'
  <1>1. /\ TypeInv /\ queue \in Seq(Sound) /\ held \in Seq(Sound) /\ polls \in 0 .. MaxHeld
    BY Typed DEF IInv
  <1>2. Flush(queue, polls, held) /\ UNCHANGED <<up, clients, exitTimer, journal, page, sent>>
    BY DEF LeaseTimerFires
  <1>3. Flushed(queue)  BY <1>1, <1>2, FlushOf
  <1>4. TypeInv'  BY <1>1, <1>2, <1>3, Typed, TypesBy DEF Flushed
  <1> QED  BY <1>2, <1>3, <1>4, KeepsItself, QueueFlushed

(* The order of the sessions restored.                                     *)
LEMMA RestoredOrder ==
  ASSUME NEW S, S \subseteq Ids
  PROVE  /\ Cardinality(S) \in Nat /\ SetToSeq(S) \in [1 .. Cardinality(S) -> S]
         /\ \A s \in S : \E k \in 1 .. Cardinality(S) : SetToSeq(S)[k] = s
  <1> DEFINE n == Cardinality(S)
             f == SetToSeq(S)
  <1>1. IsFiniteSet(S)
    <2>1. IsFiniteSet(Ids)  BY LiveAssumption DEF LiveAssumption, Ids
    <2> QED  BY <2>1, FS_Subset
  <1>2. n \in Nat /\ ExistsBijection(1 .. n, S)  BY <1>1, FS_CardinalityType
  <1>3. \E g \in [1 .. n -> S] : IsInjective(g)
    BY <1>2 DEF ExistsBijection, Bijection, Injection
  <1>4. f \in [1 .. n -> S] /\ IsInjective(f)  BY <1>3 DEF SetToSeq
  <1> HIDE DEF f
  <1>5. f \in Injection(1 .. n, S)  BY <1>4 DEF Injection
  <1>6. Cardinality(1 .. n) = n
    <2>1. 1 \in Int /\ n \in Int  BY <1>2
    <2>2. Cardinality(1 .. n) = IF 1 > n THEN 0 ELSE n - 1 + 1  BY <2>1, FS_Interval
    <2> HIDE DEF n
    <2> QED  BY <1>2, <2>2
  <1>7. f \in Surjection(1 .. n, S)  BY <1>1, <1>5, <1>6, FS_Injection
  <1> QED  BY <1>2, <1>4, <1>7 DEF Surjection, f

(* A restart queues what the journals have pending.                        *)
LEMMA StartKept == ASSUME IInv, Start PROVE IInv'
  <1> DEFINE waiting == {s \in Ids : ~Terminal(s) /\ journal[s].pending # NoEvent}
             n == Cardinality(waiting)
             order == SetToSeq(waiting)
             variant(s) == IF journal[s].pending = "accept" THEN journal[s].variant ELSE 0
             new(s) == NewEntry(s, journal[s].pending, variant(s), FALSE)
  <1>1. TypeInv /\ journal \in [Ids -> Snapshot]  BY Typed DEF IInv
  <1>2. /\ up' = TRUE /\ queue' = Restored
        /\ UNCHANGED <<polls, timer, clients, exitTimer, journal, held, page, sent>>
    BY DEF Start
  <1>3. /\ n \in Nat /\ order \in [1 .. n -> waiting]
        /\ \A s \in waiting : \E k \in 1 .. n : order[k] = s
    <2>1. waiting \subseteq Ids  OBVIOUS
    <2> HIDE DEF waiting
    <2> QED  BY <2>1, RestoredOrder
  <1>4. DOMAIN order = 1 .. n  BY <1>3
  <1>5. Restored = [k \in 1 .. n |-> new(order[k])]  BY <1>4 DEF Restored
  <1>6. ASSUME NEW s \in waiting
        PROVE  /\ new(s) \in Sound /\ new(s).id = s /\ new(s).type = journal[s].pending /\ ~new(s).auto
    <2>1. s \in Ids /\ journal[s] \in Snapshot /\ journal[s].pending \in Requests
      BY <1>1, PendingMeans
    <2>2. variant(s) \in Variants \cup {0}  BY <2>1 DEF Snapshot
    <2> HIDE DEF variant
    <2> QED  BY <2>1, <2>2, RequestEntry, Zenon
  <1> HIDE DEF order, new
  <1>7. queue' = [k \in 1 .. n |-> new(order[k])]  BY <1>2, <1>5
  <1>8. \A k \in 1 .. n : order[k] \in waiting  BY <1>3
  <1>9. \A k \in 1 .. n : queue'[k] = new(order[k]) /\ new(order[k]) \in Sound
    <2> HIDE DEF waiting, n
    <2> QED  BY <1>6, <1>7, <1>8
  <1>10. DOMAIN queue' = 1 .. n  BY <1>7
  <1>11. queue' \in Seq(Sound)
    <2> HIDE DEF n
    <2>1. queue' \in [1 .. n -> Sound]  BY <1>7, <1>9
    <2> QED  BY <1>3, <2>1
  <1>12. TypeInv'
    <2>1. up' \in BOOLEAN  BY <1>2
    <2> QED  BY <1>1, <1>2, <1>11, <2>1, Typed, TypesBy
  <1>13. PendingIsQueued'
    <2> SUFFICES ASSUME NEW s \in Ids, ~Terminal(s)', journal'[s].pending # NoEvent
                 PROVE  Carries(queue', s, journal'[s].pending)
      BY <1>12, PendingMeansNext
    <2>1. s \in waiting  BY <1>2 DEF Terminal
    <2> HIDE DEF waiting, n
    <2>2. PICK k \in 1 .. n : order[k] = s  BY <1>3, <2>1
    <2>3. queue'[k].id = s /\ queue'[k].type = journal[s].pending  BY <1>6, <1>9, <2>1, <2>2
    <2> QED  BY <1>2, <1>10, <2>3 DEF Carries
  <1>14. ExitMeansAlone'
    <2> SUFFICES ASSUME NEW k \in DOMAIN queue' PROVE ~queue'[k].auto  BY DEF ExitMeansAlone
    <2> HIDE DEF waiting, n
    <2> QED  BY <1>6, <1>8, <1>9, <1>10
  <1> QED  BY <1>12, <1>13, <1>14 DEF IInv

-----------------------------------------------------------------------------
(* The theorems.                                                           *)

LEMMA InitHolds == Init => IInv
  <1> SUFFICES ASSUME Init PROVE IInv  OBVIOUS
  <1> DEFINE blank == [phase |-> "new", pending |-> NoEvent, variant |-> 0, revision |-> 0]
             fresh == [state |-> "new", revision |-> 0]
  <1>1. MaxRevision \in Nat  BY LiveAssumption DEF LiveAssumption
  <1>2. blank \in Snapshot  BY <1>1 DEF Snapshot, PageStates
  <1>3. fresh \in Page  BY <1>1 DEF Page, PageStates
  <1>4. journal = [s \in Ids |-> blank] /\ page = [s \in Ids |-> fresh]  BY DEF Init
  <1> HIDE DEF blank, fresh
  <1>5. journal \in [Ids -> Snapshot] /\ page \in [Ids -> Page]  BY <1>2, <1>3, <1>4
  <1>6. /\ up = TRUE /\ queue = <<>> /\ held = <<>> /\ polls = 0 /\ timer = NoTimer
        /\ clients = {} /\ exitTimer = FALSE /\ sent = {}
    BY DEF Init
  <1>7. <<>> \in Seq(Sound) /\ <<>> \in Seq(Entry)  OBVIOUS
  <1>8. 0 \in 0 .. MaxHeld /\ NoTimer \in NoTimer .. Lease  BY LeaseType DEF NoTimer
  <1>9. TypeInv  BY <1>5, <1>6, <1>7, <1>8 DEF TypeInv, TypeOK
  <1>10. PendingIsQueued
    <2>1. \A s \in Ids : journal[s].pending = NoEvent  BY <1>4 DEF blank
    <2> QED  BY <1>9, <2>1, PendingMeans
  <1>11. ExitMeansAlone  BY <1>6 DEF ExitMeansAlone
  <1> QED  BY <1>9, <1>10, <1>11 DEF IInv

(* LiveComplete goes through the server, or into the journal of one that   *)
(* is down.                                                                *)
LEMMA LiveCompleteKept == ASSUME IInv, NEW s \in Sessions, LiveComplete(s) PROVE IInv'
  <1>1. TypeInv /\ s \in Ids /\ held \in Seq(Sound) /\ journal \in [Ids -> Snapshot] /\ "completed" \in ReplyTypes
    BY Typed DEF IInv, Ids, ReplyTypes
  <1>2. UNCHANGED <<up, clients, exitTimer, sent>>  BY DEF LiveComplete
  <1>3. CASE up
    <2>1. PollPost(s, "completed", held)  BY <1>3 DEF LiveComplete
    <2> QED  BY <1>1, <1>2, <2>1, PollPostKept
  <1>4. CASE ~up
    <2>1. /\ journal' = [journal EXCEPT ![s] = Replied(journal[s], "completed")]
          /\ UNCHANGED <<queue, polls, timer, held, page>>
      BY <1>4 DEF LiveComplete
    <2>2. Replied(journal[s], "completed") \in Snapshot  BY <1>1, RepliedType
    <2>3. journal' \in [Ids -> Snapshot]  BY <1>1, <2>1, <2>2
    <2>4. TypeInv'  BY <1>1, <1>2, <2>1, <2>3, Typed, TypesBy
    <2>5. PendingIsQueued'  BY <1>2, <1>4, <2>4, PendingMeansNext
    <2>6. ExitMeansAlone'  BY <1>2, <2>1, KeepsItself, SamePages
    <2> QED  BY <2>4, <2>5, <2>6 DEF IInv
  <1> QED  BY <1>3, <1>4

LEMMA StepHolds == IInv /\ [Next]_vars => IInv'
  <1> SUFFICES ASSUME IInv, [Next]_vars PROVE IInv'  OBVIOUS
  <1>1. ASSUME Pages PROVE IInv'
    <2>1. ASSUME NEW s \in Sessions, Generate(s) \/ VariantsArrive(s) \/ Discard(s)
                                     \/ \E v \in Variants : Accept(s, v)
          PROVE  IInv'
      BY <2>1, RequestsKept, VariantsArriveKept
    <2>2. ASSUME NEW s \in Steers, Steer(s) PROVE IInv'  BY <2>2, RequestsKept
    <2>3. ASSUME NEW s \in Ids, SendCheckpoint(s) PROVE IInv'  BY <2>3, SendCheckpointKept
    <2>4. ASSUME NEW c \in sent, CheckpointArrives(c) PROVE IInv'  BY <2>4, CheckpointArrivesKept
    <2>5. ASSUME NEW type \in {"exit", "prefetch"}, PostAnonymous(type) PROVE IInv'
      BY <2>5, PostAnonymousKept
    <2>6. ASSUME NEW c \in Clients, Connect(c) \/ Disconnect(c) PROVE IInv'
      BY <2>6, ConnectKept, DisconnectKept
    <2> QED  BY <1>1, <2>1, <2>2, <2>3, <2>4, <2>5, <2>6 DEF Pages
  <1>2. ASSUME Agent PROVE IInv'
    <2>1. ASSUME NEW i \in DOMAIN held, Reply(i) \/ Forget(i) \/ Stop(i) PROVE IInv'
      BY <2>1, ReplyKept, ForgetKept, StopKept
    <2>2. ASSUME NEW s \in Sessions, LiveComplete(s) PROVE IInv'  BY <2>2, LiveCompleteKept
    <2> QED  BY <1>2, <2>1, <2>2, PollKept, PollEndsKept DEF Agent
  <1>3. ASSUME Server PROVE IInv'
    BY <1>3, TickKept, LeaseTimerFiresKept, ExitTimerFiresKept, CrashKept, StartKept DEF Server
  <1>4. ASSUME UNCHANGED vars PROVE IInv'
    BY <1>4 DEF vars, IInv, TypeInv, TypeOK, PendingIsQueued, ExitMeansAlone, Terminal
  <1> QED  BY <1>1, <1>2, <1>3, <1>4 DEF Next

(* The invariant, for every execution.                                     *)
THEOREM Invariant == Spec => []IInv
  BY InitHolds, StepHolds, PTL DEF Spec

(* Types of the server's queue, polls and timer, the journals and pages.   *)
THEOREM TypeCorrect == Spec => []TypeOK
  <1>1. IInv => TypeOK  BY DEF IInv, TypeInv
  <1> QED  BY <1>1, Invariant, PTL

(* No event is lost on its way to the agent while the server runs: what a  *)
(* journal has pending is queued, whatever was leased, acknowledged,       *)
(* answered twice or restored; and no exit that the server queued by       *)
(* itself waits while a page is there.                                     *)
THEOREM PendingInQueue == Spec => []PendingIsInQueue
  <1>1. IInv => PendingIsInQueue  BY DEF IInv, PendingIsInQueue
  <1> QED  BY <1>1, Invariant, PTL

-----------------------------------------------------------------------------
(* DesignHook: types, and where the processes are.                         *)

Told     == Files \X Findings
Entries  == [edits : Nat, known : SUBSET Findings, denials : [SUBSET H!Rules -> Nat]]
Memories == [order : Seq(H!SessionIds), of : [H!SessionIds -> [Files -> Entries]]]
Configs  == [enabled : BOOLEAN, rules : SUBSET H!Rules, files : SUBSET Files]

Places == {"idle", "read", "scan", "persist", "fill", "emit", "gate", "object", "verdict",
           "cut config", "fill config"}

Processes ==
  [pc : Places, primary : Seq(Files), text : SUBSET Findings, todo : Seq(Files), mem : Memories,
   cfg : Configs, fresh : SUBSET Told, pending : SUBSET Told, still : SUBSET Told,
   notice : Files \cup {H!NoFile}, quiet : SUBSET H!Rules]

HookTypeInv ==
  /\ disk \in [Files -> SUBSET Findings]
  /\ cache \in Memories /\ Len(cache.order) <= MaxSessions
  /\ config \in Configs
  /\ calls \in [Calls -> Processes]
  /\ told \in [H!SessionIds -> [once : SUBSET Told, again : SUBSET Told]]
  /\ noticed \in [H!SessionIds -> SUBSET Files]
  /\ tried \in [Cursor -> [Files -> [SUBSET H!Rules -> Nat]]]
  /\ ignored \subseteq H!Rules
  /\ used \in [{"edits", "kills", "commands", "resets"} -> Nat]

(* Where a process is says whose it is; only a hook after an edit tells.   *)
Gating  == {"gate", "object", "persist", "verdict"}
Telling == {"scan", "fill", "emit"}

PlaceOK(c) ==
  /\ calls[c].pc \in Gating => SessionOf[c] \in Cursor
  /\ calls[c].pc \in {"read", "scan", "emit"} => SessionOf[c] \notin Cursor
  /\ calls[c].pc \in Gating \cup {"fill"} /\ SessionOf[c] \in Cursor => calls[c].primary # <<>>
  /\ calls[c].fresh # {} => calls[c].pc \in Telling /\ SessionOf[c] \notin Cursor

PlaceInv == \A c \in Calls : PlaceOK(c)

HookBase == HookTypeInv /\ PlaceInv

-----------------------------------------------------------------------------
(* What the helpers return.                                                *)

\* The library's operators are the same ones in the instance.
LEMMA SameSets ==
  ASSUME NEW S
  PROVE  /\ H!IsFiniteSet(S) = IsFiniteSet(S) /\ H!Cardinality(S) = Cardinality(S)
         /\ \A k : H!kSubset(k, S) = kSubset(k, S)
  <1>1. \A T : H!Cardinality(T) = Cardinality(T)
    BY DEF H!Cardinality, Cardinality, H!IsFiniteSet, IsFiniteSet
  <1> QED
    BY <1>1 DEF H!IsFiniteSet, IsFiniteSet, H!kSubset, kSubset

LEMMA MinOfTwo ==
  ASSUME NEW a \in Nat, NEW b \in Nat
  PROVE  H!Min({a, b}) = IF a <= b THEN a ELSE b
  <1> DEFINE m == IF a <= b THEN a ELSE b
  <1>1. m \in {a, b} /\ \A y \in {a, b} : m <= y  OBVIOUS
  <1>2. \A x \in {a, b} : (\A y \in {a, b} : x <= y) => x = m  OBVIOUS
  <1> HIDE DEF m
  <1>3. H!Min({a, b}) = m  BY <1>1, <1>2 DEF H!Min
  <1> QED  BY <1>3 DEF m

LEMMA SeqOfSet ==
  ASSUME NEW S, IsFiniteSet(S)
  PROVE  H!SetToSeq(S) \in Seq(S) /\ (S = {} => H!SetToSeq(S) = <<>>)
  <1> DEFINE n == Cardinality(S)
             P(f) == f \in [1 .. n -> S] /\ H!IsInjective(f)
  <1>1. n \in Nat /\ ExistsBijection(1 .. n, S)  BY FS_CardinalityType
  <1>2. \E f : P(f)
    BY <1>1 DEF ExistsBijection, Bijection, Injection, IsInjective, H!IsInjective
  <1>3. H!SetToSeq(S) = CHOOSE f \in [1 .. n -> S] : H!IsInjective(f)
    BY SameSets DEF H!SetToSeq
  <1>4. H!SetToSeq(S) \in [1 .. n -> S]  BY <1>2, <1>3
  <1> HIDE DEF n
  <1>5. H!SetToSeq(S) \in Seq(S)  BY <1>1, <1>4
  <1>6. ASSUME S = {} PROVE H!SetToSeq(S) = <<>>
    <2>1. n = 0  BY <1>6, FS_EmptySet DEF n
    <2> QED  BY <1>4, <1>5, <2>1
  <1> QED  BY <1>5, <1>6

LEMMA TargetsType ==
  ASSUME H!HookAssumption, NEW patch \in Seq(Files)
  PROVE  /\ H!Targets(patch) \in Seq(Files)
         /\ (\A f \in Files : Sheets[f] = {}) => H!Targets(patch) = patch
  <1> DEFINE S == UNION {Sheets[f] : f \in H!ToSet(patch)} \ H!ToSet(patch)
  <1>1. H!ToSet(patch) \subseteq Files  BY DEF H!ToSet
  <1>2. S \subseteq Files  BY <1>1 DEF H!HookAssumption
  <1>3. IsFiniteSet(S)  BY <1>2, SameSets, FS_Subset DEF H!HookAssumption
  <1>4. (\A f \in Files : Sheets[f] = {}) => S = {}  BY <1>1
  <1>5. H!Targets(patch) = patch \o H!SetToSeq(S)  BY DEF H!Targets
  <1> HIDE DEF S
  <1>6. H!SetToSeq(S) \in Seq(S) /\ (S = {} => H!SetToSeq(S) = <<>>)  BY <1>3, SeqOfSet
  <1>7. H!SetToSeq(S) \in Seq(Files)  BY <1>2, <1>6
  <1> QED  BY <1>4, <1>5, <1>6, <1>7

LEMMA TouchedFields ==
  ASSUME NEW mem \in Memories, NEW s \in H!SessionIds
  PROVE  /\ H!Touched(mem, s) \in Memories /\ H!Touched(mem, s).of = mem.of
         /\ H!Touched(mem, s).order # <<>> /\ s \in H!ToSet(H!Touched(mem, s).order)
  <1> DEFINE place == CHOOSE i \in DOMAIN mem.order : mem.order[i] = s
             rest  == IF s \in H!ToSet(mem.order) THEN H!RemoveAt(mem.order, place) ELSE mem.order
  <1>1. mem.order \in Seq(H!SessionIds) /\ mem.of \in [H!SessionIds -> [Files -> Entries]]
    BY DEF Memories
  <1>2. rest \in Seq(H!SessionIds)
    <2>1. CASE s \in H!ToSet(mem.order)
      <3>1. place \in 1 .. Len(mem.order)  BY <1>1, <2>1 DEF H!ToSet
      <3> HIDE DEF place
      <3> DEFINE n == Len(mem.order)
      <3>2. SubSeq(mem.order, 1, place - 1) \in Seq(H!SessionIds)
        <4>1. \A i \in 1 .. place - 1 : mem.order[i] \in H!SessionIds  BY <1>1, <3>1
        <4> QED  BY <3>1, <4>1, SubSeqProperties
      <3>3. SubSeq(mem.order, place + 1, n) \in Seq(H!SessionIds)
        <4>1. \A i \in place + 1 .. n : mem.order[i] \in H!SessionIds  BY <1>1, <3>1
        <4>2. place + 1 \in Int /\ n \in Int  BY <1>1, <3>1
        <4> QED  BY <4>1, <4>2, SubSeqProperties
      <3> QED  BY <2>1, <3>2, <3>3, ConcatProperties DEF H!RemoveAt
    <2>2. CASE s \notin H!ToSet(mem.order)  BY <1>1, <2>2
    <2> QED  BY <2>1, <2>2
  <1>3. H!Touched(mem, s) = [mem EXCEPT !.order = <<s>> \o rest]  BY DEF H!Touched
  <1> HIDE DEF rest
  <1>4. <<s>> \o rest \in Seq(H!SessionIds) /\ Len(<<s>> \o rest) >= 1 /\ (<<s>> \o rest)[1] = s
    BY <1>2
  <1>5. H!Touched(mem, s).order = <<s>> \o rest  BY <1>3 DEF Memories
  <1>6. H!Touched(mem, s) \in Memories /\ H!Touched(mem, s).of = mem.of
    BY <1>1, <1>3, <1>4 DEF Memories
  <1> QED  BY <1>4, <1>5, <1>6 DEF H!ToSet

LEMMA KeptFields ==
  ASSUME NEW mem \in Memories, MaxSessions \in Nat \ {0}, H!NoMemory \in [Files -> Entries]
  PROVE  /\ H!Kept(mem) \in Memories /\ Len(H!Kept(mem).order) <= MaxSessions
         /\ \A s \in H!SessionIds : H!Kept(mem).of[s] \in {mem.of[s], H!NoMemory}
         /\ mem.order # <<>> =>
              H!Kept(mem).order # <<>> /\ H!Kept(mem).of[mem.order[1]] = mem.of[mem.order[1]]
         /\ mem.order = <<>> => \A s \in H!SessionIds : H!Kept(mem).of[s] = H!NoMemory
  <1> DEFINE m == H!Min({Len(mem.order), MaxSessions})
             order == SubSeq(mem.order, 1, m)
             of == [s \in H!SessionIds |-> IF s \in H!ToSet(order) THEN mem.of[s] ELSE H!NoMemory]
  <1>1. mem.order \in Seq(H!SessionIds) /\ mem.of \in [H!SessionIds -> [Files -> Entries]]
    BY DEF Memories
  <1>2. m = IF Len(mem.order) <= MaxSessions THEN Len(mem.order) ELSE MaxSessions
    <2>1. Len(mem.order) \in Nat  BY <1>1
    <2> QED  BY <2>1, MinOfTwo
  <1>3. H!Kept(mem) = [order |-> order, of |-> of]  BY DEF H!Kept
  <1> HIDE DEF m
  <1>4. m \in Nat /\ m <= Len(mem.order) /\ m <= MaxSessions /\ (mem.order # <<>> => m >= 1)
        /\ (mem.order = <<>> => m = 0)
    BY <1>1, <1>2
  <1>5. /\ order \in Seq(H!SessionIds) /\ Len(order) = m
        /\ \A i \in 1 .. m : order[i] = mem.order[i]
    <2>1. \A i \in 1 .. m : mem.order[i] \in H!SessionIds  BY <1>1, <1>4
    <2>2. /\ order \in Seq(H!SessionIds) /\ Len(order) = IF 1 <= m THEN m - 1 + 1 ELSE 0
          /\ \A i \in 1 .. m - 1 + 1 : order[i] = mem.order[1 + i - 1]
      BY <1>4, <2>1, SubSeqProperties
    <2> HIDE DEF order
    <2> QED  BY <1>4, <2>2
  <1> HIDE DEF order
  <1>6. of \in [H!SessionIds -> [Files -> Entries]]  BY <1>1
  <1>7. mem.order # <<>> => mem.order[1] \in H!SessionIds /\ mem.order[1] \in H!ToSet(order) /\ order # <<>>
    BY <1>1, <1>4, <1>5 DEF H!ToSet
  <1>8. mem.order = <<>> => H!ToSet(order) = {}  BY <1>4, <1>5 DEF H!ToSet
  <1>9. \A s \in H!SessionIds : of[s] = IF s \in H!ToSet(order) THEN mem.of[s] ELSE H!NoMemory
    OBVIOUS
  <1> HIDE DEF of
  <1>10. H!Kept(mem).order = order /\ H!Kept(mem).of = of /\ H!Kept(mem) \in Memories
    BY <1>3, <1>5, <1>6 DEF Memories
  <1> QED  BY <1>4, <1>5, <1>7, <1>8, <1>9, <1>10

LEMMA EmptyTypes ==
  /\ H!NoEntry \in Entries /\ H!NoMemory \in [Files -> Entries] /\ H!EmptyCache \in Memories
  /\ H!EmptyCache.order = <<>> /\ Len(H!EmptyCache.order) = 0
  /\ \A s \in H!SessionIds : H!EmptyCache.of[s] = H!NoMemory
  /\ \A f \in Files : H!NoMemory[f] = H!NoEntry
  /\ H!NoEntry.edits = 0 /\ H!NoEntry.known = {} /\ \A r \in SUBSET H!Rules : H!NoEntry.denials[r] = 0
  /\ H!DefaultConfig \in Configs /\ H!DefaultConfig.rules = {} /\ H!Idle \in Processes
  <1>1. H!NoEntry \in Entries /\ H!NoEntry.edits = 0 /\ H!NoEntry.known = {}
        /\ \A r \in SUBSET H!Rules : H!NoEntry.denials[r] = 0
    BY DEF H!NoEntry, Entries
  <1>2. H!NoMemory \in [Files -> Entries] /\ \A f \in Files : H!NoMemory[f] = H!NoEntry
    BY <1>1 DEF H!NoMemory
  <1>3. /\ H!EmptyCache \in Memories /\ H!EmptyCache.order = <<>> /\ Len(H!EmptyCache.order) = 0
        /\ \A s \in H!SessionIds : H!EmptyCache.of[s] = H!NoMemory
    BY <1>2 DEF H!EmptyCache, Memories
  <1>4. H!DefaultConfig \in Configs /\ H!DefaultConfig.rules = {}  BY DEF H!DefaultConfig, Configs
  <1>5. H!Idle \in Processes  BY <1>3, <1>4 DEF H!Idle, Processes, Places
  <1> QED  BY <1>1, <1>2, <1>3, <1>4, <1>5

LEMMA OneMoreNat ==
  ASSUME H!HookAssumption, NEW n \in Nat
  PROVE  H!OneMore(n) \in Nat /\ H!OneMore(n) = IF n <= Threshold THEN n + 1 ELSE Threshold + 2
  <1>1. Threshold \in Nat /\ n + 1 \in Nat /\ Threshold + 2 \in Nat  BY DEF H!HookAssumption
  <1>2. H!Min({n + 1, Threshold + 2}) = IF n + 1 <= Threshold + 2 THEN n + 1 ELSE Threshold + 2
    BY <1>1, MinOfTwo
  <1> QED  BY <1>1, <1>2 DEF H!OneMore

LEMMA EntryFields ==
  ASSUME NEW e \in Entries
  PROVE  /\ \A n \in Nat : [e EXCEPT !.edits = n] \in Entries
         /\ \A found \in SUBSET Findings : [e EXCEPT !.known = @ \cup found] \in Entries
         /\ \A r \in SUBSET H!Rules, n \in Nat : [e EXCEPT !.denials[r] = n] \in Entries
  <1>1. e.edits \in Nat /\ e.known \in SUBSET Findings /\ e.denials \in [SUBSET H!Rules -> Nat]
    BY DEF Entries
  <1>2. e = [edits |-> e.edits, known |-> e.known, denials |-> e.denials]  BY DEF Entries
  <1>3. ASSUME NEW n \in Nat PROVE [e EXCEPT !.edits = n] \in Entries
    <2>1. [e EXCEPT !.edits = n] = [edits |-> n, known |-> e.known, denials |-> e.denials]
      BY <1>2
    <2> QED  BY <1>1, <2>1 DEF Entries
  <1>4. ASSUME NEW found \in SUBSET Findings PROVE [e EXCEPT !.known = @ \cup found] \in Entries
    <2>1. [e EXCEPT !.known = @ \cup found]
            = [edits |-> e.edits, known |-> e.known \cup found, denials |-> e.denials]
      BY <1>2
    <2>2. e.known \cup found \in SUBSET Findings  BY <1>1
    <2> QED  BY <1>1, <2>1, <2>2 DEF Entries
  <1>5. ASSUME NEW r \in SUBSET H!Rules, NEW n \in Nat PROVE [e EXCEPT !.denials[r] = n] \in Entries
    <2>1. [e EXCEPT !.denials[r] = n]
            = [edits |-> e.edits, known |-> e.known, denials |-> [e.denials EXCEPT ![r] = n]]
      BY <1>2
    <2>2. [e.denials EXCEPT ![r] = n] \in [SUBSET H!Rules -> Nat]  BY <1>1
    <2> QED  BY <1>1, <2>1, <2>2 DEF Entries
  <1> QED  BY <1>3, <1>4, <1>5

\* One edit more of f by s.
EditAdded(new, mem, s, f) ==
  /\ new \in Memories /\ new.order # <<>>
  /\ \A t \in H!SessionIds, g \in Files :
       /\ new.of[t][g].known = mem.of[t][g].known
       /\ new.of[t][g].denials = mem.of[t][g].denials
       /\ new.of[t][g].edits =
            IF t = s /\ g = f THEN H!OneMore(mem.of[s][f].edits) ELSE mem.of[t][g].edits

LEMMA EditsFields ==
  ASSUME NEW mem \in Memories, NEW s \in H!SessionIds, NEW f \in Files, H!HookAssumption
  PROVE  EditAdded(H!OneMoreEdit(mem, s, f), mem, s, f)
  <1> DEFINE n == H!OneMore(mem.of[s][f].edits)
             mid == [mem EXCEPT !.of[s][f].edits = n]
             new == H!OneMoreEdit(mem, s, f)
  <1>1. mem.order \in Seq(H!SessionIds) /\ mem.of \in [H!SessionIds -> [Files -> Entries]]
    BY DEF Memories
  <1>a. n \in Nat
    <2>1. mem.of[s][f].edits \in Nat  BY <1>1 DEF Entries
    <2> QED  BY <2>1, OneMoreNat
  <1>b. new = H!Touched(mid, s)  BY DEF H!OneMoreEdit
  <1> HIDE DEF n, new
  <1>2. mid.order = mem.order /\ mid.of = [mem.of EXCEPT ![s][f].edits = n]
    BY <1>1 DEF Memories
  <1>3. mid.of \in [H!SessionIds -> [Files -> Entries]]
    <2>1. [mem.of[s][f] EXCEPT !.edits = n] \in Entries
      <3>1. mem.of[s][f] \in Entries  BY <1>1
      <3> QED  BY <1>a, <3>1, EntryFields
    <2> QED  BY <1>1, <1>2, <2>1
  <1>4. mid \in Memories  BY <1>1, <1>2, <1>3 DEF Memories
  <1>5. \A t \in H!SessionIds, g \in Files :
              /\ mid.of[t][g].known = mem.of[t][g].known
              /\ mid.of[t][g].denials = mem.of[t][g].denials
              /\ mid.of[t][g].edits = IF t = s /\ g = f THEN n ELSE mem.of[t][g].edits
    BY <1>1, <1>2, <1>a DEF Entries
  <1> HIDE DEF mid
  <1>6. new \in Memories /\ new.of = mid.of /\ new.order # <<>>  BY <1>4, <1>b, TouchedFields
  <1>7. /\ new \in Memories /\ new.order # <<>>
        /\ \A t \in H!SessionIds, g \in Files :
              /\ new.of[t][g].known = mem.of[t][g].known
              /\ new.of[t][g].denials = mem.of[t][g].denials
              /\ new.of[t][g].edits = IF t = s /\ g = f THEN n ELSE mem.of[t][g].edits
    BY <1>5, <1>6
  <1> QED  BY <1>7, Zenon DEF EditAdded, new, n

LEMMA DenialsFields ==
  ASSUME NEW mem \in Memories, NEW s \in H!SessionIds, NEW f \in Files, NEW r \in SUBSET H!Rules,
         H!HookAssumption
  PROVE  LET new == H!OneMoreDenial(mem, s, f, r)
             n   == H!OneMore(mem.of[s][f].denials[r]) IN
         /\ new \in Memories /\ new.order # <<>>
         /\ \A t \in H!SessionIds, g \in Files :
              /\ new.of[t][g].known = mem.of[t][g].known
              /\ new.of[t][g].edits = mem.of[t][g].edits
              /\ \A q \in SUBSET H!Rules :
                   new.of[t][g].denials[q] =
                     IF t = s /\ g = f /\ q = r THEN n ELSE mem.of[t][g].denials[q]
  <1> DEFINE n == H!OneMore(mem.of[s][f].denials[r])
             mid == [mem EXCEPT !.of[s][f].denials[r] = n]
             new == H!OneMoreDenial(mem, s, f, r)
  <1>1. mem.order \in Seq(H!SessionIds) /\ mem.of \in [H!SessionIds -> [Files -> Entries]]
    BY DEF Memories
  <1>a. n \in Nat
    <2>1. mem.of[s][f].denials[r] \in Nat  BY <1>1 DEF Entries
    <2> QED  BY <2>1, OneMoreNat
  <1>b. new = H!Touched(mid, s)  BY DEF H!OneMoreDenial
  <1> HIDE DEF n, new
  <1>2. mid.order = mem.order /\ mid.of = [mem.of EXCEPT ![s][f].denials[r] = n]
    BY <1>1 DEF Memories
  <1>3. mid.of \in [H!SessionIds -> [Files -> Entries]]
    <2>1. [mem.of[s][f] EXCEPT !.denials[r] = n] \in Entries
      <3>1. mem.of[s][f] \in Entries  BY <1>1
      <3> QED  BY <1>a, <3>1, EntryFields
    <2> QED  BY <1>1, <1>2, <2>1
  <1>4. mid \in Memories  BY <1>1, <1>2, <1>3 DEF Memories
  <1>5. \A t \in H!SessionIds, g \in Files :
              /\ mid.of[t][g].known = mem.of[t][g].known
              /\ mid.of[t][g].edits = mem.of[t][g].edits
              /\ \A q \in SUBSET H!Rules :
                   mid.of[t][g].denials[q] =
                     IF t = s /\ g = f /\ q = r THEN n ELSE mem.of[t][g].denials[q]
    BY <1>1, <1>2, <1>a DEF Entries
  <1> HIDE DEF mid
  <1>6. new \in Memories /\ new.of = mid.of /\ new.order # <<>>  BY <1>4, <1>b, TouchedFields
  <1>7. /\ new \in Memories /\ new.order # <<>>
        /\ \A t \in H!SessionIds, g \in Files :
              /\ new.of[t][g].known = mem.of[t][g].known
              /\ new.of[t][g].edits = mem.of[t][g].edits
              /\ \A q \in SUBSET H!Rules :
                   new.of[t][g].denials[q] =
                     IF t = s /\ g = f /\ q = r THEN n ELSE mem.of[t][g].denials[q]
    BY <1>5, <1>6
  <1> QED  BY <1>7 DEF new, n

LEMMA RememberedFields ==
  ASSUME NEW mem \in Memories, NEW s \in H!SessionIds, NEW f \in Files, NEW found \in SUBSET Findings
  PROVE  LET new == H!Remembered(mem, s, f, found) IN
         /\ new \in Memories /\ (found # {} \/ mem.order # <<>> => new.order # <<>>)
         /\ \A t \in H!SessionIds, g \in Files :
              /\ new.of[t][g].edits = mem.of[t][g].edits
              /\ new.of[t][g].denials = mem.of[t][g].denials
              /\ new.of[t][g].known =
                   mem.of[t][g].known \cup (IF t = s /\ g = f THEN found ELSE {})
  <1> DEFINE mid == [mem EXCEPT !.of[s][f].known = @ \cup found]
             new == H!Remembered(mem, s, f, found)
  <1>1. mem.order \in Seq(H!SessionIds) /\ mem.of \in [H!SessionIds -> [Files -> Entries]]
    BY DEF Memories
  <1>2. mid.order = mem.order /\ mid.of = [mem.of EXCEPT ![s][f].known = @ \cup found]
    BY <1>1 DEF Memories
  <1>3. mid.of \in [H!SessionIds -> [Files -> Entries]]
    <2>1. [mem.of[s][f] EXCEPT !.known = @ \cup found] \in Entries
      <3>1. mem.of[s][f] \in Entries  BY <1>1
      <3> QED  BY <3>1, EntryFields
    <2> QED  BY <1>1, <1>2, <2>1
  <1>4. mid \in Memories  BY <1>1, <1>2, <1>3 DEF Memories
  <1>5. \A t \in H!SessionIds, g \in Files :
              /\ mid.of[t][g].edits = mem.of[t][g].edits
              /\ mid.of[t][g].denials = mem.of[t][g].denials
              /\ mid.of[t][g].known =
                   mem.of[t][g].known \cup (IF t = s /\ g = f THEN found ELSE {})
    BY <1>1, <1>2 DEF Entries
  <1>6. new = IF found = {} THEN mem ELSE H!Touched(mid, s)  BY DEF H!Remembered
  <1> HIDE DEF mid, new
  <1>7. H!Touched(mid, s) \in Memories /\ H!Touched(mid, s).of = mid.of /\ H!Touched(mid, s).order # <<>>
    BY <1>4, TouchedFields
  <1>8. /\ new \in Memories /\ (found # {} \/ mem.order # <<>> => new.order # <<>>)
        /\ \A t \in H!SessionIds, g \in Files :
              /\ new.of[t][g].edits = mem.of[t][g].edits
              /\ new.of[t][g].denials = mem.of[t][g].denials
              /\ new.of[t][g].known =
                   mem.of[t][g].known \cup (IF t = s /\ g = f THEN found ELSE {})
    <2>1. CASE found = {}  BY <1>6, <2>1
    <2>2. CASE found # {}  BY <1>5, <1>6, <1>7, <2>2
    <2> QED  BY <2>1, <2>2
  <1> QED  BY <1>8 DEF new

-----------------------------------------------------------------------------
(* What a step makes of its process.                                       *)

LEMMA ProcessFields ==
  ASSUME NEW x \in Processes
  PROVE  /\ x.pc \in Places /\ x.primary \in Seq(Files) /\ x.text \in SUBSET Findings
         /\ x.todo \in Seq(Files) /\ x.mem \in Memories /\ x.cfg \in Configs
         /\ x.fresh \in SUBSET Told /\ x.pending \in SUBSET Told /\ x.still \in SUBSET Told
         /\ x.notice \in Files \cup {H!NoFile} /\ x.quiet \in SUBSET H!Rules
         /\ (x.todo # <<>> => Head(x.todo) \in Files /\ Tail(x.todo) \in Seq(Files))
         /\ (x.primary # <<>> => Head(x.primary) \in Files)
  BY DEF Processes

LEMMA SetFields ==
  ASSUME NEW c \in Calls, NEW y \in Processes, calls \in [Calls -> Processes], H!Set(c, y)
  PROVE  /\ calls' \in [Calls -> Processes] /\ calls'[c] = y
         /\ \A d \in Calls : d # c => calls'[d] = calls[d]
  BY DEF H!Set

LEMMA SessionOfCall ==
  ASSUME NEW c \in Calls
  PROVE  SessionOf[c] \in H!SessionIds
  BY DEF H!SessionIds

LEMMA CountedFields ==
  ASSUME H!HookAssumption, NEW x \in Processes, NEW s \in H!SessionIds, NEW f \in Files,
         x.todo # <<>>
  PROVE  LET y == H!Counted(x, s, f) IN
         /\ y \in Processes /\ y = [x EXCEPT !.todo = Tail(x.todo), !.mem = y.mem]
         /\ y.mem = x.mem \/ y.mem.order # <<>>
         /\ \A t \in H!SessionIds, g \in Files :
              /\ y.mem.of[t][g].known = x.mem.of[t][g].known
              /\ y.mem.of[t][g].denials = x.mem.of[t][g].denials
              /\ y.mem.of[t][g].edits =
                   IF t = s /\ g = f /\ f \in H!ToSet(x.primary)
                   THEN H!OneMore(x.mem.of[s][f].edits)
                   ELSE x.mem.of[t][g].edits
  <1> DEFINE y == H!Counted(x, s, f)
             n == H!OneMore(x.mem.of[s][f].edits)
             new == H!OneMoreEdit(x.mem, s, f)
             m == IF f \in H!ToSet(x.primary) THEN new ELSE x.mem
  <1>1. x.mem \in Memories /\ Tail(x.todo) \in Seq(Files)  BY ProcessFields
  <1>2. y = [x EXCEPT !.todo = Tail(x.todo), !.mem = m]  BY DEF H!Counted, Processes
  <1>3. /\ new \in Memories /\ new.order # <<>>
        /\ \A t \in H!SessionIds, g \in Files :
             /\ new.of[t][g].known = x.mem.of[t][g].known
             /\ new.of[t][g].denials = x.mem.of[t][g].denials
             /\ new.of[t][g].edits = IF t = s /\ g = f THEN n ELSE x.mem.of[t][g].edits
    <2>1. EditAdded(new, x.mem, s, f)  BY <1>1, EditsFields
    <2> QED  BY <2>1, Zenon DEF EditAdded
  <1> HIDE DEF n, new
  <1>4. m \in Memories /\ (m = x.mem \/ m.order # <<>>)  BY <1>1, <1>3
  <1>5. \A t \in H!SessionIds, g \in Files :
          /\ m.of[t][g].known = x.mem.of[t][g].known
          /\ m.of[t][g].denials = x.mem.of[t][g].denials
          /\ m.of[t][g].edits = IF t = s /\ g = f /\ f \in H!ToSet(x.primary)
                                THEN n ELSE x.mem.of[t][g].edits
    BY <1>3
  <1> HIDE DEF y, m
  <1>6. y.mem = m /\ y \in Processes  BY <1>1, <1>2, <1>4 DEF Processes
  <1> QED  BY <1>2, <1>4, <1>5, <1>6 DEF y, n

\* Only the process of c changes.
Others(c) ==
  calls' \in [Calls -> Processes] /\ \A d \in Calls : d # c => calls'[d] = calls[d]

\* A scan changes its own process only.
LEMMA ScanFrame ==
  ASSUME NEW c, H!Suppress(c) \/ H!Scan(c)
  PROVE  /\ disk' = disk /\ cache' = cache /\ config' = config /\ told' = told
         /\ noticed' = noticed /\ tried' = tried /\ ignored' = ignored /\ used' = used
  BY Zenon DEF H!Suppress, H!Scan

LEMMA EditStep ==
  ASSUME H!HookAssumption, HookTypeInv, NEW c \in Calls, H!Edit(c)
  PROVE  /\ Others(c) /\ calls[c].pc = "idle" /\ SessionOf[c] \notin Cursor
         /\ calls'[c].pc = "read" /\ calls'[c].primary \in Patches /\ calls'[c].mem = H!EmptyCache
         /\ calls'[c].fresh = {} /\ calls'[c].pending = {} /\ calls'[c].notice = H!NoFile
         /\ calls'[c].quiet = ignored /\ calls'[c].cfg = H!DefaultConfig
         /\ disk' \in [Files -> SUBSET Findings]
         /\ used' = [used EXCEPT !.edits = @ + 1]
  <1>1. PICK patch \in Patches, text \in Texts \cup {{}} :
          /\ disk' = [f \in Files |-> IF f = Head(patch) THEN text ELSE disk[f]]
          /\ H!Set(c, [H!Idle EXCEPT !.pc = "read", !.primary = patch, !.quiet = ignored])
    BY Zenon DEF H!Edit
  <1> DEFINE y == [H!Idle EXCEPT !.pc = "read", !.primary = patch, !.quiet = ignored]
  <1>2. H!Idle \in Processes /\ patch \in Seq(Files) /\ ignored \in SUBSET H!Rules
    BY EmptyTypes DEF H!HookAssumption, HookTypeInv
  <1>3. y \in Processes  BY <1>2, Zenon DEF Processes, Places
  <1>4. /\ y.pc = "read" /\ y.primary = patch /\ y.mem = H!EmptyCache /\ y.fresh = {}
        /\ y.pending = {} /\ y.notice = H!NoFile /\ y.quiet = ignored /\ y.cfg = H!DefaultConfig
    BY DEF H!Idle
  <1> HIDE DEF y
  <1>5. Others(c) /\ calls'[c] = y
    <2>1. calls \in [Calls -> Processes] /\ H!Set(c, y)  BY <1>1 DEF HookTypeInv, y
    <2> QED  BY <1>3, <2>1, SetFields DEF Others
  <1>6. disk' \in [Files -> SUBSET Findings]  BY <1>1 DEF HookTypeInv, H!HookAssumption
  <1>7. /\ calls[c].pc = "idle" /\ SessionOf[c] \notin Cursor
        /\ used' = [used EXCEPT !.edits = @ + 1]
    BY DEF H!Edit, H!At, H!Use
  <1> QED  BY <1>1, <1>4, <1>5, <1>6, <1>7

LEMMA ReadStep ==
  ASSUME H!HookAssumption, HookTypeInv, NEW c \in Calls, H!ReadState(c)
  PROVE  /\ Others(c) /\ calls[c].pc = "read"
         /\ \/ calls'[c] = H!Idle
            \/ /\ calls'[c].pc = "scan" /\ calls'[c].primary = calls[c].primary
               /\ calls'[c].todo = H!Targets(calls[c].primary) /\ calls'[c].mem = cache
               /\ calls'[c].cfg = config /\ calls'[c].fresh = calls[c].fresh
               /\ calls'[c].pending = calls[c].pending /\ calls'[c].notice = calls[c].notice
               /\ calls'[c].quiet = calls[c].quiet
  <1> DEFINE x == calls[c]
             z == [x EXCEPT !.pc = "scan", !.todo = H!Targets(x.primary), !.mem = cache, !.cfg = config]
             y == IF config.enabled THEN z ELSE H!Idle
  <1>1. x \in Processes /\ cache \in Memories /\ config \in Configs  BY DEF HookTypeInv
  <1>2. H!Targets(x.primary) \in Seq(Files)
    <2>1. x.primary \in Seq(Files)  BY <1>1, ProcessFields
    <2> QED  BY <2>1, TargetsType
  <1>3. z \in Processes  BY <1>1, <1>2, Zenon DEF Processes, Places
  <1>4. /\ z.pc = "scan" /\ z.primary = x.primary /\ z.todo = H!Targets(x.primary)
        /\ z.mem = cache /\ z.cfg = config /\ z.fresh = x.fresh /\ z.pending = x.pending
        /\ z.notice = x.notice /\ z.quiet = x.quiet
    BY <1>1 DEF Processes
  <1>5. x.pc = "read" /\ H!Set(c, y)  BY DEF H!ReadState, H!At
  <1> HIDE DEF z, x
  <1>6. y \in Processes  BY <1>3, EmptyTypes
  <1> HIDE DEF y
  <1>7. Others(c) /\ calls'[c] = y
    <2>1. calls \in [Calls -> Processes]  BY DEF HookTypeInv
    <2> QED  BY <1>5, <1>6, <2>1, SetFields DEF Others
  <1>8. calls'[c] = H!Idle \/ calls'[c] = z  BY <1>7 DEF y
  <1> QED  BY <1>4, <1>5, <1>7, <1>8 DEF x

LEMMA PassOverStep ==
  ASSUME H!HookAssumption, HookTypeInv, NEW c \in Calls, H!PassOver(c)
  PROVE  /\ Others(c) /\ calls[c].pc = "scan" /\ calls[c].todo # <<>>
         /\ calls'[c] = [calls[c] EXCEPT !.todo = Tail(calls[c].todo)]
  <1> DEFINE x == calls[c]
             y == [x EXCEPT !.todo = Tail(x.todo)]
  <1>1. x \in Processes /\ calls \in [Calls -> Processes]  BY DEF HookTypeInv
  <1>2. x.pc = "scan" /\ x.todo # <<>> /\ H!Set(c, y)  BY DEF H!PassOver, H!At
  <1>3. Tail(x.todo) \in Seq(Files)  BY <1>1, <1>2, ProcessFields
  <1>4. y \in Processes  BY <1>1, <1>3 DEF Processes
  <1> HIDE DEF y
  <1>5. Others(c) /\ calls'[c] = y  BY <1>1, <1>2, <1>4, SetFields DEF Others
  <1> QED  BY <1>2, <1>5 DEF y

\* Where passing a suppressed file leaves the call ...
SuppressMoves(c) ==
  LET x == calls[c]  y == calls'[c]  s == SessionOf[c]  f == Head(x.todo) IN
  /\ Others(c) /\ x.pc = "scan" /\ x.todo # <<>> /\ f \in Files
  /\ f \in H!ToSet(x.primary) /\ x.mem.of[s][f].edits >= Threshold
  /\ y.pc = "scan" /\ y.todo = Tail(x.todo) /\ y.fresh = x.fresh /\ y.pending = x.pending
  /\ y.primary = x.primary /\ y.quiet = x.quiet /\ y.cfg = x.cfg
  /\ y.notice = IF x.mem.of[s][f].edits = Threshold /\ x.notice = H!NoFile THEN f ELSE x.notice
  /\ y.mem = x.mem \/ y.mem.order # <<>>

\* ... and what it counts.
SuppressCounts(c) ==
  LET x == calls[c]  y == calls'[c]  s == SessionOf[c]  f == Head(x.todo) IN
  \A t \in H!SessionIds, g \in Files :
    /\ y.mem.of[t][g].known = x.mem.of[t][g].known
    /\ y.mem.of[t][g].denials = x.mem.of[t][g].denials
    /\ y.mem.of[t][g].edits =
         IF t = s /\ g = f THEN H!OneMore(x.mem.of[s][f].edits) ELSE x.mem.of[t][g].edits

LEMMA SuppressStep ==
  ASSUME H!HookAssumption, HookTypeInv, NEW c \in Calls, H!Suppress(c)
  PROVE  SuppressMoves(c) /\ SuppressCounts(c)
  <1> DEFINE x == calls[c]
             s == SessionOf[c]
             f == Head(x.todo)
             counted == H!Counted(x, s, f)
             n == IF x.mem.of[s][f].edits = Threshold /\ x.notice = H!NoFile THEN f ELSE x.notice
             z == [counted EXCEPT !.notice =
                     IF x.mem.of[s][f].edits = Threshold /\ @ = H!NoFile THEN f ELSE @]
             y == calls'[c]
  <1>1. x \in Processes /\ calls \in [Calls -> Processes] /\ s \in H!SessionIds
    BY SessionOfCall DEF HookTypeInv
  <1>2. /\ x.pc = "scan" /\ x.todo # <<>> /\ H!Set(c, z)
        /\ f \in H!ToSet(x.primary) /\ x.mem.of[s][f].edits >= Threshold
    BY Zenon DEF H!Suppress, H!Suppressed, H!At
  <1> HIDE DEF z
  <1>3. f \in Files /\ x.notice \in Files \cup {H!NoFile}  BY <1>1, <1>2, ProcessFields
  <1> HIDE DEF x, f, s
  <1>4. /\ counted \in Processes /\ counted = [x EXCEPT !.todo = Tail(x.todo), !.mem = counted.mem]
        /\ counted.mem = x.mem \/ counted.mem.order # <<>>
        /\ \A t \in H!SessionIds, g \in Files :
             /\ counted.mem.of[t][g].known = x.mem.of[t][g].known
             /\ counted.mem.of[t][g].denials = x.mem.of[t][g].denials
             /\ counted.mem.of[t][g].edits =
                  IF t = s /\ g = f /\ f \in H!ToSet(x.primary)
                  THEN H!OneMore(x.mem.of[s][f].edits)
                  ELSE x.mem.of[t][g].edits
    BY <1>1, <1>2, <1>3, CountedFields, ZenonT(30)
  <1> HIDE DEF counted
  <1>5. /\ counted.todo = Tail(x.todo) /\ counted.pc = x.pc /\ counted.fresh = x.fresh
        /\ counted.pending = x.pending /\ counted.primary = x.primary /\ counted.quiet = x.quiet
        /\ counted.cfg = x.cfg /\ counted.notice = x.notice
    BY <1>1, <1>4 DEF Processes
  <1>6. n \in Files \cup {H!NoFile}  BY <1>3
  <1>7. z = [counted EXCEPT !.notice = n]  BY <1>4, <1>5 DEF z, Processes
  <1> HIDE DEF n
  <1>8. /\ z \in Processes /\ z.notice = n /\ z.mem = counted.mem /\ z.todo = counted.todo
        /\ z.pc = counted.pc /\ z.fresh = counted.fresh /\ z.pending = counted.pending
        /\ z.primary = counted.primary /\ z.quiet = counted.quiet /\ z.cfg = counted.cfg
    BY <1>4, <1>6, <1>7 DEF Processes
  <1> HIDE DEF y
  <1>9. Others(c) /\ y = z  BY <1>1, <1>2, <1>8, SetFields DEF Others, y
  <1>10. \A t \in H!SessionIds, g \in Files :
           /\ y.mem.of[t][g].known = x.mem.of[t][g].known
           /\ y.mem.of[t][g].denials = x.mem.of[t][g].denials
           /\ y.mem.of[t][g].edits =
                IF t = s /\ g = f THEN H!OneMore(x.mem.of[s][f].edits)
                ELSE x.mem.of[t][g].edits
    <2>1. y.mem = counted.mem /\ f \in H!ToSet(x.primary)  BY <1>2, <1>8, <1>9
    <2>2. \A t \in H!SessionIds, g \in Files :
            /\ counted.mem.of[t][g].known = x.mem.of[t][g].known
            /\ counted.mem.of[t][g].denials = x.mem.of[t][g].denials
            /\ counted.mem.of[t][g].edits =
                 IF t = s /\ g = f /\ f \in H!ToSet(x.primary)
                 THEN H!OneMore(x.mem.of[s][f].edits)
                 ELSE x.mem.of[t][g].edits
      BY <1>4
    <2> QED  BY <2>1, <2>2
  <1>11. y.mem = x.mem \/ y.mem.order # <<>>  BY <1>4, <1>8, <1>9
  <1>12. /\ y.pc = "scan" /\ y.todo = Tail(x.todo) /\ y.fresh = x.fresh /\ y.pending = x.pending
         /\ y.primary = x.primary /\ y.quiet = x.quiet /\ y.cfg = x.cfg /\ y.notice = n
    BY <1>2, <1>5, <1>8, <1>9
  <1>13. SuppressMoves(c)
    BY <1>2, <1>3, <1>9, <1>11, <1>12, Zenon DEF SuppressMoves, x, s, f, y, n
  <1>14. SuppressCounts(c)  BY <1>10, Zenon DEF SuppressCounts, x, s, f, y
  <1> QED  BY <1>13, <1>14

\* A scan of the next file: where it leaves the call,
ScanMoves(c) ==
  LET x == calls[c]  y == calls'[c]  s == SessionOf[c]  f == Head(x.todo)
      fresh == H!Fresh(x, s, f) IN
  /\ Others(c) /\ x.pc = "scan" /\ x.todo # <<>> /\ f \in Files
  /\ f \in H!ToSet(x.primary) => x.mem.of[s][f].edits < Threshold
  /\ y.pc = "scan" /\ y.todo = Tail(x.todo)
  /\ y.primary = x.primary /\ y.quiet = x.quiet /\ y.cfg = x.cfg /\ y.notice = x.notice
  /\ fresh \in SUBSET Findings
  /\ y.fresh = x.fresh \cup {<<f, v>> : v \in fresh}
  /\ y.mem = x.mem \/ y.mem.order # <<>>
  /\ x.mem.order # <<>> \/ fresh # {} => y.mem.order # <<>>

\* what it then knows,
ScanKnown(c) ==
  LET x == calls[c]  y == calls'[c]  s == SessionOf[c]  f == Head(x.todo)
      fresh == H!Fresh(x, s, f) IN
  \A t \in H!SessionIds, g \in Files :
    y.mem.of[t][g].known = x.mem.of[t][g].known \cup (IF t = s /\ g = f THEN fresh ELSE {})

\* and what it counts.
ScanCounts(c) ==
  LET x == calls[c]  y == calls'[c]  s == SessionOf[c]  f == Head(x.todo) IN
  \A t \in H!SessionIds, g \in Files :
    /\ y.mem.of[t][g].denials = x.mem.of[t][g].denials
    /\ y.mem.of[t][g].edits =
         IF t = s /\ g = f /\ f \in H!ToSet(x.primary)
         THEN H!OneMore(x.mem.of[s][f].edits)
         ELSE x.mem.of[t][g].edits

\* What a scan of a file finds.
LEMMA ScanStep ==
  ASSUME H!HookAssumption, HookTypeInv, NEW c \in Calls, H!Scan(c)
  PROVE  ScanMoves(c) /\ ScanKnown(c) /\ ScanCounts(c)
  <1> DEFINE x == calls[c]
             y == calls'[c]
             s == SessionOf[c]
             f == Head(x.todo)
             found == H!Filtered(disk[f], x.cfg)
             fresh == H!Fresh(x, s, f)
             counted == H!Counted(x, s, f)
             p == [counted EXCEPT !.pending = {<<f, v>> : v \in x.mem.of[s][f].known},
                                  !.still = {<<f, v>> : v \in found}]
             r == [counted EXCEPT !.fresh = @ \cup {<<f, v>> : v \in fresh},
                                  !.mem = H!Remembered(@, s, f, fresh)]
             z == IF fresh = {} /\ found # {} /\ x.pending = {} THEN p ELSE r
  <1>1. x \in Processes /\ calls \in [Calls -> Processes] /\ s \in H!SessionIds
    BY SessionOfCall DEF HookTypeInv
  <1>2. /\ x.pc = "scan" /\ x.todo # <<>> /\ H!Set(c, z)
        /\ ~(f \in H!ToSet(x.primary) /\ x.mem.of[s][f].edits >= Threshold)
    BY Zenon DEF H!Scan, H!Suppressed, H!At
  <1> HIDE DEF z
  <1>3. f \in Files  BY <1>1, <1>2, ProcessFields
  <1>4. found \in SUBSET Findings  BY <1>3 DEF H!Filtered, HookTypeInv
  <1> HIDE DEF found
  <1>5. /\ fresh \in SUBSET Findings /\ x.mem.of[s][f].known \in SUBSET Findings
        /\ x.mem.of[s][f].edits \in Nat
    <2>1. x.mem \in Memories  BY <1>1, ProcessFields
    <2> HIDE DEF x, f, s
    <2>2. x.mem.of[s][f] \in Entries  BY <1>1, <1>3, <2>1 DEF Memories
    <2>3. fresh \in SUBSET Findings  BY <1>4 DEF H!Fresh, found
    <2> QED  BY <2>2, <2>3 DEF Entries
  <1> HIDE DEF x, f, s, fresh
  <1>6. f \in H!ToSet(x.primary) => x.mem.of[s][f].edits < Threshold
    <2>1. Threshold \in Nat  BY DEF H!HookAssumption
    <2> QED  BY <1>2, <1>5, <2>1
  <1>7. /\ counted \in Processes /\ counted = [x EXCEPT !.todo = Tail(x.todo), !.mem = counted.mem]
        /\ counted.mem = x.mem \/ counted.mem.order # <<>>
        /\ \A t \in H!SessionIds, g \in Files :
             /\ counted.mem.of[t][g].known = x.mem.of[t][g].known
             /\ counted.mem.of[t][g].denials = x.mem.of[t][g].denials
             /\ counted.mem.of[t][g].edits =
                  IF t = s /\ g = f /\ f \in H!ToSet(x.primary)
                  THEN H!OneMore(x.mem.of[s][f].edits)
                  ELSE x.mem.of[t][g].edits
    BY <1>1, <1>2, <1>3, CountedFields, ZenonT(30)
  <1> HIDE DEF counted
  <1>8. /\ counted.todo = Tail(x.todo) /\ counted.pc = x.pc /\ counted.fresh = x.fresh
        /\ counted.primary = x.primary /\ counted.quiet = x.quiet
        /\ counted.cfg = x.cfg /\ counted.notice = x.notice /\ counted.mem \in Memories
    BY <1>1, <1>7 DEF Processes
  <1> DEFINE m == H!Remembered(counted.mem, s, f, fresh)
             e == {<<f, v>> : v \in fresh}
  <1>9. /\ m \in Memories /\ (fresh # {} \/ counted.mem.order # <<>> => m.order # <<>>)
        /\ \A t \in H!SessionIds, g \in Files :
             /\ m.of[t][g].edits = counted.mem.of[t][g].edits
             /\ m.of[t][g].denials = counted.mem.of[t][g].denials
             /\ m.of[t][g].known =
                  counted.mem.of[t][g].known \cup (IF t = s /\ g = f THEN fresh ELSE {})
    <2>1. counted.mem \in Memories /\ fresh \in SUBSET Findings  BY <1>5, <1>8
    <2> QED  BY <1>1, <1>3, <2>1, RememberedFields, SMTT(30)
  <1>10. fresh = {} => m = counted.mem  BY DEF H!Remembered
  <1>11. e \in SUBSET Told /\ (fresh = {} => e = {})  BY <1>3, <1>5 DEF Told
  <1>12. {<<f, v>> : v \in x.mem.of[s][f].known} \in SUBSET Told /\ {<<f, v>> : v \in found} \in SUBSET Told
    BY <1>3, <1>4, <1>5 DEF Told
  <1>13. r = [counted EXCEPT !.fresh = x.fresh \cup e, !.mem = m]
    BY <1>7, <1>8 DEF Processes
  <1>14. /\ p \in Processes /\ p.pc = x.pc /\ p.todo = Tail(x.todo) /\ p.primary = x.primary
         /\ p.quiet = x.quiet /\ p.cfg = x.cfg /\ p.notice = x.notice /\ p.fresh = x.fresh
         /\ p.mem = counted.mem
    BY <1>7, <1>8, <1>12, Zenon DEF Processes
  <1> HIDE DEF m, e, p, r
  <1>15. x.fresh \cup e \in SUBSET Told  BY <1>1, <1>11, ProcessFields
  <1>16. /\ r \in Processes /\ r.pc = x.pc /\ r.todo = Tail(x.todo) /\ r.primary = x.primary
         /\ r.quiet = x.quiet /\ r.cfg = x.cfg /\ r.notice = x.notice /\ r.fresh = x.fresh \cup e
         /\ r.mem = m
    BY <1>7, <1>8, <1>9, <1>13, <1>15 DEF Processes
  <1>17. /\ z \in Processes /\ z.pc = x.pc /\ z.todo = Tail(x.todo) /\ z.primary = x.primary
         /\ z.quiet = x.quiet /\ z.cfg = x.cfg /\ z.notice = x.notice /\ z.fresh = x.fresh \cup e
         /\ z.mem = m
    <2>1. CASE fresh = {} /\ found # {} /\ x.pending = {}
      <3>1. z = p  BY <2>1 DEF z
      <3> QED  BY <1>10, <1>11, <1>14, <2>1, <3>1
    <2>2. CASE ~(fresh = {} /\ found # {} /\ x.pending = {})
      <3>1. z = r  BY <2>2 DEF z
      <3> QED  BY <1>16, <3>1
    <2> QED  BY <2>1, <2>2
  <1> HIDE DEF y
  <1>18. Others(c) /\ y = z  BY <1>1, <1>2, <1>17, SetFields DEF Others, y, x
  <1>19. \A t \in H!SessionIds, g \in Files :
           /\ m.of[t][g].known = x.mem.of[t][g].known \cup (IF t = s /\ g = f THEN fresh ELSE {})
           /\ m.of[t][g].denials = x.mem.of[t][g].denials
           /\ m.of[t][g].edits =
                IF t = s /\ g = f /\ f \in H!ToSet(x.primary)
                THEN H!OneMore(x.mem.of[s][f].edits)
                ELSE x.mem.of[t][g].edits
    <2>1. \A t \in H!SessionIds, g \in Files :
            /\ counted.mem.of[t][g].known = x.mem.of[t][g].known
            /\ counted.mem.of[t][g].denials = x.mem.of[t][g].denials
            /\ counted.mem.of[t][g].edits =
                 IF t = s /\ g = f /\ f \in H!ToSet(x.primary)
                 THEN H!OneMore(x.mem.of[s][f].edits)
                 ELSE x.mem.of[t][g].edits
      BY <1>7
    <2>2. \A t \in H!SessionIds, g \in Files :
             /\ m.of[t][g].edits = counted.mem.of[t][g].edits
             /\ m.of[t][g].denials = counted.mem.of[t][g].denials
             /\ m.of[t][g].known =
                  counted.mem.of[t][g].known \cup (IF t = s /\ g = f THEN fresh ELSE {})
      BY <1>9
    <2> QED  BY <2>1, <2>2
  <1>20. /\ m = x.mem \/ m.order # <<>>
         /\ x.mem.order # <<>> \/ fresh # {} => m.order # <<>>
    BY <1>7, <1>9, <1>10
  <1>21. x.pc = "scan" /\ x.todo # <<>>  BY <1>2 DEF x
  <1> HIDE DEF z
  <1>22. /\ Others(c) /\ x.pc = "scan" /\ x.todo # <<>> /\ f \in Files
         /\ (f \in H!ToSet(x.primary) => x.mem.of[s][f].edits < Threshold)
         /\ y.pc = "scan" /\ y.todo = Tail(x.todo)
         /\ y.primary = x.primary /\ y.quiet = x.quiet /\ y.cfg = x.cfg /\ y.notice = x.notice
         /\ fresh \in SUBSET Findings /\ y.fresh = x.fresh \cup e /\ y.mem = m
    BY <1>3, <1>5, <1>6, <1>17, <1>18, <1>21
  <1>23. ScanMoves(c)  BY <1>20, <1>22, Zenon DEF ScanMoves, x, y, s, f, fresh, e
  <1>24. ScanKnown(c)  BY <1>19, <1>22, Zenon DEF ScanKnown, x, y, s, f, fresh
  <1>25. ScanCounts(c)  BY <1>19, <1>22, Zenon DEF ScanCounts, x, y, s, f
  <1> QED  BY <1>23, <1>24, <1>25

LEMMA EmitStep ==
  ASSUME H!HookAssumption, HookTypeInv, NEW c \in Calls, H!Emit(c)
  PROVE  LET x == calls[c]  s == SessionOf[c] IN
         /\ Others(c) /\ x.pc = "emit" /\ calls'[c] = H!Idle
         /\ \E shown \in SUBSET x.fresh :
              /\ H!AllShown => shown = x.fresh
              /\ told' = [told EXCEPT ![s] = [once |-> @.once \cup shown,
                                              again |-> @.again \cup (@.once \cap shown)]]
         /\ noticed' = IF x.fresh = {} /\ x.pending = {} /\ x.notice # H!NoFile
                       THEN [noticed EXCEPT ![s] = @ \cup {x.notice}] ELSE noticed
  <1> DEFINE x == calls[c]
             s == SessionOf[c]
             k == H!Min({MaxShown, Cardinality(x.fresh)})
  <1>1. x \in Processes /\ calls \in [Calls -> Processes]  BY DEF HookTypeInv
  <1>2. Others(c) /\ calls'[c] = H!Idle
    <2>1. H!Set(c, H!Idle) /\ H!Idle \in Processes  BY EmptyTypes DEF H!Emit
    <2> QED  BY <1>1, <2>1, SetFields DEF Others
  <1>3. x.fresh \subseteq Told  BY <1>1, ProcessFields
  <1>4. IsFiniteSet(Told)
    <2>1. IsFiniteSet(Files) /\ IsFiniteSet(Findings)  BY SameSets DEF H!HookAssumption
    <2> QED  BY <2>1, FS_Product DEF Told
  <1>5. IsFiniteSet(x.fresh) /\ Cardinality(x.fresh) <= Cardinality(Told)  BY <1>3, <1>4, FS_Subset
  <1>6. PICK shown \in H!kSubset(H!Min({MaxShown, H!Cardinality(x.fresh)}), x.fresh) :
          told' = [told EXCEPT ![s] = [once |-> @.once \cup shown,
                                       again |-> @.again \cup (@.once \cap shown)]]
    BY DEF H!Emit
  <1>7. shown \in SUBSET x.fresh /\ Cardinality(shown) = k
    <2>1. shown \in kSubset(k, x.fresh)  BY <1>6, SameSets
    <2> QED  BY <2>1 DEF kSubset
  <1>8. H!AllShown => shown = x.fresh
    <2>1. Cardinality(x.fresh) \in Nat /\ Cardinality(Told) \in Nat /\ MaxShown \in Nat
      BY <1>4, <1>5, FS_CardinalityType DEF H!HookAssumption
    <2>2. H!AllShown => Cardinality(x.fresh) <= MaxShown  BY <1>5, <2>1, SameSets DEF H!AllShown, Told
    <2>3. k = IF MaxShown <= Cardinality(x.fresh) THEN MaxShown ELSE Cardinality(x.fresh)
      BY <2>1, MinOfTwo
    <2> HIDE DEF k
    <2>4. H!AllShown => k = Cardinality(x.fresh)  BY <2>1, <2>2, <2>3
    <2> QED  BY <1>5, <1>7, <2>4, FS_Subset
  <1>9. /\ x.pc = "emit"
        /\ noticed' = IF x.fresh = {} /\ x.pending = {} /\ x.notice # H!NoFile
                      THEN [noticed EXCEPT ![s] = @ \cup {x.notice}] ELSE noticed
    BY DEF H!Emit, H!At
  <1> QED  BY <1>2, <1>6, <1>7, <1>8, <1>9

LEMMA ProposeStep ==
  ASSUME H!HookAssumption, HookTypeInv, NEW c \in Calls, H!Propose(c)
  PROVE  /\ Others(c) /\ calls[c].pc = "idle" /\ SessionOf[c] \in Cursor
         /\ calls'[c].pc = "gate" /\ calls'[c].primary # <<>> /\ calls'[c].mem = H!EmptyCache
         /\ calls'[c].fresh = {} /\ calls'[c].notice = H!NoFile
  <1>1. PICK f \in Files, text \in Texts :
          H!Set(c, [H!Idle EXCEPT !.pc = "gate", !.primary = <<f>>, !.text = text])
    BY Zenon DEF H!Propose
  <1> DEFINE y == [H!Idle EXCEPT !.pc = "gate", !.primary = <<f>>, !.text = text]
  <1>2. H!Idle \in Processes /\ text \in SUBSET Findings /\ <<f>> \in Seq(Files) /\ <<f>> # <<>>
    BY EmptyTypes DEF H!HookAssumption
  <1>3. y \in Processes  BY <1>2, Zenon DEF Processes, Places
  <1>4. /\ y.pc = "gate" /\ y.primary = <<f>> /\ y.mem = H!EmptyCache /\ y.fresh = {}
        /\ y.notice = H!NoFile
    BY DEF H!Idle
  <1>5. calls \in [Calls -> Processes] /\ H!Set(c, y)  BY <1>1 DEF HookTypeInv
  <1> HIDE DEF y
  <1>6. Others(c) /\ calls'[c] = y  BY <1>3, <1>5, SetFields DEF Others
  <1>7. calls[c].pc = "idle" /\ SessionOf[c] \in Cursor  BY DEF H!Propose, H!At
  <1> QED  BY <1>2, <1>4, <1>6, <1>7

LEMMA JudgeStep ==
  ASSUME H!HookAssumption, HookTypeInv, NEW c \in Calls, H!Judge(c)
  PROVE  LET x == calls[c]  y == calls'[c] IN
         /\ Others(c) /\ x.pc = "gate"
         /\ \/ y = H!Idle /\ H!Land(x) /\ tried' = tried
            \/ /\ y.pc = "object" /\ y.primary = x.primary /\ y.mem = x.mem /\ y.fresh = x.fresh
               /\ y.notice = x.notice /\ disk' = disk /\ H!Signature(y) \in SUBSET H!Rules
               /\ tried' = [tried EXCEPT ![SessionOf[c]][Head(x.primary)][H!Signature(y)] =
                                  H!OneMore(@)]
  <1> DEFINE x == calls[c]
             z == [x EXCEPT !.cfg = config]
             w == [z EXCEPT !.pc = "object"]
             y == calls'[c]
  <1>1. x \in Processes /\ calls \in [Calls -> Processes] /\ config \in Configs  BY DEF HookTypeInv
  <1>2. /\ w \in Processes /\ w.pc = "object" /\ w.primary = x.primary /\ w.mem = x.mem
        /\ w.fresh = x.fresh /\ w.notice = x.notice /\ w.text = z.text /\ w.cfg = z.cfg
        /\ z.text = x.text /\ z.primary = x.primary
    BY <1>1, Zenon DEF Processes, Places
  <1>3. /\ x.pc = "gate"
        /\ \/ H!Land(z) /\ H!Set(c, H!Idle) /\ tried' = tried
           \/ /\ H!Set(c, w) /\ disk' = disk
              /\ tried' = [tried EXCEPT ![SessionOf[c]][Head(z.primary)][H!Signature(z)] = H!OneMore(@)]
    BY DEF H!Judge, H!At
  <1> HIDE DEF w, z, x
  <1>4. H!Signature(w) = H!Signature(z) /\ (H!Land(z) => H!Land(x))
    BY <1>2 DEF H!Signature, H!Objections, H!Land
  <1>5. H!Signature(w) \in SUBSET H!Rules
    <2>1. w.text \subseteq Findings  BY <1>2, ProcessFields
    <2> QED  BY <2>1 DEF H!Signature, H!Objections, H!Filtered, H!Rules
  <1> HIDE DEF y
  <1>6. CASE H!Land(z) /\ H!Set(c, H!Idle) /\ tried' = tried
    <2>1. Others(c) /\ y = H!Idle  BY <1>1, <1>6, SetFields, EmptyTypes DEF Others, y
    <2> QED  BY <1>3, <1>4, <1>6, <2>1 DEF x, y
  <1>7. CASE /\ H!Set(c, w) /\ disk' = disk
             /\ tried' = [tried EXCEPT ![SessionOf[c]][Head(z.primary)][H!Signature(z)] = H!OneMore(@)]
    <2>1. Others(c) /\ y = w  BY <1>1, <1>2, <1>7, SetFields DEF Others, y
    <2> QED  BY <1>2, <1>3, <1>4, <1>5, <1>7, <2>1 DEF x, y
  <1> QED  BY <1>3, <1>6, <1>7

LEMMA SignatureType ==
  ASSUME NEW x \in Processes
  PROVE  H!Signature(x) \in SUBSET H!Rules
  <1>1. x.text \subseteq Findings  BY ProcessFields
  <1> QED  BY <1>1 DEF H!Signature, H!Objections, H!Filtered, H!Rules

LEMMA ObjectStep ==
  ASSUME H!HookAssumption, HookBase, NEW c \in Calls, H!Object(c)
  PROVE  LET x == calls[c]  y == calls'[c]  s == SessionOf[c]  f == Head(x.primary) IN
         /\ Others(c) /\ x.pc = "object" /\ s \in Cursor /\ f \in Files
         /\ y.pc = "persist" /\ y.primary = x.primary /\ y.fresh = x.fresh
         /\ y.notice = x.notice
         /\ \A t \in H!SessionIds, g \in Files :
              /\ y.mem.of[t][g].known = cache.of[t][g].known
              /\ y.mem.of[t][g].edits = cache.of[t][g].edits
              /\ \A q \in SUBSET H!Rules :
                   y.mem.of[t][g].denials[q] =
                     IF t = s /\ g = f /\ q = H!Signature(x) THEN H!OneMore(cache.of[t][g].denials[q])
                     ELSE cache.of[t][g].denials[q]
  <1> DEFINE x == calls[c]
             y == calls'[c]
             s == SessionOf[c]
             f == Head(x.primary)
             r == H!Signature(x)
             m == H!OneMoreDenial(cache, s, f, r)
             z == [x EXCEPT !.pc = "persist", !.mem = m]
  <1>1. x \in Processes /\ calls \in [Calls -> Processes] /\ s \in H!SessionIds /\ cache \in Memories
    BY SessionOfCall DEF HookBase, HookTypeInv
  <1>2. x.pc = "object" /\ H!Set(c, z)  BY DEF H!Object, H!At
  <1>3. s \in Cursor /\ x.primary # <<>>  BY <1>2 DEF HookBase, PlaceInv, PlaceOK, Gating
  <1>4. f \in Files  BY <1>1, <1>3, ProcessFields
  <1>5. r \in SUBSET H!Rules  BY <1>1, SignatureType
  <1> HIDE DEF x, s, f, r, z
  <1>6. /\ m \in Memories
        /\ \A t \in H!SessionIds, g \in Files :
             /\ m.of[t][g].known = cache.of[t][g].known
             /\ m.of[t][g].edits = cache.of[t][g].edits
             /\ \A q \in SUBSET H!Rules :
                  m.of[t][g].denials[q] =
                    IF t = s /\ g = f /\ q = r THEN H!OneMore(cache.of[s][f].denials[r])
                    ELSE cache.of[t][g].denials[q]
    BY <1>1, <1>4, <1>5, DenialsFields, SMTT(30)
  <1> HIDE DEF m
  <1>7. \A t \in H!SessionIds, g \in Files :
          /\ m.of[t][g].known = cache.of[t][g].known
          /\ m.of[t][g].edits = cache.of[t][g].edits
          /\ \A q \in SUBSET H!Rules :
               m.of[t][g].denials[q] =
                 IF t = s /\ g = f /\ q = r THEN H!OneMore(cache.of[t][g].denials[q])
                 ELSE cache.of[t][g].denials[q]
    BY <1>6
  <1>8. /\ z \in Processes /\ z.pc = "persist" /\ z.primary = x.primary /\ z.fresh = x.fresh
        /\ z.notice = x.notice /\ z.mem = m
    BY <1>1, <1>6, Zenon DEF Processes, Places, z
  <1> HIDE DEF y
  <1>9. Others(c) /\ y = z  BY <1>1, <1>2, <1>8, SetFields DEF Others, y
  <1>10. /\ y.pc = "persist" /\ y.primary = x.primary /\ y.fresh = x.fresh
         /\ y.notice = x.notice /\ y.mem = m
    BY <1>8, <1>9
  <1> QED  BY <1>2, <1>3, <1>4, <1>7, <1>9, <1>10 DEF x, y, s, f, r

LEMMA IdleStep ==
  ASSUME HookTypeInv, NEW c \in Calls, H!Set(c, H!Idle)
  PROVE  Others(c) /\ calls'[c] = H!Idle
  <1>1. calls \in [Calls -> Processes] /\ H!Idle \in Processes  BY EmptyTypes DEF HookTypeInv
  <1> QED  BY <1>1, SetFields DEF Others

\* A process that only goes to another place.
LEMMA MoveStep ==
  ASSUME HookTypeInv, NEW c \in Calls, NEW pc \in Places, H!Set(c, [calls[c] EXCEPT !.pc = pc])
  PROVE  LET x == calls[c]  y == calls'[c] IN
         /\ Others(c) /\ y.pc = pc /\ y.primary = x.primary /\ y.text = x.text
         /\ y.todo = x.todo /\ y.mem = x.mem /\ y.cfg = x.cfg /\ y.fresh = x.fresh
         /\ y.pending = x.pending /\ y.notice = x.notice /\ y.quiet = x.quiet
  <1> DEFINE x == calls[c]
             y == calls'[c]
             z == [x EXCEPT !.pc = pc]
  <1>1. x \in Processes /\ calls \in [Calls -> Processes]  BY DEF HookTypeInv
  <1>2. /\ z \in Processes /\ z.pc = pc /\ z.primary = x.primary /\ z.text = x.text
        /\ z.todo = x.todo /\ z.mem = x.mem /\ z.cfg = x.cfg /\ z.fresh = x.fresh
        /\ z.pending = x.pending /\ z.notice = x.notice /\ z.quiet = x.quiet
    BY <1>1 DEF Processes
  <1>3. H!Set(c, z)  OBVIOUS
  <1> HIDE DEF y, z, x
  <1>4. Others(c) /\ y = z  BY <1>1, <1>2, <1>3, SetFields DEF Others, y
  <1> QED  BY <1>2, <1>4 DEF x, y

LEMMA CommandStep ==
  ASSUME HookTypeInv, NEW c \in Calls, H!Command(c)
  PROVE  /\ Others(c) /\ calls[c].pc = "idle"
         /\ calls'[c].pc = "cut config" /\ calls'[c].mem = H!EmptyCache /\ calls'[c].fresh = {}
         /\ calls'[c].notice = H!NoFile /\ config.rules \subseteq calls'[c].cfg.rules
  <1>1. PICK cfg \in {[config EXCEPT !.rules = @ \cup {r}] : r \in H!Rules}
                    \cup {[config EXCEPT !.files = @ \cup {f}] : f \in Files}
                    \cup {[config EXCEPT !.enabled = e] : e \in BOOLEAN} :
          H!Set(c, [H!Idle EXCEPT !.pc = "cut config", !.cfg = cfg])
    BY Zenon DEF H!Command
  <1>2. config \in Configs  BY DEF HookTypeInv
  <1>3. cfg \in Configs /\ config.rules \subseteq cfg.rules
    <2>1. CASE \E r \in H!Rules : cfg = [config EXCEPT !.rules = @ \cup {r}]
      BY <1>2, <2>1 DEF Configs
    <2>2. CASE \E f \in Files : cfg = [config EXCEPT !.files = @ \cup {f}]
      BY <1>2, <2>2 DEF Configs
    <2>3. CASE \E e \in BOOLEAN : cfg = [config EXCEPT !.enabled = e]
      BY <1>2, <2>3 DEF Configs
    <2> QED  BY <1>1, <2>1, <2>2, <2>3
  <1> DEFINE y == [H!Idle EXCEPT !.pc = "cut config", !.cfg = cfg]
  <1>4. H!Idle \in Processes  BY EmptyTypes
  <1>5. y \in Processes  BY <1>3, <1>4, Zenon DEF Processes, Places
  <1>6. y.pc = "cut config" /\ y.mem = H!EmptyCache /\ y.fresh = {} /\ y.notice = H!NoFile /\ y.cfg = cfg
    BY DEF H!Idle
  <1>7. calls \in [Calls -> Processes] /\ H!Set(c, y)  BY <1>1 DEF HookTypeInv
  <1> HIDE DEF y
  <1>8. Others(c) /\ calls'[c] = y  BY <1>5, <1>7, SetFields DEF Others
  <1>9. calls[c].pc = "idle"  BY DEF H!Command, H!At
  <1> QED  BY <1>3, <1>6, <1>8, <1>9, Zenon

LEMMA LandTypes ==
  ASSUME HookTypeInv, NEW c \in Calls, H!Land(calls[c])
  PROVE  disk' \in [Files -> SUBSET Findings]
  <1>1. calls[c].text \in SUBSET Findings  BY ProcessFields DEF HookTypeInv
  <1> QED  BY <1>1 DEF H!Land, HookTypeInv

LEMMA UsedSteps ==
  ASSUME HookTypeInv, NEW c \in Calls,
         H!HookStep(c) \/ H!Edit(c) \/ H!Propose(c) \/ H!Kill(c) \/ H!Command(c) \/ H!Reset(c)
  PROVE  /\ used'.kills = 0 => used.kills = 0 /\ ~H!Kill(c)
         /\ used'.resets = 0 => used.resets = 0 /\ ~H!Reset(c)
  <1>1. used.kills \in Nat /\ used.resets \in Nat  BY DEF HookTypeInv
  <1>2. \/ used' = used
        \/ \E what \in {"edits", "kills", "commands", "resets"} : used' = [used EXCEPT ![what] = @ + 1]
    BY Zenon DEF H!HookStep, H!ReadState, H!PassOver, H!Suppress, H!Scan, H!Emit, H!Judge,
         H!Object, H!Verdict, H!Cut, H!Fill, H!CutConfig, H!FillConfig, H!Edit, H!Propose, H!Kill,
         H!Command, H!Reset, H!Use
  <1>3. used'.kills \in {used.kills, used.kills + 1} /\ used'.resets \in {used.resets, used.resets + 1}
    BY <1>1, <1>2 DEF HookTypeInv
  <1>4. H!Kill(c) => used'.kills = used.kills + 1  BY DEF H!Kill, H!Use, HookTypeInv
  <1>5. H!Reset(c) => used'.resets = used.resets + 1  BY DEF H!Reset, H!Use, HookTypeInv
  <1> QED  BY <1>1, <1>3, <1>4, <1>5

-----------------------------------------------------------------------------
(* Every state is of its types, and every process in its place.            *)

LEMMA BaseInit ==
  ASSUME H!HookAssumption, H!Init
  PROVE  HookBase
  <1>1. H!Idle \in Processes /\ H!Idle.pc = "idle" /\ H!Idle.fresh = {}  BY EmptyTypes DEF H!Idle
  <1>2. calls = [c \in Calls |-> H!Idle]  BY DEF H!Init
  <1>3. disk \in [Files -> SUBSET Findings]  BY DEF H!Init, H!HookAssumption
  <1>4. cache \in Memories /\ Len(cache.order) <= MaxSessions
    BY EmptyTypes DEF H!Init, H!HookAssumption
  <1>5. tried \in [Cursor -> [Files -> [SUBSET H!Rules -> Nat]]]  BY DEF H!Init
  <1>6. told \in [H!SessionIds -> [once : SUBSET Told, again : SUBSET Told]]  BY DEF H!Init
  <1>7. noticed \in [H!SessionIds -> SUBSET Files] /\ config \in Configs /\ ignored \subseteq H!Rules
    BY EmptyTypes DEF H!Init
  <1>8. used \in [{"edits", "kills", "commands", "resets"} -> Nat]  BY DEF H!Init
  <1>9. HookTypeInv  BY <1>1, <1>2, <1>3, <1>4, <1>5, <1>6, <1>7, <1>8 DEF HookTypeInv
  <1>10. PlaceInv  BY <1>1, <1>2 DEF PlaceInv, PlaceOK, Gating, Telling
  <1> QED  BY <1>9, <1>10 DEF HookBase

\* The processes of the others stay in their places.
LEMMA BaseRest ==
  ASSUME HookBase, NEW c \in Calls, Others(c), PlaceOK(c)'
  PROVE  calls' \in [Calls -> Processes] /\ PlaceInv'
  <1>1. ASSUME NEW d \in Calls PROVE PlaceOK(d)'
    <2>1. CASE d = c  BY <2>1
    <2>2. CASE d # c
      <3>1. calls'[d] = calls[d]  BY <2>2 DEF Others
      <3>2. PlaceOK(d)  BY DEF HookBase, PlaceInv
      <3> QED  BY <3>1, <3>2 DEF PlaceOK
    <2> QED  BY <2>1, <2>2
  <1> QED  BY <1>1 DEF Others, PlaceInv

LEMMA IdlePlace ==
  ASSUME NEW c, calls'[c] = H!Idle
  PROVE  PlaceOK(c)'
  <1>1. H!Idle.pc = "idle" /\ H!Idle.fresh = {}  BY DEF H!Idle
  <1> QED  BY <1>1 DEF PlaceOK, Gating, Telling

LEMMA BaseNext ==
  ASSUME H!HookAssumption, HookBase, [H!Next]_(H!hvars)
  PROVE  HookBase'
  <1>0. HookTypeInv /\ PlaceInv  BY DEF HookBase
  <1>1. ASSUME NEW c \in Calls, H!ReadState(c) PROVE HookBase'
    <2>1. Others(c) /\ (calls'[c] = H!Idle \/ (calls'[c].pc = "scan" /\ calls'[c].fresh = calls[c].fresh))
          /\ calls[c].pc = "read"
      BY <1>0, <1>1, ReadStep
    <2>2. PlaceOK(c)  BY <1>0 DEF PlaceInv
    <2>3. PlaceOK(c)'
      <3>1. CASE calls'[c] = H!Idle  BY <3>1, IdlePlace
      <3>2. CASE calls'[c].pc = "scan" /\ calls'[c].fresh = calls[c].fresh
        BY <2>1, <2>2, <3>2 DEF PlaceOK, Gating, Telling
      <3> QED  BY <2>1, <3>1, <3>2
    <2> QED  BY <1>0, <1>1, <2>1, <2>3, BaseRest DEF H!ReadState, HookBase, HookTypeInv
  <1>2. ASSUME NEW c \in Calls, H!PassOver(c) PROVE HookBase'
    <2>1. /\ Others(c) /\ calls[c].pc = "scan"
          /\ calls'[c] = [calls[c] EXCEPT !.todo = Tail(calls[c].todo)]
      BY <1>0, <1>2, PassOverStep
    <2>2. PlaceOK(c) /\ calls[c] \in Processes  BY <1>0 DEF PlaceInv, HookTypeInv
    <2>3. PlaceOK(c)'
      <3>1. /\ calls'[c].pc = calls[c].pc /\ calls'[c].fresh = calls[c].fresh
            /\ calls'[c].primary = calls[c].primary
        BY <2>1, <2>2 DEF Processes
      <3> QED  BY <2>2, <3>1 DEF PlaceOK
    <2> QED  BY <1>0, <1>2, <2>1, <2>3, BaseRest DEF H!PassOver, HookBase, HookTypeInv
  <1>3. ASSUME NEW c \in Calls, H!Suppress(c) PROVE HookBase'
    <2>1. /\ Others(c) /\ calls[c].pc = "scan" /\ calls'[c].pc = "scan"
          /\ calls'[c].fresh = calls[c].fresh /\ calls'[c].primary = calls[c].primary
      BY <1>0, <1>3, SuppressStep, Zenon DEF SuppressMoves
    <2>2. PlaceOK(c)  BY <1>0 DEF PlaceInv
    <2>3. PlaceOK(c)'  BY <2>1, <2>2 DEF PlaceOK
    <2> QED  BY <1>0, <1>3, <2>1, <2>3, BaseRest, ScanFrame, Zenon DEF HookBase, HookTypeInv
  <1>4. ASSUME NEW c \in Calls, H!Scan(c) PROVE HookBase'
    <2>1. Others(c) /\ calls[c].pc = "scan" /\ calls'[c].pc = "scan"
      BY <1>0, <1>4, ScanStep, Zenon DEF ScanMoves
    <2>2. PlaceOK(c)  BY <1>0 DEF PlaceInv
    <2>3. PlaceOK(c)'  BY <2>1, <2>2 DEF PlaceOK, Gating, Telling
    <2> QED  BY <1>0, <1>4, <2>1, <2>3, BaseRest, ScanFrame, Zenon DEF HookBase, HookTypeInv
  <1>5. ASSUME NEW c \in Calls, H!Emit(c) PROVE HookBase'
    <2> DEFINE x == calls[c]
               s == SessionOf[c]
    <2>1. /\ Others(c) /\ calls'[c] = H!Idle
          /\ noticed' = IF x.fresh = {} /\ x.pending = {} /\ x.notice # H!NoFile
                        THEN [noticed EXCEPT ![s] = @ \cup {x.notice}] ELSE noticed
      BY <1>0, <1>5, EmitStep
    <2>2. PICK shown \in SUBSET x.fresh :
            told' = [told EXCEPT ![s] = [once |-> @.once \cup shown,
                                         again |-> @.again \cup (@.once \cap shown)]]
      BY <1>0, <1>5, EmitStep
    <2>3. s \in H!SessionIds /\ x \in Processes  BY <1>0, SessionOfCall DEF HookTypeInv
    <2> HIDE DEF x, s
    <2>4. told' \in [H!SessionIds -> [once : SUBSET Told, again : SUBSET Told]]
      <3>1. shown \in SUBSET Told  BY <2>2, <2>3, ProcessFields
      <3>2. told[s].once \in SUBSET Told /\ told[s].again \in SUBSET Told
        BY <1>0, <2>3 DEF HookTypeInv
      <3>3. [once |-> told[s].once \cup shown, again |-> told[s].again \cup (told[s].once \cap shown)]
              \in [once : SUBSET Told, again : SUBSET Told]
        BY <3>1, <3>2
      <3> QED  BY <1>0, <2>2, <2>3, <3>3 DEF HookTypeInv
    <2>5. noticed' \in [H!SessionIds -> SUBSET Files]
      <3>1. x.notice \in Files \cup {H!NoFile}  BY <2>3, ProcessFields
      <3> QED  BY <1>0, <2>1, <2>3, <3>1 DEF HookTypeInv
    <2>6. PlaceOK(c)'  BY <2>1, IdlePlace
    <2> QED  BY <1>0, <1>5, <2>1, <2>4, <2>5, <2>6, BaseRest DEF H!Emit, HookBase, HookTypeInv
  <1>6. ASSUME NEW c \in Calls, H!Judge(c) PROVE HookBase'
    <2> DEFINE x == calls[c]
               y == calls'[c]
               s == SessionOf[c]
               f == Head(x.primary)
    <2>1. /\ Others(c) /\ x.pc = "gate"
          /\ \/ y = H!Idle /\ H!Land(x) /\ tried' = tried
             \/ /\ y.pc = "object" /\ y.primary = x.primary /\ y.mem = x.mem /\ y.fresh = x.fresh
                /\ y.notice = x.notice /\ disk' = disk /\ H!Signature(y) \in SUBSET H!Rules
                /\ tried' = [tried EXCEPT ![s][f][H!Signature(y)] = H!OneMore(@)]
      BY <1>0, <1>6, JudgeStep, Zenon
    <2>2. PlaceOK(c)  BY <1>0 DEF PlaceInv
    <2>3. s \in Cursor /\ x.primary # <<>> /\ x.fresh = {}
      BY <2>1, <2>2 DEF PlaceOK, Gating, Telling
    <2>4. PlaceOK(c)'
      <3>1. CASE y = H!Idle  BY <3>1, IdlePlace
      <3>2. CASE y.pc = "object" /\ y.primary = x.primary /\ y.fresh = x.fresh
        BY <2>3, <3>2 DEF PlaceOK, Gating, Telling
      <3> QED  BY <2>1, <3>1, <3>2
    <2>5. disk' \in [Files -> SUBSET Findings]
      BY <1>0, <2>1, LandTypes DEF HookTypeInv
    <2>6. tried' \in [Cursor -> [Files -> [SUBSET H!Rules -> Nat]]]
      <3>1. f \in Files  BY <1>0, <2>3, ProcessFields DEF HookTypeInv
      <3> HIDE DEF x, y, s, f
      <3>2. ASSUME NEW q \in SUBSET H!Rules PROVE H!OneMore(tried[s][f][q]) \in Nat
        <4>1. tried[s][f][q] \in Nat  BY <1>0, <2>3, <3>1 DEF HookTypeInv
        <4> QED  BY <4>1, OneMoreNat
      <3>3. CASE tried' = tried  BY <1>0, <3>3 DEF HookTypeInv
      <3>4. CASE /\ H!Signature(y) \in SUBSET H!Rules
                 /\ tried' = [tried EXCEPT ![s][f][H!Signature(y)] = H!OneMore(@)]
        <4>1. [tried[s][f] EXCEPT ![H!Signature(y)] = H!OneMore(@)] \in [SUBSET H!Rules -> Nat]
          BY <1>0, <2>3, <3>1, <3>2, <3>4 DEF HookTypeInv
        <4> QED  BY <1>0, <2>3, <3>1, <3>4, <4>1 DEF HookTypeInv
      <3> QED  BY <2>1, <3>3, <3>4
    <2> QED  BY <1>0, <1>6, <2>1, <2>4, <2>5, <2>6, BaseRest, Zenon DEF H!Judge, HookBase, HookTypeInv
  <1>7. ASSUME NEW c \in Calls, H!Object(c) PROVE HookBase'
    <2>1. /\ Others(c) /\ calls[c].pc = "object" /\ calls'[c].pc = "persist"
          /\ calls'[c].fresh = calls[c].fresh /\ calls'[c].primary = calls[c].primary
      BY <1>7, ObjectStep
    <2>2. PlaceOK(c)  BY <1>0 DEF PlaceInv
    <2>3. PlaceOK(c)'  BY <2>1, <2>2 DEF PlaceOK, Gating, Telling
    <2> QED  BY <1>0, <1>7, <2>1, <2>3, BaseRest DEF H!Object, HookBase, HookTypeInv
  <1>8. ASSUME NEW c \in Calls, H!Verdict(c) PROVE HookBase'
    <2>1. Others(c) /\ calls'[c] = H!Idle  BY <1>0, <1>8, IdleStep DEF H!Verdict
    <2>2. PlaceOK(c)'  BY <2>1, IdlePlace
    <2>3. disk' \in [Files -> SUBSET Findings]
      BY <1>0, <1>8, LandTypes DEF H!Verdict, HookTypeInv
    <2> QED  BY <1>0, <1>8, <2>1, <2>2, <2>3, BaseRest DEF H!Verdict, HookBase, HookTypeInv
  <1>9. ASSUME NEW c \in Calls, H!Cut(c) PROVE HookBase'
    <2>1. /\ Others(c) /\ calls'[c].pc = "fill"
          /\ calls'[c].fresh = calls[c].fresh /\ calls'[c].primary = calls[c].primary
      BY <1>0, <1>9, MoveStep, Zenon DEF H!Cut, Places
    <2>2. calls[c].pc \in {"persist", "scan"}  BY <1>9 DEF H!Cut, H!At
    <2>3. PlaceOK(c)  BY <1>0 DEF PlaceInv
    <2>4. PlaceOK(c)'  BY <2>1, <2>2, <2>3 DEF PlaceOK, Gating, Telling
    <2>5. cache' \in Memories /\ Len(cache'.order) <= MaxSessions
      BY <1>9, EmptyTypes DEF H!Cut, H!HookAssumption
    <2> QED  BY <1>0, <1>9, <2>1, <2>4, <2>5, BaseRest DEF H!Cut, HookBase, HookTypeInv
  <1>10. ASSUME NEW c \in Calls, H!Fill(c) PROVE HookBase'
    <2> DEFINE pc == IF SessionOf[c] \in Cursor THEN "verdict" ELSE "emit"
    <2>1. /\ Others(c) /\ calls'[c].pc = pc
          /\ calls'[c].fresh = calls[c].fresh /\ calls'[c].primary = calls[c].primary
      BY <1>0, <1>10, MoveStep, Zenon DEF H!Fill, Places
    <2>2. calls[c].pc = "fill"  BY <1>10 DEF H!Fill, H!At
    <2>3. PlaceOK(c)  BY <1>0 DEF PlaceInv
    <2>4. PlaceOK(c)'  BY <2>1, <2>2, <2>3 DEF PlaceOK, Gating, Telling
    <2>5. cache' \in Memories /\ Len(cache'.order) <= MaxSessions
      <3>1. calls[c].mem \in Memories  BY <1>0, ProcessFields DEF HookTypeInv
      <3>2. H!Kept(calls[c].mem) \in Memories /\ Len(H!Kept(calls[c].mem).order) <= MaxSessions
        BY <3>1, KeptFields, EmptyTypes DEF H!HookAssumption
      <3>3. cache' \in {H!Kept(calls[c].mem), H!EmptyCache}  BY <1>10 DEF H!Fill, H!Filled
      <3> QED  BY <3>2, <3>3, EmptyTypes DEF H!HookAssumption
    <2> QED  BY <1>0, <1>10, <2>1, <2>4, <2>5, BaseRest DEF H!Fill, HookBase, HookTypeInv
  <1>11. ASSUME NEW c \in Calls, H!CutConfig(c) PROVE HookBase'
    <2>1. /\ Others(c) /\ calls'[c].pc = "fill config"
          /\ calls'[c].fresh = calls[c].fresh /\ calls'[c].primary = calls[c].primary
      BY <1>0, <1>11, MoveStep, Zenon DEF H!CutConfig, Places
    <2>2. calls[c].pc = "cut config"  BY <1>11, Zenon DEF H!CutConfig, H!At
    <2>3. PlaceOK(c)  BY <1>0 DEF PlaceInv
    <2>4. PlaceOK(c)'  BY <2>1, <2>2, <2>3, Zenon DEF PlaceOK, Gating, Telling
    <2>5. config' \in Configs  BY <1>11, EmptyTypes, Zenon DEF H!CutConfig
    <2> QED  BY <1>0, <1>11, <2>1, <2>4, <2>5, BaseRest, Zenon DEF H!CutConfig, HookBase, HookTypeInv
  <1>12. ASSUME NEW c \in Calls, H!FillConfig(c) PROVE HookBase'
    <2>1. Others(c) /\ calls'[c] = H!Idle  BY <1>0, <1>12, IdleStep, Zenon DEF H!FillConfig
    <2>2. PlaceOK(c)'  BY <2>1, IdlePlace
    <2>3. calls[c].cfg \in Configs  BY <1>0, ProcessFields DEF HookTypeInv
    <2>4. config' \in Configs /\ ignored' \subseteq H!Rules
      BY <1>0, <1>12, <2>3, EmptyTypes, Zenon DEF H!FillConfig, H!Filled, Configs, HookTypeInv
    <2> QED  BY <1>0, <1>12, <2>1, <2>2, <2>4, BaseRest, Zenon DEF H!FillConfig, HookBase, HookTypeInv
  <1>13. ASSUME NEW c \in Calls, H!Edit(c) PROVE HookBase'
    <2>1. /\ Others(c) /\ calls'[c].pc = "read" /\ calls'[c].fresh = {} /\ SessionOf[c] \notin Cursor
          /\ disk' \in [Files -> SUBSET Findings] /\ used' = [used EXCEPT !.edits = @ + 1]
      BY <1>0, <1>13, EditStep
    <2>2. PlaceOK(c)'  BY <2>1 DEF PlaceOK, Gating, Telling
    <2>3. used' \in [{"edits", "kills", "commands", "resets"} -> Nat]  BY <1>0, <2>1 DEF HookTypeInv
    <2> QED  BY <1>0, <1>13, <2>1, <2>2, <2>3, BaseRest DEF H!Edit, HookBase, HookTypeInv
  <1>14. ASSUME NEW c \in Calls, H!Propose(c) PROVE HookBase'
    <2>1. /\ Others(c) /\ calls'[c].pc = "gate" /\ calls'[c].fresh = {} /\ SessionOf[c] \in Cursor
          /\ calls'[c].primary # <<>>
      BY <1>0, <1>14, ProposeStep
    <2>2. PlaceOK(c)'  BY <2>1 DEF PlaceOK, Gating, Telling
    <2> QED  BY <1>0, <1>14, <2>1, <2>2, BaseRest DEF H!Propose, HookBase, HookTypeInv
  <1>15. ASSUME NEW c \in Calls, H!Kill(c) PROVE HookBase'
    <2>1. Others(c) /\ calls'[c] = H!Idle  BY <1>0, <1>15, IdleStep DEF H!Kill
    <2>2. PlaceOK(c)'  BY <2>1, IdlePlace
    <2>3. disk' \in [Files -> SUBSET Findings]
      BY <1>0, <1>15, LandTypes DEF H!Kill, HookTypeInv
    <2>4. used' \in [{"edits", "kills", "commands", "resets"} -> Nat]
      BY <1>0, <1>15 DEF H!Kill, H!Use, HookTypeInv
    <2> QED  BY <1>0, <1>15, <2>1, <2>2, <2>3, <2>4, BaseRest DEF H!Kill, HookBase, HookTypeInv
  <1>16. ASSUME NEW c \in Calls, H!Command(c) PROVE HookBase'
    <2>1. Others(c) /\ calls'[c].pc = "cut config" /\ calls'[c].fresh = {}
      BY <1>0, <1>16, CommandStep, Zenon
    <2>2. PlaceOK(c)'  BY <2>1, Zenon DEF PlaceOK, Gating, Telling
    <2>3. used' \in [{"edits", "kills", "commands", "resets"} -> Nat]
      BY <1>0, <1>16 DEF H!Command, H!Use, HookTypeInv
    <2> QED  BY <1>0, <1>16, <2>1, <2>2, <2>3, BaseRest, Zenon DEF H!Command, HookBase, HookTypeInv
  <1>17. ASSUME NEW c \in Calls, H!Reset(c) PROVE HookBase'
    <2>1. PlaceInv'  BY <1>0, <1>17 DEF H!Reset, PlaceInv, PlaceOK
    <2>2. cache' \in Memories /\ Len(cache'.order) <= MaxSessions /\ config' \in Configs
      BY <1>17, EmptyTypes DEF H!Reset, H!HookAssumption
    <2>3. used' \in [{"edits", "kills", "commands", "resets"} -> Nat]
      BY <1>0, <1>17 DEF H!Reset, H!Use, HookTypeInv
    <2> QED  BY <1>0, <1>17, <2>1, <2>2, <2>3 DEF H!Reset, HookBase, HookTypeInv
  <1>18. CASE UNCHANGED H!hvars
    BY <1>0, <1>18 DEF H!hvars, HookBase, HookTypeInv, PlaceInv, PlaceOK
  <1> QED
    BY <1>1, <1>2, <1>3, <1>4, <1>5, <1>6, <1>7, <1>8, <1>9, <1>10, <1>11, <1>12, <1>13, <1>14,
       <1>15, <1>16, <1>17, <1>18 DEF H!Next, H!HookStep

-----------------------------------------------------------------------------
(* What the cache has a session know, the session hears of.                *)

\* What a session was told or is about to be.
Heard == [s \in H!SessionIds |-> told[s].once \cup H!Coming(s)]

\* A copy of the cache, on disk or in a process, has no session know more than that.
Within(mem, heard) ==
  \A s \in H!SessionIds, f \in Files : \A v \in mem.of[s][f].known : <<f, v>> \in heard[s]

MissInv ==
  H!AllShown /\ used.kills = 0 =>
    Within(cache, Heard) /\ \A c \in Calls : Within(calls[c].mem, Heard)

LEMMA ComingRest ==
  ASSUME NEW c \in Calls, Others(c), NEW s, NEW gone, calls[c].fresh \subseteq calls'[c].fresh \cup gone
  PROVE  H!Coming(s) \subseteq H!Coming(s)' \cup gone
  <1> SUFFICES ASSUME NEW v \in H!Coming(s) PROVE v \in H!Coming(s)' \cup gone
    OBVIOUS
  <1>1. PICK d \in Calls : SessionOf[d] = s /\ v \in calls[d].fresh  BY DEF H!Coming
  <1>2. v \in calls'[d].fresh \cup gone
    <2>1. CASE d = c  BY <1>1, <2>1
    <2>2. CASE d # c  BY <1>1, <2>2 DEF Others
    <2> QED  BY <2>1, <2>2
  <1>3. v \in calls'[d].fresh => v \in H!Coming(s)'  BY <1>1 DEF H!Coming
  <1> QED  BY <1>2, <1>3

LEMMA HeardRest ==
  ASSUME NEW c \in Calls, Others(c), calls[c].fresh \subseteq calls'[c].fresh, told' = told
  PROVE  \A s \in H!SessionIds : Heard[s] \subseteq Heard'[s]
  <1> SUFFICES ASSUME NEW s \in H!SessionIds PROVE Heard[s] \subseteq Heard'[s]
    OBVIOUS
  <1>1. H!Coming(s) \subseteq H!Coming(s)' \cup {}  BY ComingRest
  <1>2. Heard[s] = told[s].once \cup H!Coming(s) /\ Heard'[s] = told'[s].once \cup H!Coming(s)'
    BY DEF Heard
  <1> QED  BY <1>1, <1>2

LEMMA WithinGrows ==
  ASSUME NEW mem, NEW heard, NEW more, Within(mem, heard),
         \A s \in H!SessionIds : heard[s] \subseteq more[s]
  PROVE  Within(mem, more)
  BY Zenon DEF Within

LEMMA WithinEmpty ==
  ASSUME NEW heard
  PROVE  Within(H!EmptyCache, heard)
  BY EmptyTypes DEF Within

LEMMA WithinKept ==
  ASSUME H!HookAssumption, NEW mem \in Memories, NEW heard, Within(mem, heard)
  PROVE  Within(H!Kept(mem), heard)
  <1>1. \A s \in H!SessionIds : H!Kept(mem).of[s] \in {mem.of[s], H!NoMemory}
    BY KeptFields, EmptyTypes DEF H!HookAssumption
  <1> SUFFICES ASSUME NEW s \in H!SessionIds, NEW f \in Files, NEW v \in H!Kept(mem).of[s][f].known
               PROVE  <<f, v>> \in heard[s]
    BY Zenon DEF Within
  <1>2. H!NoMemory[f].known = {}  BY EmptyTypes
  <1>3. v \in mem.of[s][f].known  BY <1>1, <1>2
  <1> QED  BY <1>3 DEF Within

LEMMA MissRest ==
  ASSUME NEW c \in Calls, Others(c),
         Within(cache, Heard), \A d \in Calls : Within(calls[d].mem, Heard),
         \A s \in H!SessionIds : Heard[s] \subseteq Heard'[s],
         Within(cache', Heard'), Within(calls'[c].mem, Heard')
  PROVE  MissInv'
  <1>1. ASSUME NEW d \in Calls PROVE Within(calls'[d].mem, Heard')
    <2>1. CASE d = c  BY <2>1
    <2>2. CASE d # c
      <3>1. Within(calls[d].mem, Heard)  OBVIOUS
      <3>2. Within(calls[d].mem, Heard')  BY <3>1, WithinGrows
      <3> QED  BY <2>2, <3>2 DEF Others
    <2> QED  BY <2>1, <2>2
  <1>2. \A d \in Calls : Within(calls[d].mem, Heard)'
    <2> SUFFICES ASSUME NEW d \in Calls PROVE Within(calls[d].mem, Heard)'
      OBVIOUS
    <2> QED  BY <1>1, Zenon DEF Within
  <1>3. Within(cache, Heard)'  BY Zenon DEF Within
  <1> QED  BY <1>2, <1>3 DEF MissInv

LEMMA MissInit ==
  ASSUME H!HookAssumption, H!Init
  PROVE  MissInv
  <1>1. cache = H!EmptyCache  BY DEF H!Init
  <1>2. \A c \in Calls : calls[c].mem = H!EmptyCache  BY DEF H!Init, H!Idle
  <1> QED  BY <1>1, <1>2, WithinEmpty DEF MissInv

LEMMA MissNext ==
  ASSUME H!HookAssumption, HookBase, MissInv, [H!Next]_(H!hvars)
  PROVE  MissInv'
  <1>0. HookTypeInv /\ PlaceInv  BY DEF HookBase
  <1>1. CASE UNCHANGED H!hvars
    <2>1. cache' = cache /\ calls' = calls /\ told' = told /\ used' = used  BY <1>1 DEF H!hvars
    <2>2. Heard' = Heard  BY <2>1 DEF Heard, H!Coming
    <2> QED  BY <2>1, <2>2 DEF MissInv, Within
  <1>2. ASSUME NEW c \in Calls,
               H!HookStep(c) \/ H!Edit(c) \/ H!Propose(c) \/ H!Kill(c) \/ H!Command(c) \/ H!Reset(c)
        PROVE  MissInv'
    <2> SUFFICES ASSUME H!AllShown, used'.kills = 0 PROVE MissInv'
      BY DEF MissInv
    <2>1. used.kills = 0 /\ ~H!Kill(c)  BY <1>0, <1>2, UsedSteps
    <2>2. Within(cache, Heard) /\ \A d \in Calls : Within(calls[d].mem, Heard)
      BY <2>1 DEF MissInv
    <2>3. calls[c].mem \in Memories /\ Within(calls[c].mem, Heard)
      BY <1>0, <2>2, ProcessFields DEF HookTypeInv
    <2>4. calls[c].fresh # {} => calls[c].pc \in Telling /\ SessionOf[c] \notin Cursor
      BY <1>0 DEF PlaceInv, PlaceOK
    <2>5. H!Idle.mem = H!EmptyCache /\ H!Idle.fresh = {}  BY DEF H!Idle
    <2> DEFINE grown == \A s \in H!SessionIds : Heard[s] \subseteq Heard'[s]
    \* The processes that tell nothing and hold on to nothing new.
    <2>6. ASSUME Others(c), told' = told, calls[c].fresh \subseteq calls'[c].fresh,
                 cache' \in {cache, H!EmptyCache, H!Kept(calls[c].mem)},
                 \/ calls'[c].mem \in {cache, H!EmptyCache, calls[c].mem}
                 \/ \A s \in H!SessionIds, f \in Files :
                      calls'[c].mem.of[s][f].known \in {cache.of[s][f].known, calls[c].mem.of[s][f].known}
          PROVE  MissInv'
      <3>1. grown  BY <2>6, HeardRest, Zenon
      <3>2. Within(cache, Heard') /\ Within(calls[c].mem, Heard') /\ Within(H!EmptyCache, Heard')
        BY <2>2, <2>3, <3>1, WithinGrows, WithinEmpty
      <3>3. Within(H!Kept(calls[c].mem), Heard')  BY <2>3, <3>2, WithinKept
      <3>4. Within(cache', Heard')  BY <2>6, <3>2, <3>3, Zenon
      <3>5. Within(calls'[c].mem, Heard')
        <4>1. CASE calls'[c].mem \in {cache, H!EmptyCache, calls[c].mem}  BY <3>2, <4>1
        <4>2. CASE \A s \in H!SessionIds, f \in Files :
                     calls'[c].mem.of[s][f].known \in {cache.of[s][f].known, calls[c].mem.of[s][f].known}
          BY <3>2, <4>2, Zenon DEF Within
        <4> QED  BY <2>6, <4>1, <4>2, Zenon
      <3> QED  BY <2>2, <2>6, <3>1, <3>4, <3>5, MissRest, Zenon
    <2>7. CASE H!ReadState(c)
      <3>1. calls[c].fresh = {}
        BY <1>0, <2>4, <2>7, ReadStep DEF Telling
      <3>2. Others(c) /\ calls'[c].mem \in {cache, H!EmptyCache}
        BY <1>0, <2>5, <2>7, ReadStep
      <3> QED  BY <2>6, <2>7, <3>1, <3>2, Zenon DEF H!ReadState
    <2>8. CASE H!PassOver(c)
      <3>1. Others(c) /\ calls'[c] = [calls[c] EXCEPT !.todo = Tail(calls[c].todo)]
        BY <1>0, <2>8, PassOverStep
      <3>2. calls'[c].mem = calls[c].mem /\ calls'[c].fresh = calls[c].fresh
        BY <1>0, <3>1 DEF HookTypeInv, Processes
      <3> QED  BY <2>6, <2>8, <3>1, <3>2 DEF H!PassOver
    <2>9. CASE H!Suppress(c)
      <3>1. /\ Others(c) /\ calls'[c].fresh = calls[c].fresh
            /\ \A s \in H!SessionIds, f \in Files :
                 calls'[c].mem.of[s][f].known = calls[c].mem.of[s][f].known
        BY <1>0, <2>9, SuppressStep, Zenon DEF SuppressMoves, SuppressCounts
      <3> QED  BY <2>6, <2>9, <3>1, ScanFrame, Zenon
    <2>10. CASE H!Scan(c)
      <3> DEFINE x == calls[c]
                 y == calls'[c]
                 s == SessionOf[c]
                 f == Head(x.todo)
                 fresh == H!Fresh(x, s, f)
      <3>1. /\ Others(c) /\ f \in Files /\ y.fresh = x.fresh \cup {<<f, v>> : v \in fresh}
            /\ \A t \in H!SessionIds, g \in Files :
                 y.mem.of[t][g].known =
                   x.mem.of[t][g].known \cup (IF t = s /\ g = f THEN fresh ELSE {})
        <4>1. ScanMoves(c) /\ ScanKnown(c)  BY <1>0, <2>10, ScanStep, Zenon
        <4> QED  BY <4>1, Zenon DEF ScanMoves, ScanKnown
      <3>2. told' = told /\ cache' = cache  BY <2>10, ScanFrame
      <3> HIDE DEF fresh, f, y
      <3>3. grown  BY <3>1, <3>2, HeardRest DEF y
      <3>4. Within(cache', Heard') /\ Within(x.mem, Heard')  BY <2>2, <2>3, <3>2, <3>3, WithinGrows
      <3>5. \A v \in fresh : <<f, v>> \in Heard'[s]
        <4>1. \A v \in fresh : <<f, v>> \in y.fresh  BY <3>1
        <4>2. y.fresh \subseteq H!Coming(s)'  BY DEF y, H!Coming
        <4> QED  BY <4>1, <4>2, SessionOfCall DEF Heard
      <3>6. Within(y.mem, Heard')
        <4> SUFFICES ASSUME NEW t \in H!SessionIds, NEW g \in Files, NEW v \in y.mem.of[t][g].known
                     PROVE  <<g, v>> \in Heard'[t]
          BY Zenon DEF Within
        <4>1. v \in x.mem.of[t][g].known \/ (t = s /\ g = f /\ v \in fresh)  BY <3>1
        <4> QED  BY <3>4, <3>5, <4>1 DEF Within
      <3> QED  BY <2>2, <3>1, <3>3, <3>4, <3>6, MissRest DEF y
    <2>11. CASE H!Emit(c)
      <3> DEFINE x == calls[c]
                 s == SessionOf[c]
      <3>1. Others(c) /\ calls'[c] = H!Idle  BY <1>0, <2>11, EmitStep
      <3>2. told' = [told EXCEPT ![s] = [once |-> @.once \cup x.fresh,
                                         again |-> @.again \cup (@.once \cap x.fresh)]]
        BY <1>0, <2>11, EmitStep
      <3>3. cache' = cache  BY <2>11 DEF H!Emit
      <3>4. grown
        <4> SUFFICES ASSUME NEW t \in H!SessionIds PROVE Heard[t] \subseteq Heard'[t]
          OBVIOUS
        <4>1. Heard[t] = told[t].once \cup H!Coming(t) /\ Heard'[t] = told'[t].once \cup H!Coming(t)'
          BY DEF Heard
        <4>2. CASE t = s
          <5>1. told'[t].once = told[t].once \cup x.fresh
            BY <1>0, <3>2, <4>2 DEF HookTypeInv
          <5>2. H!Coming(t) \subseteq H!Coming(t)' \cup x.fresh  BY <3>1, ComingRest
          <5> QED  BY <4>1, <5>1, <5>2
        <4>3. CASE t # s
          <5>1. told'[t] = told[t]  BY <1>0, <3>2, <4>3 DEF HookTypeInv
          <5>2. H!Coming(t) \subseteq H!Coming(t)'
            <6> SUFFICES ASSUME NEW v \in H!Coming(t) PROVE v \in H!Coming(t)'
              OBVIOUS
            <6>1. PICK d \in Calls : SessionOf[d] = t /\ v \in calls[d].fresh  BY DEF H!Coming
            <6>2. calls'[d] = calls[d]  BY <3>1, <4>3, <6>1 DEF Others
            <6> QED  BY <6>1, <6>2 DEF H!Coming
          <5> QED  BY <4>1, <5>1, <5>2
        <4> QED  BY <4>2, <4>3
      <3>5. Within(cache', Heard')  BY <2>2, <3>3, <3>4, WithinGrows
      <3>6. Within(calls'[c].mem, Heard')  BY <2>5, <3>1, WithinEmpty
      <3> QED  BY <2>2, <3>1, <3>4, <3>5, <3>6, MissRest
    <2>12. CASE H!Judge(c)
      <3>1. Others(c) /\ calls[c].pc = "gate"
            /\ (calls'[c] = H!Idle \/ (calls'[c].mem = calls[c].mem /\ calls'[c].fresh = calls[c].fresh))
        BY <1>0, <2>12, JudgeStep, Zenon
      <3>2. calls[c].fresh = {}  BY <2>4, <3>1 DEF Telling
      <3> QED  BY <2>5, <2>6, <2>12, <3>1, <3>2, Zenon DEF H!Judge
    <2>13. CASE H!Object(c)
      <3>1. /\ Others(c) /\ calls'[c].fresh = calls[c].fresh
            /\ \A s \in H!SessionIds, f \in Files :
                 calls'[c].mem.of[s][f].known = cache.of[s][f].known
        BY <2>13, ObjectStep
      <3> QED  BY <2>6, <2>13, <3>1, Zenon DEF H!Object
    <2>14. CASE H!Verdict(c)
      <3>1. Others(c) /\ calls'[c] = H!Idle  BY <1>0, <2>14, IdleStep DEF H!Verdict
      <3>2. calls[c].fresh = {}  BY <2>4, <2>14 DEF Telling, H!Verdict, H!At
      <3> QED  BY <2>5, <2>6, <2>14, <3>1, <3>2, Zenon DEF H!Verdict
    <2>15. CASE H!Cut(c)
      <3>1. Others(c) /\ calls'[c].mem = calls[c].mem /\ calls'[c].fresh = calls[c].fresh
        BY <1>0, <2>15, MoveStep, Zenon DEF H!Cut, Places
      <3> QED  BY <2>6, <2>15, <3>1 DEF H!Cut
    <2>16. CASE H!Fill(c)
      <3>1. Others(c) /\ calls'[c].mem = calls[c].mem /\ calls'[c].fresh = calls[c].fresh
        BY <1>0, <2>16, MoveStep, Zenon DEF H!Fill, Places
      <3>2. cache' \in {H!Kept(calls[c].mem), H!EmptyCache}  BY <2>16 DEF H!Fill, H!Filled
      <3> QED  BY <2>6, <2>16, <3>1, <3>2 DEF H!Fill
    <2>17. CASE H!CutConfig(c)
      <3>1. Others(c) /\ calls'[c].mem = calls[c].mem /\ calls'[c].fresh = calls[c].fresh
        BY <1>0, <2>17, MoveStep, Zenon DEF H!CutConfig, Places
      <3> QED  BY <2>6, <2>17, <3>1, Zenon DEF H!CutConfig
    <2>18. CASE H!FillConfig(c)
      <3>1. Others(c) /\ calls'[c] = H!Idle  BY <1>0, <2>18, IdleStep, Zenon DEF H!FillConfig
      <3>2. calls[c].fresh = {}  BY <2>4, <2>18, Zenon DEF Telling, H!FillConfig, H!At
      <3> QED  BY <2>5, <2>6, <2>18, <3>1, <3>2, Zenon DEF H!FillConfig
    <2>19. CASE H!Edit(c)
      <3>1. Others(c) /\ calls[c].pc = "idle" /\ calls'[c].mem = H!EmptyCache
        BY <1>0, <2>19, EditStep
      <3>2. calls[c].fresh = {}  BY <2>4, <3>1 DEF Telling
      <3> QED  BY <2>6, <2>19, <3>1, <3>2 DEF H!Edit
    <2>20. CASE H!Propose(c)
      <3>1. Others(c) /\ calls[c].pc = "idle" /\ calls'[c].mem = H!EmptyCache
        BY <1>0, <2>20, ProposeStep
      <3>2. calls[c].fresh = {}  BY <2>4, <3>1 DEF Telling
      <3> QED  BY <2>6, <2>20, <3>1, <3>2 DEF H!Propose
    <2>21. CASE H!Command(c)
      <3>1. Others(c) /\ calls[c].pc = "idle" /\ calls'[c].mem = H!EmptyCache
        BY <1>0, <2>21, CommandStep, Zenon
      <3>2. calls[c].fresh = {}  BY <2>4, <3>1 DEF Telling
      <3> QED  BY <2>6, <2>21, <3>1, <3>2 DEF H!Command
    <2>22. CASE H!Reset(c)
      <3>1. Others(c) /\ calls' = calls /\ cache' = H!EmptyCache /\ told' = told
        BY <1>0, <2>22 DEF H!Reset, Others, HookTypeInv
      <3> QED  BY <2>6, <3>1
    <2> QED
      BY <1>2, <2>1, <2>7, <2>8, <2>9, <2>10, <2>11, <2>12, <2>13, <2>14, <2>15, <2>16, <2>17, <2>18,
         <2>19, <2>20, <2>21, <2>22 DEF H!HookStep
  <1> QED  BY <1>1, <1>2 DEF H!Next

-----------------------------------------------------------------------------
(* A denial in the cache is an attempt that was made, but attempts that    *)
(* are not counted there yet.                                              *)

Objecting(s, f, q) ==
  {c \in Calls : /\ calls[c].pc = "object" /\ SessionOf[c] = s
                 /\ Head(calls[c].primary) = f /\ H!Signature(calls[c]) = q}

Behind(mem, s, f, q, n) == mem.of[s][f].denials[q] + n <= tried[s][f][q]

DenyOK(s, f, q) ==
  \/ tried[s][f][q] >= Threshold + 2
  \/ /\ Behind(cache, s, f, q, Cardinality(Objecting(s, f, q)))
     /\ \A c \in Calls : Behind(calls[c].mem, s, f, q, Cardinality(Objecting(s, f, q)))

DenyInv == \A s \in Cursor, f \in Files, q \in SUBSET H!Rules : DenyOK(s, f, q)

LEMMA ObjectingFinite ==
  ASSUME H!HookAssumption, NEW s, NEW f, NEW q
  PROVE  IsFiniteSet(Objecting(s, f, q)) /\ Cardinality(Objecting(s, f, q)) \in Nat
  <1>1. IsFiniteSet(Calls) /\ Objecting(s, f, q) \subseteq Calls
    BY SameSets DEF H!HookAssumption, Objecting
  <1> QED  BY <1>1, FS_Subset, FS_CardinalityType

LEMMA LeastSum ==
  ASSUME NEW n \in Nat, NEW m \in Nat, NEW t \in Nat, NEW j \in Nat, NEW k \in Nat,
         m <= n, j + n <= t, k = 0 \/ k + n <= t
  PROVE  k + m <= t
  OBVIOUS

LEMMA DenialsNat ==
  ASSUME H!HookAssumption, HookTypeInv, NEW s \in Cursor, NEW f \in Files, NEW q \in SUBSET H!Rules
  PROVE  /\ s \in H!SessionIds /\ tried[s][f][q] \in Nat
         /\ \A mem \in Memories : mem.of[s][f].denials[q] \in Nat
         /\ H!EmptyCache.of[s][f].denials[q] = 0
         /\ \A mem \in Memories :
              H!Kept(mem).of[s][f].denials[q] \in {0, mem.of[s][f].denials[q]}
  <1>1. s \in H!SessionIds  BY DEF H!HookAssumption
  <1>2. tried[s][f][q] \in Nat  BY DEF HookTypeInv
  <1>3. \A mem \in Memories : mem.of[s][f].denials[q] \in Nat  BY <1>1 DEF Memories, Entries
  <1>4. H!NoMemory[f].denials[q] = 0 /\ H!EmptyCache.of[s][f].denials[q] = 0  BY <1>1, EmptyTypes
  <1>5. ASSUME NEW mem \in Memories
        PROVE  H!Kept(mem).of[s][f].denials[q] \in {0, mem.of[s][f].denials[q]}
    <2>1. H!Kept(mem).of[s] \in {mem.of[s], H!NoMemory}
      BY <1>1, KeptFields, EmptyTypes DEF H!HookAssumption
    <2> QED  BY <1>4, <2>1
  <1> QED  BY <1>1, <1>2, <1>3, <1>4, <1>5

\* Who does not begin to object, and holds on to no denial that was not there.
LEMMA DenyRest ==
  ASSUME H!HookAssumption, HookBase, NEW s \in Cursor, NEW f \in Files, NEW q \in SUBSET H!Rules,
         DenyOK(s, f, q), HookBase',
         NEW c \in Calls, Others(c), Objecting(s, f, q)' \subseteq Objecting(s, f, q),
         tried'[s][f][q] = tried[s][f][q],
         cache'.of[s][f].denials[q]
           \in {0, cache.of[s][f].denials[q], calls[c].mem.of[s][f].denials[q]},
         calls'[c].mem.of[s][f].denials[q]
           \in {0, cache.of[s][f].denials[q], calls[c].mem.of[s][f].denials[q]}
  PROVE  DenyOK(s, f, q)'
  <1> DEFINE n == Cardinality(Objecting(s, f, q))
             m == Cardinality(Objecting(s, f, q)')
  <1>1. n \in Nat /\ m \in Nat /\ m <= n
    <2>1. IsFiniteSet(Objecting(s, f, q)) /\ n \in Nat  BY ObjectingFinite, Zenon
    <2> QED  BY <2>1, FS_Subset, FS_CardinalityType, Zenon
  <1>2. tried[s][f][q] \in Nat /\ \A mem \in Memories : mem.of[s][f].denials[q] \in Nat
    BY DenialsNat, Zenon DEF HookBase
  <1>3. cache \in Memories /\ \A d \in Calls : calls[d].mem \in Memories
    BY ProcessFields, Zenon DEF HookBase, HookTypeInv
  <1>4. CASE tried[s][f][q] >= Threshold + 2  BY <1>4, Zenon DEF DenyOK
  <1>5. CASE /\ Behind(cache, s, f, q, n)
             /\ \A d \in Calls : Behind(calls[d].mem, s, f, q, n)
    <2> DEFINE t == tried[s][f][q]
    <2> HIDE DEF n, m
    <2>1. cache.of[s][f].denials[q] + n <= t /\ \A d \in Calls : calls[d].mem.of[s][f].denials[q] + n <= t
      BY <1>5, Zenon DEF Behind
    <2>2. t \in Nat /\ cache.of[s][f].denials[q] \in Nat
          /\ \A d \in Calls : calls[d].mem.of[s][f].denials[q] \in Nat
      BY <1>2, <1>3, Zenon
    <2> DEFINE least(k) == k \in Nat /\ k + n <= t
    <2>3. ASSUME NEW k, k = 0 \/ least(k) PROVE k + m <= t
      <3>1. cache.of[s][f].denials[q] \in Nat /\ cache.of[s][f].denials[q] + n <= t
        BY <2>1, <2>2, Zenon
      <3>2. k \in Nat /\ (k = 0 \/ k + n <= t)
        <4>1. CASE k = 0  BY <4>1, Zenon
        <4>2. CASE least(k)  BY <4>2, Zenon
        <4> QED  BY <2>3, <4>1, <4>2, Zenon
      <3>3. t \in Nat  BY <2>2, Zenon
      <3> HIDE DEF t, least
      <3> QED  BY <1>1, <3>1, <3>2, <3>3, LeastSum, Zenon
    <2>4. /\ least(cache.of[s][f].denials[q])
          /\ \A d \in Calls : least(calls[d].mem.of[s][f].denials[q])
      BY <2>1, <2>2, Zenon
    <2> HIDE DEF least, t
    <2>5. cache'.of[s][f].denials[q] + m <= t  BY <2>3, <2>4, Zenon
    <2>6. ASSUME NEW d \in Calls PROVE calls'[d].mem.of[s][f].denials[q] + m <= t
      <3>1. CASE d = c  BY <2>3, <2>4, <3>1, Zenon
      <3>2. CASE d # c
        <4>1. calls'[d] = calls[d]  BY <3>2, Zenon DEF Others
        <4> QED  BY <2>3, <2>4, <4>1, Zenon
      <3> QED  BY <3>1, <3>2, Zenon
    <2> QED  BY <2>5, <2>6, Zenon DEF DenyOK, Behind, m, t
  <1> QED  BY <1>4, <1>5, Zenon DEF DenyOK

LEMMA DenyInit ==
  ASSUME H!HookAssumption, H!Init
  PROVE  DenyInv
  <1> SUFFICES ASSUME NEW s \in Cursor, NEW f \in Files, NEW q \in SUBSET H!Rules
               PROVE  DenyOK(s, f, q)
    BY DEF DenyInv
  <1>1. cache = H!EmptyCache /\ \A c \in Calls : calls[c].mem = H!EmptyCache /\ calls[c].pc = "idle"
    BY DEF H!Init, H!Idle
  <1>2. tried[s][f][q] = 0  BY DEF H!Init
  <1>3. Objecting(s, f, q) = {}  BY <1>1 DEF Objecting
  <1>4. Cardinality(Objecting(s, f, q)) = 0  BY <1>3, FS_EmptySet
  <1>5. H!EmptyCache.of[s][f].denials[q] = 0
    BY BaseInit, DenialsNat DEF HookBase
  <1> QED  BY <1>1, <1>2, <1>4, <1>5 DEF DenyOK, Behind

LEMMA DenyNext ==
  ASSUME H!HookAssumption, HookBase, HookBase', DenyInv, [H!Next]_(H!hvars)
  PROVE  DenyInv'
  <1> SUFFICES ASSUME NEW s \in Cursor, NEW f \in Files, NEW q \in SUBSET H!Rules
               PROVE  DenyOK(s, f, q)'
    BY DEF DenyInv
  <1>0. HookTypeInv /\ PlaceInv /\ DenyOK(s, f, q)  BY DEF HookBase, DenyInv
  <1> DEFINE W == Objecting(s, f, q)
             D(mem) == mem.of[s][f].denials[q]
             t == tried[s][f][q]
  <1>1. CASE UNCHANGED H!hvars
    <2>1. cache' = cache /\ calls' = calls /\ tried' = tried  BY <1>1 DEF H!hvars
    <2>2. Objecting(s, f, q)' = Objecting(s, f, q)  BY <2>1 DEF Objecting, H!Signature, H!Objections
    <2> QED  BY <1>0, <2>1, <2>2 DEF DenyOK, Behind
  <1>2. ASSUME NEW c \in Calls,
               H!HookStep(c) \/ H!Edit(c) \/ H!Propose(c) \/ H!Kill(c) \/ H!Command(c) \/ H!Reset(c)
        PROVE  DenyOK(s, f, q)'
    <2>1. /\ D(H!EmptyCache) = 0 /\ D(H!Idle.mem) = 0 /\ H!Idle.pc = "idle" /\ s \in H!SessionIds
          /\ \A mem \in Memories : D(H!Kept(mem)) \in {0, D(mem)}
      <3>1. H!Idle.mem = H!EmptyCache /\ H!Idle.pc = "idle"  BY DEF H!Idle
      <3> QED  BY <1>0, <3>1, DenialsNat, Zenon
    <2>2. calls[c].mem \in Memories /\ calls[c] \in Processes /\ SessionOf[c] \in H!SessionIds
      BY <1>0, ProcessFields, SessionOfCall DEF HookTypeInv
    <2> DEFINE quiet == Others(c) /\ (calls'[c].pc = "object" => calls[c].pc = "object" /\ calls'[c] = calls[c])
    <2>3. ASSUME quiet PROVE Objecting(s, f, q)' \subseteq Objecting(s, f, q)
      <3> SUFFICES ASSUME NEW d \in Calls, calls'[d].pc = "object", SessionOf[d] = s,
                          Head(calls'[d].primary) = f, H!Signature(calls'[d]) = q
                   PROVE  d \in Objecting(s, f, q)
        BY DEF Objecting, H!Signature, H!Objections
      <3>1. calls'[d] = calls[d]  BY <2>3 DEF Others
      <3> QED  BY <3>1 DEF Objecting
    <2>4. ASSUME quiet, tried' = tried, cache' \in {cache, H!EmptyCache, H!Kept(calls[c].mem)},
                 D(calls'[c].mem) \in {0, D(cache), D(calls[c].mem)}
          PROVE  DenyOK(s, f, q)'
      <3>1. D(cache') \in {0, D(cache), D(calls[c].mem)}
        BY <2>1, <2>2, <2>4, Zenon
      <3> QED  BY <1>0, <2>3, <2>4, <3>1, DenyRest, Zenon
    <2>5. CASE H!ReadState(c)
      <3>1. Others(c) /\ (calls'[c] = H!Idle \/ (calls'[c].pc = "scan" /\ calls'[c].mem = cache))
        BY <1>0, <2>5, ReadStep
      <3> QED  BY <2>1, <2>4, <2>5, <3>1, Zenon DEF H!ReadState
    <2>6. CASE H!PassOver(c)
      <3>1. /\ Others(c) /\ calls[c].pc = "scan"
            /\ calls'[c] = [calls[c] EXCEPT !.todo = Tail(calls[c].todo)]
        BY <1>0, <2>6, PassOverStep
      <3>2. calls'[c].mem = calls[c].mem /\ calls'[c].pc = "scan"  BY <2>2, <3>1 DEF Processes
      <3> QED  BY <2>4, <2>6, <3>1, <3>2 DEF H!PassOver
    <2>7. CASE H!Suppress(c)
      <3>1. /\ Others(c) /\ calls'[c].pc = "scan"
            /\ \A u \in H!SessionIds, g \in Files :
                 calls'[c].mem.of[u][g].denials = calls[c].mem.of[u][g].denials
        BY <1>0, <2>7, SuppressStep, Zenon DEF SuppressMoves, SuppressCounts
      <3> QED  BY <2>1, <2>4, <2>7, <3>1, ScanFrame, Zenon
    <2>8. CASE H!Scan(c)
      <3>1. /\ Others(c) /\ calls'[c].pc = "scan"
            /\ \A u \in H!SessionIds, g \in Files :
                 calls'[c].mem.of[u][g].denials = calls[c].mem.of[u][g].denials
        BY <1>0, <2>8, ScanStep, Zenon DEF ScanMoves, ScanCounts
      <3> QED  BY <2>1, <2>4, <2>8, <3>1, ScanFrame, Zenon
    <2>9. CASE H!Emit(c)
      <3>1. Others(c) /\ calls'[c] = H!Idle  BY <1>0, <2>9, EmitStep
      <3> QED  BY <2>1, <2>4, <2>9, <3>1, Zenon DEF H!Emit
    <2>10. CASE H!Judge(c)
      <3> DEFINE x == calls[c]
                 y == calls'[c]
                 r == H!Signature(y)
                 g == Head(x.primary)
                 u == SessionOf[c]
      <3>1. /\ Others(c) /\ x.pc = "gate"
            /\ \/ y = H!Idle /\ tried' = tried
               \/ /\ y.pc = "object" /\ y.primary = x.primary /\ y.mem = x.mem
                  /\ r \in SUBSET H!Rules /\ tried' = [tried EXCEPT ![u][g][r] = H!OneMore(@)]
        BY <1>0, <2>10, JudgeStep, Zenon
      <3>2. cache' = cache  BY <2>10 DEF H!Judge
      <3>3. CASE y = H!Idle /\ tried' = tried  BY <2>1, <2>4, <3>1, <3>2, <3>3, Zenon
      <3>4. CASE /\ y.pc = "object" /\ y.primary = x.primary /\ y.mem = x.mem
                 /\ r \in SUBSET H!Rules /\ tried' = [tried EXCEPT ![u][g][r] = H!OneMore(@)]
        <4>1. u \in Cursor /\ g \in Files
          <5>1. PlaceOK(c)  BY <1>0 DEF PlaceInv
          <5>2. u \in Cursor /\ x.primary # <<>>  BY <3>1, <5>1 DEF PlaceOK, Gating
          <5> QED  BY <2>2, <5>2, ProcessFields
        <4>2. tried'[s][f][q] = IF u = s /\ g = f /\ r = q THEN H!OneMore(t) ELSE t
          <5> HIDE DEF y, r, g, u
          <5> QED  BY <1>0, <3>4, <4>1 DEF HookTypeInv
        <4>3. CASE ~(u = s /\ g = f /\ r = q)
          <5>1. Objecting(s, f, q)' \subseteq Objecting(s, f, q)
            <6> SUFFICES ASSUME NEW d \in Calls, calls'[d].pc = "object", SessionOf[d] = s,
                                Head(calls'[d].primary) = f, H!Signature(calls'[d]) = q
                         PROVE  d \in Objecting(s, f, q)
              BY DEF Objecting, H!Signature, H!Objections
            <6>1. d # c  BY <3>4, <4>3
            <6>2. calls'[d] = calls[d]  BY <3>1, <6>1 DEF Others
            <6> QED  BY <6>2 DEF Objecting
          <5> QED  BY <1>0, <3>1, <3>2, <3>4, <4>2, <4>3, <5>1, DenyRest, Zenon
        <4>4. CASE u = s /\ g = f /\ r = q
          <5>1. c \notin W  BY <3>1 DEF Objecting
          <5>2. Objecting(s, f, q)' = W \cup {c}
            <6>1. \A d \in Calls : d # c => calls'[d] = calls[d]  BY <3>1 DEF Others
            <6>2. \A d \in Calls : d \in Objecting(s, f, q)' <=>
                    /\ calls'[d].pc = "object" /\ SessionOf[d] = s
                    /\ Head(calls'[d].primary) = f /\ H!Signature(calls'[d]) = q
              BY DEF Objecting, H!Signature, H!Objections
            <6>3. \A d \in Calls : d \in W <=>
                    /\ calls[d].pc = "object" /\ SessionOf[d] = s
                    /\ Head(calls[d].primary) = f /\ H!Signature(calls[d]) = q
              BY DEF Objecting
            <6>4. c \in Objecting(s, f, q)'  BY <3>4, <4>4, <6>2
            <6>5. \A d \in Calls : d # c => (d \in Objecting(s, f, q)' <=> d \in W)
              BY <6>1, <6>2, <6>3
            <6>6. W \subseteq Calls /\ Objecting(s, f, q)' \subseteq Calls  BY DEF Objecting
            <6> HIDE DEF W
            <6> QED  BY <6>4, <6>5, <6>6
          <5>3. Cardinality(Objecting(s, f, q)') = Cardinality(W) + 1
            <6>1. IsFiniteSet(W)  BY ObjectingFinite
            <6> HIDE DEF W
            <6> QED  BY <5>1, <5>2, <6>1, FS_AddElement
          <5>4. /\ t \in Nat /\ tried'[s][f][q] = IF t <= Threshold THEN t + 1 ELSE Threshold + 2
            <6>1. t \in Nat  BY <1>0, DenialsNat
            <6> QED  BY <4>2, <4>4, <6>1, OneMoreNat
          <5>5. CASE t > Threshold
            <6>1. tried'[s][f][q] >= Threshold + 2  BY <5>4, <5>5 DEF H!HookAssumption
            <6> QED  BY <6>1 DEF DenyOK
          <5>6. CASE t <= Threshold
            <6> DEFINE n == Cardinality(W)
            <6>1. D(cache) + n <= t /\ \A d \in Calls : D(calls[d].mem) + n <= t
              BY <1>0, <5>4, <5>6 DEF DenyOK, Behind, H!HookAssumption
            <6>2. /\ n \in Nat /\ D(cache) \in Nat
                  /\ \A d \in Calls : D(calls[d].mem) \in Nat
              BY <1>0, ObjectingFinite, DenialsNat, ProcessFields, Zenon DEF HookTypeInv
            <6> HIDE DEF n, D
            <6>3. D(cache) + (n + 1) <= t + 1 /\ \A d \in Calls : D(calls[d].mem) + (n + 1) <= t + 1
              BY <6>1, <6>2, <5>4
            <6>4. \A d \in Calls : calls'[d].mem = calls[d].mem  BY <3>1, <3>4 DEF Others
            <6>5. D(cache') + (n + 1) <= t + 1 /\ \A d \in Calls : D(calls'[d].mem) + (n + 1) <= t + 1
              BY <3>2, <6>3, <6>4
            <6>6. tried'[s][f][q] = t + 1 /\ Cardinality(Objecting(s, f, q)') = n + 1
              BY <5>3, <5>4, <5>6 DEF n
            <6> HIDE DEF t, W
            <6> QED  BY <6>5, <6>6 DEF DenyOK, Behind, D
          <5> QED  BY <5>4, <5>5, <5>6 DEF H!HookAssumption
        <4> QED  BY <4>3, <4>4
      <3> QED  BY <3>1, <3>3, <3>4
    <2>11. CASE H!Object(c)
      <3> DEFINE x == calls[c]
                 y == calls'[c]
                 r == H!Signature(x)
                 g == Head(x.primary)
                 u == SessionOf[c]
      <3>1. /\ Others(c) /\ x.pc = "object" /\ y.pc = "persist"
            /\ D(y.mem) = IF s = u /\ f = g /\ q = r THEN H!OneMore(D(cache)) ELSE D(cache)
        BY <2>1, <2>11, ObjectStep
      <3>2. cache' = cache /\ tried' = tried  BY <2>11 DEF H!Object
      <3>3. CASE ~(s = u /\ f = g /\ q = r)
        <4>1. D(y.mem) = D(cache) /\ quiet  BY <3>1, <3>3
        <4> QED  BY <2>4, <3>2, <4>1
      <3>4. CASE s = u /\ f = g /\ q = r
        <4>1. c \in W  BY <3>1, <3>4, Zenon DEF Objecting
        <4>2. Objecting(s, f, q)' \subseteq W \ {c}
          <5>1. quiet  BY <3>1
          <5>2. c \notin Objecting(s, f, q)'  BY <3>1 DEF Objecting
          <5> QED  BY <2>3, <5>1, <5>2
        <4> DEFINE n == Cardinality(W)
                   m == Cardinality(Objecting(s, f, q)')
        <4>3. n \in Nat /\ m \in Nat /\ m + 1 <= n
          <5>1. IsFiniteSet(W) /\ n \in Nat  BY ObjectingFinite
          <5>2. IsFiniteSet(W \ {c}) /\ Cardinality(W \ {c}) = n - 1
            <6> HIDE DEF W
            <6> QED  BY <4>1, <5>1, FS_RemoveElement
          <5>3. m \in Nat /\ m <= Cardinality(W \ {c})
            <6> HIDE DEF W
            <6> QED  BY <4>2, <5>2, FS_Subset, FS_CardinalityType
          <5> QED  BY <5>1, <5>2, <5>3
        <4>4. t \in Nat /\ D(cache) \in Nat /\ (\A d \in Calls : D(calls[d].mem) \in Nat)
              /\ Threshold \in Nat
          BY <1>0, DenialsNat, ProcessFields, Zenon DEF HookTypeInv, H!HookAssumption
        <4>5. H!OneMore(D(cache)) \in Nat /\ H!OneMore(D(cache)) <= D(cache) + 1
          <5>1. H!OneMore(D(cache)) = IF D(cache) <= Threshold THEN D(cache) + 1 ELSE Threshold + 2
            BY <4>4, OneMoreNat
          <5> HIDE DEF D
          <5> QED  BY <4>4, <5>1
        <4>6. CASE t >= Threshold + 2  BY <3>2, <4>6 DEF DenyOK
        <4>7. CASE D(cache) + n <= t /\ \A d \in Calls : D(calls[d].mem) + n <= t
          <5> HIDE DEF D, n, m, W, t
          <5>1. D(cache') + m <= t /\ \A d \in Calls : D(calls[d].mem) + m <= t
            BY <3>2, <4>3, <4>4, <4>7
          <5>2. D(y.mem) + m <= t
            <6>1. D(y.mem) = H!OneMore(D(cache))  BY <3>1, <3>4
            <6> QED  BY <4>3, <4>4, <4>5, <4>7, <6>1
          <5>3. \A d \in Calls : D(calls'[d].mem) + m <= t
            <6> SUFFICES ASSUME NEW d \in Calls PROVE D(calls'[d].mem) + m <= t
              OBVIOUS
            <6>1. CASE d = c  BY <5>2, <6>1
            <6>2. CASE d # c
              <7>1. calls'[d] = calls[d]  BY <3>1, <6>2 DEF Others
              <7> QED  BY <5>1, <7>1
            <6> QED  BY <6>1, <6>2
          <5>4. tried'[s][f][q] = t  BY <3>2 DEF t
          <5> QED  BY <5>1, <5>3, <5>4 DEF DenyOK, Behind, D, m
        <4> QED  BY <1>0, <4>6, <4>7, Zenon DEF DenyOK, Behind
      <3> QED  BY <3>3, <3>4
    <2>12. CASE H!Verdict(c)
      <3>1. Others(c) /\ calls'[c] = H!Idle  BY <1>0, <2>12, IdleStep DEF H!Verdict
      <3> QED  BY <2>1, <2>4, <2>12, <3>1, Zenon DEF H!Verdict
    <2>13. CASE H!Cut(c)
      <3>1. Others(c) /\ calls'[c].mem = calls[c].mem /\ calls'[c].pc = "fill"
        BY <1>0, <2>13, MoveStep, Zenon DEF H!Cut, Places
      <3> QED  BY <2>4, <2>13, <3>1 DEF H!Cut
    <2>14. CASE H!Fill(c)
      <3>1. Others(c) /\ calls'[c].mem = calls[c].mem /\ calls'[c].pc \in {"verdict", "emit"}
        BY <1>0, <2>14, MoveStep, Zenon DEF H!Fill, Places
      <3>2. cache' \in {H!Kept(calls[c].mem), H!EmptyCache}  BY <2>14 DEF H!Fill, H!Filled
      <3> QED  BY <2>4, <2>14, <3>1, <3>2 DEF H!Fill
    <2>15. CASE H!CutConfig(c)
      <3>1. Others(c) /\ calls'[c].mem = calls[c].mem /\ calls'[c].pc = "fill config"
        BY <1>0, <2>15, MoveStep, Zenon DEF H!CutConfig, Places
      <3> QED  BY <2>4, <2>15, <3>1, Zenon DEF H!CutConfig
    <2>16. CASE H!FillConfig(c)
      <3>1. Others(c) /\ calls'[c] = H!Idle  BY <1>0, <2>16, IdleStep, Zenon DEF H!FillConfig
      <3> QED  BY <2>1, <2>4, <2>16, <3>1, Zenon DEF H!FillConfig
    <2>17. CASE H!Edit(c)
      <3>1. Others(c) /\ calls'[c].pc = "read" /\ calls'[c].mem = H!EmptyCache
        BY <1>0, <2>17, EditStep
      <3> QED  BY <2>1, <2>4, <2>17, <3>1, Zenon DEF H!Edit
    <2>18. CASE H!Propose(c)
      <3>1. Others(c) /\ calls'[c].pc = "gate" /\ calls'[c].mem = H!EmptyCache
        BY <1>0, <2>18, ProposeStep
      <3> QED  BY <2>1, <2>4, <2>18, <3>1, Zenon DEF H!Propose
    <2>19. CASE H!Kill(c)
      <3>1. Others(c) /\ calls'[c] = H!Idle  BY <1>0, <2>19, IdleStep DEF H!Kill
      <3> QED  BY <2>1, <2>4, <2>19, <3>1, Zenon DEF H!Kill
    <2>20. CASE H!Command(c)
      <3>1. Others(c) /\ calls'[c].pc = "cut config" /\ calls'[c].mem = H!EmptyCache
        BY <1>0, <2>20, CommandStep, Zenon
      <3> QED  BY <2>1, <2>4, <2>20, <3>1, Zenon DEF H!Command
    <2>21. CASE H!Reset(c)
      <3>1. Others(c) /\ calls' = calls /\ cache' = H!EmptyCache /\ tried' = tried
        BY <1>0, <2>21 DEF H!Reset, Others, HookTypeInv
      <3> QED  BY <2>4, <3>1
    <2> QED
      BY <1>2, <2>5, <2>6, <2>7, <2>8, <2>9, <2>10, <2>11, <2>12, <2>13, <2>14, <2>15, <2>16, <2>17,
         <2>18, <2>19, <2>20, <2>21 DEF H!HookStep
  <1> QED  BY <1>1, <1>2 DEF H!Next

LEMMA DenyGivesLoops ==
  ASSUME H!HookAssumption, HookBase, DenyInv
  PROVE  H!OnlyLoopsPass
  <1> SUFFICES ASSUME NEW c \in Calls, H!At(c, "verdict"), H!Objected(c) > Threshold
               PROVE  tried[SessionOf[c]][Head(calls[c].primary)][H!Signature(calls[c])] > Threshold
    BY DEF H!OnlyLoopsPass
  <1> DEFINE s == SessionOf[c]
             f == Head(calls[c].primary)
             q == H!Signature(calls[c])
             n == Cardinality(Objecting(s, f, q))
  <1>1. PlaceOK(c) /\ calls[c] \in Processes  BY DEF HookBase, PlaceInv, HookTypeInv
  <1>2. s \in Cursor /\ calls[c].primary # <<>>  BY <1>1 DEF H!At, PlaceOK, Gating
  <1>3. f \in Files /\ q \in SUBSET H!Rules /\ calls[c].mem \in Memories
    BY <1>1, <1>2, ProcessFields, SignatureType
  <1>4. DenyOK(s, f, q)  BY <1>2, <1>3 DEF DenyInv
  <1>5. n \in Nat /\ Threshold \in Nat  BY ObjectingFinite DEF H!HookAssumption
  <1>6. tried[s][f][q] \in Nat /\ calls[c].mem.of[s][f].denials[q] \in Nat
    BY <1>2, <1>3, DenialsNat, Zenon DEF HookBase
  <1>7. calls[c].mem.of[s][f].denials[q] > Threshold  BY Zenon DEF H!Objected
  <1>8. tried[s][f][q] >= Threshold + 2 \/ calls[c].mem.of[s][f].denials[q] + n <= tried[s][f][q]
    BY <1>4, Zenon DEF DenyOK, Behind
  <1> HIDE DEF s, f, q, n
  <1>9. tried[s][f][q] > Threshold  BY <1>5, <1>6, <1>7, <1>8
  <1> QED  BY <1>9 DEF s, f, q

-----------------------------------------------------------------------------
(* Tool calls one after another.                                           *)

LEMMA TheOnlyCall ==
  ASSUME H!OneAtATime, NEW c \in Calls
  PROVE  (\A d \in Calls : d = c) /\ (\A s \in H!SessionIds : s = SessionOf[c])
  <1>1. \A d \in Calls : d = c  BY DEF H!OneAtATime
  <1> QED  BY <1>1 DEF H!SessionIds

\* What is ignored is in the config, or in the copy of the command that rewrites it.
QuietOK(c) ==
  LET x == calls[c] IN
  /\ x.pc \notin {"cut config", "fill config"} => ignored \subseteq config.rules
  /\ x.pc \in {"cut config", "fill config"} => ignored \subseteq x.cfg.rules
  /\ x.pc = "fill config" => config = H!DefaultConfig
  /\ x.pc = "read" => x.quiet \subseteq ignored
  /\ x.pc \in Telling /\ SessionOf[c] \notin Cursor => x.quiet \subseteq x.cfg.rules
  /\ x.pc \in Telling => \A v \in x.fresh : v[2][1] \notin x.cfg.rules

QuietInv == H!OneAtATime => \A c \in Calls : QuietOK(c)

LEMMA QuietInit ==
  ASSUME H!HookAssumption, H!Init
  PROVE  QuietInv
  <1>1. \A c \in Calls : calls[c].pc = "idle"  BY DEF H!Init, H!Idle
  <1>2. ignored = {}  BY DEF H!Init
  <1> QED  BY <1>1, <1>2, Zenon DEF QuietInv, QuietOK, Telling

LEMMA QuietNext ==
  ASSUME H!HookAssumption, HookBase, QuietInv, [H!Next]_(H!hvars)
  PROVE  QuietInv'
  <1> SUFFICES ASSUME H!OneAtATime, NEW c \in Calls PROVE QuietOK(c)'
    BY DEF QuietInv, H!OneAtATime
  <1>0. HookTypeInv /\ PlaceInv /\ QuietOK(c) /\ PlaceOK(c)  BY DEF HookBase, QuietInv, PlaceInv
  <1>1. CASE UNCHANGED H!hvars
    <2>1. config' = config /\ calls' = calls /\ ignored' = ignored  BY <1>1 DEF H!hvars
    <2> QED  BY <1>0, <2>1, Zenon DEF QuietOK
  <1>2. CASE H!Next
    <2> DEFINE x == calls[c]
               y == calls'[c]
    <2>1. H!HookStep(c) \/ H!Edit(c) \/ H!Propose(c) \/ H!Kill(c) \/ H!Command(c) \/ H!Reset(c)
      BY <1>2, TheOnlyCall DEF H!Next
    <2>2. x.fresh # {} => x.pc \in Telling  BY <1>0 DEF PlaceOK
    <2>3. H!Idle.pc = "idle"  BY DEF H!Idle
    \* The hook that goes on with what it read.
    <2>4. ASSUME config' = config, ignored' = ignored, y.quiet = x.quiet, y.cfg = x.cfg,
                 y.fresh = x.fresh, y.pc \in Telling, x.pc \in Telling \cup {"persist"}
          PROVE  QuietOK(c)'
      <3>1. x.pc = "persist" => SessionOf[c] \in Cursor /\ x.fresh = {}
        BY <1>0 DEF PlaceOK, Gating, Telling
      <3> QED  BY <1>0, <2>4, <3>1, Zenon DEF QuietOK, Telling
    \* The process that knows nothing of the config.
    <2>5. ASSUME config' = config, ignored' = ignored, x.pc \notin {"cut config", "fill config"},
                 y.pc \in {"idle", "gate", "object", "persist", "verdict"}
          PROVE  QuietOK(c)'
      BY <1>0, <2>5, Zenon DEF QuietOK, Telling
    <2>6. CASE H!ReadState(c)
      <3>1. /\ x.pc = "read"
            /\ \/ y = H!Idle
               \/ y.pc = "scan" /\ y.cfg = config /\ y.fresh = x.fresh /\ y.quiet = x.quiet
        BY <1>0, <2>6, ReadStep
      <3>2. config' = config /\ ignored' = ignored  BY <2>6 DEF H!ReadState
      <3>3. CASE y = H!Idle  BY <2>3, <2>5, <3>1, <3>2, <3>3
      <3>4. CASE y.pc = "scan" /\ y.cfg = config /\ y.fresh = x.fresh /\ y.quiet = x.quiet
        <4>1. x.fresh = {}  BY <2>2, <3>1 DEF Telling
        <4>2. x.quiet \subseteq config.rules  BY <1>0, <3>1 DEF QuietOK
        <4> QED  BY <1>0, <3>1, <3>2, <3>4, <4>1, <4>2 DEF QuietOK
      <3> QED  BY <3>1, <3>3, <3>4
    <2>7. CASE H!PassOver(c)
      <3>1. x.pc = "scan" /\ y = [x EXCEPT !.todo = Tail(x.todo)]  BY <1>0, <2>7, PassOverStep
      <3>2. x \in Processes  BY <1>0 DEF HookTypeInv
      <3>3. y.pc = "scan" /\ y.quiet = x.quiet /\ y.cfg = x.cfg /\ y.fresh = x.fresh
        BY <3>1, <3>2 DEF Processes
      <3> QED  BY <2>4, <2>7, <3>1, <3>3 DEF H!PassOver, Telling
    <2>8. CASE H!Suppress(c)
      <3>1. /\ x.pc = "scan" /\ y.pc = "scan" /\ y.quiet = x.quiet /\ y.cfg = x.cfg
            /\ y.fresh = x.fresh
        BY <1>0, <2>8, SuppressStep, Zenon DEF SuppressMoves
      <3> QED  BY <2>4, <2>8, <3>1, ScanFrame DEF Telling
    <2>9. CASE H!Scan(c)
      <3> DEFINE s == SessionOf[c]
                 f == Head(x.todo)
                 fresh == H!Fresh(x, s, f)
      <3>1. /\ x.pc = "scan" /\ y.pc = "scan" /\ y.quiet = x.quiet /\ y.cfg = x.cfg
            /\ y.fresh = x.fresh \cup {<<f, v>> : v \in fresh}
        BY <1>0, <2>9, ScanStep, Zenon DEF ScanMoves
      <3>2. \A v \in fresh : v[1] \notin x.cfg.rules  BY DEF H!Fresh, H!Filtered
      <3>3. config' = config /\ ignored' = ignored  BY <2>9, ScanFrame
      <3> HIDE DEF fresh, f, x, y
      <3>4. \A v \in x.fresh : v[2][1] \notin x.cfg.rules
        BY <1>0, <3>1 DEF QuietOK, Telling, x
      <3>5. \A v \in y.fresh : v[2][1] \notin y.cfg.rules  BY <3>1, <3>2, <3>4
      <3> QED  BY <1>0, <3>1, <3>3, <3>5 DEF QuietOK, Telling, x, y
    <2>10. CASE H!Emit(c)
      <3>1. x.pc = "emit" /\ y = H!Idle  BY <1>0, <2>10, EmitStep
      <3> QED  BY <2>3, <2>5, <2>10, <3>1 DEF H!Emit
    <2>11. CASE H!Judge(c)
      <3>1. x.pc = "gate" /\ (y = H!Idle \/ y.pc = "object")  BY <1>0, <2>11, JudgeStep
      <3> QED  BY <2>3, <2>5, <2>11, <3>1 DEF H!Judge
    <2>12. CASE H!Object(c)
      <3>1. x.pc = "object" /\ y.pc = "persist"  BY <2>12, ObjectStep
      <3> QED  BY <2>5, <2>12, <3>1 DEF H!Object
    <2>13. CASE H!Verdict(c)
      <3>1. y = H!Idle /\ x.pc = "verdict"  BY <1>0, <2>13, IdleStep DEF H!Verdict, H!At
      <3> QED  BY <2>3, <2>5, <2>13, <3>1 DEF H!Verdict
    <2>14. CASE H!Cut(c)
      <3>1. y.pc = "fill" /\ y.quiet = x.quiet /\ y.cfg = x.cfg /\ y.fresh = x.fresh
        BY <1>0, <2>14, MoveStep, Zenon DEF H!Cut, Places
      <3>2. x.pc \in {"persist", "scan"}  BY <2>14 DEF H!Cut, H!At
      <3> QED  BY <2>4, <2>14, <3>1, <3>2 DEF H!Cut, Telling
    <2>15. CASE H!Fill(c)
      <3>1. /\ y.pc = IF SessionOf[c] \in Cursor THEN "verdict" ELSE "emit"
            /\ y.quiet = x.quiet /\ y.cfg = x.cfg /\ y.fresh = x.fresh
        BY <1>0, <2>15, MoveStep, Zenon DEF H!Fill, Places
      <3>2. x.pc = "fill"  BY <2>15 DEF H!Fill, H!At
      <3> QED  BY <2>4, <2>5, <2>15, <3>1, <3>2 DEF H!Fill, Telling
    <2>16. CASE H!CutConfig(c)
      <3>1. y.pc = "fill config" /\ y.cfg = x.cfg /\ x.pc = "cut config"
        BY <1>0, <2>16, MoveStep, Zenon DEF H!CutConfig, Places, H!At
      <3>2. config' = H!DefaultConfig /\ ignored' = ignored  BY <2>16, Zenon DEF H!CutConfig
      <3> QED  BY <1>0, <3>1, <3>2, Zenon DEF QuietOK, Telling
    <2>17. CASE H!FillConfig(c)
      <3>1. y = H!Idle /\ x.pc = "fill config"  BY <1>0, <2>17, IdleStep, Zenon DEF H!FillConfig, H!At
      <3>2. config = H!DefaultConfig /\ ignored \subseteq x.cfg.rules
        BY <1>0, <3>1, Zenon DEF QuietOK
      <3>3. config' = x.cfg /\ ignored' = ignored \cup x.cfg.rules
        BY <2>17, <3>2, Zenon DEF H!FillConfig, H!Filled
      <3> QED  BY <2>3, <3>1, <3>2, <3>3, Zenon DEF QuietOK, Telling
    <2>18. CASE H!Edit(c)
      <3>1. x.pc = "idle" /\ y.pc = "read" /\ y.quiet = ignored  BY <1>0, <2>18, EditStep
      <3> QED  BY <1>0, <2>18, <3>1 DEF H!Edit, QuietOK, Telling
    <2>19. CASE H!Propose(c)
      <3>1. x.pc = "idle" /\ y.pc = "gate"  BY <1>0, <2>19, ProposeStep
      <3> QED  BY <2>5, <2>19, <3>1 DEF H!Propose
    <2>20. CASE H!Kill(c)
      <3>1. y = H!Idle /\ x.pc \notin {"cut config", "fill config"}
        BY <1>0, <2>20, IdleStep, Zenon DEF H!Kill
      <3> QED  BY <2>3, <2>5, <2>20, <3>1, Zenon DEF H!Kill
    <2>21. CASE H!Command(c)
      <3>1. x.pc = "idle" /\ y.pc = "cut config" /\ config.rules \subseteq y.cfg.rules
        BY <1>0, <2>21, CommandStep, Zenon
      <3>2. ignored' = ignored /\ ignored \subseteq config.rules
        BY <1>0, <2>21, <3>1, Zenon DEF H!Command, QuietOK
      <3> QED  BY <3>1, <3>2, Zenon DEF QuietOK, Telling
    <2>22. CASE H!Reset(c)
      <3>1. x.pc = "idle" /\ calls' = calls /\ ignored' = {}  BY <2>22 DEF H!Reset, H!At
      <3> QED  BY <3>1, Zenon DEF QuietOK, Telling
    <2> QED
      BY <2>1, <2>6, <2>7, <2>8, <2>9, <2>10, <2>11, <2>12, <2>13, <2>14, <2>15, <2>16, <2>17,
         <2>18, <2>19, <2>20, <2>21, <2>22 DEF H!HookStep
  <1> QED  BY <1>1, <1>2

LEMMA QuietGivesIgnored ==
  ASSUME HookBase, QuietInv, H!OneAtATime
  PROVE  H!IgnoredIsQuiet
  <1> SUFFICES ASSUME NEW c \in Calls, H!At(c, "emit"), NEW v \in calls[c].fresh
               PROVE  v[2][1] \notin calls[c].quiet
    BY DEF H!IgnoredIsQuiet
  <1>1. QuietOK(c) /\ PlaceOK(c)  BY DEF QuietInv, HookBase, PlaceInv
  <1>2. SessionOf[c] \notin Cursor /\ calls[c].pc \in Telling  BY <1>1 DEF H!At, PlaceOK, Telling
  <1> QED  BY <1>1, <1>2, Zenon DEF QuietOK

\* What a session's hook remembers: its copy of the cache, while it has one.
Memory(c) == IF calls[c].pc \in {"scan", "fill"} THEN calls[c].mem ELSE cache

LEMMA KeptMine ==
  ASSUME H!HookAssumption, H!OneAtATime, NEW c \in Calls, NEW mem \in Memories
  PROVE  LET s == SessionOf[c] IN
         /\ mem.order # <<>> => H!Kept(mem).order # <<>> /\ H!Kept(mem).of[s] = mem.of[s]
         /\ mem.order = <<>> => H!Kept(mem).of[s] = H!NoMemory
         /\ H!Kept(mem).of[s] \in {mem.of[s], H!NoMemory}
  <1> DEFINE s == SessionOf[c]
  <1>1. s \in H!SessionIds /\ \A t \in H!SessionIds : t = s  BY SessionOfCall, TheOnlyCall
  <1>2. /\ \A t \in H!SessionIds : H!Kept(mem).of[t] \in {mem.of[t], H!NoMemory}
        /\ mem.order # <<>> =>
             H!Kept(mem).order # <<>> /\ H!Kept(mem).of[mem.order[1]] = mem.of[mem.order[1]]
        /\ mem.order = <<>> => \A t \in H!SessionIds : H!Kept(mem).of[t] = H!NoMemory
    BY KeptFields, EmptyTypes DEF H!HookAssumption
  <1>3. mem.order # <<>> => mem.order[1] = s
    <2>1. mem.order \in Seq(H!SessionIds)  BY DEF Memories
    <2>2. mem.order # <<>> => mem.order[1] \in H!SessionIds  BY <2>1
    <2> QED  BY <1>1, <2>2
  <1> QED  BY <1>1, <1>2, <1>3

\* What a session was told or is about to be told is remembered, and its hook is about to tell
\* only what it was not told.
OnceOK(c) ==
  LET x == calls[c]  s == SessionOf[c]  mem == Memory(c) IN
  /\ told[s].again = {}
  /\ s \in Cursor => told[s].once = {}
  /\ s \notin Cursor =>
       /\ \A f \in Files, v \in Findings :
            <<f, v>> \in told[s].once \cup x.fresh => v \in mem.of[s][f].known
       /\ told[s].once \cap x.fresh = {}
       /\ mem.order = <<>> => \A f \in Files : mem.of[s][f].known = {}
       /\ x.pc = "fill" => cache = H!EmptyCache

OnceInv == H!OneAtATime /\ used.kills = 0 /\ used.resets = 0 => \A c \in Calls : OnceOK(c)

LEMMA OnceInit ==
  ASSUME H!HookAssumption, H!Init
  PROVE  OnceInv
  <1> SUFFICES ASSUME NEW c \in Calls PROVE OnceOK(c)
    BY DEF OnceInv
  <1>1. calls[c].pc = "idle" /\ calls[c].fresh = {} /\ cache = H!EmptyCache  BY DEF H!Init, H!Idle
  <1>2. SessionOf[c] \in H!SessionIds  BY SessionOfCall
  <1>3. told[SessionOf[c]].once = {} /\ told[SessionOf[c]].again = {}  BY <1>2 DEF H!Init
  <1>4. \A f \in Files : H!EmptyCache.of[SessionOf[c]][f].known = {}  BY <1>2, EmptyTypes
  <1>5. Memory(c) = H!EmptyCache  BY <1>1 DEF Memory
  <1> QED  BY <1>1, <1>3, <1>4, <1>5 DEF OnceOK

LEMMA OnceNext ==
  ASSUME H!HookAssumption, HookBase, HookBase', OnceInv, [H!Next]_(H!hvars)
  PROVE  OnceInv'
  <1> SUFFICES ASSUME H!OneAtATime, NEW c \in Calls, used'.kills = 0, used'.resets = 0
               PROVE  OnceOK(c)'
    BY DEF OnceInv, H!OneAtATime
  <1>0. HookTypeInv /\ PlaceInv /\ PlaceOK(c) /\ HookTypeInv' /\ PlaceOK(c)'
    BY DEF HookBase, PlaceInv
  <1>1. CASE UNCHANGED H!hvars
    <2>1. cache' = cache /\ calls' = calls /\ told' = told /\ used' = used  BY <1>1 DEF H!hvars
    <2>2. OnceOK(c) /\ Memory(c)' = Memory(c)  BY <2>1 DEF OnceInv, Memory
    <2> QED  BY <2>1, <2>2 DEF OnceOK
  <1>2. CASE H!Next
    <2> DEFINE x == calls[c]
               y == calls'[c]
               s == SessionOf[c]
    <2>1. H!HookStep(c) \/ H!Edit(c) \/ H!Propose(c) \/ H!Kill(c) \/ H!Command(c) \/ H!Reset(c)
      BY <1>2, TheOnlyCall DEF H!Next
    <2>2. OnceOK(c) /\ ~H!Kill(c) /\ ~H!Reset(c)  BY <1>0, <2>1, UsedSteps DEF OnceInv
    <2>3. H!Idle.pc = "idle" /\ H!Idle.fresh = {} /\ s \in H!SessionIds  BY SessionOfCall DEF H!Idle
    <2>4. x \in Processes /\ x.mem \in Memories /\ cache \in Memories
          /\ told[s] \in [once : SUBSET Told, again : SUBSET Told]
      BY <1>0, <2>3, ProcessFields DEF HookTypeInv
    \* The session's memory stays, or only what it does not remember changes.
    <2>5. ASSUME told' = told, s \notin Cursor => y.fresh \subseteq x.fresh,
                 s \notin Cursor =>
                   /\ \A f \in Files : Memory(c)'.of[s][f].known = Memory(c).of[s][f].known
                   /\ Memory(c)' = Memory(c) \/ Memory(c)'.order # <<>>
                        \/ \A f \in Files : Memory(c).of[s][f].known = {}
                   /\ y.pc = "fill" => cache' = H!EmptyCache
          PROVE  OnceOK(c)'
      <3>1. told'[s] = told[s]  BY <2>5
      <3>2. CASE s \in Cursor  BY <2>2, <3>1, <3>2 DEF OnceOK
      <3>3. CASE s \notin Cursor
        <4>1. Memory(c)'.order = <<>> => \A f \in Files : Memory(c)'.of[s][f].known = {}
          BY <2>2, <2>5, <3>3 DEF OnceOK
        <4>2. \A f \in Files, v \in Findings :
                <<f, v>> \in told'[s].once \cup y.fresh => v \in Memory(c)'.of[s][f].known
          BY <2>2, <2>5, <3>1, <3>3 DEF OnceOK
        <4>3. told'[s].once \cap y.fresh = {}  BY <2>2, <2>5, <3>1, <3>3 DEF OnceOK
        <4>4. told'[s].again = {}  BY <2>2, <3>1 DEF OnceOK
        <4> QED  BY <2>5, <3>3, <4>1, <4>2, <4>3, <4>4 DEF OnceOK
      <3> QED  BY <3>2, <3>3
    <2>6. ASSUME told' = told, y.fresh \subseteq x.fresh, cache' = cache,
                 x.pc \notin {"scan", "fill"}, y.pc \notin {"scan", "fill"}
          PROVE  OnceOK(c)'
      <3>1. Memory(c)' = Memory(c)  BY <2>6 DEF Memory
      <3> QED  BY <2>5, <2>6, <3>1
    <2>7. CASE H!ReadState(c)
      <3>1. /\ x.pc = "read" /\ Memory(c) = cache
            /\ y = H!Idle \/ (y.pc = "scan" /\ y.mem = cache /\ y.fresh = x.fresh)
        BY <1>0, <2>7, ReadStep DEF Memory
      <3>2. told' = told /\ cache' = cache  BY <2>7 DEF H!ReadState
      <3>3. Memory(c)' = cache  BY <2>3, <3>1, <3>2 DEF Memory
      <3>4. y.pc # "fill" /\ y.fresh \subseteq x.fresh  BY <2>3, <3>1
      <3> QED  BY <2>5, <3>1, <3>2, <3>3, <3>4
    <2>8. CASE H!PassOver(c)
      <3>1. x.pc = "scan" /\ y = [x EXCEPT !.todo = Tail(x.todo)]  BY <1>0, <2>8, PassOverStep
      <3>2. y.pc = "scan" /\ y.mem = x.mem /\ y.fresh = x.fresh  BY <2>4, <3>1 DEF Processes
      <3>3. Memory(c)' = Memory(c)  BY <3>1, <3>2 DEF Memory
      <3> QED  BY <2>5, <2>8, <3>2, <3>3 DEF H!PassOver
    <2>9. CASE H!Suppress(c)
      <3>1. /\ x.pc = "scan" /\ y.pc = "scan" /\ y.fresh = x.fresh
            /\ y.mem = x.mem \/ y.mem.order # <<>>
            /\ \A u \in H!SessionIds, f \in Files : y.mem.of[u][f].known = x.mem.of[u][f].known
        BY <1>0, <2>9, SuppressStep, Zenon DEF SuppressMoves, SuppressCounts
      <3>2. Memory(c)' = y.mem /\ Memory(c) = x.mem  BY <3>1 DEF Memory
      <3> QED  BY <2>3, <2>5, <2>9, <3>1, <3>2, ScanFrame, Zenon
    <2>10. CASE H!Scan(c)
      <3> DEFINE g == Head(x.todo)
                 fresh == H!Fresh(x, s, g)
      <3>1. /\ x.pc = "scan" /\ y.pc = "scan" /\ g \in Files
            /\ y.fresh = x.fresh \cup {<<g, v>> : v \in fresh}
            /\ y.mem = x.mem \/ y.mem.order # <<>>
            /\ x.mem.order # <<>> \/ fresh # {} => y.mem.order # <<>>
            /\ \A u \in H!SessionIds, f \in Files :
                 y.mem.of[u][f].known =
                   x.mem.of[u][f].known \cup (IF u = s /\ f = g THEN fresh ELSE {})
        <4>1. ScanMoves(c) /\ ScanKnown(c)  BY <1>0, <2>10, ScanStep, Zenon
        <4> QED  BY <4>1, Zenon DEF ScanMoves, ScanKnown
      <3>2. Memory(c)' = y.mem /\ Memory(c) = x.mem  BY <3>1 DEF Memory
      <3>3. s \notin Cursor  BY <1>0, <3>1 DEF PlaceOK
      <3>4. \A v \in fresh : v \notin x.mem.of[s][g].known  BY DEF H!Fresh
      <3>5. told' = told  BY <2>10, ScanFrame
      <3>6. fresh \in SUBSET Findings  BY <1>0, <2>10, ScanStep, Zenon DEF ScanMoves
      <3> DEFINE once == told[s].once
      <3>7. /\ told[s].again = {}
            /\ \A f \in Files, v \in Findings :
                 <<f, v>> \in once \cup x.fresh => v \in x.mem.of[s][f].known
            /\ once \cap x.fresh = {}
            /\ x.mem.order = <<>> => \A f \in Files : x.mem.of[s][f].known = {}
        BY <2>2, <3>2, <3>3 DEF OnceOK
      <3> HIDE DEF fresh, g, s, x, y, once
      <3>8. \A f \in Files : y.mem.of[s][f].known =
                               x.mem.of[s][f].known \cup (IF f = g THEN fresh ELSE {})
        BY <2>3, <3>1
      <3>9. \A f \in Files, v \in Findings :
              <<f, v>> \in once \cup y.fresh => v \in y.mem.of[s][f].known
        <4> SUFFICES ASSUME NEW f \in Files, NEW v \in Findings, <<f, v>> \in once \cup y.fresh
                     PROVE  v \in y.mem.of[s][f].known
          OBVIOUS
        <4>1. CASE <<f, v>> \in once \cup x.fresh  BY <3>7, <3>8, <4>1
        <4>2. CASE \E w \in fresh : <<f, v>> = <<g, w>>
          <5>1. f = g /\ v \in fresh  BY <4>2
          <5> QED  BY <3>8, <5>1
        <4> QED  BY <3>1, <4>1, <4>2
      <3>10. once \cap y.fresh = {}
        <4>1. ASSUME NEW w \in fresh, <<g, w>> \in once PROVE FALSE
          BY <3>1, <3>4, <3>6, <3>7, <4>1
        <4> QED  BY <3>1, <3>7, <4>1
      <3>11. y.mem.order = <<>> => \A f \in Files : y.mem.of[s][f].known = {}
        <4> SUFFICES ASSUME y.mem.order = <<>>, NEW f \in Files PROVE y.mem.of[s][f].known = {}
          OBVIOUS
        <4>1. fresh = {} /\ x.mem.order = <<>>  BY <3>1
        <4>2. x.mem.of[s][f].known = {}  BY <3>7, <4>1
        <4> QED  BY <3>8, <4>1, <4>2
      <3>12. told'[s] = told[s]  BY <3>5
      <3> QED  BY <3>1, <3>2, <3>3, <3>7, <3>9, <3>10, <3>11, <3>12 DEF OnceOK, s, x, y, once
    <2>11. CASE H!Emit(c)
      <3>1. x.pc = "emit" /\ y = H!Idle  BY <1>0, <2>11, EmitStep
      <3>2. PICK shown \in SUBSET x.fresh :
              told' = [told EXCEPT ![s] = [once |-> @.once \cup shown,
                                           again |-> @.again \cup (@.once \cap shown)]]
        BY <1>0, <2>11, EmitStep
      <3>3. s \notin Cursor  BY <1>0, <3>1 DEF PlaceOK
      <3>4. cache' = cache  BY <2>11 DEF H!Emit
      <3>5. Memory(c)' = cache /\ Memory(c) = cache  BY <2>3, <3>1, <3>4 DEF Memory
      <3>6. /\ told'[s].once = told[s].once \cup shown
            /\ told'[s].again = told[s].again \cup (told[s].once \cap shown)
        BY <1>0, <2>3, <3>2 DEF HookTypeInv
      <3>7. /\ told[s].again = {} /\ told[s].once \cap x.fresh = {}
            /\ \A f \in Files, v \in Findings :
                 <<f, v>> \in told[s].once \cup x.fresh => v \in cache.of[s][f].known
            /\ cache.order = <<>> => \A f \in Files : cache.of[s][f].known = {}
        BY <2>2, <3>3, <3>5 DEF OnceOK
      <3> HIDE DEF x, s
      <3>8. told'[s].again = {}  BY <3>2, <3>6, <3>7
      <3>9. \A f \in Files, v \in Findings :
              <<f, v>> \in told'[s].once => v \in cache.of[s][f].known
        BY <3>2, <3>6, <3>7
      <3> QED  BY <2>3, <3>1, <3>3, <3>4, <3>5, <3>7, <3>8, <3>9 DEF OnceOK, s
    <2>12. CASE H!Judge(c)
      <3>1. x.pc = "gate" /\ (y = H!Idle \/ (y.pc = "object" /\ y.fresh = x.fresh))
        BY <1>0, <2>12, JudgeStep
      <3> QED  BY <2>3, <2>6, <2>12, <3>1 DEF H!Judge
    <2>13. CASE H!Object(c)
      <3>1. x.pc = "object" /\ y.pc = "persist" /\ y.fresh = x.fresh  BY <2>13, ObjectStep
      <3> QED  BY <2>6, <2>13, <3>1 DEF H!Object
    <2>14. CASE H!Verdict(c)
      <3>1. y = H!Idle /\ x.pc = "verdict"  BY <1>0, <2>14, IdleStep DEF H!Verdict, H!At
      <3> QED  BY <2>3, <2>6, <2>14, <3>1 DEF H!Verdict
    <2>15. CASE H!Cut(c)
      <3>1. y.pc = "fill" /\ y.mem = x.mem /\ y.fresh = x.fresh
        BY <1>0, <2>15, MoveStep, Zenon DEF H!Cut, Places
      <3>2. x.pc \in {"persist", "scan"} /\ cache' = H!EmptyCache /\ told' = told
        BY <2>15 DEF H!Cut, H!At
      <3>3. s \notin Cursor => x.pc = "scan"  BY <1>0, <3>2 DEF PlaceOK, Gating
      <3>4. s \notin Cursor => Memory(c)' = Memory(c)  BY <3>1, <3>3 DEF Memory
      <3> QED  BY <2>5, <3>1, <3>2, <3>4
    <2>16. CASE H!Fill(c)
      <3>1. /\ y.pc = IF s \in Cursor THEN "verdict" ELSE "emit"
            /\ y.fresh = x.fresh /\ y.mem = x.mem
        BY <1>0, <2>16, MoveStep, Zenon DEF H!Fill, Places
      <3>2. x.pc = "fill" /\ told' = told  BY <2>16 DEF H!Fill, H!At
      <3>3. Memory(c) = x.mem  BY <3>2 DEF Memory
      <3>4. ASSUME s \notin Cursor
            PROVE  /\ \A f \in Files : Memory(c)'.of[s][f].known = Memory(c).of[s][f].known
                   /\ Memory(c)'.order # <<>> \/ \A f \in Files : Memory(c).of[s][f].known = {}
        <4>1. cache = H!EmptyCache /\ (x.mem.order = <<>> => \A f \in Files : x.mem.of[s][f].known = {})
          BY <2>2, <3>2, <3>3, <3>4 DEF OnceOK
        <4>2. cache' = H!Kept(x.mem)  BY <2>16, <4>1 DEF H!Fill, H!Filled
        <4>3. Memory(c)' = H!Kept(x.mem)  BY <3>1, <3>4, <4>2 DEF Memory
        <4>4. /\ x.mem.order # <<>> => H!Kept(x.mem).order # <<>> /\ H!Kept(x.mem).of[s] = x.mem.of[s]
              /\ x.mem.order = <<>> => H!Kept(x.mem).of[s] = H!NoMemory
          BY <2>4, KeptMine
        <4>5. \A f \in Files : H!NoMemory[f].known = {}  BY EmptyTypes
        <4> HIDE DEF x, s
        <4> QED  BY <3>3, <4>1, <4>3, <4>4, <4>5
      <3> QED  BY <2>5, <3>1, <3>2, <3>4
    <2>17. CASE H!CutConfig(c)
      <3>1. y.pc = "fill config" /\ y.fresh = x.fresh /\ x.pc = "cut config"
        BY <1>0, <2>17, MoveStep, Zenon DEF H!CutConfig, Places, H!At
      <3> QED  BY <2>6, <2>17, <3>1, Zenon DEF H!CutConfig
    <2>18. CASE H!FillConfig(c)
      <3>1. y = H!Idle /\ x.pc = "fill config"  BY <1>0, <2>18, IdleStep, Zenon DEF H!FillConfig, H!At
      <3> QED  BY <2>3, <2>6, <2>18, <3>1, Zenon DEF H!FillConfig
    <2>19. CASE H!Edit(c)
      <3>1. x.pc = "idle" /\ y.pc = "read" /\ y.fresh = {}  BY <1>0, <2>19, EditStep
      <3> QED  BY <2>6, <2>19, <3>1 DEF H!Edit
    <2>20. CASE H!Propose(c)
      <3>1. x.pc = "idle" /\ y.pc = "gate" /\ y.fresh = {}  BY <1>0, <2>20, ProposeStep
      <3> QED  BY <2>6, <2>20, <3>1 DEF H!Propose
    <2>21. CASE H!Command(c)
      <3>1. x.pc = "idle" /\ y.pc = "cut config" /\ y.fresh = {}  BY <1>0, <2>21, CommandStep, Zenon
      <3> QED  BY <2>6, <2>21, <3>1, Zenon DEF H!Command
    <2> QED
      BY <2>1, <2>2, <2>7, <2>8, <2>9, <2>10, <2>11, <2>12, <2>13, <2>14, <2>15, <2>16, <2>17,
         <2>18, <2>19, <2>20, <2>21 DEF H!HookStep
  <1> QED  BY <1>1, <1>2

LEMMA OnceGivesToldOnce ==
  ASSUME OnceInv, H!OneAtATime, used.kills = 0, used.resets = 0
  PROVE  H!ToldOnce
  <1> SUFFICES ASSUME NEW s \in H!SessionIds PROVE told[s].again = {}
    BY DEF H!ToldOnce
  <1>1. PICK c \in Calls : s = SessionOf[c]  BY DEF H!SessionIds
  <1>2. OnceOK(c)  BY DEF OnceInv
  <1> QED  BY <1>1, <1>2 DEF OnceOK

\* Beyond the threshold, a session was told that hints end or its hook is about to: a hook for
\* one file has nothing else to tell then.
SilenceOK(c) ==
  LET x == calls[c]  s == SessionOf[c]  mem == Memory(c) IN
  /\ s \in Cursor => \A f \in Files : cache.of[s][f].edits = 0 /\ x.mem.of[s][f].edits = 0
  /\ s \notin Cursor =>
       /\ \A f \in Files : cache.of[s][f].edits > Threshold \/ mem.of[s][f].edits > Threshold
                             => f \in noticed[s] \/ x.notice = f
       /\ mem.order = <<>> => \A f \in Files : mem.of[s][f].edits = 0
       /\ x.pc = "fill" => cache = H!EmptyCache
       /\ x.notice # H!NoFile => x.fresh = {} /\ x.pending = {}
       /\ x.pc \notin Telling => x.notice = H!NoFile /\ x.pending = {}
       /\ x.pc = "read" => Len(x.primary) = 1
       /\ x.pc = "scan" => Len(x.todo) <= 1
       /\ x.pc = "scan" /\ x.todo # <<>> => x.notice = H!NoFile /\ x.fresh = {} /\ x.pending = {}

SilenceInv == H!OneAtATime /\ used.kills = 0 /\ H!OneFile => \A c \in Calls : SilenceOK(c)

LEMMA SilenceInit ==
  ASSUME H!HookAssumption, H!Init
  PROVE  SilenceInv
  <1> SUFFICES ASSUME NEW c \in Calls PROVE SilenceOK(c)
    BY DEF SilenceInv
  <1>1. calls[c] = H!Idle /\ cache = H!EmptyCache  BY DEF H!Init
  <1>2. /\ H!Idle.pc = "idle" /\ H!Idle.fresh = {} /\ H!Idle.mem = H!EmptyCache /\ H!Idle.notice = H!NoFile
        /\ H!Idle.pending = {}
    BY DEF H!Idle
  <1>3. SessionOf[c] \in H!SessionIds /\ Threshold \in Nat  BY SessionOfCall DEF H!HookAssumption
  <1>4. \A f \in Files : H!EmptyCache.of[SessionOf[c]][f].edits = 0  BY <1>3, EmptyTypes
  <1>5. Memory(c) = H!EmptyCache  BY <1>1, <1>2 DEF Memory
  <1>6. \A f \in Files : ~(H!EmptyCache.of[SessionOf[c]][f].edits > Threshold)  BY <1>3, <1>4
  <1> QED  BY <1>1, <1>2, <1>4, <1>5, <1>6 DEF SilenceOK

LEMMA SilenceNext ==
  ASSUME H!HookAssumption, HookBase, HookBase', SilenceInv, [H!Next]_(H!hvars)
  PROVE  SilenceInv'
  <1> SUFFICES ASSUME H!OneAtATime, H!OneFile, NEW c \in Calls, used'.kills = 0
               PROVE  SilenceOK(c)'
    BY DEF SilenceInv, H!OneAtATime, H!OneFile
  <1>0. HookTypeInv /\ PlaceInv /\ PlaceOK(c) /\ HookTypeInv' /\ PlaceOK(c)'
    BY DEF HookBase, PlaceInv
  <1>1. CASE UNCHANGED H!hvars
    <2>1. cache' = cache /\ calls' = calls /\ noticed' = noticed /\ used' = used  BY <1>1 DEF H!hvars
    <2>2. SilenceOK(c) /\ Memory(c)' = Memory(c)  BY <2>1 DEF SilenceInv, Memory
    <2> QED  BY <2>1, <2>2 DEF SilenceOK
  <1>2. CASE H!Next
    <2> DEFINE x == calls[c]
               y == calls'[c]
               s == SessionOf[c]
    <2>1. H!HookStep(c) \/ H!Edit(c) \/ H!Propose(c) \/ H!Kill(c) \/ H!Command(c) \/ H!Reset(c)
      BY <1>2, TheOnlyCall DEF H!Next
    <2>2. SilenceOK(c) /\ ~H!Kill(c)  BY <1>0, <2>1, UsedSteps DEF SilenceInv
    <2>3. /\ H!Idle.pc = "idle" /\ H!Idle.fresh = {} /\ H!Idle.mem = H!EmptyCache /\ H!Idle.notice = H!NoFile
          /\ H!Idle.pending = {} /\ s \in H!SessionIds /\ Threshold \in Nat
          /\ \A f \in Files : H!EmptyCache.of[s][f].edits = 0 /\ H!NoMemory[f].edits = 0
          /\ \A f \in Files : ~(H!EmptyCache.of[s][f].edits > Threshold)
      <3>1. s \in H!SessionIds /\ Threshold \in Nat  BY SessionOfCall DEF H!HookAssumption
      <3>2. \A f \in Files : H!EmptyCache.of[s][f].edits = 0 /\ H!NoMemory[f].edits = 0
        BY <3>1, EmptyTypes
      <3>3. \A f \in Files : ~(H!EmptyCache.of[s][f].edits > Threshold)  BY <3>1, <3>2
      <3> QED  BY <3>1, <3>2, <3>3 DEF H!Idle
    <2>4. x \in Processes /\ x.mem \in Memories /\ cache \in Memories
      BY <1>0, ProcessFields DEF HookTypeInv
    <2>5. s \notin Cursor /\ x.pc \notin Telling => x.fresh = {}  BY <1>0 DEF PlaceOK
    \* In a session whose writes are checked, edits are not counted.
    <2>6. ASSUME s \in Cursor, cache' \in {cache, H!EmptyCache, H!Kept(x.mem)},
                 \A f \in Files : y.mem.of[s][f].edits
                                    \in {0, cache.of[s][f].edits, x.mem.of[s][f].edits}
          PROVE  SilenceOK(c)'
      <3>1. \A f \in Files : cache.of[s][f].edits = 0 /\ x.mem.of[s][f].edits = 0
        BY <2>2, <2>6, Zenon DEF SilenceOK
      <3>2. H!Kept(x.mem).of[s] \in {x.mem.of[s], H!NoMemory}  BY <2>4, KeptMine
      <3> HIDE DEF x, y, s
      <3>3. \A f \in Files : cache'.of[s][f].edits = 0 /\ y.mem.of[s][f].edits = 0
        BY <2>3, <2>6, <3>1, <3>2, ZenonT(30)
      <3> QED  BY <2>6, <3>3, Zenon DEF SilenceOK, s, y
    \* In another, the steps outside of a hook's own.
    <2>7. ASSUME noticed' = noticed, cache' \in {cache, H!EmptyCache},
                 x.pc \notin Telling \cup Gating, y.pc \notin Telling \cup Gating,
                 y.notice = H!NoFile, y.pending = {},
                 y.pc = "read" => Len(y.primary) = 1,
                 s \notin Cursor
          PROVE  SilenceOK(c)'
      <3>1. Memory(c) = cache /\ Memory(c)' = cache'  BY <2>7 DEF Memory, Telling
      <3>2. \A f \in Files : cache.of[s][f].edits > Threshold => f \in noticed[s]
        BY <2>2, <2>7, <3>1, H!HookAssumption DEF SilenceOK, H!HookAssumption
      <3>3. cache.order = <<>> => \A f \in Files : cache.of[s][f].edits = 0
        BY <2>2, <2>7, <3>1 DEF SilenceOK
      <3>4. /\ \A f \in Files : cache'.of[s][f].edits > Threshold => f \in noticed[s]
            /\ cache'.order = <<>> => \A f \in Files : cache'.of[s][f].edits = 0
        BY <2>3, <2>7, <3>2, <3>3
      <3> QED  BY <2>7, <3>1, <3>4 DEF SilenceOK, Telling
    <2>8. CASE H!ReadState(c)
      <3>1. /\ x.pc = "read" /\ s \notin Cursor
            /\ \/ y = H!Idle
               \/ /\ y.pc = "scan" /\ y.todo = H!Targets(x.primary) /\ y.mem = cache
                  /\ y.fresh = x.fresh /\ y.pending = x.pending /\ y.notice = x.notice
        BY <1>0, <2>8, ReadStep DEF PlaceOK
      <3>2. noticed' = noticed /\ cache' = cache  BY <2>8 DEF H!ReadState
      <3>3. CASE y = H!Idle
        BY <2>3, <2>7, <3>1, <3>2, <3>3 DEF Telling, Gating
      <3>4. CASE /\ y.pc = "scan" /\ y.todo = H!Targets(x.primary) /\ y.mem = cache
                 /\ y.fresh = x.fresh /\ y.pending = x.pending /\ y.notice = x.notice
        <4>1. H!Targets(x.primary) = x.primary /\ Len(x.primary) = 1
          <5>1. x.primary \in Seq(Files)  BY <2>4, ProcessFields
          <5> QED  BY <2>2, <3>1, <5>1, TargetsType DEF SilenceOK, H!OneFile
        <4>2. x.notice = H!NoFile /\ x.fresh = {} /\ x.pending = {}
          BY <2>2, <2>5, <3>1 DEF SilenceOK, Telling
        <4>3. Memory(c) = cache /\ Memory(c)' = cache  BY <3>1, <3>4 DEF Memory
        <4>4. Len(y.todo) <= 1 /\ y.notice = H!NoFile /\ y.fresh = {} /\ y.pending = {}
          BY <3>4, <4>1, <4>2
        <4>5. /\ \A f \in Files : cache.of[s][f].edits > Threshold => f \in noticed[s] \/ x.notice = f
              /\ cache.order = <<>> => \A f \in Files : cache.of[s][f].edits = 0
          BY <2>2, <3>1, <4>3 DEF SilenceOK
        <4> QED  BY <3>1, <3>2, <3>4, <4>2, <4>3, <4>4, <4>5 DEF SilenceOK, Telling
      <3> QED  BY <3>1, <3>3, <3>4
    <2>9. CASE H!PassOver(c)
      <3>1. /\ x.pc = "scan" /\ s \notin Cursor /\ x.todo # <<>>
            /\ y = [x EXCEPT !.todo = Tail(x.todo)]
        BY <1>0, <2>9, PassOverStep DEF PlaceOK
      <3>2. /\ y.pc = "scan" /\ y.mem = x.mem /\ y.fresh = x.fresh /\ y.pending = x.pending
            /\ y.notice = x.notice /\ y.todo = Tail(x.todo)
        BY <2>4, <3>1 DEF Processes
      <3>3. Memory(c)' = Memory(c)  BY <3>1, <3>2 DEF Memory
      <3>4. Len(y.todo) <= 1 /\ y.todo = <<>>
        <4>1. x.todo \in Seq(Files) /\ Len(x.todo) <= 1
          BY <2>2, <2>4, <3>1, ProcessFields DEF SilenceOK
        <4> HIDE DEF x, y
        <4> QED  BY <3>1, <3>2, <4>1
      <3>5. noticed' = noticed /\ cache' = cache  BY <2>9 DEF H!PassOver
      <3> QED  BY <2>2, <3>1, <3>2, <3>3, <3>4, <3>5 DEF SilenceOK, Telling
    <2>10. ASSUME H!Suppress(c) \/ H!Scan(c),
                  x.pc = "scan", x.todo # <<>>, y.pc = "scan", y.todo = Tail(x.todo),
                  \A f \in Files : y.mem.of[s][f].edits > Threshold =>
                     x.mem.of[s][f].edits > Threshold \/ y.notice = f,
                  y.mem = x.mem \/ y.mem.order # <<>>,
                  y.notice # H!NoFile => y.fresh = {} /\ y.pending = {}
           PROVE  SilenceOK(c)'
      <3>1. s \notin Cursor  BY <1>0, <2>10 DEF PlaceOK
      <3>2. Memory(c) = x.mem /\ Memory(c)' = y.mem  BY <2>10 DEF Memory
      <3>3. noticed' = noticed /\ cache' = cache  BY <2>10, ScanFrame
      <3>4. Len(y.todo) <= 1 /\ y.todo = <<>>
        <4>1. x.todo \in Seq(Files) /\ Len(x.todo) <= 1
          BY <2>2, <2>4, <2>10, <3>1, ProcessFields DEF SilenceOK
        <4> HIDE DEF x, y
        <4> QED  BY <2>10, <4>1
      <3>5. x.notice = H!NoFile  BY <2>2, <2>10, <3>1 DEF SilenceOK
      <3>6. \A f \in Files : cache.of[s][f].edits > Threshold \/ x.mem.of[s][f].edits > Threshold
                               => f \in noticed[s]
        BY <2>2, <3>1, <3>2, <3>5 DEF SilenceOK, H!HookAssumption
      <3>7. x.mem.order = <<>> => \A f \in Files : x.mem.of[s][f].edits = 0
        BY <2>2, <3>1, <3>2 DEF SilenceOK
      <3> QED  BY <2>10, <3>1, <3>2, <3>3, <3>4, <3>6, <3>7 DEF SilenceOK, Telling
    <2>11. CASE H!Suppress(c)
      <3> DEFINE g == Head(x.todo)
                 n == x.mem.of[s][g].edits
      <3>1. /\ x.pc = "scan" /\ x.todo # <<>> /\ g \in Files /\ n >= Threshold
            /\ y.pc = "scan" /\ y.todo = Tail(x.todo)
            /\ y.fresh = x.fresh /\ y.pending = x.pending
            /\ y.notice = IF n = Threshold /\ x.notice = H!NoFile THEN g ELSE x.notice
            /\ y.mem = x.mem \/ y.mem.order # <<>>
        BY <1>0, <2>11, SuppressStep, Zenon DEF SuppressMoves
      <3>2. \A f \in Files : y.mem.of[s][f].edits = IF f = g THEN H!OneMore(n) ELSE x.mem.of[s][f].edits
        <4>1. \A t \in H!SessionIds, f \in Files :
                y.mem.of[t][f].edits = IF t = s /\ f = g THEN H!OneMore(n) ELSE x.mem.of[t][f].edits
          BY <1>0, <2>11, SuppressStep, Zenon DEF SuppressCounts
        <4> QED  BY <2>3, <4>1
      <3>3. x.notice = H!NoFile /\ x.fresh = {} /\ x.pending = {}
        BY <1>0, <2>2, <3>1, Zenon DEF SilenceOK, PlaceOK
      <3>4. n \in Nat  BY <2>3, <2>4, <3>1, Zenon DEF Memories, Entries
      <3> HIDE DEF n, g
      <3>5. \A f \in Files : y.mem.of[s][f].edits > Threshold =>
              x.mem.of[s][f].edits > Threshold \/ y.notice = f
        <4> SUFFICES ASSUME NEW f \in Files, y.mem.of[s][f].edits > Threshold
                     PROVE  x.mem.of[s][f].edits > Threshold \/ y.notice = f
          OBVIOUS
        <4>1. CASE f = g /\ n = Threshold  BY <3>1, <3>3, <4>1
        <4>2. CASE f = g /\ n # Threshold
          <5>1. n > Threshold  BY <2>3, <3>1, <3>4, <4>2
          <5> QED  BY <4>2, <5>1 DEF n
        <4>3. CASE f # g  BY <3>2, <4>3
        <4> QED  BY <4>1, <4>2, <4>3
      <3> QED  BY <2>10, <2>11, <3>1, <3>3, <3>5
    <2>12. CASE H!Scan(c)
      <3> DEFINE g == Head(x.todo)
      <3>0. g \in Files /\ (g \in H!ToSet(x.primary) => x.mem.of[s][g].edits < Threshold)
        BY <1>0, <2>12, ScanStep, Zenon DEF ScanMoves
      <3>1. /\ x.pc = "scan" /\ x.todo # <<>> /\ g \in Files
            /\ y.pc = "scan" /\ y.todo = Tail(x.todo) /\ y.notice = x.notice
            /\ y.mem = x.mem \/ y.mem.order # <<>>
        BY <1>0, <2>12, ScanStep, Zenon DEF ScanMoves
      <3>2. \A t \in H!SessionIds, f \in Files :
              y.mem.of[t][f].edits =
                IF t = s /\ f = g /\ g \in H!ToSet(x.primary) THEN H!OneMore(x.mem.of[s][g].edits)
                ELSE x.mem.of[t][f].edits
        BY <1>0, <2>12, ScanStep, Zenon DEF ScanCounts
      <3>3. x.notice = H!NoFile  BY <1>0, <2>2, <3>1 DEF SilenceOK, PlaceOK
      <3>4. \A f \in Files : y.mem.of[s][f].edits > Threshold => x.mem.of[s][f].edits > Threshold
        <4> SUFFICES ASSUME NEW f \in Files, y.mem.of[s][f].edits > Threshold
                     PROVE  x.mem.of[s][f].edits > Threshold
          OBVIOUS
        <4>1. CASE f = g /\ g \in H!ToSet(x.primary)
          <5> DEFINE n == x.mem.of[s][g].edits
          <5>1. n \in Nat /\ n < Threshold
            BY <2>3, <2>4, <3>0, <4>1, Zenon DEF Memories, Entries
          <5>2. y.mem.of[s][f].edits = H!OneMore(n)  BY <2>3, <3>2, <4>1, Zenon
          <5> HIDE DEF n
          <5>3. H!OneMore(n) = n + 1  BY <2>3, <5>1, OneMoreNat
          <5> QED  BY <2>3, <5>1, <5>2, <5>3
        <4>2. CASE ~(f = g /\ g \in H!ToSet(x.primary))
          <5>1. y.mem.of[s][f].edits = x.mem.of[s][f].edits  BY <2>3, <3>2, <4>2
          <5> QED  BY <5>1
        <4> QED  BY <4>1, <4>2
      <3> QED  BY <2>10, <2>12, <3>1, <3>3, <3>4
    <2>13. CASE H!Emit(c)
      <3>1. /\ x.pc = "emit" /\ y = H!Idle /\ s \notin Cursor
            /\ noticed' = IF x.fresh = {} /\ x.pending = {} /\ x.notice # H!NoFile
                          THEN [noticed EXCEPT ![s] = @ \cup {x.notice}] ELSE noticed
        BY <1>0, <2>13, EmitStep DEF PlaceOK
      <3>2. cache' = cache  BY <2>13 DEF H!Emit
      <3>3. Memory(c)' = cache /\ Memory(c) = cache  BY <2>3, <3>1, <3>2 DEF Memory
      <3>4. \A f \in Files : cache.of[s][f].edits > Threshold => f \in noticed'[s]
        <4> SUFFICES ASSUME NEW f \in Files, cache.of[s][f].edits > Threshold PROVE f \in noticed'[s]
          OBVIOUS
        <4>1. f \in noticed[s] \/ x.notice = f  BY <2>2, <3>1, <3>3 DEF SilenceOK
        <4>2. CASE x.notice = f
          <5>1. x.notice # H!NoFile  BY <4>2 DEF H!HookAssumption
          <5>2. x.fresh = {} /\ x.pending = {}  BY <2>2, <3>1, <5>1 DEF SilenceOK
          <5>3. noticed' = [noticed EXCEPT ![s] = @ \cup {x.notice}]  BY <3>1, <5>1, <5>2
          <5> QED  BY <1>0, <2>3, <4>2, <5>3 DEF HookTypeInv
        <4>3. CASE f \in noticed[s]
          <5> HIDE DEF x, s
          <5> QED  BY <1>0, <2>3, <3>1, <4>3 DEF HookTypeInv
        <4> QED  BY <4>1, <4>2, <4>3
      <3>5. cache.order = <<>> => \A f \in Files : cache.of[s][f].edits = 0
        BY <2>2, <3>1, <3>3 DEF SilenceOK
      <3> QED  BY <2>3, <3>1, <3>2, <3>3, <3>4, <3>5 DEF SilenceOK
    <2>14. CASE H!Judge(c)
      <3>1. x.pc = "gate" /\ (y = H!Idle \/ y.mem = x.mem)  BY <1>0, <2>14, JudgeStep
      <3>2. s \in Cursor  BY <1>0, <3>1 DEF PlaceOK, Gating
      <3> QED  BY <2>3, <2>6, <2>14, <3>1, <3>2, Zenon DEF H!Judge
    <2>15. CASE H!Object(c)
      <3>1. /\ s \in Cursor
            /\ \A t \in H!SessionIds, f \in Files : y.mem.of[t][f].edits = cache.of[t][f].edits
        BY <2>15, ObjectStep
      <3> QED  BY <2>3, <2>6, <2>15, <3>1, Zenon DEF H!Object
    <2>16. CASE H!Verdict(c)
      <3>1. y = H!Idle /\ x.pc = "verdict"  BY <1>0, <2>16, IdleStep DEF H!Verdict, H!At
      <3>2. s \in Cursor  BY <1>0, <3>1 DEF PlaceOK, Gating
      <3> QED  BY <2>3, <2>6, <2>16, <3>1, <3>2, Zenon DEF H!Verdict
    <2>17. CASE H!Cut(c)
      <3>1. /\ y.pc = "fill" /\ y.mem = x.mem /\ y.fresh = x.fresh /\ y.pending = x.pending
            /\ y.notice = x.notice
        BY <1>0, <2>17, MoveStep, Zenon DEF H!Cut, Places
      <3>2. x.pc \in {"persist", "scan"} /\ cache' = H!EmptyCache /\ noticed' = noticed
        BY <2>17 DEF H!Cut, H!At
      <3>3. CASE s \in Cursor  BY <2>6, <3>1, <3>2, <3>3
      <3>4. CASE s \notin Cursor
        <4>1. x.pc = "scan"  BY <1>0, <3>2, <3>4 DEF PlaceOK, Gating
        <4>2. Memory(c)' = x.mem /\ Memory(c) = x.mem  BY <3>1, <4>1 DEF Memory
        <4> QED  BY <2>2, <2>3, <3>1, <3>2, <3>4, <4>2 DEF SilenceOK, Telling
      <3> QED  BY <3>3, <3>4
    <2>18. CASE H!Fill(c)
      <3>1. /\ y.pc = IF s \in Cursor THEN "verdict" ELSE "emit"
            /\ y.mem = x.mem /\ y.fresh = x.fresh /\ y.pending = x.pending
            /\ y.notice = x.notice
        BY <1>0, <2>18, MoveStep, Zenon DEF H!Fill, Places
      <3>2. x.pc = "fill" /\ noticed' = noticed  BY <2>18 DEF H!Fill, H!At
      <3>3. CASE s \in Cursor
        <4>1. cache' \in {H!Kept(x.mem), H!EmptyCache}  BY <2>18 DEF H!Fill, H!Filled
        <4> QED  BY <2>6, <3>1, <3>3, <4>1
      <3>4. CASE s \notin Cursor
        <4>1. Memory(c) = x.mem  BY <3>2 DEF Memory
        <4>2. cache = H!EmptyCache /\ (x.mem.order = <<>> => \A f \in Files : x.mem.of[s][f].edits = 0)
          BY <2>2, <3>2, <3>4, <4>1 DEF SilenceOK
        <4>3. cache' = H!Kept(x.mem)  BY <2>18, <4>2 DEF H!Fill, H!Filled
        <4>4. Memory(c)' = cache'  BY <3>1, <3>4 DEF Memory
        <4>5. /\ x.mem.order # <<>> => H!Kept(x.mem).order # <<>> /\ H!Kept(x.mem).of[s] = x.mem.of[s]
              /\ x.mem.order = <<>> => H!Kept(x.mem).of[s] = H!NoMemory
          BY <2>4, KeptMine
        <4>6. /\ \A f \in Files : cache'.of[s][f].edits = x.mem.of[s][f].edits
              /\ cache'.order = <<>> => \A f \in Files : cache'.of[s][f].edits = 0
          <5> HIDE DEF x, s
          <5> QED  BY <2>3, <4>2, <4>3, <4>5
        <4>7. \A f \in Files : x.mem.of[s][f].edits > Threshold => f \in noticed[s] \/ x.notice = f
          BY <2>2, <3>4, <4>1 DEF SilenceOK
        <4>8. x.notice # H!NoFile => x.fresh = {} /\ x.pending = {}  BY <2>2, <3>4 DEF SilenceOK
        <4> QED  BY <3>1, <3>2, <3>4, <4>4, <4>6, <4>7, <4>8 DEF SilenceOK, Telling
      <3> QED  BY <3>3, <3>4
    <2>19. CASE H!CutConfig(c)
      <3>1. /\ y.pc = "fill config" /\ y.mem = x.mem /\ x.pc = "cut config"
            /\ y.notice = x.notice /\ y.pending = x.pending
        BY <1>0, <2>19, MoveStep, Zenon DEF H!CutConfig, Places, H!At
      <3>2. noticed' = noticed /\ cache' = cache  BY <2>19, Zenon DEF H!CutConfig
      <3>3. CASE s \in Cursor  BY <2>6, <3>1, <3>2, <3>3, Zenon
      <3>4. CASE s \notin Cursor
        <4>1. x.notice = H!NoFile /\ x.pending = {}  BY <2>2, <3>1, <3>4, Zenon DEF SilenceOK, Telling
        <4> QED  BY <2>7, <3>1, <3>2, <3>4, <4>1, Zenon DEF Telling, Gating
      <3> QED  BY <3>3, <3>4
    <2>20. CASE H!FillConfig(c)
      <3>1. y = H!Idle /\ x.pc = "fill config"  BY <1>0, <2>20, IdleStep, Zenon DEF H!FillConfig, H!At
      <3>2. noticed' = noticed /\ cache' = cache  BY <2>20, Zenon DEF H!FillConfig
      <3> QED  BY <2>3, <2>6, <2>7, <3>1, <3>2, Zenon DEF Telling, Gating
    <2>21. CASE H!Edit(c)
      <3>1. /\ x.pc = "idle" /\ s \notin Cursor /\ y.pc = "read" /\ y.notice = H!NoFile
            /\ y.pending = {} /\ y.primary \in Patches
        BY <1>0, <2>21, EditStep
      <3>2. noticed' = noticed /\ cache' = cache /\ Len(y.primary) = 1
        BY <2>21, <3>1 DEF H!Edit, H!OneFile
      <3> QED  BY <2>7, <3>1, <3>2 DEF Telling, Gating
    <2>22. CASE H!Propose(c)
      <3>1. s \in Cursor /\ y.mem = H!EmptyCache /\ cache' = cache
        BY <1>0, <2>22, ProposeStep, Zenon DEF H!Propose
      <3> QED  BY <2>3, <2>6, <3>1, Zenon
    <2>23. CASE H!Command(c)
      <3>1. x.pc = "idle" /\ y.pc = "cut config" /\ y.mem = H!EmptyCache /\ y.notice = H!NoFile
        BY <1>0, <2>23, CommandStep, Zenon
      <3>2. noticed' = noticed /\ cache' = cache /\ y.pending = {}
        <4>1. PICK cfg : H!Set(c, [H!Idle EXCEPT !.pc = "cut config", !.cfg = cfg])
          BY <2>23, Zenon DEF H!Command
        <4>2. y = [H!Idle EXCEPT !.pc = "cut config", !.cfg = cfg]
          BY <1>0, <4>1 DEF H!Set, HookTypeInv
        <4> QED  BY <2>23, <4>2 DEF H!Command, H!Idle
      <3> QED  BY <2>3, <2>6, <2>7, <3>1, <3>2, Zenon DEF Telling, Gating
    <2>24. CASE H!Reset(c)
      <3>1. x.pc = "idle" /\ y = x /\ noticed' = noticed /\ cache' = H!EmptyCache
        BY <2>24 DEF H!Reset, H!At
      <3>2. CASE s \in Cursor  BY <2>6, <3>1, <3>2
      <3>3. CASE s \notin Cursor
        <4>1. x.notice = H!NoFile /\ x.pending = {}  BY <2>2, <3>1, <3>3 DEF SilenceOK, Telling
        <4> QED  BY <2>7, <3>1, <3>3, <4>1 DEF Telling, Gating
      <3> QED  BY <3>2, <3>3
    <2> QED
      BY <2>1, <2>2, <2>8, <2>9, <2>11, <2>12, <2>13, <2>14, <2>15, <2>16, <2>17, <2>18, <2>19,
         <2>20, <2>21, <2>22, <2>23, <2>24 DEF H!HookStep
  <1> QED  BY <1>1, <1>2

LEMMA SilenceGivesTold ==
  ASSUME H!HookAssumption, HookBase, SilenceInv, H!OneAtATime, used.kills = 0, H!OneFile
  PROVE  H!SilenceIsTold
  <1> SUFFICES ASSUME NEW s \in H!SessionIds, NEW f \in Files, cache.of[s][f].edits > Threshold
               PROVE  f \in noticed[s] \/ \E c \in Calls : SessionOf[c] = s /\ calls[c].notice = f
    BY DEF H!SilenceIsTold
  <1>1. PICK c \in Calls : s = SessionOf[c]  BY DEF H!SessionIds
  <1>2. SilenceOK(c)  BY DEF SilenceInv
  <1>3. s \notin Cursor
    <2>1. ASSUME s \in Cursor PROVE FALSE
      <3>1. cache.of[s][f].edits = 0  BY <1>1, <1>2, <2>1 DEF SilenceOK
      <3> QED  BY <3>1 DEF H!HookAssumption
    <2> QED  BY <2>1
  <1> QED  BY <1>1, <1>2, <1>3 DEF SilenceOK

-----------------------------------------------------------------------------
(* The invariants put together.                                            *)

HookInv == HookBase /\ MissInv /\ DenyInv /\ QuietInv /\ OnceInv /\ SilenceInv

\* Whatever the calls, the sessions and the bounds, the files, the cache and the config are of
\* their types: the cache never holds more sessions than it may, and a hook tells of findings in
\* files.
THEOREM HookTypes ==
  ASSUME H!HookAssumption
  PROVE  H!Spec => []H!HookTypeOK
  <1>1. H!Init => HookBase  BY BaseInit
  <1>2. HookBase /\ [H!Next]_(H!hvars) => HookBase'  BY BaseNext
  <1>3. HookBase => H!HookTypeOK
    <2> SUFFICES ASSUME HookBase PROVE H!HookTypeOK
      OBVIOUS
    <2>1. cache.order \in Seq(H!SessionIds) /\ Len(cache.order) <= MaxSessions
      BY DEF HookBase, HookTypeInv, Memories
    <2>2. H!ToSet(cache.order) \subseteq H!SessionIds  BY <2>1 DEF H!ToSet
    <2>3. config.rules \subseteq H!Rules /\ config.files \subseteq Files /\ config.enabled \in BOOLEAN
      BY DEF HookBase, HookTypeInv, Configs
    <2>4. \A c \in Calls : calls[c].fresh \subseteq Files \X Findings /\ calls[c].notice \in Files \cup {H!NoFile}
      BY ProcessFields DEF HookBase, HookTypeInv, Told
    <2> QED  BY <2>1, <2>2, <2>3, <2>4 DEF H!HookTypeOK, HookBase, HookTypeInv
  <1> QED  BY <1>1, <1>2, <1>3, PTL DEF H!Spec

\* However many hooks run at once, of however many sessions, none makes another lose a finding
\* and no write is let through before its time; one after another, hooks tell nothing twice and
\* nothing that was ignored, and they tell when they fall silent.
THEOREM HooksTellAll ==
  ASSUME H!HookAssumption
  PROVE  H!Spec => []H!HooksTell
  <1>1. H!Init => HookInv
    BY BaseInit, MissInit, DenyInit, QuietInit, OnceInit, SilenceInit DEF HookInv
  <1>2. HookInv /\ [H!Next]_(H!hvars) => HookInv'
    <2> SUFFICES ASSUME HookInv, [H!Next]_(H!hvars) PROVE HookInv'
      OBVIOUS
    <2>1. HookBase /\ HookBase'  BY BaseNext DEF HookInv
    <2> QED
      BY <2>1, MissNext, DenyNext, QuietNext, OnceNext, SilenceNext DEF HookInv
  <1>3. HookInv => H!HooksTell
    <2> SUFFICES ASSUME HookInv PROVE H!HooksTell
      OBVIOUS
    <2>1. H!OnlyLoopsPass  BY DenyGivesLoops DEF HookInv
    <2>2. ASSUME H!AllShown, used.kills = 0 PROVE H!NothingIsMissed
      <3>1. Within(cache, Heard)  BY <2>2 DEF HookInv, MissInv
      <3>2. \A s \in H!SessionIds : Heard[s] = told[s].once \cup H!Coming(s)  BY DEF Heard
      <3> QED  BY <3>1, <3>2, Zenon DEF H!NothingIsMissed, Within
    <2>3. H!OneAtATime => H!IgnoredIsQuiet  BY QuietGivesIgnored DEF HookInv
    <2>4. H!OneAtATime /\ used.kills = 0 /\ used.resets = 0 => H!ToldOnce
      BY OnceGivesToldOnce DEF HookInv
    <2>5. H!OneAtATime /\ used.kills = 0 /\ H!OneFile => H!SilenceIsTold
      BY SilenceGivesTold DEF HookInv
    <2> QED  BY <2>1, <2>2, <2>3, <2>4, <2>5 DEF H!HooksTell
  <1> QED  BY <1>1, <1>2, <1>3, PTL DEF H!Spec
=============================================================================
