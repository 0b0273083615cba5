---------------------------- MODULE SweepsProofs ----------------------------
(***************************************************************************)
(* Proofs about ScheduledScan.tla, SyncSweep.tla and ConfigCache.tla, for  *)
(* any orgs, tenants, replicas and bounds.  Each theorem is about one of   *)
(* the specifications; as in MCSweeps they share the names of variables    *)
(* and constants (slot, pass, Replicas), and nothing else.                 *)
(*                                                                         *)
(* Scans: while no scan outlasts its marker, an org that is being scanned  *)
(* is marked or no longer due, so a replica that looks again while it      *)
(* holds the org's slot finds it out; whoever starts a scan holds the      *)
(* slot, so no other can start one since it looked.                        *)
(***************************************************************************)
EXTENDS ScheduledScan, FiniteSetTheorems, SequenceTheorems, TLAPS

CONSTANTS
  Tenants, Healthy, Kind, MaxTries, MaxInstalls, MaxUninstalls,     \* of SyncSweep
  Processes, Readers, Writers, Home, Values, Default, Ttl,
  MaxTime, MaxPuts, MaxFails                                        \* of ConfigCache

VARIABLES
  installed, cursor, data, jobs, installs, uninstalls,              \* of SyncSweep
  row, copy, readers, writing, clock, until, raced, known, used     \* of ConfigCache

Syncs  == INSTANCE SyncSweep
Config == INSTANCE ConfigCache

-----------------------------------------------------------------------------
(* The sweep that scans.                                                   *)

(* A scan of o is under way, or just failed.                               *)
Busy(r, o) == At(r, o, "scan") \/ At(r, o, "store") \/ (~TokenErrors /\ At(r, o, "failing"))

SlotIsHeld == \A r \in Replicas, o \in Orgs : At(r, o, "check") \/ At(r, o, "token") => slot[o] = r

BusyIsKnown ==
  ~LongScans => \A r \in Replicas, o \in Orgs : Busy(r, o) => o \in marked \/ o \notin due

(* Since a replica looked, nobody scans the org, and it did not fail.      *)
ClearSinceCheck ==
  ~LongScans => \A r \in Replicas, o \in Orgs :
    At(r, o, "token") => /\ \A q \in Replicas : ~Busy(q, o)
                         /\ TokenErrors \/ o \notin failed

OneIsBusy ==
  ~LongScans => \A r, q \in Replicas, o \in Orgs : Busy(r, o) /\ Busy(q, o) => r = q

(* Nothing that was seen of an org is ahead of it.                         *)
SeenBefore ==
  \A o \in Orgs :
    /\ latest[o].version <= version[o] /\ manual[o].version <= version[o]
    /\ \A r \in Replicas : At(r, o, "store") => pass[r].scan.version <= version[o]

(* Without scans by hand, what is about to be stored is not older than     *)
(* what is.                                                                *)
StoresForward ==
  ~LongScans /\ manuals = 0 => \A o \in Orgs :
    /\ manual[o] = NoScan
    /\ \A r \in Replicas : At(r, o, "store") => latest[o].version <= pass[r].scan.version

DropsAreReal == ~LongScans => DropIsReal

ScanInv == SlotIsHeld /\ BusyIsKnown /\ ClearSinceCheck /\ OneIsBusy
VersionInv == SeenBefore /\ StoresForward /\ DropsAreReal
IInv == TypeOK /\ ScanInv /\ VersionInv

USE DEF github, stored, counts

-----------------------------------------------------------------------------
(* The order of the orgs.                                                  *)

LEMMA Orders ==
  /\ Cardinality(Orgs) \in Nat
  /\ SetToSeq(Orgs) \in [1 .. Cardinality(Orgs) -> Orgs] /\ ToSet(SetToSeq(Orgs)) = Orgs
  <1> DEFINE n == Cardinality(Orgs)
  <1>1. IsFiniteSet(Orgs)  BY ScanAssumption DEF ScanAssumption
  <1>2. n \in Nat /\ ExistsBijection(1 .. n, Orgs)  BY <1>1, FS_CardinalityType
  <1>3. \E f \in [1 .. n -> Orgs] : IsInjective(f)
    BY <1>2 DEF ExistsBijection, Bijection, Injection
  <1> DEFINE s == SetToSeq(Orgs)
  <1>4. s \in [1 .. n -> Orgs] /\ IsInjective(s)  BY <1>3 DEF SetToSeq
  <1> HIDE DEF s
  <1>5. s \in Injection(1 .. n, Orgs)  BY <1>4 DEF Injection
  <1>6. Cardinality(1 .. n) = n
    <2>1. CASE n = 0
      <3>1. 1 .. n = {}  BY <2>1
      <3> QED  BY <2>1, <3>1, FS_EmptySet
    <2>2. CASE n # 0  BY <1>2, <2>2, FS_Interval
    <2> QED  BY <2>1, <2>2
  <1>7. s \in Surjection(1 .. n, Orgs)  BY <1>1, <1>5, <1>6, FS_Injection
  <1>8. ToSet(s) = Orgs
    <2>1. ToSet(s) = {s[i] : i \in DOMAIN s}  BY DEF ToSet
    <2> QED  BY <1>4, <1>7, <2>1 DEF Surjection
  <1> QED  BY <1>2, <1>4, <1>8 DEF s

(* An org that goes to the end stays in the order, and so do the others.   *)
LEMMA OrderKept ==
  ASSUME TypeOK, NEW o \in Orgs, ToTheEnd(o)
  PROVE  order' \in [1 .. Cardinality(Orgs) -> Orgs] /\ ToSet(order') = Orgs
  <1> DEFINE n == Cardinality(Orgs)
  <1>1. n \in Nat  BY Orders
  <1>2. order \in [1 .. n -> Orgs] /\ \A p \in Orgs : \E i \in 1 .. n : order[i] = p
    BY DEF TypeOK, ToSet
  <1>3. order \in Seq(Orgs)  BY <1>1, <1>2, SeqDef
  <1>4. Len(order) = n
    <2>1. Len(order) \in Nat /\ DOMAIN order = 1 .. Len(order)  BY <1>3, LenProperties
    <2>2. 1 .. Len(order) = 1 .. n  BY <1>2, <2>1
    <2> QED  BY <1>1, <2>1, <2>2
  <1> DEFINE at == CHOOSE i \in DOMAIN order : order[i] = o
  <1>5. at \in 1 .. n /\ order[at] = o  BY <1>2
  <1> HIDE DEF n
  <1>6. order' = [i \in 1 .. n |-> IF i < at THEN order[i] ELSE IF i < n THEN order[i + 1] ELSE o]
    BY <1>2, <1>4 DEF ToTheEnd
  <1> HIDE DEF at
  <1>7. order' \in [1 .. n -> Orgs]
    <2> SUFFICES ASSUME NEW i \in 1 .. n
                 PROVE  (IF i < at THEN order[i] ELSE IF i < n THEN order[i + 1] ELSE o) \in Orgs
      BY <1>6
    <2>1. CASE i < n  BY <1>1, <1>2, <2>1
    <2>2. CASE ~(i < n)  BY <1>2, <2>2
    <2> QED  BY <2>1, <2>2
  <1>8. ASSUME NEW p \in Orgs PROVE \E i \in 1 .. n : order'[i] = p
    <2>1. PICK j \in 1 .. n : order[j] = p  BY <1>2
    <2>2. CASE j < at  BY <1>6, <2>1, <2>2
    <2>3. CASE j = at
      <3>1. p = o /\ n \in 1 .. n /\ ~(n < at)  BY <1>1, <1>5, <2>1, <2>3
      <3> QED  BY <1>6, <3>1
    <2>4. CASE j > at
      <3>1. j - 1 \in 1 .. n /\ ~(j - 1 < at) /\ j - 1 < n /\ (j - 1) + 1 = j
        BY <1>1, <1>5, <2>4
      <3>2. order'[j - 1] = order[j]  BY <1>6, <3>1
      <3> QED  BY <2>1, <3>1, <3>2
    <2> QED  BY <1>1, <1>5, <2>2, <2>3, <2>4
  <1>9. ToSet(order') = Orgs  BY <1>7, <1>8 DEF ToSet
  <1> QED  BY <1>7, <1>9 DEF n

-----------------------------------------------------------------------------
(* Where a step takes a replica.                                           *)

Places == {"idle", "next", "check", "token", "scan", "store", "failing"}

(* Only r moves, to pc; unless that is between two orgs, it is at o.       *)
Moved(r, o, pc) ==
  /\ pass' \in [Replicas -> Pass] /\ \A q \in Replicas \ {r} : pass'[q] = pass[q]
  /\ pass'[r].pc = pc
  /\ pc \notin {"idle", "next"} => pass'[r].todo # <<>> /\ Head(pass'[r].todo) = o

LEMMA IdleIsPass == Idle \in Pass
  BY EmptySeq DEF Idle, NoScan, Pass, Result

LEMMA Moves ==
  ASSUME TypeOK, NEW r \in Replicas, NEW o \in Orgs, NEW y \in Places, At(r, o, y)
  PROVE  /\ \A pc \in Places : To(r, pc) =>
              /\ Moved(r, o, pc) /\ pass'[r].scan = pass[r].scan /\ pass'[r].tried = pass[r].tried
         /\ \A n \in Nat : NextAfter(r, n) =>
              Moved(r, o, "next") /\ pass'[r].tried = pass[r].tried
  <1>1. pass[r] \in Pass /\ pass[r].todo \in Seq(Orgs) /\ pass[r].scanned \in Nat
    BY DEF TypeOK, Pass
  <1>2. pass[r].todo # <<>> /\ Head(pass[r].todo) = o  BY DEF At
  <1>3. ASSUME NEW pc \in Places, To(r, pc)
        PROVE  Moved(r, o, pc) /\ pass'[r].scan = pass[r].scan /\ pass'[r].tried = pass[r].tried
    <2> DEFINE p == [pass[r] EXCEPT !.pc = pc]
    <2>1. p \in Pass  BY <1>1 DEF Pass, Places
    <2>2. p.pc = pc /\ p.todo = pass[r].todo /\ p.scan = pass[r].scan /\ p.tried = pass[r].tried
      BY <1>1 DEF Pass
    <2>3. pass' = [pass EXCEPT ![r] = p]  BY <1>3 DEF To
    <2> HIDE DEF p
    <2> QED  BY <1>2, <2>1, <2>2, <2>3 DEF TypeOK, Moved
  <1>4. ASSUME NEW n \in Nat, NextAfter(r, n)
        PROVE  Moved(r, o, "next") /\ pass'[r].tried = pass[r].tried
    <2> DEFINE rest == Tail(pass[r].todo)
               sum  == pass[r].scanned + n
               p    == [pc |-> "next", todo |-> rest, scanned |-> sum, tried |-> pass[r].tried,
                        scan |-> NoScan]
    <2>1. rest \in Seq(Orgs) /\ sum \in Nat /\ NoScan \in Result
      BY <1>1, <1>2, HeadTailProperties DEF NoScan, Result
    <2>2. pass' = [pass EXCEPT ![r] = p]  BY <1>4 DEF NextAfter
    <2> HIDE DEF rest, sum
    <2>3. p \in Pass  BY <1>1, <2>1 DEF Pass
    <2>4. p.pc = "next" /\ p.tried = pass[r].tried  BY <1>1 DEF Pass
    <2> HIDE DEF p
    <2> QED  BY <2>2, <2>3, <2>4 DEF TypeOK, Moved
  <1> QED  BY <1>3, <1>4

LEMMA Freed ==
  ASSUME TypeOK, NEW r \in Replicas, NEW o \in Orgs, Free(r, o)
  PROVE  /\ slot' \in [Orgs -> Replicas \cup {Nobody}]
         /\ \A p \in Orgs : slot[p] # r => slot'[p] = slot[p]
  BY DEF Free, TypeOK

-----------------------------------------------------------------------------
(* What a step must not do to keep each part of the invariant.             *)

(* Whoever is past TakeSlot still holds the slot.                          *)
LEMMA SlotKept ==
  ASSUME IInv, NEW r \in Replicas, NEW o, NEW pc \in Places, Moved(r, o, pc),
         slot' \in [Orgs -> Replicas \cup {Nobody}],
         \A p \in Orgs : slot[p] \notin {r, Nobody} => slot'[p] = slot[p],
         pc \in {"check", "token"} => slot'[o] = r
  PROVE  SlotIsHeld'
  <1> SUFFICES ASSUME NEW q \in Replicas, NEW p \in Orgs, At(q, p, "check")' \/ At(q, p, "token")'
               PROVE  slot'[p] = q
    BY DEF SlotIsHeld
  <1>1. CASE q = r  BY <1>1 DEF Moved, At
  <1>2. CASE q # r
    <2>1. slot[p] = q  BY <1>2 DEF IInv, ScanInv, SlotIsHeld, Moved, At
    <2>2. q # Nobody  BY ScanAssumption DEF ScanAssumption
    <2> QED  BY <1>2, <2>1, <2>2
  <1> QED  BY <1>1, <1>2

(* No scan starts, no marker ends, nothing becomes due and nothing fails.  *)
LEMMA BusyKept ==
  ASSUME IInv, NEW r \in Replicas, NEW o, NEW pc \in Places, Moved(r, o, pc),
         due' \subseteq due, failed' = failed,
         \A p \in Orgs : p \in marked /\ p \in due' => p \in marked',
         pc = "token" => At(r, o, "token"),
         pc = "scan" => At(r, o, "scan"),
         pc = "store" => At(r, o, "scan") \/ At(r, o, "store"),
         pc = "failing" /\ ~TokenErrors => Busy(r, o)
  PROVE  BusyIsKnown' /\ ClearSinceCheck' /\ OneIsBusy'
  <1>1. ASSUME NEW q \in Replicas, NEW p \in Orgs, Busy(q, p)' PROVE Busy(q, p)
    <2>1. CASE q = r  BY <1>1, <2>1 DEF Moved, At, Busy
    <2>2. CASE q # r  BY <1>1, <2>2 DEF Moved, At, Busy
    <2> QED  BY <2>1, <2>2
  <1>2. ASSUME NEW q \in Replicas, NEW p \in Orgs, At(q, p, "token")' PROVE At(q, p, "token")
    <2>1. CASE q = r  BY <1>2, <2>1 DEF Moved, At
    <2>2. CASE q # r  BY <1>2, <2>2 DEF Moved, At
    <2> QED  BY <2>1, <2>2
  <1>3. BusyIsKnown'  BY <1>1 DEF IInv, ScanInv, BusyIsKnown
  <1>4. ClearSinceCheck'  BY <1>1, <1>2 DEF IInv, ScanInv, ClearSinceCheck
  <1>5. OneIsBusy'  BY <1>1 DEF IInv, ScanInv, OneIsBusy
  <1> QED  BY <1>3, <1>4, <1>5

(* Nothing is stored or seen.                                              *)
LEMMA VersionsKept ==
  ASSUME IInv, UNCHANGED <<version, latest, manual, manuals, alert>>,
         \A q \in Replicas, p \in Orgs :
           At(q, p, "store")' => At(q, p, "store") /\ pass'[q].scan = pass[q].scan
  PROVE  VersionInv'
  BY DEF IInv, VersionInv, SeenBefore, StoresForward, DropsAreReal, DropIsReal, AlertLooksBack

-----------------------------------------------------------------------------
(* One action at a time.                                                   *)

LEMMA InitInd == Init => IInv
  <1> SUFFICES ASSUME Init PROVE IInv  OBVIOUS
  <1>1. \A r \in Replicas : pass[r] = Idle  BY DEF Init
  <1>2. NoScan \in Result /\ NoScan.version = 0  BY DEF NoScan, Result
  <1>3. TypeOK
    <2>1. order \in [1 .. Cardinality(Orgs) -> Orgs] /\ ToSet(order) = Orgs  BY Orders DEF Init
    <2>2. pass \in [Replicas -> Pass]  BY IdleIsPass DEF Init
    <2> QED  BY <1>2, <2>1, <2>2 DEF Init, TypeOK
  <1>4. \A r \in Replicas, o \in Orgs, pc \in Places : At(r, o, pc) => FALSE
    BY <1>1 DEF At, Idle
  <1>5. \A r \in Replicas, o \in Orgs :
          /\ ~At(r, o, "check") /\ ~At(r, o, "token") /\ ~At(r, o, "store") /\ ~Busy(r, o)
    BY <1>4 DEF Places, Busy
  <1>6. ScanInv  BY <1>5 DEF ScanInv, SlotIsHeld, BusyIsKnown, ClearSinceCheck, OneIsBusy
  <1>7. VersionInv
    <2>1. DropIsReal  BY <1>2 DEF Init, DropIsReal, AlertLooksBack
    <2> QED  BY <1>2, <1>5, <2>1 DEF Init, VersionInv, SeenBefore, StoresForward, DropsAreReal
  <1> QED  BY <1>3, <1>6, <1>7 DEF IInv

(* A pass begins with sequences of orgs.                                   *)
LEMMA CandidatesAreOrgs == Candidates \subseteq Seq(Orgs)
  <1> DEFINE chosen == {o \in Orgs : Candidate(o)}
  <1>1. chosen \subseteq Orgs /\ IsFiniteSet(Orgs)  BY ScanAssumption DEF ScanAssumption
  <1>2. IsFiniteSet(chosen)  BY <1>1, FS_Subset
  <1>3. Cardinality(chosen) \in Nat  BY <1>2, FS_CardinalityType
  <1>4. Candidates \subseteq [1 .. Cardinality(chosen) -> chosen]  BY DEF Candidates
  <1> HIDE DEF chosen
  <1>5. [1 .. Cardinality(chosen) -> chosen] \subseteq [1 .. Cardinality(chosen) -> Orgs]
    BY <1>1
  <1>6. [1 .. Cardinality(chosen) -> Orgs] \subseteq Seq(Orgs)  BY <1>3, SeqDef
  <1> QED  BY <1>4, <1>5, <1>6

LEMMA PassInd ==
  ASSUME IInv, NEW r \in Replicas, Tick(r) \/ EndPass(r) \/ Crash(r)
  PROVE  IInv'
  <1>1. PICK p \in Pass : p.pc \in {"idle", "next"} /\ pass' = [pass EXCEPT ![r] = p]
    <2>1. CASE Tick(r)
      <3>1. PICK todo \in Candidates :
              pass' = [pass EXCEPT ![r] = [Idle EXCEPT !.pc = "next", !.todo = todo]]
        BY <2>1 DEF Tick
      <3> DEFINE p == [Idle EXCEPT !.pc = "next", !.todo = todo]
      <3>2. todo \in Seq(Orgs)  BY CandidatesAreOrgs
      <3>3. p \in Pass /\ p.pc = "next"  BY <3>2, IdleIsPass DEF Pass
      <3> QED  BY <3>1, <3>3
    <2>2. CASE EndPass(r) \/ Crash(r)
      <3>1. Idle.pc = "idle"  BY DEF Idle
      <3> QED  BY <2>2, <3>1, IdleIsPass DEF EndPass, Crash
    <2> QED  BY <2>1, <2>2
  <1>2. p.pc \in Places /\ Moved(r, Nobody, p.pc)  BY <1>1 DEF Places, Moved, IInv, TypeOK
  <1>3. /\ slot' \in [Orgs -> Replicas \cup {Nobody}]
        /\ \A o \in Orgs : slot[o] \notin {r, Nobody} => slot'[o] = slot[o]
    BY DEF Tick, EndPass, Crash, IInv, TypeOK
  <1>4. UNCHANGED <<github, stored, marked, failed, manual, changes, manuals>>
    BY DEF Tick, EndPass, Crash
  <1>5. crashes' \in Nat
    <2>1. crashes \in Nat  BY DEF IInv, TypeOK
    <2>2. crashes' = crashes \/ crashes' = crashes + 1  BY DEF Tick, EndPass, Crash
    <2> QED  BY <2>1, <2>2
  <1>6. TypeOK'
    <2>1. pass' \in [Replicas -> Pass]  BY <1>2 DEF Moved
    <2> QED  BY <1>3, <1>4, <1>5, <2>1 DEF IInv, TypeOK
  <1>7. SlotIsHeld'  BY <1>1, <1>2, <1>3, SlotKept
  <1>8. BusyIsKnown' /\ ClearSinceCheck' /\ OneIsBusy'
    <2>1. due' \subseteq due /\ failed' = failed /\ marked' = marked  BY <1>4
    <2>2. p.pc \notin {"token", "scan", "store", "failing"}  BY <1>1
    <2> QED  BY <1>2, <2>1, <2>2, BusyKept
  <1>9. VersionInv'
    <2>1. \A q \in Replicas, o \in Orgs :
            At(q, o, "store")' => At(q, o, "store") /\ pass'[q].scan = pass[q].scan
      BY <1>1, <1>2 DEF Moved, At
    <2> QED  BY <1>4, <2>1, VersionsKept
  <1> QED  BY <1>6, <1>7, <1>8, <1>9 DEF IInv, ScanInv

(* A step up to the start of a scan: only the slot and the pass change.    *)
LEMMA LookInd ==
  ASSUME IInv, NEW r \in Replicas, NEW o \in Orgs,
         TakeSlot(r, o) \/ Check(r, o) \/ NoToken(r, o) \/ TokenRaises(r, o)
  PROVE  IInv'
  <1> DEFINE Found == Check(r, o) /\ Candidate(o)
  <1>0. PICK y \in {"next", "check", "token"} : At(r, o, y)
    BY DEF TakeSlot, Check, NoToken, TokenRaises
  <1>1. UNCHANGED <<github, stored, marked, failed, manual, counts>>
    BY DEF TakeSlot, Check, NoToken, TokenRaises
  <1>2. TypeOK  BY DEF IInv
  <1>3. /\ TakeSlot(r, o) =>
             \/ slot[o] = Nobody /\ To(r, "check") /\ slot' = [slot EXCEPT ![o] = r]
             \/ NextAfter(r, 0) /\ UNCHANGED slot
        /\ Check(r, o) =>
             \/ At(r, o, "check") /\ Candidate(o) /\ To(r, "token") /\ UNCHANGED slot
             \/ NextAfter(r, 0) /\ Free(r, o)
        /\ NoToken(r, o) => NextAfter(r, 0) /\ Free(r, o)
        /\ TokenRaises(r, o) => TokenErrors /\ To(r, "failing") /\ Free(r, o)
    BY DEF TakeSlot, Check, NoToken, TokenRaises
  <1>4. PICK pc \in {"next", "check", "token", "failing"} :
          /\ Moved(r, o, pc)
          /\ pc = "check" => slot[o] = Nobody /\ slot' = [slot EXCEPT ![o] = r]
          /\ pc = "token" => Found /\ UNCHANGED slot
          /\ pc = "failing" => TokenErrors
    <2>1. \A x \in {"check", "token", "failing"} : To(r, x) => Moved(r, o, x)
      BY <1>0, <1>2, Moves DEF Places
    <2>2. NextAfter(r, 0) => Moved(r, o, "next")  BY <1>0, <1>2, Moves DEF Places
    <2>3. CASE TakeSlot(r, o)  BY <1>3, <2>1, <2>2, <2>3
    <2>4. CASE Check(r, o)  BY <1>3, <2>1, <2>2, <2>4
    <2>5. CASE NoToken(r, o)  BY <1>3, <2>2, <2>5
    <2>6. CASE TokenRaises(r, o)  BY <1>3, <2>1, <2>6
    <2> QED  BY <2>3, <2>4, <2>5, <2>6
  <1>5. /\ slot' \in [Orgs -> Replicas \cup {Nobody}]
        /\ \A p \in Orgs : slot[p] \notin {r, Nobody} => slot'[p] = slot[p]
    <2>1. \/ UNCHANGED slot \/ Free(r, o)
          \/ slot[o] = Nobody /\ slot' = [slot EXCEPT ![o] = r]
      BY <1>3
    <2>2. slot \in [Orgs -> Replicas \cup {Nobody}]  BY <1>2 DEF TypeOK
    <2> QED  BY <1>2, <2>1, <2>2, Freed
  <1>6. TypeOK'  BY <1>1, <1>4, <1>5 DEF Moved, IInv, TypeOK
  <1>7. SlotIsHeld'
    <2>1. pc \in {"check", "token"} => slot'[o] = r
      <3>1. pc = "check" => slot'[o] = r  BY <1>2, <1>4 DEF TypeOK
      <3>2. pc = "token" => slot[o] = r /\ slot'[o] = slot[o]
        BY <1>4 DEF Check, IInv, ScanInv, SlotIsHeld
      <3> QED  BY <3>1, <3>2
    <2> QED  BY <1>4, <1>5, <2>1, SlotKept DEF Places
  <1>8. BusyIsKnown' /\ ClearSinceCheck' /\ OneIsBusy'
    <2>1. due' = due /\ failed' = failed /\ marked' = marked  BY <1>1
    <2>2. CASE pc # "token"
      <3>1. pc \in Places /\ pc \notin {"token", "scan", "store"}  BY <2>2 DEF Places
      <3> QED  BY <1>4, <2>1, <3>1, BusyKept
    <2>3. CASE pc = "token"
      <3>1. o \in due /\ o \notin failed /\ o \notin marked  BY <1>4, <2>3 DEF Candidate
      <3>2. ASSUME NEW q \in Replicas, NEW p \in Orgs, Busy(q, p)' PROVE Busy(q, p)
        BY <1>4, <2>3, <3>2 DEF Moved, At, Busy
      <3>3. ASSUME NEW q \in Replicas, NEW p \in Orgs, At(q, p, "token")'
            PROVE  p = o \/ At(q, p, "token")
        BY <1>4, <2>3, <3>3 DEF Moved, At
      <3>4. ~LongScans => \A q \in Replicas : ~Busy(q, o)
        BY <3>1 DEF IInv, ScanInv, BusyIsKnown
      <3>5. BusyIsKnown'  BY <2>1, <3>2 DEF IInv, ScanInv, BusyIsKnown
      <3>6. ClearSinceCheck'
        BY <2>1, <3>1, <3>2, <3>3, <3>4 DEF IInv, ScanInv, ClearSinceCheck
      <3>7. OneIsBusy'  BY <3>2 DEF IInv, ScanInv, OneIsBusy
      <3> QED  BY <3>5, <3>6, <3>7
    <2> QED  BY <2>2, <2>3
  <1>9. VersionInv'
    <2>1. \A q \in Replicas, p \in Orgs :
            At(q, p, "store")' => At(q, p, "store") /\ pass'[q].scan = pass[q].scan
      BY <1>4 DEF Moved, At
    <2> QED  BY <1>1, <2>1, VersionsKept
  <1> QED  BY <1>6, <1>7, <1>8, <1>9 DEF IInv, ScanInv

(* A scan starts: whoever starts it holds the slot, so nobody else does.   *)
LEMMA StartInd ==
  ASSUME IInv, NEW r \in Replicas, NEW o \in Orgs, Start(r, o)
  PROVE  IInv'
  <1>1. /\ At(r, o, "token") /\ Free(r, o) /\ marked' = marked \cup {o}
        /\ UNCHANGED <<github, stored, failed, manual, counts>>
    BY DEF Start
  <1>2. TypeOK  BY DEF IInv
  <1>3. Moved(r, o, "scan")
    <2> DEFINE n == pass[r].tried + 1
               p == [pass[r] EXCEPT !.pc = "scan", !.tried = n]
    <2>0. pass[r] \in Pass /\ pass[r].todo # <<>> /\ Head(pass[r].todo) = o
      BY <1>1, <1>2 DEF TypeOK, At
    <2>1. n \in Nat  BY <2>0 DEF Pass
    <2>2. pass' = [pass EXCEPT ![r] = p]  BY DEF Start
    <2> HIDE DEF n
    <2>3. p \in Pass /\ p.pc = "scan" /\ p.todo = pass[r].todo  BY <2>0, <2>1 DEF Pass
    <2> HIDE DEF p
    <2> QED  BY <1>2, <2>0, <2>2, <2>3 DEF Moved, TypeOK
  <1>4. /\ slot' \in [Orgs -> Replicas \cup {Nobody}]
        /\ \A p \in Orgs : slot[p] \notin {r, Nobody} => slot'[p] = slot[p]
    BY <1>1, <1>2, Freed
  <1>5. TypeOK'
    <2>1. pass' \in [Replicas -> Pass]  BY <1>3 DEF Moved
    <2> QED  BY <1>1, <1>2, <1>4, <2>1 DEF TypeOK
  <1>6. SlotIsHeld'  BY <1>3, <1>4, SlotKept DEF Places
  <1>7. ASSUME NEW q \in Replicas, NEW p \in Orgs, Busy(q, p)'
        PROVE  Busy(q, p) \/ (q = r /\ p = o)
    BY <1>3, <1>7 DEF Moved, At, Busy
  <1>8. ASSUME NEW q \in Replicas, NEW p \in Orgs, At(q, p, "token")'
        PROVE  At(q, p, "token") /\ p # o
    <2>1. At(q, p, "token") /\ q # r  BY <1>3, <1>8 DEF Moved, At
    <2>2. slot[p] = q /\ slot[o] = r  BY <1>1, <2>1 DEF IInv, ScanInv, SlotIsHeld
    <2> QED  BY <2>1, <2>2
  <1>9. ~LongScans => \A q \in Replicas : ~Busy(q, o)
    BY <1>1 DEF IInv, ScanInv, ClearSinceCheck
  <1>10. BusyIsKnown'  BY <1>1, <1>7 DEF IInv, ScanInv, BusyIsKnown
  <1>11. ClearSinceCheck'  BY <1>1, <1>7, <1>8 DEF IInv, ScanInv, ClearSinceCheck
  <1>12. OneIsBusy'  BY <1>7, <1>9 DEF IInv, ScanInv, OneIsBusy
  <1>13. VersionInv'
    <2>1. \A q \in Replicas, p \in Orgs :
            At(q, p, "store")' => At(q, p, "store") /\ pass'[q].scan = pass[q].scan
      BY <1>3 DEF Moved, At
    <2> QED  BY <1>1, <2>1, VersionsKept
  <1> QED  BY <1>5, <1>6, <1>10, <1>11, <1>12, <1>13 DEF IInv, ScanInv

(* What is seen now is as new as anything.                                 *)
LEMMA ScanInd ==
  ASSUME IInv, NEW r \in Replicas, NEW o \in Orgs, Scan(r, o)
  PROVE  IInv'
  <1>1. /\ At(r, o, "scan") /\ pass' = [pass EXCEPT ![r] = [@ EXCEPT !.pc = "store", !.scan = Seen(o)]]
        /\ UNCHANGED <<github, stored, marked, failed, slot, manual, counts>>
    BY DEF Scan
  <1>2. TypeOK  BY DEF IInv
  <1>3. Seen(o) \in Result /\ Seen(o).version = version[o] /\ version[o] \in Nat
    BY <1>2 DEF TypeOK, Seen, Result
  <1>4. Moved(r, o, "store") /\ pass'[r].scan.version = version[o]
    <2> DEFINE p == [pass[r] EXCEPT !.pc = "store", !.scan = Seen(o)]
    <2>0. pass[r] \in Pass /\ pass[r].todo # <<>> /\ Head(pass[r].todo) = o
      BY <1>1, <1>2 DEF TypeOK, At
    <2>1. pass' = [pass EXCEPT ![r] = p]  BY <1>1
    <2>2. p \in Pass /\ p.pc = "store" /\ p.todo = pass[r].todo /\ p.scan = Seen(o)
      BY <1>3, <2>0 DEF Pass
    <2> HIDE DEF p
    <2> QED  BY <1>2, <1>3, <2>0, <2>1, <2>2 DEF Moved, TypeOK
  <1>5. TypeOK'
    <2>1. pass' \in [Replicas -> Pass]  BY <1>4 DEF Moved
    <2> QED  BY <1>1, <1>2, <2>1 DEF TypeOK
  <1>6. SlotIsHeld'
    <2>1. slot' \in [Orgs -> Replicas \cup {Nobody}] /\ slot' = slot  BY <1>1, <1>2 DEF TypeOK
    <2> QED  BY <1>4, <2>1, SlotKept DEF Places
  <1>7. BusyIsKnown' /\ ClearSinceCheck' /\ OneIsBusy'
    BY <1>1, <1>4, BusyKept DEF Places
  <1>8. VersionInv'
    <2>1. \A q \in Replicas, p \in Orgs : At(q, p, "store")' =>
            \/ At(q, p, "store") /\ pass'[q].scan = pass[q].scan
            \/ q = r /\ p = o
      BY <1>4 DEF Moved, At
    <2>2. SeenBefore'
      BY <1>1, <1>3, <1>4, <2>1 DEF IInv, VersionInv, SeenBefore
    <2>3. StoresForward'
      BY <1>1, <1>4, <2>1 DEF IInv, VersionInv, SeenBefore, StoresForward
    <2>4. DropsAreReal'  BY <1>1 DEF IInv, VersionInv, DropsAreReal, DropIsReal, AlertLooksBack
    <2> QED  BY <2>2, <2>3, <2>4 DEF VersionInv
  <1> QED  BY <1>5, <1>6, <1>7, <1>8 DEF IInv, ScanInv

LEMMA Persisted ==
  ASSUME TypeOK, NEW o \in Orgs, NEW scan \in Result, Persist(o, scan)
  PROVE  /\ latest' \in [Orgs -> Result] /\ alert' \in Result \X Result
         /\ due' \subseteq Orgs /\ marked' \subseteq Orgs
         /\ order' \in [1 .. Cardinality(Orgs) -> Orgs] /\ ToSet(order') = Orgs
         /\ due' \subseteq due /\ \A p \in Orgs : p \in marked /\ p \in due' => p \in marked'
         /\ \A p \in Orgs : latest'[p] = IF p = o THEN scan ELSE latest[p]
         /\ alert' = alert \/ alert' = <<latest[o], scan>>
  <1>1. order' \in [1 .. Cardinality(Orgs) -> Orgs] /\ ToSet(order') = Orgs
    BY OrderKept DEF Persist
  <1>2. latest[o] \in Result  BY DEF TypeOK
  <1>3. alert' = alert \/ alert' = <<latest[o], scan>>  BY DEF Persist
  <1>4. alert' \in Result \X Result  BY <1>2, <1>3 DEF TypeOK
  <1> QED  BY <1>1, <1>3, <1>4 DEF Persist, TypeOK

(* The only scan of the org under way is stored over an older one.         *)
LEMMA StoreInd ==
  ASSUME IInv, NEW r \in Replicas, NEW o \in Orgs, Store(r, o)
  PROVE  IInv'
  <1>1. /\ At(r, o, "store") /\ Persist(o, pass[r].scan)
        /\ NextAfter(r, 1) \/ To(r, "failing")
        /\ UNCHANGED <<github, failed, slot, manual, counts>>
    BY DEF Store
  <1>2. TypeOK  BY DEF IInv
  <1>3. pass[r].scan \in Result  BY <1>2 DEF TypeOK, Pass
  <1>4. PICK pc \in {"next", "failing"} : Moved(r, o, pc)
    BY <1>1, <1>2, Moves DEF Places
  <1>5. TypeOK'
    <2>1. pass' \in [Replicas -> Pass]  BY <1>4 DEF Moved
    <2> QED  BY <1>1, <1>2, <1>3, <2>1, Persisted DEF TypeOK
  <1>6. SlotIsHeld'
    <2>1. slot' \in [Orgs -> Replicas \cup {Nobody}] /\ slot' = slot  BY <1>1, <1>2 DEF TypeOK
    <2> QED  BY <1>4, <2>1, SlotKept DEF Places
  <1>7. BusyIsKnown' /\ ClearSinceCheck' /\ OneIsBusy'
    <2>1. /\ due' \subseteq due /\ failed' = failed
          /\ \A p \in Orgs : p \in marked /\ p \in due' => p \in marked'
      BY <1>1, <1>2, <1>3, Persisted
    <2>2. pc \in Places /\ pc \notin {"token", "scan", "store"}  BY DEF Places
    <2>3. Busy(r, o)  BY <1>1 DEF Busy
    <2> QED  BY <1>4, <2>1, <2>2, <2>3, BusyKept
  <1>8. VersionInv'
    <2>1. \A q \in Replicas, p \in Orgs :
            At(q, p, "store")' => At(q, p, "store") /\ q # r /\ pass'[q].scan = pass[q].scan
      BY <1>4 DEF Moved, At
    <2>2. \A p \in Orgs : latest'[p] = IF p = o THEN pass[r].scan ELSE latest[p]
      BY <1>1, <1>2, <1>3, Persisted
    <2>3. alert' = alert \/ alert' = <<latest[o], pass[r].scan>>
      BY <1>1, <1>2, <1>3, Persisted
    <2>4. SeenBefore'
      BY <1>1, <2>1, <2>2 DEF IInv, VersionInv, SeenBefore
    <2>5. ~LongScans => \A q \in Replicas : At(q, o, "store") => q = r
      BY <1>1 DEF IInv, ScanInv, OneIsBusy, Busy
    <2>6. StoresForward'
      BY <1>1, <2>1, <2>2, <2>5 DEF IInv, VersionInv, StoresForward
    <2>7. ~LongScans /\ manuals = 0 => latest[o].version <= pass[r].scan.version
      BY <1>1 DEF IInv, VersionInv, StoresForward
    <2>8. DropsAreReal'
      BY <1>1, <2>3, <2>7 DEF IInv, VersionInv, DropsAreReal, DropIsReal, AlertLooksBack
    <2> QED  BY <2>4, <2>6, <2>8 DEF VersionInv
  <1> QED  BY <1>5, <1>6, <1>7, <1>8 DEF IInv, ScanInv

LEMMA FailInd ==
  ASSUME IInv, NEW r \in Replicas, NEW o \in Orgs, ScanFails(r, o) \/ RecordFailure(r, o)
  PROVE  IInv'
  <1>1. UNCHANGED <<github, stored, marked, slot, manual, counts>>
    BY DEF ScanFails, RecordFailure
  <1>2. TypeOK  BY DEF IInv
  <1>3. \/ (At(r, o, "scan") \/ At(r, o, "store")) /\ To(r, "failing") /\ failed' = failed
        \/ At(r, o, "failing") /\ NextAfter(r, 0) /\ failed' = failed \cup {o}
    BY DEF ScanFails, RecordFailure
  <1>4. PICK pc \in {"next", "failing"} :
          /\ Moved(r, o, pc)
          /\ pc = "failing" => Busy(r, o) /\ failed' = failed
          /\ pc = "next" => At(r, o, "failing") /\ failed' = failed \cup {o}
    BY <1>2, <1>3, Moves DEF Places, Busy
  <1>5. TypeOK'
    <2>1. pass' \in [Replicas -> Pass]  BY <1>4 DEF Moved
    <2>2. failed' \subseteq Orgs  BY <1>2, <1>4 DEF TypeOK
    <2> QED  BY <1>1, <1>2, <2>1, <2>2 DEF TypeOK
  <1>6. SlotIsHeld'
    <2>1. slot' \in [Orgs -> Replicas \cup {Nobody}] /\ slot' = slot  BY <1>1, <1>2 DEF TypeOK
    <2> QED  BY <1>4, <2>1, SlotKept DEF Places
  <1>7. BusyIsKnown' /\ ClearSinceCheck' /\ OneIsBusy'
    <2>1. CASE pc = "failing"  BY <1>1, <1>4, <2>1, BusyKept DEF Places
    <2>2. CASE pc = "next"
      <3>1. ASSUME NEW q \in Replicas, NEW p \in Orgs, Busy(q, p)' PROVE Busy(q, p)
        BY <1>4, <2>2, <3>1 DEF Moved, At, Busy
      <3>2. ASSUME NEW q \in Replicas, NEW p \in Orgs, At(q, p, "token")' PROVE At(q, p, "token")
        BY <1>4, <2>2, <3>2 DEF Moved, At
      <3>3. BusyIsKnown'  BY <1>1, <3>1 DEF IInv, ScanInv, BusyIsKnown
      <3>4. ~LongScans /\ ~TokenErrors => \A q \in Replicas : ~At(q, o, "token")
        BY <1>4, <2>2 DEF IInv, ScanInv, ClearSinceCheck, Busy
      <3>5. ClearSinceCheck'
        BY <1>4, <2>2, <3>1, <3>2, <3>4 DEF IInv, ScanInv, ClearSinceCheck
      <3>6. OneIsBusy'  BY <3>1 DEF IInv, ScanInv, OneIsBusy
      <3> QED  BY <3>3, <3>5, <3>6
    <2> QED  BY <2>1, <2>2
  <1>8. VersionInv'
    <2>1. \A q \in Replicas, p \in Orgs :
            At(q, p, "store")' => At(q, p, "store") /\ pass'[q].scan = pass[q].scan
      BY <1>4 DEF Moved, At
    <2> QED  BY <1>1, <2>1, VersionsKept
  <1> QED  BY <1>5, <1>6, <1>7, <1>8 DEF IInv, ScanInv

(* Steps of people, of GitHub and of time leave passes and slots alone.    *)
LEMMA StillKept ==
  ASSUME IInv, UNCHANGED <<slot, pass>>
  PROVE  /\ SlotIsHeld' /\ OneIsBusy'
         /\ \A r \in Replicas, o \in Orgs :
              /\ At(r, o, "store")' <=> At(r, o, "store")
              /\ At(r, o, "token")' <=> At(r, o, "token")
              /\ Busy(r, o)' <=> Busy(r, o)
  <1>1. \A r \in Replicas, o \in Orgs :
          /\ At(r, o, "store")' <=> At(r, o, "store")
          /\ At(r, o, "token")' <=> At(r, o, "token")
          /\ Busy(r, o)' <=> Busy(r, o)
    BY DEF At, Busy
  <1>2. SlotIsHeld'  BY DEF IInv, ScanInv, SlotIsHeld, At
  <1>3. OneIsBusy'  BY <1>1 DEF IInv, ScanInv, OneIsBusy
  <1> QED  BY <1>1, <1>2, <1>3

LEMMA PeopleInd ==
  ASSUME IInv, NEW o \in Orgs, ManualScan(o) \/ ManualStore(o) \/ Change(o)
  PROVE  IInv'
  <1>1. UNCHANGED <<failed, slot, pass, crashes>>  BY DEF ManualScan, ManualStore, Change
  <1>2. TypeOK  BY DEF IInv
  <1>3. /\ version[o] \in Nat /\ score[o] \in {"low", "high"} /\ manual[o] \in Result
        /\ changes \in Nat /\ manuals \in Nat
    BY <1>2 DEF TypeOK
  <1>4. NoScan \in Result /\ NoScan.version = 0  BY DEF NoScan, Result
  <1>5. Seen(o) \in Result /\ Seen(o).version = version[o]  BY <1>3 DEF Seen, Result
  <1>6. /\ due' \subseteq due /\ \A p \in Orgs : p \in marked /\ p \in due' => p \in marked'
        /\ latest' \in [Orgs -> Result] /\ alert' \in Result \X Result
        /\ due' \subseteq Orgs /\ marked' \subseteq Orgs
        /\ order' \in [1 .. Cardinality(Orgs) -> Orgs] /\ ToSet(order') = Orgs
    <2>1. CASE ManualStore(o)  BY <1>2, <1>3, <2>1, Persisted DEF ManualStore
    <2>2. CASE UNCHANGED <<stored, marked>>  BY <1>2, <2>2 DEF TypeOK
    <2> QED  BY <2>1, <2>2 DEF ManualScan, Change
  <1>7. TypeOK'
    <2>1. version' \in [Orgs -> Nat] /\ score' \in [Orgs -> {"low", "high"}]
      <3>1. CASE Change(o)
        <4>1. version[o] + 1 \in Nat  BY <1>3
        <4> DEFINE n == version[o] + 1
        <4>2. version' = [version EXCEPT ![o] = n]  BY <3>1 DEF Change
        <4> HIDE DEF n
        <4>3. version' \in [Orgs -> Nat]  BY <1>2, <4>1, <4>2 DEF TypeOK, n
        <4>4. score' = [score EXCEPT ![o] = IF score[o] = "low" THEN "high" ELSE "low"]
          BY <3>1 DEF Change
        <4> QED  BY <1>2, <4>3, <4>4 DEF TypeOK
      <3>2. CASE UNCHANGED github  BY <1>2, <3>2 DEF TypeOK
      <3> QED  BY <3>1, <3>2 DEF ManualScan, ManualStore
    <2>2. manual' \in [Orgs -> Result]
      <3>1. CASE ManualScan(o)  BY <1>2, <1>5, <3>1 DEF TypeOK, ManualScan
      <3>2. CASE ManualStore(o)  BY <1>2, <1>4, <3>2 DEF TypeOK, ManualStore
      <3>3. CASE Change(o)  BY <1>2, <3>3 DEF TypeOK, Change
      <3> QED  BY <3>1, <3>2, <3>3
    <2>3. changes' \in Nat /\ manuals' \in Nat
      <3>1. /\ changes' = changes \/ changes' = changes + 1
            /\ manuals' = manuals \/ manuals' = manuals + 1
        BY DEF ManualScan, ManualStore, Change
      <3> QED  BY <1>3, <3>1
    <2> QED  BY <1>1, <1>2, <1>6, <2>1, <2>2, <2>3 DEF TypeOK
  <1>8. BusyIsKnown' /\ ClearSinceCheck'
    <2>1. BusyIsKnown'
      BY <1>1, <1>6, StillKept DEF IInv, ScanInv, BusyIsKnown
    <2>2. ClearSinceCheck'
      BY <1>1, StillKept DEF IInv, ScanInv, ClearSinceCheck
    <2> QED  BY <2>1, <2>2
  <1>9. VersionInv'
    <2>1. CASE ManualScan(o)
      <3>1. UNCHANGED <<version, latest, alert>> /\ manual' = [manual EXCEPT ![o] = Seen(o)]
            /\ manuals' = manuals + 1
        BY <2>1 DEF ManualScan
      <3>2. manuals' # 0  BY <1>3, <3>1
      <3>3. \A p \in Orgs : manual'[p] = IF p = o THEN Seen(o) ELSE manual[p]
        BY <1>2, <3>1 DEF TypeOK
      <3>4. SeenBefore'
        BY <1>1, <1>3, <1>5, <3>1, <3>3, StillKept DEF IInv, VersionInv, SeenBefore
      <3> QED  BY <3>2, <3>4 DEF VersionInv, StoresForward, DropsAreReal, DropIsReal, AlertLooksBack
    <2>2. CASE ManualStore(o)
      <3>1. /\ UNCHANGED <<version, manuals>> /\ manual' = [manual EXCEPT ![o] = NoScan]
            /\ manual[o] # NoScan
        BY <2>2 DEF ManualStore
      <3>2. LongScans \/ manuals # 0  BY <3>1 DEF IInv, VersionInv, StoresForward
      <3>3. \A p \in Orgs : latest'[p] = IF p = o THEN manual[o] ELSE latest[p]
        BY <1>2, <1>3, <2>2, Persisted DEF ManualStore
      <3>4. \A p \in Orgs : manual'[p] = IF p = o THEN NoScan ELSE manual[p]
        BY <1>2, <3>1 DEF TypeOK
      <3>5. SeenBefore'
        BY <1>1, <1>3, <1>4, <3>1, <3>3, <3>4, StillKept DEF IInv, VersionInv, SeenBefore
      <3> QED  BY <3>1, <3>2, <3>5 DEF VersionInv, StoresForward, DropsAreReal, DropIsReal,
                                       AlertLooksBack
    <2>3. CASE Change(o)
      <3>1. UNCHANGED <<latest, manual, manuals, alert>>  BY <2>3 DEF Change
      <3>2. \A p \in Orgs : version[p] <= version'[p] /\ version[p] \in Nat /\ version'[p] \in Nat
        <4>1. \A p \in Orgs : version'[p] = IF p = o THEN version[o] + 1 ELSE version[p]
          BY <1>2, <2>3 DEF Change, TypeOK
        <4> QED  BY <1>2, <4>1 DEF TypeOK
      <3>3. \A p \in Orgs : latest[p].version \in Nat /\ manual[p].version \in Nat
                            /\ \A r \in Replicas : pass[r].scan.version \in Nat
        BY <1>2 DEF TypeOK, Result, Pass
      <3>4. SeenBefore'
        <4> SUFFICES ASSUME NEW p \in Orgs
                     PROVE  /\ latest[p].version <= version'[p] /\ manual[p].version <= version'[p]
                            /\ \A r \in Replicas : At(r, p, "store") =>
                                 pass[r].scan.version <= version'[p]
          BY <1>1, <3>1, StillKept DEF SeenBefore
        <4>1. /\ latest[p].version <= version[p] /\ manual[p].version <= version[p]
              /\ \A r \in Replicas : At(r, p, "store") => pass[r].scan.version <= version[p]
          BY DEF IInv, VersionInv, SeenBefore
        <4> QED  BY <3>2, <3>3, <4>1
      <3>5. StoresForward'
        BY <1>1, <3>1, StillKept DEF IInv, VersionInv, StoresForward
      <3>6. DropsAreReal'  BY <3>1 DEF IInv, VersionInv, DropsAreReal, DropIsReal, AlertLooksBack
      <3> QED  BY <3>4, <3>5, <3>6 DEF VersionInv
    <2> QED  BY <2>1, <2>2, <2>3
  <1> QED  BY <1>1, <1>7, <1>8, <1>9, StillKept DEF IInv, ScanInv

(* Nothing becomes due, and no marker ends, while the org is scanned.      *)
LEMMA TimeInd ==
  ASSUME IInv, NEW o \in Orgs, GoDue(o) \/ WindowEnds(o) \/ RetryDue(o)
  PROVE  IInv'
  <1>1. UNCHANGED <<github, latest, order, alert, slot, pass, manual, counts>>
    BY DEF GoDue, WindowEnds, RetryDue
  <1>2. TypeOK'
    <2>1. due' \subseteq Orgs /\ marked' \subseteq Orgs /\ failed' \subseteq Orgs
      BY DEF GoDue, WindowEnds, RetryDue, IInv, TypeOK
    <2> QED  BY <1>1, <2>1 DEF IInv, TypeOK
  <1>3. BusyIsKnown'
    <2>1. CASE GoDue(o) \/ (WindowEnds(o) /\ ~LongScans)
      <3>1. \A r \in Replicas : ~Busy(r, o)  BY <2>1 DEF GoDue, WindowEnds, Scanning, Busy
      <3>2. \A p \in Orgs \ {o} : (p \in due' <=> p \in due) /\ (p \in marked' <=> p \in marked)
        BY <2>1 DEF GoDue, WindowEnds
      <3> QED  BY <1>1, <3>1, <3>2, StillKept DEF IInv, ScanInv, BusyIsKnown
    <2>2. CASE RetryDue(o)
      BY <1>1, <2>2, StillKept DEF RetryDue, IInv, ScanInv, BusyIsKnown
    <2>3. CASE LongScans  BY <2>3 DEF BusyIsKnown
    <2> QED  BY <2>1, <2>2, <2>3
  <1>4. ClearSinceCheck'
    <2>1. failed' \subseteq failed  BY DEF GoDue, WindowEnds, RetryDue
    <2> QED  BY <1>1, <2>1, StillKept DEF IInv, ScanInv, ClearSinceCheck
  <1>5. VersionInv'
    BY <1>1, StillKept, VersionsKept
  <1> QED  BY <1>1, <1>2, <1>3, <1>4, <1>5, StillKept DEF IInv, ScanInv

LEMMA NextInd == IInv /\ [Next]_vars => IInv'
  <1> SUFFICES ASSUME IInv, [Next]_vars PROVE IInv'  OBVIOUS
  <1>1. CASE UNCHANGED vars
    <2>1. UNCHANGED <<version, score, latest, due, order, alert, marked, failed, slot, pass, manual,
                      changes, manuals, crashes>>
      BY <1>1 DEF vars
    <2>2. TypeOK'  BY <2>1 DEF IInv, TypeOK
    <2>3. ScanInv'
      BY <2>1, StillKept DEF IInv, ScanInv, BusyIsKnown, ClearSinceCheck
    <2>4. VersionInv'  BY <2>1, StillKept, VersionsKept
    <2> QED  BY <2>2, <2>3, <2>4 DEF IInv
  <1>2. ASSUME NEW r \in Replicas, Tick(r) \/ EndPass(r) \/ Crash(r) PROVE IInv'
    BY <1>2, PassInd
  <1>3. ASSUME NEW r \in Replicas, NEW o \in Orgs, Step(r, o) PROVE IInv'
    BY <1>3, LookInd, StartInd, ScanInd, StoreInd, FailInd DEF Step
  <1>4. ASSUME NEW o \in Orgs,
               \/ ManualScan(o) \/ ManualStore(o) \/ Change(o)
               \/ GoDue(o) \/ WindowEnds(o) \/ RetryDue(o)
        PROVE  IInv'
    BY <1>4, PeopleInd, TimeInd
  <1> QED  BY <1>1, <1>2, <1>3, <1>4 DEF Next

THEOREM Invariant == Spec => []IInv
  BY InitInd, NextInd, PTL DEF Spec

-----------------------------------------------------------------------------
(* What follows.                                                           *)

(* Every variable keeps its type, and no org is lost from the order that   *)
(* decides whose turn it is (scheduled_scan_sweep.py).                     *)
THEOREM TypeCorrect == Spec => []TypeOK
  <1>1. IInv => TypeOK  BY DEF IInv
  <1> QED  BY <1>1, Invariant, PTL

(* However many replicas sweep, whatever crashes or fails, an org is       *)
(* scanned by one at a time, as long as no scan outlasts its marker.       *)
THEOREM ScansDoNotMeet == ASSUME ~LongScans PROVE Spec => []OneScan
  <1>1. ASSUME IInv PROVE OneScan
    <2> SUFFICES ASSUME NEW o \in Orgs
                 PROVE  Cardinality({r \in DOMAIN pass : At(r, o, "scan") \/ At(r, o, "store")}) <= 1
      BY DEF OneScan
    <2> DEFINE S == {r \in DOMAIN pass : At(r, o, "scan") \/ At(r, o, "store")}
    <2>1. DOMAIN pass = Replicas  BY <1>1 DEF IInv, TypeOK
    <2>2. \A q, r \in S : q = r  BY <1>1, <2>1 DEF IInv, ScanInv, OneIsBusy, Busy
    <2>3. CASE S = {}  BY <2>3, FS_EmptySet
    <2>4. CASE S # {}
      <3>1. PICK r \in S : TRUE  BY <2>4
      <3>2. S = {r}  BY <2>2, <3>1
      <3>3. Cardinality({r}) = 1  BY FS_Singleton
      <3> HIDE DEF S
      <3>4. Cardinality(S) <= 1  BY <3>2, <3>3
      <3> QED  BY <3>4 DEF S
    <2> QED  BY <2>3, <2>4
  <1> QED  BY <1>1, Invariant, PTL

(* What an alert calls a drop is one from an earlier state of the org to a *)
(* later one, if only the sweeps scan (scan_service.py).                   *)
THEOREM DropsRunForward == ASSUME ~LongScans PROVE Spec => []DropIsReal
  <1>1. ASSUME IInv PROVE DropIsReal  BY <1>1 DEF IInv, VersionInv, DropsAreReal
  <1> QED  BY <1>1, Invariant, PTL

(* Where tokens resolve, a replica that starts a scan starts none of an    *)
(* org whose last one failed a short time ago: also not when that failed   *)
(* after its pass had begun (scheduled_scan_sweep.py).                     *)
THEOREM FailuresRest == ASSUME ~LongScans, ~TokenErrors PROVE Spec => BacksOff
  <1>1. ASSUME IInv PROVE [RestsAfterFailure]_vars
    <2>1. \A r \in Replicas, o \in failed : ~At(r, o, "token")
      BY <1>1 DEF IInv, TypeOK, ScanInv, ClearSinceCheck
    <2> QED  BY <2>1 DEF RestsAfterFailure
  <1> QED  BY <1>1, Invariant, PTL DEF Spec, BacksOff

-----------------------------------------------------------------------------
(* SyncSweep.  Whoever is between the check and the enqueue holds the slot *)
(* of its tenant, so only one is; since its check found no job, nobody     *)
(* else can have added one of a sweep, and what a worker or a user does    *)
(* meanwhile adds none.                                                    *)

(* The library's operators are the same ones in the instance.              *)
LEMMA SameOps ==
  ASSUME NEW s, NEW i
  PROVE  /\ Syncs!Cardinality(s) = Cardinality(s)
         /\ Syncs!RemoveAt(s, i) = RemoveAt(s, i) /\ Syncs!Last(s) = Last(s)
  BY DEF Syncs!Cardinality, Cardinality, Syncs!IsFiniteSet, IsFiniteSet,
         Syncs!RemoveAt, RemoveAt, Syncs!Last, Last

(* A pass past TakeSlot holds the slot of the tenant it is at.             *)
TenantSlotIsHeld ==
  \A r \in Replicas :
    pass[r].pc \in {"check", "token"} => pass[r].at \in Tenants /\ slot[pass[r].at] = r

OfSweep(js) == {i \in DOMAIN js : js[i].by = "sweep"}

(* Since the check the tenant has no job of a sweep.                       *)
NoneSinceCheck ==
  \A r \in Replicas : pass[r].pc = "token" => OfSweep(jobs[pass[r].at]) = {}

AtMostOne == \A t \in Tenants : \A i, j \in OfSweep(jobs[t]) : i = j

SyncInv == Syncs!TypeOK /\ TenantSlotIsHeld /\ NoneSinceCheck /\ AtMostOne

USE DEF Syncs!counts

-----------------------------------------------------------------------------
(* What a step may do to the jobs: it adds none of a sweep.                *)

(* RemoveAt leaves out one element and keeps the order of the others.      *)
LEMMA Removed ==
  ASSUME NEW S, NEW s \in Seq(S), NEW i \in DOMAIN s
  PROVE  /\ RemoveAt(s, i) \in Seq(S) /\ Len(RemoveAt(s, i)) = Len(s) - 1
         /\ \A k \in DOMAIN RemoveAt(s, i) :
              RemoveAt(s, i)[k] = s[IF k < i THEN k ELSE k + 1]
  <1>1. i \in 1 .. Len(s) /\ Len(s) \in Nat  OBVIOUS
  <1> DEFINE front == SubSeq(s, 1, i - 1)
             back  == SubSeq(s, i + 1, Len(s))
  <1>2. /\ front \in Seq(S) /\ Len(front) = i - 1
        /\ \A k \in 1 .. i - 1 : front[k] = s[k]
    BY <1>1
  <1>3. /\ back \in Seq(S) /\ Len(back) = Len(s) - i
        /\ \A k \in 1 .. Len(s) - i : back[k] = s[k + i]
    BY <1>1
  <1>4. RemoveAt(s, i) = front \o back  BY DEF RemoveAt
  <1> HIDE DEF front, back
  <1>5. /\ front \o back \in Seq(S) /\ Len(front \o back) = Len(s) - 1
        /\ \A k \in 1 .. Len(s) - 1 :
             (front \o back)[k] = IF k <= i - 1 THEN front[k] ELSE back[k - (i - 1)]
    <2>1. Len(front) + Len(back) = Len(s) - 1  BY <1>1, <1>2, <1>3
    <2>2. /\ front \o back \in Seq(S) /\ Len(front \o back) = Len(front) + Len(back)
          /\ \A k \in 1 .. Len(front) + Len(back) :
               (front \o back)[k] = IF k <= Len(front) THEN front[k] ELSE back[k - Len(front)]
      BY <1>2, <1>3, ConcatProperties
    <2> QED  BY <1>2, <2>1, <2>2
  <1>6. ASSUME NEW k \in 1 .. Len(s) - 1
        PROVE  (front \o back)[k] = s[IF k < i THEN k ELSE k + 1]
    <2>1. CASE k < i  BY <1>1, <1>2, <1>5, <2>1
    <2>2. CASE ~(k < i)
      <3>1. k - (i - 1) \in 1 .. Len(s) - i /\ (k - (i - 1)) + i = k + 1  BY <1>1, <2>2
      <3>2. back[k - (i - 1)] = s[k + 1]  BY <1>3, <3>1
      <3>3. (front \o back)[k] = IF k <= i - 1 THEN front[k] ELSE back[k - (i - 1)]  BY <1>5
      <3>4. ~(k <= i - 1)  BY <1>1, <2>2
      <3> QED  BY <2>2, <3>2, <3>3, <3>4
    <2> QED  BY <2>1, <2>2
  <1> DEFINE r == RemoveAt(s, i)
  <1>7. r \in Seq(S) /\ Len(r) = Len(s) - 1 /\ DOMAIN r = 1 .. Len(s) - 1
    BY <1>4, <1>5
  <1>8. \A k \in 1 .. Len(s) - 1 : r[k] = s[IF k < i THEN k ELSE k + 1]
    BY <1>4, <1>6
  <1> QED  BY <1>7, <1>8

(* Job lists in which no sweep has a job that it did not have before.      *)
NoNew(new, old) ==
  \A i, j \in DOMAIN new :
    new[i].by = "sweep" /\ new[j].by = "sweep" =>
      \E k, l \in DOMAIN old :
        old[k].by = "sweep" /\ old[l].by = "sweep" /\ (k = l => i = j)

NoNewJobs ==
  /\ jobs' \in [Tenants -> Seq(Syncs!Job)]
  /\ \A t \in Tenants : NoNew(jobs'[t], jobs[t])

LEMMA NoNewSame == ASSUME NEW s PROVE NoNew(s, s)
  BY DEF NoNew

LEMMA JobChanged ==
  ASSUME NEW s \in Seq(Syncs!Job), NEW i \in DOMAIN s, NEW x \in Syncs!Job, x.by = s[i].by
  PROVE  /\ [s EXCEPT ![i] = x] \in Seq(Syncs!Job) /\ Len([s EXCEPT ![i] = x]) = Len(s)
         /\ NoNew([s EXCEPT ![i] = x], s)
  <1> DEFINE n == [s EXCEPT ![i] = x]
  <1>1. n \in Seq(Syncs!Job) /\ Len(n) = Len(s) /\ DOMAIN n = DOMAIN s  OBVIOUS
  <1>2. \A k \in DOMAIN s : n[k].by = s[k].by  OBVIOUS
  <1> HIDE DEF n
  <1>3. NoNew(n, s)  BY <1>1, <1>2 DEF NoNew
  <1> QED  BY <1>1, <1>3 DEF n

LEMMA JobRemoved ==
  ASSUME NEW s \in Seq(Syncs!Job), NEW i \in DOMAIN s
  PROVE  /\ RemoveAt(s, i) \in Seq(Syncs!Job) /\ Len(RemoveAt(s, i)) < Len(s)
         /\ NoNew(RemoveAt(s, i), s)
  <1> DEFINE n == RemoveAt(s, i)
             old(k) == IF k < i THEN k ELSE k + 1
  <1>1. i \in 1 .. Len(s) /\ Len(s) \in Nat /\ DOMAIN s = 1 .. Len(s)  OBVIOUS
  <1>2. n \in Seq(Syncs!Job) /\ Len(n) = Len(s) - 1 /\ \A k \in DOMAIN n : n[k] = s[old(k)]
    BY Removed
  <1> HIDE DEF n
  <1>3. \A k \in DOMAIN n : old(k) \in DOMAIN s  BY <1>1, <1>2
  <1>4. \A k, l \in DOMAIN n : old(k) = old(l) => k = l  BY <1>1, <1>2
  <1> HIDE DEF old
  <1>5. NoNew(n, s)  BY <1>2, <1>3, <1>4 DEF NoNew
  <1> QED  BY <1>1, <1>2, <1>5 DEF n

LEMMA JobAdded ==
  ASSUME NEW s \in Seq(Syncs!Job), NEW x \in Syncs!Job, x.by # "sweep"
  PROVE  Append(s, x) \in Seq(Syncs!Job) /\ NoNew(Append(s, x), s)
  <1> DEFINE n == Append(s, x)
  <1>1. n \in Seq(Syncs!Job) /\ Len(n) = Len(s) + 1 /\ n[Len(n)] = x /\ Len(s) \in Nat
        /\ \A k \in 1 .. Len(s) : n[k] = s[k]
    OBVIOUS
  <1> HIDE DEF n
  <1>2. \A k \in DOMAIN n : n[k].by = "sweep" => k \in DOMAIN s /\ n[k] = s[k]  BY <1>1
  <1>3. NoNew(n, s)  BY <1>2 DEF NoNew
  <1> QED  BY <1>1, <1>3 DEF n

(* One tenant's list changes, the others stay.                             *)
LEMMA OneListChanged ==
  ASSUME Syncs!TypeOK, NEW t \in Tenants, NEW s \in Seq(Syncs!Job), NoNew(s, jobs[t]),
         jobs' = [jobs EXCEPT ![t] = s]
  PROVE  NoNewJobs
  <1>1. jobs' \in [Tenants -> Seq(Syncs!Job)]  BY DEF Syncs!TypeOK
  <1>2. \A u \in Tenants : jobs'[u] = IF u = t THEN s ELSE jobs[u]  BY DEF Syncs!TypeOK
  <1> QED  BY <1>1, <1>2, NoNewSame DEF NoNewJobs
-----------------------------------------------------------------------------
(* One action at a time.                                                   *)

(* Steps that leave pass and slot as they are: workers, people and time.   *)
LEMMA JobsStep ==
  ASSUME SyncInv, NoNewJobs, UNCHANGED <<slot, pass>>
  PROVE  TenantSlotIsHeld' /\ NoneSinceCheck' /\ AtMostOne'
  <1>1. TenantSlotIsHeld'  BY DEF SyncInv, TenantSlotIsHeld
  <1>2. ASSUME NEW t \in Tenants, OfSweep(jobs[t]) = {}
        PROVE  OfSweep(jobs'[t]) = {}
    BY <1>2 DEF NoNewJobs, NoNew, OfSweep
  <1>3. NoneSinceCheck'
    BY <1>2 DEF SyncInv, NoneSinceCheck, TenantSlotIsHeld
  <1>4. AtMostOne'
    BY DEF SyncInv, AtMostOne, NoNewJobs, NoNew, OfSweep
  <1> QED  BY <1>1, <1>3, <1>4

(* Steps of a pass that leave the jobs as they are.                        *)
LEMMA PassStep ==
  ASSUME Syncs!SweepAssumption, SyncInv, UNCHANGED jobs, NEW r \in Replicas,
         pass' \in [Replicas -> Syncs!Pass], slot' \in [Tenants -> Replicas \cup {Syncs!Nobody}],
         \A q \in Replicas \ {r} : pass'[q] = pass[q],
         \A t \in Tenants : slot[t] \notin {r, Syncs!Nobody} => slot'[t] = slot[t],
         pass'[r].pc \in {"check", "token"} =>
           pass'[r].at \in Tenants /\ slot'[pass'[r].at] = r,
         pass'[r].pc = "token" => jobs[pass'[r].at] = <<>>
  PROVE  TenantSlotIsHeld' /\ NoneSinceCheck' /\ AtMostOne'
  <1>1. ASSUME NEW q \in Replicas, pass'[q].pc \in {"check", "token"}
        PROVE  pass'[q].at \in Tenants /\ slot'[pass'[q].at] = q
    <2>1. CASE q = r  BY <1>1, <2>1
    <2>2. CASE q # r
      <3>1. pass[q].at \in Tenants /\ slot[pass[q].at] = q
        BY <1>1, <2>2 DEF SyncInv, TenantSlotIsHeld
      <3> QED  BY <2>2, <3>1, Syncs!SweepAssumption DEF Syncs!SweepAssumption
    <2> QED  BY <2>1, <2>2
  <1>2. ASSUME NEW q \in Replicas, pass'[q].pc = "token"
        PROVE  OfSweep(jobs'[pass'[q].at]) = {}
    <2>1. CASE q = r  BY <1>2, <2>1 DEF OfSweep
    <2>2. CASE q # r  BY <1>2, <2>2 DEF SyncInv, NoneSinceCheck, OfSweep
    <2> QED  BY <2>1, <2>2
  <1>3. AtMostOne'  BY DEF SyncInv, AtMostOne, OfSweep
  <1> QED  BY <1>1, <1>2, <1>3 DEF TenantSlotIsHeld, NoneSinceCheck

(* Where a pass goes next: Leave and To are moves of one pass.             *)
LEMMA JobMoves ==
  ASSUME Syncs!TypeOK, NEW r \in Replicas, NEW t \in Tenants
  PROVE  /\ Syncs!Leave(r, t) =>
              /\ pass' \in [Replicas -> Syncs!Pass] /\ pass'[r].pc = "next"
              /\ \A q \in Replicas \ {r} : pass'[q] = pass[q]
         /\ \A pc \in {"slot", "check", "token"} :
              Syncs!To(r, t, pc) =>
                /\ pass' \in [Replicas -> Syncs!Pass] /\ pass'[r].pc = pc /\ pass'[r].at = t
                /\ \A q \in Replicas \ {r} : pass'[q] = pass[q]
         /\ Syncs!Free(r, t) =>
              /\ slot' \in [Tenants -> Replicas \cup {Syncs!Nobody}]
              /\ \A u \in Tenants : slot[u] # r => slot'[u] = slot[u]
  <1>1. pass[r] \in Syncs!Pass  BY DEF Syncs!TypeOK
  <1>2. [pc |-> "next", todo |-> pass[r].todo \ {t}, at |-> Syncs!Nobody] \in Syncs!Pass
    BY <1>1 DEF Syncs!Pass
  <1>3. \A pc \in {"slot", "check", "token"} :
          LET p == [pass[r] EXCEPT !.pc = pc, !.at = t]
          IN p \in Syncs!Pass /\ p.pc = pc /\ p.at = t
    BY <1>1 DEF Syncs!Pass
  <1>4. Syncs!Leave(r, t) =>
          /\ pass' \in [Replicas -> Syncs!Pass] /\ pass'[r].pc = "next"
          /\ \A q \in Replicas \ {r} : pass'[q] = pass[q]
    BY <1>2 DEF Syncs!Leave, Syncs!TypeOK
  <1>5. ASSUME NEW pc \in {"slot", "check", "token"}, Syncs!To(r, t, pc)
        PROVE  /\ pass' \in [Replicas -> Syncs!Pass] /\ pass'[r].pc = pc /\ pass'[r].at = t
               /\ \A q \in Replicas \ {r} : pass'[q] = pass[q]
    <2> DEFINE p == [pass[r] EXCEPT !.pc = pc, !.at = t]
    <2>1. pass' = [pass EXCEPT ![r] = p]  BY <1>5 DEF Syncs!To
    <2>2. p \in Syncs!Pass /\ p.pc = pc /\ p.at = t  BY <1>3
    <2> HIDE DEF p
    <2> QED  BY <2>1, <2>2 DEF Syncs!TypeOK
  <1>6. Syncs!Free(r, t) =>
          /\ slot' \in [Tenants -> Replicas \cup {Syncs!Nobody}]
          /\ \A u \in Tenants : slot[u] # r => slot'[u] = slot[u]
    BY DEF Syncs!Free, Syncs!TypeOK
  <1> QED  BY <1>4, <1>5, <1>6

LEMMA SyncInitInd == ASSUME Syncs!SweepAssumption PROVE Syncs!Init => SyncInv
  <1> SUFFICES ASSUME Syncs!Init PROVE SyncInv  OBVIOUS
  <1>1. Syncs!Idle \in Syncs!Pass  BY DEF Syncs!Idle, Syncs!Pass
  <1>2. Syncs!TypeOK  BY <1>1, Syncs!SweepAssumption DEF Syncs!Init, Syncs!TypeOK,
                                                         Syncs!SweepAssumption
  <1>3. \A r \in Replicas : pass[r].pc = "idle"  BY DEF Syncs!Init, Syncs!Idle
  <1>4. \A t \in Tenants : OfSweep(jobs[t]) = {}  BY DEF Syncs!Init, OfSweep
  <1> QED
    BY <1>2, <1>3, <1>4 DEF SyncInv, TenantSlotIsHeld, NoneSinceCheck, AtMostOne

LEMMA SyncPassInd ==
  ASSUME Syncs!SweepAssumption, SyncInv, NEW r \in Replicas, Syncs!Tick(r) \/ Syncs!EndPass(r) \/ Syncs!Crash(r)
  PROVE  SyncInv'
  <1> USE DEF SyncInv
  <1> DEFINE begun == [pc |-> "next", todo |-> Tenants, at |-> Syncs!Nobody]
  <1>1. /\ Syncs!Idle \in Syncs!Pass /\ Syncs!Idle.pc = "idle"
        /\ begun \in Syncs!Pass /\ begun.pc = "next"
    BY DEF Syncs!Idle, Syncs!Pass
  <1>a. pass' = [pass EXCEPT ![r] = Syncs!Idle] \/ pass' = [pass EXCEPT ![r] = begun]
    BY DEF Syncs!Tick, Syncs!EndPass, Syncs!Crash
  <1> HIDE DEF begun
  <1>2. /\ pass' \in [Replicas -> Syncs!Pass] /\ pass'[r].pc \in {"idle", "next"}
        /\ \A q \in Replicas \ {r} : pass'[q] = pass[q]
    BY <1>1, <1>a DEF Syncs!TypeOK
  <1>3. /\ slot' \in [Tenants -> Replicas \cup {Syncs!Nobody}]
        /\ \A t \in Tenants : slot[t] \notin {r, Syncs!Nobody} => slot'[t] = slot[t]
    BY DEF Syncs!Tick, Syncs!EndPass, Syncs!Crash, Syncs!TypeOK
  <1>4. UNCHANGED <<installed, cursor, data, jobs, installs, uninstalls>>
    BY DEF Syncs!Tick, Syncs!EndPass, Syncs!Crash
  <1>5. crashes' \in 0 .. MaxCrashes
    BY Syncs!SweepAssumption
    DEF Syncs!Tick, Syncs!EndPass, Syncs!Crash, Syncs!TypeOK, Syncs!SweepAssumption
  <1>6. Syncs!TypeOK'  BY <1>2, <1>3, <1>4, <1>5 DEF Syncs!TypeOK
  <1>7. TenantSlotIsHeld' /\ NoneSinceCheck' /\ AtMostOne'
    <2>1. pass'[r].pc # "check" /\ pass'[r].pc # "token"  BY <1>2
    <2> QED  BY <1>2, <1>3, <1>4, <2>1, PassStep
  <1> QED  BY <1>6, <1>7

LEMMA SyncLookInd ==
  ASSUME Syncs!SweepAssumption, SyncInv, NEW r \in Replicas, NEW t \in Tenants,
         Syncs!Look(r, t) \/ Syncs!TakeSlot(r, t) \/ Syncs!Check(r, t) \/ Syncs!Skip(r, t)
  PROVE  SyncInv'
  <1> USE DEF SyncInv
  <1>1. UNCHANGED <<installed, cursor, data, jobs, Syncs!counts>>
    BY DEF Syncs!Look, Syncs!TakeSlot, Syncs!Check, Syncs!Skip
  <1>2. Syncs!Leave(r, t) \/ \E pc \in {"slot", "check", "token"} : Syncs!To(r, t, pc)
    BY DEF Syncs!Look, Syncs!TakeSlot, Syncs!Check, Syncs!Skip
  <1>3. /\ pass' \in [Replicas -> Syncs!Pass]
        /\ \A q \in Replicas \ {r} : pass'[q] = pass[q]
    BY <1>2, JobMoves
  <1>4. UNCHANGED slot \/ Syncs!Free(r, t) \/ (slot[t] = Syncs!Nobody /\ slot' = [slot EXCEPT ![t] = r])
    BY DEF Syncs!Look, Syncs!TakeSlot, Syncs!Check, Syncs!Skip
  <1>5. /\ slot' \in [Tenants -> Replicas \cup {Syncs!Nobody}]
        /\ \A u \in Tenants : slot[u] \notin {r, Syncs!Nobody} => slot'[u] = slot[u]
    BY <1>4, JobMoves DEF Syncs!TypeOK
  <1>6. ASSUME pass'[r].pc \in {"check", "token"}
        PROVE  pass'[r].at \in Tenants /\ slot'[pass'[r].at] = r
    <2>1. ~Syncs!Leave(r, t)  BY <1>6, JobMoves
    <2>2. CASE Syncs!TakeSlot(r, t)
      <3>1. slot' = [slot EXCEPT ![t] = r] /\ Syncs!To(r, t, "check")  BY <2>1, <2>2 DEF Syncs!TakeSlot
      <3> QED  BY <3>1, JobMoves DEF Syncs!TypeOK
    <2>3. CASE Syncs!Check(r, t)
      <3>1. UNCHANGED slot /\ Syncs!To(r, t, "token") /\ pass[r].pc = "check" /\ pass[r].at = t
        BY <2>1, <2>3 DEF Syncs!Check
      <3> QED  BY <3>1, JobMoves DEF TenantSlotIsHeld
    <2>4. CASE Syncs!Look(r, t)
      <3>1. Syncs!To(r, t, "slot")  BY <2>1, <2>4 DEF Syncs!Look
      <3> QED  BY <1>6, <3>1, JobMoves
    <2>5. CASE Syncs!Skip(r, t)  BY <2>1, <2>5 DEF Syncs!Skip
    <2> QED  BY <2>2, <2>3, <2>4, <2>5
  <1>7. ASSUME pass'[r].pc = "token"
        PROVE  jobs[pass'[r].at] = <<>>
    <2>1. ~Syncs!Leave(r, t)  BY <1>7, JobMoves
    <2>2. ~Syncs!To(r, t, "slot") /\ ~Syncs!To(r, t, "check")  BY <1>7, JobMoves
    <2>3. Syncs!Check(r, t)  BY <2>1, <2>2 DEF Syncs!Look, Syncs!TakeSlot, Syncs!Skip
    <2>4. ~Syncs!Blocked(t) /\ Syncs!To(r, t, "token")  BY <2>1, <2>3 DEF Syncs!Check
    <2> QED  BY <2>4, JobMoves DEF Syncs!Blocked
  <1>8. Syncs!TypeOK'  BY <1>1, <1>3, <1>5 DEF Syncs!TypeOK
  <1>9. TenantSlotIsHeld' /\ NoneSinceCheck' /\ AtMostOne'
    BY <1>1, <1>3, <1>5, <1>6, <1>7, PassStep
  <1> QED  BY <1>8, <1>9

LEMMA EnqueueInd ==
  ASSUME Syncs!SweepAssumption, SyncInv, NEW r \in Replicas, NEW t \in Tenants, Syncs!Enqueue(r, t)
  PROVE  SyncInv'
  <1> USE DEF SyncInv
  <1>1. /\ pass[r].pc = "token" /\ pass[r].at = t /\ slot[t] = r
        /\ OfSweep(jobs[t]) = {} /\ jobs[t] \in Seq(Syncs!Job)
    BY DEF Syncs!Enqueue, TenantSlotIsHeld, NoneSinceCheck, Syncs!TypeOK
  <1> DEFINE n == Append(jobs[t], Syncs!Queued("sweep"))
  <1>2. Syncs!Queued("sweep") \in Syncs!Job
    BY Syncs!SweepAssumption DEF Syncs!Queued, Syncs!Job, Syncs!SweepAssumption
  <1>3. n \in Seq(Syncs!Job) /\ \A i \in OfSweep(n) : i = Len(n)
    <2>1. n \in Seq(Syncs!Job) /\ Len(n) = Len(jobs[t]) + 1 /\ Len(jobs[t]) \in Nat
          /\ \A i \in 1 .. Len(jobs[t]) : n[i] = jobs[t][i]
      BY <1>1, <1>2
    <2> HIDE DEF n
    <2>2. ASSUME NEW i \in OfSweep(n), i # Len(n) PROVE FALSE
      <3>1. i \in 1 .. Len(jobs[t]) /\ n[i].by = "sweep"  BY <2>1, <2>2 DEF OfSweep
      <3>2. i \in OfSweep(jobs[t])  BY <1>1, <2>1, <3>1 DEF OfSweep
      <3> QED  BY <1>1, <3>2
    <2> QED  BY <2>1, <2>2
  <1>4. jobs' = [jobs EXCEPT ![t] = n]  BY DEF Syncs!Enqueue
  <1> HIDE DEF n
  <1>5. /\ jobs' \in [Tenants -> Seq(Syncs!Job)]
        /\ \A u \in Tenants : jobs'[u] = IF u = t THEN n ELSE jobs[u]
    BY <1>3, <1>4 DEF Syncs!TypeOK
  <1>6. /\ pass' \in [Replicas -> Syncs!Pass] /\ pass'[r].pc = "next"
        /\ \A q \in Replicas \ {r} : pass'[q] = pass[q]
        /\ slot' \in [Tenants -> Replicas \cup {Syncs!Nobody}]
        /\ \A u \in Tenants : slot[u] # r => slot'[u] = slot[u]
    BY JobMoves DEF Syncs!Enqueue
  <1>7. Syncs!TypeOK'  BY <1>5, <1>6 DEF Syncs!Enqueue, Syncs!TypeOK
  <1>8. ASSUME NEW q \in Replicas, pass'[q].pc \in {"check", "token"}
        PROVE  /\ q # r /\ pass'[q] = pass[q] /\ pass[q].at \in Tenants /\ pass[q].at # t
               /\ slot[pass[q].at] = q /\ slot'[pass[q].at] = q
    <2>1. q # r  BY <1>6, <1>8
    <2>2. pass'[q] = pass[q] /\ pass[q].at \in Tenants /\ slot[pass[q].at] = q
      BY <1>6, <1>8, <2>1 DEF TenantSlotIsHeld
    <2> QED  BY <1>1, <1>6, <2>1, <2>2
  <1>9. TenantSlotIsHeld'  BY <1>8 DEF TenantSlotIsHeld
  <1>10. ASSUME NEW q \in Replicas, pass'[q].pc = "token"
         PROVE  OfSweep(jobs'[pass'[q].at]) = {}
    <2>1. pass'[q] = pass[q] /\ pass[q].at \in Tenants /\ pass[q].at # t  BY <1>8, <1>10
    <2>2. OfSweep(jobs[pass[q].at]) = {}  BY <1>10, <2>1 DEF NoneSinceCheck
    <2> QED  BY <1>5, <2>1, <2>2
  <1>11. AtMostOne'  BY <1>3, <1>5 DEF AtMostOne
  <1> QED  BY <1>7, <1>9, <1>10, <1>11 DEF NoneSinceCheck

(* A user's sync, the worker's steps and time: no job of a sweep is added. *)
LEMMA OtherMoves ==
  ASSUME Syncs!SweepAssumption, Syncs!TypeOK, NEW t \in Tenants,
         \/ Syncs!Install(t) \/ Syncs!Uninstall(t) \/ Syncs!GoStale(t)
         \/ \E i \in DOMAIN jobs[t] : Syncs!Work(t, i) \/ Syncs!Age(t, i)
  PROVE  NoNewJobs
  <1>1. jobs[t] \in Seq(Syncs!Job)  BY DEF Syncs!TypeOK
  <1>2. CASE UNCHANGED jobs
    BY <1>2, NoNewSame DEF NoNewJobs, Syncs!TypeOK
  <1>3. CASE jobs' = [jobs EXCEPT ![t] = Append(@, Syncs!Queued("install"))]
    <2>1. Syncs!Queued("install") \in Syncs!Job /\ Syncs!Queued("install").by # "sweep"
      BY Syncs!SweepAssumption DEF Syncs!Queued, Syncs!Job, Syncs!SweepAssumption
    <2>2. jobs' = [jobs EXCEPT ![t] = Append(jobs[t], Syncs!Queued("install"))]  BY <1>3
    <2>3. Append(jobs[t], Syncs!Queued("install")) \in Seq(Syncs!Job)
          /\ NoNew(Append(jobs[t], Syncs!Queued("install")), jobs[t])
      BY <1>1, <2>1, JobAdded
    <2> QED  BY <2>2, <2>3, OneListChanged
  <1>4. ASSUME NEW i \in DOMAIN jobs[t], NEW st \in {"processing", "fetched", "failed"},
               Syncs!Set(t, i, st)
        PROVE  NoNewJobs
    <2> DEFINE x == [jobs[t][i] EXCEPT !.st = st]
    <2>0. jobs[t][i] \in Syncs!Job  BY <1>1
    <2>1. x \in Syncs!Job /\ x.by = jobs[t][i].by  BY <2>0 DEF Syncs!Job
    <2>2. jobs' = [jobs EXCEPT ![t] = [jobs[t] EXCEPT ![i] = x]]  BY <1>4 DEF Syncs!Set
    <2> HIDE DEF x
    <2>3. [jobs[t] EXCEPT ![i] = x] \in Seq(Syncs!Job) /\ NoNew([jobs[t] EXCEPT ![i] = x], jobs[t])
      BY <1>1, <2>1, JobChanged
    <2> QED  BY <2>2, <2>3, OneListChanged
  <1>5. ASSUME NEW i \in DOMAIN jobs[t], Syncs!Again(t, i)
        PROVE  NoNewJobs
    <2> DEFINE x == [jobs[t][i] EXCEPT !.st = "queued", !.tries = jobs[t][i].tries + 1]
    <2>0. jobs[t][i] \in Syncs!Job /\ jobs[t][i].tries + 1 \in 1 .. MaxTries
      <3>1. jobs[t][i] \in Syncs!Job  BY <1>1
      <3>2. jobs[t][i].tries \in 1 .. MaxTries /\ MaxTries \in Nat
        BY <3>1, Syncs!SweepAssumption DEF Syncs!Job, Syncs!SweepAssumption
      <3>3. jobs[t][i].tries < MaxTries  BY <1>5 DEF Syncs!Again
      <3> QED  BY <3>1, <3>2, <3>3
    <2>1. x \in Syncs!Job /\ x.by = jobs[t][i].by  BY <2>0 DEF Syncs!Job
    <2>2. jobs' = [jobs EXCEPT ![t] = [jobs[t] EXCEPT ![i] = x]]  BY <1>5 DEF Syncs!Again
    <2> HIDE DEF x
    <2>3. [jobs[t] EXCEPT ![i] = x] \in Seq(Syncs!Job) /\ NoNew([jobs[t] EXCEPT ![i] = x], jobs[t])
      BY <1>1, <2>1, JobChanged
    <2> QED  BY <2>2, <2>3, OneListChanged
  <1>6. ASSUME NEW i \in DOMAIN jobs[t], jobs' = [jobs EXCEPT ![t] = RemoveAt(@, i)]
        PROVE  NoNewJobs
    <2>1. jobs' = [jobs EXCEPT ![t] = RemoveAt(jobs[t], i)]  BY <1>6
    <2>2. RemoveAt(jobs[t], i) \in Seq(Syncs!Job) /\ NoNew(RemoveAt(jobs[t], i), jobs[t])
      BY <1>1, JobRemoved
    <2> QED  BY <2>1, <2>2, OneListChanged
  <1>7. CASE Syncs!Install(t) \/ Syncs!Uninstall(t) \/ Syncs!GoStale(t)
    BY <1>2, <1>3, <1>7 DEF Syncs!Install, Syncs!Uninstall, Syncs!GoStale
  <1>8. ASSUME NEW i \in DOMAIN jobs[t], Syncs!Work(t, i) \/ Syncs!Age(t, i)
        PROVE  NoNewJobs
    BY <1>4, <1>5, <1>6, <1>8, SameOps
    DEF Syncs!Work, Syncs!Age, Syncs!Claim, Syncs!Fetch, Syncs!Store, Syncs!Fail
  <1> QED  BY <1>7, <1>8

LEMMA OtherInd ==
  ASSUME Syncs!SweepAssumption, SyncInv, NEW t \in Tenants,
         \/ Syncs!Install(t) \/ Syncs!Uninstall(t) \/ Syncs!GoStale(t)
         \/ \E i \in DOMAIN jobs[t] : Syncs!Work(t, i) \/ Syncs!Age(t, i)
  PROVE  SyncInv'
  <1> USE DEF SyncInv
  <1>1. NoNewJobs  BY OtherMoves
  <1>2. UNCHANGED <<slot, pass, crashes>>
    BY DEF Syncs!Install, Syncs!Uninstall, Syncs!GoStale, Syncs!Work, Syncs!Claim, Syncs!Fetch,
           Syncs!Store, Syncs!Fail, Syncs!Again, Syncs!Age
  <1>3. /\ installed' \subseteq Tenants /\ data' \subseteq Tenants
        /\ cursor' \in [Tenants -> {"none", "stale", "fresh"}]
    BY DEF Syncs!Install, Syncs!Uninstall, Syncs!GoStale, Syncs!Work, Syncs!Claim, Syncs!Fetch,
           Syncs!Store, Syncs!Fail, Syncs!Again, Syncs!Age, Syncs!TypeOK
  <1>4. installs' \in 0 .. MaxInstalls /\ uninstalls' \in 0 .. MaxUninstalls
    <2>1. /\ MaxInstalls \in Nat /\ MaxUninstalls \in Nat
          /\ installs \in 0 .. MaxInstalls /\ uninstalls \in 0 .. MaxUninstalls
      BY Syncs!SweepAssumption DEF Syncs!SweepAssumption, Syncs!TypeOK
    <2>2. CASE Syncs!Install(t)  BY <2>1, <2>2 DEF Syncs!Install
    <2>3. CASE Syncs!Uninstall(t)  BY <2>1, <2>3 DEF Syncs!Uninstall
    <2>4. CASE UNCHANGED Syncs!counts  BY <2>1, <2>4
    <2> QED  BY <2>2, <2>3, <2>4 DEF Syncs!GoStale, Syncs!Work, Syncs!Claim, Syncs!Fetch,
                                     Syncs!Store, Syncs!Fail, Syncs!Again, Syncs!Age
  <1>5. Syncs!TypeOK'  BY <1>1, <1>2, <1>3, <1>4 DEF Syncs!TypeOK, NoNewJobs
  <1> QED  BY <1>1, <1>2, <1>5, JobsStep

LEMMA SyncNextInd == ASSUME Syncs!SweepAssumption PROVE SyncInv /\ [Syncs!Next]_Syncs!vars => SyncInv'
  <1> SUFFICES ASSUME SyncInv, [Syncs!Next]_Syncs!vars PROVE SyncInv'  OBVIOUS
  <1>1. CASE UNCHANGED Syncs!vars
    BY <1>1 DEF Syncs!vars, SyncInv, Syncs!TypeOK, TenantSlotIsHeld, NoneSinceCheck, AtMostOne
  <1>2. ASSUME NEW r \in Replicas, Syncs!Tick(r) \/ Syncs!EndPass(r) \/ Syncs!Crash(r) PROVE SyncInv'
    BY <1>2, SyncPassInd
  <1>3. ASSUME NEW r \in Replicas, NEW t \in Tenants, Syncs!Step(r, t) PROVE SyncInv'
    BY <1>3, SyncLookInd, EnqueueInd DEF Syncs!Step
  <1>4. ASSUME NEW t \in Tenants,
               \/ Syncs!Install(t) \/ Syncs!Uninstall(t) \/ Syncs!GoStale(t)
               \/ \E i \in DOMAIN jobs[t] : Syncs!Work(t, i) \/ Syncs!Age(t, i)
        PROVE  SyncInv'
    BY <1>4, OtherInd
  <1> QED  BY <1>1, <1>2, <1>3, <1>4 DEF Syncs!Next

THEOREM SyncInvariance == ASSUME Syncs!SweepAssumption PROVE Syncs!Spec => []SyncInv
  BY SyncInitInd, SyncNextInd, PTL DEF Syncs!Spec

-----------------------------------------------------------------------------
(* What follows.                                                           *)

(* The tables, slots and passes hold what they should, whatever happens.   *)
THEOREM SyncTypes == ASSUME Syncs!SweepAssumption PROVE Syncs!Spec => []Syncs!TypeOK
  <1>1. SyncInv => Syncs!TypeOK  BY DEF SyncInv
  <1> QED  BY <1>1, SyncInvariance, PTL

(* With any number of replicas, crashes and syncs by hand, the sweeps have *)
(* at most one job of a tenant under way (sweep_lock.py).                  *)
THEOREM OneJob == ASSUME Syncs!SweepAssumption PROVE Syncs!Spec => []Syncs!OneSweepJob
  <1>1. ASSUME SyncInv PROVE Syncs!OneSweepJob
    <2> SUFFICES ASSUME NEW t \in Tenants
                 PROVE  Cardinality({i \in DOMAIN jobs[t] : jobs[t][i].by = "sweep"
                                                             /\ Syncs!Active(jobs[t][i])}) <= 1
      BY SameOps DEF Syncs!OneSweepJob
    <2> DEFINE S == {i \in DOMAIN jobs[t] : jobs[t][i].by = "sweep" /\ Syncs!Active(jobs[t][i])}
    <2>1. \A i, j \in S : i = j  BY <1>1 DEF SyncInv, AtMostOne, OfSweep
    <2>2. CASE S = {}  BY <2>2, FS_EmptySet
    <2>3. CASE S # {}
      <3>1. PICK i \in S : TRUE  BY <2>3
      <3>2. S = {i}  BY <2>1, <3>1
      <3>3. Cardinality({i}) = 1  BY FS_Singleton
      <3> HIDE DEF S
      <3>4. Cardinality(S) <= 1  BY <3>2, <3>3
      <3> QED  BY <3>4 DEF S
    <2> QED  BY <2>2, <2>3
  <1> QED  BY <1>1, SyncInvariance, PTL

(* The step that enqueues for a sweep finds no failure of a sweep that is  *)
(* younger than the window (gap_heal_sweep.py and its twin).               *)
THEOREM SweepsWait == ASSUME Syncs!SweepAssumption PROVE Syncs!Spec => Syncs!FailuresWait
  <1>1. ASSUME SyncInv, [Syncs!Next]_Syncs!vars PROVE [Syncs!WaitsAfterFailure]_Syncs!vars
    <2> SUFFICES ASSUME NEW t \in Tenants, Len(jobs'[t]) > Len(jobs[t]),
                        Last(jobs'[t]).by = "sweep",
                        NEW i \in DOMAIN jobs[t], jobs[t][i].by = "sweep"
                 PROVE  FALSE
      BY SameOps DEF Syncs!WaitsAfterFailure
    <2>1. jobs[t] \in Seq(Syncs!Job) /\ Len(jobs[t]) \in Nat  BY <1>1 DEF SyncInv, Syncs!TypeOK
    <2>2. jobs'[t] # jobs[t]  BY <2>1
    <2>3. CASE \E r \in Replicas : Syncs!Enqueue(r, t)
      BY <1>1, <2>3 DEF SyncInv, Syncs!Enqueue, NoneSinceCheck, OfSweep
    <2>4. CASE Syncs!Install(t)
      <3>1. jobs'[t] = Append(jobs[t], Syncs!Queued("install"))
        BY <1>1, <2>2, <2>4 DEF Syncs!Install, SyncInv, Syncs!TypeOK
      <3>2. Last(jobs'[t]) = Syncs!Queued("install")  BY <2>1, <3>1 DEF Last
      <3> QED  BY <3>2 DEF Syncs!Queued
    <2>5. ASSUME NEW u \in Tenants, NEW k \in DOMAIN jobs[u], Syncs!Work(u, k) \/ Syncs!Age(u, k)
          PROVE  FALSE
      <3>1. u = t /\ k \in DOMAIN jobs[t]
        BY <1>1, <2>2, <2>5
        DEF SyncInv, Syncs!TypeOK, Syncs!Work, Syncs!Claim, Syncs!Set, Syncs!Fetch, Syncs!Store,
            Syncs!Fail, Syncs!Again, Syncs!Age
      <3>2. CASE jobs'[t] = RemoveAt(jobs[t], k)
        BY <2>1, <3>1, <3>2, JobRemoved
      <3>3. CASE Len(jobs'[t]) = Len(jobs[t])  BY <2>1, <3>3
      <3>4. \/ jobs'[t] = RemoveAt(jobs[t], k)
            \/ Len(jobs'[t]) = Len(jobs[t])
        BY <1>1, <2>1, <2>5, <3>1, SameOps
        DEF SyncInv, Syncs!TypeOK, Syncs!Work, Syncs!Claim, Syncs!Set, Syncs!Fetch, Syncs!Store,
            Syncs!Fail,
             Syncs!Again, Syncs!Age
      <3> QED  BY <3>2, <3>3, <3>4
    <2>6. CASE UNCHANGED jobs  BY <2>2, <2>6
    <2>7. ASSUME NEW u \in Tenants \ {t}, Syncs!Install(u) \/ \E r \in Replicas : Syncs!Enqueue(r, u)
          PROVE  FALSE
      BY <1>1, <2>2, <2>7 DEF SyncInv, Syncs!TypeOK, Syncs!Install, Syncs!Enqueue
    <2> QED
      BY <1>1, <2>3, <2>4, <2>5, <2>6, <2>7
      DEF Syncs!Next, Syncs!vars, Syncs!Tick, Syncs!EndPass, Syncs!Crash, Syncs!Step,
          Syncs!Look, Syncs!TakeSlot, Syncs!Check, Syncs!Skip, Syncs!Uninstall, Syncs!GoStale
  <1> QED  BY <1>1, SyncInvariance, PTL DEF Syncs!Spec, Syncs!FailuresWait

-----------------------------------------------------------------------------
(* ConfigCache: what get_config returns, for any processes, threads,       *)
(* values and lifetime of the copies.                                      *)

(* v is the setting, or was until t at least.                              *)
Since(v, t) == v = Config!Setting \/ until[v] >= t

Readings ==
  [pc : {"done", "read", "store", "known"}, asked : 0 .. clock, got : Values,
   how : {"none", "hit", "read", "known", "default", "raised"}]

CopyTypes ==
  /\ clock \in 0 .. MaxTime
  /\ row \in Values \cup {Config!NoRow}
  /\ copy \in [Processes -> {Config!NoCopy} \cup [val : Values, ts : 0 .. clock]]
  /\ readers \in [Readers -> Readings]
  /\ writing \subseteq Writers
  /\ until \in [Values -> -1 .. clock]

(* The time in a copy is that of a moment before its value was read.       *)
CopiesSince == \A p \in Processes : copy[p] = Config!NoCopy \/ Since(copy[p].val, copy[p].ts)

(* So is the time of a reader that holds what it has read.                 *)
ReadSince == \A r \in Readers : Config!At(r, "store") => Since(readers[r].got, readers[r].asked)

ConfigInv == CopyTypes /\ CopiesSince /\ ReadSince /\ Config!RecentValue

(* The setting has a value, and a copy is a pair only if there is one.     *)
LEMMA SettingIsValue == ASSUME Config!ConfigAssumption, CopyTypes PROVE Config!Setting \in Values
  BY DEF Config!ConfigAssumption, CopyTypes, Config!Setting

(* A commit makes no value older: the one it replaces was the setting      *)
(* until now.                                                              *)
LEMMA CommitKeepsSince ==
  ASSUME Config!ConfigAssumption, CopyTypes, NEW v \in Values, Config!Commit(v), NEW x \in Values,
         NEW t \in 0 .. clock, Since(x, t)
  PROVE  Since(x, t)'
  <1>1. Config!Setting \in Values  BY SettingIsValue
  <1>2. CASE v = Config!Setting
    <2>1. Config!Setting' = Config!Setting /\ until' = until
      BY <1>2 DEF Config!Commit, Config!Setting
    <2> QED  BY <2>1 DEF Since
  <1>3. CASE v # Config!Setting
    <2>1. until' = [until EXCEPT ![Config!Setting] = clock]  BY <1>3 DEF Config!Commit
    <2>2. CASE x = Config!Setting
      BY <1>1, <2>1, <2>2 DEF Since, CopyTypes, Config!ConfigAssumption
    <2>3. CASE x # Config!Setting
      BY <1>1, <2>1, <2>3 DEF Since, CopyTypes, Config!ConfigAssumption
    <2> QED  BY <2>2, <2>3
  <1> QED  BY <1>2, <1>3

(* The first states: nothing was read or copied.                           *)
LEMMA ConfigInit == ASSUME Config!ConfigAssumption, Config!Init PROVE ConfigInv
  <1>1. CopyTypes
    <2>1. clock = 0 /\ clock \in 0 .. MaxTime  BY DEF Config!ConfigAssumption, Config!Init
    <2>2. readers \in [Readers -> Readings]  BY <2>1 DEF Config!ConfigAssumption, Config!Init,
                                                         Readings
    <2> QED  BY <2>1, <2>2 DEF Config!Init, CopyTypes, Config!Never
  <1>2. CopiesSince /\ ReadSince /\ Config!RecentValue
    BY DEF Config!Init, CopiesSince, ReadSince, Config!RecentValue, Config!At
  <1> QED  BY <1>1, <1>2 DEF ConfigInv

(* One step: the time of a copy is the asking, the reading is after it.    *)
LEMMA ConfigNext == ASSUME Config!ConfigAssumption, ConfigInv, [Config!Next]_Config!cvars PROVE ConfigInv'
  <1> USE DEF Config!ConfigAssumption
  <1>0. /\ CopyTypes /\ CopiesSince /\ ReadSince /\ Config!RecentValue
        /\ Config!Setting \in Values /\ clock \in Nat
    BY SettingIsValue DEF ConfigInv, CopyTypes
  <1>1. ASSUME NEW r \in Readers, Config!Ask(r) PROVE ConfigInv'
    <2>1. UNCHANGED <<row, copy, writing, clock, until>> /\ Config!Setting' = Config!Setting
      BY <1>1 DEF Config!Ask, Config!Setting
    <2>2. PICK n \in Readings :
            /\ readers' = [readers EXCEPT ![r] = n]
            /\ n.pc # "store"
            /\ n.how \in {"hit", "read"} => n.got = Config!Setting \/ until[n.got] > n.asked - Ttl
      <3>1. Home[r] \in Processes  BY <1>1
      <3>2. CASE Config!Fresh(Config!CopyOf(r), clock)
        <4> DEFINE n == [pc |-> "done", asked |-> clock, got |-> Config!CopyOf(r).val, how |-> "hit"]
        <4>1. Config!CopyOf(r) \in [val : Values, ts : 0 .. clock] /\ clock - Config!CopyOf(r).ts < Ttl
          BY <1>0, <3>1, <3>2 DEF Config!Fresh, Config!CopyOf, CopyTypes
        <4>2. Since(Config!CopyOf(r).val, Config!CopyOf(r).ts)
          BY <1>0, <3>1, <3>2 DEF Config!Fresh, Config!CopyOf, CopiesSince
        <4>3. readers' = [readers EXCEPT ![r] = n]  BY <1>1, <3>2 DEF Config!Ask
        <4>4. n \in Readings /\ n.pc = "done" /\ n.got = Config!CopyOf(r).val /\ n.asked = clock
          BY <1>0, <4>1 DEF Readings
        <4>5. n.got = Config!Setting \/ until[n.got] > n.asked - Ttl
          BY <1>0, <4>1, <4>2, <4>4 DEF Since, CopyTypes
        <4> HIDE DEF n
        <4> QED  BY <4>3, <4>4, <4>5
      <3>3. CASE ~ Config!Fresh(Config!CopyOf(r), clock)
        <4> DEFINE n == [pc |-> "read", asked |-> clock, got |-> Default, how |-> "none"]
        <4>1. n \in Readings  BY <1>0 DEF Readings
        <4>2. readers' = [readers EXCEPT ![r] = n]  BY <1>1, <3>3 DEF Config!Ask
        <4> QED  BY <4>1, <4>2
      <3> QED  BY <3>2, <3>3
    <2>3. CopyTypes'  BY <1>0, <2>1, <2>2 DEF CopyTypes, Readings
    <2>4. CopiesSince'  BY <1>0, <2>1 DEF CopiesSince, Since
    <2>5. ReadSince'  BY <1>0, <2>1, <2>2 DEF ReadSince, Since, Config!At, CopyTypes
    <2>6. Config!RecentValue'  BY <1>0, <2>1, <2>2 DEF Config!RecentValue, CopyTypes
    <2> QED  BY <2>3, <2>4, <2>5, <2>6 DEF ConfigInv
  <1>2. ASSUME NEW r \in Readers, Config!Read(r) PROVE ConfigInv'
    <2>1. /\ UNCHANGED <<row, copy, writing, clock, until>> /\ Config!Setting' = Config!Setting
          /\ readers' = [readers EXCEPT ![r].pc = "store", ![r].got = Config!Setting]
      BY <1>2 DEF Config!Read, Config!Setting
    <2>2. CopyTypes'  BY <1>0, <2>1 DEF CopyTypes, Readings
    <2>3. CopiesSince'  BY <1>0, <2>1 DEF CopiesSince, Since
    <2>4. ReadSince'  BY <1>0, <2>1 DEF ReadSince, Since, Config!At, CopyTypes
    <2>5. Config!RecentValue'  BY <1>0, <2>1 DEF Config!RecentValue, CopyTypes, Readings
    <2> QED  BY <2>2, <2>3, <2>4, <2>5 DEF ConfigInv
  <1>3. ASSUME NEW r \in Readers, Config!Store(r) PROVE ConfigInv'
    <2>1. /\ UNCHANGED <<row, writing, clock, until>> /\ Config!Setting' = Config!Setting
          /\ readers' = [readers EXCEPT ![r].pc = "done", ![r].how = "read"]
          /\ copy' = [copy EXCEPT ![Home[r]] = [val |-> readers[r].got, ts |-> readers[r].asked]]
          /\ Config!At(r, "store") /\ Home[r] \in Processes
      BY <1>0, <1>3
      DEF Config!Store, Config!Setting, Config!Returns, Config!Entry, CopyTypes, Readings
    <2>2. readers[r] \in Readings /\ Since(readers[r].got, readers[r].asked)
      BY <1>0, <2>1 DEF ReadSince, CopyTypes
    <2>3. CopyTypes'  BY <1>0, <2>1, <2>2 DEF CopyTypes, Readings
    <2>4. CopiesSince'
      <3> SUFFICES ASSUME NEW p \in Processes PROVE (copy[p] = Config!NoCopy \/ Since(copy[p].val, copy[p].ts))'
        BY DEF CopiesSince
      <3>1. CASE p = Home[r]
        BY <1>0, <2>1, <2>2, <3>1 DEF Since, CopyTypes
      <3>2. CASE p # Home[r]
        BY <1>0, <2>1, <3>2 DEF Since, CopyTypes, CopiesSince
      <3> QED  BY <3>1, <3>2
    <2>5. ReadSince'  BY <1>0, <2>1 DEF ReadSince, Since, Config!At, CopyTypes
    <2>6. Config!RecentValue'  BY <1>0, <2>1, <2>2 DEF Config!RecentValue, Since, CopyTypes,
                                                       Readings
    <2> QED  BY <2>3, <2>4, <2>5, <2>6 DEF ConfigInv
  <1>4. ASSUME NEW r \in Readers, Config!ReadFails(r) \/ Config!ServeKnown(r) PROVE ConfigInv'
    <2>0. Home[r] \in Processes /\ readers[r] \in Readings
      BY <1>0, <1>4 DEF CopyTypes
    <2>1. UNCHANGED <<row, writing, clock, until>> /\ Config!Setting' = Config!Setting /\ copy' = copy
      BY <1>0, <1>4, <2>0
      DEF Config!ReadFails, Config!ServeKnown, Config!Setting, Config!Served, CopyTypes,
          Config!CopyOf
    <2>2. PICK pc \in {"done", "known"}, val \in Values, how \in {"none", "hit", "read", "known", "default", "raised"} :
            /\ readers' = [readers EXCEPT ![r].pc = pc, ![r].got = val, ![r].how = how]
            /\ how \in {"hit", "read"} => val = readers[r].got /\ how = readers[r].how
      <3>1. CASE Config!CopyOf(r) = Config!NoCopy
        BY <1>0, <1>4, <2>0, <3>1 DEF Config!ReadFails, Config!ServeKnown, Config!Returns
      <3>2. CASE Config!ReadFails(r) /\ Config!CopyOf(r) # Config!NoCopy
        <4>1. readers' = [readers EXCEPT ![r].pc = "known"]  BY <3>2 DEF Config!ReadFails
        <4>2. readers' = [readers EXCEPT ![r].pc = "known", ![r].got = readers[r].got, ![r].how = readers[r].how]
          BY <1>0, <2>0, <4>1 DEF CopyTypes, Readings
        <4> QED  BY <2>0, <4>2 DEF Readings
      <3>3. CASE Config!ServeKnown(r) /\ Config!CopyOf(r) # Config!NoCopy
        <4>1. Config!CopyOf(r).val \in Values  BY <1>0, <2>0, <3>3 DEF Config!CopyOf, CopyTypes
        <4> QED  BY <3>3, <4>1 DEF Config!ServeKnown, Config!Returns
      <3> QED  BY <1>4, <3>1, <3>2, <3>3
    <2>3. CopyTypes'
      <3>1. Readings' = Readings /\ readers \in [Readers -> Readings]  BY <1>0, <2>1 DEF CopyTypes,
                                                                                         Readings
      <3>2. readers' \in [Readers -> Readings]
        <4>1. [readers[r] EXCEPT !.pc = pc, !.got = val, !.how = how] \in Readings
          BY <2>0 DEF Readings
        <4> QED  BY <2>2, <3>1, <4>1
      <3> QED  BY <1>0, <2>1, <3>1, <3>2 DEF CopyTypes
    <2>4. CopiesSince'  BY <1>0, <2>1 DEF CopiesSince, Since
    <2>5. ReadSince'  BY <1>0, <2>1, <2>2 DEF ReadSince, Since, Config!At, CopyTypes
    <2>6. Config!RecentValue'  BY <1>0, <1>4, <2>1, <2>2 DEF Config!RecentValue, CopyTypes
    <2> QED  BY <2>3, <2>4, <2>5, <2>6 DEF ConfigInv
  <1>5. ASSUME NEW w \in Writers, Config!Put(w) PROVE ConfigInv'
    <2>1. PICK v \in Values : Config!Commit(v)  BY <1>5 DEF Config!Put
    <2>2. UNCHANGED <<copy, readers, clock>> /\ writing' = writing \cup {w}  BY <1>5 DEF Config!Put
    <2>3. CopyTypes'  BY <1>0, <1>5, <2>1, <2>2 DEF CopyTypes, Config!Commit, Readings
    <2>4. CopiesSince'
      <3> SUFFICES ASSUME NEW p \in Processes, copy[p] # Config!NoCopy PROVE Since(copy[p].val, copy[p].ts)'
        BY <2>2 DEF CopiesSince
      <3>1. copy[p] \in [val : Values, ts : 0 .. clock] /\ Since(copy[p].val, copy[p].ts)
        BY <1>0 DEF CopyTypes, CopiesSince
      <3> DEFINE x == copy[p].val
                 t == copy[p].ts
      <3>2. x \in Values /\ t \in 0 .. clock /\ Since(x, t)  BY <3>1
      <3>3. x' = x /\ t' = t  BY <2>2
      <3> QED  BY <1>0, <2>1, <3>2, <3>3, CommitKeepsSince DEF Since
    <2>5. ReadSince'
      <3> SUFFICES ASSUME NEW r \in Readers, Config!At(r, "store") PROVE Since(readers[r].got, readers[r].asked)'
        BY <2>2 DEF ReadSince, Config!At
      <3> DEFINE x == readers[r].got
                 t == readers[r].asked
      <3>1. x \in Values /\ t \in 0 .. clock /\ Since(x, t)
        BY <1>0 DEF CopyTypes, Readings, ReadSince
      <3>2. x' = x /\ t' = t  BY <2>2
      <3> QED  BY <1>0, <2>1, <3>1, <3>2, CommitKeepsSince DEF Since
    <2>6. Config!RecentValue'
      <3> SUFFICES ASSUME NEW r \in Readers, readers[r].how \in {"hit", "read"}
                   PROVE  (readers[r].got = Config!Setting \/ until[readers[r].got] > readers[r].asked - Ttl)'
        BY <2>2 DEF Config!RecentValue
      <3>1. /\ readers[r].got \in Values /\ readers[r].asked \in 0 .. clock
            /\ readers[r].got = Config!Setting \/ until[readers[r].got] > readers[r].asked - Ttl
        BY <1>0 DEF CopyTypes, Readings, Config!RecentValue
      <3>2. CASE readers[r].got = Config!Setting
        <4>1. Since(readers[r].got, clock)  BY <3>2 DEF Since
        <4>2. Since(readers[r].got, clock)'
          <5> DEFINE x == readers[r].got
                     t == clock
          <5>1. x \in Values /\ t \in 0 .. clock /\ Since(x, t)  BY <1>0, <3>1, <4>1
          <5>2. x' = x /\ t' = t  BY <2>2
          <5> QED  BY <1>0, <2>1, <5>1, <5>2, CommitKeepsSince DEF Since
        <4> QED  BY <1>0, <2>2, <2>3, <3>1, <4>2 DEF Since, CopyTypes
      <3>3. CASE readers[r].got # Config!Setting
        BY <1>0, <2>1, <2>2, <3>1, <3>3 DEF Config!Commit, CopyTypes
      <3> QED  BY <3>2, <3>3
    <2> QED  BY <2>3, <2>4, <2>5, <2>6 DEF ConfigInv
  <1>6. ASSUME NEW w \in Writers, Config!PutEnds(w) PROVE ConfigInv'
    <2>1. /\ UNCHANGED <<row, readers, clock, until>> /\ Config!Setting' = Config!Setting
          /\ copy' = [copy EXCEPT ![Home[w]] = Config!NoCopy] /\ writing' = writing \ {w}
      BY <1>6 DEF Config!PutEnds, Config!Invalidate, Config!Setting
    <2>2. CopyTypes'  BY <1>0, <2>1 DEF CopyTypes, Readings
    <2>3. CopiesSince'  BY <1>0, <2>1 DEF CopiesSince, Since, CopyTypes
    <2>4. ReadSince'  BY <1>0, <2>1 DEF ReadSince, Since, Config!At
    <2>5. Config!RecentValue'  BY <1>0, <2>1 DEF Config!RecentValue
    <2> QED  BY <2>2, <2>3, <2>4, <2>5 DEF ConfigInv
  <1>7. ASSUME Config!Tick PROVE ConfigInv'
    <2>1. UNCHANGED <<row, copy, readers, writing, until>> /\ Config!Setting' = Config!Setting
          /\ clock' = clock + 1 /\ clock < MaxTime
      BY <1>7 DEF Config!Tick, Config!Setting
    <2>2. CopyTypes'
      <3>1. 0 .. clock \subseteq 0 .. clock' /\ -1 .. clock \subseteq -1 .. clock' /\ clock' \in 0 .. MaxTime
        BY <1>0, <2>1 DEF CopyTypes
      <3>2. Readings \subseteq Readings'  BY <3>1 DEF Readings
      <3> QED  BY <1>0, <2>1, <3>1, <3>2 DEF CopyTypes
    <2>3. CopiesSince'  BY <1>0, <2>1 DEF CopiesSince, Since
    <2>4. ReadSince'  BY <1>0, <2>1 DEF ReadSince, Since, Config!At
    <2>5. Config!RecentValue'  BY <1>0, <2>1 DEF Config!RecentValue
    <2> QED  BY <2>2, <2>3, <2>4, <2>5 DEF ConfigInv
  <1>8. ASSUME UNCHANGED Config!cvars PROVE ConfigInv'
    BY <1>0, <1>8
    DEF Config!cvars, ConfigInv, CopyTypes, Readings, CopiesSince, ReadSince,
        Config!RecentValue, Since, Config!Setting, Config!At
  <1> QED  BY <1>1, <1>2, <1>3, <1>4, <1>5, <1>6, <1>7, <1>8 DEF Config!Next

(* The invariant holds in every state.                                     *)
LEMMA ConfigInvariant == ASSUME Config!ConfigAssumption PROVE Config!Spec => []ConfigInv
  <1>1. Config!Init => ConfigInv  BY ConfigInit
  <1>2. ConfigInv /\ [Config!Next]_Config!cvars => ConfigInv'  BY ConfigNext
  <1> QED  BY <1>1, <1>2, PTL DEF Config!Spec

(* Every variable keeps values of its type: copies and readings are never  *)
(* from the future.                                                        *)
THEOREM ConfigTypes == ASSUME Config!ConfigAssumption PROVE Config!Spec => []Config!ConfigTypeOK
  <1>1. ConfigInv => Config!ConfigTypeOK
    BY DEF ConfigInv, CopyTypes, Readings, Config!ConfigTypeOK, Config!ConfigAssumption
  <1> QED  BY <1>1, ConfigInvariant, PTL

(* get_config returns, while the database answers, what was the setting    *)
(* less than _TTL before it was asked, or later: whatever the processes,   *)
(* threads and PUTs, and however long a SELECT takes.                      *)
THEOREM ReadsAreRecent == ASSUME Config!ConfigAssumption PROVE Config!Spec => []Config!RecentValue
  <1>1. ConfigInv => Config!RecentValue  BY DEF ConfigInv
  <1> QED  BY <1>1, ConfigInvariant, PTL

(* In an API of one process, once its PUTs have invalidated, the copy is   *)
(* the setting, unless a reader overlapped a PUT.                          *)
THEOREM CopyFollows ==
  ASSUME Config!ConfigAssumption, \A p, q \in Processes : p = q
  PROVE  Config!Spec => []Config!CopyFollowsPuts
  <1>1. Config!Init => Config!CopyFollowsPuts  BY DEF Config!Init, Config!CopyFollowsPuts
  <1>2. ConfigInv /\ Config!CopyFollowsPuts /\ [Config!Next]_Config!cvars => Config!CopyFollowsPuts'
    <2> SUFFICES ASSUME ConfigInv, Config!CopyFollowsPuts, [Config!Next]_Config!cvars PROVE Config!CopyFollowsPuts'  OBVIOUS
    <2> USE DEF Config!ConfigAssumption
    <2>0. CopyTypes  BY DEF ConfigInv
    <2>1. ASSUME NEW r \in Readers, Config!Ask(r) \/ Config!Read(r) \/ Config!ReadFails(r) PROVE Config!CopyFollowsPuts'
      BY <2>1 DEF Config!Ask, Config!Read, Config!ReadFails, Config!CopyFollowsPuts, Config!Setting
    <2>2. ASSUME NEW r \in Readers, Config!ServeKnown(r) PROVE Config!CopyFollowsPuts'
      <3>1. copy' = copy  BY <2>0, <2>2 DEF Config!ServeKnown, Config!Served, CopyTypes
      <3> QED  BY <2>2, <3>1 DEF Config!ServeKnown, Config!CopyFollowsPuts, Config!Setting
    <2>3. ASSUME NEW r \in Readers, Config!Store(r) PROVE Config!CopyFollowsPuts'
      <3>1. Config!Setting' = Config!Setting /\ writing' = writing /\ Home[r] \in Processes
        BY <2>3 DEF Config!Store, Config!Setting
      <3>2. copy' = [copy EXCEPT ![Home[r]] = [val |-> readers[r].got, ts |-> readers[r].asked]]
        BY <2>3 DEF Config!Store, Config!Entry
      <3>3. raced' = IF readers[r].got = Config!Setting THEN raced \ {Home[r]} ELSE raced \cup {Home[r]}
        BY <2>3 DEF Config!Store
      <3> QED  BY <2>0, <3>1, <3>2, <3>3 DEF Config!CopyFollowsPuts, CopyTypes
    <2>4. ASSUME NEW w \in Writers, Config!Put(w) PROVE Config!CopyFollowsPuts'
      BY <2>4 DEF Config!Put, Config!CopyFollowsPuts
    <2>5. ASSUME NEW w \in Writers, Config!PutEnds(w) PROVE Config!CopyFollowsPuts'
      <3>1. \A p \in Processes : copy'[p] = Config!NoCopy
        BY <2>0, <2>5 DEF Config!PutEnds, Config!Invalidate, CopyTypes
      <3> QED  BY <3>1 DEF Config!CopyFollowsPuts
    <2>6. CASE Config!Tick  BY <2>6 DEF Config!Tick, Config!CopyFollowsPuts, Config!Setting
    <2>7. CASE UNCHANGED Config!cvars  BY <2>7 DEF Config!cvars, Config!CopyFollowsPuts,
                                                   Config!Setting
    <2> QED  BY <2>1, <2>2, <2>3, <2>4, <2>5, <2>6, <2>7 DEF Config!Next
  <1> QED  BY <1>1, <1>2, ConfigInvariant, PTL DEF Config!Spec

(* What both say together, with any number of processes: this is what the  *)
(* sweeps rely on when they read whether they are enabled.                 *)
THEOREM SettingsFollow ==
  ASSUME Config!ConfigAssumption
  PROVE  Config!Spec => []Config!SettingsAreRecent
  <1>1. CASE \A p, q \in Processes : p = q
    <2>1. Config!RecentValue /\ Config!CopyFollowsPuts => Config!SettingsAreRecent
      BY DEF Config!SettingsAreRecent
    <2> QED  BY <1>1, <2>1, ReadsAreRecent, CopyFollows, PTL
  <1>2. CASE ~\A p, q \in Processes : p = q
    <2>1. Config!RecentValue => Config!SettingsAreRecent  BY <1>2 DEF Config!SettingsAreRecent
    <2> QED  BY <2>1, ReadsAreRecent, PTL
  <1> QED  BY <1>1, <1>2
=============================================================================
