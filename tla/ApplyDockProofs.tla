-------------------------- MODULE ApplyDockProofs --------------------------
(***************************************************************************)
(* What ApplyDock promises, for every set of tabs and every bound.         *)
(*                                                                         *)
(* Whoever acts, the user or the agent, does so when all messages have     *)
(* arrived.  So what is under way to a tab stems from one act, and what a  *)
(* tab shows while messages are under way is known from that act:          *)
(*                                                                         *)
(*   Counted   every count under way is that of the buffer, and a dock     *)
(*             with another count has one, or a reason to ask for one, to  *)
(*             come                                                        *)
(*   Fit       the dock of a tab is free, busy or asking, as the commit    *)
(*             is, or the event that makes it so is still to come          *)
(*   Stuck     what Fit becomes once a commit was rolled back              *)
(***************************************************************************)
EXTENDS ApplyDock, TLAPS

Events == [type : {"stashed", "started", "repair", "decision", "done", "failed", "rolled_back", "discarded"},
           n : 0 .. MaxSaves, repair : BOOLEAN]

Replies == [type : {"count", "stash", "discard", "rollback", "keep_fixing", "no_transaction"},
            n : 0 .. MaxSaves]

TypeInv ==
  /\ TypeOK
  /\ rollbacks \in Nat /\ reloads \in Nat /\ discards \in Nat
  /\ sse \in [Tabs -> Seq(Events)]
  /\ answers \in [Tabs -> SUBSET Replies]

Counting == {"count", "stash", "discard", "rollback"}

(* The count of a tab, and what is under way to it.                        *)
Counted(t) ==
  /\ \A i \in DOMAIN sse[t] :
       sse[t][i].type \in {"stashed", "started", "done"} => sse[t][i].n = staged
  /\ \A a \in answers[t] : a.type \in Counting => a.n = staged
  /\ \/ tabs[t].count = staged
     \/ \E i \in DOMAIN sse[t] : sse[t][i].type \in {"stashed", "done"} \cup Fetches
     \/ \E a \in answers[t] : a.type \in Counting

Free(d) == ~d.inFlight /\ d.stored = "none" /\ d.pill /\ d.trash /\ ~d.asks

Busy(d) == d.inFlight /\ d.stored \in {"applying", "repairing"} /\ ~d.pill /\ ~d.trash /\ ~d.asks

Asking(d) == ~d.inFlight /\ d.stored = "repair-decision" /\ ~d.pill /\ ~d.trash /\ d.asks /\ ~d.trashShown

(* Before a rollback: a tab when no commit is under way and none was given *)
(* up, when one was, and when one is under way.                            *)
FitFree(t) ==
  /\ sse[t] = <<>> => Free(tabs[t])
  /\ sse[t] # <<>> =>
       \/ Head(sse[t]).type \in {"stashed", "discarded"} /\ Free(tabs[t])
       \/ Head(sse[t]).type \in {"done", "failed"} /\ Busy(tabs[t]) /\ answers[t] = {}
  /\ \A a \in answers[t] : a.type \in {"count", "stash", "discard"}

FitAsking(t) ==
  /\ staged > 0 /\ answers[t] = {}
  /\ sse[t] = <<>> => Asking(tabs[t])
  /\ sse[t] # <<>> => Head(sse[t]).type = "decision" /\ Busy(tabs[t])

FitBusy(t) ==
  /\ staged > 0
  /\ sse[t] = <<>> => Busy(tabs[t])
  /\ sse[t] # <<>> =>
       \/ Head(sse[t]).type = "repair" /\ Busy(tabs[t])
       \/ /\ Head(sse[t]).type = "started"
          /\ \/ Busy(tabs[t]) \/ Free(tabs[t])
             \/ Head(sse[t]).repair /\ Asking(tabs[t])
  /\ \A a \in answers[t] : a.type = "keep_fixing" /\ Busy(tabs[t])

Fit(t) ==
  /\ sse[t] # <<>> => Tail(sse[t]) = <<>>
  /\ jobs = {} /\ txn = 0 => FitFree(t)
  /\ jobs = {} /\ txn # 0 => FitAsking(t)
  /\ jobs # {} => FitBusy(t)

(* After one: the tab asks, with every other control locked, or was told   *)
(* that there is no transaction to go on with.                             *)
Stuck(t) ==
  /\ ~tabs[t].pill /\ ~tabs[t].trash
  /\ \/ /\ tabs[t].asks /\ ~tabs[t].inFlight
        /\ sse[t] # <<>> => Tail(sse[t]) = <<>> /\ Head(sse[t]).type = "rolled_back"
        /\ \A a \in answers[t] : a.type = "rollback" \/ (a.type = "count" /\ tabs[t].stored = "none")
     \/ /\ tabs[t].inFlight /\ ~tabs[t].asks /\ sse[t] = <<>>
        /\ \E a \in answers[t] : answers[t] = {a} /\ a.type = "no_transaction"

CountInv == \A t \in Tabs : Counted(t)

FitInv ==
  reloads = 0 /\ rollbacks = 0 =>
    /\ \A j \in jobs : jobs = {j} /\ j.txn = txn
    /\ \A t \in Tabs : Fit(t)

StuckInv ==
  reloads = 0 /\ rollbacks # 0 =>
    jobs = {} /\ txn = 0 /\ staged > 0 /\ \A t \in Tabs : Stuck(t)

-----------------------------------------------------------------------------
(* What the dock's functions do, field by field.                           *)

LEMMA Locked ==
  ASSUME NEW d \in Dock
  PROVE  /\ Loading(d, TRUE) \in Dock /\ Loading(d, TRUE).count = d.count
         /\ Loading(d, TRUE).inFlight
         /\ ~Loading(d, TRUE).pill /\ ~Loading(d, TRUE).trash /\ ~Loading(d, TRUE).asks
         /\ d.stored # "none" => Loading(d, TRUE).stored = d.stored
         /\ d.stored = "none" /\ d.count > 0 => Loading(d, TRUE).stored = "applying"
  BY DEF Loading, Dock, Phases

LEMMA Freed ==
  ASSUME NEW d \in Dock
  PROVE  /\ Loading(d, FALSE) \in Dock /\ Loading(d, FALSE).count = d.count
         /\ ~d.asks => Free(Loading(d, FALSE))
  BY DEF Loading, Dock, Phases, Free

LEMMA FreshOf ==
  ASSUME NEW s \in Phases
  PROVE  /\ Fresh(s) \in Dock /\ Fresh(s).count = 0 /\ Fresh(s).stored = s
         /\ ~Fresh(s).inFlight /\ Fresh(s).pill /\ Fresh(s).trash /\ ~Fresh(s).asks
  BY DockAssumption DEF Fresh, Dock, Phases, DockAssumption

LEMMA ShownOf ==
  ASSUME NEW d \in Dock, NEW n \in 0 .. MaxSaves
  PROVE  LET shown == [d EXCEPT !.count = n, !.trashShown = TRUE]
         IN  /\ shown \in Dock /\ shown.count = n /\ shown.trashShown
             /\ shown.inFlight = d.inFlight /\ shown.stored = d.stored
             /\ shown.pill = d.pill /\ shown.trash = d.trash /\ shown.asks = d.asks
  BY DEF Dock

LEMMA CounterOf ==
  ASSUME NEW d \in Dock, NEW n \in 0 .. MaxSaves
  PROVE  /\ Counter(d, n) \in Dock /\ Counter(d, n).count = n
         /\ Free(d) => Free(Counter(d, n))
         /\ n > 0 /\ Busy(d) => Busy(Counter(d, n))
         /\ n > 0 /\ ~d.inFlight /\ d.stored = "none" =>
              /\ ~Counter(d, n).inFlight /\ Counter(d, n).stored = "none"
              /\ Counter(d, n).pill = d.pill /\ Counter(d, n).trash = d.trash
              /\ Counter(d, n).asks = d.asks
  <1> DEFINE shown == [d EXCEPT !.count = n, !.trashShown = TRUE]
  <1>1. /\ shown \in Dock /\ shown.count = n /\ shown.trashShown
        /\ shown.inFlight = d.inFlight /\ shown.stored = d.stored
        /\ shown.pill = d.pill /\ shown.trash = d.trash /\ shown.asks = d.asks
    BY ShownOf
  <1> HIDE DEF shown
  <1>2. CASE n = 0
    <2>1. Counter(d, n) = Fresh("none")  BY <1>2 DEF Counter
    <2> QED  BY <2>1, <1>2, FreshOf DEF Free, Phases
  <1>3. CASE n # 0 /\ (d.inFlight \/ d.stored # "none")
    <2>1. Counter(d, n) = Loading(shown, TRUE)  BY <1>3, <1>1 DEF Counter, shown
    <2>2. /\ Counter(d, n) \in Dock /\ Counter(d, n).count = n
          /\ Counter(d, n).inFlight
          /\ ~Counter(d, n).pill /\ ~Counter(d, n).trash /\ ~Counter(d, n).asks
          /\ d.stored # "none" => Counter(d, n).stored = d.stored
      BY <2>1, <1>1, <1>3, Locked
    <2> QED  BY <2>2, <1>3 DEF Free, Busy
  <1>4. CASE n # 0 /\ ~(d.inFlight \/ d.stored # "none")
    <2>1. Counter(d, n) = shown  BY <1>4, <1>1 DEF Counter, shown
    <2> QED  BY <2>1, <1>1, <1>4 DEF Free, Busy
  <1> QED  BY <1>2, <1>3, <1>4

LEMMA DecisionOf ==
  ASSUME NEW d \in Dock
  PROVE  /\ Decision(d) \in Dock /\ Decision(d).count = d.count
         /\ ~Decision(d).inFlight /\ ~Decision(d).pill /\ Decision(d).asks
         /\ ~Decision(d).trashShown /\ Decision(d).trash = d.trash
         /\ d.count > 0 => Decision(d).stored = "repair-decision"
  BY DEF Decision, Dock, Phases

LEMMA StoredOf ==
  ASSUME NEW d \in Dock, NEW s \in Phases
  PROVE  /\ [d EXCEPT !.stored = s] \in Dock
         /\ [d EXCEPT !.stored = s].stored = s
         /\ [d EXCEPT !.stored = s].count = d.count
         /\ [d EXCEPT !.stored = s].inFlight = d.inFlight
         /\ [d EXCEPT !.stored = s].pill = d.pill
         /\ [d EXCEPT !.stored = s].trash = d.trash
         /\ [d EXCEPT !.stored = s].asks = d.asks
         /\ [d EXCEPT !.stored = s].trashShown = d.trashShown
  BY DEF Dock, Phases

LEMMA RepairingOf ==
  ASSUME NEW d \in Dock
  PROVE  /\ Repairing(d) \in Dock /\ Repairing(d).count = d.count
         /\ d.count > 0 => Busy(Repairing(d)) /\ Repairing(d).inFlight
                           /\ ~Repairing(d).pill /\ ~Repairing(d).trash /\ ~Repairing(d).asks
  <1>1. CASE d.count = 0  BY <1>1 DEF Repairing, Dock
  <1>2. CASE d.count # 0
    <2> DEFINE e == [d EXCEPT !.stored = "repairing"]
    <2>1. e \in Dock /\ e.stored = "repairing" /\ e.count = d.count  BY StoredOf DEF Phases
    <2>2. Repairing(d) = Loading(e, TRUE)  BY <1>2 DEF Repairing
    <2> HIDE DEF e
    <2> QED  BY <2>1, <2>2, Locked DEF Busy
  <1> QED  BY <1>1, <1>2

LEMMA StartedOf ==
  ASSUME NEW d \in Dock, NEW n \in 0 .. MaxSaves, NEW repair \in BOOLEAN
  PROVE  /\ Started(d, n, repair) \in Dock
         /\ Started(d, n, repair).count = IF n > 0 THEN n ELSE d.count
         /\ n > 0 => Busy(Started(d, n, repair))
  <1> DEFINE counted == IF n > 0 THEN Counter(d, n) ELSE d
             phased  == IF repair THEN Repairing(counted)
                        ELSE IF n > 0 THEN [counted EXCEPT !.stored = "applying"] ELSE counted
  <1>1. counted \in Dock /\ counted.count = IF n > 0 THEN n ELSE d.count  BY CounterOf
  <1> HIDE DEF counted
  <1>2. /\ phased \in Dock /\ phased.count = counted.count
        /\ n > 0 => phased.stored \in {"applying", "repairing"}
    BY <1>1, RepairingOf, StoredOf DEF Busy, Phases
  <1> HIDE DEF phased
  <1>3. Started(d, n, repair) = Loading(phased, TRUE)  BY DEF Started, counted, phased
  <1> QED  BY <1>1, <1>2, <1>3, Locked DEF Busy

LEMMA EndedOf ==
  ASSUME NEW d \in Dock, NEW n \in 0 .. MaxSaves
  PROVE  /\ Ended(d, n) \in Dock /\ Ended(d, n).count = n
         /\ ~d.asks => Free(Ended(d, n))
  <1>1. /\ Loading(d, FALSE) \in Dock /\ (~d.asks => Free(Loading(d, FALSE)))
    BY Freed
  <1> QED  BY <1>1, CounterOf DEF Ended

LEMMA HeardBy ==
  ASSUME NEW d \in Dock, NEW m \in Events
  PROVE  /\ m.type = "stashed"  => Heard(d, m) = Counter(d, m.n)
         /\ m.type = "started"  => Heard(d, m) = Started(d, m.n, m.repair)
         /\ m.type = "repair"   => Heard(d, m) = Repairing(d)
         /\ m.type = "decision" => Heard(d, m) = Decision(d)
         /\ m.type = "done"     => Heard(d, m) = Ended(d, m.n)
         /\ m.type = "failed"   => Heard(d, m) = Loading(d, FALSE)
         /\ m.type = "rolled_back" => Heard(d, m) = [d EXCEPT !.stored = "none"]
         /\ m.type = "discarded"   => Heard(d, m) = d
  BY DEF Heard

LEMMA HeardDock ==
  ASSUME NEW d \in Dock, NEW m \in Events
  PROVE  Heard(d, m) \in Dock
  <1>1. m.n \in 0 .. MaxSaves /\ m.repair \in BOOLEAN  BY DEF Events
  <1>2. CASE m.type = "stashed"  BY <1>1, <1>2, HeardBy, CounterOf
  <1>3. CASE m.type = "started"
    <2>1. Heard(d, m) = Started(d, m.n, m.repair)  BY <1>3, HeardBy
    <2> QED  BY <2>1, <1>1, StartedOf
  <1>4. CASE m.type \in {"repair", "decision"}  BY <1>4, HeardBy, RepairingOf, DecisionOf
  <1>5. CASE m.type = "done"  BY <1>1, <1>5, HeardBy, EndedOf
  <1>6. CASE m.type = "failed"  BY <1>6, HeardBy, Freed
  <1>7. CASE m.type = "rolled_back"
    <2>1. Heard(d, m) = [d EXCEPT !.stored = "none"]  BY <1>7, HeardBy
    <2> QED  BY <2>1, StoredOf DEF Phases
  <1>8. CASE m.type = "discarded"  BY <1>8, HeardBy
  <1> QED  BY <1>2, <1>3, <1>4, <1>5, <1>6, <1>7, <1>8 DEF Events

LEMMA AnswerBy ==
  ASSUME NEW d \in Dock, NEW a \in Replies
  PROVE  /\ a.type \in {"count", "stash", "discard"} => Answer(d, a) = Counter(d, a.n)
         /\ a.type = "rollback" => Answer(d, a) = Counter([d EXCEPT !.stored = "none"], a.n)
         /\ a.type = "keep_fixing" => Answer(d, a) = [d EXCEPT !.asks = FALSE, !.trashShown = TRUE]
         /\ a.type = "no_transaction" => Answer(d, a) = Decision(d)
  BY DEF Answer

LEMMA GoesOn ==
  ASSUME NEW d \in Dock
  PROVE  LET e == [d EXCEPT !.asks = FALSE, !.trashShown = TRUE]
         IN  e \in Dock /\ e.count = d.count /\ (Busy(d) => Busy(e))
  BY DEF Dock, Busy

LEMMA AnswerDock ==
  ASSUME NEW d \in Dock, NEW a \in Replies
  PROVE  Answer(d, a) \in Dock
  <1>1. a.n \in 0 .. MaxSaves  BY DEF Replies
  <1>2. [d EXCEPT !.stored = "none"] \in Dock  BY StoredOf DEF Phases
  <1>3. CASE a.type \in {"count", "stash", "discard"}
    <2>1. Answer(d, a) = Counter(d, a.n)  BY <1>3, AnswerBy
    <2> QED  BY <2>1, <1>1, CounterOf
  <1>4. CASE a.type = "rollback"
    <2>1. Answer(d, a) = Counter([d EXCEPT !.stored = "none"], a.n)  BY <1>4, AnswerBy
    <2> QED  BY <2>1, <1>1, <1>2, CounterOf
  <1>5. CASE a.type = "keep_fixing"
    <2>1. Answer(d, a) = [d EXCEPT !.asks = FALSE, !.trashShown = TRUE]  BY <1>5, AnswerBy
    <2> QED  BY <2>1, GoesOn
  <1>6. CASE a.type = "no_transaction"  BY <1>6, AnswerBy, DecisionOf
  <1> QED  BY <1>3, <1>4, <1>5, <1>6 DEF Replies

(* What a broadcast puts on the streams when all has arrived.              *)
LEMMA Sent ==
  ASSUME TypeInv, Arrived, NEW m \in Events, Broadcast(<<m>>)
  PROVE  /\ sse' \in [Tabs -> Seq(Events)]
         /\ \A t \in Tabs : sse'[t] = <<m>>
  <1>1. <<m>> \in Seq(Events) /\ <<>> \o <<m>> = <<m>>  OBVIOUS
  <1>2. \A t \in Tabs : sse[t] \o <<m>> = <<m>>  BY <1>1 DEF Arrived
  <1>3. sse' = [t \in Tabs |-> <<m>>]  BY <1>2 DEF Broadcast
  <1> QED  BY <1>1, <1>3

LEMMA SentTwo ==
  ASSUME TypeInv, Arrived, NEW m \in Events, NEW l \in Events, Broadcast(<<m, l>>)
  PROVE  /\ sse' \in [Tabs -> Seq(Events)]
         /\ \A t \in Tabs : sse'[t] = <<m, l>>
  <1>1. <<m, l>> \in Seq(Events) /\ <<>> \o <<m, l>> = <<m, l>>  OBVIOUS
  <1>2. \A t \in Tabs : sse[t] \o <<m, l>> = <<m, l>>  BY <1>1 DEF Arrived
  <1>3. sse' = [t \in Tabs |-> <<m, l>>]  BY <1>2 DEF Broadcast
  <1> QED  BY <1>1, <1>3

LEMMA Told ==
  ASSUME TypeInv, NEW m \in Events, Broadcast(<<m>>)
  PROVE  sse' \in [Tabs -> Seq(Events)]
  <1>1. \A t \in Tabs : sse[t] \o <<m>> \in Seq(Events)  BY DEF TypeInv
  <1> QED  BY <1>1 DEF Broadcast

LEMMA MsgOf ==
  ASSUME NEW type \in {"stashed", "started", "repair", "decision", "done", "failed", "rolled_back", "discarded"},
         NEW n \in 0 .. MaxSaves
  PROVE  /\ Msg(type, n) \in Events
         /\ Msg(type, n).type = type /\ Msg(type, n).n = n 
  BY DEF Msg, Events

LEMMA Replied ==
  ASSUME TypeInv, NEW t \in Tabs, NEW n \in 0 .. MaxSaves,
         NEW type \in {"count", "stash", "discard", "rollback", "keep_fixing", "no_transaction"},
         Reply(t, type, n)
  PROVE  /\ answers' \in [Tabs -> SUBSET Replies]
         /\ answers'[t] = answers[t] \cup {[type |-> type, n |-> n]}
         /\ \A u \in Tabs : u # t => answers'[u] = answers[u]
  BY DEF TypeInv, Reply, Replies

LEMMA Began ==
  ASSUME TypeInv, Arrived, NEW id \in 1 .. MaxCommits, NEW held \in 1 .. MaxCommits,
         NEW repair \in BOOLEAN, Begin(id, held, repair)
  PROVE  LET m == [Msg("started", staged) EXCEPT !.repair = repair]
         IN  /\ sse' \in [Tabs -> Seq(Events)]
             /\ m \in Events /\ m.type = "started" /\ m.n = staged /\ m.repair = repair
             /\ staged = 0 => /\ \A t \in Tabs : sse'[t] = <<m, Msg("done", 0)>>
                              /\ jobs' = jobs
             /\ staged # 0 =>
                  /\ \A t \in Tabs : sse'[t] = <<m>>
                  /\ jobs' = jobs \cup {[id |-> id, txn |-> held, edits |-> staged, attempt |-> 0]}
  <1> DEFINE m == [Msg("started", staged) EXCEPT !.repair = repair]
  <1>1. staged \in 0 .. MaxSaves /\ 0 \in 0 .. MaxSaves
    BY DockAssumption DEF TypeInv, TypeOK, DockAssumption
  <1>2. m \in Events /\ m.type = "started" /\ m.n = staged /\ m.repair = repair
    <2>1. m = [type |-> "started", n |-> staged, repair |-> repair]  BY DEF Msg
    <2> HIDE DEF m
    <2> QED  BY <2>1, <1>1 DEF Events
  <1>3. Msg("done", 0) \in Events  BY <1>1, MsgOf
  <1>4. CASE staged = 0
    <2> DEFINE l == Msg("done", 0)
    <2>1. Broadcast(<<m, l>>) /\ jobs' = jobs  BY <1>4 DEF Begin
    <2> HIDE DEF m
    <2>2. l \in Events  BY <1>3
    <2> HIDE DEF l
    <2>3. \A t \in Tabs : sse'[t] = <<m, l>>  BY <1>2, <2>1, <2>2, SentTwo
    <2>4. sse' \in [Tabs -> Seq(Events)]  BY <1>2, <2>1, <2>2, SentTwo
    <2> QED  BY <1>2, <1>4, <2>1, <2>3, <2>4 DEF m, l
  <1>5. CASE staged # 0
    <2>1. /\ Broadcast(<<m>>)
          /\ jobs' = jobs \cup {[id |-> id, txn |-> held, edits |-> staged, attempt |-> 0]}
      BY <1>5 DEF Begin
    <2> HIDE DEF m
    <2> QED  BY <1>2, <1>5, <2>1, Sent DEF m
  <1> QED  BY <1>4, <1>5

-----------------------------------------------------------------------------
(* Types.                                                                  *)

LEMMA TypeInit == Init => TypeInv
  <1> SUFFICES ASSUME Init PROVE TypeInv  OBVIOUS
  <1>1. Fresh("none") \in Dock  BY FreshOf DEF Phases
  <1>2. tabs \in [Tabs -> Dock]  BY <1>1 DEF Init
  <1>3. sse \in [Tabs -> Seq(Events)] /\ answers \in [Tabs -> SUBSET Replies]  BY DEF Init
  <1> QED  BY <1>2, <1>3, DockAssumption DEF Init, TypeInv, TypeOK, DockAssumption

LEMMA TypeStep == TypeInv /\ [Next]_vars => TypeInv'
  <1> SUFFICES ASSUME TypeInv, [Next]_vars PROVE TypeInv'  OBVIOUS
  <1> DEFINE Jobs == [id : 1 .. MaxCommits, txn : 1 .. MaxCommits, edits : 0 .. MaxSaves,
                      attempt : 0 .. MaxAttempts]
  <1>0. /\ staged \in 0 .. MaxSaves /\ txn \in 0 .. MaxCommits /\ commits \in 0 .. MaxCommits
        /\ jobs \in SUBSET Jobs /\ tabs \in [Tabs -> Dock]
        /\ rollbacks \in Nat /\ reloads \in Nat /\ discards \in Nat
        /\ sse \in [Tabs -> Seq(Events)] /\ answers \in [Tabs -> SUBSET Replies]
        /\ MaxSaves \in Nat /\ MaxCommits \in Nat /\ MaxAttempts \in Nat
        /\ 0 \in 0 .. MaxSaves
    BY DockAssumption DEF TypeInv, TypeOK, DockAssumption
  <1> HIDE DEF Jobs
  <1>a. ASSUME /\ staged' \in 0 .. MaxSaves /\ txn' \in 0 .. MaxCommits /\ commits' \in 0 .. MaxCommits
               /\ jobs' \in SUBSET Jobs /\ tabs' \in [Tabs -> Dock]
               /\ rollbacks' \in Nat /\ reloads' \in Nat /\ discards' \in Nat
               /\ sse' \in [Tabs -> Seq(Events)] /\ answers' \in [Tabs -> SUBSET Replies]
        PROVE  TypeInv'
    BY <1>a DEF TypeInv, TypeOK, Jobs
  <1>1. ASSUME NEW t \in Tabs, Hear(t)  PROVE TypeInv'
    <2> DEFINE m == Head(sse[t])
    <2>1. m \in Events /\ Tail(sse[t]) \in Seq(Events)  BY <1>0, <1>1 DEF Hear
    <2>2. Heard(tabs[t], m) \in Dock  BY <1>0, <2>1, HeardDock
    <2>3. tabs' \in [Tabs -> Dock]  BY <1>0, <1>1, <2>2 DEF Hear
    <2>4. sse' \in [Tabs -> Seq(Events)]  BY <1>0, <1>1, <2>1 DEF Hear
    <2>5. answers' \in [Tabs -> SUBSET Replies]
      <3>1. CASE Reply(t, "count", staged)  BY <3>1, <1>0, Replied
      <3>2. CASE UNCHANGED answers  BY <3>2, <1>0
      <3> QED  BY <1>1, <3>1, <3>2 DEF Hear
    <2> QED  BY <1>0, <1>1, <1>a, <2>3, <2>4, <2>5 DEF Hear
  <1>2. ASSUME NEW t \in Tabs, NEW a \in answers[t], Receive(t, a)  PROVE TypeInv'
    <2>1. a \in Replies  BY <1>0
    <2>2. Answer(tabs[t], a) \in Dock  BY <1>0, <2>1, AnswerDock
    <2>3. tabs' \in [Tabs -> Dock]  BY <1>0, <1>2, <2>2 DEF Receive
    <2>4. answers' \in [Tabs -> SUBSET Replies]  BY <1>0, <1>2 DEF Receive
    <2> QED  BY <1>0, <1>2, <1>a, <2>3, <2>4 DEF Receive
  <1>3. ASSUME NEW t \in Tabs, Save(t)  PROVE TypeInv'
    <2>1. staged + 1 \in 0 .. MaxSaves  BY <1>0, <1>3 DEF Save
    <2>2. Msg("stashed", staged + 1) \in Events  BY <2>1, MsgOf
    <2>3. sse' \in [Tabs -> Seq(Events)]  BY <1>3, <2>2, Sent DEF Save
    <2>4. Reply(t, "stash", staged + 1)  BY <1>3 DEF Save
    <2>5. answers' \in [Tabs -> SUBSET Replies]  BY <2>1, <2>4, Replied
    <2> QED  BY <1>0, <1>3, <1>a, <2>1, <2>3, <2>5 DEF Save
  <1>4. ASSUME NEW t \in Tabs, Apply(t)  PROVE TypeInv'
    <2> DEFINE n == commits + 1
               new == [id |-> n, txn |-> n, edits |-> staged, attempt |-> 0]
    <2>1. n \in 1 .. MaxCommits  BY <1>0, <1>4 DEF Apply
    <2>2. Begin(n, n, FALSE) /\ Arrived  BY <1>4 DEF Apply
    <2>3. sse' \in [Tabs -> Seq(Events)] /\ (jobs' = jobs \/ jobs' = jobs \cup {new})
      BY <2>1, <2>2, Began
    <2>4. new \in Jobs  BY <1>0, <2>1 DEF Jobs
    <2>5. jobs' \in SUBSET Jobs  BY <1>0, <2>3, <2>4
    <2>6. [tabs[t] EXCEPT !.stored = "applying"] \in Dock  BY <1>0, StoredOf DEF Phases
    <2>7. Loading([tabs[t] EXCEPT !.stored = "applying"], TRUE) \in Dock  BY <2>6, Locked
    <2>8. tabs' \in [Tabs -> Dock]  BY <1>0, <1>4, <2>7 DEF Apply
    <2>9. txn' \in 0 .. MaxCommits /\ commits' \in 0 .. MaxCommits  BY <1>0, <1>4, <2>1 DEF Apply
    <2> HIDE DEF n, new
    <2> QED  BY <1>0, <1>4, <1>a, <2>3, <2>5, <2>8, <2>9 DEF Apply
  <1>5. ASSUME NEW t \in Tabs, KeepFixing(t)  PROVE TypeInv'
    <2> DEFINE n == commits + 1
               new == [id |-> n, txn |-> txn, edits |-> staged, attempt |-> 0]
    <2>1. n \in 1 .. MaxCommits  BY <1>0, <1>5 DEF KeepFixing
    <2>2. Repairing(tabs[t]) \in Dock  BY <1>0, RepairingOf
    <2>3. tabs' \in [Tabs -> Dock]  BY <1>0, <1>5, <2>2 DEF KeepFixing
    <2>4. CASE txn = 0
      <3>1. answers' \in [Tabs -> SUBSET Replies]  BY <1>0, <1>5, <2>4, Replied DEF KeepFixing
      <3> QED  BY <1>0, <1>5, <1>a, <2>1, <2>3, <2>4, <3>1 DEF KeepFixing
    <2>5. CASE txn # 0
      <3>1. Begin(n, txn, TRUE) /\ Arrived /\ Reply(t, "keep_fixing", 0)
        BY <1>5, <2>5 DEF KeepFixing
      <3>2. txn \in 1 .. MaxCommits  BY <1>0, <2>5
      <3>3. sse' \in [Tabs -> Seq(Events)] /\ (jobs' = jobs \/ jobs' = jobs \cup {new})
        BY <2>1, <3>1, <3>2, Began
      <3>4. new \in Jobs  BY <1>0, <2>1, <3>2 DEF Jobs
      <3>5. jobs' \in SUBSET Jobs  BY <1>0, <3>3, <3>4
      <3>6. answers' \in [Tabs -> SUBSET Replies]  BY <1>0, <3>1, Replied
      <3> QED  BY <1>0, <1>5, <1>a, <2>1, <2>3, <3>3, <3>5, <3>6 DEF KeepFixing
    <2> QED  BY <2>4, <2>5
  <1>6. ASSUME NEW t \in Tabs, Rollback(t)  PROVE TypeInv'
    <2>1. Msg("rolled_back", staged) \in Events  BY <1>0, MsgOf
    <2>2. sse' \in [Tabs -> Seq(Events)]  BY <1>6, <2>1, Sent DEF Rollback
    <2>3. answers' \in [Tabs -> SUBSET Replies]  BY <1>0, <1>6, Replied DEF Rollback
    <2> QED  BY <1>0, <1>6, <1>a, <2>2, <2>3 DEF Rollback
  <1>7. ASSUME NEW t \in Tabs, Discard(t)  PROVE TypeInv'
    <2>1. Msg("discarded", 0) \in Events  BY <1>0, MsgOf
    <2>2. sse' \in [Tabs -> Seq(Events)]  BY <1>7, <2>1, Sent DEF Discard
    <2>3. answers' \in [Tabs -> SUBSET Replies]  BY <1>0, <1>7, Replied DEF Discard
    <2>4. \A j \in jobs : [j EXCEPT !.edits = 0] \in Jobs  BY <1>0 DEF Jobs
    <2>5. jobs' \in SUBSET Jobs  BY <1>7, <2>4 DEF Discard
    <2> QED  BY <1>0, <1>7, <1>a, <2>2, <2>3, <2>5 DEF Discard
  <1>8. ASSUME NEW t \in Tabs, Reload(t)  PROVE TypeInv'
    <2>1. Fresh(tabs[t].stored) \in Dock
      <3>1. tabs[t].stored \in Phases  BY <1>0 DEF Dock
      <3> QED  BY <3>1, FreshOf
    <2>2. tabs' \in [Tabs -> Dock]  BY <1>0, <1>8, <2>1 DEF Reload
    <2>3. sse' \in [Tabs -> Seq(Events)]  BY <1>0, <1>8 DEF Reload
    <2>4. [type |-> "count", n |-> staged] \in Replies  BY <1>0 DEF Replies
    <2>5. answers' \in [Tabs -> SUBSET Replies]  BY <1>0, <1>8, <2>4 DEF Reload
    <2> QED  BY <1>0, <1>8, <1>a, <2>2, <2>3, <2>5 DEF Reload
  <1>9. ASSUME NEW j \in jobs, RepairStep(j)  PROVE TypeInv'
    <2>1. [j EXCEPT !.attempt = @ + 1] \in Jobs
      <3>1. j \in Jobs /\ j.attempt < MaxAttempts  BY <1>0, <1>9 DEF RepairStep
      <3>2. j.attempt + 1 \in 0 .. MaxAttempts  BY <1>0, <3>1 DEF Jobs
      <3> QED  BY <3>1, <3>2 DEF Jobs
    <2>2. jobs' \in SUBSET Jobs  BY <1>0, <1>9, <2>1 DEF RepairStep
    <2>3. Msg("repair", staged) \in Events  BY <1>0, MsgOf
    <2>4. sse' \in [Tabs -> Seq(Events)]  BY <1>0, <1>9, <2>3, Told DEF RepairStep
    <2> QED  BY <1>0, <1>9, <1>a, <2>2, <2>4 DEF RepairStep
  <1>10. ASSUME NEW j \in jobs, Done(j)  PROVE TypeInv'
    <2>1. PICK left \in 0 .. staged : staged' = left /\ Broadcast(<<Msg("done", left)>>)
      BY <1>10 DEF Done
    <2>2. staged' \in 0 .. MaxSaves  BY <1>0, <2>1
    <2>3. Msg("done", left) \in Events  BY <2>1, <2>2, MsgOf
    <2>4. sse' \in [Tabs -> Seq(Events)]  BY <2>1, <2>3, Told
    <2>5. txn' \in 0 .. MaxCommits /\ jobs' \in SUBSET Jobs  BY <1>0, <1>10 DEF Done
    <2> QED  BY <1>0, <1>10, <1>a, <2>2, <2>4, <2>5 DEF Done
  <1>11. ASSUME NEW j \in jobs, NeedsDecision(j)  PROVE TypeInv'
    <2>1. Msg("decision", staged) \in Events  BY <1>0, MsgOf
    <2>2. sse' \in [Tabs -> Seq(Events)]  BY <1>11, <2>1, Told DEF NeedsDecision
    <2> QED  BY <1>0, <1>11, <1>a, <2>2 DEF NeedsDecision
  <1>12. ASSUME NEW j \in jobs, Failed(j)  PROVE TypeInv'
    <2>1. Msg("failed", 0) \in Events  BY <1>0, MsgOf
    <2>2. sse' \in [Tabs -> Seq(Events)]  BY <1>12, <2>1, Told DEF Failed
    <2>3. txn' \in 0 .. MaxCommits /\ jobs' \in SUBSET Jobs  BY <1>0, <1>12 DEF Failed
    <2> QED  BY <1>0, <1>12, <1>a, <2>2, <2>3 DEF Failed
  <1>13. CASE UNCHANGED vars  BY <1>0, <1>13, <1>a DEF vars
  <1> QED
    BY <1>1, <1>2, <1>3, <1>4, <1>5, <1>6, <1>7, <1>8, <1>9, <1>10, <1>11, <1>12, <1>13 DEF Next

(* Every variable has its type.                                            *)
THEOREM TypeCorrect == Spec => []TypeOK
  <1>1. TypeInv => TypeOK  BY DEF TypeInv
  <1> QED  BY <1>1, TypeInit, TypeStep, PTL DEF Spec

-----------------------------------------------------------------------------
(* Counts.                                                                 *)

LEMMA TailOf ==
  ASSUME NEW s \in Seq(Events), s # <<>>
  PROVE  /\ Head(s) \in Events /\ Tail(s) \in Seq(Events)
         /\ 1 \in DOMAIN s /\ s[1] = Head(s)
         /\ \A i \in DOMAIN Tail(s) : i + 1 \in DOMAIN s /\ Tail(s)[i] = s[i + 1]
         /\ \A i \in DOMAIN s : i = 1 \/ (i - 1 \in DOMAIN Tail(s) /\ Tail(s)[i - 1] = s[i])
  OBVIOUS

LEMMA OfOne == \A m : <<m>> # <<>> /\ Head(<<m>>) = m /\ Tail(<<m>>) = <<>>
  OBVIOUS

LEMMA CountArrived ==
  ASSUME CountInv, Arrived
  PROVE  \A t \in Tabs : tabs[t].count = staged
  BY DEF CountInv, Counted, Arrived

LEMMA CountedKept ==
  ASSUME NEW t \in Tabs, Counted(t), tabs'[t].count = tabs[t].count, sse'[t] = sse[t],
         answers'[t] = answers[t], staged' = staged
  PROVE  Counted(t)'
  BY DEF Counted

LEMMA CountedSent ==
  ASSUME NEW t \in Tabs, NEW m \in Events, sse'[t] = <<m>>,
         m.type \in {"stashed", "started", "done"} => m.n = staged',
         \A a \in answers'[t] : a.type \in Counting => a.n = staged',
         tabs'[t].count = staged' \/ m.type \in {"stashed", "done"} \cup Fetches
  PROVE  Counted(t)'
  <1>1. DOMAIN sse'[t] = {1} /\ sse'[t][1] = m  OBVIOUS
  <1> QED  BY <1>1 DEF Counted

LEMMA CountTold ==
  ASSUME TypeInv, CountInv, Arrived, staged' = staged, tabs' = tabs, answers' = answers,
         NEW m \in Events, Broadcast(<<m>>), m.type \in {"repair", "decision", "failed"}
  PROVE  CountInv'
  <1>1. \A t \in Tabs : sse'[t] = <<m>> /\ answers'[t] = {} /\ tabs'[t].count = staged'
    BY Sent, CountArrived DEF Arrived
  <1>2. \A t \in Tabs : Counted(t)'  BY <1>1, CountedSent
  <1> QED  BY <1>2 DEF CountInv

(* An event that is heard.                                                 *)
LEMMA CountHear ==
  ASSUME TypeInv, CountInv, NEW t \in Tabs, Hear(t)
  PROVE  CountInv'
  <1> DEFINE m == Head(sse[t])
             d == tabs[t]
  <1>0. /\ sse \in [Tabs -> Seq(Events)] /\ sse[t] # <<>> /\ d \in Dock
        /\ staged \in 0 .. MaxSaves /\ tabs \in [Tabs -> Dock]
        /\ answers \in [Tabs -> SUBSET Replies]
    BY DEF TypeInv, TypeOK, Hear
  <1>1. /\ m \in Events /\ 1 \in DOMAIN sse[t] /\ sse[t][1] = m
        /\ \A i \in DOMAIN Tail(sse[t]) : i + 1 \in DOMAIN sse[t] /\ Tail(sse[t])[i] = sse[t][i + 1]
        /\ \A i \in DOMAIN sse[t] :
             i = 1 \/ (i - 1 \in DOMAIN Tail(sse[t]) /\ Tail(sse[t])[i - 1] = sse[t][i])
    BY <1>0, TailOf
  <1>2. m.n \in 0 .. MaxSaves /\ m.repair \in BOOLEAN  BY <1>1 DEF Events
  <1>3. Counted(t)  BY DEF CountInv
  <1>4. /\ tabs' = [tabs EXCEPT ![t] = Heard(d, m)] /\ sse' = [sse EXCEPT ![t] = Tail(@)]
        /\ IF m.type \in Fetches THEN Reply(t, "count", staged) ELSE UNCHANGED answers
        /\ staged' = staged
    BY DEF Hear
  <1>5. tabs'[t] = Heard(d, m) /\ sse'[t] = Tail(sse[t])  BY <1>0, <1>4
  <1>6. \A u \in Tabs : u # t => tabs'[u] = tabs[u] /\ sse'[u] = sse[u] /\ answers'[u] = answers[u]
    BY <1>0, <1>4, Replied
  <1>7. \A u \in Tabs : u # t => Counted(u)'
    BY <1>4, <1>6, CountedKept DEF CountInv
  <1> HIDE DEF m, d
  <1>8. /\ \A i \in DOMAIN sse'[t] :
             sse'[t][i].type \in {"stashed", "started", "done"} => sse'[t][i].n = staged
        /\ m.type \in {"stashed", "started", "done"} => m.n = staged
    BY <1>1, <1>3, <1>5 DEF Counted
  <1>9. CASE m.type \in Fetches
    <2>1. answers'[t] = answers[t] \cup {[type |-> "count", n |-> staged]}
      BY <1>0, <1>4, <1>9, Replied
    <2>2. \E a \in answers'[t] : a.type \in Counting
      <3> DEFINE new == [type |-> "count", n |-> staged]
      <3>1. new \in answers'[t] /\ new.type = "count"  BY <2>1
      <3> QED  BY <3>1 DEF Counting
    <2>3. \A a \in answers'[t] : a.type \in Counting => a.n = staged  BY <1>3, <2>1 DEF Counted
    <2>4. Counted(t)'  BY <1>4, <1>8, <2>2, <2>3 DEF Counted
    <2> QED  BY <1>7, <2>4 DEF CountInv
  <1>10. CASE m.type \notin Fetches
    <2>1. answers' = answers  BY <1>4, <1>10
    <2>2. CASE m.type \in {"stashed", "done"}
      <3>1. Heard(d, m).count = m.n
        <4>1. CASE m.type = "stashed"
          <5>1. Heard(d, m) = Counter(d, m.n)  BY <4>1, <1>0, <1>1, HeardBy
          <5> QED  BY <5>1, <1>0, <1>2, CounterOf
        <4>2. CASE m.type = "done"
          <5>1. Heard(d, m) = Ended(d, m.n)  BY <4>2, <1>0, <1>1, HeardBy
          <5> QED  BY <5>1, <1>0, <1>2, EndedOf
        <4> QED  BY <2>2, <4>1, <4>2
      <3>2. tabs'[t].count = staged'  BY <1>4, <1>5, <1>8, <2>2, <3>1
      <3>3. Counted(t)'  BY <1>3, <1>4, <1>8, <2>1, <3>2 DEF Counted
      <3> QED  BY <1>7, <3>3 DEF CountInv
    <2>3. CASE m.type \in {"started", "repair", "decision"}
      <3>1. Heard(d, m).count = d.count \/ Heard(d, m).count = staged
        <4>1. CASE m.type = "started"
          <5>1. Heard(d, m) = Started(d, m.n, m.repair)  BY <4>1, <1>0, <1>1, HeardBy
          <5> QED  BY <4>1, <5>1, <1>0, <1>2, <1>8, StartedOf
        <4>2. CASE m.type = "repair"
          <5>1. Heard(d, m) = Repairing(d)  BY <4>2, <1>0, <1>1, HeardBy
          <5> QED  BY <5>1, <1>0, RepairingOf
        <4>3. CASE m.type = "decision"  BY <4>3, <1>0, <1>1, HeardBy, DecisionOf
        <4> QED  BY <2>3, <4>1, <4>2, <4>3
      <3>2. \A i \in DOMAIN sse[t] :
              sse[t][i].type \in {"stashed", "done"} \cup Fetches =>
                \E k \in DOMAIN sse'[t] : sse'[t][k].type \in {"stashed", "done"} \cup Fetches
        <4> SUFFICES ASSUME NEW i \in DOMAIN sse[t],
                            sse[t][i].type \in {"stashed", "done"} \cup Fetches
                     PROVE  \E k \in DOMAIN sse'[t] :
                              sse'[t][k].type \in {"stashed", "done"} \cup Fetches
          OBVIOUS
        <4>1. i # 1  BY <1>1, <2>3, <1>10
        <4>2. i - 1 \in DOMAIN sse'[t] /\ sse'[t][i - 1] = sse[t][i]  BY <1>1, <1>5, <4>1
        <4> QED  BY <4>2
      <3>3. \/ tabs'[t].count = staged
            \/ \E i \in DOMAIN sse'[t] : sse'[t][i].type \in {"stashed", "done"} \cup Fetches
            \/ \E a \in answers'[t] : a.type \in Counting
        BY <1>3, <1>5, <2>1, <3>1, <3>2 DEF Counted, d
      <3>4. \A a \in answers'[t] : a.type \in Counting => a.n = staged  BY <1>3, <2>1 DEF Counted
      <3>5. Counted(t)'  BY <1>4, <1>8, <3>3, <3>4 DEF Counted
      <3> QED  BY <1>7, <3>5 DEF CountInv
    <2> QED  BY <1>1, <1>10, <2>2, <2>3 DEF Events, Fetches
  <1> QED  BY <1>9, <1>10

(* An answer that is received.                                             *)
LEMMA CountReceive ==
  ASSUME TypeInv, CountInv, NEW t \in Tabs, NEW a \in answers[t], Receive(t, a)
  PROVE  CountInv'
  <1> DEFINE d == tabs[t]
  <1>0. d \in Dock /\ a \in Replies /\ tabs \in [Tabs -> Dock] /\ answers \in [Tabs -> SUBSET Replies]
    BY DEF TypeInv, TypeOK
  <1>1. a.n \in 0 .. MaxSaves  BY <1>0 DEF Replies
  <1>2. /\ tabs' = [tabs EXCEPT ![t] = Answer(d, a)] /\ sse' = sse
        /\ answers' = [answers EXCEPT ![t] = @ \ {a}] /\ staged' = staged
    BY DEF Receive
  <1>3. tabs'[t] = Answer(d, a) /\ answers'[t] = answers[t] \ {a}  BY <1>0, <1>2
  <1>4. \A u \in Tabs : u # t => tabs'[u] = tabs[u] /\ answers'[u] = answers[u]  BY <1>0, <1>2
  <1>5. \A u \in Tabs : u # t => Counted(u)'  BY <1>2, <1>4, CountedKept DEF CountInv
  <1>6. Counted(t)  BY DEF CountInv
  <1> HIDE DEF d
  <1>7. CASE a.type \in Counting
    <2>1. Answer(d, a).count = a.n
      <3>1. CASE a.type = "rollback"
        <4>1. Answer(d, a) = Counter([d EXCEPT !.stored = "none"], a.n)  BY <1>0, <3>1, AnswerBy
        <4>2. [d EXCEPT !.stored = "none"] \in Dock  BY <1>0, StoredOf DEF Phases
        <4> QED  BY <1>1, <4>1, <4>2, CounterOf
      <3>2. CASE a.type \in {"count", "stash", "discard"}
        <4>1. Answer(d, a) = Counter(d, a.n)  BY <1>0, <3>2, AnswerBy
        <4> QED  BY <1>0, <1>1, <4>1, CounterOf
      <3> QED  BY <1>7, <3>1, <3>2 DEF Counting
    <2>2. a.n = staged  BY <1>6, <1>7 DEF Counted
    <2>3. tabs'[t].count = staged /\ sse'[t] = sse[t] /\ answers'[t] \subseteq answers[t]
      BY <1>2, <1>3, <2>1, <2>2
    <2>4. Counted(t)'  BY <1>2, <1>6, <2>3 DEF Counted
    <2> QED  BY <1>5, <2>4 DEF CountInv
  <1>8. CASE a.type \notin Counting
    <2>1. Answer(d, a).count = d.count
      <3>1. CASE a.type = "keep_fixing"
        <4>1. Answer(d, a) = [d EXCEPT !.asks = FALSE, !.trashShown = TRUE]  BY <1>0, <3>1, AnswerBy
        <4> QED  BY <1>0, <4>1, GoesOn
      <3>2. CASE a.type = "no_transaction"  BY <1>0, <3>2, AnswerBy, DecisionOf
      <3> QED  BY <1>0, <1>8, <3>1, <3>2 DEF Counting, Replies
    <2>2. Counted(t)'  BY <1>2, <1>3, <1>6, <1>8, <2>1 DEF Counted, d
    <2> QED  BY <1>5, <2>2 DEF CountInv
  <1> QED  BY <1>7, <1>8

LEMMA CountInit == Init => CountInv
  BY DEF Init, CountInv, Counted, Fresh

(* Who acts does so when all has arrived, and tells every tab.             *)
LEMMA CountStep ==
  ASSUME ~NoRunner
  PROVE  TypeInv /\ CountInv /\ [Next]_vars => CountInv'
  <1> SUFFICES ASSUME TypeInv, CountInv, [Next]_vars PROVE CountInv'  OBVIOUS
  <1>0. /\ staged \in 0 .. MaxSaves /\ tabs \in [Tabs -> Dock]
        /\ sse \in [Tabs -> Seq(Events)] /\ answers \in [Tabs -> SUBSET Replies]
        /\ MaxSaves \in Nat /\ MaxCommits \in Nat /\ 0 \in 0 .. MaxSaves
        /\ txn \in 0 .. MaxCommits /\ commits \in 0 .. MaxCommits
    BY DockAssumption DEF TypeInv, TypeOK, DockAssumption
  <1>1. ASSUME NEW t \in Tabs, Hear(t)  PROVE CountInv'  BY <1>1, CountHear
  <1>2. ASSUME NEW t \in Tabs, NEW a \in answers[t], Receive(t, a)  PROVE CountInv'
    BY <1>2, CountReceive
  <1>3. ASSUME NEW t \in Tabs, Save(t)  PROVE CountInv'
    <2> DEFINE m == Msg("stashed", staged + 1)
    <2>1. staged + 1 \in 0 .. MaxSaves /\ Arrived /\ staged' = staged + 1  BY <1>0, <1>3 DEF Save
    <2>2. m \in Events /\ m.type = "stashed" /\ m.n = staged'  BY <2>1 DEF Msg, Events
    <2>3. Broadcast(<<m>>) /\ Reply(t, "stash", staged + 1)  BY <1>3 DEF Save
    <2> HIDE DEF m
    <2>4. \A u \in Tabs : sse'[u] = <<m>>  BY <2>1, <2>2, <2>3, Sent
    <2>5. \A u \in Tabs : \A a \in answers'[u] : a.type \in Counting => a.n = staged'
      BY <2>1, <2>3, Replied DEF Arrived
    <2>6. \A u \in Tabs : Counted(u)'  BY <2>2, <2>4, <2>5, CountedSent
    <2> QED  BY <2>6 DEF CountInv
  <1>4. ASSUME NEW t \in Tabs, Apply(t)  PROVE CountInv'
    <2> DEFINE e == [tabs[t] EXCEPT !.stored = "applying"]
    <2>1. /\ Arrived /\ tabs' = [tabs EXCEPT ![t] = Loading(e, TRUE)] /\ staged' = staged
          /\ tabs[t].count > 0 /\ answers' = answers
      BY <1>4 DEF Apply
    <2>2. e \in Dock /\ e.count = tabs[t].count  BY <1>0, StoredOf DEF Phases
    <2> HIDE DEF e
    <2>3. \A u \in Tabs : tabs'[u].count = staged'
      BY <1>0, <2>1, <2>2, Locked, CountArrived
    <2>4. staged # 0  BY <1>0, <2>1, CountArrived
    <2> DEFINE n == commits + 1
    <2>9. n \in 1 .. MaxCommits  BY <1>0, <1>4 DEF Apply
    <2>5. Begin(n, n, FALSE)  BY <1>4 DEF Apply
    <2> HIDE DEF n
    <2>6. PICK m \in Events : m.n = staged /\ m.type = "started" /\ \A u \in Tabs : sse'[u] = <<m>>
      BY <2>1, <2>4, <2>5, <2>9, Began
    <2>7. \A u \in Tabs : answers'[u] = {}  BY <2>1 DEF Arrived
    <2>8. \A u \in Tabs : Counted(u)'  BY <2>1, <2>3, <2>6, <2>7, CountedSent
    <2> QED  BY <2>8 DEF CountInv
  <1>5. ASSUME NEW t \in Tabs, KeepFixing(t)  PROVE CountInv'
    <2>1. /\ Arrived /\ tabs' = [tabs EXCEPT ![t] = Repairing(@)] /\ staged' = staged
          /\ tabs[t].count > 0
      BY <1>5 DEF KeepFixing
    <2>2. \A u \in Tabs : tabs'[u].count = staged'
      BY <1>0, <2>1, RepairingOf, CountArrived
    <2>3. staged # 0  BY <1>0, <2>1, CountArrived
    <2>4. CASE txn = 0
      <3>1. sse' = sse /\ Reply(t, "no_transaction", 0)  BY <1>5, <2>4 DEF KeepFixing
      <3>2. \A u \in Tabs : \A a \in answers'[u] : a.type \notin Counting
        BY <1>0, <2>1, <3>1, Replied DEF Arrived, Counting
      <3>3. \A u \in Tabs : sse'[u] = <<>>  BY <2>1, <3>1 DEF Arrived
      <3> QED  BY <2>2, <3>2, <3>3 DEF CountInv, Counted
    <2>5. CASE txn # 0
      <3> DEFINE n == commits + 1
      <3>9. n \in 1 .. MaxCommits /\ txn \in 1 .. MaxCommits  BY <1>0, <1>5, <2>5 DEF KeepFixing
      <3>1. Begin(n, txn, TRUE) /\ Reply(t, "keep_fixing", 0)  BY <1>5, <2>5 DEF KeepFixing
      <3> HIDE DEF n
      <3>2. PICK m \in Events : m.n = staged /\ m.type = "started" /\ \A u \in Tabs : sse'[u] = <<m>>
        BY <2>1, <2>3, <3>1, <3>9, Began
      <3>3. \A u \in Tabs : \A a \in answers'[u] : a.type \notin Counting
        BY <1>0, <2>1, <3>1, Replied DEF Arrived, Counting
      <3>4. \A u \in Tabs : Counted(u)'  BY <2>1, <2>2, <3>2, <3>3, CountedSent
      <3> QED  BY <3>4 DEF CountInv
    <2> QED  BY <2>4, <2>5
  <1>6. ASSUME NEW t \in Tabs, Rollback(t)  PROVE CountInv'
    <2> DEFINE m == Msg("rolled_back", staged)
    <2>1. /\ Arrived /\ staged' = staged /\ tabs' = tabs
          /\ Broadcast(<<m>>) /\ Reply(t, "rollback", staged)
      BY <1>6 DEF Rollback
    <2>2. m \in Events /\ m.type = "rolled_back"  BY <1>0, MsgOf
    <2> HIDE DEF m
    <2>3. \A u \in Tabs : sse'[u] = <<m>>  BY <2>1, <2>2, Sent
    <2>4. \A u \in Tabs : \A a \in answers'[u] : a.type \in Counting => a.n = staged'
      BY <1>0, <2>1, Replied DEF Arrived
    <2>5. \A u \in Tabs : Counted(u)'  BY <2>1, <2>2, <2>3, <2>4, CountedSent DEF Fetches
    <2> QED  BY <2>5 DEF CountInv
  <1>7. ASSUME NEW t \in Tabs, Discard(t)  PROVE CountInv'
    <2> DEFINE m == Msg("discarded", 0)
    <2>1. Arrived /\ staged' = 0 /\ Broadcast(<<m>>) /\ Reply(t, "discard", 0)
      BY <1>7 DEF Discard
    <2>2. m \in Events /\ m.type = "discarded"  BY <1>0, MsgOf
    <2> HIDE DEF m
    <2>3. \A u \in Tabs : sse'[u] = <<m>>  BY <2>1, <2>2, Sent
    <2>4. \A u \in Tabs : \A a \in answers'[u] : a.type \in Counting => a.n = staged'
      BY <1>0, <2>1, Replied DEF Arrived
    <2>5. \A u \in Tabs : Counted(u)'  BY <2>1, <2>2, <2>3, <2>4, CountedSent DEF Fetches
    <2> QED  BY <2>5 DEF CountInv
  <1>8. ASSUME NEW t \in Tabs, Reload(t)  PROVE CountInv'
    <2> DEFINE new == [type |-> "count", n |-> staged]
    <2>1. /\ staged' = staged /\ sse'[t] = <<>> /\ answers'[t] = {new}
          /\ \A u \in Tabs : u # t =>
               tabs'[u] = tabs[u] /\ sse'[u] = sse[u] /\ answers'[u] = answers[u]
      BY <1>0, <1>8 DEF Reload
    <2>2. new.type \in Counting /\ new.n = staged  BY DEF Counting
    <2> HIDE DEF new
    <2>3. Counted(t)'  BY <2>1, <2>2 DEF Counted
    <2>4. \A u \in Tabs : u # t => Counted(u)'  BY <2>1, CountedKept DEF CountInv
    <2> QED  BY <2>3, <2>4 DEF CountInv
  <1>9. ASSUME NEW j \in jobs, RepairStep(j)  PROVE CountInv'
    <2> DEFINE m == Msg("repair", staged)
    <2>1. Arrived /\ staged' = staged /\ tabs' = tabs /\ answers' = answers /\ Broadcast(<<m>>)
      BY <1>9 DEF RepairStep, AgentActs
    <2>2. m \in Events /\ m.type = "repair"  BY <1>0 DEF Msg, Events
    <2> QED  BY <2>1, <2>2, CountTold
  <1>10. ASSUME NEW j \in jobs, Done(j)  PROVE CountInv'
    <2>1. PICK left \in 0 .. staged : staged' = left /\ Broadcast(<<Msg("done", left)>>)
      BY <1>10 DEF Done
    <2> DEFINE m == Msg("done", left)
    <2>2. left \in 0 .. MaxSaves  BY <1>0, <2>1
    <2>3. m \in Events /\ m.type = "done" /\ m.n = staged'  BY <2>1, <2>2 DEF Msg, Events
    <2>4. Arrived /\ answers' = answers  BY <1>10 DEF Done, AgentActs
    <2>5. Broadcast(<<m>>)  BY <2>1
    <2> HIDE DEF m
    <2>6. \A u \in Tabs : sse'[u] = <<m>> /\ answers'[u] = {}
      BY <2>3, <2>4, <2>5, Sent DEF Arrived
    <2>7. \A u \in Tabs : Counted(u)'  BY <2>3, <2>6, CountedSent
    <2> QED  BY <2>7 DEF CountInv
  <1>11. ASSUME NEW j \in jobs, NeedsDecision(j)  PROVE CountInv'
    <2> DEFINE m == Msg("decision", staged)
    <2>1. Arrived /\ staged' = staged /\ tabs' = tabs /\ answers' = answers /\ Broadcast(<<m>>)
      BY <1>11 DEF NeedsDecision, AgentActs
    <2>2. m \in Events /\ m.type = "decision"  BY <1>0 DEF Msg, Events
    <2> QED  BY <2>1, <2>2, CountTold
  <1>12. ASSUME NEW j \in jobs, Failed(j)  PROVE CountInv'
    <2> DEFINE m == Msg("failed", 0)
    <2>1. Arrived /\ staged' = staged /\ tabs' = tabs /\ answers' = answers /\ Broadcast(<<m>>)
      BY <1>12 DEF Failed, AgentActs
    <2>2. m \in Events /\ m.type = "failed"  BY <1>0 DEF Msg, Events
    <2> QED  BY <2>1, <2>2, CountTold
  <1>13. CASE UNCHANGED vars
    <2>1. \A u \in Tabs : Counted(u)'  BY <1>13, CountedKept DEF vars, CountInv
    <2> QED  BY <2>1 DEF CountInv
  <1> QED
    BY <1>1, <1>2, <1>3, <1>4, <1>5, <1>6, <1>7, <1>8, <1>9, <1>10, <1>11, <1>12, <1>13 DEF Next

(* live-browser.js, updatePendingCounter: whatever order answers and       *)
(* events arrive in, and after a reload too, the count on a dock is that   *)
(* of the buffer once all has arrived, if a commit that an agent works on  *)
(* outlasts the messages under way.                                        *)
THEOREM CountsAgree ==
  ASSUME ~NoRunner
  PROVE  Spec => []CountIsStaged
  <1>1. CountInv => CountIsStaged  BY CountArrived DEF CountIsStaged, Settled
  <1>2. TypeInv /\ CountInv /\ [Next]_vars => CountInv'  BY CountStep
  <1> QED  BY <1>1, <1>2, TypeInit, TypeStep, CountInit, PTL DEF Spec

-----------------------------------------------------------------------------
(* Controls.                                                               *)

LEMMA FitInit == Init => FitInv /\ StuckInv
  BY DEF Init, FitInv, StuckInv, Fit, FitFree, FitAsking, FitBusy, Free, Fresh

(* Once all has arrived, the docks are as the commit is.                   *)
LEMMA FitArrived ==
  ASSUME FitInv, Arrived, reloads = 0, rollbacks = 0, NEW t \in Tabs
  PROVE  /\ jobs = {} /\ txn = 0 => Free(tabs[t])
         /\ jobs = {} /\ txn # 0 => staged > 0 /\ Asking(tabs[t])
         /\ jobs # {} => staged > 0 /\ Busy(tabs[t])
  BY DEF FitInv, Fit, FitFree, FitAsking, FitBusy, Arrived

LEMMA StuckArrived ==
  ASSUME StuckInv, Arrived, reloads = 0, rollbacks # 0, NEW t \in Tabs
  PROVE  /\ ~tabs[t].pill /\ ~tabs[t].trash /\ tabs[t].asks /\ ~tabs[t].inFlight
         /\ jobs = {} /\ txn = 0 /\ staged > 0
  BY DEF StuckInv, Stuck, Arrived

LEMMA FitHear ==
  ASSUME TypeInv, CountInv, FitInv, NEW t \in Tabs, Hear(t)
  PROVE  FitInv'
  <1> SUFFICES ASSUME reloads = 0, rollbacks = 0
               PROVE  \A u \in Tabs : Fit(u)'
    BY DEF FitInv, Hear
  <1> DEFINE m == Head(sse[t])
             d == tabs[t]
  <1>0. /\ sse \in [Tabs -> Seq(Events)] /\ sse[t] # <<>> /\ d \in Dock
        /\ staged \in 0 .. MaxSaves /\ tabs \in [Tabs -> Dock]
        /\ answers \in [Tabs -> SUBSET Replies]
    BY DEF TypeInv, TypeOK, Hear
  <1>1. /\ m \in Events /\ 1 \in DOMAIN sse[t] /\ sse[t][1] = m
        /\ \A i \in DOMAIN sse[t] :
             i = 1 \/ (i - 1 \in DOMAIN Tail(sse[t]) /\ Tail(sse[t])[i - 1] = sse[t][i])
    BY <1>0, TailOf
  <1>2. m.n \in 0 .. MaxSaves /\ m.repair \in BOOLEAN  BY <1>1 DEF Events
  <1>3. Counted(t) /\ Fit(t) /\ Tail(sse[t]) = <<>>  BY <1>0 DEF CountInv, FitInv, Fit
  <1>4. /\ tabs' = [tabs EXCEPT ![t] = Heard(d, m)] /\ sse' = [sse EXCEPT ![t] = Tail(@)]
        /\ IF m.type \in Fetches THEN Reply(t, "count", staged) ELSE UNCHANGED answers
        /\ staged' = staged /\ jobs' = jobs /\ txn' = txn
    BY DEF Hear
  <1>5. tabs'[t] = Heard(d, m) /\ sse'[t] = <<>>  BY <1>0, <1>3, <1>4
  <1>6. \A u \in Tabs : u # t => tabs'[u] = tabs[u] /\ sse'[u] = sse[u] /\ answers'[u] = answers[u]
    BY <1>0, <1>4, Replied
  <1>7. \A u \in Tabs : u # t => Fit(u)'
    BY <1>4, <1>6 DEF FitInv, Fit, FitFree, FitAsking, FitBusy
  <1>8. \/ answers'[t] = answers[t]
        \/ m.type \in Fetches /\ answers'[t] = answers[t] \cup {[type |-> "count", n |-> staged]}
    BY <1>0, <1>4, Replied
  <1> HIDE DEF m, d
  <1>9. CASE jobs = {} /\ txn = 0
    <2>1. FitFree(t)  BY <1>3, <1>9 DEF Fit
    <2>2. CASE m.type \in {"stashed", "discarded"} /\ Free(d)
      <3>1. Free(Heard(d, m))
        <4>1. CASE m.type = "stashed"
          <5>1. Heard(d, m) = Counter(d, m.n)  BY <4>1, <1>0, <1>1, HeardBy
          <5> QED  BY <5>1, <2>2, <1>0, <1>2, CounterOf
        <4>2. CASE m.type = "discarded"
          <5>1. Heard(d, m) = d  BY <4>2, <1>0, <1>1, HeardBy
          <5> QED  BY <5>1, <2>2
        <4> QED  BY <2>2, <4>1, <4>2
      <3>2. \A a \in answers'[t] : a.type \in {"count", "stash", "discard"}
        BY <1>8, <2>1 DEF FitFree
      <3>3. Fit(t)'  BY <1>4, <1>5, <1>9, <3>1, <3>2 DEF Fit, FitFree
      <3> QED  BY <1>7, <3>3
    <2>3. CASE m.type \in {"done", "failed"} /\ Busy(d)
      <3>1. Free(Heard(d, m))
        <4>1. CASE m.type = "done"
          <5>1. Heard(d, m) = Ended(d, m.n)  BY <4>1, <1>0, <1>1, HeardBy
          <5> QED  BY <5>1, <2>3, <1>0, <1>2, EndedOf DEF Busy
        <4>2. CASE m.type = "failed"
          <5>1. Heard(d, m) = Loading(d, FALSE)  BY <4>2, <1>0, <1>1, HeardBy
          <5> QED  BY <5>1, <2>3, <1>0, Freed DEF Busy
        <4> QED  BY <2>3, <4>1, <4>2
      <3>2. \A a \in answers'[t] : a.type \in {"count", "stash", "discard"}
        BY <1>8, <2>1 DEF FitFree
      <3>3. Fit(t)'  BY <1>4, <1>5, <1>9, <3>1, <3>2 DEF Fit, FitFree
      <3> QED  BY <1>7, <3>3
    <2> QED  BY <1>0, <2>1, <2>2, <2>3 DEF FitFree, m, d
  <1>10. CASE jobs = {} /\ txn # 0
    <2>1. FitAsking(t)  BY <1>3, <1>10 DEF Fit
    <2>2. m.type = "decision" /\ Busy(d) /\ staged > 0 /\ answers[t] = {}
      BY <1>0, <2>1 DEF FitAsking, m, d
    <2>3. d.count = staged
      <3>1. \A i \in DOMAIN sse[t] : i = 1  BY <1>1, <1>3
      <3>2. \A i \in DOMAIN sse[t] : sse[t][i].type = "decision"  BY <1>1, <2>2, <3>1
      <3> QED  BY <1>3, <2>2, <3>2 DEF Counted, Fetches, d
    <2>4. Heard(d, m) = Decision(d)  BY <2>2, <1>0, <1>1, HeardBy
    <2>5. Asking(Heard(d, m))  BY <1>0, <2>2, <2>3, <2>4, DecisionOf DEF Asking, Busy
    <2>6. answers'[t] = {}  BY <1>8, <2>2 DEF Fetches
    <2>7. Fit(t)'  BY <1>4, <1>5, <1>10, <2>2, <2>5, <2>6 DEF Fit, FitAsking
    <2> QED  BY <1>7, <2>7
  <1>11. CASE jobs # {}
    <2>1. FitBusy(t)  BY <1>3, <1>11 DEF Fit
    <2>2. staged > 0 /\ \A a \in answers[t] : a.type = "keep_fixing" /\ Busy(d)
      BY <2>1 DEF FitBusy, d
    <2>3. Busy(Heard(d, m)) /\ m.type \notin Fetches
      <3>1. CASE m.type = "repair"
        <4>1. d.count = staged
          <5>1. \A i \in DOMAIN sse[t] : i = 1  BY <1>1, <1>3
          <5>2. \A i \in DOMAIN sse[t] : sse[t][i].type = "repair"  BY <1>1, <3>1, <5>1
          <5>3. \A a \in answers[t] : a.type \notin Counting  BY <2>2 DEF Counting
          <5> QED  BY <1>3, <5>2, <5>3 DEF Counted, Fetches, d
        <4>2. Heard(d, m) = Repairing(d)  BY <3>1, <1>0, <1>1, HeardBy
        <4> QED  BY <1>0, <2>2, <3>1, <4>1, <4>2, RepairingOf DEF Fetches
      <3>2. CASE m.type = "started"
        <4>1. m.n = staged  BY <1>1, <1>3, <3>2 DEF Counted
        <4>2. Heard(d, m) = Started(d, m.n, m.repair)  BY <3>2, <1>0, <1>1, HeardBy
        <4>3. Busy(Started(d, m.n, m.repair))  BY <1>0, <1>2, <2>2, <4>1, StartedOf
        <4> QED  BY <3>2, <4>2, <4>3 DEF Fetches
      <3> QED  BY <1>0, <2>1, <3>1, <3>2 DEF FitBusy, m
    <2>4. answers'[t] = answers[t]  BY <1>8, <2>3
    <2>5. Fit(t)'  BY <1>4, <1>5, <1>11, <2>2, <2>3, <2>4 DEF Fit, FitBusy
    <2> QED  BY <1>7, <2>5
  <1> QED  BY <1>9, <1>10, <1>11

LEMMA StuckHear ==
  ASSUME TypeInv, StuckInv, NEW t \in Tabs, Hear(t)
  PROVE  StuckInv'
  <1> SUFFICES ASSUME reloads = 0, rollbacks # 0
               PROVE  \A u \in Tabs : Stuck(u)'
    BY DEF StuckInv, Hear
  <1> DEFINE m == Head(sse[t])
             d == tabs[t]
  <1>0. /\ sse \in [Tabs -> Seq(Events)] /\ sse[t] # <<>> /\ d \in Dock
        /\ staged \in 0 .. MaxSaves /\ tabs \in [Tabs -> Dock]
        /\ answers \in [Tabs -> SUBSET Replies]
    BY DEF TypeInv, TypeOK, Hear
  <1>1. m \in Events  BY <1>0, TailOf
  <1>2. /\ ~d.pill /\ ~d.trash /\ d.asks /\ ~d.inFlight
        /\ Tail(sse[t]) = <<>> /\ m.type = "rolled_back"
        /\ \A a \in answers[t] : a.type \in {"rollback", "count"}
    BY <1>0 DEF StuckInv, Stuck
  <1>3. /\ tabs' = [tabs EXCEPT ![t] = Heard(d, m)] /\ sse' = [sse EXCEPT ![t] = Tail(@)]
        /\ Reply(t, "count", staged)
    BY <1>2 DEF Hear, Fetches
  <1>4. Heard(d, m) = [d EXCEPT !.stored = "none"]  BY <1>0, <1>1, <1>2, HeardBy
  <1>5. tabs'[t] = [d EXCEPT !.stored = "none"] /\ sse'[t] = <<>>  BY <1>0, <1>2, <1>3, <1>4
  <1>6. \A u \in Tabs : u # t => tabs'[u] = tabs[u] /\ sse'[u] = sse[u] /\ answers'[u] = answers[u]
    BY <1>0, <1>3, Replied
  <1>7. \A u \in Tabs : u # t => Stuck(u)'  BY <1>6 DEF StuckInv, Stuck
  <1>8. answers'[t] = answers[t] \cup {[type |-> "count", n |-> staged]}  BY <1>0, <1>3, Replied
  <1>9. \A a \in answers'[t] : a.type \in {"rollback", "count"}  BY <1>2, <1>8
  <1>10. /\ ~tabs'[t].pill /\ ~tabs'[t].trash /\ tabs'[t].asks /\ ~tabs'[t].inFlight
         /\ tabs'[t].stored = "none"
    BY <1>0, <1>2, <1>5, StoredOf DEF Phases
  <1>11. Stuck(t)'  BY <1>5, <1>9, <1>10 DEF Stuck
  <1> QED  BY <1>7, <1>11

LEMMA FitReceive ==
  ASSUME TypeInv, FitInv, NEW t \in Tabs, NEW a \in answers[t], Receive(t, a)
  PROVE  FitInv'
  <1> SUFFICES ASSUME reloads = 0, rollbacks = 0
               PROVE  \A u \in Tabs : Fit(u)'
    BY DEF FitInv, Receive
  <1> DEFINE d == tabs[t]
  <1>0. d \in Dock /\ a \in Replies /\ tabs \in [Tabs -> Dock] /\ answers \in [Tabs -> SUBSET Replies]
    BY DEF TypeInv, TypeOK
  <1>1. a.n \in 0 .. MaxSaves /\ Fit(t)  BY <1>0 DEF Replies, FitInv
  <1>2. /\ tabs' = [tabs EXCEPT ![t] = Answer(d, a)] /\ sse' = sse
        /\ answers' = [answers EXCEPT ![t] = @ \ {a}]
        /\ staged' = staged /\ jobs' = jobs /\ txn' = txn
    BY DEF Receive
  <1>3. tabs'[t] = Answer(d, a) /\ answers'[t] = answers[t] \ {a}  BY <1>0, <1>2
  <1>4. \A u \in Tabs : u # t => tabs'[u] = tabs[u] /\ answers'[u] = answers[u]  BY <1>0, <1>2
  <1>5. \A u \in Tabs : u # t => Fit(u)'
    BY <1>2, <1>4 DEF FitInv, Fit, FitFree, FitAsking, FitBusy
  <1> HIDE DEF d
  <1>6. CASE jobs = {} /\ txn = 0
    <2>1. FitFree(t)  BY <1>1, <1>6 DEF Fit
    <2>2. Free(d) /\ a.type \in {"count", "stash", "discard"}  BY <2>1 DEF FitFree, d
    <2>3. Answer(d, a) = Counter(d, a.n)  BY <1>0, <2>2, AnswerBy
    <2>4. Free(Answer(d, a))  BY <1>0, <1>1, <2>2, <2>3, CounterOf
    <2>5. FitFree(t)'  BY <1>2, <1>3, <2>1, <2>4 DEF FitFree
    <2>6. Fit(t)'  BY <1>1, <1>2, <1>6, <2>5 DEF Fit
    <2> QED  BY <1>5, <2>6
  <1>7. CASE jobs = {} /\ txn # 0
    BY <1>1, <1>7 DEF Fit, FitAsking
  <1>8. CASE jobs # {}
    <2>1. FitBusy(t)  BY <1>1, <1>8 DEF Fit
    <2>2. Busy(d) /\ a.type = "keep_fixing"  BY <2>1 DEF FitBusy, d
    <2>3. Answer(d, a) = [d EXCEPT !.asks = FALSE, !.trashShown = TRUE]  BY <1>0, <2>2, AnswerBy
    <2>4. Busy(Answer(d, a))  BY <1>0, <2>2, <2>3, GoesOn
    <2>5. FitBusy(t)'  BY <1>2, <1>3, <2>1, <2>4 DEF FitBusy
    <2>6. Fit(t)'  BY <1>1, <1>2, <1>8, <2>5 DEF Fit
    <2> QED  BY <1>5, <2>6
  <1> QED  BY <1>6, <1>7, <1>8

LEMMA StuckReceive ==
  ASSUME TypeInv, CountInv, StuckInv, NEW t \in Tabs, NEW a \in answers[t], Receive(t, a)
  PROVE  StuckInv'
  <1> SUFFICES ASSUME reloads = 0, rollbacks # 0
               PROVE  \A u \in Tabs : Stuck(u)'
    BY DEF StuckInv, Receive
  <1> DEFINE d == tabs[t]
  <1>0. /\ d \in Dock /\ a \in Replies /\ tabs \in [Tabs -> Dock]
        /\ answers \in [Tabs -> SUBSET Replies] /\ staged \in 0 .. MaxSaves
    BY DEF TypeInv, TypeOK
  <1>1. Stuck(t) /\ Counted(t) /\ staged > 0  BY DEF StuckInv, CountInv
  <1>2. /\ tabs' = [tabs EXCEPT ![t] = Answer(d, a)] /\ sse' = sse
        /\ answers' = [answers EXCEPT ![t] = @ \ {a}]
    BY DEF Receive
  <1>3. tabs'[t] = Answer(d, a) /\ answers'[t] = answers[t] \ {a} /\ sse'[t] = sse[t]  BY <1>0, <1>2
  <1>4. \A u \in Tabs : u # t => tabs'[u] = tabs[u] /\ answers'[u] = answers[u]  BY <1>0, <1>2
  <1>5. \A u \in Tabs : u # t => Stuck(u)'  BY <1>2, <1>4 DEF StuckInv, Stuck
  <1> HIDE DEF d
  <1>6. CASE a.type \in {"rollback", "count"}
    <2>1. /\ ~d.pill /\ ~d.trash /\ d.asks /\ ~d.inFlight
          /\ a.type = "count" => d.stored = "none"
          /\ sse[t] # <<>> => Tail(sse[t]) = <<>> /\ Head(sse[t]).type = "rolled_back"
          /\ \A b \in answers[t] : b.type \in {"rollback", "count"}
      BY <1>1, <1>6 DEF Stuck, d
    <2>2. a.n = staged  BY <1>1, <1>6 DEF Counted, Counting
    <2>3. PICK e \in Dock : /\ Answer(d, a) = Counter(e, a.n)
                            /\ ~e.pill /\ ~e.trash /\ e.asks /\ ~e.inFlight /\ e.stored = "none"
      <3>1. CASE a.type = "rollback"
        <4> DEFINE e == [d EXCEPT !.stored = "none"]
        <4>1. e \in Dock /\ e.stored = "none"  BY <1>0, StoredOf DEF Phases
        <4>2. ~e.pill /\ ~e.trash /\ e.asks /\ ~e.inFlight  BY <1>0, <2>1 DEF Dock
        <4>3. Answer(d, a) = Counter(e, a.n)  BY <1>0, <3>1, AnswerBy
        <4> HIDE DEF e
        <4> QED  BY <4>1, <4>2, <4>3
      <3>2. CASE a.type = "count"
        <4>1. Answer(d, a) = Counter(d, a.n)  BY <1>0, <3>2, AnswerBy
        <4> QED  BY <1>0, <2>1, <3>2, <4>1
      <3> QED  BY <1>6, <3>1, <3>2
    <2>6. a.n \in 0 .. MaxSaves /\ a.n > 0  BY <1>0, <1>1, <2>2
    <2>4. /\ ~Answer(d, a).pill /\ ~Answer(d, a).trash /\ Answer(d, a).asks
          /\ ~Answer(d, a).inFlight /\ Answer(d, a).stored = "none"
      <3>1. /\ ~Counter(e, a.n).inFlight /\ Counter(e, a.n).stored = "none"
            /\ Counter(e, a.n).pill = e.pill /\ Counter(e, a.n).trash = e.trash
            /\ Counter(e, a.n).asks = e.asks
        BY <2>3, <2>6, CounterOf
      <3> QED  BY <2>3, <3>1, Zenon
    <2>5. Stuck(t)'  BY <1>3, <2>1, <2>4 DEF Stuck
    <2> QED  BY <1>5, <2>5
  <1>7. CASE a.type = "no_transaction"
    <2>1. answers'[t] = {} /\ sse[t] = <<>> /\ ~d.trash  BY <1>1, <1>3, <1>7 DEF Stuck, d
    <2>2. Answer(d, a) = Decision(d)  BY <1>0, <1>7, AnswerBy
    <2>3. /\ ~Answer(d, a).pill /\ ~Answer(d, a).trash /\ Answer(d, a).asks
          /\ ~Answer(d, a).inFlight
      BY <1>0, <2>1, <2>2, DecisionOf
    <2>4. Stuck(t)'  BY <1>3, <2>1, <2>3 DEF Stuck
    <2> QED  BY <1>5, <2>4
  <1> QED  BY <1>1, <1>6, <1>7 DEF Stuck

(* A commit ends, well or not: every dock will be free.                    *)
LEMMA FitEnds ==
  ASSUME TypeInv, FitInv, Arrived, NEW j \in jobs, NEW m \in Events, m.type \in {"done", "failed"},
         Broadcast(<<m>>), tabs' = tabs, answers' = answers, jobs' = jobs \ {j},
         txn' = IF txn = j.txn THEN 0 ELSE txn, reloads' = reloads, rollbacks' = rollbacks
  PROVE  FitInv'
  <1> SUFFICES ASSUME reloads = 0, rollbacks = 0
               PROVE  /\ \A k \in jobs' : jobs' = {k} /\ k.txn = txn'
                      /\ \A u \in Tabs : Fit(u)'
    BY DEF FitInv
  <1>1. jobs = {j} /\ j.txn = txn  BY DEF FitInv
  <1>2. jobs' = {} /\ txn' = 0  BY <1>1
  <1>3. \A u \in Tabs : sse'[u] = <<m>> /\ answers'[u] = {}  BY Sent DEF Arrived
  <1>4. \A u \in Tabs : Busy(tabs'[u])  BY <1>1, FitArrived
  <1>5. \A u \in Tabs : FitFree(u)'  BY <1>3, <1>4 DEF FitFree
  <1> QED  BY <1>2, <1>3, <1>5, OfOne DEF Fit

(* The acts of users and agents, told to every tab.                        *)
LEMMA FitStep ==
  ASSUME ~NoRunner, ~AskedSaves
  PROVE  TypeInv /\ CountInv /\ FitInv /\ StuckInv /\ [Next]_vars => FitInv'
  <1> SUFFICES ASSUME TypeInv, CountInv, FitInv, StuckInv, [Next]_vars PROVE FitInv'  OBVIOUS
  <1>0. /\ staged \in 0 .. MaxSaves /\ tabs \in [Tabs -> Dock]
        /\ sse \in [Tabs -> Seq(Events)] /\ answers \in [Tabs -> SUBSET Replies]
        /\ MaxSaves \in Nat /\ MaxCommits \in Nat /\ 0 \in 0 .. MaxSaves
        /\ txn \in 0 .. MaxCommits /\ commits \in 0 .. MaxCommits
        /\ rollbacks \in Nat /\ reloads \in Nat
        /\ \A j \in jobs : j.txn \in 1 .. MaxCommits
    BY DockAssumption DEF TypeInv, TypeOK, DockAssumption
  <1>1. ASSUME NEW t \in Tabs, Hear(t)  PROVE FitInv'  BY <1>1, FitHear
  <1>2. ASSUME NEW t \in Tabs, NEW a \in answers[t], Receive(t, a)  PROVE FitInv'
    BY <1>2, FitReceive
  <1>3. ASSUME NEW t \in Tabs, Save(t)  PROVE FitInv'
    <2> SUFFICES ASSUME reloads = 0, rollbacks = 0
                 PROVE  /\ \A j \in jobs' : jobs' = {j} /\ j.txn = txn'
                        /\ \A u \in Tabs : Fit(u)'
      BY <1>3 DEF FitInv, Save
    <2> DEFINE m == Msg("stashed", staged + 1)
    <2>1. /\ Arrived /\ ~tabs[t].inFlight /\ ~tabs[t].asks /\ staged + 1 \in 0 .. MaxSaves
          /\ jobs' = jobs /\ txn' = txn /\ tabs' = tabs
      BY <1>0, <1>3 DEF Save
    <2>2. jobs = {} /\ txn = 0  BY <2>1, FitArrived DEF Busy, Asking
    <2>3. m \in Events /\ m.type = "stashed"  BY <2>1 DEF Msg, Events
    <2>4. Broadcast(<<m>>) /\ Reply(t, "stash", staged + 1)  BY <1>3 DEF Save
    <2> HIDE DEF m
    <2>5. \A u \in Tabs : sse'[u] = <<m>>  BY <2>1, <2>3, <2>4, Sent
    <2>6. \A u \in Tabs : \A a \in answers'[u] : a.type = "stash"
      BY <2>1, <2>4, Replied DEF Arrived
    <2>7. \A u \in Tabs : Free(tabs'[u])  BY <2>1, <2>2, FitArrived
    <2>8. \A u \in Tabs : FitFree(u)'  BY <2>3, <2>5, <2>6, <2>7 DEF FitFree
    <2> QED  BY <2>1, <2>2, <2>5, <2>8, OfOne DEF Fit
  <1>4. ASSUME NEW t \in Tabs, Apply(t)  PROVE FitInv'
    <2> SUFFICES ASSUME reloads = 0, rollbacks = 0
                 PROVE  /\ \A j \in jobs' : jobs' = {j} /\ j.txn = txn'
                        /\ \A u \in Tabs : Fit(u)'
      BY <1>4 DEF FitInv, Apply
    <2> DEFINE e == [tabs[t] EXCEPT !.stored = "applying"]
               n == commits + 1
               new == [id |-> n, txn |-> n, edits |-> staged, attempt |-> 0]
    <2>1. /\ Arrived /\ tabs[t].pill /\ tabs[t].count > 0 /\ staged' = staged
          /\ tabs' = [tabs EXCEPT ![t] = Loading(e, TRUE)] /\ answers' = answers
          /\ n \in 1 .. MaxCommits /\ txn' = IF staged > 0 THEN n ELSE 0
      BY <1>0, <1>4 DEF Apply
    <2>2. jobs = {} /\ txn = 0  BY <2>1, FitArrived DEF Busy, Asking
    <2>3. staged > 0 /\ staged # 0  BY <1>0, <2>1, CountArrived
    <2>4. Begin(n, n, FALSE)  BY <1>4 DEF Apply
    <2>5. e \in Dock /\ e.stored = "applying"  BY <1>0, StoredOf DEF Phases
    <2>6. new.txn = n  OBVIOUS
    <2>7. txn' = n  BY <2>1, <2>3
    <2> HIDE DEF e, n
    <2>8. PICK m \in Events : m.type = "started" /\ \A u \in Tabs : sse'[u] = <<m>>
      BY <2>1, <2>3, <2>4, Began
    <2>12. jobs' = jobs \cup {new}  BY <2>1, <2>3, <2>4, Began
    <2>9. Busy(tabs'[t])  BY <1>0, <2>1, <2>5, Locked DEF Busy
    <2>10. \A u \in Tabs : u # t => Free(tabs'[u])  BY <1>0, <2>1, <2>2, FitArrived
    <2> HIDE DEF new
    <2>13. \A u \in Tabs : answers'[u] = {}  BY <2>1 DEF Arrived
    <2>11. \A u \in Tabs : FitBusy(u)'  BY <2>1, <2>3, <2>8, <2>9, <2>10, <2>13, OfOne DEF FitBusy
    <2> QED  BY <2>2, <2>6, <2>7, <2>8, <2>11, <2>12, OfOne DEF Fit
  <1>5. ASSUME NEW t \in Tabs, KeepFixing(t)  PROVE FitInv'
    <2> SUFFICES ASSUME reloads = 0, rollbacks = 0
                 PROVE  /\ \A j \in jobs' : jobs' = {j} /\ j.txn = txn'
                        /\ \A u \in Tabs : Fit(u)'
      BY <1>5 DEF FitInv, KeepFixing
    <2> DEFINE n == commits + 1
               new == [id |-> n, txn |-> txn, edits |-> staged, attempt |-> 0]
    <2>1. /\ Arrived /\ tabs[t].asks /\ tabs[t].count > 0
          /\ staged' = staged /\ txn' = txn
          /\ tabs' = [tabs EXCEPT ![t] = Repairing(@)] /\ n \in 1 .. MaxCommits
      BY <1>0, <1>5 DEF KeepFixing
    <2>2. jobs = {} /\ txn # 0 /\ staged > 0  BY <2>1, FitArrived DEF Busy, Free
    <2>11. staged # 0  BY <2>2
    <2>3. Begin(n, txn, TRUE) /\ Reply(t, "keep_fixing", 0)  BY <1>5, <2>2 DEF KeepFixing
    <2>4. txn \in 1 .. MaxCommits /\ new.txn = txn  BY <1>0, <2>2
    <2> HIDE DEF n
    <2>5. PICK m \in Events : /\ m.type = "started" /\ m.repair /\ jobs' = jobs \cup {new}
                              /\ \A u \in Tabs : sse'[u] = <<m>>
      <3> DEFINE m == [Msg("started", staged) EXCEPT !.repair = TRUE]
      <3>1. m \in Events /\ m.type = "started" /\ m.repair = TRUE
        BY <2>1, <2>3, <2>4, <2>11, Began
      <3>2. \A u \in Tabs : sse'[u] = <<m>>  BY <2>1, <2>3, <2>4, <2>11, Began
      <3>3. jobs' = jobs \cup {new}  BY <2>1, <2>3, <2>4, <2>11, Began
      <3> HIDE DEF m
      <3> QED  BY <3>1, <3>2, <3>3
    <2>6. Busy(tabs'[t])  BY <1>0, <2>1, RepairingOf
    <2>7. \A u \in Tabs : u # t => Asking(tabs'[u])  BY <1>0, <2>1, <2>2, FitArrived
    <2>8. /\ \A a \in answers'[t] : a.type = "keep_fixing"
          /\ \A u \in Tabs : u # t => answers'[u] = {}
      BY <1>0, <2>1, <2>3, Replied DEF Arrived
    <2> HIDE DEF new
    <2>9. FitBusy(t)'  BY <2>1, <2>2, <2>5, <2>6, <2>8 DEF FitBusy
    <2>10. \A u \in Tabs : u # t => FitBusy(u)'
      BY <2>1, <2>2, <2>5, <2>7, <2>8 DEF FitBusy
    <2> QED  BY <2>1, <2>2, <2>4, <2>5, <2>9, <2>10, OfOne DEF Fit
  <1>6. ASSUME NEW t \in Tabs, Rollback(t)  PROVE FitInv'
    BY <1>0, <1>6 DEF Rollback, FitInv
  <1>7. ASSUME NEW t \in Tabs, Discard(t)  PROVE FitInv'
    <2> SUFFICES ASSUME reloads = 0, rollbacks = 0
                 PROVE  /\ \A j \in jobs' : jobs' = {j} /\ j.txn = txn'
                        /\ \A u \in Tabs : Fit(u)'
      BY <1>7 DEF FitInv, Discard
    <2> DEFINE m == Msg("discarded", 0)
    <2>1. /\ Arrived /\ tabs[t].trash /\ tabs' = tabs /\ txn' = 0
          /\ jobs' = {[j EXCEPT !.edits = 0] : j \in jobs}
          /\ Broadcast(<<m>>) /\ Reply(t, "discard", 0)
      BY <1>7 DEF Discard
    <2>2. jobs = {} /\ txn = 0  BY <2>1, FitArrived DEF Busy, Asking
    <2>3. m \in Events /\ m.type = "discarded"  BY <1>0 DEF Msg, Events
    <2> HIDE DEF m
    <2>4. \A u \in Tabs : sse'[u] = <<m>>  BY <2>1, <2>3, Sent
    <2>5. \A u \in Tabs : \A a \in answers'[u] : a.type = "discard"
      BY <1>0, <2>1, Replied DEF Arrived
    <2>6. \A u \in Tabs : Free(tabs'[u])  BY <2>1, <2>2, FitArrived
    <2>7. \A u \in Tabs : FitFree(u)'  BY <2>3, <2>4, <2>5, <2>6 DEF FitFree
    <2>8. jobs' = {}  BY <2>1, <2>2
    <2> QED  BY <2>1, <2>4, <2>7, <2>8, OfOne DEF Fit
  <1>8. ASSUME NEW t \in Tabs, Reload(t)  PROVE FitInv'
    BY <1>0, <1>8 DEF Reload, FitInv
  <1>9. ASSUME NEW j \in jobs, RepairStep(j)  PROVE FitInv'
    <2> SUFFICES ASSUME reloads = 0, rollbacks = 0
                 PROVE  /\ \A k \in jobs' : jobs' = {k} /\ k.txn = txn'
                        /\ \A u \in Tabs : Fit(u)'
      BY <1>9 DEF FitInv, RepairStep
    <2> DEFINE m == Msg("repair", staged)
               new == [j EXCEPT !.attempt = @ + 1]
    <2>1. /\ Arrived /\ tabs' = tabs /\ txn' = txn /\ staged' = staged /\ answers' = answers
          /\ Broadcast(<<m>>) /\ jobs' = (jobs \ {j}) \cup {new}
      BY <1>9 DEF RepairStep, AgentActs
    <2>2. jobs = {j} /\ j.txn = txn  BY DEF FitInv
    <2>3. new.txn = j.txn
      <3>1. j \in [id : 1 .. MaxCommits, txn : 1 .. MaxCommits, edits : 0 .. MaxSaves,
                   attempt : 0 .. MaxAttempts]
        BY DEF TypeInv, TypeOK
      <3> QED  BY <3>1
    <2>4. m \in Events /\ m.type = "repair"  BY <1>0 DEF Msg, Events
    <2> HIDE DEF m, new
    <2>5. \A u \in Tabs : sse'[u] = <<m>> /\ answers'[u] = {}  BY <2>1, <2>4, Sent DEF Arrived
    <2>6. jobs' = {new}  BY <2>1, <2>2
    <2>7. \A u \in Tabs : staged' > 0 /\ Busy(tabs'[u])  BY <2>1, <2>2, FitArrived
    <2>8. \A u \in Tabs : FitBusy(u)'  BY <2>4, <2>5, <2>7 DEF FitBusy
    <2> QED  BY <2>1, <2>2, <2>3, <2>5, <2>6, <2>8, OfOne DEF Fit
  <1>10. ASSUME NEW j \in jobs, Done(j)  PROVE FitInv'
    <2>1. PICK left \in 0 .. staged : staged' = left /\ Broadcast(<<Msg("done", left)>>)
      BY <1>10 DEF Done
    <2> DEFINE m == Msg("done", left)
    <2>2. left \in 0 .. MaxSaves  BY <1>0, <2>1
    <2>3. m \in Events /\ m.type = "done"  BY <2>2 DEF Msg, Events
    <2>4. /\ Arrived /\ tabs' = tabs /\ answers' = answers /\ jobs' = jobs \ {j}
          /\ txn' = IF txn = j.txn THEN 0 ELSE txn
          /\ reloads' = reloads /\ rollbacks' = rollbacks
      BY <1>10 DEF Done, AgentActs
    <2>5. Broadcast(<<m>>)  BY <2>1
    <2> QED  BY <2>3, <2>4, <2>5, FitEnds
  <1>11. ASSUME NEW j \in jobs, NeedsDecision(j)  PROVE FitInv'
    <2> SUFFICES ASSUME reloads = 0, rollbacks = 0
                 PROVE  /\ \A k \in jobs' : jobs' = {k} /\ k.txn = txn'
                        /\ \A u \in Tabs : Fit(u)'
      BY <1>11 DEF FitInv, NeedsDecision
    <2> DEFINE m == Msg("decision", staged)
    <2>1. /\ Arrived /\ tabs' = tabs /\ txn' = txn /\ staged' = staged /\ answers' = answers
          /\ Broadcast(<<m>>) /\ jobs' = jobs \ {j}
      BY <1>11 DEF NeedsDecision, AgentActs
    <2>2. jobs = {j} /\ j.txn = txn  BY DEF FitInv
    <2>3. jobs' = {} /\ txn' # 0  BY <1>0, <2>1, <2>2
    <2>4. m \in Events /\ m.type = "decision"  BY <1>0 DEF Msg, Events
    <2> HIDE DEF m
    <2>5. \A u \in Tabs : sse'[u] = <<m>> /\ answers'[u] = {}  BY <2>1, <2>4, Sent DEF Arrived
    <2>6. \A u \in Tabs : Busy(tabs'[u]) /\ staged' > 0  BY <2>1, <2>2, FitArrived
    <2>7. \A u \in Tabs : FitAsking(u)'  BY <2>4, <2>5, <2>6 DEF FitAsking
    <2> QED  BY <2>3, <2>5, <2>7, OfOne DEF Fit
  <1>12. ASSUME NEW j \in jobs, Failed(j)  PROVE FitInv'
    <2> DEFINE m == Msg("failed", 0)
    <2>1. m \in Events /\ m.type = "failed"  BY <1>0 DEF Msg, Events
    <2>2. /\ Arrived /\ tabs' = tabs /\ answers' = answers /\ jobs' = jobs \ {j}
          /\ txn' = IF txn = j.txn THEN 0 ELSE txn
          /\ reloads' = reloads /\ rollbacks' = rollbacks /\ Broadcast(<<m>>)
      BY <1>12 DEF Failed, AgentActs
    <2> QED  BY <2>1, <2>2, FitEnds
  <1>13. CASE UNCHANGED vars
    BY <1>13 DEF vars, FitInv, Fit, FitFree, FitAsking, FitBusy
  <1> QED
    BY <1>1, <1>2, <1>3, <1>4, <1>5, <1>6, <1>7, <1>8, <1>9, <1>10, <1>11, <1>12, <1>13 DEF Next

LEMMA StuckStep ==
  ASSUME ~NoRunner, ~AskedSaves
  PROVE  TypeInv /\ CountInv /\ FitInv /\ StuckInv /\ [Next]_vars => StuckInv'
  <1> SUFFICES ASSUME TypeInv, CountInv, FitInv, StuckInv, [Next]_vars PROVE StuckInv'  OBVIOUS
  <1>0. /\ staged \in 0 .. MaxSaves /\ tabs \in [Tabs -> Dock]
        /\ sse \in [Tabs -> Seq(Events)] /\ answers \in [Tabs -> SUBSET Replies]
        /\ rollbacks \in Nat /\ reloads \in Nat /\ 0 \in 0 .. MaxSaves
    BY DockAssumption DEF TypeInv, TypeOK, DockAssumption
  <1>1. ASSUME NEW t \in Tabs, Hear(t)  PROVE StuckInv'  BY <1>1, StuckHear
  <1>2. ASSUME NEW t \in Tabs, NEW a \in answers[t], Receive(t, a)  PROVE StuckInv'
    BY <1>2, StuckReceive
  <1>3. ASSUME NEW t \in Tabs, Save(t)  PROVE StuckInv'
    BY <1>3, StuckArrived DEF Save, StuckInv
  <1>4. ASSUME NEW t \in Tabs, Apply(t)  PROVE StuckInv'
    BY <1>4, StuckArrived DEF Apply, StuckInv
  <1>5. ASSUME NEW t \in Tabs, KeepFixing(t)  PROVE StuckInv'
    <2> SUFFICES ASSUME reloads = 0, rollbacks # 0
                 PROVE  jobs' = {} /\ txn' = 0 /\ staged' > 0 /\ \A u \in Tabs : Stuck(u)'
      BY <1>5 DEF StuckInv, KeepFixing
    <2>1. Arrived /\ tabs' = [tabs EXCEPT ![t] = Repairing(@)] /\ tabs[t].count > 0
      BY <1>5 DEF KeepFixing
    <2>2. jobs = {} /\ txn = 0 /\ staged > 0  BY <2>1, StuckArrived
    <2>3. /\ jobs' = jobs /\ txn' = txn /\ staged' = staged /\ sse' = sse
          /\ Reply(t, "no_transaction", 0)
      BY <1>5, <2>2 DEF KeepFixing
    <2>4. /\ ~tabs'[t].pill /\ ~tabs'[t].trash /\ tabs'[t].inFlight /\ ~tabs'[t].asks
      BY <1>0, <2>1, RepairingOf
    <2>5. answers'[t] = {[type |-> "no_transaction", n |-> 0]} /\ sse'[t] = <<>>
      BY <1>0, <2>1, <2>3, Replied DEF Arrived
    <2>6. Stuck(t)'  BY <2>4, <2>5 DEF Stuck
    <2>7. \A u \in Tabs : u # t => tabs'[u] = tabs[u] /\ answers'[u] = answers[u]
      BY <1>0, <2>1, <2>3, Replied
    <2>8. \A u \in Tabs : u # t => Stuck(u)'  BY <2>3, <2>7 DEF StuckInv, Stuck
    <2> QED  BY <2>2, <2>3, <2>6, <2>8
  <1>6. ASSUME NEW t \in Tabs, Rollback(t)  PROVE StuckInv'
    <2> SUFFICES ASSUME reloads = 0
                 PROVE  jobs' = {} /\ txn' = 0 /\ staged' > 0 /\ \A u \in Tabs : Stuck(u)'
      BY <1>6 DEF StuckInv, Rollback
    <2> DEFINE m == Msg("rolled_back", staged)
    <2>1. /\ Arrived /\ tabs[t].asks /\ txn' = 0 /\ staged' = staged /\ jobs' = jobs
          /\ tabs' = tabs /\ Broadcast(<<m>>) /\ Reply(t, "rollback", staged)
      BY <1>6 DEF Rollback
    <2>2. /\ jobs = {} /\ staged > 0
          /\ \A u \in Tabs : /\ ~tabs[u].pill /\ ~tabs[u].trash
                             /\ tabs[u].asks /\ ~tabs[u].inFlight
      <3>1. CASE rollbacks = 0
        <4>1. jobs = {} /\ txn # 0 /\ staged > 0  BY <2>1, <3>1, FitArrived DEF Busy, Free
        <4> QED  BY <2>1, <3>1, <4>1, FitArrived DEF Asking
      <3>2. CASE rollbacks # 0  BY <2>1, <3>2, StuckArrived
      <3> QED  BY <3>1, <3>2
    <2>3. m \in Events /\ m.type = "rolled_back"  BY <1>0 DEF Msg, Events
    <2> HIDE DEF m
    <2>4. \A u \in Tabs : sse'[u] = <<m>>  BY <2>1, <2>3, Sent
    <2>5. \A u \in Tabs : \A a \in answers'[u] : a.type = "rollback"
      BY <1>0, <2>1, Replied DEF Arrived
    <2>6. \A u \in Tabs : Stuck(u)'  BY <2>1, <2>2, <2>3, <2>4, <2>5, OfOne DEF Stuck
    <2> QED  BY <2>1, <2>2, <2>6
  <1>7. ASSUME NEW t \in Tabs, Discard(t)  PROVE StuckInv'
    BY <1>7, StuckArrived DEF Discard, StuckInv
  <1>8. ASSUME NEW t \in Tabs, Reload(t)  PROVE StuckInv'
    BY <1>0, <1>8 DEF Reload, StuckInv
  <1>9. ASSUME NEW j \in jobs, RepairStep(j) \/ Done(j) \/ NeedsDecision(j) \/ Failed(j)
        PROVE  StuckInv'
    BY <1>9 DEF RepairStep, Done, NeedsDecision, Failed, StuckInv
  <1>10. CASE UNCHANGED vars
    BY <1>10 DEF vars, StuckInv, Stuck
  <1> QED
    BY <1>1, <1>2, <1>3, <1>4, <1>5, <1>6, <1>7, <1>8, <1>9, <1>10 DEF Next

(* live-browser.js:4081, live-browser.js:4152, live.md:534: until a tab is *)
(* loaded again, once all has arrived staged edits can be applied and      *)
(* discarded in every tab, unless a commit was rolled back; or a commit    *)
(* was given up and every tab asks; and none is left loading.  It takes a  *)
(* user who saves nothing while a tab asks, and an agent at work on what   *)
(* is committed.                                                           *)
THEOREM EditsStayInReach ==
  ASSUME ~NoRunner, ~AskedSaves
  PROVE  Spec => []ControlsFit
  <1> DEFINE DInv == TypeInv /\ CountInv /\ FitInv /\ StuckInv
  <1>1. Init => DInv  BY TypeInit, CountInit, FitInit
  <1>2. DInv /\ [Next]_vars => DInv'  BY TypeStep, CountStep, FitStep, StuckStep
  <1>3. DInv => ControlsFit
    <2> SUFFICES ASSUME DInv, reloads = 0, Settled
                 PROVE  /\ \A t \in Tabs : ~tabs[t].inFlight
                        /\ txn # 0 => \A t \in Tabs : tabs[t].asks
                        /\ rollbacks = 0 /\ txn = 0 => \A t \in Tabs : tabs[t].pill /\ tabs[t].trash
      BY DEF ControlsFit, LoadingMeansApplying, DecisionIsOffered, EditsCanBeApplied
    <2>1. CASE rollbacks = 0  BY <2>1, FitArrived DEF Settled, Free, Asking
    <2>2. CASE rollbacks # 0  BY <2>2, StuckArrived DEF Settled
    <2> QED  BY <2>1, <2>2
  <1> QED  BY <1>1, <1>2, <1>3, PTL DEF Spec
=============================================================================
