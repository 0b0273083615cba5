----------------------------- MODULE LiveServer -----------------------------
(***************************************************************************)
(* The helper server of the bundled live-variant tool                      *)
(* (.agents/skills/impeccable/scripts/live-server.mjs) with its journal    *)
(* (live/session-store.mjs), the agent that polls it (live-poll.mjs,       *)
(* live-complete.mjs) and the pages whose events it queues.                *)
(*                                                                         *)
(* An event of a page is written to the journal of its session, queued in  *)
(* memory, leased to a poll of the agent and removed by the agent's reply. *)
(* Time is the ticks left of a lease or of the timer.  A session is asked  *)
(* for once; of a variant only its number is kept.                         *)
(***************************************************************************)
EXTENDS Integers, Sequences, FiniteSets, SequencesExt, FiniteSetsExt

CONSTANTS Sessions, Steers,  \* ids of generate sessions and of steer messages
          Variants,          \* numbers of variants
          Clients,           \* pages that may be connected by SSE
          Lease,             \* ticks until a lease expires
          MaxHeld,           \* bound on polls parked plus events the agent holds
          MaxForgets,        \* bound on events the agent drops without an answer
          MaxLost,           \* bound on answers to a page that get lost
          MaxRevision,       \* bound on the checkpoints of a session
          MaxAnonymous,      \* bound on prefetch and exit events
          MaxRestarts        \* bound on restarts of the server

ASSUME LiveAssumption ==
  /\ Sessions \cap Steers = {} /\ IsFiniteSet(Sessions \cup Steers)
  /\ "none" \notin Sessions \cup Steers /\ Variants \subseteq Nat \ {0}
  /\ {Lease, MaxHeld} \subseteq Nat \ {0}
  /\ {MaxForgets, MaxLost, MaxRevision, MaxAnonymous, MaxRestarts} \subseteq Nat

VARIABLES up,         \* the server runs
          queue,      \* state.pendingEvents
          polls,      \* how many polls are parked, state.pendingPolls
          timer,      \* ticks left of state.leaseTimer, NoTimer if there is none
          clients,    \* state.sseClients
          exitTimer,  \* state.exitTimer is set
          journal,    \* [Ids -> Snapshot], what the journals of the sessions say
          held,       \* the events the agent got and has not answered, in order
          page,       \* [Ids -> Page], the page that started the session
          sent,       \* checkpoints on their way
          forgets, lost, anonymous, restarts

vars == <<up, queue, polls, timer, clients, exitTimer, journal, held, page, sent,
          forgets, lost, anonymous, restarts>>

Ids     == Sessions \cup Steers
NoId    == "none"
NoEvent == "none"
NoTimer == -1

Entry == [id : Ids \cup {NoId}, variant : Variants \cup {0}, lease : 0 .. Lease, auto : BOOLEAN,
          type : {"generate", "accept", "discard", "steer", "exit", "prefetch"}]

PageStates == {"new", "generating", "cycling", "saving", "steer", "gone"}
Page == [state : PageStates, revision : 0 .. MaxRevision]

Snapshot == [phase : PageStates \cup
                     {"generate_requested", "variants_ready", "carbonize_required",
                      "accept_requested", "discard_requested", "discarded", "completed",
                      "agent_error", "steer_requested", "steer_done"},
             pending : {NoEvent, "generate", "accept", "discard", "steer"},
             variant : Variants \cup {0}, revision : 0 .. MaxRevision]

Checkpoint == [id : Ids, phase : PageStates, revision : 0 .. MaxRevision]

Init ==
  /\ up = TRUE
  /\ queue = <<>> /\ polls = 0 /\ timer = NoTimer
  /\ clients = {} /\ exitTimer = FALSE
  /\ journal = [s \in Ids |-> [phase |-> "new", pending |-> NoEvent, variant |-> 0, revision |-> 0]]
  /\ held = <<>>
  /\ page = [s \in Ids |-> [state |-> "new", revision |-> 0]]
  /\ sent = {}
  /\ forgets = 0 /\ lost = 0 /\ anonymous = 0 /\ restarts = 0

-----------------------------------------------------------------------------
(* The journal: what an appended event makes of a snapshot (applyEvent).   *)

Terminal(s) == journal[s].phase \in {"completed", "discarded"}

PhaseOf == [generate |-> "generate_requested", accept |-> "accept_requested",
            discard |-> "discard_requested", steer |-> "steer_requested"]

Requested(j, type, v) ==
  [j EXCEPT !.phase = PhaseOf[type], !.pending = type, !.variant = IF type = "accept" THEN v ELSE @]

(* The phase that a reply of the agent leads to; it clears what is pending.*)
Replied(j, phase) == [j EXCEPT !.phase = phase, !.pending = NoEvent]

Noted(j, c) ==
  IF j.phase \notin {"completed", "discarded"} /\ c.revision >= j.revision
  THEN [j EXCEPT !.phase = c.phase, !.revision = c.revision] ELSE j

-----------------------------------------------------------------------------
(* The queue.                                                              *)

NewEntry(id, type, v, auto) == [id |-> id, type |-> type, variant |-> v, auto |-> auto, lease |-> 0]

(* A deliberate mistake (PendingIsQueued): one event per session.          *)
Queued_ById(q, e) ==
  IF e.id # NoId /\ \E i \in DOMAIN q : q[i].id = e.id THEN q ELSE Append(q, e)

Queued(q, e) ==
  IF e.id # NoId /\ \E i \in DOMAIN q : q[i].id = e.id /\ q[i].type = e.type
  THEN q ELSE Append(q, e)

Available(q) == {i \in DOMAIN q : q[i].lease = 0}

(* The place that comes k-th.                                              *)
Nth(places, k) == CHOOSE i \in places : Cardinality({j \in places : j <= i}) = k

(* The entries that go to the first `n` polls parked.                      *)
Taken(q, n) == {Nth(Available(q), k) : k \in 1 .. Min({n, Cardinality(Available(q))})}

(* The entries of `q` at `places`, in their order.                         *)
AtPlaces(q, places) == [k \in 1 .. Cardinality(places) |-> q[Nth(places, k)]]

(* A leased entry stays until it is answered; an anonymous one is removed. *)
Leased(q, taken) ==
  LET marked == [i \in DOMAIN q |-> [q[i] EXCEPT !.lease = IF i \in taken THEN Lease ELSE @]]
  IN  IF \A i \in taken : q[i].id # NoId THEN marked
      ELSE AtPlaces(marked, {i \in DOMAIN q : q[i].id # NoId \/ i \notin taken})

(* scheduleLeaseFlush: the timer of the lease that expires first.          *)
NextExpiry(q) ==
  LET leases == {q[i].lease : i \in DOMAIN q} \ {0}
  IN  IF leases = {} THEN NoTimer ELSE Min(leases)

(* flushPendingPolls, with `n` polls parked, `h` what the agent has.       *)
Flush(q, n, h) ==
  LET taken == Taken(q, n)
  IN  /\ polls' = n - Cardinality(taken)
      /\ queue' = Leased(q, taken)
      /\ held' = h \o AtPlaces(q, taken)
      /\ timer' = NextExpiry(queue')

(* A deliberate mistake (NoIdlePoll): nobody flushes after a post.         *)
Enqueue_NoFlush(e) == queue' = Queued(queue, e) /\ UNCHANGED <<polls, held, timer>>

Enqueue(e) == Flush(Queued(queue, e), polls, held)

(* acknowledgePendingEvent: the first entry of that id, whatever its type. *)
Acknowledged(id) ==
  LET mine == {i \in DOMAIN queue : queue[i].id = id}
  IN  IF mine = {} THEN queue ELSE RemoveAt(queue, Min(mine))

Waiting(id) == \E i \in DOMAIN queue : queue[i].id = id


-----------------------------------------------------------------------------
(* The pages: POST /events.                                                *)

Post(id, type, v) ==
  /\ up
  /\ journal' = [journal EXCEPT ![id] = Requested(@, type, v)]
  /\ Enqueue(NewEntry(id, type, v, FALSE))

Generate(s) ==
  /\ page[s].state = "new"
  /\ Post(s, "generate", 0)
  /\ page' = [page EXCEPT ![s].state = "generating"]
  /\ UNCHANGED <<up, clients, exitTimer, sent, forgets, lost, anonymous, restarts>>

Steer(s) ==
  /\ page[s].state = "new"
  /\ Post(s, "steer", 0)
  /\ page' = [page EXCEPT ![s].state = "steer"]
  /\ UNCHANGED <<up, clients, exitTimer, sent, forgets, lost, anonymous, restarts>>

(* The variants appear in the page as soon as the agent has written them,  *)
(* before its reply or after.                                              *)
VariantsArrive(s) ==
  /\ page[s].state = "generating"
  /\ \/ journal[s].phase = "variants_ready"
     \/ \E i \in DOMAIN held : held[i].id = s /\ held[i].type = "generate"
  /\ page' = [page EXCEPT ![s].state = "cycling"]
  /\ UNCHANGED <<up, queue, polls, timer, clients, exitTimer, journal, held, sent,
                 forgets, lost, anonymous, restarts>>

(* When the answer is lost the page offers to try again.                   *)
Accept(s, v) ==
  /\ page[s].state = "cycling"
  /\ Post(s, "accept", v)
  /\ \/ page' = [page EXCEPT ![s].state = "saving"] /\ lost' = lost
     \/ lost < MaxLost /\ page' = page /\ lost' = lost + 1
  /\ UNCHANGED <<up, clients, exitTimer, sent, forgets, anonymous, restarts>>

Discard(s) ==
  /\ page[s].state = "cycling"
  /\ Post(s, "discard", 0)
  /\ \/ page' = [page EXCEPT ![s].state = "gone"] /\ lost' = lost
     \/ lost < MaxLost /\ page' = page /\ lost' = lost + 1
  /\ UNCHANGED <<up, clients, exitTimer, sent, forgets, anonymous, restarts>>

SendCheckpoint(s) ==
  /\ page[s].state \notin {"new", "gone"} /\ page[s].revision < MaxRevision
  /\ page' = [page EXCEPT ![s].revision = @ + 1]
  /\ sent' = sent \cup {[id |-> s, phase |-> page[s].state, revision |-> page[s].revision + 1]}
  /\ UNCHANGED <<up, queue, polls, timer, clients, exitTimer, journal, held, forgets,
                 lost, anonymous, restarts>>

(* It arrives at any time, in any order, or, with the server down, never.  *)
CheckpointArrives(c) ==
  /\ sent' = sent \ {c}
  /\ journal' = IF up THEN [journal EXCEPT ![c.id] = Noted(@, c)] ELSE journal
  /\ UNCHANGED <<up, queue, polls, timer, clients, exitTimer, held, page, forgets,
                 lost, anonymous, restarts>>

(* The exit button and prefetch have no id: they are not journaled.        *)
PostAnonymous(type) ==
  /\ up /\ anonymous < MaxAnonymous
  /\ Enqueue(NewEntry(NoId, type, 0, FALSE))
  /\ anonymous' = anonymous + 1
  /\ UNCHANGED <<up, clients, exitTimer, journal, page, sent, forgets, lost, restarts>>

(* GET /events: a page connects, and queued exits are cancelled.           *)
Connect(c) ==
  /\ up /\ c \notin clients
  /\ clients' = clients \cup {c}
  /\ exitTimer' = FALSE
  /\ IF \E i \in DOMAIN queue : queue[i].type = "exit"
     THEN /\ queue' = AtPlaces(queue, {i \in DOMAIN queue : queue[i].type # "exit"})
          /\ timer' = NextExpiry(queue')
     ELSE UNCHANGED <<queue, timer>>
  /\ UNCHANGED <<up, polls, journal, held, page, sent, forgets, lost, anonymous, restarts>>

Disconnect(c) ==
  /\ c \in clients
  /\ clients' = clients \ {c}
  /\ exitTimer' = (exitTimer \/ clients' = {})
  /\ UNCHANGED <<up, queue, polls, timer, journal, held, page, sent, forgets, lost,
                 anonymous, restarts>>

(* Eight seconds without a page.                                           *)
ExitTimerFires ==
  /\ up /\ exitTimer /\ anonymous < MaxAnonymous
  /\ exitTimer' = FALSE
  /\ anonymous' = anonymous + 1
  /\ IF clients = {} THEN Enqueue(NewEntry(NoId, "exit", 0, TRUE))
                     ELSE UNCHANGED <<queue, polls, timer, held>>
  /\ UNCHANGED <<up, clients, journal, page, sent, forgets, lost, restarts>>

-----------------------------------------------------------------------------
(* The agent.                                                              *)

Poll ==
  /\ up /\ polls + Len(held) < MaxHeld
  /\ IF Available(queue) # {}
     THEN /\ queue' = Leased(queue, Taken(queue, 1))
          /\ held' = held \o AtPlaces(queue, Taken(queue, 1))
          /\ timer' = IF Len(queue') = Len(queue) THEN NextExpiry(queue') ELSE timer
          /\ polls' = polls
     ELSE /\ polls' = polls + 1
          /\ timer' = NextExpiry(queue)
          /\ UNCHANGED <<queue, held>>
  /\ UNCHANGED <<up, clients, exitTimer, journal, page, sent, forgets, lost, anonymous,
                 restarts>>

(* A poll ends without an event: its timeout, or the connection closed.    *)
PollEnds ==
  /\ polls > 0
  /\ polls' = polls - 1
  /\ UNCHANGED <<up, queue, timer, clients, exitTimer, journal, held, page, sent,
                 forgets, lost, anonymous, restarts>>

(* What the page makes of a reply that SSE brings it.                      *)
Informed(p, reply) ==
  CASE reply = "discarded" -> [p EXCEPT !.state = "gone"]
    [] reply = "completed" /\ p.state = "saving" -> [p EXCEPT !.state = "gone"]
    [] reply = "agent_error" -> [p EXCEPT !.state = IF @ = "saving" THEN "cycling" ELSE "gone"]
    [] reply = "steer_done" -> [p EXCEPT !.state = "gone"]
    [] OTHER -> p

(* POST /poll with a reply to `id`, of an agent that then has `h`.         *)
PollPost(id, reply, h) ==
  /\ up
  /\ IF Waiting(id) \/ journal[id].phase # "new"
     THEN /\ journal' = IF ~Waiting(id) /\ Terminal(id) THEN journal
                        ELSE [journal EXCEPT ![id] = Replied(@, reply)]
          /\ Flush(Acknowledged(id), polls, h)
          /\ page' \in {page} \cup
                 (IF clients = {} THEN {} ELSE {[page EXCEPT ![id] = Informed(@, reply)]})
     ELSE held' = h /\ UNCHANGED <<journal, queue, polls, timer, page>>

Replies(e) ==
  CASE e.type = "generate" -> {"variants_ready", "agent_error"}
    [] e.type = "accept"   -> {"completed", "carbonize_required", "variants_ready", "agent_error"}
    [] e.type = "discard"  -> {"discarded", "agent_error"}
    [] e.type = "steer"    -> {"steer_done", "agent_error"}

Reply(i) ==
  /\ held[i].id # NoId
  /\ \E reply \in Replies(held[i]) : PollPost(held[i].id, reply, RemoveAt(held, i))
  /\ UNCHANGED <<up, clients, exitTimer, sent, forgets, lost, anonymous, restarts>>

(* The agent is interrupted, or has read a prefetch.                       *)
Forget(i) ==
  /\ held[i].type # "exit"
  /\ \/ held[i].id = NoId /\ forgets' = forgets
     \/ held[i].id # NoId /\ forgets < MaxForgets /\ forgets' = forgets + 1
  /\ held' = RemoveAt(held, i)
  /\ UNCHANGED <<up, queue, polls, timer, clients, exitTimer, journal, page, sent,
                 lost, anonymous, restarts>>

(* live-complete.mjs after a carbonize cleanup: through the server, or     *)
(* straight into the journal when it is down.                              *)
LiveComplete(s) ==
  /\ journal[s].phase = "carbonize_required"
  /\ IF up THEN PollPost(s, "completed", held)
     ELSE /\ journal' = [journal EXCEPT ![s] = Replied(@, "completed")]
          /\ UNCHANGED <<queue, polls, timer, held, page>>
  /\ UNCHANGED <<up, clients, exitTimer, sent, forgets, lost, anonymous, restarts>>

-----------------------------------------------------------------------------
(* Time, and the server's life.                                            *)

Tick ==
  /\ up /\ \E i \in DOMAIN queue : queue[i].lease > 0
  /\ queue' = [i \in DOMAIN queue |-> [queue[i] EXCEPT !.lease = IF @ = 0 THEN 0 ELSE @ - 1]]
  /\ timer' = IF timer > 0 THEN timer - 1 ELSE timer
  /\ UNCHANGED <<up, polls, clients, exitTimer, journal, held, page, sent, forgets,
                 lost, anonymous, restarts>>

LeaseTimerFires ==
  /\ up /\ timer = 0
  /\ Flush(queue, polls, held)
  /\ UNCHANGED <<up, clients, exitTimer, journal, page, sent, forgets, lost, anonymous,
                 restarts>>

Down ==
  /\ up /\ up' = FALSE
  /\ queue' = <<>> /\ polls' = 0 /\ timer' = NoTimer
  /\ clients' = {} /\ exitTimer' = FALSE

Crash ==
  /\ restarts < MaxRestarts
  /\ Down
  /\ UNCHANGED <<journal, held, page, sent, forgets, lost, anonymous, restarts>>

(* The agent stops the server when it is told to exit.                     *)
Stop(i) ==
  /\ held[i].type = "exit"
  /\ Down
  /\ held' = RemoveAt(held, i)
  /\ UNCHANGED <<journal, page, sent, forgets, lost, anonymous, restarts>>

(* restorePendingEventsFromStore, session by session.                      *)
Restored ==
  LET waiting == {s \in Ids : ~Terminal(s) /\ journal[s].pending # NoEvent}
      order   == SetToSeq(waiting)
  IN  [k \in DOMAIN order |->
         NewEntry(order[k], journal[order[k]].pending,
                  IF journal[order[k]].pending = "accept" THEN journal[order[k]].variant ELSE 0, FALSE)]

Start ==
  /\ ~up /\ restarts < MaxRestarts
  /\ up' = TRUE /\ restarts' = restarts + 1
  /\ queue' = Restored
  /\ UNCHANGED <<polls, timer, clients, exitTimer, journal, held, page, sent, forgets,
                 lost, anonymous>>

-----------------------------------------------------------------------------
Pages ==
  \/ \E s \in Sessions :
       \/ Generate(s) \/ VariantsArrive(s) \/ Discard(s)
       \/ \E v \in Variants : Accept(s, v)
  \/ \E s \in Steers : Steer(s)
  \/ \E s \in Ids : SendCheckpoint(s)
  \/ \E c \in sent : CheckpointArrives(c)
  \/ \E type \in {"exit", "prefetch"} : PostAnonymous(type)
  \/ \E c \in Clients : Connect(c) \/ Disconnect(c)

Agent ==
  \/ Poll \/ PollEnds
  \/ \E i \in DOMAIN held : Reply(i) \/ Forget(i) \/ Stop(i)
  \/ \E s \in Sessions : LiveComplete(s)

Server == Tick \/ LeaseTimerFires \/ ExitTimerFires \/ Crash \/ Start

Next == Pages \/ Agent \/ Server

Spec == Init /\ [][Next]_vars

(* Timers fire and time passes while the server runs; the agent's loop     *)
(* polls again whenever it may, and answers what it got.  Nothing obliges  *)
(* a page.                                                                 *)
FairSpec ==
  /\ Spec
  /\ WF_vars(Tick) /\ WF_vars(LeaseTimerFires)
  /\ SF_vars(Poll)
  /\ WF_vars(\E i \in DOMAIN held : Reply(i) \/ Stop(i))
  /\ WF_vars(\E i \in DOMAIN held : held[i].id = NoId /\ Forget(i))

-----------------------------------------------------------------------------
(* Properties.                                                             *)

(* Every variable holds values of its type.                                *)
TypeOK ==
  /\ up \in BOOLEAN /\ exitTimer \in BOOLEAN
  /\ queue \in Seq(Entry) /\ held \in Seq(Entry)
  /\ polls \in 0 .. MaxHeld /\ timer \in NoTimer .. Lease
  /\ clients \subseteq Clients
  /\ journal \in [Ids -> Snapshot] /\ page \in [Ids -> Page]
  /\ sent \subseteq Checkpoint

(* No lost wake-up: a poll is parked while an event is available only in   *)
(* the moment between a lease's expiry and its timer.                      *)
NoIdlePoll == polls > 0 /\ Available(queue) # {} => timer = 0

(* What the journal says is pending is in the running server's queue.      *)
PendingIsQueued ==
  up => \A s \in DOMAIN journal : ~Terminal(s) /\ journal[s].pending # NoEvent =>
          \E i \in DOMAIN queue : queue[i].id = s /\ queue[i].type = journal[s].pending

(* live.md:89: a restart requeues what was not acknowledged: the journal   *)
(* of a session with something queued has something pending.               *)
QueuedIsPending ==
  \A i \in DOMAIN queue : queue[i].id # NoId => journal[queue[i].id].pending # NoEvent

(* The exit that is queued because every page left never waits for the     *)
(* agent while a page is there again.                                      *)
ExitMeansAlone == \A i \in DOMAIN queue : queue[i].auto => clients = {}

(* What the journal says is pending is in the running server's queue; an   *)
(* exit is there by itself only while every page is gone.                  *)
PendingIsInQueue == PendingIsQueued /\ ExitMeansAlone

(* live-complete.mjs:25: the acknowledgement of a session is final: only a *)
(* new request of its page reopens a session completed or discarded, never *)
(* a late checkpoint or reply.                                             *)
ReopenedOnlyByPage ==
  [][\A s \in Ids : Terminal(s) =>
       journal'[s].phase = journal[s].phase \/ journal'[s].pending # NoEvent]_vars

(* The variant the agent will write is the one accepted last.              *)
AcceptedIsLatest ==
  \A i \in DOMAIN queue : queue[i].type = "accept" => queue[i].variant = journal[queue[i].id].variant

(* An event that waits for a poll is handed over in the end.               *)
EventsReachAgent ==
  \A s \in Ids : Waiting(s) ~> (~up \/ ~Waiting(s) \/ \E i \in DOMAIN held : held[i].id = s)
=============================================================================
