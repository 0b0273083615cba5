---------------------------- MODULE LiveBrowser ----------------------------
(***************************************************************************)
(* A session of variants as one page sees it: the overlay of the bundled   *)
(* live tool (.agents/skills/impeccable/scripts/live-browser.js) with what *)
(* it keeps in localStorage (live-browser-session.js).  Go opens a session,*)
(* the variants reach the page by a hot update or by a fetch of the source,*)
(* the user accepts or discards them, the agent rewrites the source.       *)
(*                                                                         *)
(* The live server is what the page sees of it: a queue of work for the    *)
(* agent, a stream of events, the list of active sessions, the source file *)
(* (LiveServer is the server itself).  The answer to a post comes before   *)
(* the user's next gesture.  Events, hot updates, timers, the agent and    *)
(* the requests for the source take their time, whatever the user does.    *)
(***************************************************************************)
EXTENDS Integers, Sequences, FiniteSets, SequencesExt, BagsExt

CONSTANTS Sessions,     \* ids of sessions, each asked for at most once
          Steers,       \* ids of steer messages
          Count,        \* variants asked for
          MaxToggles,   \* bound on times the element's container closes or opens
          MaxReloads,   \* bound on reloads of the page
          MaxDrops,     \* bound on losses of the event stream
          MaxFailures,  \* bound on posts and source requests that fail
          MaxErrors,    \* bound on errors the agent reports
          MaxBare,      \* bound on done replies that name no file
          HotUpdates,   \* the dev server updates the page when the source changes
          MaxTimeouts   \* bound on steers that wait longer than STEER_AWAIT_TIMEOUT_MS

ASSUME BrowserAssumption ==
  /\ Sessions \cap Steers = {} /\ HotUpdates \in BOOLEAN /\ Count \in Nat \ {0}
  /\ {MaxToggles, MaxReloads, MaxDrops, MaxFailures, MaxErrors, MaxBare, MaxTimeouts} \subseteq Nat

VARIABLES tab,      \* the overlay's variables and its localStorage, see Tab
          dom,      \* [Sessions -> variants in the wrapper on the page, NoWrapper if none]
          source,   \* [Sessions -> variants in the wrapper in the source file]
          hot,      \* a hot update of the source is on its way to the page
          mounted,  \* the page shows the part that holds the picked element
          work,     \* what the agent has to do, in order
          events,   \* events on their way to the page
          link,     \* the event stream is connected
          timers,   \* timers of the page
          gets,     \* requests for the source that have no answer yet
          capture,  \* sessions whose screenshot is being taken
          asked,    \* sessions whose generate reached the server
          active,   \* sessions the server lists as active
          filed,    \* sessions whose file the server knows
          steer,    \* the steer message the bar waits for
          fate,     \* what became of a session
          used      \* how much of each bound is used

vars == <<tab, dom, source, hot, mounted, work, events, link, timers, gets, capture, asked,
          active, filed, steer, fate, used>>

None      == "none"
NoWrapper == -1
Bounds    == [toggles |-> MaxToggles, reloads |-> MaxReloads, drops |-> MaxDrops,
              failures |-> MaxFailures, errors |-> MaxErrors, bare |-> MaxBare,
              timeouts |-> MaxTimeouts]

States    == {"IDLE", "PICKING", "CONFIGURING", "GENERATING", "CYCLING", "SAVING", "CONFIRMED"}
Optional  == Sessions \cup {None}
NoSession == [id |-> None, state |-> "IDLE", arrived |-> 0, file |-> FALSE]
NoAccept  == [id |-> None, finalizing |-> FALSE]
Unread    == -2     \* of a request: the server has not read the file yet
Get       == [id : Sessions, html : Unread .. Count]

Tab == [state : States, current : Optional, arrived : 0 .. Count,
        file      : BOOLEAN,     \* currentSourceFile is known
        pending   : [id : Optional, finalizing : BOOLEAN],  \* pendingAcceptedSession
        observing : Optional,    \* variantObserver
        scout     : BOOLEAN,     \* the observer of init that waits for a wrapper
        retry     : Optional,    \* pendingVariantAnchorRetryObserver
        stored    : [id : Optional, state : States, arrived : 0 .. Count, file : BOOLEAN],
        handled   : Optional]

Blank == [state |-> "IDLE", current |-> None, arrived |-> 0, file |-> FALSE, pending |-> NoAccept,
          observing |-> None, scout |-> FALSE, retry |-> None, stored |-> NoSession, handled |-> None]

Empty == [s \in Sessions |-> NoWrapper]

Init ==
  /\ tab = [Blank EXCEPT !.state = "PICKING", !.scout = TRUE]
  /\ dom = Empty /\ source = Empty /\ hot = FALSE /\ mounted = TRUE
  /\ work = <<>> /\ events = <<>> /\ link = TRUE /\ timers = {} /\ gets = EmptyBag
  /\ capture = {} /\ asked = {} /\ active = {} /\ filed = {} /\ steer = None
  /\ fate = [s \in Sessions |-> "new"]
  /\ used = [b \in DOMAIN Bounds |-> 0]

MayUse(b) == used[b] < Bounds[b]
Use(b)    == MayUse(b) /\ used' = [used EXCEPT ![b] = @ + 1]

World == <<source, mounted, link, asked, active, filed, fate>>

-----------------------------------------------------------------------------
(* What the overlay does to its own state.                                 *)

SaveSession(t) ==
  IF t.current = None THEN t
  ELSE [t EXCEPT !.stored = [id |-> t.current, state |-> t.state, arrived |-> t.arrived, file |-> t.file]]

MarkHandled(t) == IF t.current = None THEN t ELSE [t EXCEPT !.handled = t.current]

Cleanup(t) ==
  [t EXCEPT !.state = "PICKING", !.current = None, !.file = FALSE, !.observing = None,
            !.retry = None, !.stored = NoSession]

CleanupAccepted(t) ==
  [t EXCEPT !.state = "PICKING", !.current = None, !.file = FALSE, !.observing = None,
            !.pending = NoAccept, !.stored = NoSession]

(* The variant observer saw the page `d` change.                           *)
(* A deliberate mistake (VariantsAreOffered): one variant too many awaited.*)
Observed_All(t, d) ==
  IF t.observing = None \/ t.arrived = Count THEN t
  ELSE IF d[t.observing] <= t.arrived THEN t
  ELSE SaveSession([t EXCEPT !.arrived = d[t.observing],
                             !.state = IF d[t.observing] > Count THEN "CYCLING" ELSE @])

Observed(t, d) ==
  IF t.observing = None \/ d[t.observing] <= t.arrived THEN t
  ELSE SaveSession([t EXCEPT !.arrived = d[t.observing],
                             !.state = IF d[t.observing] >= Count THEN "CYCLING" ELSE @])

(* The request of injectVariantsFromSource.                                *)
Requested(g, s) == BagAdd(g, [id |-> s, html |-> Unread])

(* What injectVariantsFromSource makes of an answer `r`, on a page `d` that *)
(* shows the element if `m`: a tab, a page, and the session that cleanup   *)
(* closes if there are no variants (recoverEmptyCycling).  It looks        *)
(* neither at the state nor at the session that is open by then.           *)
Injected(t, d, m, r) ==
  LET page == [d EXCEPT ![r.id] = r.html]
      seen == [t EXCEPT !.retry = None, !.arrived = r.html]
  IN  IF r.html = NoWrapper THEN [tab |-> t, dom |-> d, closed |-> {}]
      ELSE IF d[r.id] = NoWrapper /\ ~m
      THEN [tab |-> SaveSession([t EXCEPT !.state = "GENERATING", !.retry = r.id]),
            dom |-> d, closed |-> {}]
      ELSE IF r.html = 0
      THEN [tab |-> Cleanup(seen), dom |-> page, closed |-> {t.current} \ {None}]
      ELSE [tab |-> SaveSession([seen EXCEPT !.state = "CYCLING"]), dom |-> page, closed |-> {}]

(* A deliberate mistake (UndecidedIsKept): only a finished wait is restored.*)
Restorable_Cycling(t, listed) ==
  /\ t.stored.id \notin {None, t.handled}
  /\ t.stored.state = "CYCLING"
  /\ listed = {} \/ t.stored.id \in listed

(* restoreSessionWithoutWrapper; `listed` is what the server calls active. *)
Restorable(t, listed) ==
  /\ t.stored.id \notin {None, t.handled}
  /\ t.stored.state \in {"GENERATING", "CYCLING"}
  /\ listed = {} \/ t.stored.id \in listed

(* A deliberate mistake (GenerateEnds): the file is only the stored one.   *)
Restored_Stored(t, listed) ==
  LET s == t.stored.id
  IN  SaveSession([t EXCEPT !.current = s, !.arrived = t.stored.arrived, !.state = "GENERATING",
                            !.file = t.stored.file, !.observing = s])

Restored(t, listed) ==
  LET s == t.stored.id
  IN  SaveSession([t EXCEPT !.current = s, !.arrived = t.stored.arrived, !.state = "GENERATING",
                            !.file = t.stored.file \/ s \in listed \cap filed, !.observing = s])

(* ... with the request for the file that it knows.                        *)
Restoring(g, t) == IF t.file THEN Requested(g, t.current) ELSE g

(* resumeSession for the wrapper of session s.                             *)
Resumed(t, d, s) ==
  IF s = t.handled THEN t
  ELSE SaveSession([t EXCEPT !.current = s, !.arrived = d[s], !.observing = s,
                             !.file = IF t.stored.id = s THEN t.stored.file ELSE @,
                             !.state = IF d[s] >= Count THEN "CYCLING" ELSE "GENERATING"])

Wrapped(d) == {s \in Sessions : d[s] # NoWrapper}

(* The observers of a page that became `d`, in the order of their creation: *)
(* the scout of init, the observer of the variants, and that of a retry,   *)
(* for which the page now shows the element (`m`) or the wrapper.          *)
(* Of several wrappers either may be the first of the document.            *)
Scouted(t, d) ==
  IF t.scout /\ Wrapped(d) # {} THEN {Resumed([t EXCEPT !.scout = FALSE], d, s) : s \in Wrapped(d)}
                                ELSE {t}

Reactions(t, d) == {Observed(u, d) : u \in Scouted(t, d)}

Retries(t, d, m) == t.retry # None /\ (m \/ d[t.retry] # NoWrapper)

(* The page becomes `d`: its tab was `t`, its requests were `g`.           *)
Become(t, d, m, g) ==
  /\ dom' = d
  /\ \E r \in Reactions(t, d) :
       IF Retries(r, d, m)
       THEN tab' = [r EXCEPT !.retry = None, !.file = TRUE] /\ gets' = Requested(g, r.retry)
       ELSE tab' = r /\ gets' = g

Post(w)      == work' = Append(work, w)
Broadcast(m) == events' = IF link THEN Append(events, m) ELSE events

-----------------------------------------------------------------------------
(* The user.                                                               *)

(* handleClick and Enter on a hovered element; Escape takes it back.       *)
Pick ==
  /\ mounted
  /\ \/ tab.state = "PICKING" /\ tab' = [tab EXCEPT !.state = "CONFIGURING"]
     \/ tab.state = "CONFIGURING" /\ tab' = [tab EXCEPT !.state = "PICKING"]
  /\ UNCHANGED <<dom, hot, work, events, timers, gets, capture, steer, used, World>>

(* handleGo: the checkpoint tells the server at once, captureAndEmit later.*)
Go(s) ==
  /\ tab.state = "CONFIGURING" /\ fate[s] = "new"
  /\ tab' = SaveSession([tab EXCEPT !.pending = NoAccept, !.current = s, !.arrived = 0,
                                    !.file = FALSE, !.state = "GENERATING", !.observing = s])
  /\ capture' = capture \cup {s}
  /\ active' = active \cup {s}
  /\ fate' = [fate EXCEPT ![s] = "open"]
  /\ UNCHANGED <<dom, source, hot, mounted, work, events, link, timers, gets, asked, filed, steer, used>>

(* The end of captureAndEmit: a generate that fails to be sent is dropped. *)
Emit(s) ==
  /\ s \in capture
  /\ capture' = capture \ {s}
  /\ \/ asked' = asked \cup {s} /\ Post([type |-> "generate", id |-> s]) /\ UNCHANGED used
     \/ Use("failures") /\ UNCHANGED <<asked, work>>
  /\ UNCHANGED <<tab, dom, source, hot, mounted, events, link, timers, gets, active, filed, steer, fate>>

(* handleAccept, which undoes itself when its post fails.                  *)
Accept ==
  LET s == tab.current
      t == SaveSession([tab EXCEPT !.state = "SAVING", !.pending = [id |-> s, finalizing |-> FALSE]])
  IN  /\ tab.state = "CYCLING" /\ s # None /\ tab.arrived > 0 /\ tab.pending = NoAccept
      /\ \/ /\ tab' = t
            /\ Post([type |-> "accept", id |-> s])
            /\ active' = active \ {s}
            /\ fate' = [fate EXCEPT ![s] = "accepted"]
            /\ UNCHANGED used
         \/ /\ Use("failures")
            /\ tab' = [t EXCEPT !.state = "CYCLING", !.pending = NoAccept]
            /\ UNCHANGED <<work, active, fate>>
      /\ UNCHANGED <<dom, source, hot, mounted, events, link, timers, gets, capture, asked, filed, steer>>

Discard ==
  LET s == tab.current
  IN  /\ tab.state = "CYCLING" /\ s # None
      /\ tab' = Cleanup(MarkHandled(tab))
      /\ timers' = timers \cup {[kind |-> "unwrap", id |-> s]}
      /\ Post([type |-> "discard", id |-> s])
      /\ active' = active \ {s}
      /\ fate' = [fate EXCEPT ![s] = "discarded"]
      /\ UNCHANGED <<dom, source, hot, mounted, events, link, gets, capture, asked, filed, steer, used>>

(* submitSteerMessage: the bar is locked until an answer or the timeout.   *)
SubmitSteer(x) ==
  /\ steer = None /\ tab.state # "IDLE"
  /\ \A i \in 1 .. Len(work) : work[i].id # x
  /\ x \notin asked
  /\ steer' = x /\ asked' = asked \cup {x}
  /\ Post([type |-> "steer", id |-> x])
  /\ UNCHANGED <<tab, dom, source, hot, mounted, events, link, timers, gets, capture, active, filed, fate, used>>

SteerTimeout ==
  /\ steer # None /\ Use("timeouts")
  /\ steer' = None
  /\ UNCHANGED <<tab, dom, hot, work, events, timers, gets, capture, World>>

(* A dialog or a tab of the page closes or opens: its elements go or come. *)
Toggle ==
  /\ Use("toggles")
  /\ mounted' = ~mounted
  /\ Become(tab, IF mounted THEN Empty ELSE source, ~mounted, gets)
  /\ hot' = FALSE
  /\ UNCHANGED <<source, work, events, link, timers, capture, asked, active, filed, steer, fate>>

-----------------------------------------------------------------------------
(* The page: hot updates, reloads, timers.                                 *)

HotUpdate ==
  /\ HotUpdates /\ hot /\ mounted
  /\ hot' = FALSE
  /\ Become(tab, source, mounted, gets)
  /\ UNCHANGED <<work, events, timers, capture, steer, used, World>>

(* A page load with the storage of tab `t`: init with resumeSession.  What *)
(* it renders at once may not hold the element yet.  The event stream      *)
(* connects later.                                                         *)
Load(t) ==
  \E m \in BOOLEAN :
    LET d      == IF m THEN source ELSE Empty
        fresh  == [Blank EXCEPT !.stored = t.stored, !.handled = t.handled]
        ended  == [fresh EXCEPT !.stored = NoSession, !.handled = None]
        asks   == Wrapped(d) = {} /\ Restorable(fresh, {})
        loaded == IF Wrapped(d) # {} THEN {Resumed(fresh, d, s) : s \in Wrapped(d)}
                  ELSE IF asks THEN {Restored(fresh, {})} ELSE {ended}
    IN  /\ mounted' = m /\ dom' = d
        /\ \E r \in loaded :
             /\ tab' = [r EXCEPT !.scout = r.current = None,
                                 !.state = IF @ = "IDLE" THEN "PICKING" ELSE @]
             /\ gets' = IF asks THEN Restoring(EmptyBag, r) ELSE EmptyBag
        /\ hot' = FALSE /\ events' = <<>> /\ link' = FALSE /\ timers' = {} /\ capture' = {}
        /\ steer' = None

Reload ==
  /\ Use("reloads") /\ Load(tab)
  /\ UNCHANGED <<source, work, asked, active, filed, fate>>

Unwrapped(s) == [dom EXCEPT ![s] = NoWrapper]

(* The wait of 750 ms before the source is asked for.                      *)
Ask(s) ==
  gets' = IF tab.arrived < Count /\ tab.state = "GENERATING" /\ tab.current = s
          THEN Requested(gets, s) ELSE gets

InjectTimer(s) ==
  /\ Ask(s) /\ timers' = timers \ {[kind |-> "inject", id |-> s]}
  /\ UNCHANGED <<tab, dom, hot, work, events, capture, steer, used, World>>

(* scheduleAcceptCleanup: 1200 ms, and 1800 ms more if the page still shows *)
(* the wrapper.  The wait is the time for a hot update to replace it.      *)
SettleTimer(s) ==
  /\ IF mounted /\ dom[s] = NoWrapper
     THEN tab' = CleanupAccepted(tab) /\ timers' = timers \ {[kind |-> "settle", id |-> s]}
     ELSE /\ timers' = (timers \ {[kind |-> "settle", id |-> s]}) \cup {[kind |-> "clean", id |-> s]}
          /\ UNCHANGED tab
  /\ UNCHANGED <<dom, hot, work, events, gets, capture, steer, used, World>>

(* ensureAcceptedDomClean: where the element's parent is gone the page is  *)
(* loaded anew, unless another one looks like it.                          *)
CleanTimer(s) ==
  \/ /\ timers' = timers \ {[kind |-> "clean", id |-> s]}
     /\ IF tab.pending.id = s
        THEN tab' = CleanupAccepted(tab) /\ dom' = Unwrapped(s)
        ELSE UNCHANGED <<tab, dom>>
     /\ UNCHANGED <<hot, work, events, gets, capture, steer, used, World>>
  \/ /\ tab.pending.id = s /\ ~mounted /\ dom[s] = NoWrapper
     /\ Load(CleanupAccepted(tab))
     /\ UNCHANGED <<source, work, asked, active, filed, fate, used>>

UnwrapTimer(s) ==
  /\ dom' = Unwrapped(s) /\ timers' = timers \ {[kind |-> "unwrap", id |-> s]}
  /\ UNCHANGED <<tab, hot, work, events, gets, capture, steer, used, World>>

Timer ==
  \E x \in timers :
    \/ x.kind = "inject" /\ InjectTimer(x.id)
    \/ x.kind = "settle" /\ SettleTimer(x.id)
    \/ x.kind = "clean"  /\ CleanTimer(x.id)
    \/ x.kind = "unwrap" /\ UnwrapTimer(x.id)

-----------------------------------------------------------------------------
(* The requests for the source.                                            *)

(* GET /source of the server.                                              *)
Serve(r) ==
  /\ BagIn(r, gets) /\ r.html = Unread
  /\ gets' = BagAdd(BagRemove(gets, r), [r EXCEPT !.html = source[r.id]])
  /\ UNCHANGED <<tab, dom, hot, work, events, timers, capture, steer, used, World>>

(* The answer comes.                                                       *)
Land(r) ==
  LET i == Injected(tab, dom, mounted, r)
  IN  /\ BagIn(r, gets) /\ r.html # Unread
      /\ Become(i.tab, i.dom, mounted, BagRemove(gets, r))
      /\ timers' = timers \cup {[kind |-> "unwrap", id |-> s] : s \in i.closed}
      /\ UNCHANGED <<hot, work, events, capture, steer, used, World>>

(* A request fails: there is a toast, and the page goes on as it was.      *)
Lose(r) ==
  /\ BagIn(r, gets) /\ Use("failures")
  /\ gets' = BagRemove(gets, r)
  /\ UNCHANGED <<tab, dom, hot, work, events, timers, capture, steer, World>>

Answer  == \E r \in BagToSet(gets) : Serve(r) \/ Land(r)
Landing == \E r \in BagToSet(gets) : Land(r)

-----------------------------------------------------------------------------
(* The event stream: an event of the server is sent to a connected page.   *)

(* maybeCompleteAcceptedSession                                            *)
Completed(s) ==
  IF tab.pending.id # s THEN UNCHANGED <<tab, timers>>
  ELSE IF tab.current \notin {None, s}
  THEN tab' = [tab EXCEPT !.pending = NoAccept] /\ UNCHANGED timers
  ELSE IF tab.pending.finalizing THEN UNCHANGED <<tab, timers>>
  ELSE /\ tab' = [MarkHandled(tab) EXCEPT !.pending.finalizing = TRUE, !.state = "CONFIRMED"]
       /\ timers' = timers \cup {[kind |-> "settle", id |-> s]}

(* A deliberate mistake (ChoiceStaysMade): the choice, whatever the state. *)
Done_Anytime(s, named) ==
  LET t == [tab EXCEPT !.file = @ \/ named]
  IN  IF t.arrived >= Count THEN tab' = [t EXCEPT !.state = "CYCLING"] /\ UNCHANGED timers
      ELSE /\ tab' = t
           /\ timers' = IF named /\ t.state = "GENERATING" /\ t.current = s
                        THEN timers \cup {[kind |-> "inject", id |-> s]} ELSE timers

(* A done that names no file, or of another session, asks for nothing.     *)
Done(s, named) ==
  LET t == [tab EXCEPT !.file = @ \/ named]
  IN  IF t.arrived >= Count
      THEN tab' = [t EXCEPT !.state = IF @ = "GENERATING" THEN "CYCLING" ELSE @] /\ UNCHANGED timers
      ELSE /\ tab' = t
           /\ timers' = IF named /\ t.state = "GENERATING" /\ t.current = s
                        THEN timers \cup {[kind |-> "inject", id |-> s]} ELSE timers

(* An error that is neither of the accept nor of the steer that wait.      *)
Failed(x) ==
  IF tab.pending.id = x
  THEN tab' = [tab EXCEPT !.pending = NoAccept, !.state = "CYCLING"] /\ UNCHANGED steer
  ELSE IF steer = x THEN steer' = None /\ UNCHANGED tab
  ELSE tab' = [tab EXCEPT !.state = "PICKING"] /\ UNCHANGED steer

Discarded(s) ==
  IF tab.current = s
  THEN tab' = Cleanup(MarkHandled(tab)) /\ timers' = timers \cup {[kind |-> "unwrap", id |-> s]}
  ELSE UNCHANGED <<tab, timers>>

Deliver ==
  /\ events # <<>>
  /\ events' = Tail(events)
  /\ LET m == Head(events)
     IN  \/ m.type \in {"done", "bare"} /\ Done(m.id, m.type = "done") /\ UNCHANGED steer
         \/ m.type = "complete" /\ Completed(m.id) /\ UNCHANGED steer
         \/ m.type = "discarded" /\ Discarded(m.id) /\ UNCHANGED steer
         \/ m.type = "error" /\ Failed(m.id) /\ UNCHANGED timers
         \/ /\ m.type = "steer_done"
            /\ steer' = IF steer = m.id THEN None ELSE steer
            /\ UNCHANGED <<tab, timers>>
  /\ UNCHANGED <<dom, hot, work, gets, capture, used, World>>

Drop ==
  /\ link /\ Use("drops")
  /\ link' = FALSE /\ events' = <<>>
  /\ UNCHANGED <<tab, dom, source, hot, mounted, work, timers, gets, capture, asked, active, filed, steer, fate>>

(* connected, with restoreFromActiveSessions.                              *)
Connected ==
  /\ ~link
  /\ link' = TRUE
  /\ IF Wrapped(dom) = {} /\ Restorable(tab, active)
     THEN tab' = Restored(tab, active) /\ gets' = Restoring(gets, tab')
     ELSE UNCHANGED <<tab, gets>>
  /\ UNCHANGED <<dom, source, hot, mounted, work, events, timers, capture, asked, active, filed, steer, fate, used>>

-----------------------------------------------------------------------------
(* The agent, one piece of work at a time.                                 *)

Working(type) == work # <<>> /\ Head(work).type = type

(* It wraps the element, then writes the variants.                         *)
Write ==
  LET s == Head(work).id
  IN  /\ Working("generate") /\ source[s] < Count
      /\ source' = [source EXCEPT ![s] = @ + 1]
      /\ hot' = TRUE
      /\ UNCHANGED <<tab, dom, mounted, work, events, link, timers, gets, capture, asked, active, filed,
                     steer, fate, used>>

ReplyDone ==
  LET s == Head(work).id
  IN  /\ Working("generate") /\ source[s] = Count
      /\ work' = Tail(work)
      /\ \/ Broadcast([type |-> "done", id |-> s]) /\ filed' = filed \cup {s} /\ UNCHANGED used
         \/ Broadcast([type |-> "bare", id |-> s]) /\ Use("bare") /\ UNCHANGED filed
      /\ UNCHANGED <<tab, dom, source, hot, mounted, link, timers, gets, capture, asked, active, steer, fate>>

(* It gives up a generate before all is written and reverts what it wrote; *)
(* of an accept the source stays.                                          *)
ReplyError ==
  LET w == Head(work)
  IN  /\ work # <<>> /\ w.type \in {"generate", "accept", "steer"} /\ Use("errors")
      /\ w.type = "generate" => source[w.id] < Count
      /\ work' = Tail(work)
      /\ source' = IF w.type = "generate" THEN [source EXCEPT ![w.id] = NoWrapper] ELSE source
      /\ hot' = (hot \/ source' # source)
      /\ active' = IF w.type = "accept" THEN active \cup {w.id} ELSE active
      /\ fate' = IF w.type = "steer" THEN fate
                 ELSE [fate EXCEPT ![w.id] = CASE w.type = "accept" /\ @ = "accepted" -> "open"
                                               [] w.type = "generate" /\ @ = "open" -> "failed"
                                               [] OTHER -> @]
      /\ Broadcast([type |-> "error", id |-> w.id])
      /\ UNCHANGED <<tab, dom, mounted, link, timers, gets, capture, asked, filed, steer>>

(* live-poll runs live-accept for an accept and a discard.                 *)
Rewrite ==
  LET w == Head(work)
  IN  /\ work # <<>> /\ w.type \in {"accept", "discard"}
      /\ work' = Tail(work)
      /\ source' = [source EXCEPT ![w.id] = NoWrapper]
      /\ hot' = TRUE
      /\ Broadcast([type |-> IF w.type = "accept" THEN "complete" ELSE "discarded", id |-> w.id])
      /\ UNCHANGED <<tab, dom, mounted, link, timers, gets, capture, asked, active, filed, steer, fate, used>>

ReplySteer ==
  /\ Working("steer")
  /\ work' = Tail(work)
  /\ Broadcast([type |-> "steer_done", id |-> Head(work).id])
  /\ UNCHANGED <<tab, dom, source, hot, mounted, link, timers, gets, capture, asked, active, filed, steer, fate, used>>

-----------------------------------------------------------------------------
User   == \/ Pick \/ Accept \/ Discard \/ Toggle \/ Reload
          \/ \E s \in Sessions : Go(s)
          \/ \E x \in Steers : SubmitSteer(x)
Page   == HotUpdate \/ Timer \/ Answer \/ SteerTimeout \/ Deliver \/ Connected
          \/ \E s \in Sessions : Emit(s)
Losses == Drop \/ \E r \in BagToSet(gets) : Lose(r)
Agent  == Write \/ ReplyDone \/ Rewrite \/ ReplySteer

Next == User \/ Page \/ Losses \/ Agent \/ ReplyError

Spec == Init /\ [][Next]_vars

(* A page runs its timers and gets its events; its dialogs can be opened.  *)
(* The agent is taken to do the work it was given.                         *)
FairSpec ==
  /\ Spec
  /\ WF_vars(Timer) /\ WF_vars(Answer) /\ WF_vars(Deliver) /\ WF_vars(Connected) /\ WF_vars(Agent)
  /\ \A s \in Sessions : WF_vars(Emit(s))

-----------------------------------------------------------------------------
TypeOK ==
  /\ tab \in Tab
  /\ dom \in [Sessions -> NoWrapper .. Count] /\ source \in [Sessions -> NoWrapper .. Count]
  /\ {hot, mounted, link} \subseteq BOOLEAN
  /\ work \in Seq([type : {"generate", "accept", "discard", "steer"}, id : Sessions \cup Steers])
  /\ events \in Seq([type : {"done", "bare", "complete", "discarded", "error", "steer_done"},
                     id : Sessions \cup Steers])
  /\ timers \subseteq [kind : {"inject", "settle", "clean", "unwrap"}, id : Sessions]
  /\ IsABag(gets) /\ BagToSet(gets) \subseteq Get
  /\ capture \subseteq Sessions /\ asked \subseteq Sessions \cup Steers
  /\ active \subseteq Sessions /\ filed \subseteq Sessions
  /\ steer \in Steers \cup {None}
  /\ fate \in [Sessions -> {"new", "open", "accepted", "discarded", "failed"}]
  /\ \A b \in DOMAIN Bounds : used[b] \in 0 .. Bounds[b]

(* What localStorage holds is the session that is open: a reload at any    *)
(* moment finds it (saveSession, cleanup, cleanupAcceptedSession).         *)
OpenIsSaved == tab.current # None => tab.stored.id = tab.current

(* A session the user has asked for and not decided about, open or saved,  *)
(* stays so ("Session kept for recovery", handleAccept and handleDiscard). *)
(* Only the timers of an accept that was completed drop it: they close     *)
(* what is open by then (scheduleAcceptCleanup).                           *)
Undecided(s) == fate[s] = "open"
IsKept(s)    == s \in {tab.current, tab.stored.id}

Settles == \E x \in timers : \/ x.kind = "settle" /\ SettleTimer(x.id)
                             \/ x.kind = "clean" /\ CleanTimer(x.id)

KeepsUndecided ==
  \A s \in Sessions :
    Undecided(s) /\ IsKept(s) /\ Undecided(s)' => IsKept(s)' \/ Settles

UndecidedIsKept == [][KeepsUndecided]_vars

(* A choice that was made stays made: while the page saves or confirms an  *)
(* accept no hot update, done event, timer, or event of another session    *)
(* brings the choice back.  Only the accept's own error does, or the answer *)
(* of a request for the source that was under way (injectVariantsFromSource *)
(* does not look at the state).                                            *)
Decided      == tab.state \in {"SAVING", "CONFIRMED"}
AcceptFailed == Deliver /\ Head(events) = [type |-> "error", id |-> tab.pending.id]

Reopens      == Decided /\ tab'.state \in {"GENERATING", "CYCLING"}

ChoiceStaysMade == [][Reopens => AcceptFailed \/ Landing]_vars

(* While an accept is under way the bar says so and offers nothing else.   *)
(* An answer that was under way breaks this one.                           *)
AcceptIsShown ==
  tab.pending.id # None => tab.state = IF tab.pending.finalizing THEN "CONFIRMED" ELSE "SAVING"

(* When the page shows all the variants and nothing is under way, the bar  *)
(* offers them (the variant observer, the done event, the source fetch).   *)
Quiet == link /\ ~hot /\ events = <<>> /\ timers = {} /\ gets = EmptyBag /\ work = <<>> /\ capture = {}

VariantsAreOffered ==
  Quiet /\ tab.current # None => ~(tab.state = "GENERATING" /\ dom[tab.current] = Count)

(* A session the user discarded does not come back (markSessionHandled).   *)
DiscardedIsClosed == tab.current # None => fate[tab.current] # "discarded"

(* A page that waits for the variants of a session waits for an agent that *)
(* has been asked, or is about to ask it (captureAndEmit).                 *)
GeneratingIsAsked ==
  tab.state = "GENERATING" => tab.current \in asked \cup capture \cup {None}

(* The page shows the wait only with a session open.  The answer of a      *)
(* request breaks this one, when it finds neither session nor element.     *)
WaitHasSession == tab.state = "GENERATING" => tab.current # None

(* After the agent's error the bar is back at picking and stays there: only *)
(* the answer of a request that was under way, of another session whose    *)
(* element is gone, makes it wait again (enterRecoveryWaitingForAnchor).   *)
Waits(s) == tab.state = "GENERATING" /\ tab.current = s

WaitsAgain == \E s \in Sessions : fate[s] = "failed" /\ ~Waits(s) /\ Waits(s)'

FailedIsClosed == [][WaitsAgain => Landing]_vars

(* An accept ends: the session closes or the choice is offered again.      *)
AcceptEnds == tab.state = "SAVING" ~> tab.state # "SAVING"

(* A wait for the variants of a session ends while the element is on the  *)
(* page: where no hot update comes the done event has the source fetched,  *)
(* and where that is lost the new connection does (restoreFromActiveSessions). *)
GenerateEnds ==
  tab.state = "GENERATING" /\ tab.current # None ~> (tab.state # "GENERATING" \/ ~mounted)
=============================================================================
