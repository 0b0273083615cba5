----------------------------- MODULE DesignHook -----------------------------
(***************************************************************************)
(* The design hook of the bundled skill (hook.mjs, hook-before-edit.mjs,   *)
(* hook-lib.mjs and hook-admin.mjs of .agents/skills/impeccable/scripts):  *)
(* a process that the agent's harness starts for each edit of a file, to   *)
(* tell the agent what the detector finds in it.                           *)
(*                                                                         *)
(* After an edit the hook scans the files and tells what it has not told   *)
(* the session yet.  Before a write, in Cursor, it may refuse the write.   *)
(* What sessions were told, and what was refused, is in one cache file;    *)
(* every process reads it, and writes it as a whole when it is done.  What *)
(* to ignore is in a config file, which commands rewrite.  Tool calls run  *)
(* side by side, of one session and of several.                            *)
(*                                                                         *)
(* A file is the set of findings the detector has for it, a finding a rule *)
(* and a line.  The cache file lists sessions by their updatedAt.  A file  *)
(* that is cut for a write reads as an empty one.  The local config, quiet *)
(* mode and a detector that throws are left out.                           *)
(***************************************************************************)
EXTENDS Integers, FiniteSets, Sequences, SequencesExt, FiniteSetsExt

CONSTANTS
  Calls, SessionOf,  \* tool calls that may run at once, and the sessions they are of
  Cursor,            \* sessions whose writes are checked before they land
  Files, Findings,   \* a finding: <<rule, line>>
  Sheets,            \* of a file: the stylesheets that are scanned with it
  Patches,           \* what one edit may touch: sequences of files
  Texts,             \* what agents may write: sets of findings
  Threshold,         \* EDIT_COUNT_THRESHOLD
  MaxSessions,       \* CACHE_MAX_SESSIONS
  MaxShown,          \* limits.maxFindings
  MaxEdits, MaxKills, MaxCommands, MaxResets  \* bounds

SessionIds == {SessionOf[c] : c \in Calls}
Rules    == {x[1] : x \in Findings}

NoFile == "none"

HookAssumption ==
  /\ IsFiniteSet(Calls) /\ IsFiniteSet(Files) /\ IsFiniteSet(Findings) /\ NoFile \notin Files
  /\ Cursor \subseteq SessionIds /\ Texts \subseteq SUBSET Findings
  /\ Sheets \in [Files -> SUBSET Files] /\ Patches \subseteq Seq(Files)
  /\ {Threshold, MaxSessions, MaxShown} \subseteq Nat \ {0}
  /\ {MaxEdits, MaxKills, MaxCommands, MaxResets} \subseteq Nat

VARIABLES
  disk,     \* findings of each file
  cache,    \* hook.cache.json
  config,   \* the hook section of config.json
  calls,    \* the process of each tool call
  told,     \* history: findings each session was told, and those it was told again
  noticed,  \* history: files of which each session was told that hints end
  tried,    \* history: how often a session tried to write what was objected to
  ignored,  \* history: rules whose command to ignore them is over
  used      \* how much of the bounds is used

hvars == <<disk, cache, config, calls, told, noticed, tried, ignored, used>>

-----------------------------------------------------------------------------
(* The cache file                                                          *)

NoEntry == [edits |-> 0, known |-> {}, denials |-> [r \in SUBSET Rules |-> 0]]
NoMemory == [f \in Files |-> NoEntry]
EmptyCache == [order |-> <<>>, of |-> [s \in SessionIds |-> NoMemory]]

\* A session is the most recent one.
Touched(mem, s) ==
  LET place == CHOOSE i \in DOMAIN mem.order : mem.order[i] = s
  IN  [mem EXCEPT !.order = <<s>> \o IF s \in ToSet(@) THEN RemoveAt(@, place) ELSE @]

\* Mistake (GateLetsGo): the newest sessions are dropped.
Kept_Oldest(mem) ==
  LET order == SubSeq(mem.order, Len(mem.order) - Min({Len(mem.order), MaxSessions}) + 1, Len(mem.order))
  IN  [order |-> order,
       of |-> [s \in SessionIds |-> IF s \in ToSet(order) THEN mem.of[s] ELSE NoMemory]]

\* persistCache: the oldest sessions are dropped.
Kept(mem) ==
  LET order == SubSeq(mem.order, 1, Min({Len(mem.order), MaxSessions}))
  IN  [order |-> order,
       of |-> [s \in SessionIds |-> IF s \in ToSet(order) THEN mem.of[s] ELSE NoMemory]]

\* A file that another process filled since it was cut may keep the end of what that one
\* wrote, and then reads as an empty one.
Filled(text, there, empty) == {text} \cup (IF there = empty THEN {} ELSE {empty})

DefaultConfig == [enabled |-> TRUE, rules |-> {}, files |-> {}]

Idle == [pc |-> "idle", primary |-> <<>>, text |-> {}, todo |-> <<>>, mem |-> EmptyCache,
         cfg |-> DefaultConfig, fresh |-> {}, pending |-> {}, still |-> {},
         notice |-> NoFile, quiet |-> {}]

Init ==
  /\ disk \in [Files -> Texts \cup {{}}]
  /\ cache = EmptyCache /\ config = DefaultConfig
  /\ calls = [c \in Calls |-> Idle]
  /\ told = [s \in SessionIds |-> [once |-> {}, again |-> {}]]
  /\ noticed = [s \in SessionIds |-> {}]
  /\ tried = [s \in Cursor |-> [f \in Files |-> [r \in SUBSET Rules |-> 0]]]
  /\ ignored = {}
  /\ used = [edits |-> 0, kills |-> 0, commands |-> 0, resets |-> 0]

At(c, pc) == calls[c].pc = pc
Set(c, call) == calls' = [calls EXCEPT ![c] = call]
Use(what, max) == used[what] < max /\ used' = [used EXCEPT ![what] = @ + 1]

-----------------------------------------------------------------------------
(* After an edit: runHook                                                  *)

\* The agent edits files; the harness starts the hook.
Edit(c) ==
  /\ At(c, "idle") /\ SessionOf[c] \notin Cursor
  /\ Use("edits", MaxEdits)
  /\ \E patch \in Patches : \E text \in Texts \cup {{}} :
       /\ disk' = [f \in Files |-> IF f = Head(patch) THEN text ELSE disk[f]]
       /\ Set(c, [Idle EXCEPT !.pc = "read", !.primary = patch, !.quiet = ignored])
  /\ UNCHANGED <<cache, config, told, noticed, tried, ignored>>

\* What is scanned: the files of the edit, then the stylesheets beside them.
Targets(patch) ==
  patch \o SetToSeq(UNION {Sheets[f] : f \in ToSet(patch)} \ ToSet(patch))

ReadState(c) ==
  /\ At(c, "read")
  /\ Set(c, IF config.enabled
            THEN [calls[c] EXCEPT !.pc = "scan", !.todo = Targets(calls[c].primary),
                                         !.mem = cache, !.cfg = config]
            ELSE Idle)
  /\ UNCHANGED <<disk, cache, config, told, noticed, tried, ignored, used>>

\* One file more: ignored files are passed over.
PassOver(c) ==
  /\ At(c, "scan") /\ calls[c].todo # <<>> /\ Head(calls[c].todo) \in calls[c].cfg.files
  /\ Set(c, [calls[c] EXCEPT !.todo = Tail(@)])
  /\ UNCHANGED <<disk, cache, config, told, noticed, tried, ignored, used>>

\* Counts end at Threshold + 2: beyond the threshold, one is as good as another.
OneMore(n) == Min({n + 1, Threshold + 2})

\* bumpEditCount
OneMoreEdit(mem, s, f) == Touched([mem EXCEPT !.of[s][f].edits = OneMore(@)], s)

\* An edited file counts the edits of a session; beyond the threshold it is not scanned.
Counted(call, s, f) ==
  [call EXCEPT !.todo = Tail(@),
               !.mem = IF f \in ToSet(call.primary) THEN OneMoreEdit(@, s, f) ELSE @]

Suppressed(call, s, f) ==
  f \in ToSet(call.primary) /\ call.mem.of[s][f].edits >= Threshold

Suppress(c) ==
  LET call == calls[c]  s == SessionOf[c]  f == Head(call.todo)
  IN  /\ At(c, "scan") /\ call.todo # <<>> /\ f \notin call.cfg.files
      /\ Suppressed(call, s, f)
      /\ Set(c, [Counted(call, s, f) EXCEPT
                   !.notice = IF call.mem.of[s][f].edits = Threshold /\ @ = NoFile THEN f ELSE @])
      /\ UNCHANGED <<disk, cache, config, told, noticed, tried, ignored, used>>

\* filterFindings
Filtered(found, cfg) == {x \in found : x[1] \notin cfg.rules}

\* dedupeAgainstCache: what this session was not told of this file.
Fresh(call, s, f) == Filtered(disk[f], call.cfg) \ call.mem.of[s][f].known

\* Mistake (HooksTell): a finding is remembered without its file.
Remembered_AnyFile(mem, s, f, found) ==
  IF found = {} THEN mem
  ELSE Touched([mem EXCEPT !.of[s] = [g \in Files |-> [@[g] EXCEPT !.known = @ \cup found]]], s)

\* rememberFindings
Remembered(mem, s, f, found) ==
  IF found = {} THEN mem ELSE Touched([mem EXCEPT !.of[s][f].known = @ \cup found], s)

Scan(c) ==
  LET call == calls[c]  s == SessionOf[c]  f == Head(call.todo)
      fresh == Fresh(call, s, f)
      counted == Counted(call, s, f)
  IN  /\ At(c, "scan") /\ call.todo # <<>> /\ f \notin call.cfg.files
      /\ ~Suppressed(call, s, f)
      /\ Set(c, IF fresh = {} /\ Filtered(disk[f], call.cfg) # {} /\ call.pending = {}
                THEN [counted EXCEPT !.pending = {<<f, x>> : x \in call.mem.of[s][f].known},
                                     !.still = {<<f, x>> : x \in Filtered(disk[f], call.cfg)}]
                ELSE [counted EXCEPT !.fresh = @ \cup {<<f, x>> : x \in fresh},
                                     !.mem = Remembered(@, s, f, fresh)])
      /\ UNCHANGED <<disk, cache, config, told, noticed, tried, ignored, used>>

\* What the agent reads: what is new, up to a limit; else what it was told before; else that
\* hints end.
Emit(c) ==
  LET call == calls[c]  s == SessionOf[c]
  IN  /\ At(c, "emit")
      /\ Set(c, Idle)
      /\ \E shown \in kSubset(Min({MaxShown, Cardinality(call.fresh)}), call.fresh) :
           told' = [told EXCEPT ![s] = [once |-> @.once \cup shown,
                                        again |-> @.again \cup (@.once \cap shown)]]
      /\ noticed' = IF call.fresh = {} /\ call.pending = {} /\ call.notice # NoFile
                    THEN [noticed EXCEPT ![s] = @ \cup {call.notice}] ELSE noticed
      /\ UNCHANGED <<disk, cache, config, tried, ignored, used>>

-----------------------------------------------------------------------------
(* Before a write: hook-before-edit.mjs                                    *)

Objections(call) == Filtered(call.text, call.cfg)
Signature(call)  == {x[1] : x \in Objections(call)}

Propose(c) ==
  /\ At(c, "idle") /\ SessionOf[c] \in Cursor
  /\ \E f \in Files : \E text \in Texts :
       Set(c, [Idle EXCEPT !.pc = "gate", !.primary = <<f>>, !.text = text])
  /\ UNCHANGED <<disk, cache, config, told, noticed, tried, ignored, used>>

Land(call) == disk' = [disk EXCEPT ![Head(call.primary)] = call.text]

\* The config is read and the proposed text judged.  Without objections it is written.
Judge(c) ==
  LET call == [calls[c] EXCEPT !.cfg = config]
      f == Head(call.primary)
  IN  /\ At(c, "gate")
      /\ IF ~config.enabled \/ f \in config.files \/ Objections(call) = {}
         THEN Land(call) /\ Set(c, Idle) /\ UNCHANGED tried
         ELSE /\ Set(c, [call EXCEPT !.pc = "object"])
              /\ tried' = [tried EXCEPT ![SessionOf[c]][f][Signature(call)] = OneMore(@)]
              /\ UNCHANGED disk
      /\ UNCHANGED <<cache, config, told, noticed, ignored, used>>

\* bumpCursorDenial
OneMoreDenial(mem, s, f, signature) ==
  Touched([mem EXCEPT !.of[s][f].denials[signature] = OneMore(@)], s)

\* It counts on what the cache holds now.
Object(c) ==
  LET call == calls[c]  s == SessionOf[c]  f == Head(call.primary)
  IN  /\ At(c, "object")
      /\ Set(c, [call EXCEPT !.pc = "persist", !.mem = OneMoreDenial(cache, s, f, Signature(call))])
      /\ UNCHANGED <<disk, cache, config, told, noticed, tried, ignored, used>>

Objected(c) ==
  calls[c].mem.of[SessionOf[c]][Head(calls[c].primary)].denials[Signature(calls[c])]

\* Beyond the threshold the write is let through.
Verdict(c) ==
  /\ At(c, "verdict")
  /\ IF Objected(c) > Threshold THEN Land(calls[c]) ELSE UNCHANGED disk
  /\ Set(c, Idle)
  /\ UNCHANGED <<cache, config, told, noticed, tried, ignored, used>>

-----------------------------------------------------------------------------
(* Both write the cache, in two steps of the file system: it is cut, then  *)
(* filled.                                                                 *)

Cut(c) ==
  /\ At(c, "persist") \/ (At(c, "scan") /\ calls[c].todo = <<>>)
  /\ cache' = EmptyCache
  /\ Set(c, [calls[c] EXCEPT !.pc = "fill"])
  /\ UNCHANGED <<disk, config, told, noticed, tried, ignored, used>>

Fill(c) ==
  /\ At(c, "fill")
  /\ cache' \in Filled(Kept(calls[c].mem), cache, EmptyCache)
  /\ Set(c, [calls[c] EXCEPT !.pc = IF SessionOf[c] \in Cursor THEN "verdict" ELSE "emit"])
  /\ UNCHANGED <<disk, config, told, noticed, tried, ignored, used>>

\* The harness ends a hook after TIMEOUT_SECONDS, and makes the write that waited for it or not.
Kill(c) ==
  /\ calls[c].pc \in {"read", "scan", "persist", "fill", "emit", "gate", "object", "verdict"}
  /\ Use("kills", MaxKills)
  /\ UNCHANGED disk \/ (SessionOf[c] \in Cursor /\ Land(calls[c]))
  /\ Set(c, Idle)
  /\ UNCHANGED <<cache, config, told, noticed, tried, ignored>>

-----------------------------------------------------------------------------
(* Commands: hook-admin.mjs                                                *)

\* A command reads the config and changes its copy.
Command(c) ==
  /\ At(c, "idle") /\ Use("commands", MaxCommands)
  /\ \E cfg \in {[config EXCEPT !.rules = @ \cup {r}] : r \in Rules}
               \cup {[config EXCEPT !.files = @ \cup {f}] : f \in Files}
               \cup {[config EXCEPT !.enabled = e] : e \in BOOLEAN} :
       Set(c, [Idle EXCEPT !.pc = "cut config", !.cfg = cfg])
  /\ UNCHANGED <<disk, cache, config, told, noticed, tried, ignored>>

CutConfig(c) ==
  /\ At(c, "cut config")
  /\ config' = DefaultConfig
  /\ Set(c, [calls[c] EXCEPT !.pc = "fill config"])
  /\ UNCHANGED <<disk, cache, told, noticed, tried, ignored, used>>

FillConfig(c) ==
  /\ At(c, "fill config")
  /\ config' \in Filled(calls[c].cfg, config, DefaultConfig)
  /\ ignored' = ignored \cup calls[c].cfg.rules
  /\ Set(c, Idle)
  /\ UNCHANGED <<disk, cache, told, noticed, tried, used>>

\* reset removes both files.
Reset(c) ==
  /\ At(c, "idle") /\ Use("resets", MaxResets)
  /\ config' = DefaultConfig /\ cache' = EmptyCache /\ ignored' = {}
  /\ UNCHANGED <<disk, calls, told, noticed, tried>>

-----------------------------------------------------------------------------
HookStep(c) ==
  \/ ReadState(c) \/ PassOver(c) \/ Suppress(c) \/ Scan(c) \/ Emit(c)
  \/ Judge(c) \/ Object(c) \/ Verdict(c) \/ Cut(c) \/ Fill(c)
  \/ CutConfig(c) \/ FillConfig(c)

Next == \E c \in Calls : HookStep(c) \/ Edit(c) \/ Propose(c) \/ Kill(c) \/ Command(c) \/ Reset(c)

Spec == Init /\ [][Next]_hvars

\* A process that was started goes on, and an agent whose write is refused tries again.
FairSpec ==
  /\ Spec
  /\ \A c \in Calls : WF_hvars(HookStep(c)) /\ WF_hvars(Propose(c))

-----------------------------------------------------------------------------
(* Properties *)

HookTypeOK ==
  /\ disk \in [Files -> SUBSET Findings]
  /\ ToSet(cache.order) \subseteq SessionIds /\ Len(cache.order) <= MaxSessions
  /\ config.rules \subseteq Rules /\ config.files \subseteq Files /\ config.enabled \in BOOLEAN
  /\ \A c \in Calls : calls[c].fresh \subseteq Files \X Findings /\ calls[c].notice \in Files \cup {NoFile}

\* What a call is about to tell its session.
Coming(s) == UNION {calls[c].fresh : c \in {d \in Calls : SessionOf[d] = s}}

\* What the cache has a session know, it was told, or a hook that runs is about to tell it:
\* hooks that overwrite each other's cache may repeat a finding, they do not lose one.
NothingIsMissed ==
  \A s \in SessionIds : \A f \in Files : \A x \in cache.of[s][f].known :
    <<f, x>> \in told[s].once \cup Coming(s)

\* No session is told the same twice.
ToldOnce == \A s \in SessionIds : told[s].again = {}

\* A session whose edits of a file are no longer scanned was told so, or is about to be.
SilenceIsTold ==
  \A s \in SessionIds : \A f \in Files :
    cache.of[s][f].edits > Threshold =>
      \/ f \in noticed[s]
      \/ \E c \in Calls : SessionOf[c] = s /\ calls[c].notice = f

\* "Still has N issue(s)" names what the file still has.
PendingIsTrue == \A c \in Calls : At(c, "emit") /\ calls[c].fresh = {} => calls[c].pending \subseteq calls[c].still

\* What was ignored when an edit was made is not told.
IgnoredIsQuiet ==
  \A c \in Calls : At(c, "emit") => \A x \in calls[c].fresh : x[2][1] \notin calls[c].quiet

\* A write that was objected to lands only after as many attempts.
OnlyLoopsPass ==
  \A c \in Calls : At(c, "verdict") /\ Objected(c) > Threshold =>
    tried[SessionOf[c]][Head(calls[c].primary)][Signature(calls[c])] > Threshold

\* Calls are made one after another, and each edits one file without stylesheets.
OneAtATime == \A c, d \in Calls : c = d
OneFile    == (\A patch \in Patches : Len(patch) = 1) /\ \A f \in Files : Sheets[f] = {}

\* All findings fit into what one hook may show.
AllShown == Cardinality(Files \X Findings) <= MaxShown

\* What hooks tell. However many run at once, none makes another lose a finding or lets a
\* write through before its time; one after another, they tell nothing twice, nothing that was
\* ignored, and when they fall silent.
HooksTell ==
  /\ OnlyLoopsPass
  /\ AllShown /\ used.kills = 0 => NothingIsMissed
  /\ OneAtATime => IgnoredIsQuiet
  /\ OneAtATime /\ used.kills = 0 /\ used.resets = 0 => ToldOnce
  /\ OneAtATime /\ used.kills = 0 /\ OneFile => SilenceIsTold

\* An agent that does not give up is let through in the end.
Passes(c) == At(c, "verdict") /\ Objected(c) > Threshold
LoopsEnd == \A c \in Calls : SessionOf[c] \in Cursor => <>Passes(c)
=============================================================================
