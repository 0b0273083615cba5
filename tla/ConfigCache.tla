---------------------------- MODULE ConfigCache ----------------------------
(***************************************************************************)
(* One setting of the instance: its row in app_config, and the copy every  *)
(* process of the API keeps for a while (core/app_config.py, PUT in        *)
(* routers/config.py).                                                     *)
(*                                                                         *)
(* Threads of a process share its copy and take no lock.  A step is what a *)
(* thread does between two places where another may run: the SELECT, the   *)
(* commit, the line that is logged.  Looking a key up and taking its entry *)
(* is one step (the interpreter switches no thread between them).          *)
(***************************************************************************)
EXTENDS Integers

CONSTANTS
  Processes,  \* processes of the API
  Readers,    \* threads that call get_config
  Writers,    \* threads that serve a PUT
  Home,       \* the process of each thread
  Values,     \* what the setting may be set to
  Default,    \* what the callers give get_config for a missing row
  Ttl,        \* _TTL, in ticks
  MaxTime, MaxPuts, MaxFails  \* bounds

ConfigAssumption ==
  /\ Ttl \in Nat \ {0} /\ {MaxTime, MaxPuts, MaxFails} \subseteq Nat
  /\ Default \in Values /\ Home \in [Readers \cup Writers -> Processes]

VARIABLES
  row,      \* the row's value, or NoRow
  copy,     \* _cache of each process: value and timestamp, or NoCopy
  readers,  \* what each reader is about to do, or what it got and how
  writing,  \* writers between their commit and their invalidation
  clock,    \* time
  until,    \* history: until when each value was the setting, before now
  raced,    \* history: processes whose copy was out of date when it was stored
  known,    \* history: processes that have read the setting
  used      \* how much of the bounds is used

cvars == <<row, copy, readers, writing, clock, until, raced, known, used>>

NoRow  == "no row"
NoCopy == [val |-> NoRow, ts |-> -1]
Never  == -1

Setting == IF row = NoRow THEN Default ELSE row

Init ==
  /\ row \in Values \cup {NoRow}
  /\ copy = [p \in Processes |-> NoCopy]
  /\ readers = [r \in Readers |-> [pc |-> "done", asked |-> 0, got |-> Default, how |-> "none"]]
  /\ writing = {}
  /\ clock = 0 /\ until = [v \in Values |-> Never]
  /\ raced = {} /\ known = {}
  /\ used = [puts |-> 0, fails |-> 0]

Use(what, max) == used[what] < max /\ used' = [used EXCEPT ![what] = @ + 1]

-----------------------------------------------------------------------------
(* get_config                                                              *)

At(r, pc) == readers[r].pc = pc
CopyOf(r) == copy[Home[r]]

Returns(r, val, how) == readers' = [readers EXCEPT ![r].pc = "done", ![r].got = val, ![r].how = how]

Fresh(entry, now) == entry # NoCopy /\ now - entry.ts < Ttl

Ask(r) ==
  /\ At(r, "done")
  /\ readers' = [readers EXCEPT ![r] =
       IF Fresh(CopyOf(r), clock)
       THEN [pc |-> "done", asked |-> clock, got |-> CopyOf(r).val, how |-> "hit"]
       ELSE [pc |-> "read", asked |-> clock, got |-> Default, how |-> "none"]]
  /\ UNCHANGED <<row, copy, writing, clock, until, raced, known, used>>

Read(r) ==
  /\ At(r, "read")
  /\ readers' = [readers EXCEPT ![r].pc = "store", ![r].got = Setting]
  /\ UNCHANGED <<row, copy, writing, clock, until, raced, known, used>>

\* Mistake (SettingsAreRecent): the copy counts from when it is stored.
Entry_FromNow(r) == [val |-> readers[r].got, ts |-> clock]

\* The time is that from before the SELECT.
Entry(r) == [val |-> readers[r].got, ts |-> readers[r].asked]

Store(r) ==
  LET p == Home[r]
  IN  /\ At(r, "store")
      /\ copy' = [copy EXCEPT ![p] = Entry(r)]
      /\ raced' = IF readers[r].got = Setting THEN raced \ {p} ELSE raced \cup {p}
      /\ known' = known \cup {p}
      /\ Returns(r, readers[r].got, "read")
      /\ UNCHANGED <<row, writing, clock, until, used>>

\* The database does not answer: the last known value serves, if there is one ...
ReadFails(r) ==
  /\ At(r, "read") /\ Use("fails", MaxFails)
  /\ IF CopyOf(r) = NoCopy THEN Returns(r, Default, "default")
     ELSE readers' = [readers EXCEPT ![r].pc = "known"]
  /\ UNCHANGED <<row, copy, writing, clock, until, raced, known>>

\* Mistake (SettingsAreRecent): the value served counts as read.
Served_AsRead(entry) == [entry EXCEPT !.ts = clock]

\* "Don't refresh its timestamp"
Served(entry) == entry

\* ... and is looked up again after the error is logged: it may be gone.
ServeKnown(r) ==
  /\ At(r, "known")
  /\ IF CopyOf(r) = NoCopy THEN Returns(r, Default, "raised") /\ UNCHANGED copy
     ELSE /\ Returns(r, CopyOf(r).val, "known")
          /\ copy' = [copy EXCEPT ![Home[r]] = Served(@)]
  /\ UNCHANGED <<row, writing, clock, until, raced, known, used>>

-----------------------------------------------------------------------------
(* PUT /config/{key}                                                       *)

Commit(v) ==
  /\ row' = v
  /\ until' = IF v = Setting THEN until ELSE [until EXCEPT ![Setting] = clock]

Invalidate(p) == copy' = [copy EXCEPT ![p] = NoCopy] /\ raced' = raced \ {p}

Put(w) ==
  /\ w \notin writing /\ Use("puts", MaxPuts)
  /\ \E v \in Values : Commit(v)
  /\ writing' = writing \cup {w}
  /\ UNCHANGED <<copy, readers, clock, raced, known>>

\* Mistake (SettingsAreRecent): another key's entry is dropped.
PutEnds_Keeps(w) ==
  /\ w \in writing
  /\ writing' = writing \ {w}
  /\ UNCHANGED <<row, copy, raced, readers, clock, until, known, used>>

PutEnds(w) ==
  /\ w \in writing
  /\ Invalidate(Home[w])
  /\ writing' = writing \ {w}
  /\ UNCHANGED <<row, readers, clock, until, known, used>>

Tick ==
  /\ clock < MaxTime /\ clock' = clock + 1
  /\ UNCHANGED <<row, copy, readers, writing, until, raced, known, used>>

-----------------------------------------------------------------------------
Next ==
  \/ \E r \in Readers : Ask(r) \/ Read(r) \/ Store(r) \/ ReadFails(r) \/ ServeKnown(r)
  \/ \E w \in Writers : Put(w) \/ PutEnds(w)
  \/ Tick

Spec == Init /\ [][Next]_cvars

-----------------------------------------------------------------------------
(* Properties *)

(* Every variable holds values of its type.                                *)
ConfigTypeOK ==
  /\ row \in Values \cup {NoRow} /\ Default \in Values
  /\ \A p \in Processes : copy[p] = NoCopy \/ copy[p] \in [val : Values, ts : 0 .. clock]
  /\ \A r \in Readers : readers[r].got \in Values /\ readers[r].asked \in 0 .. clock
  /\ clock \in 0 .. MaxTime /\ until \in [Values -> -1 .. clock]

(* What get_config returns while the database answers was the setting less *)
(* than _TTL before the caller asked, or later: in every process, however  *)
(* long a SELECT takes and whatever was served in between.                 *)
RecentValue ==
  \A r \in Readers : readers[r].how \in {"hit", "read"} =>
    readers[r].got = Setting \/ until[readers[r].got] > readers[r].asked - Ttl

(* With one process: while no PUT is between its commit and its            *)
(* invalidation, the copy is the setting, unless a reader that overlapped  *)
(* a PUT stored what it had read before.                                   *)
CopyFollowsPuts ==
  writing = {} =>
    \A p \in Processes \ raced : copy[p] = NoCopy \/ copy[p].val = Setting

(* A setting that is read was one less than the lifetime of a copy before; *)
(* and if there is one process, its copy follows what is set.              *)
SettingsAreRecent == RecentValue /\ ((\A p, q \in Processes : p = q) => CopyFollowsPuts)

(* "a TTL race costs at most one extra DB read" (app_config.py:3): no race *)
(* leaves an old value in the copy, or raises.                             *)
RaceCostsARead == raced = {} /\ \A r \in Readers : readers[r].how # "raised"

(* "serve the last-known-good value rather than flip a security setting    *)
(* like registration_enabled to its default" (app_config.py:56).           *)
NotFlipped ==
  [][\A r \in Readers : At(r, "read") /\ readers'[r].how = "default" => Home[r] \notin known]_cvars
=============================================================================
