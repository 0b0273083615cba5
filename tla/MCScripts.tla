----------------------------- MODULE MCScripts -----------------------------
(***************************************************************************)
(* The instances of SourceWrap and of DesignHook that one run of TLC       *)
(* checks: `case` says which, from the first state on.  What only the      *)
(* other module uses stays empty.                                          *)
(*                                                                         *)
(*   html   two elements side by side; the third session inserts           *)
(*   jsx    an element in another one, in a slot of a JSX file             *)
(*   edits  copy edits of both texts are staged meanwhile                  *)
(*   races  hooks of two sessions at once, with a stylesheet               *)
(*   alone  one tool call at a time, with commands                         *)
(*   gate   a write that is refused and tried again, beside another        *)
(*          session's hooks, kills and a reset: under fairness             *)
(***************************************************************************)
EXTENDS SourceWrap

VARIABLES case, disk, cache, config, calls, told, noticed, tried, ignored, used

hooks == <<disk, cache, config, calls, told, noticed, tried, ignored, used>>
all   == <<vars, hooks, case>>

Third    == {3}
Odd      == {1, 3}
Siblings == <<Open(9, 0), Open(1, 2), Text(11, 4), Close(2), Open(2, 2), Text(12, 4), Close(2), Close(0)>>
Nested   == <<Open(1, 2), Text(11, 4), Open(2, 4), Text(12, 6), Close(4), Text(13, 4), Close(2)>>

Slot == INSTANCE SourceWrap WITH
  Inserting <- {}, Styled <- {2}, Jsx <- TRUE, Source <- Nested

Edited == INSTANCE SourceWrap WITH
  Inserting <- {}, Styled <- {2}, Count <- 1, Edits <- {<<11, 91>>, <<12, 92>>}

Font == <<"font", 1>>
Tab  == <<"tab", 2>>
Page == <<"page">>

Races == INSTANCE DesignHook WITH
  Calls <- {1, 2}, SessionOf <- <<"a", "b">>, Cursor <- {}, Files <- {"page", "css"},
  Findings <- {Font, Tab}, Sheets <- [f \in {"page", "css"} |-> IF f = "page" THEN {"css"} ELSE {}],
  Patches <- {Page, <<"css">>}, Texts <- {{Font}, {Font, Tab}}, Threshold <- 2, MaxSessions <- 1,
  MaxShown <- 4, MaxEdits <- 3, MaxKills <- 0, MaxCommands <- 0, MaxResets <- 0

Alone == INSTANCE DesignHook WITH
  Calls <- {1}, SessionOf <- <<"a">>, Cursor <- {}, Files <- {"page"}, Findings <- {Font, Tab},
  Sheets <- [f \in {"page"} |-> {}], Patches <- {Page}, Texts <- {{Font}, {Font, Tab}},
  Threshold <- 2, MaxSessions <- 1, MaxShown <- 2, MaxEdits <- 4, MaxKills <- 0,
  MaxCommands <- 2, MaxResets <- 0

Gate == INSTANCE DesignHook WITH
  Calls <- {1, 2}, SessionOf <- <<"a", "b">>, Cursor <- {"b"}, Files <- {"page"},
  Findings <- {Font}, Sheets <- [f \in {"page"} |-> {}], Patches <- {Page}, Texts <- {{Font}},
  Threshold <- 2, MaxSessions <- 1, MaxShown <- 1, MaxEdits <- 3, MaxKills <- 2,
  MaxCommands <- 0, MaxResets <- 1

ASSUME Races!HookAssumption /\ Alone!HookAssumption /\ Gate!HookAssumption

Unused == {}

NoHooks ==
  /\ disk = Unused /\ cache = Unused /\ config = Unused /\ calls = Unused /\ told = Unused
  /\ noticed = Unused /\ tried = Unused /\ ignored = Unused /\ used = Unused

NoWraps ==
  /\ file = Unused /\ session = Unused /\ agent = Unused /\ staged = Unused /\ scrub = Unused
  /\ plain = Unused

MCInit ==
  \/ case = "html" /\ Init /\ NoHooks
  \/ case = "jsx" /\ Slot!Init /\ NoHooks
  \/ case = "edits" /\ Edited!Init /\ NoHooks
  \/ case = "races" /\ Races!Init /\ NoWraps
  \/ case = "alone" /\ Alone!Init /\ NoWraps
  \/ case = "gate" /\ Gate!Init /\ NoWraps

MCNext ==
  \/ case = "html" /\ Next /\ UNCHANGED <<hooks, case>>
  \/ case = "jsx" /\ Slot!Next /\ UNCHANGED <<hooks, case>>
  \/ case = "edits" /\ Edited!Next /\ UNCHANGED <<hooks, case>>
  \/ case = "races" /\ Races!Next /\ UNCHANGED <<vars, case>>
  \/ case = "alone" /\ Alone!Next /\ UNCHANGED <<vars, case>>
  \/ case = "gate" /\ Gate!Next /\ UNCHANGED <<vars, case>>

(* The fairness of DesignHook!FairSpec, for the instance with the gate.    *)
MCSpec ==
  /\ MCInit /\ [][MCNext]_all
  /\ \A c \in {1, 2} :
       /\ WF_hooks(case = "gate" /\ Gate!HookStep(c))
       /\ WF_hooks(case = "gate" /\ Gate!Propose(c))

-----------------------------------------------------------------------------
(* The properties of the two modules, each where it is at stake.           *)

(* Whatever the order of the sessions, what is left once all are decided   *)
(* is the source with what was accepted; in JSX with its depths, and the   *)
(* slot holds one node at every moment.  A decision about one session      *)
(* takes its own markers and no others.                                    *)
FileComesBack ==
  /\ case = "html" => TypeOK /\ FileIsTheSource /\ OpenCanBeDecided /\ MarkersAreOfOpen
  /\ case = "jsx" => /\ Slot!TypeOK /\ Slot!IndentsAreKept /\ Slot!OneNode /\ Slot!Balanced
                     /\ Slot!OpenCanBeDecided /\ Slot!MarkersAreOfOpen
  /\ case = "edits" => Edited!TypeOK

(* An accept leaves no staged edit of the text it replaces, and drops no   *)
(* other of those it has read.                                             *)
OthersEditsStay ==
  /\ [](case = "edits" => Edited!StagedExists)
  /\ [][case = "edits" => Edited!KeepsEditsOfOthers]_vars

(* Hooks that overwrite each other's cache hold back no finding that the   *)
(* session was not told, and let no write through before its time.  A      *)
(* session without such races is told each finding once, is told when      *)
(* hints end, and not of what it had ignored.                              *)
HooksTell ==
  /\ case = "races" => Races!HookTypeOK /\ Races!HooksTell
  /\ case = "alone" => Alone!HookTypeOK /\ Alone!HooksTell
  /\ case = "gate"  => Gate!HookTypeOK /\ Gate!HooksTell

(* A write that is refused again and again is let through in the end,      *)
(* though others overwrite the count.                                      *)
GateLetsGo == <>(case = "gate" => Gate!Passes(2))
=============================================================================
