--------------------------- MODULE MCLiveBrowser ---------------------------
(***************************************************************************)
(* The instances of LiveBrowser that one run of TLC checks: `case` says    *)
(* which, from the first state on.  A session asks for two variants.       *)
(*                                                                         *)
(*   hurried  two sessions; the page's part closes or opens, the agent     *)
(*            reports an error, or replies done without a file             *)
(*   reload   two sessions, a reload and a lost stream                     *)
(*   lossy    two sessions; a post or a request, and the stream, are lost  *)
(*   ends     one session and a steer that may wait too long, an error, the*)
(*            page's part closes and opens, under fairness                 *)
(*   static   one session on a server without hot updates, and a lost      *)
(*            stream, under fairness                                       *)
(***************************************************************************)
EXTENDS LiveBrowser

VARIABLE case

Hurried == INSTANCE LiveBrowser WITH Steers <- {}, MaxToggles <- 1, MaxBare <- 1

Reloaded == INSTANCE LiveBrowser WITH
  Steers <- {}, MaxToggles <- 0, MaxReloads <- 1, MaxDrops <- 1, MaxErrors <- 0

Lossy == INSTANCE LiveBrowser WITH
  Steers <- {}, MaxToggles <- 0, MaxDrops <- 1, MaxFailures <- 1, MaxErrors <- 0

Ending == INSTANCE LiveBrowser WITH Sessions <- {"one"}, MaxTimeouts <- 1

Static == INSTANCE LiveBrowser WITH
  Sessions <- {"one"}, Steers <- {}, HotUpdates <- FALSE, MaxToggles <- 0, MaxDrops <- 1, MaxErrors <- 0

MCInit ==
  \/ case = "hurried" /\ Hurried!Init
  \/ case = "reload" /\ Reloaded!Init
  \/ case = "lossy" /\ Lossy!Init
  \/ case = "ends" /\ Ending!Init
  \/ case = "static" /\ Static!Init

MCNext ==
  \/ case = "hurried" /\ Hurried!Next /\ UNCHANGED case
  \/ case = "reload" /\ Reloaded!Next /\ UNCHANGED case
  \/ case = "lossy" /\ Lossy!Next /\ UNCHANGED case
  \/ case = "ends" /\ Ending!Next /\ UNCHANGED case
  \/ case = "static" /\ Static!Next /\ UNCHANGED case

(* The fairness of FairSpec, for the instances that must end.              *)
MCSpec ==
  /\ MCInit /\ [][MCNext]_<<vars, case>>
  /\ WF_vars(case = "ends" /\ Ending!Timer)
  /\ WF_vars(case = "ends" /\ Ending!Answer)
  /\ WF_vars(case = "ends" /\ Ending!Deliver)
  /\ WF_vars(case = "ends" /\ Ending!Connected)
  /\ WF_vars(case = "ends" /\ Ending!Agent)
  /\ WF_vars(case = "ends" /\ Ending!Emit("one"))
  /\ WF_vars(case = "static" /\ Static!Timer)
  /\ WF_vars(case = "static" /\ Static!Answer)
  /\ WF_vars(case = "static" /\ Static!Deliver)
  /\ WF_vars(case = "static" /\ Static!Connected)
  /\ WF_vars(case = "static" /\ Static!Agent)
  /\ WF_vars(case = "static" /\ Static!Emit("one"))

-----------------------------------------------------------------------------
(* The properties of LiveBrowser, each where it is at stake.               *)

(* Types, in every instance, and what is open is saved.                    *)
TypesOK ==
  /\ case = "hurried" => Hurried!TypeOK
  /\ case = "reload" => Reloaded!TypeOK
  /\ case = "lossy" => Lossy!TypeOK
  /\ case = "ends" => Ending!TypeOK
  /\ case = "static" => Static!TypeOK

(* What the user has not decided about is open or saved, through every     *)
(* case, and what is open is saved.                                        *)
UndecidedStays ==
  /\ []TypesOK
  /\ [](case \in {"hurried", "reload"} => OpenIsSaved)
  /\ [][(case \in {"hurried", "reload", "lossy"}) => KeepsUndecided]_<<vars, case>>

(* No late variant, event or timer reopens a choice that was made, be it   *)
(* an accept or a discard; of an accept only its error does, or the answer *)
(* of a request for the source that was under way.                         *)
DecidedStays ==
  /\ [](case \in {"hurried", "lossy"} => DiscardedIsClosed)
  /\ [][(case \in {"hurried", "lossy"} /\ Reopens) => AcceptFailed \/ Landing]_<<vars, case>>

(* The page waits only for variants that were asked for and not refused,   *)
(* and when all is quiet those that arrived can be chosen from.            *)
WaitsAreDue ==
  /\ [](case = "hurried" => VariantsAreOffered /\ GeneratingIsAsked)
  /\ [][case = "hurried" /\ WaitsAgain => Landing]_<<vars, case>>

(* The stream, the timers and the agent end every accept and every wait,   *)
(* and a wait also where nothing but a request brings the variants and     *)
(* where the stream, with the done on it, was lost.                        *)
WaitsEnd ==
  /\ case = "ends" => Ending!AcceptEnds /\ Ending!GenerateEnds
  /\ case = "static" => Static!GenerateEnds
=============================================================================
