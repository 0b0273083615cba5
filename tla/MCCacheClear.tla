---------------------------- MODULE MCCacheClear ----------------------------
(***************************************************************************)
(* The instances of CacheClear that one run of TLC checks: `case` says     *)
(* which, from the first state on.                                         *)
(*                                                                         *)
(*   clear  one repository with two entries; two clears, faults of GitHub  *)
(*          and of the worker, an entry that CI adds                       *)
(*   route  two repositories, the route changes while a list, a clear or a *)
(*          poll is on its way, CI touches and evicts entries              *)
(*   token  two owners, one with a token stored; route and tab changes     *)
(*   ends   a clear with a fault and a poll that fails, under fairness     *)
(***************************************************************************)
EXTENDS CacheClear

VARIABLE case

One        == {1}
Both       == {1, 2}
CachedOne  == [r \in One |-> <<11, 12>>]
CachedBoth == [r \in Both |-> IF r = 1 THEN <<11, 12>> ELSE <<21>>]

Routed == INSTANCE CacheClear WITH
  Repos <- Both, Cached <- CachedBoth, MaxRetries <- 0, MaxClears <- 1, MaxSwitches <- 1,
  MaxLists <- 1, MaxFaults <- 0, MaxPollFails <- 1, MaxAdds <- 0, MaxTouches <- 1, MaxEvictions <- 1

Typed == INSTANCE CacheClear WITH
  Repos <- Both, Cached <- CachedBoth, Stored <- One, MaxRetries <- 0, MaxClears <- 0,
  MaxSwitches <- 2, MaxTyped <- 2, MaxTabs <- 2, MaxLists <- 0, MaxFaults <- 0, MaxAdds <- 0

Ending == INSTANCE CacheClear WITH
  MaxClears <- 1, MaxLists <- 1, MaxFaults <- 1, MaxPollFails <- 1, MaxAdds <- 0

MCInit ==
  \/ case = "clear" /\ Init
  \/ case = "route" /\ Routed!Init
  \/ case = "token" /\ Typed!Init
  \/ case = "ends" /\ Ending!Init

MCNext ==
  \/ case = "clear" /\ Next /\ UNCHANGED case
  \/ case = "route" /\ Routed!Next /\ UNCHANGED case
  \/ case = "token" /\ Typed!Next /\ UNCHANGED case
  \/ case = "ends" /\ Ending!Next /\ UNCHANGED case

(* The fairness of FairSpec, for the instance that must end.               *)
MCSpec ==
  /\ MCInit /\ [][MCNext]_<<vars, case>>
  /\ WF_vars(case = "ends" /\ Ending!ListServed)
  /\ WF_vars(case = "ends" /\ Ending!Listed)
  /\ WF_vars(case = "ends" /\ Ending!Poll /\ ~panel.pollError)
  /\ WF_vars(case = "ends" /\ 1 \in DOMAIN jobs /\ Ending!Work(1))

-----------------------------------------------------------------------------
(* AllIsCleared, DoneIsShown and RoutesStayApart are checked as they are,  *)
(* in every instance.                                                      *)

(* Types, in every instance.                                               *)
TypesOK ==
  /\ case = "clear" => TypeOK
  /\ case = "route" => Routed!TypeOK
  /\ case = "token" => Typed!TypeOK
  /\ case = "ends" => Ending!TypeOK

(* A clear ends and the panel sees it end, or says that it lost sight.     *)
ClearIsSeenToEnd == []TypesOK /\ (case = "ends" => Ending!ClearEnds /\ Ending!PanelSeesEnd)
=============================================================================
