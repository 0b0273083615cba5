-------------------------- MODULE MCBrowserSession --------------------------
(***************************************************************************)
(* The instances of BrowserSession that one run of TLC checks: `case` says *)
(* which, from the first state on.                                         *)
(*                                                                         *)
(*   one      a single tab, failing requests and a sign-out from another   *)
(*            device: under fairness                                       *)
(*   github   a single tab and both ways to sign in                        *)
(*   two      two tabs that share the storage, both ways to sign in        *)
(***************************************************************************)
EXTENDS BrowserSession

CONSTANTS t1, t2

VARIABLE case

Github == INSTANCE BrowserSession WITH
  SignIns <- {"password", "github"}, MaxFailures <- 1, MaxRevokes <- 0

Two == INSTANCE BrowserSession WITH
  Tabs <- {t1, t2}, SignIns <- {"password", "github"}, Calls <- {}, MaxFailures <- 0, MaxRevokes <- 0

MCInit ==
  \/ case = "one" /\ Init
  \/ case = "github" /\ Github!Init
  \/ case = "two" /\ Two!Init

MCNext ==
  \/ case = "one" /\ Next /\ UNCHANGED case
  \/ case = "github" /\ Github!Next /\ UNCHANGED case
  \/ case = "two" /\ Two!Next /\ UNCHANGED case

(* The fairness of FairSpec, for the tab of the first instance.            *)
MCSpec ==
  /\ MCInit /\ [][MCNext]_<<vars, case>>
  /\ \A kind \in Kinds :
       WF_vars(case = "one" /\ \E r \in requests : r.kind = kind /\ (Serve(r) \/ Handle(r)))

-----------------------------------------------------------------------------
(* The properties of BrowserSession, each where it is at stake.            *)

(* Types, in every instance: checked with the liveness.                    *)
TypesOK ==
  /\ case = "one" => TypeOK
  /\ case = "github" => Github!TypeOK
  /\ case = "two" => Two!TypeOK

(* The first spinner ends, and as long as all sign in with a password,     *)
(* nobody is shown the account another user selected.                      *)
OneSignInWorks ==
  /\ [](TypesOK /\ (case = "one" => ScopeFollowsUser))
  /\ case = "one" => LoadingEnds
=============================================================================
