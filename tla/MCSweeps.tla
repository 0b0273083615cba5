------------------------------ MODULE MCSweeps ------------------------------
(***************************************************************************)
(* The instances of SyncSweep, of ScheduledScan and of ConfigCache, where  *)
(* they read their settings, that one run of TLC checks: `case` says       *)
(* which, from the first state on.  What only the others use stays empty.  *)
(*                                                                         *)
(*   slots   the activity sweep of two replicas: one tenant that installs, *)
(*           uninstalls and syncs by hand, a crash                         *)
(*   turns   the members sweep of one replica: two tenants, one of them    *)
(*           without a token, a crash, under fairness                      *)
(*   scans   scans of two orgs by two replicas and a person, a crash       *)
(*   drops   scans of one org, which changes on GitHub, by two replicas;   *)
(*           tokens may fail to resolve                                    *)
(*   queue   scans of two orgs by one replica, a crash, under fairness     *)
(*   here    two readers of a setting, and an admin who sets it, in one    *)
(*           process                                                       *)
(*   there   a reader; the admin's requests go to another process          *)
(***************************************************************************)
EXTENDS ScheduledScan

VARIABLES case,
          installed, cursor, data, jobs, installs, uninstalls,
          row, copy, readers, writing, clock, until, raced, known, used

scanning == <<github, stored, marked, failed, manual, changes, manuals>>
syncing  == <<installed, cursor, data, jobs, installs, uninstalls>>
sweeping == <<syncing, slot, pass, crashes>>
setting  == <<row, copy, readers, writing, clock, until, raced, known, used>>
all      == <<vars, syncing, setting, case>>

Pair == {"r1", "r2"}
Lone == {"r1"}

Slots == INSTANCE SyncSweep WITH
  Tenants <- {"t1"}, Healthy <- {"t1"}, Kind <- "activity",
  MaxTries <- 2, MaxInstalls <- 1, MaxUninstalls <- 1

Turns == INSTANCE SyncSweep WITH
  Tenants <- {"t1", "t2"}, Healthy <- {"t1"}, Replicas <- Lone, Kind <- "members",
  MaxTries <- 2, MaxInstalls <- 1, MaxUninstalls <- 1

Scans == INSTANCE ScheduledScan WITH
  TokenErrors <- FALSE, MaxChanges <- 0, MaxManual <- 1, MaxCrashes <- 0

Drops == INSTANCE ScheduledScan WITH Orgs <- {"o1"}

Queue == INSTANCE ScheduledScan WITH Replicas <- Lone, TokenErrors <- FALSE, MaxChanges <- 0

Here == INSTANCE ConfigCache WITH
  Processes <- {"p"}, Readers <- {"r", "s"}, Writers <- {"w"},
  Home <- [t \in {"r", "s", "w"} |-> "p"], Values <- {"on", "off"}, Default <- "on",
  Ttl <- 2, MaxTime <- 3, MaxPuts <- 1, MaxFails <- 1

There == INSTANCE ConfigCache WITH
  Processes <- {"p", "q"}, Readers <- {"r"}, Writers <- {"w"},
  Home <- [t \in {"r", "w"} |-> IF t = "r" THEN "p" ELSE "q"], Values <- {"on", "off"}, Default <- "on",
  Ttl <- 2, MaxTime <- 3, MaxPuts <- 2, MaxFails <- 1

ASSUME Slots!SweepAssumption /\ Turns!SweepAssumption
ASSUME Here!ConfigAssumption /\ There!ConfigAssumption

Unused == {}

NoScans ==
  /\ version = Unused /\ score = Unused /\ latest = Unused /\ due = Unused /\ order = Unused
  /\ marked = Unused /\ failed = Unused /\ manual = Unused /\ alert = <<NoScan, NoScan>>
  /\ changes = 0 /\ manuals = 0

NoSyncs ==
  /\ installed = Unused /\ cursor = Unused /\ data = Unused /\ jobs = Unused
  /\ installs = Unused /\ uninstalls = Unused

NoSettings ==
  /\ row = Unused /\ copy = Unused /\ readers = Unused /\ writing = Unused /\ clock = Unused
  /\ until = Unused /\ raced = Unused /\ known = Unused /\ used = Unused

NoSlots == slot = Unused /\ pass = [r \in Replicas |-> Idle] /\ crashes = Unused

MCInit ==
  \/ case = "slots" /\ Slots!Init /\ NoScans /\ NoSettings
  \/ case = "turns" /\ Turns!Init /\ NoScans /\ NoSettings
  \/ case = "scans" /\ Scans!Init /\ NoSyncs /\ NoSettings
  \/ case = "drops" /\ Drops!Init /\ NoSyncs /\ NoSettings
  \/ case = "queue" /\ Queue!Init /\ NoSyncs /\ NoSettings
  \/ case = "here" /\ Here!Init /\ NoScans /\ NoSyncs /\ NoSlots
  \/ case = "there" /\ There!Init /\ NoScans /\ NoSyncs /\ NoSlots

MCNext ==
  \/ case = "slots" /\ Slots!Next /\ UNCHANGED <<scanning, setting, case>>
  \/ case = "turns" /\ Turns!Next /\ UNCHANGED <<scanning, setting, case>>
  \/ case = "scans" /\ Scans!Next /\ UNCHANGED <<syncing, setting, case>>
  \/ case = "drops" /\ Drops!Next /\ UNCHANGED <<syncing, setting, case>>
  \/ case = "queue" /\ Queue!Next /\ UNCHANGED <<syncing, setting, case>>
  \/ case = "here" /\ Here!Next /\ UNCHANGED <<vars, syncing, case>>
  \/ case = "there" /\ There!Next /\ UNCHANGED <<vars, syncing, case>>

(* The fairness of the two FairSpecs, for the instances with turns.        *)
MCSpec ==
  /\ MCInit /\ [][MCNext]_all
  /\ WF_sweeping(case = "turns" /\ Turns!Tick("r1"))
  /\ WF_sweeping(case = "turns" /\ Turns!EndPass("r1"))
  /\ WF_sweeping(case = "turns" /\ (\E t \in {"t1", "t2"} : Turns!Step("r1", t)))
  /\ \A t \in {"t1", "t2"} :
       /\ WF_sweeping(case = "turns" /\ (\E i \in DOMAIN jobs[t] : Turns!Work(t, i)))
       /\ WF_sweeping(case = "turns" /\ (\E i \in DOMAIN jobs[t] : Turns!Age(t, i)))
  /\ WF_vars(case = "queue" /\ Queue!Tick("r1"))
  /\ WF_vars(case = "queue" /\ Queue!EndPass("r1"))
  /\ WF_vars(case = "queue" /\ (\E o \in Orgs : Queue!Step("r1", o)))
  /\ \A o \in Orgs :
       /\ WF_vars(case = "queue" /\ Queue!WindowEnds(o))
       /\ WF_vars(case = "queue" /\ Queue!RetryDue(o))

-----------------------------------------------------------------------------
(* The properties of the modules, each where it is at stake.  OneScan and  *)
(* DropIsReal are checked as they are, in every instance.                  *)

(* Types, in every instance: checked with the next invariant.              *)
TypesOK ==
  /\ case = "slots" => Slots!TypeOK
  /\ case = "turns" => Turns!TypeOK
  /\ case = "scans" => Scans!TypeOK
  /\ case = "drops" => Drops!TypeOK
  /\ case = "queue" => Queue!TypeOK
  /\ case = "here" => Here!ConfigTypeOK
  /\ case = "there" => There!ConfigTypeOK

(* A setting that is read was one less than the lifetime of a copy before, *)
(* and a copy follows what is set in its process.                          *)
SettingsAreRecent ==
  /\ TypesOK
  /\ case = "here" => Here!SettingsAreRecent
  /\ case = "there" => There!SettingsAreRecent

(* However many replicas sweep, a tenant has one job at a time.  Every     *)
(* tenant and every org gets its turn, whatever befalls the others, and    *)
(* one that failed does not get another before its time.                   *)
SweepsTakeTurns ==
  /\ [](case \in {"slots", "turns"} => Slots!OneSweepJob)
  /\ case = "turns" => Turns!Tried
  /\ case = "queue" => Queue!EachIsScanned
  /\ [][/\ case = "slots" => Slots!WaitsAfterFailure
        /\ case = "scans" => Scans!RestsAfterFailure]_all
=============================================================================
