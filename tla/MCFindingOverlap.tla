-------------------------- MODULE MCFindingOverlap --------------------------
(***************************************************************************)
(* FindingPipeline for TLC where no process dies and no write fails, in    *)
(* cases, one of them chosen at the start: scans that overlap, among       *)
(* people, in air where one of the findings never comes up; and the loop   *)
(* alone and unattended, with its fairness and a cap of one finding, once  *)
(* with a cooldown in which the most serious two fill every scan and the   *)
(* third has no room, and once with a longer one, in which it has.         *)
(***************************************************************************)
EXTENDS MCFindingPipeline

CONSTANT Single   \* the scan that overlaps the loop's

VARIABLE focus

Unattended(n) == INSTANCE FindingPipeline WITH
  Cooldown <- n, MaxPerScan <- 1, People <- FALSE

Cooldowns == {Cooldown, Cooldown + 1}

Air == MCFindings \ {"deauth"}

CasesInit ==
  \/ focus = 0 /\ Init /\ holds \subseteq Air
  \/ focus \in Cooldowns /\ Unattended(Cooldown)!Init

CasesNext ==
  /\ UNCHANGED focus
  /\ \/ focus = 0 /\ Next /\ holds' \subseteq Air
     \/ \E n \in Cooldowns : focus = n /\ Unattended(n)!Next /\ step'[Single] = "idle"

CasesSpec ==
  /\ CasesInit /\ [][CasesNext]_<<focus, vars>>
  /\ \A n \in Cooldowns : WF_vars(focus = n /\ Unattended(n)!ScanRuns(Loop))
  /\ WF_vars(focus # 0 /\ Tick)

\* PersistentIsReported, where its fairness is.
PersistentIsReportedUnattended ==
  \A n \in Cooldowns : focus = n => Unattended(n)!PersistentIsReported
=============================================================================
