-------------------------- MODULE FindingPipeline --------------------------
(***************************************************************************)
(* From a condition that holds to a row on the findings page: the pipeline *)
(* of app/detections.py run(), the cooldowns of table suppressions, table  *)
(* alerts, and what a person does to both (app/services/findings.py).      *)
(*                                                                         *)
(* Each scan is a thread of its own (the loop, a single scan, a survey):   *)
(* it collects what its rules found, reads the cooldowns, writes new ones  *)
(* and then, in another transaction, writes the findings.  What the rules  *)
(* compute is abstracted to the set of conditions that hold.               *)
(*                                                                         *)
(* Time is counted in cycles of the scan loop.  Of the rows of one finding *)
(* only whether some are open and whether some are acknowledged is kept.   *)
(***************************************************************************)
EXTENDS Integers, FiniteSets

CONSTANTS
  Findings,     \* what the rules can report
  Keys,         \* suppression keys
  KeyOf,        \* Finding.suppression_key: rule|scope, rule|bssid or rule|ssid
  RowKey,       \* the key delete_alerts derives from a row: rule|bssid or rule|-
  Rank,         \* SEVERITY_ORDER
  Scans,        \* the threads that run scans
  Loop,         \* the one of them that paces time
  Cooldown,     \* suppress_seconds, in cycles
  MaxPerScan,   \* max_findings_per_scan
  Faults,       \* whether the process may die, or a write fail
  People        \* whether anyone touches the findings or their settings

ASSUME PipelineConstantsOK ==
  /\ KeyOf \in [Findings -> Keys] /\ RowKey \in [Findings -> Keys]
  /\ Rank \in [Findings -> Nat]
  /\ Loop \in Scans
  /\ Cooldown \in Nat \ {0} /\ MaxPerScan \in Nat \ {0}
  /\ {Faults, People} \subseteq BOOLEAN

VARIABLES
  holds,      \* what holds in the air, is not muted or ignored and not too mild
  until,      \* table suppressions: cycles left, 0 expired, NoRow absent
  alerts,     \* table alerts: pairs of a finding and open or acked
  quiet,      \* history: cycles left of the cooldown each key was promised
  step,       \* where each scan is
  batch,      \* each scan: its candidates, then its findings
  paced       \* whether the loop's next scan is due

vars == <<holds, until, alerts, quiet, step, batch, paced>>

NoRow == -1
Steps == {"idle", "check", "suppress", "insert"}

KeysOf(set) == {KeyOf[f] : f \in set}
RowsOf(set) == {RowKey[f] : f \in set}

\* One finding to a key: the first a rule reported.
OnePerKey(set) ==
  \A f, g \in set : KeyOf[f] = KeyOf[g] => f = g

TypeOK ==
  /\ holds \subseteq Findings
  /\ until \in [Keys -> {NoRow} \cup 0..Cooldown]
  /\ alerts \subseteq Findings \X {"open", "acked"}
  /\ quiet \in [Keys -> 0..Cooldown]
  /\ step \in [Scans -> Steps]
  /\ batch \in [Scans -> SUBSET Findings]
  /\ paced \in BOOLEAN

Init ==
  /\ holds \in SUBSET Findings
  /\ until = [k \in Keys |-> NoRow]
  /\ alerts = {}
  /\ quiet = [k \in Keys |-> 0]
  /\ step = [s \in Scans |-> "idle"]
  /\ batch = [s \in Scans |-> {}]
  /\ paced = TRUE

Goto(s, to) == step' = [step EXCEPT ![s] = to]

(***************************************************************************)
(* A scan                                                                  *)
(***************************************************************************)

\* The rules run; muted rules, ignored radios, severities under the floor and
\* second findings with one key are dropped.
Collect(s) ==
  /\ step[s] = "idle"
  /\ s = Loop => paced
  /\ \E found \in SUBSET holds :
       /\ OnePerKey(found) /\ KeysOf(found) = KeysOf(holds)
       /\ batch' = [batch EXCEPT ![s] = found]
  /\ Goto(s, "check")
  /\ paced' = (paced /\ s # Loop)
  /\ UNCHANGED <<holds, until, alerts, quiet>>

\* suppressed_keys: the cooldowns that have not run out.
Suppressed == {k \in Keys : until[k] > 0}

Audible(set) == {f \in set : KeyOf[f] \notin Suppressed}

\* The most serious MaxPerScan, in any order among equals; the rest are held
\* back and, having no cooldown, come up again in the next scan.
Cut(set) ==
  {kept \in SUBSET set :
     /\ kept = set \/ Cardinality(kept) = MaxPerScan
     /\ Cardinality(kept) <= MaxPerScan
     /\ \A f \in kept, g \in set \ kept : Rank[f] >= Rank[g]}

Check(s) ==
  /\ step[s] = "check"
  /\ \E kept \in Cut(Audible(batch[s])) :
       /\ batch' = [batch EXCEPT ![s] = kept]
       /\ Goto(s, IF kept = {} THEN "idle" ELSE "suppress")
  /\ UNCHANGED <<holds, until, alerts, quiet, paced>>

\* Faulty: a row that is there already is kept, expired or not.
SuppressIfAbsent(set) ==
  until' = [k \in Keys |->
              IF k \in KeysOf(set) /\ until[k] = NoRow THEN Cooldown ELSE until[k]]

\* Faulty: the cooldowns are written before the rest is held back.
SuppressHeldBack(set) ==
  until' = [k \in Keys |->
              IF k \in KeysOf(set \cup Audible(holds)) THEN Cooldown
              ELSE until[k]]

\* suppress_many: an insert, or an update of the row that is there.
SuppressMany(set) ==
  until' = [k \in Keys |-> IF k \in KeysOf(set) THEN Cooldown ELSE until[k]]

Suppress(s) ==
  /\ step[s] = "suppress"
  /\ SuppressMany(batch[s])
  /\ quiet' = [k \in Keys |-> IF k \in KeysOf(batch[s]) THEN Cooldown ELSE quiet[k]]
  /\ Goto(s, "insert")
  /\ UNCHANGED <<holds, alerts, batch, paced>>

\* Faulty: a row is inserted in a state nothing else knows of.
InsertUnread(s) ==
  alerts' = alerts \cup {<<f, "unread">> : f \in batch[s]}

InsertAlerts(s) ==
  alerts' = alerts \cup {<<f, "open">> : f \in batch[s]}

Insert(s) ==
  /\ step[s] = "insert"
  /\ InsertAlerts(s)
  /\ batch' = [batch EXCEPT ![s] = {}]
  /\ Goto(s, "idle")
  /\ UNCHANGED <<holds, until, quiet, paced>>

\* insert_alerts raises: run_once records a failed scan.
InsertFails(s) ==
  /\ Faults
  /\ step[s] = "insert"
  /\ batch' = [batch EXCEPT ![s] = {}]
  /\ Goto(s, "idle")
  /\ UNCHANGED <<holds, until, alerts, quiet, paced>>

ScanRuns(s) == Collect(s) \/ Check(s) \/ Suppress(s) \/ Insert(s)

(***************************************************************************)
(* What a person does                                                      *)
(***************************************************************************)

Acknowledge ==
  /\ \E some \in SUBSET {a \in alerts : a[2] = "open"}, all \in BOOLEAN :
       /\ some # {}
       /\ alerts' = (IF all THEN alerts \ some ELSE alerts)
                      \cup {<<a[1], "acked">> : a \in some}
  /\ UNCHANGED <<holds, until, quiet, step, batch, paced>>

Unacknowledge ==
  /\ \E some \in SUBSET {a \in alerts : a[2] = "acked"}, all \in BOOLEAN :
       /\ some # {}
       /\ alerts' = (IF all THEN alerts \ some ELSE alerts)
                      \cup {<<a[1], "open">> : a \in some}
  /\ UNCHANGED <<holds, until, quiet, step, batch, paced>>

\* Faulty: the rows go and the cooldowns stay.
ForgetNothing(keys) == UNCHANGED <<until, quiet>>

\* The cooldown is no longer promised for a key whose suppression is deleted.
Forget(keys) ==
  /\ until' = [k \in Keys |-> IF k \in keys THEN NoRow ELSE until[k]]
  /\ quiet' = [k \in Keys |-> IF k \in keys THEN 0 ELSE quiet[k]]

\* delete_alerts: some rows of the findings in touched, every row of those in
\* gone, and the suppressions under the keys derived from the rows.
DeleteAlerts ==
  /\ \E touched \in SUBSET alerts : \E gone \in SUBSET touched :
       /\ touched # {}
       /\ alerts' = alerts \ gone
       /\ Forget(RowsOf({a[1] : a \in touched}))
  /\ UNCHANGED <<holds, step, batch, paced>>

\* clear_suppressions
ResetCooldowns ==
  /\ Forget(Keys)
  /\ UNCHANGED <<holds, alerts, step, batch, paced>>

\* clear_networks
ClearNetworks ==
  /\ alerts' = {} /\ Forget(Keys)
  /\ UNCHANGED <<holds, step, batch, paced>>

(***************************************************************************)
(* Time, the air, the process                                              *)
(***************************************************************************)

\* A cycle goes by, which is long compared with one analysis.
Tick ==
  /\ ~paced /\ \A s \in Scans : step[s] = "idle"
  /\ paced' = TRUE
  /\ until' = [k \in Keys |-> IF until[k] > 0 THEN until[k] - 1 ELSE until[k]]
  /\ quiet' = [k \in Keys |-> IF quiet[k] > 0 THEN quiet[k] - 1 ELSE 0]
  /\ UNCHANGED <<holds, alerts, step, batch>>

\* An acknowledged row older than alert_days, which is far longer than a
\* cooldown: what the cooldown was written for is another row, if there is one.
Old(a) ==
  /\ a[2] = "acked"
  /\ quiet[KeyOf[a[1]]] = 0 \/ <<a[1], "open">> \in alerts

\* prune: old acknowledged findings, and the suppressions that have expired.
Prune ==
  /\ \E old \in SUBSET {a \in alerts : Old(a)} : alerts' = alerts \ old
  /\ until' = [k \in Keys |-> IF until[k] > 0 THEN until[k] ELSE NoRow]
  /\ UNCHANGED <<holds, quiet, step, batch, paced>>

\* A condition begins or ends, a rule is muted or heard again, a radio ignored
\* or not, the severity floor moved.
AirChanges ==
  /\ \E f \in Findings : holds' = IF f \in holds THEN holds \ {f} ELSE holds \cup {f}
  /\ UNCHANGED <<until, alerts, quiet, step, batch, paced>>

Crash ==
  /\ Faults
  /\ step' = [s \in Scans |-> "idle"]
  /\ batch' = [s \in Scans |-> {}]
  /\ paced' = TRUE
  /\ UNCHANGED <<holds, until, alerts, quiet>>

PersonActs ==
  /\ People
  /\ \/ Acknowledge \/ Unacknowledge \/ DeleteAlerts \/ ResetCooldowns
     \/ ClearNetworks

Next ==
  \/ \E s \in Scans : ScanRuns(s) \/ InsertFails(s)
  \/ PersonActs
  \/ Tick \/ Prune \/ AirChanges \/ Crash

Spec == Init /\ [][Next]_vars

\* The loop goes on scanning, and time goes on.
FairSpec == Spec /\ WF_vars(ScanRuns(Loop)) /\ WF_vars(Tick)

(***************************************************************************)
(* Properties                                                              *)
(***************************************************************************)

\* A finding is not reported again while the cooldown of its last report runs,
\* unless a person has had that cooldown deleted.  It holds while scans do not
\* overlap.
NoRepeat ==
  [][\A s \in Scans : Suppress(s) => \A f \in batch[s] : quiet[KeyOf[f]] = 0]_vars

\* The keys delete_alerts can find again from a row.
Traceable == {k \in Keys : \A f \in Findings : KeyOf[f] = k => RowKey[f] = k}

\* Nothing is kept quiet that nobody was told of: a cooldown that runs has a row
\* on the findings page, or a scan is about to write it.  It holds while no
\* process dies and no write fails between the two transactions.
QuietIsRecorded ==
  \A k \in Traceable : until[k] > 0 =>
    \/ \E a \in alerts : KeyOf[a[1]] = k
    \/ \E s \in Scans : step[s] = "insert" /\ k \in KeysOf(batch[s])

\* What may be reported before it, and whether that is less than the cap lets through
\* while one cooldown runs.  Where it is not, the cap can hold a finding back for good.
Rivals(f) == KeysOf({g \in Findings : Rank[g] >= Rank[f]}) \ {KeyOf[f]}
HasRoom(f) == Cardinality(Rivals(f)) < MaxPerScan * Cooldown

\* What the cap holds back has its turn, if there is one: a condition that goes on
\* holding is reported again and again, however its rivals come and go.
PersistentIsReported ==
  \A f \in Findings : HasRoom(f) =>
    (<>[](f \in holds)
      => []<>(\E s \in Scans : step[s] = "insert" /\ KeyOf[f] \in KeysOf(batch[s])))

\* delete_alerts: "Also clears their suppression so a live condition is reported
\* again on the next scan rather than staying silent."  (Refuted: README, section 4.)
DeletedIsAudible ==
  [][\A f \in Findings :
       DeleteAlerts /\ (\E a \in alerts \ alerts' : a[1] = f)
         => until'[KeyOf[f]] <= 0]_vars
=============================================================================
