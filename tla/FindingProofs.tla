---------------------------- MODULE FindingProofs ----------------------------
(***************************************************************************)
(* Proofs about FindingPipeline, for any findings, keys, severities,       *)
(* cooldown and cap: the cooldown holds while scans do not overlap, and    *)
(* nothing is kept quiet unrecorded while nothing fails.                   *)
(***************************************************************************)
EXTENDS FindingPipeline, TLAPS

(***************************************************************************)
(* Type correctness                                                        *)
(***************************************************************************)

\* One step of a scan keeps the types.
LEMMA ScanTypeOK ==
  ASSUME TypeOK, NEW s \in Scans, ScanRuns(s) \/ InsertFails(s)
  PROVE  TypeOK'
<1> USE PipelineConstantsOK
    DEF PipelineConstantsOK, TypeOK, Goto, Steps, NoRow
<1>1. CASE Collect(s)  BY <1>1 DEF Collect
<1>2. CASE Check(s)
  <2>1. PICK kept \in Cut(Audible(batch[s])) :
          /\ batch' = [batch EXCEPT ![s] = kept]
          /\ Goto(s, IF kept = {} THEN "idle" ELSE "suppress")
    BY <1>2 DEF Check
  <2>2. kept \subseteq Findings  BY <2>1 DEF Cut, Audible
  <2> QED  BY <1>2, <2>1, <2>2 DEF Check
<1>3. CASE Suppress(s)
  <2>1. until' \in [Keys -> {NoRow} \cup 0..Cooldown]
    BY <1>3 DEF Suppress, SuppressMany
  <2>2. quiet' \in [Keys -> 0..Cooldown]  BY <1>3 DEF Suppress
  <2> QED  BY <1>3, <2>1, <2>2 DEF Suppress
<1>4. CASE Insert(s)
  <2>1. alerts' \subseteq Findings \X {"open", "acked"}
    BY <1>4 DEF Insert, InsertAlerts
  <2> QED  BY <1>4, <2>1 DEF Insert
<1>5. CASE InsertFails(s)  BY <1>5 DEF InsertFails
<1> QED  BY <1>1, <1>2, <1>3, <1>4, <1>5 DEF ScanRuns

\* Deleting cooldowns keeps the types.
LEMMA ForgetTypes ==
  ASSUME TypeOK, NEW keys, Forget(keys)
  PROVE  /\ until' \in [Keys -> {NoRow} \cup 0..Cooldown]
         /\ quiet' \in [Keys -> 0..Cooldown]
BY PipelineConstantsOK DEF PipelineConstantsOK, TypeOK, Forget

\* So does every other step.
LEMMA NextTypeOK ==
  ASSUME TypeOK, [Next]_vars
  PROVE  TypeOK'
<1> USE PipelineConstantsOK DEF PipelineConstantsOK, TypeOK
<1>1. ASSUME NEW s \in Scans, ScanRuns(s) \/ InsertFails(s)
      PROVE  TypeOK'
  BY <1>1, ScanTypeOK
<1>2. CASE Acknowledge \/ Unacknowledge
  <2>1. alerts' \subseteq Findings \X {"open", "acked"}
    BY <1>2 DEF Acknowledge, Unacknowledge
  <2> QED  BY <1>2, <2>1 DEF Acknowledge, Unacknowledge
<1>3. CASE DeleteAlerts
  <2>1. alerts' \subseteq alerts  BY <1>3 DEF DeleteAlerts
  <2> QED  BY <1>3, <2>1, ForgetTypes DEF DeleteAlerts
<1>4. CASE ResetCooldowns  BY <1>4, ForgetTypes DEF ResetCooldowns
<1>5. CASE ClearNetworks  BY <1>5, ForgetTypes DEF ClearNetworks
<1>6. CASE Tick
  <2>1. until' \in [Keys -> {NoRow} \cup 0..Cooldown]  BY <1>6 DEF Tick, NoRow
  <2>2. quiet' \in [Keys -> 0..Cooldown]  BY <1>6 DEF Tick
  <2> QED  BY <1>6, <2>1, <2>2 DEF Tick
<1>7. CASE Prune
  <2>1. until' \in [Keys -> {NoRow} \cup 0..Cooldown]  BY <1>7 DEF Prune
  <2>2. alerts' \subseteq alerts  BY <1>7 DEF Prune
  <2> QED  BY <1>7, <2>1, <2>2 DEF Prune
<1>8. CASE AirChanges  BY <1>8 DEF AirChanges
<1>9. CASE Crash  BY <1>9 DEF Crash, Steps
<1>10. CASE UNCHANGED vars  BY <1>10 DEF vars
<1> QED
  BY <1>1, <1>2, <1>3, <1>4, <1>5, <1>6, <1>7, <1>8, <1>9, <1>10 DEF Next, PersonActs

\* Cooldowns, rows and scans keep their types for any constants.
THEOREM PipelineTypes == Spec => []TypeOK
<1>1. Init => TypeOK
  BY PipelineConstantsOK DEF PipelineConstantsOK, Init, TypeOK, Steps, NoRow
<1>2. TypeOK /\ [Next]_vars => TypeOK'  BY NextTypeOK
<1> QED  BY <1>1, <1>2, PTL DEF Spec

(***************************************************************************)
(* The cooldown                                                            *)
(***************************************************************************)

\* A cooldown that was promised is in the table, and none longer than promised.
PromiseInv ==
  /\ \A k \in Keys : until[k] <= quiet[k]
  /\ \A k \in Keys : quiet[k] > 0 => until[k] = quiet[k]

\* Every step that changes the table changes the promise with it.
LEMMA PromiseInvNext ==
  ASSUME TypeOK, PromiseInv, [Next]_vars
  PROVE  PromiseInv'
<1> USE PipelineConstantsOK DEF PipelineConstantsOK, TypeOK, PromiseInv, NoRow
<1>1. CASE UNCHANGED <<until, quiet>>  BY <1>1
<1>2. ASSUME NEW s \in Scans, Suppress(s)
      PROVE  PromiseInv'
  BY <1>2 DEF Suppress, SuppressMany
<1>3. ASSUME NEW keys, Forget(keys)
      PROVE  PromiseInv'
  BY <1>3 DEF Forget
<1>4. CASE Tick  BY <1>4 DEF Tick
<1>5. CASE Prune  BY <1>5 DEF Prune
<1>6. ASSUME NEW s \in Scans, ScanRuns(s) \/ InsertFails(s), ~Suppress(s)
      PROVE  UNCHANGED <<until, quiet>>
  BY <1>6 DEF ScanRuns, InsertFails, Collect, Check, Insert
<1>7. CASE PersonActs
  <2>1. UNCHANGED <<until, quiet>> \/ \E keys : Forget(keys)
    BY <1>7 DEF PersonActs, Acknowledge, Unacknowledge, DeleteAlerts, ResetCooldowns,
         ClearNetworks
  <2> QED  BY <1>1, <1>3, <2>1
<1>8. CASE AirChanges \/ Crash \/ UNCHANGED vars
  BY <1>8 DEF AirChanges, Crash, vars
<1> QED  BY <1>1, <1>2, <1>4, <1>5, <1>6, <1>7, <1>8 DEF Next

\* What a scan is about to report is in no cooldown: nothing but a scan starts
\* one, and there is no other scan.
AudibleInv ==
  \A f \in batch[Loop] : step[Loop] = "suppress" => until[KeyOf[f]] <= 0

\* Nothing between the check and the write of the cooldowns starts a cooldown.
LEMMA AudibleInvNext ==
  ASSUME TypeOK, Scans = {Loop}, AudibleInv, [Next]_vars
  PROVE  AudibleInv'
<1> USE PipelineConstantsOK DEF PipelineConstantsOK, TypeOK, AudibleInv, NoRow, Goto
<1>1. CASE Collect(Loop) \/ Suppress(Loop) \/ Insert(Loop) \/ InsertFails(Loop)
  BY <1>1 DEF Collect, Suppress, Insert, InsertFails
<1>2. CASE Check(Loop)
  <2>1. PICK kept \in Cut(Audible(batch[Loop])) : batch' = [batch EXCEPT ![Loop] = kept]
    BY <1>2 DEF Check
  <2>2. \A f \in kept : f \in Findings /\ KeyOf[f] \notin Suppressed
    BY <2>1 DEF Cut, Audible
  <2>3. \A f \in kept : KeyOf[f] \in Keys /\ until[KeyOf[f]] <= 0
    BY <2>2 DEF Suppressed
  <2> QED  BY <1>2, <2>1, <2>3 DEF Check
<1>3. ASSUME NEW keys, Forget(keys), UNCHANGED <<step, batch>>
      PROVE  AudibleInv'
  BY <1>3 DEF Forget
<1>4. CASE PersonActs
  <2>1. /\ UNCHANGED <<step, batch>>
        /\ UNCHANGED <<until, quiet>> \/ \E keys : Forget(keys)
    BY <1>4 DEF PersonActs, Acknowledge, Unacknowledge, DeleteAlerts, ResetCooldowns,
         ClearNetworks
  <2> QED  BY <1>3, <2>1
<1>5. CASE Tick  BY <1>5 DEF Tick
<1>6. CASE Prune  BY <1>6 DEF Prune
<1>7. CASE AirChanges \/ UNCHANGED vars  BY <1>7 DEF AirChanges, vars
<1>8. CASE Crash  BY <1>8 DEF Crash
<1> QED
  BY <1>1, <1>2, <1>4, <1>5, <1>6, <1>7, <1>8 DEF Next, ScanRuns

\* While scans do not overlap a finding is not repeated within its cooldown,
\* whatever is acknowledged, deleted, pruned or cleared, and wherever the
\* process dies.
THEOREM CooldownHolds ==
  ASSUME Scans = {Loop}
  PROVE  Spec => NoRepeat
<1>1. Init => PromiseInv /\ AudibleInv
  BY DEF Init, PromiseInv, AudibleInv, NoRow
<1>2. TypeOK /\ PromiseInv /\ AudibleInv /\ [Next]_vars => PromiseInv' /\ AudibleInv'
  BY PromiseInvNext, AudibleInvNext
<1>3. TypeOK /\ PromiseInv /\ AudibleInv /\ [Next]_vars
        => [\A s \in Scans : Suppress(s) => \A f \in batch[s] : quiet[KeyOf[f]] = 0]_vars
  BY PipelineConstantsOK
     DEF PipelineConstantsOK, TypeOK, PromiseInv, AudibleInv, Suppress
<1> QED  BY <1>1, <1>2, <1>3, PipelineTypes, PTL DEF Spec, NoRepeat

(***************************************************************************)
(* Nothing is kept quiet unrecorded                                        *)
(***************************************************************************)

\* While nothing fails, a running cooldown keeps its row, or a scan that is
\* about to write it, however many scans overlap.
LEMMA QuietIsRecordedNext ==
  ASSUME TypeOK, PromiseInv, QuietIsRecorded, ~Faults, [Next]_vars
  PROVE  QuietIsRecorded'
<1> USE PipelineConstantsOK
    DEF PipelineConstantsOK, TypeOK, QuietIsRecorded, Traceable, NoRow, Goto
<1>1. ASSUME NEW s \in Scans, ScanRuns(s)
      PROVE  QuietIsRecorded'
  <2>1. CASE Collect(s)  BY <2>1 DEF Collect
  <2>2. CASE Check(s)  BY <2>2 DEF Check
  <2>3. CASE Suppress(s)  BY <2>3 DEF Suppress, SuppressMany
  <2>4. CASE Insert(s)
    <3> SUFFICES ASSUME NEW k \in Traceable, until[k] > 0
                 PROVE  \/ \E a \in alerts' : KeyOf[a[1]] = k
                        \/ \E u \in Scans : step'[u] = "insert" /\ k \in KeysOf(batch'[u])
      BY <2>4 DEF Insert
    <3>1. CASE k \in KeysOf(batch[s])
      <4>1. PICK f \in batch[s] : KeyOf[f] = k  BY <3>1 DEF KeysOf
      <4>2. <<f, "open">> \in alerts'  BY <2>4 DEF Insert, InsertAlerts
      <4> QED  BY <4>1, <4>2
    <3>2. CASE k \notin KeysOf(batch[s])
      <4>1. alerts \subseteq alerts'  BY <2>4 DEF Insert, InsertAlerts
      <4>2. \A u \in Scans : u # s => step'[u] = step[u] /\ batch'[u] = batch[u]
        BY <2>4 DEF Insert
      <4> QED  BY <3>2, <4>1, <4>2
    <3> QED  BY <3>1, <3>2
  <2> QED  BY <1>1, <2>1, <2>2, <2>3, <2>4 DEF ScanRuns
<1>2. CASE Acknowledge \/ Unacknowledge
  <2>1. PICK some \in SUBSET alerts, all \in BOOLEAN, to \in {"open", "acked"} :
          alerts' = (IF all THEN alerts \ some ELSE alerts)
                      \cup {<<a[1], to>> : a \in some}
    <3>1. CASE Acknowledge  BY <3>1 DEF Acknowledge
    <3>2. CASE Unacknowledge  BY <3>2 DEF Unacknowledge
    <3> QED  BY <1>2, <3>1, <3>2
  <2>2. ASSUME NEW a \in alerts
        PROVE  \E b \in alerts' : b[1] = a[1]
    <3>1. CASE a \in some
      <4>1. <<a[1], to>> \in alerts'  BY <2>1, <3>1
      <4> QED  BY <4>1
    <3>2. CASE a \notin some  BY <2>1, <3>2
    <3> QED  BY <3>1, <3>2
  <2> QED  BY <1>2, <2>2 DEF Acknowledge, Unacknowledge
<1>3. CASE DeleteAlerts
  <2>1. PICK touched \in SUBSET alerts, gone \in SUBSET alerts :
          /\ gone \subseteq touched
          /\ alerts' = alerts \ gone
          /\ Forget(RowsOf({a[1] : a \in touched}))
    BY <1>3 DEF DeleteAlerts
  <2> SUFFICES ASSUME NEW k \in Traceable, until'[k] > 0
               PROVE  \/ \E a \in alerts' : KeyOf[a[1]] = k
                      \/ \E u \in Scans : step[u] = "insert" /\ k \in KeysOf(batch[u])
    BY <1>3 DEF DeleteAlerts
  <2>2. until[k] > 0 /\ k \notin RowsOf({a[1] : a \in touched})
    BY <2>1 DEF Forget
  <2>3. \A a \in touched : KeyOf[a[1]] # k
    BY <2>1, <2>2 DEF RowsOf
  <2> QED  BY <2>1, <2>2, <2>3
<1>4. CASE ResetCooldowns \/ ClearNetworks
  BY <1>4 DEF ResetCooldowns, ClearNetworks, Forget
<1>5. CASE Tick  BY <1>5 DEF Tick
<1>6. CASE Prune
  <2> SUFFICES ASSUME NEW k \in Traceable, until'[k] > 0
               PROVE  \/ \E a \in alerts' : KeyOf[a[1]] = k
                      \/ \E u \in Scans : step[u] = "insert" /\ k \in KeysOf(batch[u])
    BY <1>6 DEF Prune
  <2>1. until[k] > 0 /\ quiet[k] > 0  BY <1>6 DEF Prune, PromiseInv
  <2>2. ASSUME NEW a \in alerts, KeyOf[a[1]] = k
        PROVE  \E b \in alerts' : KeyOf[b[1]] = k
    <3>1. CASE ~Old(a)
      <4>1. a \in alerts'  BY <1>6, <3>1 DEF Prune
      <4> QED  BY <2>2, <4>1
    <3>2. CASE Old(a)
      <4>1. <<a[1], "open">> \in alerts  BY <2>1, <2>2, <3>2 DEF Old
      <4>2. ~Old(<<a[1], "open">>)  BY DEF Old
      <4>3. <<a[1], "open">> \in alerts'  BY <1>6, <4>1, <4>2 DEF Prune
      <4> QED  BY <2>2, <4>3
    <3> QED  BY <3>1, <3>2
  <2> QED  BY <2>1, <2>2
<1>7. CASE AirChanges \/ UNCHANGED vars  BY <1>7 DEF AirChanges, vars
<1> QED
  BY <1>1, <1>2, <1>3, <1>4, <1>5, <1>6, <1>7
     DEF Next, PersonActs, InsertFails, Crash

\* While no process dies and no write fails, whatever is kept quiet is on the
\* findings page or on its way there.
THEOREM QuietIsAlwaysRecorded ==
  ASSUME ~Faults
  PROVE  Spec => []QuietIsRecorded
<1>1. Init => PromiseInv /\ QuietIsRecorded
  BY DEF Init, PromiseInv, QuietIsRecorded, Traceable, NoRow
<1>2. TypeOK /\ PromiseInv /\ QuietIsRecorded /\ [Next]_vars
        => PromiseInv' /\ QuietIsRecorded'
  BY PromiseInvNext, QuietIsRecordedNext
<1> QED  BY <1>1, <1>2, PipelineTypes, PTL DEF Spec
=============================================================================
