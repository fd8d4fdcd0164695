--------------------------- MODULE RepairProofs -----------------------------
(***************************************************************************)
(* Proofs about what Stores keeps outside the database, for any devices,   *)
(* versions, callers and faults: the adapters under repair, the executable *)
(* under update and the install.  Last, what holds of all parts together.  *)
(***************************************************************************)
EXTENDS StoresProofs

(***************************************************************************)
(* Recovery                                                                *)
(*                                                                         *)
(* A step works on a list of devices it drew up when it began.  As long as *)
(* no run has outlived its caller there is one run, so what it was drawn   *)
(* up for is still broken.                                                 *)
(***************************************************************************)

\* What is counted here is counted as the library counts.
LEMMA RepairCounts ==
  ASSUME NEW S
  PROVE  /\ Repair!Cardinality(S) = Cardinality(S)
         /\ Repair!IsFiniteSet(S) <=> IsFiniteSet(S)
BY DEF Repair!Cardinality, Repair!IsFiniteSet, Cardinality, IsFiniteSet

\* A run that was not yet asked for has not begun.
LaterRunsAreNew ==
  \A r \in Repair!Runs : r > rcAsked \/ (r = rcAsked /\ rcCaller = "prompt") => rcStep[r] = 0

\* Only a run that lives, as administrator, has devices on its list or one in hand.
WorkIsLive ==
  \A r \in Repair!Runs :
    /\ rcTodo[r] # {} => Repair!Live(r) /\ rcPower[r] /\ Repair!Name(r) \in DOMAIN Repair!Handles
    /\ rcHalf[r] # Repair!NoDevice =>
         Repair!Live(r) /\ rcPower[r] /\ Repair!Name(r) = "restart" /\ rcHalf[r] \notin rcTodo[r]

\* Who waits knows for which run.
AskedIsNamed == rcCaller # "idle" => rcAsked \in Repair!Runs

\* Until a run has outlived its caller, the one that is waited for is the only one that
\* lives.
OneIsLive ==
  ~rcOutlived =>
    \A r \in Repair!Runs : Repair!Live(r) => rcCaller = "waiting" /\ r = rcAsked

BrokenDevices(name) == {d \in Repair!Unhealthy : rcCode[d] \in Repair!Handles[name]}

\* As long as no other run comes between, what is on a list is out of order, in the way the
\* step handles, unless the step has begun to change it.
WorkIsDue ==
  ~rcOutlived =>
    \A r \in Repair!Runs : rcTodo[r] # {} =>
      IF Repair!Name(r) = "enable" THEN rcChanged[r] \/ BrokenDevices("enable") # {}
                                   ELSE rcTodo[r] \subseteq BrokenDevices(Repair!Name(r))

\* What is disabled was so before, is to be enabled by a run that has it in hand, or could
\* not be.
DisabledIsAccounted ==
  \A d \in Devices : rcCode[d] = "disabled" =>
    d \in rcOff \cup rcStuck \/ \E r \in Repair!Runs : rcHalf[r] = d

\* Together they are inductive.
RepairInv ==
  /\ Repair!TypeOK /\ LaterRunsAreNew /\ AskedIsNamed /\ WorkIsLive /\ OneIsLive /\ WorkIsDue
  /\ DisabledIsAccounted

\* There are steps to take.
LEMMA StepsAre == Len(Repair!Steps) \in Nat \ {0} /\ DOMAIN Repair!Steps = 1..Len(Repair!Steps)
BY DEF Repair!Steps

\* The interfaces that work are some of the devices.
LEMMA InterfacesAreDevices ==
  ASSUME Repair!RecoveryConstantsOK PROVE Repair!Interfaces \in 0..Cardinality(Devices)
<1> DEFINE up == {d \in Wireless : rcCode[d] = "working"}
<1>1. up \in SUBSET Devices
  BY DEF Repair!RecoveryConstantsOK
<1>2. /\ IsFiniteSet(up) /\ Cardinality(up) <= Cardinality(Devices)
      /\ Cardinality(Devices) \in Nat
  BY RepairCounts, <1>1, FS_Subset, FS_CardinalityType DEF Repair!RecoveryConstantsOK
<1>3. Cardinality(up) \in Nat
  BY <1>2, FS_CardinalityType
<1> QED BY RepairCounts, <1>2, <1>3 DEF Repair!Interfaces

\* A step that has work to do is one of those that handle codes, and its work is on devices
\* it handles.
LEMMA TargetsAre ==
  ASSUME Repair!RecoveryConstantsOK, NEW n \in 1..Len(Repair!Steps)
  PROVE  /\ Repair!Targets(Repair!Steps[n]) \subseteq Devices
         /\ Repair!Targets(Repair!Steps[n]) # {} =>
              /\ Repair!Steps[n] \in DOMAIN Repair!Handles
              /\ IF Repair!Steps[n] = "enable" THEN BrokenDevices("enable") # {}
                 ELSE Repair!Targets(Repair!Steps[n]) \subseteq BrokenDevices(Repair!Steps[n])
BY DEF Repair!Targets, Repair!Unhealthy, BrokenDevices, Repair!RecoveryConstantsOK

\* Nobody has asked for a repair.
LEMMA RepairInvInit == ASSUME Repair!RecoveryConstantsOK, Repair!Init PROVE RepairInv
<1> USE DEF Repair!Init
<1>1. Repair!TypeOK
  <2>1. 0 \in 0..(Len(Repair!Steps) + 1) /\ 0 \in 0..MaxRuns /\ 0 \in 0..Cardinality(Devices)
    BY RepairCounts, StepsAre, FS_CardinalityType DEF Repair!RecoveryConstantsOK
  <2>2. rcOff \subseteq Devices /\ rcStuck \subseteq Devices
    BY DEF Repair!None
  <2> QED BY RepairCounts, <2>1, <2>2 DEF Repair!TypeOK, Repair!None
<1>2. \A r \in Repair!Runs : ~Repair!Live(r)
  BY DEF Repair!Live
<1> QED
  BY <1>1, <1>2
     DEF RepairInv, LaterRunsAreNew, AskedIsNamed, WorkIsLive, OneIsLive, WorkIsDue,
         DisabledIsAccounted, Repair!None

\* A run comes to its next step, with the list of what that one is for.
LEMMA NextStepKeeps ==
  ASSUME Repair!RecoveryConstantsOK, RepairInv, NEW r \in Repair!Runs, Repair!NextStep(r)
  PROVE  RepairInv'
<1> DEFINE n == IF rcChanged[r] /\ Repair!Interfaces > rcBaseline[r]
                THEN Len(Repair!Steps) + 1
                ELSE rcStep[r] + 1
           work == IF n <= Len(Repair!Steps) /\ rcPower[r]
                   THEN Repair!Targets(Repair!Steps[n])
                   ELSE {}
<1>1. /\ rcStep' = [rcStep EXCEPT ![r] = n] /\ rcChanged' = [rcChanged EXCEPT ![r] = FALSE]
      /\ rcTodo' = [rcTodo EXCEPT ![r] = work]
      /\ UNCHANGED <<rcHalf, rcBaseline, rcPower, rcAdmin, Repair!callerVars, Repair!history,
                     Repair!worldVars>>
      /\ rcHalf[r] = Repair!NoDevice /\ Repair!Live(r)
  BY DEF Repair!NextStep, Repair!EnterStep, Repair!Same, Repair!None
<1>2. /\ rcStep[r] \in 1..Len(Repair!Steps) /\ n \in 1..(Len(Repair!Steps) + 1) /\ r \in Int
      /\ rcAsked \in Int
  BY <1>1, StepsAre DEF Repair!Live, RepairInv, Repair!TypeOK, Repair!Runs
<1>3. work \subseteq Devices
  BY <1>2, StepsAre, TargetsAre
<1>4. work # {} =>
        /\ n \in 1..Len(Repair!Steps) /\ rcPower[r] /\ Repair!Steps[n] \in DOMAIN Repair!Handles
        /\ IF Repair!Steps[n] = "enable"
           THEN BrokenDevices("enable") # {}
           ELSE work \subseteq BrokenDevices(Repair!Steps[n])
  BY <1>2, StepsAre, TargetsAre
<1> HIDE DEF n, work
<1> USE DEF RepairInv
<1>5. Repair!TypeOK'
  BY <1>1, <1>2, <1>3, StepsAre
     DEF Repair!TypeOK, Repair!worldVars, Repair!callerVars, Repair!history
<1>6. LaterRunsAreNew' /\ AskedIsNamed'
  BY <1>1, <1>2 DEF LaterRunsAreNew, AskedIsNamed, Repair!TypeOK, Repair!Live, Repair!callerVars
<1>7. WorkIsLive'
  <2> SUFFICES ASSUME NEW q \in Repair!Runs
               PROVE /\ rcTodo'[q] # {} =>
                          /\ Repair!Live(q)' /\ rcPower'[q]
                          /\ Repair!Name(q)' \in DOMAIN Repair!Handles
                     /\ rcHalf'[q] # Repair!NoDevice =>
                          /\ Repair!Live(q)' /\ rcPower'[q]
                          /\ Repair!Name(q)' = "restart" /\ rcHalf'[q] \notin rcTodo'[q]
    BY DEF WorkIsLive
  <2>1. CASE q = r
    BY <1>1, <1>4, <2>1 DEF Repair!TypeOK, Repair!Live, Repair!Name, Repair!Handles
  <2>2. CASE q # r
    BY <1>1, <2>2 DEF WorkIsLive, Repair!TypeOK, Repair!Live, Repair!Name
  <2> QED BY <2>1, <2>2
<1>8. OneIsLive'
  BY <1>1 DEF OneIsLive, Repair!TypeOK, Repair!Live, Repair!callerVars, Repair!history
<1>9. WorkIsDue'
  <2> SUFFICES ASSUME ~rcOutlived', NEW q \in Repair!Runs, rcTodo'[q] # {}
               PROVE IF Repair!Name(q)' = "enable" THEN rcChanged'[q] \/ BrokenDevices("enable")' # {}
                                   ELSE rcTodo'[q] \subseteq BrokenDevices(Repair!Name(q))'
    BY DEF WorkIsDue
  <2>1. \A name : BrokenDevices(name)' = BrokenDevices(name)
    BY <1>1 DEF BrokenDevices, Repair!Unhealthy, Repair!worldVars
  <2>2. CASE q = r
    BY <1>1, <1>4, <2>1, <2>2 DEF Repair!TypeOK, Repair!Name
  <2>3. CASE q # r
    <3>1. /\ rcTodo'[q] = rcTodo[q] /\ rcChanged'[q] = rcChanged[q]
          /\ Repair!Name(q)' = Repair!Name(q)
      BY <1>1, <2>3 DEF Repair!TypeOK, Repair!Name
    <3> QED BY <1>1, <2>1, <3>1 DEF WorkIsDue, Repair!history
  <2> QED BY <2>2, <2>3
<1>10. DisabledIsAccounted'
  BY <1>1 DEF DisabledIsAccounted, Repair!worldVars, Repair!history
<1> QED BY <1>5, <1>6, <1>7, <1>8, <1>9, <1>10

\* What a step does to the devices: it takes one off its own list, or none.
WorksOn(r) ==
  /\ Repair!Live(r) \/ rcHalf[r] # Repair!NoDevice
  /\ UNCHANGED <<rcStep, rcBaseline, rcPower, rcAdmin, Repair!callerVars, rcOutlived>>
  /\ \A q \in Repair!Runs :
       /\ rcTodo'[q] \subseteq rcTodo[q]
       /\ q # r => /\ rcTodo'[q] = rcTodo[q] /\ rcHalf'[q] = rcHalf[q]
                   /\ rcChanged'[q] = rcChanged[q]
  /\ rcChanged[r] => rcChanged'[r]
  /\ rcCode' # rcCode =>
       \/ rcTodo'[r] = {}
       \/ Repair!Name(r) = "enable" /\ rcChanged'[r]
       \/ /\ Repair!Name(r) \in DOMAIN Repair!Handles /\ Repair!Name(r) # "enable"
          /\ \A e \in rcTodo'[r] : rcCode'[e] = rcCode[e]
  /\ rcHalf'[r] # Repair!NoDevice =>
       rcHalf'[r] \notin rcTodo'[r] /\ Repair!Name(r) = "restart" /\ rcPower[r]

\* Such a step keeps the invariant.
LEMMA WorkKeeps ==
  ASSUME Repair!RecoveryConstantsOK, RepairInv, NEW r \in Repair!Runs, WorksOn(r),
         Repair!TypeOK', DisabledIsAccounted'
  PROVE  RepairInv'
<1> USE DEF RepairInv, WorksOn, Repair!callerVars
<1>0. Repair!Live(r)
  BY DEF WorkIsLive
<1>1. \A q \in Repair!Runs : Repair!Live(q)' = Repair!Live(q) /\ Repair!Name(q)' = Repair!Name(q)
  BY DEF Repair!Live, Repair!Name
<1>2. LaterRunsAreNew' /\ AskedIsNamed'
  BY DEF LaterRunsAreNew, AskedIsNamed
<1>3. WorkIsLive'
  BY <1>0, <1>1 DEF WorkIsLive
<1>4. OneIsLive'
  BY <1>1 DEF OneIsLive
<1>5. WorkIsDue'
  <2> SUFFICES ASSUME ~rcOutlived, NEW q \in Repair!Runs, rcTodo'[q] # {}
               PROVE IF Repair!Name(q) = "enable" THEN rcChanged'[q] \/ BrokenDevices("enable")' # {}
                                   ELSE rcTodo'[q] \subseteq BrokenDevices(Repair!Name(q))'
    BY <1>1 DEF WorkIsDue
  <2>1. rcTodo[q] # {} /\ Repair!Live(q)
    BY DEF WorkIsLive
  <2>2. q = r
    BY <1>0, <2>1 DEF OneIsLive
  <2>3. IF Repair!Name(r) = "enable" THEN rcChanged[r] \/ BrokenDevices("enable") # {}
        ELSE rcTodo[r] \subseteq BrokenDevices(Repair!Name(r))
    BY <2>1, <2>2 DEF WorkIsDue
  <2>4. CASE rcCode' = rcCode
    BY <1>1, <2>2, <2>3, <2>4 DEF BrokenDevices, Repair!Unhealthy
  <2>5. CASE rcCode' # rcCode /\ Repair!Name(r) = "enable"
    BY <2>2, <2>5
  <2>6. CASE rcCode' # rcCode /\ Repair!Name(r) # "enable"
    BY <1>1, <2>2, <2>3, <2>6 DEF BrokenDevices, Repair!Unhealthy
  <2> QED BY <2>4, <2>5, <2>6
<1> QED BY <1>2, <1>3, <1>4, <1>5

\* All of the work is such steps.
LEMMA StepsWork ==
  ASSUME Repair!RecoveryConstantsOK, RepairInv, NEW r \in Repair!Runs,
         \/ Repair!Rescan(r) \/ Repair!StartService(r) \/ Repair!EnableAgain(r)
         \/ \E d \in Devices : Repair!Enable(r, d) \/ Repair!Disable(r, d) \/ Repair!BindDriver(r, d)
  PROVE  WorksOn(r) /\ Repair!TypeOK'
<1> USE DEF RepairInv, Repair!World, Repair!Same, Repair!worldVars, Repair!runVars,
            Repair!callerVars, Repair!history
<1>0. /\ Repair!ComesUpAs \cup {"disabled", "working"} \subseteq Repair!Codes
      /\ {"enable", "restart", "driver"} = DOMAIN Repair!Handles
  BY DEF Repair!ComesUpAs, Repair!Codes, Repair!Handles, Repair!TypeOK
<1>1. CASE Repair!Rescan(r)
  <2>1. rcTodo[r] = {} /\ rcHalf[r] = Repair!NoDevice
    BY <1>0, <1>1 DEF Repair!Rescan, WorkIsLive
  <2>2. Repair!TypeOK'
    BY <1>0, <1>1 DEF Repair!Rescan, Repair!TypeOK
  <2>3. WorksOn(r)
    BY <1>1, <2>1 DEF Repair!Rescan, WorksOn
  <2> QED BY <2>2, <2>3
<1>2. CASE Repair!StartService(r)
  <2>1. PICK svc \in {"running", "stopped"} :
          /\ rcService' = svc /\ rcCode' = rcCode
          /\ rcChanged' = [rcChanged EXCEPT ![r] = svc = "running"]
    BY <1>2 DEF Repair!StartService
  <2>2. ~rcChanged[r] /\ (svc = "running") \in BOOLEAN
    BY <1>2 DEF Repair!StartService
  <2>3. UNCHANGED <<rcStep, rcTodo, rcHalf, rcBaseline, rcPower, rcAdmin, rcAsked, rcCaller,
                    rcOutlived, rcOff, rcStuck>>
    BY <1>2 DEF Repair!StartService
  <2>4. Repair!TypeOK'
    BY <1>0, <2>1, <2>2, <2>3 DEF Repair!TypeOK
  <2>5. \A q \in Repair!Runs : q # r => rcChanged'[q] = rcChanged[q]
    BY <2>1 DEF Repair!TypeOK
  <2>6. WorksOn(r)
    BY <1>2, <2>1, <2>2, <2>3, <2>5 DEF Repair!StartService, WorksOn, WorkIsLive
  <2> QED BY <2>4, <2>6
<1>3. CASE Repair!EnableAgain(r)
  <2>1. /\ Repair!Name(r) = "restart" /\ rcHalf[r] \notin rcTodo[r] /\ rcHalf[r] \in Devices
        /\ rcPower[r]
    BY <1>3 DEF Repair!EnableAgain, WorkIsLive, Repair!TypeOK
  <2>2. Repair!TypeOK'
    BY <1>0, <1>3, <2>1 DEF Repair!EnableAgain, Repair!TypeOK
  <2>3. WorksOn(r)
    BY <1>0, <1>3, <2>1 DEF Repair!EnableAgain, WorksOn, Repair!TypeOK
  <2> QED BY <2>2, <2>3
<1>4. ASSUME NEW d \in Devices, Repair!Enable(r, d) PROVE WorksOn(r) /\ Repair!TypeOK'
  <2>1. rcHalf[r] = Repair!NoDevice /\ Repair!Name(r) = "enable" /\ "enable" # "restart"
    BY <1>4 DEF Repair!Enable, WorkIsLive
  <2>2. rcCode' \in [Devices -> Repair!Codes]
    BY <1>0, <1>4 DEF Repair!Enable, Repair!TypeOK
  <2>3. Repair!TypeOK'
    BY <1>0, <1>4, <2>2 DEF Repair!Enable, Repair!TypeOK
  <2>4. WorksOn(r)
    BY <1>0, <1>4, <2>1 DEF Repair!Enable, WorksOn, Repair!TypeOK
  <2> QED BY <2>3, <2>4
<1>5. ASSUME NEW d \in Devices, Repair!Disable(r, d) PROVE WorksOn(r) /\ Repair!TypeOK'
  <2>1. Repair!Name(r) = "restart" /\ rcPower[r] /\ d \notin rcTodo'[r]
    BY <1>5 DEF Repair!Disable, WorkIsLive, Repair!TypeOK
  <2>2. Repair!TypeOK'
    BY <1>0, <1>5 DEF Repair!Disable, Repair!TypeOK
  <2>3. WorksOn(r)
    BY <1>0, <1>5, <2>1 DEF Repair!Disable, WorksOn, Repair!TypeOK
  <2> QED BY <2>2, <2>3
<1>6. ASSUME NEW d \in Devices, Repair!BindDriver(r, d) PROVE WorksOn(r) /\ Repair!TypeOK'
  <2>1. Repair!Name(r) = "driver" /\ rcHalf[r] = Repair!NoDevice /\ d \notin rcTodo'[r]
    BY <1>6 DEF Repair!BindDriver, WorkIsLive, Repair!TypeOK
  <2>2. Repair!TypeOK'
    BY <1>0, <1>6 DEF Repair!BindDriver, Repair!TypeOK
  <2>3. WorksOn(r)
    BY <1>0, <1>6, <2>1 DEF Repair!BindDriver, WorksOn, Repair!TypeOK
  <2> QED BY <2>2, <2>3
<1> QED BY <1>1, <1>2, <1>3, <1>4, <1>5, <1>6

\* And none leaves a device disabled that nobody accounts for: the one that is disabled is in
\* hand, and what is in hand is enabled, or could not be.
LEMMA StepsAccount ==
  ASSUME Repair!RecoveryConstantsOK, RepairInv, NEW r \in Repair!Runs,
         \/ Repair!Rescan(r) \/ Repair!StartService(r) \/ Repair!EnableAgain(r)
         \/ \E d \in Devices : Repair!Enable(r, d) \/ Repair!Disable(r, d) \/ Repair!BindDriver(r, d)
  PROVE  DisabledIsAccounted'
<1> USE DEF RepairInv, Repair!World, Repair!Same, Repair!worldVars, Repair!history,
            Repair!TypeOK, DisabledIsAccounted, Repair!ComesUpAs
<1>1. CASE Repair!Rescan(r)
  BY <1>1 DEF Repair!Rescan, Repair!runVars
<1>2. CASE Repair!StartService(r)
  BY <1>2 DEF Repair!StartService
<1>3. CASE Repair!EnableAgain(r)
  <2>1. \A q \in Repair!Runs : q # r => rcHalf'[q] = rcHalf[q]
    BY <1>3 DEF Repair!EnableAgain
  <2>2. ASSUME NEW d \in Devices, rcCode'[d] = "disabled", d # rcHalf[r]
        PROVE  rcCode[d] = "disabled"
    BY <1>3, <2>2 DEF Repair!EnableAgain
  <2>3. rcCode'[rcHalf[r]] = "disabled" => rcHalf[r] \in rcStuck'
    BY <1>3 DEF Repair!EnableAgain
  <2>4. rcOff' = rcOff /\ rcStuck \subseteq rcStuck'
    BY <1>3 DEF Repair!EnableAgain
  <2> QED BY <2>1, <2>2, <2>3, <2>4
<1>4. ASSUME NEW d \in Devices, Repair!Enable(r, d) \/ Repair!BindDriver(r, d)
      PROVE  DisabledIsAccounted'
  BY <1>4 DEF Repair!Enable, Repair!BindDriver
<1>5. ASSUME NEW d \in Devices, Repair!Disable(r, d) PROVE DisabledIsAccounted'
  <2>1. rcHalf[r] = Repair!NoDevice /\ UNCHANGED <<rcOff, rcStuck>>
    BY <1>5 DEF Repair!Disable
  <2>2. \A q \in Repair!Runs : q # r => rcHalf'[q] = rcHalf[q]
    BY <1>5 DEF Repair!Disable
  <2>3. CASE rcHalf'[r] = d /\ rcCode' = [rcCode EXCEPT ![d] = "disabled"]
    <3>1. \A e \in Devices : e # d => rcCode'[e] = rcCode[e]
      BY <2>3
    <3>2. \A e \in Devices, q \in Repair!Runs : rcHalf[q] = e => rcHalf'[q] = e
      BY <2>1, <2>2 DEF Repair!RecoveryConstantsOK
    <3> QED BY <2>1, <2>3, <3>1, <3>2
  <2>4. CASE UNCHANGED <<rcHalf, rcCode>>
    BY <2>1, <2>4
  <2> QED BY <1>5, <2>3, <2>4 DEF Repair!Disable
<1> QED BY <1>1, <1>2, <1>3, <1>4, <1>5

\* A helper is launched, for a run that is new.
LEMMA LaunchKeeps ==
  ASSUME Repair!RecoveryConstantsOK, RepairInv, NEW r \in Repair!Runs, NEW elevated \in BOOLEAN,
         Repair!Launch(r, elevated), rcStep[r] = 0, rcCaller \in {"idle", "prompt"},
         rcCaller' = "waiting",
         rcAsked' = r, rcAsked <= r,
         UNCHANGED <<Repair!worldVars, rcAdmin, Repair!history>>
  PROVE  RepairInv'
<1> USE DEF RepairInv, Repair!worldVars, Repair!history
<1>1. /\ rcStep' = [rcStep EXCEPT ![r] = 1] /\ rcChanged' = [rcChanged EXCEPT ![r] = FALSE]
      /\ rcBaseline' = [rcBaseline EXCEPT ![r] = Repair!Interfaces]
      /\ rcPower' = [rcPower EXCEPT ![r] = elevated] /\ UNCHANGED <<rcTodo, rcHalf>>
      /\ ~Repair!Live(r) /\ r \in Nat
  BY StepsAre
     DEF Repair!Launch, Repair!EnterStep, Repair!Live, Repair!Runs, Repair!RecoveryConstantsOK
<1>2. Repair!TypeOK'
  <2>1. 1 \in 0..(Len(Repair!Steps) + 1) /\ rcAsked' \in 0..MaxRuns
    BY StepsAre DEF Repair!Runs, Repair!RecoveryConstantsOK
  <2> QED BY RepairCounts, <1>1, <2>1, InterfacesAreDevices DEF Repair!TypeOK
<1>3. LaterRunsAreNew' /\ AskedIsNamed'
  <2>1. \A q \in Repair!Runs : q > r => q > rcAsked
    BY DEF Repair!Runs, Repair!RecoveryConstantsOK, Repair!TypeOK
  <2>2. ~(r > r)
    BY <1>1
  <2> QED BY <1>1, <2>1, <2>2 DEF LaterRunsAreNew, AskedIsNamed, Repair!TypeOK
<1>4. rcTodo[r] = {} /\ rcHalf[r] = Repair!NoDevice
  BY <1>1 DEF WorkIsLive
<1>5. WorkIsLive'
  <2> SUFFICES ASSUME NEW q \in Repair!Runs
               PROVE /\ rcTodo'[q] # {} =>
                          /\ Repair!Live(q)' /\ rcPower'[q]
                          /\ Repair!Name(q)' \in DOMAIN Repair!Handles
                     /\ rcHalf'[q] # Repair!NoDevice =>
                          /\ Repair!Live(q)' /\ rcPower'[q]
                          /\ Repair!Name(q)' = "restart" /\ rcHalf'[q] \notin rcTodo'[q]
    BY DEF WorkIsLive
  <2>1. CASE q = r
    BY <1>1, <1>4, <2>1
  <2>2. CASE q # r
    BY <1>1, <2>2 DEF WorkIsLive, Repair!TypeOK, Repair!Live, Repair!Name
  <2> QED BY <2>1, <2>2
<1>6. OneIsLive'
  BY <1>1 DEF OneIsLive, Repair!TypeOK, Repair!Live
<1>7. WorkIsDue'
  <2> SUFFICES ASSUME ~rcOutlived, NEW q \in Repair!Runs, rcTodo'[q] # {}
               PROVE IF Repair!Name(q)' = "enable" THEN rcChanged'[q] \/ BrokenDevices("enable")' # {}
                                   ELSE rcTodo'[q] \subseteq BrokenDevices(Repair!Name(q))'
    BY DEF WorkIsDue
  <2>1. rcTodo[q] # {} /\ q # r
    BY <1>1, <1>4
  <2>2. Repair!Live(q)
    BY <2>1 DEF WorkIsLive
  <2> QED BY <2>1, <2>2 DEF OneIsLive
<1>8. DisabledIsAccounted'
  BY <1>1 DEF DisabledIsAccounted
<1> QED BY <1>2, <1>3, <1>5, <1>6, <1>7, <1>8

\* A repair is asked for, with elevation or without.
LEMMA AskKeeps ==
  ASSUME Repair!RecoveryConstantsOK, RepairInv, NEW elevate \in BOOLEAN,
         Repair!AskRepair(elevate)
  PROVE  RepairInv'
<1> USE DEF RepairInv, Repair!AskRepair
<1>1. /\ rcAsked \in Nat /\ rcAsked' = rcAsked + 1 /\ rcAsked' \in Repair!Runs
      /\ rcCaller = "idle"
      /\ UNCHANGED <<rcAdmin, Repair!history, Repair!worldVars>>
  BY DEF Repair!TypeOK, Repair!Runs, Repair!RecoveryConstantsOK, Repair!Same
<1>2. rcStep[rcAsked'] = 0
  BY <1>1 DEF LaterRunsAreNew
<1>3. CASE elevate /\ ~rcAdmin
  <2>1. rcCaller' = "prompt" /\ UNCHANGED Repair!runVars
    BY <1>3
  <2>2. Repair!TypeOK'
    BY <1>1, <2>1 DEF Repair!TypeOK, Repair!worldVars, Repair!runVars, Repair!Runs, Repair!history
  <2>3. LaterRunsAreNew' /\ AskedIsNamed'
    <3>1. \A q \in Repair!Runs : q > rcAsked' \/ q = rcAsked' => q > rcAsked
      BY <1>1 DEF Repair!Runs, Repair!RecoveryConstantsOK
    <3> QED BY <1>1, <2>1, <3>1 DEF LaterRunsAreNew, AskedIsNamed, Repair!runVars
  <2>4. ~rcOutlived => \A q \in Repair!Runs : ~Repair!Live(q)
    BY <1>1 DEF OneIsLive
  <2> QED
    BY <1>1, <2>1, <2>2, <2>3, <2>4
       DEF WorkIsLive, OneIsLive, WorkIsDue, DisabledIsAccounted, Repair!Live, Repair!Name,
           BrokenDevices, Repair!Unhealthy, Repair!worldVars, Repair!runVars, Repair!history
<1>4. CASE ~(elevate /\ ~rcAdmin)
  <2>1. rcCaller' = "waiting" /\ Repair!Launch(rcAsked', rcAdmin)
    BY <1>4
  <2> DEFINE r == rcAsked'
  <2>2. /\ r \in Repair!Runs /\ rcStep[r] = 0 /\ rcAsked <= r /\ rcAsked' = r
        /\ Repair!Launch(r, rcAdmin)
    BY <1>1, <1>2, <2>1
  <2>3. rcAdmin \in BOOLEAN
    BY DEF Repair!TypeOK
  <2> HIDE DEF r
  <2> QED BY <1>1, <2>1, <2>2, <2>3, LaunchKeeps
<1> QED BY <1>3, <1>4

\* The person agrees to the prompt.
LEMMA ConsentKeeps ==
  ASSUME Repair!RecoveryConstantsOK, RepairInv, Repair!Consent PROVE RepairInv'
<1>1. /\ rcCaller = "prompt" /\ rcCaller' = "waiting" /\ Repair!Launch(rcAsked, TRUE)
      /\ rcAsked' = rcAsked
      /\ UNCHANGED <<Repair!worldVars, rcAdmin, Repair!history>>
  BY DEF Repair!Consent, Repair!Same
<1>2. rcAsked \in Repair!Runs /\ rcStep[rcAsked] = 0 /\ rcAsked <= rcAsked
  BY <1>1 DEF RepairInv, AskedIsNamed, LaterRunsAreNew, Repair!Runs, Repair!RecoveryConstantsOK
<1> QED BY <1>1, <1>2, LaunchKeeps

\* The caller declines, collects or gives up.
LEMMA CallerKeeps ==
  ASSUME Repair!RecoveryConstantsOK, RepairInv,
         \/ Repair!Decline \/ Repair!Collect \/ Repair!GiveUp \/ UNCHANGED Repair!vars
  PROVE  RepairInv'
<1> USE DEF RepairInv, Repair!Decline, Repair!Collect, Repair!GiveUp, Repair!vars, Repair!Same,
            Repair!worldVars, Repair!runVars, Repair!callerVars, Repair!history
<1>1. Repair!TypeOK'
  BY DEF Repair!TypeOK
<1>2. UNCHANGED Repair!runVars /\ UNCHANGED rcAsked /\ UNCHANGED rcCode
  OBVIOUS
<1>3. LaterRunsAreNew' /\ AskedIsNamed'
  BY DEF LaterRunsAreNew, AskedIsNamed
<1>4. WorkIsLive'
  BY <1>2 DEF WorkIsLive, Repair!Live, Repair!Name
<1>5. OneIsLive'
  BY <1>2 DEF OneIsLive, Repair!Live, AskedIsNamed
<1>6. WorkIsDue'
  BY <1>2 DEF WorkIsDue, Repair!Live, Repair!Name, BrokenDevices, Repair!Unhealthy
<1>7. DisabledIsAccounted'
  BY <1>2 DEF DisabledIsAccounted
<1> QED BY <1>1, <1>3, <1>4, <1>5, <1>6, <1>7

\* The helper dies in the middle, and leaves what it had in hand.
LEMMA DeathKeeps ==
  ASSUME Repair!RecoveryConstantsOK, RepairInv, NEW r \in Repair!Runs, Repair!HelperDies(r)
  PROVE  RepairInv'
<1> USE DEF RepairInv, Repair!HelperDies, Repair!Same, Repair!worldVars, Repair!callerVars,
            Repair!None
<1>1. Repair!TypeOK'
  BY StepsAre DEF Repair!TypeOK
<1>2. \A q \in Repair!Runs : q # r => /\ rcStep'[q] = rcStep[q] /\ rcTodo'[q] = rcTodo[q] /\ rcHalf'[q] = rcHalf[q]
                                      /\ Repair!Live(q)' = Repair!Live(q)
                                      /\ Repair!Name(q)' = Repair!Name(q)
  BY DEF Repair!TypeOK, Repair!Live, Repair!Name
<1>3. rcStep'[r] = 0 /\ rcTodo'[r] = {} /\ rcHalf'[r] = Repair!NoDevice /\ ~Repair!Live(r)'
  BY DEF Repair!TypeOK, Repair!Live
<1>4. LaterRunsAreNew' /\ AskedIsNamed'
  BY <1>2, <1>3 DEF LaterRunsAreNew, AskedIsNamed
<1>5. WorkIsLive'
  BY <1>2, <1>3 DEF WorkIsLive
<1>6. OneIsLive'
  BY <1>2, <1>3 DEF OneIsLive
<1>7. WorkIsDue'
  <2> SUFFICES ASSUME ~rcOutlived, NEW q \in Repair!Runs, rcTodo'[q] # {}
               PROVE IF Repair!Name(q)' = "enable" THEN rcChanged'[q] \/ BrokenDevices("enable")' # {}
                                   ELSE rcTodo'[q] \subseteq BrokenDevices(Repair!Name(q))'
    BY DEF WorkIsDue
  <2>1. q # r
    BY <1>3
  <2>2. /\ rcTodo'[q] = rcTodo[q] /\ rcChanged'[q] = rcChanged[q]
        /\ Repair!Name(q)' = Repair!Name(q) /\ rcCode' = rcCode
    BY <1>2, <2>1
  <2> QED BY <2>2 DEF WorkIsDue, BrokenDevices, Repair!Unhealthy
<1>8. DisabledIsAccounted'
  <2>1. rcCode' = rcCode /\ rcOff' = rcOff /\ rcStuck \subseteq rcStuck'
        /\ (rcHalf[r] # Repair!NoDevice => rcHalf[r] \in rcStuck')
    OBVIOUS
  <2> QED BY <1>2, <2>1 DEF DisabledIsAccounted, Repair!NoDevice, Repair!RecoveryConstantsOK
<1> QED BY <1>1, <1>4, <1>5, <1>6, <1>7, <1>8

\* Every step keeps the invariant.
LEMMA RepairInvNext ==
  ASSUME Repair!RecoveryConstantsOK, RepairInv, [Repair!Next]_(Repair!vars) PROVE RepairInv'
<1>1. ASSUME NEW r \in Repair!Runs, Repair!RunSteps(r) PROVE RepairInv'
  <2>1. CASE Repair!NextStep(r)
    BY <2>1, NextStepKeeps
  <2>2. CASE \/ Repair!Rescan(r) \/ Repair!StartService(r) \/ Repair!EnableAgain(r)
             \/ \E d \in Devices : Repair!Enable(r, d) \/ Repair!Disable(r, d) \/ Repair!BindDriver(r, d)
    BY <2>2, StepsWork, StepsAccount, WorkKeeps
  <2> QED BY <1>1, <2>1, <2>2 DEF Repair!RunSteps
<1> QED
  BY <1>1, DeathKeeps, AskKeeps, ConsentKeeps, CallerKeeps DEF Repair!Next

\* So what a run changes was announced, and needs no more than it has.
LEMMA RepairIsAnnounced ==
  ASSUME Repair!RecoveryConstantsOK, RepairInv, [Repair!Next]_(Repair!vars)
  PROVE  \A r \in Repair!Runs :
           (\/ rcChanged'[r] /\ ~rcChanged[r] /\ rcHalf[r] = Repair!NoDevice
            \/ rcHalf'[r] \notin {rcHalf[r], Repair!NoDevice})
             => /\ ~rcOutlived => Repair!Name(r) \in Repair!Planned
                /\ Repair!Name(r) \in Repair!NeedsAdmin => rcPower[r]
<1> SUFFICES ASSUME NEW r \in Repair!Runs,
                    \/ rcChanged'[r] /\ ~rcChanged[r] /\ rcHalf[r] = Repair!NoDevice
                    \/ rcHalf'[r] \notin {rcHalf[r], Repair!NoDevice}
             PROVE  (~rcOutlived => Repair!Name(r) \in Repair!Planned) /\ rcPower[r]
  OBVIOUS
<1> USE DEF RepairInv
<1>1. PICK s \in Repair!Runs :
        \/ Repair!StartService(s)
        \/ \E d \in Devices : Repair!Enable(s, d) \/ Repair!Disable(s, d) \/ Repair!BindDriver(s, d)
  BY DEF Repair!Next, Repair!RunSteps, Repair!NextStep, Repair!Rescan, Repair!EnableAgain,
     Repair!HelperDies, Repair!AskRepair, Repair!Launch, Repair!EnterStep, Repair!Decline,
     Repair!Consent, Repair!Collect, Repair!GiveUp, Repair!vars, Repair!runVars, Repair!TypeOK
<1>2. s = r
  BY <1>1
     DEF Repair!StartService, Repair!Enable, Repair!Disable, Repair!BindDriver, Repair!TypeOK
<1>3. Repair!Live(r) /\ rcPower[r]
  BY <1>1, <1>2
     DEF Repair!StartService, Repair!Enable, Repair!Disable, Repair!BindDriver, WorkIsLive
<1>4. Repair!Name(r) \in {Repair!Steps[i] : i \in DOMAIN Repair!Steps}
  BY <1>3, StepsAre DEF Repair!Name, Repair!Live
<1>5. CASE Repair!Name(r) \notin DOMAIN Repair!Handles
  BY <1>3, <1>4, <1>5 DEF Repair!Planned
<1>6. CASE Repair!Name(r) \in DOMAIN Repair!Handles
  <2>1. PICK d \in Devices : \/ Repair!Enable(r, d) \/ Repair!Disable(r, d)
                             \/ Repair!BindDriver(r, d)
    BY <1>1, <1>2, <1>6 DEF Repair!StartService, Repair!Handles
  <2>2. d \in rcTodo[r] /\ ~(Repair!Name(r) = "enable" /\ rcChanged[r])
    BY <2>1 DEF Repair!Enable, Repair!Disable, Repair!BindDriver
  <2>3. ~rcOutlived => BrokenDevices(Repair!Name(r)) # {}
    BY <2>2 DEF WorkIsDue
  <2>4. ~rcOutlived => \E b \in Repair!Unhealthy : rcCode[b] \in Repair!Handles[Repair!Name(r)]
    BY <2>3 DEF BrokenDevices
  <2> QED BY <1>3, <1>4, <2>4 DEF Repair!Planned
<1> QED BY <1>5, <1>6

\* So nothing is left disabled.
LEMMA InvEnables == RepairInv => Repair!DisabledOnlyMidway
BY DEF RepairInv, DisabledIsAccounted, Repair!DisabledOnlyMidway

(***************************************************************************)
(* ReleaseUpdate                                                           *)
(*                                                                         *)
(* One caller updates at a time.  The old executable is moved aside, not   *)
(* deleted, until the new one is in place, and a process that runs holds   *)
(* the file it runs from.                                                  *)
(***************************************************************************)

\* One caller is at work at a time, in a process that runs.
OneCaller ==
  /\ \A c \in Callers : ruPc[c] # "idle" => ruApplying /\ Release!Running
  /\ \A c, d \in Callers : ruPc[c] # "idle" /\ ruPc[d] # "idle" => c = d

\* Between the move and its end, what was moved has a name of its own, and no process
\* runs from where the new executable is copied to.
MovedAside ==
  \A c \in Callers : ruPc[c] \in {"copy", "undo"} =>
    /\ ruAside[c] \in Release!Names \ {"exe"}
    /\ \A p \in {"app", "last"} : ruImage[p] # "exe"

\* The program runs from a file that works.
ImageWorks == Release!Running => ruFiles[ruImage["app"]].whole

\* Together they are inductive.
ReleaseInv == Release!TypeOK /\ OneCaller /\ MovedAside /\ ImageWorks /\ Release!NeverWithoutImage

\* Where a caller is, what it was told, and the name it has moved the executable to.
CallersOK ==
  /\ ruApplying \in BOOLEAN
  /\ ruPc \in [Callers -> {"idle", "check", "fetch", "verify", "move", "copy", "undo",
                           "restart"}]
  /\ ruInfo \in [Callers -> [version : Release!Versions, sums : BOOLEAN]]
  /\ ruAside \in [Callers -> Release!Names \cup {Release!NoName}]

\* A caller that returns, or goes with its process, leaves these as they should be.
LEMMA CallersStayOK ==
  ASSUME Release!ReleaseConstantsOK, CallersOK
  PROVE  /\ Release!ThreadsGone => CallersOK'
         /\ \A c \in Callers : Release!Return(c) => CallersOK'
         /\ UNCHANGED Release!callVars => CallersOK'
<1>1. Release!NoInfo \in [version : Release!Versions, sums : BOOLEAN]
  BY DEF Release!NoInfo, Release!Versions, Release!ReleaseConstantsOK
<1>2. Release!ThreadsGone => CallersOK'  BY <1>1 DEF Release!ThreadsGone, CallersOK
<1>3. ASSUME NEW c \in Callers, Release!Return(c) PROVE CallersOK'
  BY <1>1, <1>3 DEF Release!Return, Release!Goto, CallersOK
<1>4. UNCHANGED Release!callVars => CallersOK'  BY DEF CallersOK, Release!callVars
<1> QED  BY <1>2, <1>3, <1>4

\* Files, images and the rest stay as they should be when nothing of them changes.
FilesOK == ruFiles \in [Release!Names -> Release!Contents] /\ ruStaged \in Release!Contents
ImagesOK ==
  /\ ruImage \in [{"app", "last"} -> Release!Names \cup {Release!NoName}]
  /\ ruRuns \in [{"app", "last"} -> Release!Versions]
RestOK == ruRelease \in [version : Release!Versions, sums : BOOLEAN] /\ ruCrashes \in 0..MaxCrashes

\* What a process that starts or ends leaves.
LEMMA ImagesStayOK ==
  ASSUME Release!ReleaseConstantsOK, FilesOK, ImagesOK
  PROVE  /\ Release!Ends => ImagesOK'
         /\ \A before \in Release!Names \cup {Release!NoName} :
              Release!Starts(before) => ImagesOK' /\ ruFiles' \in [Release!Names -> Release!Contents]
<1> USE DEF FilesOK, ImagesOK
<1>1. 0 \in Release!Versions /\ Release!None \in Release!Contents
  BY DEF Release!Versions, Release!ReleaseConstantsOK, Release!None, Release!Contents
<1>2. Release!Ends => ImagesOK'  BY <1>1 DEF Release!Ends
<1>3. ASSUME NEW before \in Release!Names \cup {Release!NoName}, Release!Starts(before)
      PROVE  ImagesOK' /\ ruFiles' \in [Release!Names -> Release!Contents]
  <2>1. "exe" \in Release!Names /\ ruFiles["exe"].version \in Release!Versions
    BY DEF Release!Contents, Release!Names
  <2>2. ruImage' \in [{"app", "last"} -> Release!Names \cup {Release!NoName}]
    BY <1>3, <2>1 DEF Release!Starts
  <2>3. ruRuns' \in [{"app", "last"} -> Release!Versions]
    BY <1>1, <1>3, <2>1 DEF Release!Starts
  <2>4. ruFiles' \in [Release!Names -> Release!Contents]
    BY <1>1, <1>3 DEF Release!Starts, Release!Swept
  <2> QED  BY <2>2, <2>3, <2>4
<1> QED  BY <1>2, <1>3

\* Every step keeps the types.
LEMMA ReleaseTypeNext ==
  ASSUME Release!ReleaseConstantsOK, Release!TypeOK, MovedAside, [Release!Next]_(Release!vars)
  PROVE  Release!TypeOK'
<1>a. /\ Release!None \in Release!Contents
      /\ \A v \in Release!Versions :
           Release!Broken(v) \in Release!Contents /\ Release!Whole(v) \in Release!Contents
  BY DEF Release!None, Release!Broken, Release!Whole, Release!Contents, Release!Versions,
     Release!ReleaseConstantsOK
<1>b. CallersOK /\ FilesOK /\ ImagesOK /\ RestOK
  BY DEF Release!TypeOK, CallersOK, FilesOK, ImagesOK, RestOK
<1>c. /\ Release!ThreadsGone => CallersOK'
      /\ \A c \in Callers : Release!Return(c) => CallersOK'
      /\ UNCHANGED Release!callVars => CallersOK'
  BY <1>b, CallersStayOK
<1>d. /\ Release!Ends => ImagesOK'
      /\ \A before \in Release!Names \cup {Release!NoName} :
           Release!Starts(before) => ImagesOK' /\ ruFiles' \in [Release!Names -> Release!Contents]
  BY <1>b, ImagesStayOK
<1>e. /\ UNCHANGED Release!fileVars => FilesOK'
      /\ UNCHANGED Release!procVars => ImagesOK'
      /\ UNCHANGED <<ruRelease, ruCrashes>> => RestOK'
  BY <1>b DEF Release!fileVars, Release!procVars, FilesOK, ImagesOK, RestOK
<1>f. ASSUME NEW c \in Callers, NEW place \in {"check", "fetch", "verify", "move", "copy",
                                               "undo", "restart"}, Release!Goto(c, place)
      PROVE  ruPc' \in [Callers -> {"idle", "check", "fetch", "verify", "move", "copy", "undo",
                                    "restart"}]
  BY <1>b, <1>f DEF Release!Goto, CallersOK
<1>1. ASSUME NEW c \in Callers, Release!Apply(c)
      PROVE  CallersOK' /\ FilesOK' /\ ImagesOK' /\ RestOK'
  BY <1>1, <1>b, <1>e, <1>f DEF Release!Apply, CallersOK
<1>2. ASSUME NEW c \in Callers, Release!CheckRelease(c)
      PROVE  CallersOK' /\ FilesOK' /\ ImagesOK' /\ RestOK'
  <2>1. ruRelease \in [version : Release!Versions, sums : BOOLEAN]  BY <1>b DEF RestOK
  <2>2. CallersOK'  BY <1>2, <1>b, <1>c, <1>f, <2>1 DEF Release!CheckRelease, CallersOK
  <2> QED  BY <1>2, <1>e, <2>2 DEF Release!CheckRelease
<1>3. ASSUME NEW c \in Callers, Release!Fetch(c)
      PROVE  CallersOK' /\ FilesOK' /\ ImagesOK' /\ RestOK'
  <2>1. ruInfo[c].version \in Release!Versions  BY <1>b DEF CallersOK
  <2>2. FilesOK'  BY <1>3, <1>a, <1>b, <2>1 DEF Release!Fetch, FilesOK
  <2>3. CallersOK'  BY <1>3, <1>b, <1>c, <1>f DEF Release!Fetch, CallersOK
  <2> QED  BY <1>3, <1>e, <2>2, <2>3 DEF Release!Fetch
<1>4. ASSUME NEW c \in Callers, Release!Verify(c)
      PROVE  CallersOK' /\ FilesOK' /\ ImagesOK' /\ RestOK'
  <2>1. FilesOK'  BY <1>4, <1>a, <1>b DEF Release!Verify, FilesOK
  <2>2. \A found \in BOOLEAN :
          [ruInfo EXCEPT ![c].sums = found]
            \in [Callers -> [version : Release!Versions, sums : BOOLEAN]]
    BY <1>b DEF CallersOK
  <2>3. CallersOK'  BY <1>4, <1>b, <1>c, <1>f, <2>2 DEF Release!Verify, CallersOK
  <2> QED  BY <1>4, <1>e, <2>1, <2>3 DEF Release!Verify
<1>5. ASSUME NEW c \in Callers, Release!MoveAside(c)
      PROVE  CallersOK' /\ FilesOK' /\ ImagesOK' /\ RestOK'
  <2>1. FilesOK'
    <3>1. "exe" \in Release!Names  BY DEF Release!Names
    <3> QED  BY <1>5, <1>a, <1>b, <3>1 DEF Release!MoveAside, FilesOK
  <2>2. ImagesOK'  BY <1>5, <1>b DEF Release!MoveAside, ImagesOK
  <2>3. CallersOK'  BY <1>5, <1>b, <1>c, <1>f DEF Release!MoveAside, CallersOK
  <2> QED  BY <1>5, <1>e, <2>1, <2>2, <2>3 DEF Release!MoveAside
<1>6. ASSUME NEW c \in Callers, Release!CopyBegins(c)
      PROVE  CallersOK' /\ FilesOK' /\ ImagesOK' /\ RestOK'
  <2>1. ruStaged.version \in Release!Versions  BY <1>b DEF Release!Contents, FilesOK
  <2>2. FilesOK'  BY <1>6, <1>a, <1>b, <2>1 DEF Release!CopyBegins, FilesOK
  <2> QED  BY <1>6, <1>c, <1>e, <2>2 DEF Release!CopyBegins
<1>7. ASSUME NEW c \in Callers, Release!CopyEnds(c)
      PROVE  CallersOK' /\ FilesOK' /\ ImagesOK' /\ RestOK'
  <2>1. FilesOK'  BY <1>7, <1>a, <1>b DEF Release!CopyEnds, FilesOK
  <2>2. CallersOK'  BY <1>7, <1>b, <1>c, <1>f DEF Release!CopyEnds, CallersOK
  <2> QED  BY <1>7, <1>e, <2>1, <2>2 DEF Release!CopyEnds
<1>8. ASSUME NEW c \in Callers, Release!CopyFails(c)
      PROVE  CallersOK' /\ FilesOK' /\ ImagesOK' /\ RestOK'
  BY <1>8, <1>b, <1>e, <1>f DEF Release!CopyFails, CallersOK
<1>9. ASSUME NEW c \in Callers, Release!Undo(c)
      PROVE  CallersOK' /\ FilesOK' /\ ImagesOK' /\ RestOK'
  <2>1. ruAside[c] \in Release!Names  BY <1>9 DEF Release!Undo, MovedAside
  <2>2. ruFiles' \in [Release!Names -> Release!Contents]
    BY <1>9, <1>a, <1>b, <2>1 DEF Release!Undo, FilesOK
  <2>3. FilesOK'  BY <1>9, <1>b, <2>2 DEF Release!Undo, FilesOK
  <2>4. ImagesOK'
    <3>1. "exe" \in Release!Names  BY DEF Release!Names
    <3> QED  BY <1>9, <1>b, <3>1 DEF Release!Undo, ImagesOK
  <2> QED  BY <1>9, <1>c, <1>e, <2>3, <2>4 DEF Release!Undo
<1>10. ASSUME NEW c \in Callers, Release!Restart(c)
       PROVE  CallersOK' /\ FilesOK' /\ ImagesOK' /\ RestOK'
  <2>1. ruImage["app"] \in Release!Names \cup {Release!NoName}  BY <1>b DEF ImagesOK
  <2>2. CallersOK'  BY <1>10, <1>c DEF Release!Restart, Release!Starts, Release!Ends
  <2>3. ImagesOK' /\ FilesOK'  BY <1>10, <1>b, <1>d, <2>1 DEF Release!Restart, FilesOK
  <2> QED  BY <1>10, <1>e, <2>2, <2>3 DEF Release!Restart
<1>11. CASE Release!LastEnds
  <2>1. ImagesOK'
    BY <1>11, <1>b DEF Release!LastEnds, ImagesOK, Release!Versions, Release!ReleaseConstantsOK
  <2> QED
    BY <1>11, <1>c, <1>e, <2>1
       DEF Release!LastEnds, Release!TypeOK, CallersOK, FilesOK, ImagesOK, RestOK
<1>12. CASE Release!Crash
  <2>1. RestOK'  BY <1>12, <1>b DEF Release!Crash, RestOK, Release!ReleaseConstantsOK
  <2>2. CallersOK'  BY <1>12, <1>c DEF Release!Crash, Release!Ends
  <2> QED
    BY <1>12, <1>d, <1>e, <2>1, <2>2
       DEF Release!Crash, Release!TypeOK, CallersOK, FilesOK, ImagesOK, RestOK
<1>13. CASE Release!Start
  <2>1. CallersOK'  BY <1>13, <1>c DEF Release!Start, Release!Starts
  <2>2. ImagesOK' /\ FilesOK'  BY <1>13, <1>b, <1>d DEF Release!Start, FilesOK
  <2> QED
    BY <1>13, <1>e, <2>1, <2>2
       DEF Release!Start, Release!TypeOK, CallersOK, FilesOK, ImagesOK, RestOK
<1>14. CASE Release!Publish
  <2>1. RestOK'
    BY <1>14, <1>b DEF Release!Publish, RestOK, Release!Versions, Release!ReleaseConstantsOK
  <2> QED
    BY <1>14, <1>c, <1>e, <2>1
       DEF Release!Publish, Release!TypeOK, CallersOK, FilesOK, ImagesOK, RestOK
<1>15. CASE UNCHANGED Release!vars
  BY <1>15, <1>c, <1>e DEF Release!vars, Release!TypeOK, CallersOK, FilesOK, ImagesOK, RestOK
<1>16. ASSUME NEW c \in Callers, Release!Steps(c) PROVE Release!TypeOK'
  <2>1. CallersOK' /\ FilesOK' /\ ImagesOK' /\ RestOK'
    BY <1>1, <1>2, <1>3, <1>4, <1>5, <1>6, <1>7, <1>8, <1>9, <1>10, <1>16 DEF Release!Steps
  <2> QED  BY <2>1 DEF Release!TypeOK, CallersOK, FilesOK, ImagesOK, RestOK
<1> QED  BY <1>11, <1>12, <1>13, <1>14, <1>15, <1>16 DEF Release!Next

\* The flag keeps a second caller out until the first has returned, and a process that
\* ends takes its callers with it.
LEMMA OneCallerNext ==
  ASSUME Release!TypeOK, OneCaller, MovedAside, [Release!Next]_(Release!vars)
  PROVE  OneCaller'
<1> USE DEF Release!TypeOK, OneCaller, Release!Goto, Release!Return
<1>1. ASSUME NEW c \in Callers, Release!Apply(c) PROVE OneCaller'
  BY <1>1 DEF Release!Apply, Release!procVars, Release!Running
<1>2. ASSUME NEW c \in Callers, ruPc[c] # "idle", UNCHANGED Release!procVars,
             \A d \in Callers \ {c} : ruPc'[d] = ruPc[d],
             UNCHANGED ruApplying \/ ruPc'[c] = "idle"
      PROVE  OneCaller'
  BY <1>2 DEF Release!procVars, Release!Running
<1>3. ASSUME NEW c \in Callers, Release!MoveAside(c) PROVE OneCaller'
  <2>1. Release!Running => Release!Running'
    BY <1>3 DEF Release!MoveAside, Release!Running, Release!Names, Release!NoName
  <2> QED  BY <1>3, <2>1 DEF Release!MoveAside
<1>4. ASSUME NEW c \in Callers, Release!Undo(c) PROVE OneCaller'
  <2>1. Release!Running => Release!Running'
    BY <1>4 DEF Release!Undo, Release!Running, Release!Names, Release!NoName
  <2> QED  BY <1>4, <2>1 DEF Release!Undo
<1>5. ASSUME Release!ThreadsGone PROVE OneCaller'
  BY <1>5 DEF Release!ThreadsGone
<1>6. ASSUME NEW c \in Callers, Release!CheckRelease(c) \/ Release!Fetch(c) \/ Release!Verify(c)
      PROVE  OneCaller'
  <2>1. ruPc[c] # "idle" /\ UNCHANGED Release!procVars
    BY <1>6 DEF Release!CheckRelease, Release!Fetch, Release!Verify
  <2>2. \A d \in Callers \ {c} : ruPc'[d] = ruPc[d]
    BY <1>6 DEF Release!CheckRelease, Release!Fetch, Release!Verify
  <2>3. UNCHANGED ruApplying \/ ruPc'[c] = "idle"
    BY <1>6 DEF Release!CheckRelease, Release!Fetch, Release!Verify
  <2> QED  BY <1>2, <2>1, <2>2, <2>3
<1>7. ASSUME NEW c \in Callers, Release!CopyEnds(c) \/ Release!CopyFails(c) PROVE OneCaller'
  <2>1. ruPc[c] # "idle" /\ UNCHANGED Release!procVars
    BY <1>7 DEF Release!CopyEnds, Release!CopyFails
  <2>2. \A d \in Callers \ {c} : ruPc'[d] = ruPc[d]
    BY <1>7 DEF Release!CopyEnds, Release!CopyFails
  <2>3. UNCHANGED ruApplying \/ ruPc'[c] = "idle"
    BY <1>7 DEF Release!CopyEnds, Release!CopyFails
  <2> QED  BY <1>2, <2>1, <2>2, <2>3
<1>8. ASSUME NEW c \in Callers, Release!Restart(c) PROVE OneCaller'
  BY <1>5, <1>8 DEF Release!Restart, Release!Starts, Release!Ends
<1>9. CASE Release!Crash \/ Release!Start
  BY <1>5, <1>9 DEF Release!Crash, Release!Start, Release!Starts, Release!Ends
<1>10. CASE Release!LastEnds  BY <1>10 DEF Release!LastEnds, Release!callVars, Release!Running
<1>11. ASSUME UNCHANGED <<ruApplying, ruPc, ruImage>> PROVE OneCaller'
  BY <1>11 DEF Release!Running
<1>12. ASSUME NEW c \in Callers, Release!CopyBegins(c) PROVE OneCaller'
  BY <1>11, <1>12 DEF Release!CopyBegins, Release!callVars, Release!procVars
<1>13. CASE Release!Publish
  BY <1>11, <1>13 DEF Release!Publish, Release!callVars, Release!procVars
<1>14. CASE UNCHANGED Release!vars
  BY <1>11, <1>14 DEF Release!vars, Release!callVars, Release!procVars
<1> QED
  BY <1>1, <1>3, <1>4, <1>6, <1>7, <1>8, <1>9, <1>10, <1>12, <1>13, <1>14
     DEF Release!Next, Release!Steps

\* While it is copied to, no process starts from the executable.
LEMMA MovedAsideNext ==
  ASSUME Release!TypeOK, OneCaller, MovedAside, [Release!Next]_(Release!vars)
  PROVE  MovedAside'
<1> USE DEF Release!TypeOK, OneCaller, MovedAside, Release!Goto, Release!Return, Release!Names
<1>1. ASSUME NEW c \in Callers,
             \/ Release!Apply(c) \/ Release!CheckRelease(c) \/ Release!Fetch(c)
             \/ Release!Verify(c)
      PROVE  MovedAside'
  BY <1>1
     DEF Release!Apply, Release!CheckRelease, Release!Fetch, Release!Verify, Release!procVars
<1>2. ASSUME NEW c \in Callers, Release!MoveAside(c) PROVE MovedAside'
  <2>1. CASE Release!Return(c) /\ UNCHANGED <<ruFiles, ruImage>>  BY <2>1
  <2>2. ASSUME NEW name \in Release!Names \ {"exe"},
               ruImage' = [p \in DOMAIN ruImage |-> IF ruImage[p] = "exe" THEN name ELSE ruImage[p]],
               ruAside' = [ruAside EXCEPT ![c] = name], Release!Goto(c, "copy")
        PROVE  MovedAside'
    BY <1>2, <2>2 DEF Release!MoveAside
  <2> QED  BY <1>2, <2>1, <2>2 DEF Release!MoveAside
<1>3. ASSUME NEW c \in Callers,
             Release!CopyBegins(c) \/ Release!CopyEnds(c) \/ Release!CopyFails(c)
      PROVE  MovedAside'
  BY <1>3
     DEF Release!CopyBegins, Release!CopyEnds, Release!CopyFails, Release!procVars,
         Release!callVars
<1>4. ASSUME NEW c \in Callers, Release!Undo(c) PROVE MovedAside'
  <2>1. \A d \in Callers : ruPc'[d] \notin {"copy", "undo"}  BY <1>4 DEF Release!Undo
  <2> QED  BY <2>1
<1>5. ASSUME Release!ThreadsGone PROVE MovedAside'
  BY <1>5 DEF Release!ThreadsGone
<1>6. ASSUME NEW c \in Callers, Release!Restart(c) PROVE MovedAside'
  BY <1>5, <1>6 DEF Release!Restart, Release!Starts, Release!Ends
<1>7. CASE Release!Crash \/ Release!Start
  BY <1>5, <1>7 DEF Release!Crash, Release!Start, Release!Starts, Release!Ends
<1>8. CASE Release!LastEnds  BY <1>8 DEF Release!LastEnds, Release!callVars, Release!NoName
<1>9. CASE Release!Publish  BY <1>9 DEF Release!Publish, Release!callVars, Release!procVars
<1>10. CASE UNCHANGED Release!vars
  BY <1>10 DEF Release!vars, Release!callVars, Release!procVars
<1> QED
  BY <1>1, <1>2, <1>3, <1>4, <1>6, <1>7, <1>8, <1>9, <1>10 DEF Release!Next, Release!Steps

\* The file a process runs from is moved with the process, never copied over, never swept.
LEMMA ImageWorksNext ==
  ASSUME Release!TypeOK, Release!TypeOK', OneCaller, MovedAside, ImageWorks,
         [Release!Next]_(Release!vars)
  PROVE  ImageWorks'
<1> USE DEF Release!TypeOK, OneCaller, MovedAside, ImageWorks, Release!Running, Release!Names,
            Release!NoName
<1>1. ASSUME UNCHANGED <<ruFiles, ruImage>> PROVE ImageWorks'  BY <1>1
<1>2. ASSUME NEW c \in Callers,
             \/ Release!Apply(c) \/ Release!CheckRelease(c) \/ Release!Fetch(c)
             \/ Release!Verify(c)
      PROVE  ImageWorks'
  BY <1>1, <1>2
     DEF Release!Apply, Release!CheckRelease, Release!Fetch, Release!Verify, Release!procVars,
         Release!fileVars
<1>3. ASSUME NEW c \in Callers, Release!MoveAside(c) PROVE ImageWorks'
  <2>1. CASE UNCHANGED <<ruFiles, ruImage>>  BY <1>1, <2>1
  <2>2. ASSUME NEW name \in Release!Names \ {"exe"},
               IF Release!Locked("old") THEN ruFiles[name] = Release!None ELSE name = "old",
               ruFiles' = [ruFiles EXCEPT ![name] = ruFiles["exe"], !["exe"] = Release!None],
               ruImage' = [p \in DOMAIN ruImage |-> IF ruImage[p] = "exe" THEN name ELSE ruImage[p]]
        PROVE  ImageWorks'
    <3>1. CASE ruImage["app"] = "exe"  BY <2>2, <3>1
    <3>2. CASE ruImage["app"] \in Release!Names \ {"exe"}
      <4>1. ruImage["app"] # name  BY <2>2, <3>2 DEF Release!Locked, Release!None
      <4> QED  BY <2>2, <3>2, <4>1
    <3>3. CASE ruImage["app"] = Release!NoName  BY <2>2, <3>3
    <3> QED  BY <3>1, <3>2, <3>3
  <2> QED  BY <1>3, <2>1, <2>2 DEF Release!MoveAside
<1>4. ASSUME NEW c \in Callers, Release!CopyBegins(c) \/ Release!CopyEnds(c) PROVE ImageWorks'
  <2>1. \A n \in Release!Names \ {"exe"} : ruFiles'[n] = ruFiles[n]
    BY <1>4 DEF Release!CopyBegins, Release!CopyEnds
  <2>2. ruImage["app"] # "exe" /\ ruImage' = ruImage
    BY <1>4 DEF Release!CopyBegins, Release!CopyEnds, Release!procVars
  <2> QED  BY <2>1, <2>2
<1>5. ASSUME NEW c \in Callers, Release!CopyFails(c) PROVE ImageWorks'
  BY <1>1, <1>5 DEF Release!CopyFails, Release!fileVars, Release!procVars
<1>6. ASSUME NEW c \in Callers, Release!Undo(c) PROVE ImageWorks'
  <2>1. ruImage["app"] # "exe" /\ ruAside[c] \in Release!Names \ {"exe"}
    BY <1>6 DEF Release!Undo
  <2> QED  BY <1>6, <2>1 DEF Release!Undo
<1>7. ASSUME NEW before \in Release!Names \cup {Release!NoName}, Release!Starts(before)
      PROVE  ImageWorks'
  <2>1. ruImage'["app"] = "exe" /\ ruFiles["exe"].whole  BY <1>7 DEF Release!Starts
  <2>2. ruFiles'["exe"] = ruFiles["exe"]  BY <1>7 DEF Release!Starts, Release!Swept
  <2> QED  BY <2>1, <2>2
<1>8. ASSUME Release!Ends PROVE ImageWorks'  BY <1>8 DEF Release!Ends
<1>9. ASSUME NEW c \in Callers, Release!Restart(c) PROVE ImageWorks'
  BY <1>7, <1>8, <1>9 DEF Release!Restart
<1>10. CASE Release!Crash  BY <1>8, <1>10 DEF Release!Crash
<1>11. CASE Release!Start  BY <1>7, <1>11 DEF Release!Start
<1>12. CASE Release!LastEnds  BY <1>12 DEF Release!LastEnds, Release!fileVars
<1>13. CASE Release!Publish
  BY <1>1, <1>13 DEF Release!Publish, Release!fileVars, Release!procVars
<1>14. CASE UNCHANGED Release!vars
  BY <1>1, <1>14 DEF Release!vars, Release!fileVars, Release!procVars
<1> QED
  BY <1>2, <1>3, <1>4, <1>5, <1>6, <1>9, <1>10, <1>11, <1>12, <1>13, <1>14
     DEF Release!Next, Release!Steps

\* As long as the program runs its image works; while it does not nobody touches a file
\* but a process that starts, from an executable that works.
LEMMA ReleaseImageStays ==
  ASSUME Release!TypeOK, Release!TypeOK', OneCaller, ImageWorks', Release!NeverWithoutImage,
         [Release!Next]_(Release!vars)
  PROVE  Release!NeverWithoutImage'
<1> USE DEF Release!TypeOK, Release!NeverWithoutImage
<1>1. CASE Release!Running'
  BY <1>1 DEF ImageWorks, Release!Running
<1>2. ASSUME UNCHANGED ruFiles PROVE Release!NeverWithoutImage'  BY <1>2
<1>3. CASE ~Release!Running' /\ ~Release!Running
  <2>1. \A c \in Callers : ruPc[c] = "idle"  BY <1>3 DEF OneCaller
  <2>2. \A c \in Callers : ~Release!Steps(c)
    BY <1>3, <2>1
       DEF Release!Steps, Release!Apply, Release!CheckRelease, Release!Fetch, Release!Verify,
           Release!MoveAside, Release!CopyBegins, Release!CopyEnds, Release!CopyFails,
           Release!Undo, Release!Restart
  <2>3. ~Release!Start
    BY <1>3 DEF Release!Start, Release!Starts, Release!Running, Release!NoName
  <2> QED
    BY <1>2, <2>2, <2>3
       DEF Release!Next, Release!LastEnds, Release!Crash, Release!Publish, Release!vars,
           Release!fileVars
<1>4. CASE ~Release!Running' /\ Release!Running
  <2>1. ASSUME NEW c \in Callers, Release!Steps(c) PROVE UNCHANGED ruFiles
    <3>1. CASE Release!Restart(c)
      BY <1>4, <3>1 DEF Release!Restart, Release!Starts, Release!Running, Release!NoName
    <3>2. CASE Release!MoveAside(c)
      BY <1>4, <3>2 DEF Release!MoveAside, Release!Running, Release!Names, Release!NoName
    <3>3. CASE Release!Undo(c)
      BY <1>4, <3>3 DEF Release!Undo, Release!Running, Release!Names, Release!NoName
    <3>4. CASE ~(Release!Restart(c) \/ Release!MoveAside(c) \/ Release!Undo(c))
      BY <1>4, <2>1, <3>4
         DEF Release!Steps, Release!Apply, Release!CheckRelease, Release!Fetch, Release!Verify,
             Release!CopyBegins, Release!CopyEnds, Release!CopyFails, Release!procVars,
             Release!Running
    <3> QED  BY <3>1, <3>2, <3>3, <3>4
  <2>2. ~Release!Start  BY <1>4 DEF Release!Start
  <2> QED
    BY <1>2, <2>1, <2>2
       DEF Release!Next, Release!LastEnds, Release!Crash, Release!Publish, Release!vars,
           Release!fileVars
<1> QED  BY <1>1, <1>3, <1>4

\* A version is installed and runs.
LEMMA ReleaseInvInit ==
  ASSUME Release!ReleaseConstantsOK, Release!Init
  PROVE  ReleaseInv
<1> USE DEF Release!Init, Release!ReleaseConstantsOK, Release!Names, Release!NoName,
            Release!Versions, Release!NoInfo, Release!Contents, Release!Whole, Release!None
<1>1. Release!TypeOK
  <2>1. {[version |-> 1, sums |-> TRUE], Release!NoInfo}
          \subseteq [version : Release!Versions, sums : BOOLEAN]
    OBVIOUS
  <2>2. {Release!None, Release!Whole(1)} \subseteq Release!Contents  OBVIOUS
  <2>3. ruFiles \in [Release!Names -> Release!Contents] /\ ruStaged \in Release!Contents
    BY <2>2
  <2>4. /\ ruImage \in [{"app", "last"} -> Release!Names \cup {Release!NoName}]
        /\ ruRuns \in [{"app", "last"} -> Release!Versions]
    OBVIOUS
  <2>5. /\ ruInfo \in [Callers -> [version : Release!Versions, sums : BOOLEAN]]
        /\ ruRelease \in [version : Release!Versions, sums : BOOLEAN]
    BY <2>1
  <2> HIDE DEF Release!Names, Release!NoName, Release!Versions, Release!NoInfo,
               Release!Contents, Release!Whole, Release!None
  <2>6. /\ ruAside \in [Callers -> Release!Names \cup {Release!NoName}]
        /\ ruCrashes \in 0..MaxCrashes
    OBVIOUS
  <2> QED  BY <2>3, <2>4, <2>5, <2>6 DEF Release!TypeOK
<1>2. OneCaller /\ MovedAside  BY DEF OneCaller, MovedAside
<1>3. ImageWorks /\ Release!NeverWithoutImage
  BY DEF ImageWorks, Release!NeverWithoutImage, Release!Running
<1> QED  BY <1>1, <1>2, <1>3 DEF ReleaseInv

\* Together they are inductive.
LEMMA ReleaseInvNext ==
  ASSUME Release!ReleaseConstantsOK, ReleaseInv, [Release!Next]_(Release!vars)
  PROVE  ReleaseInv'
<1> USE DEF ReleaseInv
<1>1. Release!TypeOK'  BY ReleaseTypeNext
<1>2. OneCaller'  BY OneCallerNext
<1>3. MovedAside'  BY MovedAsideNext
<1>4. ImageWorks'  BY <1>1, ImageWorksNext
<1>5. Release!NeverWithoutImage'  BY <1>1, <1>4, ReleaseImageStays
<1> QED  BY <1>1, <1>2, <1>3, <1>4, <1>5

\* What a caller moves and copies is what was published, if it says that it was verified.
DownloadIsWhole ==
  \A c \in Callers :
    ruPc[c] \in {"move", "copy"} /\ ruInfo[c].sums =>
      ruStaged \in {Release!None, Release!Whole(ruInfo[c].version)}

\* Nobody but the caller at work touches the download.
LEMMA DownloadStaysWhole ==
  ASSUME ReleaseInv, DownloadIsWhole, [Release!Next]_(Release!vars)
  PROVE  DownloadIsWhole'
<1> USE DEF ReleaseInv, Release!TypeOK
<1>1. ASSUME UNCHANGED ruStaged,
             \A c \in Callers : ruPc'[c] \in {"move", "copy"}
                                    => ruPc[c] \in {"move", "copy"} /\ ruInfo'[c] = ruInfo[c]
      PROVE  DownloadIsWhole'
  BY <1>1 DEF DownloadIsWhole
<1>2. ASSUME NEW c \in Callers, ruPc[c] # "idle", ruPc'[c] \notin {"move", "copy"},
             \A d \in Callers : d # c => ruPc'[d] = ruPc[d]
      PROVE  DownloadIsWhole'
  BY <1>2 DEF DownloadIsWhole, OneCaller
<1>3. ASSUME NEW c \in Callers, Release!Apply(c) PROVE DownloadIsWhole'
  BY <1>1, <1>3 DEF Release!Apply, Release!Goto, Release!fileVars
<1>4. ASSUME NEW c \in Callers, Release!CheckRelease(c) \/ Release!Fetch(c)
      PROVE  DownloadIsWhole'
  BY <1>2, <1>4 DEF Release!CheckRelease, Release!Fetch, Release!Goto, Release!Return
<1>5. ASSUME NEW c \in Callers, Release!Verify(c) PROVE DownloadIsWhole'
  <2>1. CASE Release!Return(c)
    BY <1>2, <1>5, <2>1 DEF Release!Verify, Release!Goto, Release!Return
  <2>2. CASE ~Release!Return(c)
    <3>1. PICK found \in BOOLEAN :
            /\ ~(found /\ ruStaged # Release!Whole(ruInfo[c].version))
            /\ ruInfo' = [ruInfo EXCEPT ![c].sums = found]
            /\ ruPc' = [ruPc EXCEPT ![c] = "move"] /\ UNCHANGED ruStaged
            /\ ruPc[c] # "idle"
      BY <1>5, <2>2 DEF Release!Verify, Release!Goto
    <3>2. \A d \in Callers : d # c => ruPc'[d] = "idle"
      BY <3>1 DEF OneCaller
    <3>3. \A d \in Callers : ruPc'[d] \in {"move", "copy"} => d = c  BY <3>2
    <3>4. ruInfo'[c].sums = found /\ ruInfo'[c].version = ruInfo[c].version
      BY <3>1
    <3> QED  BY <3>1, <3>3, <3>4 DEF DownloadIsWhole
  <2> QED  BY <2>1, <2>2
<1>6. ASSUME NEW c \in Callers, Release!MoveAside(c) PROVE DownloadIsWhole'
  <2>1. ruPc[c] = "move" /\ UNCHANGED ruStaged  BY <1>6 DEF Release!MoveAside
  <2>2. \/ Release!Return(c)
        \/ Release!Goto(c, "copy") /\ UNCHANGED ruInfo
    BY <1>6 DEF Release!MoveAside
  <2>3. CASE Release!Return(c)  BY <1>2, <2>1, <2>3 DEF Release!Goto, Release!Return
  <2>4. CASE Release!Goto(c, "copy") /\ UNCHANGED ruInfo  BY <1>1, <2>1, <2>4 DEF Release!Goto
  <2> QED  BY <2>2, <2>3, <2>4
<1>7. ASSUME NEW c \in Callers, Release!CopyBegins(c) PROVE DownloadIsWhole'
  BY <1>1, <1>7 DEF Release!CopyBegins, Release!callVars
<1>8. ASSUME NEW c \in Callers, Release!CopyEnds(c) \/ Release!CopyFails(c) \/ Release!Undo(c)
      PROVE  DownloadIsWhole'
  BY <1>2, <1>8
     DEF Release!CopyEnds, Release!CopyFails, Release!Undo, Release!Goto, Release!Return
<1>9. ASSUME Release!ThreadsGone PROVE DownloadIsWhole'
  BY <1>9 DEF Release!ThreadsGone, DownloadIsWhole
<1>10. ASSUME NEW c \in Callers, Release!Restart(c) PROVE DownloadIsWhole'
  BY <1>9, <1>10 DEF Release!Restart, Release!Starts, Release!Ends
<1>11. CASE Release!Crash \/ Release!Start
  BY <1>9, <1>11 DEF Release!Crash, Release!Start, Release!Starts, Release!Ends
<1>12. CASE Release!LastEnds \/ Release!Publish
  BY <1>1, <1>12 DEF Release!LastEnds, Release!Publish, Release!callVars, Release!fileVars
<1>13. CASE UNCHANGED Release!vars
  BY <1>1, <1>13 DEF Release!vars, Release!callVars, Release!fileVars
<1> QED
  BY <1>3, <1>4, <1>5, <1>6, <1>7, <1>8, <1>10, <1>11, <1>12, <1>13
     DEF Release!Next, Release!Steps

\* So what is put in place is what was published.
LEMMA OnlyWholeIsInstalled ==
  ASSUME ReleaseInv, DownloadIsWhole, [Release!Next]_(Release!vars)
  PROVE  \A c \in Callers :
           ruPc[c] = "copy" /\ ruInfo[c].sums /\ ruStaged # Release!None /\ ruStaged' = Release!None
               => ruFiles'["exe"] = Release!Whole(ruInfo[c].version)
<1> USE DEF ReleaseInv, Release!TypeOK
<1> SUFFICES ASSUME NEW c \in Callers, ruPc[c] = "copy", ruInfo[c].sums,
                    ruStaged # Release!None, ruStaged' = Release!None
             PROVE  ruFiles'["exe"] = Release!Whole(ruInfo[c].version)
  OBVIOUS
<1>1. ruStaged = Release!Whole(ruInfo[c].version)  BY DEF DownloadIsWhole
<1>2. \A d \in Callers : ruPc[d] # "idle" => d = c  BY DEF OneCaller
<1>3. ~UNCHANGED ruStaged  OBVIOUS
<1>4. ~(Release!LastEnds \/ Release!Crash \/ Release!Start \/ Release!Publish
        \/ UNCHANGED Release!vars)
  BY <1>3
     DEF Release!LastEnds, Release!Crash, Release!Start, Release!Publish, Release!vars,
         Release!fileVars
<1>5. PICK d \in Callers : Release!Steps(d)  BY <1>4 DEF Release!Next
<1>6. ~(Release!Apply(d) \/ Release!CheckRelease(d) \/ Release!MoveAside(d)
        \/ Release!CopyBegins(d) \/ Release!CopyFails(d) \/ Release!Undo(d)
        \/ Release!Restart(d))
  BY <1>3
     DEF Release!Apply, Release!CheckRelease, Release!MoveAside, Release!CopyBegins,
         Release!CopyFails, Release!Undo, Release!Restart, Release!fileVars
<1>7. ~(Release!Fetch(d) \/ Release!Verify(d))  BY <1>2 DEF Release!Fetch, Release!Verify
<1>8. Release!CopyEnds(d)  BY <1>5, <1>6, <1>7 DEF Release!Steps
<1> QED  BY <1>1, <1>8 DEF Release!CopyEnds, Release!Names

\* The download in place of the executable is the one that was published, when the update
\* says that it was verified, and what a repair changes was announced and is within the
\* rights of the process that does it (apply_update, recover, plan).
THEOREM OnlyWhatWasAnnounced == Spec => OnlyAsAnnounced
<1>1. Init => ReleaseInv /\ DownloadIsWhole /\ RepairInv
  <2>1. Init => ReleaseInv /\ RepairInv
    BY StoresStart, ReleaseInvInit, RepairInvInit, PartsAreWellFormed
  <2>2. Init => DownloadIsWhole  BY StoresStart DEF Release!Init, DownloadIsWhole
  <2> QED  BY <2>1, <2>2
<1>2. ReleaseInv /\ DownloadIsWhole /\ RepairInv /\ [Next]_vars =>
        (ReleaseInv /\ DownloadIsWhole /\ RepairInv)'
  BY StoresMove, ReleaseInvNext, DownloadStaysWhole, RepairInvNext, PartsAreWellFormed
<1>3. ReleaseInv /\ DownloadIsWhole /\ [Next]_vars =>
        [\A c \in Callers :
           ruPc[c] = "copy" /\ ruInfo[c].sums /\ ruStaged # Release!None
             /\ ruStaged' = Release!None
               => ruFiles'["exe"] = Release!Whole(ruInfo[c].version)]_(Release!vars)
  BY StoresMove, OnlyWholeIsInstalled
<1>4. RepairInv /\ [Next]_vars =>
        [\A r \in Repair!Runs :
           (rcChanged'[r] /\ ~rcChanged[r] /\ rcHalf[r] = Repair!NoDevice)
             \/ rcHalf'[r] \notin {rcHalf[r], Repair!NoDevice}
             => /\ ~rcOutlived => Repair!Name(r) \in Repair!Planned
                /\ Repair!Name(r) \in Repair!NeedsAdmin => rcPower[r]]_(Repair!vars)
  BY StoresMove, RepairIsAnnounced, PartsAreWellFormed
<1>5. Spec => Release!NothingBadInstalled
  BY <1>1, <1>2, <1>3, PTL DEF Spec, Release!NothingBadInstalled
<1>6. Spec => Repair!StepsAreAnnounced
  BY <1>1, <1>2, <1>4, PTL DEF Spec, Repair!StepsAreAnnounced
<1> QED  BY <1>5, <1>6 DEF OnlyAsAnnounced

(***************************************************************************)
(* Installation                                                            *)
(*                                                                         *)
(* The new file is complete beside the old one before anything points to   *)
(* it, and an uninstall takes away the traces it has planned to, in order, *)
(* before the files.                                                       *)
(***************************************************************************)

\* The stages of an install, and those of an uninstall.
InstallStages == {"unlink", "move", "open", "copy", "link", "register", "autostart"}
UninstallStages == {"disable", "unlinks", "unregister", "plan", "leave"}

\* What is being done fits the stage it is at.
JobFits ==
  /\ inPc = "idle" => inJob = Setup!NoJob
  /\ inPc \in InstallStages => inJob.kind = "install"
  /\ inPc \in UninstallStages => inJob.kind \in {"tool", "app"}
  /\ inPc = "stop" => inJob.kind \in {"install", "tool", "app"}
  /\ inJob.kind = "install" => inJob.version \in Setup!Versions

\* There is data, wherever there is, was or will be an application.
DataIsKept == inApp # "none" \/ inPc # "idle" \/ inDoomed # {} => inData

\* One executable has no folder of its own, and is missing while it is copied to.
FilesFit ==
  inLayout = "file" =>
    /\ inFiles["internal"] = Setup!None
    /\ inPc \in {"open", "copy"} => inFiles["exe"] \notin Setup!Versions

\* While an install is owed an executable nothing is due to be deleted, and until it was
\* cut short twice there is one where it is looked for.
ImageIsKept ==
  /\ inOwed => inDoomed = {}
  /\ inLayout = "file" /\ inOwed =>
       /\ inCuts = 0 =>
            IF inPc \in {"open", "copy"} THEN inFiles["old"] \in Setup!Versions
            ELSE inFiles["exe"] \in Setup!Versions
       /\ inCuts = 1 /\ inPc \notin {"move", "open", "copy"} =>
            inFiles["exe"] \in Setup!Versions \/ inFiles["old"] \in Setup!Versions

\* What an uninstall has come past is gone, unless a step of it failed.
TracesGo ==
  /\ inPc \in ({"stop"} \cup UninstallStages) \ {"leave"} /\ inJob.kind # "install" => inDoomed = {}
  /\ ~inRough =>
       /\ inPc \in UninstallStages \ {"disable"} => inStartup = {}
       /\ inPc \in {"unregister", "plan", "leave"} => inLinks = {}
       /\ inPc \in {"plan", "leave"} => inEntry = Setup!None
       /\ inPc \in UninstallStages /\ inJob.kind = "tool" => inApp = "none"
       /\ inDoomed # {} =>
            /\ inPc \in {"leave", "idle"} /\ (inPc = "idle" => inApp = "none")
            /\ inStartup = {} /\ inLinks = {} /\ inEntry = Setup!None
            /\ "exe" \in inDoomed
            /\ Setup!Exists("old") => {"old", "folder"} \cap inDoomed # {}

\* Once gone, nothing is left, and nothing is under way.
GoneIsIdle ==
  inGone # "no" =>
    /\ inApp = "none" /\ inPc = "idle" /\ inDoomed = {}
    /\ inStartup = {} /\ inLinks = {} /\ inEntry = Setup!None
    /\ inFiles["exe"] = Setup!None /\ inFiles["old"] = Setup!None
    /\ inData = (inGone = "kept")

\* Together they are inductive.
SetupInv ==
  /\ Setup!TypeOK /\ JobFits /\ DataIsKept /\ FilesFit /\ ImageIsKept /\ TracesGo /\ GoneIsIdle

\* They make up the two promises.
LEMMA InvKeepsImage ==
  Setup!InstallConstantsOK /\ SetupInv =>
    Setup!NeverWithoutImage /\ Setup!UninstalledIsGone
<1> SUFFICES ASSUME Setup!InstallConstantsOK, SetupInv
             PROVE  Setup!NeverWithoutImage /\ Setup!UninstalledIsGone
  OBVIOUS
<1>1. Setup!NeverWithoutImage
  <2>1. inCuts \in {0, 1, 2}
    BY DEF SetupInv, Setup!TypeOK
  <2>2. inCuts <= (IF inPc = "idle" THEN 1 ELSE 0) => inCuts = 0 \/ (inCuts = 1 /\ inPc = "idle")
    BY <2>1
  <2> QED BY <2>2 DEF SetupInv, ImageIsKept, Setup!NeverWithoutImage
<1>2. Setup!UninstalledIsGone
  BY DEF SetupInv, GoneIsIdle, FilesFit, Setup!UninstalledIsGone, Setup!AutostartEnabled,
     Setup!Exists
<1> QED BY <1>1, <1>2

\* What each of the small steps does to the traces, to the faults and to the record of
\* them.
LEMMA DisablingLeaves ==
  ASSUME Setup!DisableAutostart
  PROVE  /\ inStartup' \subseteq inStartup /\ (inFaults' = inFaults \/ Setup!Fault)
         /\ ((inStartup' = {} /\ inRough' = inRough) \/ inRough' = TRUE)
BY DEF Setup!DisableAutostart

\* Turning it on adds nothing else.
LEMMA EnablingAdds ==
  ASSUME Setup!EnableAutostart
  PROVE  /\ inStartup' \subseteq inStartup \cup {"task", "run"}
         /\ (inFaults' = inFaults \/ Setup!Fault)
BY DEF Setup!EnableAutostart

\* Removing links leaves no new one.
LEMMA RemovingLeaves ==
  ASSUME Setup!RemoveLinks
  PROVE  /\ inLinks' \subseteq inLinks /\ (inFaults' = inFaults \/ Setup!Fault)
         /\ (inRough' = inRough \/ inRough' = TRUE)
BY DEF Setup!RemoveLinks

\* Where autostart is set as wished, what is left is what it should be, or it was rough.
LEMMA SettingDoes ==
  ASSUME Setup!SetAutostart, inRough \in BOOLEAN
  PROVE  /\ inStartup' \subseteq inStartup \cup {"task", "run"}
         /\ (inFaults' = inFaults \/ Setup!Fault)
         /\ ~inRough' => ~inRough /\ (~Setup!Crosses \/ inStartup' = {})
         /\ inRough' \in BOOLEAN
<1>1. CASE Setup!EnableAutostart /\ inRough' = (inRough \/ Setup!Crosses)
  <2>1. inRough' \in BOOLEAN /\ (~inRough' => ~inRough /\ ~Setup!Crosses)
    BY <1>1, Zenon
  <2> QED BY <1>1, <2>1, EnablingAdds
<1>2. CASE Setup!DisableAutostart
  BY <1>2, DisablingLeaves
<1> QED BY <1>1, <1>2 DEF Setup!SetAutostart

\* Zero is within the bounds.
LEMMA ZeroIsAmong ==
  ASSUME Setup!InstallConstantsOK
  PROVE  0 \in -1..MaxSetup /\ 0 \in 0..MaxSetup /\ 0 \in 0..MaxFaults
BY DEF Setup!InstallConstantsOK

\* Nothing is installed.
LEMMA SetupInvInit == ASSUME Setup!InstallConstantsOK, Setup!Init PROVE SetupInv
<1> USE DEF Setup!Init
<1>1. Setup!TypeOK
  <2>1. Setup!NoJob \in Setup!Jobs
    <3>1. 0 \in 0..MaxSetup BY DEF Setup!InstallConstantsOK
    <3> QED BY <3>1 DEF Setup!Jobs, Setup!NoJob, Setup!None
  <2>2. 0 \in -1..MaxSetup /\ 0 \in 0..MaxSetup /\ 0 \in 0..MaxFaults
    BY ZeroIsAmong
  <2>3. /\ inFiles \in [Setup!Names -> Setup!Part..MaxSetup] /\ inEntry \in Setup!None..MaxSetup
        /\ inFaults \in 0..MaxFaults
    BY <2>2 DEF Setup!None, Setup!Part
  <2>4. inJob \in Setup!Jobs /\ inLayout \in Layouts /\ inCuts \in 0..2
    BY <2>1
  <2> HIDE DEF Setup!InstallConstantsOK
  <2> QED BY <2>3, <2>4 DEF Setup!TypeOK
<1>2. 0 \notin Setup!Versions /\ -1 \notin Setup!Versions
  BY DEF Setup!Versions
<1> QED
  BY <1>1, <1>2
     DEF SetupInv, JobFits, DataIsKept, FilesFit, ImageIsKept, TracesGo, GoneIsIdle,
         InstallStages, UninstallStages, Setup!NoJob, Setup!None, Setup!Names

\* One part after the other, every step keeps them.
LEMMA JobStaysFit ==
  ASSUME Setup!InstallConstantsOK, SetupInv, [Setup!Next]_(Setup!vars) PROVE JobFits'
<1> USE DEF SetupInv, Setup!TypeOK, JobFits, InstallStages, UninstallStages, Setup!NoJob,
            Setup!Goto, Setup!fileVars, Setup!traceVars, Setup!pastVars
<1>1. CASE Setup!ApplicationNext
  BY <1>1
     DEF Setup!ApplicationNext, Setup!StartApp, Setup!Bootstrap, Setup!Startable, Setup!Locked,
         Setup!QuitApp, Setup!UpdateApp, Setup!PutFiles, Setup!SetAutostart,
         Setup!EnableAutostart, Setup!DisableAutostart, Setup!AutostartEnabled, Setup!Fault
<1>2. CASE Setup!InstallNext
  BY <1>2
     DEF Setup!InstallNext, Setup!StartInstall, Setup!Reinstall, Setup!Bootstrap,
         Setup!Startable, Setup!Locked, Setup!StopOthers, Setup!Fault, Setup!UnlinkAside,
         Setup!Exists, Setup!MoveAside, Setup!Abandon, Setup!Ended, Setup!OpenCopy,
         Setup!Payload, Setup!FinishCopy, Setup!MakeLinks, Setup!RegisterUninstaller,
         Setup!FinishInstall, Setup!EnableAutostart, Setup!KillTool
<1>3. CASE Setup!UninstallNext
  BY <1>3
     DEF Setup!UninstallNext, Setup!StartUninstall, Setup!Bootstrap, Setup!Startable,
         Setup!Locked, Setup!RemoveAutostart, Setup!DisableAutostart, Setup!Fault,
         Setup!RemoveLinks, Setup!UnregisterUninstaller, Setup!Plan, Setup!Exists, Setup!Leave,
         Setup!Ended, Setup!Delete
<1>4. CASE UNCHANGED Setup!vars
  BY <1>4 DEF Setup!vars
<1> QED BY <1>1, <1>2, <1>3, <1>4 DEF Setup!Next

\* The data goes with the last of the application, if asked to.
LEMMA DataStays ==
  ASSUME Setup!InstallConstantsOK, SetupInv, [Setup!Next]_(Setup!vars) PROVE DataIsKept'
<1> USE DEF SetupInv, Setup!TypeOK, JobFits, DataIsKept, InstallStages, UninstallStages,
            Setup!NoJob, Setup!Goto, Setup!fileVars, Setup!traceVars, Setup!pastVars
<1>1. CASE Setup!ApplicationNext
  BY <1>1
     DEF Setup!ApplicationNext, Setup!StartApp, Setup!Bootstrap, Setup!Startable, Setup!Locked,
         Setup!QuitApp, Setup!UpdateApp, Setup!PutFiles, Setup!SetAutostart,
         Setup!EnableAutostart, Setup!DisableAutostart, Setup!AutostartEnabled, Setup!Fault
<1>2. CASE Setup!InstallNext
  BY <1>2
     DEF Setup!InstallNext, Setup!StartInstall, Setup!Reinstall, Setup!Bootstrap,
         Setup!Startable, Setup!Locked, Setup!StopOthers, Setup!Fault, Setup!UnlinkAside,
         Setup!Exists, Setup!MoveAside, Setup!Abandon, Setup!Ended, Setup!OpenCopy,
         Setup!Payload, Setup!FinishCopy, Setup!MakeLinks, Setup!RegisterUninstaller,
         Setup!FinishInstall, Setup!EnableAutostart, Setup!KillTool
<1>3. CASE Setup!UninstallNext
  BY <1>3
     DEF Setup!UninstallNext, Setup!StartUninstall, Setup!Bootstrap, Setup!Startable,
         Setup!Locked, Setup!RemoveAutostart, Setup!DisableAutostart, Setup!Fault,
         Setup!RemoveLinks, Setup!UnregisterUninstaller, Setup!Plan, Setup!Exists, Setup!Leave,
         Setup!Ended, Setup!Delete
<1>4. CASE UNCHANGED Setup!vars
  BY <1>4 DEF Setup!vars
<1> QED BY <1>1, <1>2, <1>3, <1>4 DEF Setup!Next

\* The executable is moved aside before another is copied.
LEMMA FilesStayFit ==
  ASSUME Setup!InstallConstantsOK, SetupInv, [Setup!Next]_(Setup!vars) PROVE FilesFit'
<1> USE DEF SetupInv, Setup!TypeOK, JobFits, FilesFit, InstallStages, UninstallStages,
            Setup!NoJob, Setup!Names, Setup!None, Setup!Part, Setup!Versions, Setup!Goto,
            Setup!fileVars, Setup!traceVars, Setup!pastVars
<1>1. CASE Setup!ApplicationNext
  BY <1>1
     DEF Setup!ApplicationNext, Setup!StartApp, Setup!Bootstrap, Setup!Startable, Setup!Locked,
         Setup!QuitApp, Setup!UpdateApp, Setup!PutFiles, Setup!SetAutostart,
         Setup!EnableAutostart, Setup!DisableAutostart, Setup!AutostartEnabled, Setup!Fault
<1>2. CASE Setup!InstallNext
  BY <1>2
     DEF Setup!InstallNext, Setup!StartInstall, Setup!Reinstall, Setup!Bootstrap,
         Setup!Startable, Setup!Locked, Setup!StopOthers, Setup!Fault, Setup!UnlinkAside,
         Setup!Exists, Setup!MoveAside, Setup!Abandon, Setup!Ended, Setup!OpenCopy,
         Setup!Payload, Setup!FinishCopy, Setup!MakeLinks, Setup!RegisterUninstaller,
         Setup!FinishInstall, Setup!EnableAutostart, Setup!KillTool
<1>3. CASE Setup!UninstallNext
  BY <1>3
     DEF Setup!UninstallNext, Setup!StartUninstall, Setup!Bootstrap, Setup!Startable,
         Setup!Locked, Setup!RemoveAutostart, Setup!DisableAutostart, Setup!Fault,
         Setup!RemoveLinks, Setup!UnregisterUninstaller, Setup!Plan, Setup!Exists, Setup!Leave,
         Setup!Ended, Setup!Delete
<1>4. CASE UNCHANGED Setup!vars
  BY <1>4 DEF Setup!vars
<1> QED BY <1>1, <1>2, <1>3, <1>4 DEF Setup!Next

\* An executable stays, whatever is copied, moved or deleted.
LEMMA SetupImageStays ==
  ASSUME Setup!InstallConstantsOK, SetupInv, [Setup!Next]_(Setup!vars) PROVE ImageIsKept'
<1> USE DEF SetupInv, Setup!TypeOK, JobFits, FilesFit, ImageIsKept, TracesGo, InstallStages,
            UninstallStages, Setup!NoJob, Setup!Names, Setup!None, Setup!Part, Setup!Versions,
            Setup!Goto, Setup!fileVars, Setup!traceVars, Setup!pastVars
<1>1. CASE Setup!StartApp
  BY <1>1 DEF Setup!StartApp, Setup!Bootstrap, Setup!Startable, Setup!Locked
<1>2. CASE Setup!QuitApp
  BY <1>2 DEF Setup!QuitApp
<1>3. CASE Setup!UpdateApp
  <2>1. /\ inFiles["exe"] \in 1..(MaxSetup - 1) /\ MaxSetup \in Nat
        /\ inFiles' = [inFiles EXCEPT !["exe"] = @ + 1, !["old"] = inFiles["exe"]]
        /\ UNCHANGED <<inLayout, inPc, inDoomed, inOwed, inCuts>>
    BY <1>3 DEF Setup!UpdateApp, Setup!InstallConstantsOK
  <2>2. inFiles["exe"] + 1 \in 1..MaxSetup
    BY <2>1
  <2>3. inFiles'["exe"] \in Setup!Versions
    BY <2>1, <2>2
  <2>4. inFiles["exe"] \in Setup!Versions
    BY <2>1
  <2> QED BY <2>1, <2>3, <2>4
<1>4. CASE Setup!PutFiles
  BY <1>4 DEF Setup!PutFiles
<1>5. CASE Setup!SetAutostart
  BY <1>5
     DEF Setup!SetAutostart, Setup!EnableAutostart, Setup!DisableAutostart,
         Setup!AutostartEnabled, Setup!Fault
<1>6. ASSUME NEW v \in Setup!Versions, NEW wants \in Wishes, Setup!StartInstall(v, wants)
      PROVE  ImageIsKept'
  BY <1>6 DEF Setup!StartInstall
<1>7. ASSUME NEW wants \in Wishes, Setup!Reinstall(wants) PROVE ImageIsKept'
  BY <1>7 DEF Setup!Reinstall, Setup!Bootstrap, Setup!Startable, Setup!Locked
<1>8. CASE Setup!StopOthers
  BY <1>8 DEF Setup!StopOthers, Setup!Fault
<1>9. CASE Setup!UnlinkAside
  BY <1>9 DEF Setup!UnlinkAside, Setup!Exists, Setup!Locked
<1>10. CASE Setup!MoveAside
  BY <1>10 DEF Setup!MoveAside, Setup!Abandon, Setup!Ended, Setup!Locked, Setup!Fault
<1>11. CASE Setup!OpenCopy
  BY <1>11
     DEF Setup!OpenCopy, Setup!Abandon, Setup!Ended, Setup!Locked, Setup!Fault, Setup!Payload
<1>12. CASE Setup!FinishCopy
  BY <1>12 DEF Setup!FinishCopy, Setup!Abandon, Setup!Ended, Setup!Fault, Setup!Payload
<1>13. CASE Setup!MakeLinks
  BY <1>13 DEF Setup!MakeLinks, Setup!Fault
<1>14. CASE Setup!RegisterUninstaller
  BY <1>14 DEF Setup!RegisterUninstaller, Setup!Fault
<1>15. CASE Setup!FinishInstall
  BY <1>15 DEF Setup!FinishInstall, Setup!EnableAutostart, Setup!Ended, Setup!Fault
<1>16. CASE Setup!KillTool
  BY <1>16 DEF Setup!KillTool, Setup!Ended, Setup!Fault
<1>17. ASSUME NEW kind \in {"tool", "app"}, NEW keep \in SUBSET {"data"},
              Setup!StartUninstall(kind, keep)
       PROVE  ImageIsKept'
  BY <1>17 DEF Setup!StartUninstall, Setup!Bootstrap, Setup!Startable, Setup!Locked
<1>18. CASE Setup!RemoveAutostart
  BY <1>18 DEF Setup!RemoveAutostart, Setup!DisableAutostart, Setup!Fault
<1>19. CASE Setup!RemoveLinks
  BY <1>19 DEF Setup!RemoveLinks, Setup!Fault
<1>20. CASE Setup!UnregisterUninstaller
  BY <1>20 DEF Setup!UnregisterUninstaller, Setup!Fault
<1>21. CASE Setup!Plan
  BY <1>21 DEF Setup!Plan, Setup!Exists, Setup!Fault
<1>22. CASE Setup!Leave
  BY <1>22 DEF Setup!Leave, Setup!Ended
<1>23. CASE Setup!Delete
  BY <1>23 DEF Setup!Delete, Setup!Locked
<1>24. CASE UNCHANGED Setup!vars
  BY <1>24 DEF Setup!vars
<1> QED
  BY <1>1, <1>2, <1>3, <1>4, <1>5, <1>6, <1>7, <1>8, <1>9, <1>10, <1>11, <1>12, <1>13, <1>14,
     <1>15, <1>16, <1>17, <1>18, <1>19, <1>20, <1>21, <1>22, <1>23, <1>24
     DEF Setup!Next, Setup!ApplicationNext, Setup!InstallNext, Setup!UninstallNext

\* Each step of the uninstall takes its trace away, or says that it did not.
LEMMA TracesStay ==
  ASSUME Setup!InstallConstantsOK, SetupInv, [Setup!Next]_(Setup!vars) PROVE TracesGo'
<1> USE DEF SetupInv, Setup!TypeOK, JobFits, TracesGo, InstallStages, UninstallStages,
            Setup!NoJob, Setup!Names, Setup!Crosses, Setup!Exists, Setup!Goto, Setup!fileVars,
            Setup!traceVars, Setup!pastVars
<1>1. CASE Setup!StartApp
  BY <1>1 DEF Setup!StartApp, Setup!Bootstrap, Setup!Startable, Setup!Locked
<1>2. CASE Setup!QuitApp
  BY <1>2 DEF Setup!QuitApp
<1>3. CASE Setup!UpdateApp
  BY <1>3 DEF Setup!UpdateApp
<1>4. CASE Setup!PutFiles
  BY <1>4 DEF Setup!PutFiles
<1>5. CASE Setup!SetAutostart
  <2>1. /\ inApp # "none"
        /\ UNCHANGED <<inFiles, inLinks, inEntry, inApp, inPc, inJob, inDoomed>>
    BY <1>5 DEF Setup!SetAutostart
  <2>2. ~inRough' => ~inRough /\ (~Setup!Crosses \/ inStartup' = {})
    BY <1>5, SettingDoes
  <2> QED BY <2>1, <2>2
<1>6. ASSUME NEW v \in Setup!Versions, NEW wants \in Wishes, Setup!StartInstall(v, wants)
      PROVE  TracesGo'
  BY <1>6 DEF Setup!StartInstall
<1>7. ASSUME NEW wants \in Wishes, Setup!Reinstall(wants) PROVE TracesGo'
  BY <1>7 DEF Setup!Reinstall, Setup!Bootstrap, Setup!Startable, Setup!Locked
<1>8. CASE Setup!StopOthers
  BY <1>8 DEF Setup!StopOthers, Setup!Fault
<1>9. CASE Setup!UnlinkAside
  BY <1>9 DEF Setup!UnlinkAside, Setup!Exists, Setup!Locked
<1>10. CASE Setup!MoveAside
  BY <1>10 DEF Setup!MoveAside, Setup!Abandon, Setup!Ended, Setup!Locked, Setup!Fault
<1>11. CASE Setup!OpenCopy
  BY <1>11
     DEF Setup!OpenCopy, Setup!Abandon, Setup!Ended, Setup!Locked, Setup!Fault, Setup!Payload
<1>12. CASE Setup!FinishCopy
  BY <1>12 DEF Setup!FinishCopy, Setup!Abandon, Setup!Ended, Setup!Fault, Setup!Payload
<1>13. CASE Setup!MakeLinks
  BY <1>13 DEF Setup!MakeLinks, Setup!Fault
<1>14. CASE Setup!RegisterUninstaller
  BY <1>14 DEF Setup!RegisterUninstaller, Setup!Fault
<1>15. CASE Setup!FinishInstall
  BY <1>15 DEF Setup!FinishInstall, Setup!EnableAutostart, Setup!Ended, Setup!Fault
<1>16. CASE Setup!KillTool
  BY <1>16 DEF Setup!KillTool, Setup!Ended, Setup!Fault
<1>17. ASSUME NEW kind \in {"tool", "app"}, NEW keep \in SUBSET {"data"},
              Setup!StartUninstall(kind, keep)
       PROVE  TracesGo'
  BY <1>17 DEF Setup!StartUninstall, Setup!Bootstrap, Setup!Startable, Setup!Locked
<1>18. CASE Setup!RemoveAutostart
  BY <1>18 DEF Setup!RemoveAutostart, Setup!DisableAutostart, Setup!Fault
<1>19. CASE Setup!RemoveLinks
  BY <1>19 DEF Setup!RemoveLinks, Setup!Fault
<1>20. CASE Setup!UnregisterUninstaller
  BY <1>20 DEF Setup!UnregisterUninstaller, Setup!Fault
<1>21. CASE Setup!Plan
  BY <1>21 DEF Setup!Plan, Setup!Exists, Setup!Fault
<1>22. CASE Setup!Leave
  BY <1>22 DEF Setup!Leave, Setup!Ended
<1>23. CASE Setup!Delete
  BY <1>23 DEF Setup!Delete, Setup!Locked
<1>24. CASE UNCHANGED Setup!vars
  BY <1>24 DEF Setup!vars
<1> QED
  BY <1>1, <1>2, <1>3, <1>4, <1>5, <1>6, <1>7, <1>8, <1>9, <1>10, <1>11, <1>12, <1>13, <1>14,
     <1>15, <1>16, <1>17, <1>18, <1>19, <1>20, <1>21, <1>22, <1>23, <1>24
     DEF Setup!Next, Setup!ApplicationNext, Setup!InstallNext, Setup!UninstallNext

\* Only an install brings anything back.
LEMMA GoneStays ==
  ASSUME Setup!InstallConstantsOK, SetupInv, [Setup!Next]_(Setup!vars) PROVE GoneIsIdle'
<1> USE DEF SetupInv, Setup!TypeOK, JobFits, DataIsKept, TracesGo, GoneIsIdle, Setup!NoJob,
            Setup!Names, InstallStages, UninstallStages, Setup!Goto, Setup!fileVars,
            Setup!traceVars, Setup!pastVars
<1>1. CASE Setup!StartApp
  BY <1>1 DEF Setup!StartApp, Setup!Bootstrap, Setup!Startable, Setup!Locked
<1>2. CASE Setup!QuitApp
  BY <1>2 DEF Setup!QuitApp
<1>3. CASE Setup!UpdateApp
  BY <1>3 DEF Setup!UpdateApp
<1>4. CASE Setup!PutFiles
  BY <1>4 DEF Setup!PutFiles
<1>5. CASE Setup!SetAutostart
  BY <1>5
     DEF Setup!SetAutostart, Setup!EnableAutostart, Setup!DisableAutostart,
         Setup!AutostartEnabled, Setup!Fault
<1>6. ASSUME NEW v \in Setup!Versions, NEW wants \in Wishes, Setup!StartInstall(v, wants)
      PROVE  GoneIsIdle'
  BY <1>6 DEF Setup!StartInstall
<1>7. ASSUME NEW wants \in Wishes, Setup!Reinstall(wants) PROVE GoneIsIdle'
  BY <1>7 DEF Setup!Reinstall, Setup!Bootstrap, Setup!Startable, Setup!Locked
<1>8. CASE Setup!StopOthers
  BY <1>8 DEF Setup!StopOthers, Setup!Fault
<1>9. CASE Setup!UnlinkAside
  BY <1>9 DEF Setup!UnlinkAside, Setup!Exists, Setup!Locked
<1>10. CASE Setup!MoveAside
  BY <1>10 DEF Setup!MoveAside, Setup!Abandon, Setup!Ended, Setup!Locked, Setup!Fault
<1>11. CASE Setup!OpenCopy
  BY <1>11
     DEF Setup!OpenCopy, Setup!Abandon, Setup!Ended, Setup!Locked, Setup!Fault, Setup!Payload
<1>12. CASE Setup!FinishCopy
  BY <1>12 DEF Setup!FinishCopy, Setup!Abandon, Setup!Ended, Setup!Fault, Setup!Payload
<1>13. CASE Setup!MakeLinks
  BY <1>13 DEF Setup!MakeLinks, Setup!Fault
<1>14. CASE Setup!RegisterUninstaller
  BY <1>14 DEF Setup!RegisterUninstaller, Setup!Fault
<1>15. CASE Setup!FinishInstall
  BY <1>15 DEF Setup!FinishInstall, Setup!EnableAutostart, Setup!Ended, Setup!Fault
<1>16. CASE Setup!KillTool
  BY <1>16 DEF Setup!KillTool, Setup!Ended, Setup!Fault
<1>17. ASSUME NEW kind \in {"tool", "app"}, NEW keep \in SUBSET {"data"},
              Setup!StartUninstall(kind, keep)
       PROVE  GoneIsIdle'
  BY <1>17 DEF Setup!StartUninstall, Setup!Bootstrap, Setup!Startable, Setup!Locked
<1>18. CASE Setup!RemoveAutostart
  BY <1>18 DEF Setup!RemoveAutostart, Setup!DisableAutostart, Setup!Fault
<1>19. CASE Setup!RemoveLinks
  BY <1>19 DEF Setup!RemoveLinks, Setup!Fault
<1>20. CASE Setup!UnregisterUninstaller
  BY <1>20 DEF Setup!UnregisterUninstaller, Setup!Fault
<1>21. CASE Setup!Plan
  BY <1>21 DEF Setup!Plan, Setup!Exists, Setup!Fault
<1>22. CASE Setup!Leave
  BY <1>22 DEF Setup!Leave, Setup!Ended
<1>23. CASE Setup!Delete
  <2> SUFFICES ASSUME inGone' # "no" PROVE GoneIsIdle'
    OBVIOUS
  <2>1. ~inRough' /\ inApp = "none" /\ inPc = "idle" /\ ~inRough
    BY <1>23 DEF Setup!Delete
  <2>2. inJob.kind = "none" /\ \A m \in Setup!Names : ~Setup!Locked(m)
    BY <2>1 DEF Setup!Locked
  <2>3. /\ "exe" \in inDoomed /\ (Setup!Exists("old") => {"old", "folder"} \cap inDoomed # {})
        /\ inStartup = {} /\ inLinks = {} /\ inEntry = Setup!None /\ inData
    BY <1>23, <2>1 DEF Setup!Delete
  <2>4. inFiles'["exe"] = Setup!None /\ inFiles'["old"] = Setup!None
    BY <1>23, <2>2, <2>3 DEF Setup!Delete, Setup!Exists
  <2>5. inData' = ("data" \notin inDoomed) /\ inGone' = IF "data" \in inDoomed THEN "all" ELSE "kept"
    BY <1>23, <2>1, <2>3 DEF Setup!Delete
  <2> QED BY <1>23, <2>1, <2>3, <2>4, <2>5 DEF Setup!Delete
<1>24. CASE UNCHANGED Setup!vars
  BY <1>24 DEF Setup!vars
<1> QED
  BY <1>1, <1>2, <1>3, <1>4, <1>5, <1>6, <1>7, <1>8, <1>9, <1>10, <1>11, <1>12, <1>13, <1>14,
     <1>15, <1>16, <1>17, <1>18, <1>19, <1>20, <1>21, <1>22, <1>23, <1>24
     DEF Setup!Next, Setup!ApplicationNext, Setup!InstallNext, Setup!UninstallNext

\* The types stay.
LEMMA SetupTypesStay ==
  ASSUME Setup!InstallConstantsOK, SetupInv, [Setup!Next]_(Setup!vars) PROVE Setup!TypeOK'
<1> USE DEF SetupInv, Setup!TypeOK, JobFits, InstallStages, UninstallStages, Setup!NoJob,
            Setup!Names, Setup!None, Setup!Part, Setup!Versions, Setup!Jobs,
            Setup!InstallConstantsOK, Setup!Goto, Setup!fileVars, Setup!traceVars,
            Setup!pastVars
<1>a. Setup!Fault => inFaults' \in 0..MaxFaults
  BY DEF Setup!Fault
<1>1. CASE Setup!StartApp
  BY <1>a, <1>1 DEF Setup!StartApp, Setup!Bootstrap, Setup!Startable, Setup!Locked
<1>2. CASE Setup!QuitApp
  BY <1>a, <1>2 DEF Setup!QuitApp
<1>3. CASE Setup!UpdateApp
  BY <1>a, <1>3 DEF Setup!UpdateApp
<1>4. CASE Setup!PutFiles
  BY <1>a, <1>4 DEF Setup!PutFiles
<1>5. CASE Setup!SetAutostart
  <2>1. /\ inStartup' \subseteq {"task", "run"} /\ (inFaults' = inFaults \/ Setup!Fault)
        /\ inRough' \in BOOLEAN
    BY <1>5, SettingDoes
  <2>2. inFaults' \in 0..MaxFaults
    BY <1>a, <2>1
  <2>3. UNCHANGED <<inLayout, inFiles, inOwn, inLinks, inEntry, inData, inApp, inPc, inJob,
                    inDoomed, inCuts, inOwed, inGone>>
    BY <1>5 DEF Setup!SetAutostart
  <2> HIDE DEF Setup!Jobs
  <2> QED BY <2>1, <2>2, <2>3
<1>6. ASSUME NEW v \in Setup!Versions, NEW wants \in Wishes, Setup!StartInstall(v, wants)
      PROVE  Setup!TypeOK'
  BY <1>a, <1>6 DEF Setup!StartInstall
<1>7. ASSUME NEW wants \in Wishes, Setup!Reinstall(wants) PROVE Setup!TypeOK'
  BY <1>a, <1>7 DEF Setup!Reinstall, Setup!Bootstrap, Setup!Startable, Setup!Locked
<1>8. CASE Setup!StopOthers
  BY <1>a, <1>8 DEF Setup!StopOthers
<1>9. CASE Setup!UnlinkAside
  BY <1>a, <1>9 DEF Setup!UnlinkAside, Setup!Exists, Setup!Locked
<1>10. CASE Setup!MoveAside
  BY <1>a, <1>10 DEF Setup!MoveAside, Setup!Abandon, Setup!Ended, Setup!Locked
<1>11. CASE Setup!OpenCopy
  BY <1>a, <1>11 DEF Setup!OpenCopy, Setup!Abandon, Setup!Ended, Setup!Locked, Setup!Payload
<1>12. CASE Setup!FinishCopy
  <2>1. inJob.version \in 0..MaxSetup /\ inFaults' \in 0..MaxFaults /\ inCuts' \in 0..2
    BY <1>a, <1>12 DEF Setup!FinishCopy, Setup!Abandon
  <2>2. inFiles' \in [{"exe", "old", "internal"} -> -1..MaxSetup]
    <3>1. inJob.version \in -1..MaxSetup
      BY <2>1
    <3> QED BY <1>12, <3>1 DEF Setup!FinishCopy, Setup!Payload
  <2>3. inOwed' \in BOOLEAN
    BY <1>12, Zenon DEF Setup!FinishCopy, Setup!Abandon
  <2>4. inPc' \in {"link", "idle"} /\ (inJob' = inJob \/ inJob' = Setup!NoJob)
    BY <1>12 DEF Setup!FinishCopy, Setup!Abandon, Setup!Ended
  <2>5. inJob' \in Setup!Jobs
    BY <2>4
  <2>6. UNCHANGED <<inLayout, inOwn, inLinks, inEntry, inStartup, inData, inApp, inDoomed,
                    inRough, inGone>>
    BY <1>12 DEF Setup!FinishCopy, Setup!Abandon
  <2> HIDE DEF Setup!Jobs
  <2> QED BY <2>1, <2>2, <2>3, <2>4, <2>5, <2>6
<1>13. CASE Setup!MakeLinks
  BY <1>a, <1>13 DEF Setup!MakeLinks
<1>14. CASE Setup!RegisterUninstaller
  BY <1>a, <1>14 DEF Setup!RegisterUninstaller
<1>15. CASE Setup!FinishInstall
  <2>a. inStartup' \subseteq {"task", "run"}
    BY <1>15, EnablingAdds DEF Setup!FinishInstall
  <2>b. inFaults' = inFaults \/ Setup!Fault
    BY <1>15, EnablingAdds DEF Setup!FinishInstall
  <2>1. inFaults' \in 0..MaxFaults
    BY <1>a, <2>b
  <2>2. inJob' \in Setup!Jobs /\ inPc' = "idle"
    BY <1>15 DEF Setup!FinishInstall, Setup!Ended
  <2>3. UNCHANGED <<inLayout, inFiles, inOwn, inLinks, inEntry, inData, inApp, inDoomed, inCuts,
                    inOwed, inRough, inGone>>
    BY <1>15 DEF Setup!FinishInstall
  <2> HIDE DEF Setup!Jobs
  <2> QED BY <2>a, <2>1, <2>2, <2>3
<1>16. CASE Setup!KillTool
  BY <1>a, <1>16 DEF Setup!KillTool, Setup!Ended
<1>17. ASSUME NEW kind \in {"tool", "app"}, NEW keep \in SUBSET {"data"},
              Setup!StartUninstall(kind, keep)
       PROVE  Setup!TypeOK'
  <2>1. inJob' \in Setup!Jobs
    BY <1>17 DEF Setup!StartUninstall
  <2>a. inFiles' = inFiles \/ inFiles' = [inFiles EXCEPT !["old"] = 0]
    BY <1>17 DEF Setup!StartUninstall, Setup!Bootstrap
  <2>2. inFiles' \in [{"exe", "old", "internal"} -> -1..MaxSetup]
    BY <2>a, ZeroIsAmong
  <2>b. inData' \in BOOLEAN
    BY <1>17 DEF Setup!StartUninstall, Setup!Bootstrap
  <2>3. /\ inPc' = "stop" /\ inGone' = "no" /\ inRough' = FALSE
        /\ UNCHANGED <<inLayout, inOwn, inLinks, inEntry, inStartup, inApp, inDoomed, inFaults,
                       inCuts, inOwed>>
    BY <1>17 DEF Setup!StartUninstall
  <2> HIDE DEF Setup!Jobs
  <2> QED BY <2>1, <2>2, <2>b, <2>3
<1>18. CASE Setup!RemoveAutostart
  <2>a. inStartup' \subseteq {"task", "run"}
    BY <1>18, DisablingLeaves DEF Setup!RemoveAutostart
  <2>b. (inFaults' = inFaults \/ Setup!Fault) /\ (inRough' = inRough \/ inRough' = TRUE)
    BY <1>18, DisablingLeaves DEF Setup!RemoveAutostart
  <2>1. inFaults' \in 0..MaxFaults /\ inRough' \in BOOLEAN
    BY <1>a, <2>b
  <2>2. /\ inPc' = "unlinks"
        /\ UNCHANGED <<inLayout, inFiles, inOwn, inLinks, inEntry, inData, inApp, inJob,
                       inDoomed, inCuts, inOwed, inGone>>
    BY <1>18 DEF Setup!RemoveAutostart
  <2> HIDE DEF Setup!Jobs
  <2> QED BY <2>a, <2>1, <2>2
<1>19. CASE Setup!RemoveLinks
  <2>a. inLinks' \subseteq {"menu", "desktop"}
    BY <1>19, RemovingLeaves
  <2>b. (inFaults' = inFaults \/ Setup!Fault) /\ (inRough' = inRough \/ inRough' = TRUE)
    BY <1>19, RemovingLeaves
  <2>1. inFaults' \in 0..MaxFaults /\ inRough' \in BOOLEAN
    BY <1>a, <2>b
  <2>2. /\ inPc' = "unregister"
        /\ UNCHANGED <<inLayout, inFiles, inOwn, inEntry, inStartup, inData, inApp, inJob,
                       inDoomed, inCuts, inOwed, inGone>>
    BY <1>19 DEF Setup!RemoveLinks
  <2> HIDE DEF Setup!Jobs
  <2> QED BY <2>a, <2>1, <2>2
<1>20. CASE Setup!UnregisterUninstaller
  <2>a. inEntry' \in 0..MaxSetup
    BY <1>20, ZeroIsAmong DEF Setup!UnregisterUninstaller
  <2>b. (inFaults' = inFaults \/ Setup!Fault) /\ (inRough' = inRough \/ inRough' = TRUE)
    BY <1>20, Zenon DEF Setup!UnregisterUninstaller
  <2>1. inFaults' \in 0..MaxFaults /\ inRough' \in BOOLEAN
    BY <1>a, <2>b
  <2>2. /\ inPc' = "plan"
        /\ UNCHANGED <<inLayout, inFiles, inOwn, inLinks, inStartup, inData, inApp, inJob,
                       inDoomed, inCuts, inOwed, inGone>>
    BY <1>20 DEF Setup!UnregisterUninstaller
  <2> HIDE DEF Setup!Jobs
  <2> QED BY <2>a, <2>1, <2>2
<1>21. CASE Setup!Plan
  BY <1>a, <1>21 DEF Setup!Plan, Setup!Exists
<1>22. CASE Setup!Leave
  BY <1>a, <1>22 DEF Setup!Leave, Setup!Ended
<1>23. CASE Setup!Delete
  BY <1>a, <1>23 DEF Setup!Delete, Setup!Locked
<1>24. CASE UNCHANGED Setup!vars
  BY <1>a, <1>24 DEF Setup!vars
<1> QED
  BY <1>a, <1>1, <1>2, <1>3, <1>4, <1>5, <1>6, <1>7, <1>8, <1>9, <1>10, <1>11, <1>12, <1>13,
     <1>14, <1>15, <1>16, <1>17, <1>18, <1>19, <1>20, <1>21, <1>22, <1>23, <1>24
     DEF Setup!Next, Setup!ApplicationNext, Setup!InstallNext, Setup!UninstallNext

\* So all of them are kept.
LEMMA SetupInvNext ==
  ASSUME Setup!InstallConstantsOK, SetupInv, [Setup!Next]_(Setup!vars)
  PROVE  SetupInv'
BY JobStaysFit, DataStays, FilesStayFit, SetupImageStays, TracesStay, GoneStays, SetupTypesStay
   DEF SetupInv

(***************************************************************************)
(* All parts                                                               *)
(***************************************************************************)

\* Every part is within its invariant, in every state.
StoresInv ==
  /\ focus \in {"survey", "network", "repair", "release", "setup", "schema"}
  /\ SurveyInv /\ NetworkInv /\ RepairInv /\ ReleaseInv /\ SetupInv /\ SchemaInv

\* It is inductive, because the parts' are and only one part moves at a time.
LEMMA StoresInvHolds == Spec => []StoresInv
<1>1. Init => StoresInv
  <2> SUFFICES ASSUME Init PROVE StoresInv  OBVIOUS
  <2>1. SurveyInv /\ NetworkInv /\ SchemaInv
    BY StoresStart, SurveyInvInit, NetworkInvInit, SchemaInvInit, PartsAreWellFormed
  <2>2. RepairInv /\ ReleaseInv /\ SetupInv
    BY StoresStart, RepairInvInit, ReleaseInvInit, SetupInvInit, PartsAreWellFormed
  <2> QED  BY <2>1, <2>2 DEF Init, StoresInv
<1>2. StoresInv /\ [Next]_vars => StoresInv'
  <2> SUFFICES ASSUME StoresInv, [Next]_vars PROVE StoresInv'  OBVIOUS
  <2>1. SurveyInv' /\ NetworkInv' /\ SchemaInv'
    BY StoresMove, SurveyInvNext, NetworkInvNext, SchemaInvNext, PartsAreWellFormed
       DEF StoresInv
  <2>2. RepairInv' /\ ReleaseInv' /\ SetupInv'
    BY StoresMove, RepairInvNext, ReleaseInvNext, SetupInvNext, PartsAreWellFormed
       DEF StoresInv
  <2> QED  BY <2>1, <2>2, StoresMove DEF StoresInv
<1> QED  BY <1>1, <1>2, PTL DEF Spec

\* Every part's variables keep their types, whichever part moves.
THEOREM StoresTypes == Spec => []TypeOK
<1>1. StoresInv => TypeOK
  BY DEF StoresInv, SurveyInv, NetworkInv, RepairInv, ReleaseInv, SetupInv, SchemaInv, TypeOK
<1> QED  BY <1>1, StoresInvHolds, PTL

\* Whatever fails and wherever a process ends, there is an executable that works: under an
\* update that replaces itself, and on a machine it was installed on (replace_self,
\* sweep_old_binaries, install).
THEOREM ImageIsNeverLost == Spec => []NeverWithoutImage
<1>1. StoresInv => NeverWithoutImage
  BY InvKeepsImage, PartsAreWellFormed DEF StoresInv, ReleaseInv, NeverWithoutImage
<1> QED  BY <1>1, StoresInvHolds, PTL

\* After a repair the list is read again, after an uninstall nothing is left that was to go,
\* and a schema that says a version has that version's columns (recover, uninstall,
\* Database.migrate).
THEOREM NothingStaysUndone == Spec => []NothingLeftUndone
<1>1. StoresInv => NothingLeftUndone
  BY InvEnables, InvKeepsImage, PartsAreWellFormed DEF StoresInv, SchemaInv, NothingLeftUndone
<1> QED  BY <1>1, StoresInvHolds, PTL
=============================================================================
