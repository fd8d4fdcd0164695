-------------------------- MODULE ScanEngineProofs --------------------------
(***************************************************************************)
(* Proofs about ScanEngine, for any adapters, threads and bounds.  Liveness *)
(* and the runs that refute a claim of the documentation stay with TLC.    *)
(***************************************************************************)
EXTENDS ScanEngine, TLAPS

(***************************************************************************)
(* Type correctness                                                        *)
(***************************************************************************)

\* The first launch starts from well-typed values.
LEMMA InitTypeOK == Init => TypeOK
<1> USE ConstantsOK DEF ConstantsOK, SessionIds, ScanIds, NoId, Init
<1>1. Init => ConfigType /\ EngineType  BY DEF ConfigType, EngineType
<1>2. Init => SessionType  BY DEF SessionType, SessionStates
<1>3. Init => ScanType
  <2>1. Init => scanRow \in [ScanIds -> ScanStates]  BY DEF ScanStates
  <2>2. Init => scanSession \in [ScanIds -> SessionIds \cup {NoId}]  OBVIOUS
  <2>3. Init => nextScan \in 1..(MaxScans + 1)  OBVIOUS
  <2> QED  BY <2>1, <2>2, <2>3 DEF ScanType
<1>4. Init => ProcessType
  <2>1. Init => up \in BOOLEAN  OBVIOUS
  <2>2. Init => runs \in 0..MaxRuns  OBVIOUS
  <2>3. Init => oldSessions \subseteq SessionIds /\ oldScans \subseteq ScanIds  OBVIOUS
  <2> QED  BY <2>1, <2>2, <2>3 DEF ProcessType
<1>5. Init => ThreadType  BY DEF ThreadType, Places
<1> QED  BY <1>1, <1>2, <1>3, <1>4, <1>5 DEF TypeOK

\* finish_scan writes a status into one row and nothing else of the table.
LEMMA FinishKeepsScanType ==
  ASSUME ScanType, NEW i, NEW status \in ScanStates, FinishScan(i, status),
         UNCHANGED <<scanSession, nextScan>>
  PROVE  ScanType'
<1>1. scanRow' \in [ScanIds -> ScanStates]
  BY DEF ScanType, FinishScan
<1> QED  BY <1>1 DEF ScanType

\* Every step of run_once keeps the types, whichever thread takes it.
LEMMA RunOnceTypeOK ==
  ASSUME TypeOK, NEW t \in Threads, RunOnce(t)
  PROVE  TypeOK'
<1> USE ConstantsOK, TypeOK DEF ConstantsOK, TypeOK, SessionIds, ScanIds, NoId,
      Threads, Goto, machineVars, configVars, engineVars, dbVars, processVars,
      threadVars
<1>1. CASE SelectInterface(t)
  <2>1. ConfigType' /\ SessionType' /\ ScanType' /\ ProcessType'
    BY <1>1 DEF SelectInterface, ConfigType, SessionType, ScanType, ProcessType,
         Choices, Present, Return
  <2>2. EngineType'
    BY <1>1 DEF SelectInterface, EngineType, Choices, Present, Return
  <2>3. ThreadType'
    BY <1>1 DEF SelectInterface, ThreadType, Places, Unrecorded, Recorded,
         LoopOnly, BeginSteps, HaltSteps, CloseSteps, Choices, Present, Return
  <2> QED  BY <2>1, <2>2, <2>3 DEF TypeOK
<1>2. CASE StartScan(t)
  <2>1. ConfigType' /\ EngineType' /\ SessionType' /\ ProcessType'
    BY <1>2 DEF StartScan, ConfigType, EngineType, SessionType, ProcessType
  <2>2. ScanType'
    <3>1. nextScan \in ScanIds /\ nextScan' \in 1..(MaxScans + 1)
      BY <1>2 DEF StartScan, ScanType
    <3>2. scanRow' \in [ScanIds -> ScanStates]
      BY <1>2, <3>1 DEF StartScan, ScanType, ScanStates
    <3>3. scanSession' \in [ScanIds -> SessionIds \cup {NoId}]
      BY <1>2, <3>1 DEF StartScan, ScanType, EngineType
    <3> QED  BY <3>1, <3>2, <3>3 DEF ScanType
  <2>3. ThreadType'
    <3>1. nextScan \in ScanIds  BY <1>2 DEF StartScan, ScanType
    <3> QED
      BY <1>2, <3>1 DEF StartScan, ThreadType, Places, Unrecorded, Recorded,
           LoopOnly, BeginSteps, HaltSteps, CloseSteps
  <2> QED  BY <2>1, <2>2, <2>3 DEF TypeOK
<1>3. CASE StopForLostAdapter(t)
  <2>1. EngineType' /\ SessionType' /\ ProcessType'
    BY <1>3 DEF StopForLostAdapter, EngineType, SessionType, ProcessType,
         FinishScan, Return
  <2>2. ConfigType'
    BY <1>3 DEF StopForLostAdapter, ConfigType, FinishScan, Return
  <2>3. ScanType'
    BY <1>3, FinishKeepsScanType DEF StopForLostAdapter, ScanStates, Return
  <2>4. ThreadType'
    BY <1>3 DEF StopForLostAdapter, ThreadType, Places, Unrecorded, Recorded,
         LoopOnly, BeginSteps, HaltSteps, CloseSteps, FinishScan, Return
  <2> QED  BY <2>1, <2>2, <2>3, <2>4 DEF TypeOK
<1>4. CASE ClaimAdapter(t)
  <2>1. ConfigType' /\ SessionType' /\ ScanType' /\ ProcessType'
    BY <1>4 DEF ClaimAdapter, ConfigType, SessionType, ScanType, ProcessType
  <2>2. EngineType'
    BY <1>4 DEF ClaimAdapter, EngineType, ThreadType
  <2>3. ThreadType'
    BY <1>4 DEF ClaimAdapter, ThreadType, Places, Unrecorded, Recorded, LoopOnly,
         BeginSteps, HaltSteps, CloseSteps
  <2> QED  BY <2>1, <2>2, <2>3 DEF TypeOK
<1>5. CASE Settle(t)
  <2>1. ConfigType' /\ EngineType' /\ SessionType' /\ ProcessType'
    BY <1>5 DEF Settle, ConfigType, EngineType, SessionType, ProcessType,
         FinishScan, Return
  <2>2. ScanType'
    <3>1. CASE FinishScan(scanOf[t], "cancelled")
      BY <1>5, <3>1, FinishKeepsScanType DEF Settle, ScanStates
    <3>2. CASE UNCHANGED scanRow
      BY <1>5, <3>2 DEF Settle, ScanType
    <3> QED  BY <1>5, <3>1, <3>2 DEF Settle
  <2>3. ThreadType'
    BY <1>5 DEF Settle, ThreadType, Places, Unrecorded, Recorded, LoopOnly,
         BeginSteps, HaltSteps, CloseSteps, FinishScan, Return
  <2> QED  BY <2>1, <2>2, <2>3 DEF TypeOK
<1>6. CASE ScanFails(t)
  <2>1. ConfigType' /\ EngineType' /\ SessionType' /\ ProcessType'
    BY <1>6 DEF ScanFails, ConfigType, EngineType, SessionType, ProcessType,
         FinishScan, Return
  <2>2. ScanType'
    BY <1>6, FinishKeepsScanType DEF ScanFails, ScanStates, Return
  <2>3. ThreadType'
    BY <1>6 DEF ScanFails, ThreadType, Places, Unrecorded, Recorded, LoopOnly,
         BeginSteps, HaltSteps, CloseSteps, FinishScan, Return
  <2> QED  BY <2>1, <2>2, <2>3 DEF TypeOK
<1>7. CASE StoreResults(t)
  <2>1. ConfigType' /\ EngineType' /\ SessionType' /\ ScanType' /\ ProcessType'
    BY <1>7 DEF StoreResults, ConfigType, EngineType, SessionType, ScanType,
         ProcessType
  <2>2. ThreadType'
    BY <1>7 DEF StoreResults, ThreadType, Places, Unrecorded, Recorded, LoopOnly,
         BeginSteps, HaltSteps, CloseSteps
  <2> QED  BY <2>1, <2>2 DEF TypeOK
<1>8. CASE CompleteScan(t)
  <2>1. ConfigType' /\ EngineType' /\ SessionType' /\ ProcessType'
    BY <1>8 DEF CompleteScan, ConfigType, EngineType, SessionType, ProcessType,
         FinishScan, Return
  <2>2. ScanType'
    BY <1>8, FinishKeepsScanType DEF CompleteScan, ScanStates, Return
  <2>3. ThreadType'
    BY <1>8 DEF CompleteScan, ThreadType, Places, Unrecorded, Recorded, LoopOnly,
         BeginSteps, HaltSteps, CloseSteps, FinishScan, Return
  <2> QED  BY <2>1, <2>2, <2>3 DEF TypeOK
<1> QED  BY <1>1, <1>2, <1>3, <1>4, <1>5, <1>6, <1>7, <1>8 DEF RunOnce

\* So does every other step of the loop.
LEMMA LoopTypeOK ==
  ASSUME TypeOK, LoopRuns \/ LoopRaises, ~RunOnce(Loop)
  PROVE  TypeOK'
<1> USE ConstantsOK, TypeOK DEF ConstantsOK, TypeOK, SessionIds, ScanIds, NoId,
      Threads, Goto, machineVars, configVars, engineVars, dbVars, processVars,
      threadVars
<1>1. CASE LoopExits
  <2>1. ConfigType' /\ SessionType' /\ ScanType' /\ ProcessType'
    BY <1>1 DEF LoopExits, ConfigType, SessionType, ScanType, ProcessType, LoopStep
  <2>2. EngineType'
    BY <1>1 DEF LoopExits, EngineType, LoopStep
  <2>3. ThreadType'
    BY <1>1 DEF LoopExits, ThreadType, Places, Unrecorded, Recorded, LoopOnly,
         BeginSteps, HaltSteps, CloseSteps, LoopStep
  <2> QED  BY <2>1, <2>2, <2>3 DEF TypeOK
<1>2. CASE LoopScans
  <2>1. ConfigType' /\ SessionType' /\ ScanType' /\ ProcessType'
    BY <1>2 DEF LoopScans, ConfigType, SessionType, ScanType, ProcessType, LoopStep
  <2>2. EngineType'
    BY <1>2 DEF LoopScans, EngineType, LoopStep
  <2>3. ThreadType'
    BY <1>2 DEF LoopScans, ThreadType, Places, Unrecorded, Recorded, LoopOnly,
         BeginSteps, HaltSteps, CloseSteps, LoopStep
  <2> QED  BY <2>1, <2>2, <2>3 DEF TypeOK
<1>3. CASE LoopIdles
  <2>1. ConfigType' /\ SessionType' /\ ScanType' /\ ProcessType'
    BY <1>3 DEF LoopIdles, ConfigType, SessionType, ScanType, ProcessType, LoopStep
  <2>2. EngineType'
    BY <1>3 DEF LoopIdles, EngineType, LoopStep
  <2>3. ThreadType'
    BY <1>3 DEF LoopIdles, ThreadType, Places, Unrecorded, Recorded, LoopOnly,
         BeginSteps, HaltSteps, CloseSteps, LoopStep
  <2> QED  BY <2>1, <2>2, <2>3 DEF TypeOK
<1>4. CASE EnterWait
  <2>1. ConfigType' /\ SessionType' /\ ScanType' /\ ProcessType'
    BY <1>4 DEF EnterWait, ConfigType, SessionType, ScanType, ProcessType, LoopStep
  <2>2. EngineType'
    BY <1>4 DEF EnterWait, EngineType, LoopStep
  <2>3. ThreadType'
    BY <1>4 DEF EnterWait, ThreadType, Places, Unrecorded, Recorded, LoopOnly,
         BeginSteps, HaltSteps, CloseSteps, LoopStep
  <2> QED  BY <2>1, <2>2, <2>3 DEF TypeOK
<1>5. CASE WakeUp
  <2>1. ConfigType' /\ SessionType' /\ ScanType' /\ ProcessType'
    BY <1>5 DEF WakeUp, ConfigType, SessionType, ScanType, ProcessType, LoopStep
  <2>2. EngineType'
    BY <1>5 DEF WakeUp, EngineType, LoopStep
  <2>3. ThreadType'
    BY <1>5 DEF WakeUp, ThreadType, Places, Unrecorded, Recorded, LoopOnly,
         BeginSteps, HaltSteps, CloseSteps, LoopStep
  <2> QED  BY <2>1, <2>2, <2>3 DEF TypeOK
<1>6. CASE WaitStopped
  <2>1. ConfigType' /\ SessionType' /\ ScanType' /\ ProcessType'
    BY <1>6 DEF WaitStopped, ConfigType, SessionType, ScanType, ProcessType,
         LoopStep
  <2>2. EngineType'
    BY <1>6 DEF WaitStopped, EngineType, LoopStep
  <2>3. ThreadType'
    BY <1>6 DEF WaitStopped, ThreadType, Places, Unrecorded, Recorded, LoopOnly,
         BeginSteps, HaltSteps, CloseSteps, LoopStep
  <2> QED  BY <2>1, <2>2, <2>3 DEF TypeOK
<1>7. CASE WaitElapsed
  <2>1. ConfigType' /\ SessionType' /\ ScanType' /\ ProcessType'
    BY <1>7 DEF WaitElapsed, ConfigType, SessionType, ScanType, ProcessType,
         LoopStep
  <2>2. EngineType'
    BY <1>7 DEF WaitElapsed, EngineType, LoopStep
  <2>3. ThreadType'
    BY <1>7 DEF WaitElapsed, ThreadType, Places, Unrecorded, Recorded, LoopOnly,
         BeginSteps, HaltSteps, CloseSteps, LoopStep
  <2> QED  BY <2>1, <2>2, <2>3 DEF TypeOK
<1>8. CASE Supervise
  <2>1. ConfigType' /\ SessionType' /\ ScanType' /\ ProcessType'
    BY <1>8 DEF Supervise, ConfigType, SessionType, ScanType, ProcessType, LoopStep
  <2>2. EngineType'
    BY <1>8 DEF Supervise, EngineType, LoopStep
  <2>3. ThreadType'
    BY <1>8 DEF Supervise, ThreadType, Places, Unrecorded, Recorded, LoopOnly,
         BeginSteps, HaltSteps, CloseSteps, LoopStep
  <2> QED  BY <2>1, <2>2, <2>3 DEF TypeOK
<1>9. CASE LoopRaises
  <2>1. ConfigType' /\ SessionType' /\ ScanType' /\ ProcessType'
    BY <1>9 DEF LoopRaises, ConfigType, SessionType, ScanType, ProcessType, LoopStep
  <2>2. EngineType'
    BY <1>9 DEF LoopRaises, EngineType, LoopStep
  <2>3. ThreadType'
    BY <1>9 DEF LoopRaises, ThreadType, Places, Unrecorded, Recorded, LoopOnly,
         BeginSteps, HaltSteps, CloseSteps, LoopStep
  <2> QED  BY <2>1, <2>2, <2>3 DEF TypeOK
<1> QED  BY <1>1, <1>2, <1>3, <1>4, <1>5, <1>6, <1>7, <1>8, <1>9 DEF LoopRuns

\* So does the start of a controller's operation.
LEMMA ControllerStartsTypeOK ==
  ASSUME TypeOK, NEW c \in Controllers, ControllerStarts(c)
  PROVE  TypeOK'
<1> USE ConstantsOK, TypeOK DEF ConstantsOK, TypeOK, SessionIds, ScanIds, NoId,
      Threads, Goto, machineVars, configVars, engineVars, dbVars, processVars,
      threadVars
<1>1. CASE Begin(c)
  <2>1. EngineType' /\ SessionType' /\ ScanType' /\ ProcessType'
    BY <1>1 DEF Begin, EngineType, SessionType, ScanType, ProcessType, Present
  <2>2. ConfigType'
    BY <1>1 DEF Begin, ConfigType, Present
  <2>3. ThreadType'
    BY <1>1 DEF Begin, ThreadType, Places, Unrecorded, Recorded, LoopOnly,
         BeginSteps, HaltSteps, CloseSteps, Present
  <2> QED  BY <2>1, <2>2, <2>3 DEF TypeOK
<1>2. CASE Halt(c)
  <2>1. ConfigType' /\ EngineType' /\ SessionType' /\ ScanType' /\ ProcessType'
    BY <1>2 DEF Halt, ConfigType, EngineType, SessionType, ScanType, ProcessType
  <2>2. ThreadType'
    BY <1>2 DEF Halt, ThreadType, Places, Unrecorded, Recorded, LoopOnly,
         BeginSteps, HaltSteps, CloseSteps
  <2> QED  BY <2>1, <2>2 DEF TypeOK
<1>3. CASE SelectAdapter(c)
  <2>1. EngineType' /\ SessionType' /\ ScanType' /\ ProcessType'
    BY <1>3 DEF SelectAdapter, EngineType, SessionType, ScanType, ProcessType
  <2>2. ConfigType'
    BY <1>3 DEF SelectAdapter, ConfigType
  <2>3. ThreadType'
    BY <1>3 DEF SelectAdapter, ThreadType, Places
  <2> QED  BY <2>1, <2>2, <2>3 DEF TypeOK
<1>4. CASE RequestScan(c)
  <2>1. ConfigType' /\ SessionType' /\ ScanType' /\ ProcessType' /\ ThreadType'
    BY <1>4 DEF RequestScan, ConfigType, SessionType, ScanType, ProcessType,
         ThreadType, ScanNow
  <2>2. EngineType'
    BY <1>4 DEF RequestScan, EngineType, ScanNow
  <2> QED  BY <2>1, <2>2 DEF TypeOK
<1>5. CASE ClearNetworks(c)
  <2>1. ConfigType' /\ EngineType' /\ ProcessType' /\ ThreadType'
    BY <1>5 DEF ClearNetworks, ConfigType, EngineType, ProcessType, ThreadType
  <2>2. SessionType'
    BY <1>5 DEF ClearNetworks, SessionType, SessionStates
  <2>3. ScanType'
    BY <1>5 DEF ClearNetworks, ScanType, ScanStates
  <2> QED  BY <2>1, <2>2, <2>3 DEF TypeOK
<1>6. CASE Teardown(c)
  <2>1. ConfigType' /\ EngineType' /\ SessionType' /\ ScanType' /\ ProcessType'
    BY <1>6 DEF Teardown, ConfigType, EngineType, SessionType, ScanType, ProcessType
  <2>2. ThreadType'
    BY <1>6 DEF Teardown, ThreadType, Places, Unrecorded, Recorded, LoopOnly,
         BeginSteps, HaltSteps, CloseSteps
  <2> QED  BY <2>1, <2>2 DEF TypeOK
<1>7. CASE ResetSettings(c)
  <2>1. EngineType' /\ SessionType' /\ ScanType' /\ ProcessType'
    BY <1>7 DEF ResetSettings, EngineType, SessionType, ScanType, ProcessType
  <2>2. ConfigType'
    BY <1>7 DEF ResetSettings, ConfigType
  <2>3. ThreadType'
    BY <1>7 DEF ResetSettings, ThreadType, Places, BeginSteps
  <2> QED  BY <2>1, <2>2, <2>3 DEF TypeOK
<1> QED  BY <1>1, <1>2, <1>3, <1>4, <1>5, <1>6, <1>7 DEF ControllerStarts

\* So does the rest of it.
LEMMA ControllerRunsTypeOK ==
  ASSUME TypeOK, NEW c \in Controllers, ControllerRuns(c), ~Exit(c)
  PROVE  TypeOK'
<1> USE ConstantsOK, TypeOK DEF ConstantsOK, TypeOK, SessionIds, ScanIds, NoId,
      Threads, Goto, machineVars, configVars, engineVars, dbVars, processVars,
      threadVars
<1>1. CASE BeginSelect(c)
  <2>1. ConfigType' /\ EngineType' /\ SessionType' /\ ScanType' /\ ProcessType'
    BY <1>1 DEF BeginSelect, ConfigType, EngineType, SessionType, ScanType,
         ProcessType, Choices, Present
  <2>2. ThreadType'
    BY <1>1 DEF BeginSelect, ThreadType, Places, Unrecorded, Recorded, LoopOnly,
         BeginSteps, HaltSteps, CloseSteps, Choices, Present
  <2> QED  BY <2>1, <2>2 DEF TypeOK
<1>2. CASE BeginEnable(c)
  <2>1. EngineType' /\ SessionType' /\ ScanType' /\ ProcessType'
    BY <1>2 DEF BeginEnable, EngineType, SessionType, ScanType, ProcessType
  <2>2. ConfigType'
    BY <1>2 DEF BeginEnable, ConfigType
  <2>3. ThreadType'
    BY <1>2 DEF BeginEnable, ThreadType, Places, Unrecorded, Recorded, LoopOnly,
         BeginSteps, HaltSteps, CloseSteps
  <2> QED  BY <2>1, <2>2, <2>3 DEF TypeOK
<1>3. CASE BeginAdapter(c)
  <2>1. ConfigType' /\ SessionType' /\ ScanType' /\ ProcessType'
    BY <1>3 DEF BeginAdapter, ConfigType, SessionType, ScanType, ProcessType
  <2>2. EngineType'
    BY <1>3 DEF BeginAdapter, EngineType, ThreadType
  <2>3. ThreadType'
    BY <1>3 DEF BeginAdapter, ThreadType, Places, Unrecorded, Recorded, LoopOnly,
         BeginSteps, HaltSteps, CloseSteps
  <2> QED  BY <2>1, <2>2, <2>3 DEF TypeOK
<1>4. CASE BeginSession(c)
  <2>1. ConfigType' /\ ScanType' /\ ProcessType'
    BY <1>4 DEF BeginSession, StartSession, ConfigType, ScanType, ProcessType
  <2>2. EngineType'
    BY <1>4 DEF BeginSession, StartSession, EngineType, SessionType
  <2>3. SessionType'
    BY <1>4 DEF BeginSession, StartSession, SessionType, SessionStates
  <2>4. ThreadType'
    BY <1>4 DEF BeginSession, StartSession, ThreadType, Places, Unrecorded, Recorded, LoopOnly,
         BeginSteps, HaltSteps, CloseSteps
  <2> QED  BY <2>1, <2>2, <2>3, <2>4 DEF TypeOK
<1>5. CASE BeginWake(c)
  <2>1. ConfigType' /\ SessionType' /\ ScanType' /\ ProcessType'
    BY <1>5 DEF BeginWake, ConfigType, SessionType, ScanType, ProcessType, ScanNow
  <2>2. EngineType'
    BY <1>5 DEF BeginWake, EngineType, ScanNow
  <2>3. ThreadType'
    BY <1>5 DEF BeginWake, ThreadType, Places, Unrecorded, Recorded, LoopOnly,
         BeginSteps, HaltSteps, CloseSteps, ScanNow
  <2> QED  BY <2>1, <2>2, <2>3 DEF TypeOK
<1>6. CASE HaltDisable(c)
  <2>1. EngineType' /\ SessionType' /\ ScanType' /\ ProcessType'
    BY <1>6 DEF HaltDisable, EngineType, SessionType, ScanType, ProcessType
  <2>2. ConfigType'
    BY <1>6 DEF HaltDisable, ConfigType
  <2>3. ThreadType'
    BY <1>6 DEF HaltDisable, ThreadType, Places, Unrecorded, Recorded, LoopOnly,
         BeginSteps, HaltSteps, CloseSteps
  <2> QED  BY <2>1, <2>2, <2>3 DEF TypeOK
<1>7. CASE HaltEndSession(c)
  <2>1. ConfigType' /\ EngineType' /\ ScanType' /\ ProcessType'
    BY <1>7 DEF HaltEndSession, ConfigType, EngineType, ScanType, ProcessType
  <2>2. SessionType'
    BY <1>7 DEF HaltEndSession, SessionType, SessionStates
  <2>3. ThreadType'
    BY <1>7 DEF HaltEndSession, ThreadType, Places, Unrecorded, Recorded,
         LoopOnly, BeginSteps, HaltSteps, CloseSteps
  <2> QED  BY <2>1, <2>2, <2>3 DEF TypeOK
<1>8. CASE HaltClear(c)
  <2>1. ConfigType' /\ SessionType' /\ ScanType' /\ ProcessType'
    BY <1>8 DEF HaltClear, ConfigType, SessionType, ScanType, ProcessType
  <2>2. EngineType'
    BY <1>8 DEF HaltClear, EngineType
  <2>3. ThreadType'
    BY <1>8 DEF HaltClear, ThreadType, Places, Unrecorded, Recorded, LoopOnly,
         BeginSteps, HaltSteps, CloseSteps
  <2> QED  BY <2>1, <2>2, <2>3 DEF TypeOK
<1>9. CASE StopEngine(c)
  <2>1. ConfigType' /\ SessionType' /\ ScanType' /\ ProcessType'
    BY <1>9 DEF StopEngine, ConfigType, SessionType, ScanType, ProcessType
  <2>2. EngineType'
    BY <1>9 DEF StopEngine, EngineType
  <2>3. ThreadType'
    BY <1>9 DEF StopEngine, ThreadType, Places, Unrecorded, Recorded, LoopOnly,
         BeginSteps, HaltSteps, CloseSteps
  <2> QED  BY <2>1, <2>2, <2>3 DEF TypeOK
<1>10. CASE SelectWake(c)
  <2>1. ConfigType' /\ SessionType' /\ ScanType' /\ ProcessType'
    BY <1>10 DEF SelectWake, ConfigType, SessionType, ScanType, ProcessType, ScanNow
  <2>2. EngineType'
    BY <1>10 DEF SelectWake, EngineType, ScanNow
  <2>3. ThreadType'
    BY <1>10 DEF SelectWake, ThreadType, Places, ScanNow
  <2> QED  BY <2>1, <2>2, <2>3 DEF TypeOK
<1> QED
  BY <1>1, <1>2, <1>3, <1>4, <1>5, <1>6, <1>7, <1>8, <1>9, <1>10 DEF ControllerRuns

\* A process that ends leaves no thread, no event and no session in memory.
LEMMA ProcessEndsTypeOK ==
  ASSUME TypeOK, ProcessEnds
  PROVE  TypeOK'
<1> USE ConstantsOK, TypeOK DEF ConstantsOK, TypeOK, SessionIds, ScanIds, NoId,
      machineVars, configVars, dbVars, ProcessEnds
<1>1. ConfigType' /\ EngineType'  BY DEF ConfigType, EngineType
<1>2. SessionType' /\ ScanType'  BY DEF SessionType, ScanType
<1>3. ProcessType'  BY DEF ProcessType
<1>4. ThreadType'  BY DEF ThreadType, Places
<1> QED  BY <1>1, <1>2, <1>3, <1>4

\* Every step of any thread, and of the process itself, keeps the types.
LEMMA NextTypeOK ==
  ASSUME TypeOK, [Next]_vars
  PROVE  TypeOK'
<1>1. CASE LoopRuns \/ LoopRaises
  <2>1. CASE RunOnce(Loop)  BY <2>1, RunOnceTypeOK DEF Threads
  <2>2. CASE ~RunOnce(Loop)  BY <1>1, <2>2, LoopTypeOK
  <2> QED  BY <2>1, <2>2
<1>2. ASSUME NEW s \in Scanners, RequestRunOnce(s) \/ RunOnce(s)
      PROVE  TypeOK'
  <2>1. CASE RunOnce(s)  BY <2>1, RunOnceTypeOK DEF Threads
  <2>2. CASE RequestRunOnce(s)
    <3> USE <2>2 DEF TypeOK, RequestRunOnce, Goto, Threads, machineVars, configVars,
          engineVars, dbVars, processVars
    <3>1. ConfigType' /\ EngineType' /\ SessionType' /\ ScanType' /\ ProcessType'
      BY DEF ConfigType, EngineType, SessionType, ScanType, ProcessType
    <3>2. ThreadType'  BY DEF ThreadType, Places, Unrecorded
    <3> QED  BY <3>1, <3>2
  <2> QED  BY <1>2, <2>1, <2>2
<1>3. ASSUME NEW c \in Controllers, ControllerStarts(c) \/ ControllerRuns(c)
      PROVE  TypeOK'
  <2>1. CASE ControllerStarts(c)  BY <2>1, ControllerStartsTypeOK
  <2>2. CASE Exit(c)  BY <2>2, ProcessEndsTypeOK DEF Exit
  <2>3. CASE ControllerRuns(c) /\ ~Exit(c)  BY <2>3, ControllerRunsTypeOK
  <2> QED  BY <1>3, <2>1, <2>2, <2>3
<1>4. CASE Crash  BY <1>4, ProcessEndsTypeOK DEF Crash
<1>5. CASE Launch
  <2> USE <1>5, ConstantsOK DEF ConstantsOK, TypeOK, Launch, CloseOrphans,
        SessionIds, ScanIds, NoId, Threads, machineVars, engineVars
  <2>1. ConfigType' /\ EngineType'  BY DEF ConfigType, EngineType
  <2>2. SessionType' /\ ScanType'  BY DEF SessionType, ScanType, SessionStates
  <2>3. ProcessType'  BY DEF ProcessType
  <2>4. ThreadType'  BY DEF ThreadType, Places, LoopOnly
  <2> QED  BY <2>1, <2>2, <2>3, <2>4
<1>6. CASE AdapterChanges
  BY <1>6 DEF AdapterChanges, TypeOK, ConfigType, EngineType, SessionType, ScanType,
     ProcessType, ThreadType, configVars, engineVars, dbVars, processVars, threadVars
<1>7. CASE UNCHANGED vars
  BY <1>7 DEF vars, TypeOK, ConfigType, EngineType, SessionType, ScanType,
       ProcessType,
     ThreadType, machineVars, configVars, engineVars, dbVars, processVars, threadVars
<1> QED  BY <1>1, <1>2, <1>3, <1>4, <1>5, <1>6, <1>7 DEF Next

\* Every variable keeps its type, for any adapters, threads and bounds.
THEOREM TypeCorrect == Spec => []TypeOK
<1>1. Init => TypeOK  BY InitTypeOK
<1>2. TypeOK /\ [Next]_vars => TypeOK'  BY NextTypeOK
<1> QED  BY <1>1, <1>2, PTL DEF Spec

(***************************************************************************)
(* Who owns a scan row                                                     *)
(***************************************************************************)

\* RunningScanHasOwner is not inductive: that the row a thread opens is not
\* some other thread's needs the ids still to come to be unused, and that its
\* finish_scan writes the row it opened needs the ids in hand to be old ones.
OwnerInv ==
  /\ \A t \in Threads :
       /\ scanOf[t] # NoId <=> pc[t] \in Recorded
       /\ scanOf[t] < nextScan
       /\ scanOf[t] \notin oldScans
       /\ scanOf[t] # NoId => scanRow[scanOf[t]] \in {"running", "absent"}
       /\ ~up => scanOf[t] = NoId
  /\ \A t, u \in Threads : scanOf[t] = scanOf[u] /\ scanOf[t] # NoId => t = u
  /\ \A i \in ScanIds \ oldScans :
       scanRow[i] = "running" => \E t \in Threads : scanOf[t] = i
  /\ \A i \in oldScans : i < nextScan
  /\ \A i \in ScanIds : i >= nextScan => scanRow[i] = "absent"

\* The strengthening gives the property: the owner it names is inside run_once.
LEMMA OwnerInvImplies == TypeOK /\ OwnerInv => RunningScanHasOwner
  BY DEF OwnerInv, RunningScanHasOwner, ScanIds, NoId

\* No scan has been opened yet.
LEMMA OwnerInvInit == Init => OwnerInv
  BY DEF Init, OwnerInv, Recorded, NoId

\* A thread that moves about outside the recorded part of run_once, or within
\* it, disturbs nothing.
LEMMA OwnerInvQuiet ==
  ASSUME OwnerInv, UNCHANGED <<scanRow, nextScan, scanOf, oldScans, up>>,
         \A t \in Threads : pc'[t] \in Recorded <=> pc[t] \in Recorded
  PROVE  OwnerInv'
  BY DEF OwnerInv

\* Moving one thread between two places on the same side of start_scan moves
\* no thread across it.
LEMMA GotoQuiet ==
  ASSUME ThreadType, NEW t \in Threads, NEW to, Goto(t, to),
         pc[t] \in Recorded <=> to \in Recorded
  PROVE  \A u \in Threads : pc'[u] \in Recorded <=> pc[u] \in Recorded
  BY DEF ThreadType, Goto

\* The four ways out of run_once: finish_scan writes the thread's own row, and
\* the thread lets go of it.
LEMMA OwnerInvFinish ==
  ASSUME TypeOK, OwnerInv, NEW t \in Threads, pc[t] \in Recorded,
         NEW status \in {"ok", "error", "cancelled"},
         FinishScan(scanOf[t], status), Return(t),
         UNCHANGED <<nextScan, oldScans, up>>
  PROVE  OwnerInv'
<1> USE DEF NoId
<1>1. /\ scanOf' = [scanOf EXCEPT ![t] = NoId]
      /\ \A u \in Threads : u # t => pc'[u] = pc[u]
      /\ pc'[t] \notin Recorded
  BY DEF Return, Goto, Recorded, TypeOK, ThreadType
<1>2. \A i \in ScanIds : i # scanOf[t] => scanRow'[i] = scanRow[i]
  BY DEF FinishScan, TypeOK, ScanType
<1>3. scanRow'[scanOf[t]] # "running" /\ scanOf[t] \in ScanIds
  BY DEF FinishScan, TypeOK, ScanType, ThreadType, OwnerInv
<1>4. \A u \in Threads : u # t /\ scanOf[u] # NoId
        => scanOf[u] \in ScanIds /\ scanOf[u] # scanOf[t]
  BY DEF OwnerInv, TypeOK, ThreadType
<1>5. \A u \in Threads :
        /\ scanOf'[u] # NoId <=> pc'[u] \in Recorded
        /\ scanOf'[u] < nextScan'
        /\ scanOf'[u] \notin oldScans'
        /\ ~up' => scanOf'[u] = NoId
  <2>1. NoId < nextScan /\ NoId \notin oldScans
    BY DEF TypeOK, ScanType, ProcessType, ScanIds
  <2> QED  BY <1>1, <2>1 DEF OwnerInv, TypeOK, ThreadType
<1>6. \A u \in Threads :
        scanOf'[u] # NoId => scanRow'[scanOf'[u]] \in {"running", "absent"}
  BY <1>1, <1>2, <1>4 DEF OwnerInv, TypeOK, ThreadType
<1>7. \A u, v \in Threads : scanOf'[u] = scanOf'[v] /\ scanOf'[u] # NoId => u = v
  BY <1>1 DEF OwnerInv, TypeOK, ThreadType
<1>8. \A i \in ScanIds \ oldScans' :
        scanRow'[i] = "running" => \E u \in Threads : scanOf'[u] = i
  BY <1>1, <1>2, <1>3 DEF OwnerInv, TypeOK, ThreadType
<1>9. \A i \in ScanIds : i >= nextScan' => scanRow'[i] = "absent"
  BY DEF FinishScan, OwnerInv, TypeOK, ScanType
<1> QED  BY <1>5, <1>6, <1>7, <1>8, <1>9 DEF OwnerInv

\* Every step of run_once keeps the ownership, whichever thread takes it.
LEMMA OwnerInvRunOnce ==
  ASSUME TypeOK, OwnerInv, NEW t \in Threads, RunOnce(t)
  PROVE  OwnerInv'
<1> USE DEF TypeOK, Recorded, dbVars, processVars
<1>1. CASE SelectInterface(t)
  <2>1. scanOf[t] = NoId  BY <1>1 DEF OwnerInv, SelectInterface
  <2>2. scanOf' = scanOf
    BY <1>1, <2>1 DEF SelectInterface, Return, ThreadType
  <2>3. \A u \in Threads : pc'[u] \in Recorded <=> pc[u] \in Recorded
    BY <1>1, GotoQuiet DEF SelectInterface, Return
  <2> QED  BY <1>1, <2>2, <2>3, OwnerInvQuiet DEF SelectInterface
<1>2. CASE StartScan(t)
  <2> USE DEF NoId
  <2>1. /\ scanOf' = [scanOf EXCEPT ![t] = nextScan]
        /\ nextScan \in ScanIds /\ nextScan' = nextScan + 1
        /\ scanRow' = [scanRow EXCEPT ![nextScan] = "running"]
        /\ oldScans' = oldScans /\ up /\ up'
        /\ pc[t] = "open"
    BY <1>2, ConstantsOK DEF StartScan, ScanType, ScanIds, ProcessType, ConstantsOK
  <2>2. \A u \in Threads : u # t => pc'[u] = pc[u]
    BY <1>2 DEF StartScan, Goto, ThreadType
  <2>3. pc'[t] = "claim"  BY <1>2 DEF StartScan, Goto, ThreadType
  <2>4. \A u \in Threads : scanOf[u] # nextScan
    BY <2>1 DEF OwnerInv, ScanIds, ThreadType
  <2>5. \A u \in Threads :
          /\ scanOf'[u] # NoId <=> pc'[u] \in Recorded
          /\ scanOf'[u] < nextScan'
          /\ scanOf'[u] \notin oldScans'
          /\ ~up' => scanOf'[u] = NoId
    BY <2>1, <2>2, <2>3 DEF OwnerInv, ScanIds, ThreadType
  <2>6. \A u \in Threads :
          scanOf'[u] # NoId => scanRow'[scanOf'[u]] \in {"running", "absent"}
    BY <2>1, <2>4 DEF OwnerInv, ScanType, ThreadType
  <2>7. \A u, v \in Threads : scanOf'[u] = scanOf'[v] /\ scanOf'[u] # NoId => u = v
    BY <2>1, <2>4 DEF OwnerInv, ThreadType
  <2>8. \A i \in ScanIds \ oldScans' :
          scanRow'[i] = "running" => \E u \in Threads : scanOf'[u] = i
    <3> SUFFICES ASSUME NEW i \in ScanIds \ oldScans, scanRow'[i] = "running"
                 PROVE  \E u \in Threads : scanOf'[u] = i
      BY <2>1
    <3>1. CASE i = nextScan  BY <3>1, <2>1 DEF ThreadType
    <3>2. CASE i # nextScan
      <4>1. PICK u \in Threads : scanOf[u] = i
        BY <3>2, <2>1 DEF OwnerInv, ScanType
      <4>2. u # t  BY <4>1, <2>1 DEF OwnerInv, ScanIds, ThreadType
      <4> QED  BY <4>1, <4>2, <2>1 DEF ThreadType
    <3> QED  BY <3>1, <3>2
  <2>9. /\ \A i \in oldScans' : i < nextScan'
        /\ \A i \in ScanIds : i >= nextScan' => scanRow'[i] = "absent"
    BY <2>1 DEF OwnerInv, ScanIds, ScanType, ProcessType
  <2> QED  BY <2>5, <2>6, <2>7, <2>8, <2>9 DEF OwnerInv
<1>3. CASE StopForLostAdapter(t)  BY <1>3, OwnerInvFinish DEF StopForLostAdapter
<1>4. CASE ClaimAdapter(t)  BY <1>4, GotoQuiet, OwnerInvQuiet DEF ClaimAdapter
<1>5. CASE Settle(t)
  <2>1. CASE stopEv /\ FinishScan(scanOf[t], "cancelled") /\ Return(t)
    BY <1>5, <2>1, OwnerInvFinish DEF Settle
  <2>2. CASE Goto(t, "store") /\ UNCHANGED <<scanRow, iface, scanOf, back>>
    BY <1>5, <2>2, GotoQuiet, OwnerInvQuiet DEF Settle
  <2> QED  BY <1>5, <2>1, <2>2 DEF Settle
<1>6. CASE ScanFails(t)  BY <1>6, OwnerInvFinish DEF ScanFails
<1>7. CASE StoreResults(t)  BY <1>7, GotoQuiet, OwnerInvQuiet DEF StoreResults
<1>8. CASE CompleteScan(t)  BY <1>8, OwnerInvFinish DEF CompleteScan
<1> QED  BY <1>1, <1>2, <1>3, <1>4, <1>5, <1>6, <1>7, <1>8 DEF RunOnce

\* A dying process owns nothing: its unfinished rows become old ones.
LEMMA OwnerInvProcessEnds ==
  ASSUME TypeOK, OwnerInv, ProcessEnds
  PROVE  OwnerInv'
<1> USE DEF ProcessEnds, dbVars, TypeOK, ScanType, ScanIds, NoId
<1>1. \A t \in Threads : scanOf'[t] = NoId /\ pc'[t] \notin Recorded
  BY DEF Recorded
<1>2. oldScans' = {i \in ScanIds : i < nextScan'}  OBVIOUS
<1>3. NoId < nextScan' /\ NoId \notin oldScans'  BY <1>2
<1>4. \A i \in ScanIds : i >= nextScan' => scanRow'[i] = "absent"
  BY DEF OwnerInv
<1>5. \A i \in ScanIds \ oldScans' : scanRow'[i] # "running"
  BY <1>2, <1>4
<1> QED  BY <1>1, <1>2, <1>3, <1>4, <1>5 DEF OwnerInv

\* Every other thread, and the process, keep it too.
LEMMA OwnerInvNext ==
  ASSUME TypeOK, OwnerInv, [Next]_vars
  PROVE  OwnerInv'
<1> USE DEF machineVars, configVars, engineVars, dbVars, processVars, threadVars
<1>1. CASE LoopRuns \/ LoopRaises
  <2>1. CASE RunOnce(Loop)  BY <2>1, OwnerInvRunOnce DEF Threads
  <2>2. CASE ~RunOnce(Loop)
    <3>1. PICK from \in LoopOnly, to \in LoopOnly \cup {"select"} : LoopStep(from, to)
      BY <1>1, <2>2 DEF LoopRuns, LoopRaises, LoopExits, LoopScans, LoopIdles, EnterWait,
         WakeUp, WaitStopped, WaitElapsed, Supervise, LoopOnly
    <3> QED
      BY <3>1, GotoQuiet, OwnerInvQuiet DEF LoopStep, LoopOnly, Recorded, Threads, TypeOK
  <2> QED  BY <2>1, <2>2
<1>2. ASSUME NEW s \in Scanners, RequestRunOnce(s) \/ RunOnce(s)
      PROVE  OwnerInv'
  <2>1. CASE RunOnce(s)  BY <2>1, OwnerInvRunOnce DEF Threads
  <2>2. CASE RequestRunOnce(s)
    BY <2>2, GotoQuiet, OwnerInvQuiet DEF RequestRunOnce, Recorded, Threads, TypeOK
  <2> QED  BY <1>2, <2>1, <2>2
<1>3. ASSUME NEW c \in Controllers, ControllerStarts(c)
      PROVE  OwnerInv'
  <2> USE GotoQuiet, OwnerInvQuiet DEF Recorded, Threads, TypeOK
  <2>1. CASE Begin(c)  BY <2>1 DEF Begin
  <2>2. CASE Halt(c)  BY <2>2 DEF Halt
  <2>3. CASE SelectAdapter(c)  BY <2>3 DEF SelectAdapter
  <2>4. CASE RequestScan(c)  BY <2>4 DEF RequestScan
  <2>5. CASE ClearNetworks(c)
    BY <2>5 DEF ClearNetworks, OwnerInv, ThreadType
  <2>6. CASE Teardown(c)  BY <2>6 DEF Teardown
  <2>7. CASE ResetSettings(c)  BY <2>7 DEF ResetSettings
  <2> QED  BY <1>3, <2>1, <2>2, <2>3, <2>4, <2>5, <2>6, <2>7 DEF ControllerStarts
<1>4. ASSUME NEW c \in Controllers, ControllerRuns(c)
      PROVE  OwnerInv'
  <2> USE GotoQuiet, OwnerInvQuiet DEF Recorded, Threads, TypeOK
  <2>1. CASE BeginSelect(c)  BY <2>1 DEF BeginSelect
  <2>2. CASE BeginEnable(c)  BY <2>2 DEF BeginEnable
  <2>3. CASE BeginAdapter(c)  BY <2>3 DEF BeginAdapter
  <2>4. CASE BeginSession(c)  BY <2>4 DEF BeginSession, StartSession
  <2>5. CASE BeginWake(c)  BY <2>5 DEF BeginWake
  <2>6. CASE HaltDisable(c)  BY <2>6 DEF HaltDisable
  <2>7. CASE HaltEndSession(c)  BY <2>7 DEF HaltEndSession
  <2>8. CASE HaltClear(c)
    <3>1. back[c] \notin Recorded  BY DEF ThreadType
    <3> QED  BY <2>8, <3>1 DEF HaltClear
  <2>9. CASE StopEngine(c)  BY <2>9 DEF StopEngine
  <2>10. CASE Exit(c)  BY <2>10, OwnerInvProcessEnds DEF Exit
  <2>11. CASE SelectWake(c)  BY <2>11 DEF SelectWake
  <2> QED
    BY <1>4, <2>1, <2>2, <2>3, <2>4, <2>5, <2>6, <2>7, <2>8, <2>9, <2>10, <2>11
       DEF ControllerRuns
<1>5. CASE Crash  BY <1>5, OwnerInvProcessEnds DEF Crash
<1>6. CASE Launch
  <2>1. scanOf[Loop] = NoId /\ Loop \in Threads  BY <1>6 DEF Launch, OwnerInv, Threads
  <2>2. \A t \in Threads : pc'[t] \in Recorded <=> pc[t] \in Recorded
    BY <1>6, <2>1 DEF Launch, OwnerInv, Recorded, TypeOK, ThreadType
  <2> QED  BY <1>6, <2>2 DEF Launch, OwnerInv
<1>7. CASE AdapterChanges  BY <1>7, OwnerInvQuiet DEF AdapterChanges
<1>8. CASE UNCHANGED vars  BY <1>8, OwnerInvQuiet DEF vars
<1> QED  BY <1>1, <1>2, <1>3, <1>4, <1>5, <1>6, <1>7, <1>8 DEF Next

\* So the ownership of scan rows is an invariant of the engine.
LEMMA OwnerInvariant == Spec => [](TypeOK /\ OwnerInv)
<1>1. Init => TypeOK /\ OwnerInv  BY InitTypeOK, OwnerInvInit
<1>2. TypeOK /\ OwnerInv /\ [Next]_vars => TypeOK' /\ OwnerInv'
  BY NextTypeOK, OwnerInvNext
<1> QED  BY <1>1, <1>2, PTL DEF Spec

\* Whatever the loop, the single scans and the controllers do at once, a scan
\* row of this lifetime that has not been finished belongs to one thread.
THEOREM ScanRowsAreOwned == Spec => []RunningScanHasOwner
  BY OwnerInvariant, OwnerInvImplies, PTL

\* Only finish_scan, start_scan and clear_networks write a scan row: the first
\* writes the row its own thread opened, the second a row never used before.
LEMMA FinalStep ==
  ASSUME TypeOK, OwnerInv, [Next]_vars,
         NEW i \in ScanIds, scanRow[i] \in {"ok", "error", "cancelled"}
  PROVE  scanRow'[i] \in {scanRow[i], "absent"}
<1> USE DEF dbVars
<1>1. ASSUME NEW t \in Threads, RunOnce(t)
      PROVE  scanRow'[i] = scanRow[i]
  <2>1. ASSUME NEW status, FinishScan(scanOf[t], status), pc[t] \in Recorded
        PROVE  scanRow'[i] = scanRow[i]
    BY <2>1 DEF FinishScan, OwnerInv, TypeOK, ScanType
  <2>2. CASE StartScan(t)
    BY <2>2 DEF StartScan, OwnerInv, TypeOK, ScanType, ScanIds
  <2> QED
    BY <1>1, <2>1, <2>2
       DEF RunOnce, SelectInterface, StopForLostAdapter, ClaimAdapter, Settle,
           ScanFails, StoreResults, CompleteScan, Recorded
<1>2. CASE LoopRuns \/ LoopRaises
  BY <1>1, <1>2
     DEF LoopRuns, LoopRaises, LoopExits, LoopScans, LoopIdles, EnterWait, WakeUp,
         WaitStopped, WaitElapsed, Supervise, LoopStep, Threads
<1>3. ASSUME NEW s \in Scanners, RequestRunOnce(s) \/ RunOnce(s)
      PROVE  scanRow'[i] = scanRow[i]
  BY <1>1, <1>3 DEF RequestRunOnce, Threads
<1>4. ASSUME NEW c \in Controllers, ControllerStarts(c)
      PROVE  scanRow'[i] \in {scanRow[i], "absent"}
  BY <1>4
     DEF ControllerStarts, Begin, Halt, SelectAdapter, RequestScan, ResetSettings,
         ClearNetworks, Teardown
<1>5. ASSUME NEW c \in Controllers, ControllerRuns(c)
      PROVE  scanRow' = scanRow
  BY <1>5
     DEF ControllerRuns, BeginSelect, BeginEnable, BeginAdapter, BeginSession,
         BeginWake, SelectWake, HaltDisable, HaltEndSession, HaltClear, StopEngine, Exit,
         ProcessEnds
<1>6. CASE Crash \/ Launch \/ AdapterChanges \/ UNCHANGED vars
  BY <1>6 DEF Crash, ProcessEnds, Launch, AdapterChanges, vars
<1> QED  BY <1>2, <1>3, <1>4, <1>5, <1>6 DEF Next

\* A scan that has finished, been cancelled or failed is never given another
\* status, however many threads call run_once at once.
THEOREM FinishedScansStayFinal == Spec => FinishedScanIsFinal
<1>1. TypeOK /\ OwnerInv /\ [Next]_vars
        => [\A i \in ScanIds : scanRow[i] \in {"ok", "error", "cancelled"}
              => scanRow'[i] \in {scanRow[i], "absent"}]_vars
  BY FinalStep
<1> QED  BY <1>1, OwnerInvariant, PTL DEF Spec, FinishedScanIsFinal

(***************************************************************************)
(* The sessions                                                            *)
(*                                                                         *)
(* What the sessions table is for any number of controllers, that it       *)
(* implements SessionLedger, and what one controller at a time adds.       *)
(***************************************************************************)

\* start_session, end_session, clear_networks, the end of the process and its
\* launch: every other step leaves the sessions alone.
SessionsUntouched ==
  UNCHANGED <<sessionRow, nextSession, sessionId, up, oldSessions>>

\* No step of run_once touches a session: it only reads the current one.
LEMMA RunOnceSessions ==
  ASSUME NEW t \in Threads, RunOnce(t)
  PROVE  SessionsUntouched
BY DEF RunOnce, SelectInterface, StartScan, StopForLostAdapter, ClaimAdapter, Settle,
       ScanFails, StoreResults, CompleteScan, SessionsUntouched, engineVars, dbVars,
       processVars

\* The five steps that do, and nothing else.
LEMMA SessionSteps ==
  ASSUME [Next]_vars
  PROVE  \/ SessionsUntouched
         \/ \E c \in Controllers : BeginSession(c)
         \/ \E c \in Controllers : HaltEndSession(c)
         \/ \E c \in Controllers : HaltClear(c)
         \/ \E c \in Controllers : ClearNetworks(c)
         \/ up /\ ProcessEnds
         \/ Launch
<1> USE DEF SessionsUntouched, engineVars, dbVars, processVars
<1>1. CASE LoopRuns \/ LoopRaises
  BY <1>1, RunOnceSessions
     DEF LoopRuns, LoopRaises, LoopExits, LoopScans, LoopIdles, EnterWait, WakeUp,
         WaitStopped, WaitElapsed, Supervise, LoopStep, Threads
<1>2. ASSUME NEW s \in Scanners, RequestRunOnce(s) \/ RunOnce(s)
      PROVE  SessionsUntouched
  BY <1>2, RunOnceSessions DEF RequestRunOnce, Threads
<1>3. ASSUME NEW c \in Controllers, ControllerStarts(c), ~ClearNetworks(c)
      PROVE  SessionsUntouched
  BY <1>3
     DEF ControllerStarts, Begin, Halt, SelectAdapter, RequestScan, ResetSettings, Teardown
<1>4. ASSUME NEW c \in Controllers, ControllerRuns(c), ~BeginSession(c),
             ~HaltEndSession(c), ~HaltClear(c), ~Exit(c)
      PROVE  SessionsUntouched
  BY <1>4
     DEF ControllerRuns, BeginSelect, BeginEnable, BeginAdapter, BeginWake,
         SelectWake, HaltDisable, StopEngine
<1>5. CASE AdapterChanges \/ UNCHANGED vars  BY <1>5 DEF AdapterChanges, vars
<1> QED  BY <1>1, <1>2, <1>3, <1>4, <1>5 DEF Next, Exit, Crash

(***************************************************************************)
(* Sessions of earlier lifetimes                                           *)
(***************************************************************************)

\* NoOrphanedSession is kept by a new session only if its id is not an old one.
SessionInv ==
  /\ \A i \in oldSessions : i < nextSession
  /\ NoOrphanedSession

\* The sessions of earlier lifetimes stay closed from the launch on.
LEMMA SessionInvNext ==
  ASSUME TypeOK, SessionInv, [Next]_vars
  PROVE  SessionInv'
<1> USE DEF SessionInv, NoOrphanedSession, TypeOK, SessionType, ProcessType, SessionIds,
            processVars, dbVars
<1>1. CASE SessionsUntouched  BY <1>1 DEF SessionsUntouched
<1>2. ASSUME NEW c \in Controllers, BeginSession(c)
      PROVE  SessionInv'
  BY <1>2 DEF BeginSession, StartSession
<1>3. ASSUME NEW c \in Controllers, HaltEndSession(c) \/ HaltClear(c) \/ ClearNetworks(c)
      PROVE  SessionInv'
  BY <1>3 DEF HaltEndSession, HaltClear, ClearNetworks
<1>4. CASE up /\ ProcessEnds  BY <1>4 DEF ProcessEnds
<1>5. CASE Launch  BY <1>5 DEF Launch, CloseOrphans
<1> QED  BY <1>1, <1>2, <1>3, <1>4, <1>5, SessionSteps

\* However the last process ended, and with any number of controllers, what it
\* left open is closed for good once the engine has started again.
THEOREM OrphansStayClosed == Spec => []NoOrphanedSession
<1>1. Init => SessionInv  BY DEF Init, SessionInv, NoOrphanedSession
<1>2. TypeOK /\ SessionInv /\ [Next]_vars => SessionInv'  BY SessionInvNext
<1>3. SessionInv => NoOrphanedSession  BY DEF SessionInv
<1> QED  BY <1>1, <1>2, <1>3, TypeCorrect, PTL DEF Spec

(***************************************************************************)
(* The sessions table implements SessionLedger                             *)
(***************************************************************************)

\* Each step of the engine is one step of the ledger, or none.  An end_session
\* that finds its row closed, cleared or never opened is none.
LEMMA LedgerStep ==
  ASSUME TypeOK, [Next]_vars
  PROVE  [Ledger!LedgerNext]_(Ledger!ledger)
<1> USE DEF Ledger!LedgerNext, Ledger!ledger, Ledger!Ids, TypeOK, SessionType,
            SessionIds, processVars, dbVars
<1>1. CASE SessionsUntouched  BY <1>1 DEF SessionsUntouched
<1>2. ASSUME NEW c \in Controllers, BeginSession(c)
      PROVE  Ledger!OpenSession
  BY <1>2 DEF BeginSession, StartSession, Ledger!OpenSession
<1>3. ASSUME NEW c \in Controllers, HaltEndSession(c)
      PROVE  [Ledger!LedgerNext]_(Ledger!ledger)
  <2>1. CASE sessionId \in SessionIds /\ sessionRow[sessionId] = "open"
    <3>1. sessionRow' = [sessionRow EXCEPT ![sessionId] = "closed"]
      BY <1>3, <2>1 DEF HaltEndSession
    <3> QED  BY <1>3, <2>1, <3>1 DEF HaltEndSession, Ledger!CloseSession
  <2>2. CASE ~(sessionId \in SessionIds /\ sessionRow[sessionId] = "open")
    <3>1. sessionRow' = sessionRow
      BY <1>3, <2>2 DEF HaltEndSession, SessionStates
    <3> QED  BY <1>3, <3>1 DEF HaltEndSession
  <2> QED  BY <2>1, <2>2
<1>4. ASSUME NEW c \in Controllers, HaltClear(c)
      PROVE  UNCHANGED Ledger!ledger
  BY <1>4 DEF HaltClear
<1>5. ASSUME NEW c \in Controllers, ClearNetworks(c)
      PROVE  Ledger!EraseSessions
  BY <1>5 DEF ClearNetworks, Ledger!EraseSessions
<1>6. CASE up /\ ProcessEnds  BY <1>6 DEF ProcessEnds, Ledger!Dies
<1>7. CASE Launch  BY <1>7 DEF Launch, CloseOrphans, Ledger!Recovers
<1> QED  BY <1>1, <1>2, <1>3, <1>4, <1>5, <1>6, <1>7, SessionSteps

\* The engine, its loop, its controllers and its crashes together implement
\* the abstract sessions table: ids are never reused, an ended session stays
\* ended, and a launch ends whatever a crash left open.
THEOREM LedgerIsKept == Spec => KeepsLedger
<1>1. Init => Ledger!LedgerInit
  BY DEF Init, Ledger!LedgerInit, Ledger!Ids, SessionIds
<1>2. TypeOK /\ [Next]_vars => [Ledger!LedgerNext]_(Ledger!ledger)  BY LedgerStep
<1> QED
  BY <1>1, <1>2, TypeCorrect, PTL DEF Spec, KeepsLedger, Ledger!LedgerSpec

(***************************************************************************)
(* One controller at a time                                                *)
(***************************************************************************)

\* The window: one button, disabled while its operation runs.
OneController(c) == Controllers = {c} /\ ~Autostart /\ ~Erasing

\* ScanningHasOpenSession survives end_session and the clearing of the id only
\* because halt has disabled scanning first, and nothing has enabled it since.
ScanningInv(c) ==
  /\ ScanningHasOpenSession
  /\ up /\ pc[c] \in {"h_end", "h_clear"} => ~enabled

\* Only begin enables scanning, and no step of another thread moves a
\* controller.
LEMMA OtherThreads ==
  ASSUME TypeOK, NEW c \in Controllers, NEW t \in Threads \ {c},
         RunOnce(t) \/ (t = Loop /\ (LoopRuns \/ LoopRaises)) \/ RequestRunOnce(t)
  PROVE  pc'[c] = pc[c] /\ up' = up /\ (enabled' => enabled)
<1>1. c \in Threads /\ c # t  BY DEF Threads
<1>2. ASSUME NEW to, Goto(t, to) PROVE  pc'[c] = pc[c]
  BY <1>1, <1>2 DEF Goto, TypeOK, ThreadType
<1>3. ASSUME RunOnce(t)
      PROVE  pc'[c] = pc[c] /\ up' = up /\ (enabled' => enabled)
  <2> USE <1>2 DEF Return, configVars, processVars
  <2>1. CASE SelectInterface(t)  BY <2>1 DEF SelectInterface
  <2>2. CASE StartScan(t)  BY <2>2 DEF StartScan
  <2>3. CASE StopForLostAdapter(t)  BY <2>3 DEF StopForLostAdapter
  <2>4. CASE ClaimAdapter(t)  BY <2>4 DEF ClaimAdapter
  <2>5. CASE Settle(t)  BY <2>5 DEF Settle
  <2>6. CASE ScanFails(t)  BY <2>6 DEF ScanFails
  <2>7. CASE StoreResults(t)  BY <2>7 DEF StoreResults
  <2>8. CASE CompleteScan(t)  BY <2>8 DEF CompleteScan
  <2> QED
    BY <1>3, <2>1, <2>2, <2>3, <2>4, <2>5, <2>6, <2>7, <2>8 DEF RunOnce
<1>4. CASE t = Loop /\ (LoopRuns \/ LoopRaises) /\ ~RunOnce(t)
  <2>1. PICK from, to : LoopStep(from, to)
    BY <1>4
       DEF LoopRuns, LoopRaises, LoopExits, LoopScans, LoopIdles, EnterWait, WakeUp,
           WaitStopped, WaitElapsed, Supervise
  <2> QED  BY <1>2, <1>4, <2>1 DEF LoopStep, configVars, processVars
<1>5. CASE RequestRunOnce(t)
  BY <1>2, <1>5 DEF RequestRunOnce, configVars, processVars
<1> QED  BY <1>3, <1>4, <1>5

\* With one controller, a step keeps an open session behind enabled scanning.
LEMMA ScanningInvNext ==
  ASSUME TypeOK, NEW c \in Controllers, OneController(c), ScanningInv(c), [Next]_vars
  PROVE  ScanningInv(c)'
<1> USE ConstantsOK
    DEF ConstantsOK, OneController, ScanningInv, ScanningHasOpenSession, TypeOK,
        ThreadType, SessionType, SessionIds, ConfigType, Goto, NoId, configVars,
        dbVars, processVars, threadVars
<1>1. ASSUME NEW t \in Threads \ {c},
             RunOnce(t) \/ (t = Loop /\ (LoopRuns \/ LoopRaises)) \/ RequestRunOnce(t)
      PROVE  ScanningInv(c)'
  <2>1. pc'[c] = pc[c] /\ up' = up /\ (enabled' => enabled)
    BY <1>1, OtherThreads
  <2>2. UNCHANGED <<sessionId, sessionRow>>
    BY <1>1, RunOnceSessions
       DEF SessionsUntouched, engineVars, RequestRunOnce, LoopRuns, LoopRaises,
           LoopExits, LoopScans, LoopIdles, EnterWait, WakeUp, WaitStopped,
           WaitElapsed, Supervise, LoopStep
  <2> QED  BY <2>1, <2>2
<1>2. CASE ControllerStarts(c)
  <2> USE <1>2 DEF Threads, engineVars
  <2>1. CASE Begin(c)  BY <2>1 DEF Begin
  <2>2. CASE Halt(c)  BY <2>2 DEF Halt
  <2>3. CASE SelectAdapter(c)  BY <2>3 DEF SelectAdapter
  <2>4. CASE RequestScan(c)  BY <2>4 DEF RequestScan
  <2>5. CASE Teardown(c)  BY <2>5 DEF Teardown
  <2>6. CASE ResetSettings(c)  BY <2>6 DEF ResetSettings
  <2> QED  BY <2>1, <2>2, <2>3, <2>4, <2>5, <2>6 DEF ControllerStarts, ClearNetworks
<1>3. CASE ControllerRuns(c)
  <2> USE <1>3 DEF Threads, engineVars
  <2>1. CASE BeginSelect(c)  BY <2>1 DEF BeginSelect
  <2>2. CASE BeginEnable(c)  BY <2>2 DEF BeginEnable
  <2>3. CASE BeginAdapter(c)  BY <2>3 DEF BeginAdapter
  <2>4. CASE BeginSession(c)  BY <2>4 DEF BeginSession, StartSession
  <2>5. CASE BeginWake(c)  BY <2>5 DEF BeginWake
  <2>6. CASE HaltDisable(c)  BY <2>6 DEF HaltDisable
  <2>7. CASE HaltEndSession(c)  BY <2>7 DEF HaltEndSession
  <2>8. CASE HaltClear(c)  BY <2>8 DEF HaltClear
  <2>9. CASE StopEngine(c)  BY <2>9 DEF StopEngine
  <2>10. CASE Exit(c)  BY <2>10 DEF Exit, ProcessEnds
  <2>11. CASE SelectWake(c)  BY <2>11 DEF SelectWake
  <2> QED
    BY <2>1, <2>2, <2>3, <2>4, <2>5, <2>6, <2>7, <2>8, <2>9, <2>10, <2>11
       DEF ControllerRuns
<1>4. CASE Crash  BY <1>4 DEF Crash, ProcessEnds
<1>5. CASE Launch  BY <1>5 DEF Launch, Threads
<1>6. CASE AdapterChanges \/ UNCHANGED vars
  BY <1>6 DEF AdapterChanges, vars, engineVars
<1> QED
  BY <1>1, <1>2, <1>3, <1>4, <1>5, <1>6 DEF Next, Threads, LoopRuns

\* With one controller, and unless scanning is resumed by a launch or the
\* history is cleared, a scan of the enabled loop always belongs to a session
\* that is still open.
THEOREM ScanningIsInSession ==
  ASSUME NEW c \in Controllers, OneController(c)
  PROVE  Spec => []ScanningHasOpenSession
<1>1. Init => ScanningInv(c)
  BY DEF Init, ScanningInv, ScanningHasOpenSession
<1>2. TypeOK /\ ScanningInv(c) /\ [Next]_vars => ScanningInv(c)'
  BY ScanningInvNext
<1>3. ScanningInv(c) => ScanningHasOpenSession  BY DEF ScanningInv
<1> QED  BY <1>1, <1>2, <1>3, TypeCorrect, PTL DEF Spec
=============================================================================
