----------------------------- MODULE ScanEngine -----------------------------
(***************************************************************************)
(* The scan engine of app/scanner.py: the background loop, the threads     *)
(* that call run_once directly (the Single scan button, POST /scan, a walk *)
(* survey), the threads that start, stop and close, the scan and session   *)
(* rows they write, and the process itself, which may exit, be killed and  *)
(* start again.                                                            *)
(*                                                                         *)
(* Nothing serialises these threads: the write lock of app/db.py covers    *)
(* one transaction and engine._lock one assignment, so an operation is     *)
(* split into a step per access to shared state.  What a scan stores apart *)
(* from its row is the subject of FindingPipeline; display state (phase,   *)
(* activity feed, counters) and the length of waits are left out.          *)
(***************************************************************************)
EXTENDS Integers, FiniteSets, TLC

CONSTANTS
  Guids,        \* wireless adapters that may be plugged in
  NoGuid,       \* a blank interface_guid, or no adapter yet
  Controllers,  \* threads that call begin, halt, select and teardown
  Scanners,     \* threads that call run_once outside the loop
  Loop,         \* the scan-engine thread
  MaxSessions,  \* bound: sessions ever opened
  MaxScans,     \* bound: scans ever opened
  MaxRuns,      \* bound: process lifetimes
  Autostart,    \* the setting scan.autostart_on_launch
  AdapterStates, \* of absent, off (radio switched off) and on
  LoopFaults,   \* whether the loop itself may raise, outside run_once
  Erasing       \* whether collected data may be cleared while running

ASSUME ConstantsOK ==
  /\ NoGuid \notin Guids
  /\ Loop \notin Controllers \cup Scanners
  /\ Controllers \cap Scanners = {}
  /\ MaxSessions \in Nat /\ MaxScans \in Nat /\ MaxRuns \in Nat
  /\ AdapterStates \subseteq {"absent", "off", "on"}
  /\ {Autostart, LoopFaults, Erasing} \subseteq BOOLEAN

VARIABLES
  adapters,     \* the machine: each adapter's presence and radio
  enabled,      \* config scan.enabled, persisted
  pinned,       \* config scan.interface_guid, persisted
  adapterInfo,  \* engine._adapter_info
  sessionId,    \* engine._session_id, 0 for None
  stopEv,       \* engine._stop
  wakeEv,       \* engine._wake
  sessionRow,   \* table sessions: absent, open (ended_at NULL) or closed
  nextSession,  \* its AUTOINCREMENT sequence
  scanRow,      \* table scans: absent, running (finished_at NULL) or a status
  scanSession,  \* table scans, column session_id
  nextScan,     \* its AUTOINCREMENT sequence
  up,           \* whether the process is running
  runs,         \* process lifetimes so far
  oldSessions,  \* history: session ids allocated by earlier lifetimes
  oldScans,     \* history: scan ids allocated by earlier lifetimes
  requested,    \* history: scan_now was called and the loop has not scanned yet
  pc,           \* where each thread is
  iface,        \* run_once and begin: the local variable interface / adapter
  scanOf,       \* run_once: the local variable scan_id, 0 before start_scan
  back          \* where halt returns to: its caller, or the rest of teardown

machineVars == <<adapters>>
configVars  == <<enabled, pinned>>
engineVars  == <<adapterInfo, sessionId, stopEv, wakeEv, requested>>
dbVars      == <<sessionRow, nextSession, scanRow, scanSession, nextScan>>
processVars == <<up, runs, oldSessions, oldScans>>
threadVars  == <<pc, iface, scanOf, back>>
vars == <<machineVars, configVars, engineVars, dbVars, processVars, threadVars>>

Threads    == {Loop} \cup Controllers \cup Scanners
SessionIds == 1..MaxSessions
ScanIds    == 1..MaxScans
NoId       == 0

SessionStates == {"absent", "open", "closed"}
ScanStates    == {"absent", "running", "ok", "error", "cancelled"}

\* Inside run_once: before, and then after, the scan has a row of its own.
Unrecorded == {"select", "open"}
Recorded   == {"claim", "settle", "store", "finish"}
LoopOnly   == {"top", "rest", "wait", "crashed", "exited"}
BeginSteps == {"b_select", "b_enable", "b_adapter", "b_session", "b_wake"}
HaltSteps  == {"h_disable", "h_end", "h_clear"}
CloseSteps == {"stop", "join"}
Places == Unrecorded \cup Recorded \cup LoopOnly \cup BeginSteps \cup HaltSteps
            \cup CloseSteps \cup {"idle", "selected"}

Present == {g \in Guids : adapters[g] # "absent"}

ConfigType ==
  /\ adapters \in [Guids -> AdapterStates]
  /\ enabled \in BOOLEAN
  /\ pinned \in Guids \cup {NoGuid}

EngineType ==
  /\ adapterInfo \in Guids \cup {NoGuid}
  /\ sessionId \in SessionIds \cup {NoId}
  /\ stopEv \in BOOLEAN /\ wakeEv \in BOOLEAN /\ requested \in BOOLEAN

SessionType ==
  /\ sessionRow \in [SessionIds -> SessionStates]
  /\ nextSession \in 1..(MaxSessions + 1)

ScanType ==
  /\ scanRow \in [ScanIds -> ScanStates]
  /\ scanSession \in [ScanIds -> SessionIds \cup {NoId}]
  /\ nextScan \in 1..(MaxScans + 1)

ProcessType ==
  /\ up \in BOOLEAN
  /\ runs \in 0..MaxRuns
  /\ oldSessions \subseteq SessionIds
  /\ oldScans \subseteq ScanIds

ThreadType ==
  /\ pc \in [Threads -> Places]
  /\ iface \in [Threads -> Guids \cup {NoGuid}]
  /\ scanOf \in [Threads -> ScanIds \cup {NoId}]
  /\ back \in [Threads -> {"idle", "stop"}]

TypeOK ==
  /\ ConfigType /\ EngineType /\ SessionType /\ ScanType /\ ProcessType
  /\ ThreadType

Init ==
  /\ adapters \in [Guids -> AdapterStates]
  /\ enabled = FALSE /\ pinned = NoGuid
  /\ adapterInfo = NoGuid /\ sessionId = NoId
  /\ stopEv = FALSE /\ wakeEv = FALSE /\ requested = FALSE
  /\ sessionRow = [i \in SessionIds |-> "absent"] /\ nextSession = 1
  /\ scanRow = [i \in ScanIds |-> "absent"] /\ nextScan = 1
  /\ scanSession = [i \in ScanIds |-> NoId]
  /\ up = FALSE /\ runs = 0
  /\ oldSessions = {} /\ oldScans = {}
  /\ pc = [t \in Threads |-> "idle"]
  /\ iface = [t \in Threads |-> NoGuid]
  /\ scanOf = [t \in Threads |-> NoId]
  /\ back = [t \in Threads |-> "idle"]

Goto(t, to) == pc' = [pc EXCEPT ![t] = to]

ControllersIdle == \A c \in Controllers : pc[c] = "idle"

\* Once the window is closing, or the server has stopped accepting requests,
\* no further operation begins; those under way carry on.
Closing == \E c \in Controllers : pc[c] \in CloseSteps \/ back[c] = "stop"

\* Bound: a scan begins only while a row is left for it.
ScansLeft ==
  nextScan + Cardinality({t \in Threads : pc[t] \in Unrecorded}) <= MaxScans

(***************************************************************************)
(* run_once, by the loop or by a thread of its own                         *)
(***************************************************************************)

\* The exception, or the return value, reaches the caller of run_once.
Return(t) ==
  /\ Goto(t, IF t = Loop THEN "rest" ELSE "idle")
  /\ iface' = [iface EXCEPT ![t] = NoGuid]
  /\ scanOf' = [scanOf EXCEPT ![t] = NoId]
  /\ UNCHANGED back

\* Faulty: a cancelled scan is returned from without its row being finished.
FinishScanUnlessCancelled(id, status) ==
  scanRow' = [scanRow EXCEPT ![id] = IF status = "cancelled" THEN @ ELSE status]

\* db.finish_scan: an UPDATE by id, so a row that was cleared stays absent.
FinishScan(id, status) ==
  scanRow' = [scanRow EXCEPT ![id] = IF @ = "absent" THEN @ ELSE status]

\* select_interface: the pinned adapter when it is there, otherwise the best
\* scoring one.  The score depends on the radio and the driver, so any adapter
\* that is present may be the best.
Choices == IF pinned \in Present THEN {pinned} ELSE Present

SelectInterface(t) ==
  /\ up /\ pc[t] = "select"
  /\ requested' = IF t = Loop THEN FALSE ELSE requested
  /\ \/ /\ Present = {}
        /\ Return(t)
     \/ \E g \in Choices :
          /\ iface' = [iface EXCEPT ![t] = g]
          /\ Goto(t, "open")
          /\ UNCHANGED <<scanOf, back>>
  /\ UNCHANGED <<machineVars, configVars, adapterInfo, sessionId, stopEv, wakeEv,
                 dbVars, processVars>>

\* db.start_scan(interface["guid"], session_id=self._session_id)
StartScan(t) ==
  /\ up /\ pc[t] = "open"
  /\ nextScan <= MaxScans
  /\ scanRow' = [scanRow EXCEPT ![nextScan] = "running"]
  /\ scanSession' = [scanSession EXCEPT ![nextScan] = sessionId]
  /\ scanOf' = [scanOf EXCEPT ![t] = nextScan]
  /\ nextScan' = nextScan + 1
  /\ Goto(t, "claim")
  /\ UNCHANGED <<machineVars, configVars, engineVars, sessionRow, nextSession,
                 processVars, iface, back>>

\* The adapter in use has changed, and the one it changed from is the one the
\* person chose: scanning stops rather than moving to another radio.
AdapterLost(t) ==
  /\ adapterInfo # NoGuid
  /\ adapterInfo # iface[t]
  /\ pinned = adapterInfo

StopForLostAdapter(t) ==
  /\ up /\ pc[t] = "claim"
  /\ AdapterLost(t)
  /\ enabled' = FALSE
  /\ FinishScan(scanOf[t], "error")
  /\ Return(t)
  /\ UNCHANGED <<machineVars, pinned, engineVars, sessionRow, nextSession,
                 scanSession, nextScan, processVars>>

ClaimAdapter(t) ==
  /\ up /\ pc[t] = "claim"
  /\ ~AdapterLost(t)
  /\ adapterInfo' = iface[t]
  /\ Goto(t, "settle")
  /\ UNCHANGED <<machineVars, configVars, sessionId, stopEv, wakeEv, requested,
                 dbVars, processVars, iface, scanOf, back>>

\* The settle wait, with settle_seconds > 0: shutdown cuts it short.
Settle(t) ==
  /\ up /\ pc[t] = "settle"
  /\ \/ /\ stopEv
        /\ FinishScan(scanOf[t], "cancelled")
        /\ Return(t)
     \/ /\ ~stopEv
        /\ Goto(t, "store")
        /\ UNCHANGED <<scanRow, iface, scanOf, back>>
  /\ UNCHANGED <<machineVars, configVars, engineVars, sessionRow, nextSession,
                 scanSession, nextScan, processVars>>

\* Anything raised after the claim: the driver call, a locked database, the
\* foreign key of a scan row that was cleared meanwhile.
ScanFails(t) ==
  /\ up /\ pc[t] \in {"store", "finish"}
  /\ FinishScan(scanOf[t], "error")
  /\ Return(t)
  /\ UNCHANGED <<machineVars, configVars, engineVars, sessionRow, nextSession,
                 scanSession, nextScan, processVars>>

\* read_bss, upsert_bss, insert_observations, whose rows name the scan as their
\* parent.
StoreResults(t) ==
  /\ up /\ pc[t] = "store"
  /\ scanRow[scanOf[t]] # "absent"
  /\ Goto(t, "finish")
  /\ UNCHANGED <<machineVars, configVars, engineVars, dbVars, processVars,
                 iface, scanOf, back>>

\* Faulty: work that may still raise follows the write of the final status.
CompleteScanTooEarly(t) ==
  /\ up /\ pc[t] = "finish"
  /\ FinishScan(scanOf[t], "ok")
  /\ UNCHANGED <<machineVars, configVars, engineVars, sessionRow, nextSession,
                 scanSession, nextScan, processVars, threadVars>>

CompleteScan(t) ==
  /\ up /\ pc[t] = "finish"
  /\ FinishScan(scanOf[t], "ok")
  /\ Return(t)
  /\ UNCHANGED <<machineVars, configVars, engineVars, sessionRow, nextSession,
                 scanSession, nextScan, processVars>>

RunOnce(t) ==
  \/ SelectInterface(t) \/ StartScan(t)
  \/ StopForLostAdapter(t) \/ ClaimAdapter(t) \/ Settle(t)
  \/ ScanFails(t) \/ StoreResults(t) \/ CompleteScan(t)

\* The Single scan button, POST /scan?wait=true, capture_point.
RequestRunOnce(s) ==
  /\ up /\ pc[s] = "idle" /\ ~Closing /\ ScansLeft
  /\ Goto(s, "select")
  /\ UNCHANGED <<machineVars, configVars, engineVars, dbVars, processVars,
                 iface, scanOf, back>>

(***************************************************************************)
(* The loop                                                                *)
(***************************************************************************)

LoopStep(from, to) ==
  /\ up /\ pc[Loop] = from
  /\ Goto(Loop, to)
  /\ UNCHANGED <<machineVars, configVars, adapterInfo, sessionId, stopEv, requested,
                 dbVars, processVars, iface, scanOf, back>>

LoopExits == stopEv /\ LoopStep("top", "exited") /\ UNCHANGED wakeEv

\* Faulty: the loop scans on a wake-up without asking whether it is enabled.
LoopScansRegardless ==
  /\ ~stopEv /\ ScansLeft
  /\ LoopStep("top", "select") /\ UNCHANGED wakeEv

LoopScans ==
  /\ ~stopEv /\ enabled /\ ScansLeft
  /\ LoopStep("top", "select") /\ UNCHANGED wakeEv

LoopIdles == ~stopEv /\ ~enabled /\ LoopStep("top", "rest") /\ UNCHANGED wakeEv

\* _wait clears the wake event before it looks at it.
EnterWait == LoopStep("rest", "wait") /\ wakeEv' = FALSE

WakeUp == wakeEv /\ LoopStep("wait", "top") /\ wakeEv' = FALSE

WaitStopped == stopEv /\ LoopStep("wait", "top") /\ UNCHANGED wakeEv

\* Faulty: the loop waits for the event alone, with no interval.
WaitForEventOnly == FALSE

\* The whole interval, or the whole backoff, goes by.
WaitElapsed == ~stopEv /\ ~wakeEv /\ LoopStep("wait", "top") /\ UNCHANGED wakeEv

\* Something outside run_once raises: _supervise restarts the loop.
LoopRaises == LoopFaults /\ LoopStep("top", "crashed") /\ UNCHANGED wakeEv

Supervise ==
  LoopStep("crashed", IF stopEv THEN "exited" ELSE "top") /\ UNCHANGED wakeEv

LoopRuns ==
  \/ RunOnce(Loop)
  \/ LoopExits \/ LoopScans \/ LoopIdles \/ EnterWait \/ WakeUp \/ WaitStopped \/ WaitElapsed \/ Supervise

(***************************************************************************)
(* begin                                                                   *)
(***************************************************************************)

\* With a guid that is present it is pinned; with "" the pin is cleared; with
\* none it is kept.  A guid that is not present is refused and changes nothing.
Begin(c) ==
  /\ up /\ pc[c] = "idle" /\ ~Closing
  /\ \/ pinned' \in Present
     \/ pinned' = NoGuid
     \/ pinned' = pinned
  /\ Goto(c, "b_select")
  /\ UNCHANGED <<machineVars, enabled, engineVars, dbVars, processVars,
                 iface, scanOf, back>>

BeginSelect(c) ==
  /\ up /\ pc[c] = "b_select"
  /\ \/ /\ Present = {}
        /\ Goto(c, "idle") /\ UNCHANGED iface
     \/ \E g \in Choices :
          IF adapters[g] = "off"
          THEN Goto(c, "idle") /\ UNCHANGED iface
          ELSE Goto(c, "b_enable") /\ iface' = [iface EXCEPT ![c] = g]
  /\ UNCHANGED <<machineVars, configVars, engineVars, dbVars, processVars,
                 scanOf, back>>

BeginEnable(c) ==
  /\ up /\ pc[c] = "b_enable"
  /\ enabled' = TRUE
  /\ Goto(c, "b_adapter")
  /\ UNCHANGED <<machineVars, pinned, engineVars, dbVars, processVars,
                 iface, scanOf, back>>

BeginAdapter(c) ==
  /\ up /\ pc[c] = "b_adapter"
  /\ adapterInfo' = iface[c]
  /\ iface' = [iface EXCEPT ![c] = NoGuid]
  /\ Goto(c, "b_session")
  /\ UNCHANGED <<machineVars, configVars, sessionId, stopEv, wakeEv, requested,
                 dbVars, processVars, scanOf, back>>

\* Faulty: the id is read from the sequence after the insert.
StartSessionOffByOne ==
  /\ sessionRow' = [sessionRow EXCEPT ![nextSession] = "open"]
  /\ sessionId' = nextSession + 1
  /\ nextSession' = nextSession + 1

\* Faulty: the engine goes on with the session it had.
StartSessionUnnoticed ==
  /\ sessionRow' = [sessionRow EXCEPT ![nextSession] = "open"]
  /\ nextSession' = nextSession + 1
  /\ UNCHANGED sessionId

\* Faulty: the first session is opened again instead of a new one.
StartSessionReopens ==
  /\ sessionRow' = [sessionRow EXCEPT ![1] = "open"]
  /\ sessionId' = 1
  /\ nextSession' = nextSession + 1

\* self._session_id = db.start_session(...), whatever it was before
StartSession ==
  /\ sessionRow' = [sessionRow EXCEPT ![nextSession] = "open"]
  /\ sessionId' = nextSession
  /\ nextSession' = nextSession + 1

BeginSession(c) ==
  /\ up /\ pc[c] = "b_session"
  /\ nextSession <= MaxSessions
  /\ StartSession
  /\ Goto(c, "b_wake")
  /\ UNCHANGED <<machineVars, configVars, adapterInfo, stopEv, wakeEv, requested,
                 scanRow, scanSession, nextScan, processVars, iface, scanOf, back>>

ScanNow == wakeEv' = TRUE /\ requested' = TRUE

BeginWake(c) ==
  /\ up /\ pc[c] = "b_wake"
  /\ ScanNow
  /\ Goto(c, "idle")
  /\ UNCHANGED <<machineVars, configVars, adapterInfo, sessionId, stopEv, dbVars,
                 processVars, iface, scanOf, back>>

(***************************************************************************)
(* halt, select, reset, scan_now                                           *)
(***************************************************************************)

Halt(c) ==
  /\ up /\ pc[c] = "idle" /\ ~Closing
  /\ Goto(c, "h_disable")
  /\ UNCHANGED <<machineVars, configVars, engineVars, dbVars, processVars,
                 iface, scanOf, back>>

HaltDisable(c) ==
  /\ up /\ pc[c] = "h_disable"
  /\ enabled' = FALSE
  /\ Goto(c, "h_end")
  /\ UNCHANGED <<machineVars, pinned, engineVars, dbVars, processVars,
                 iface, scanOf, back>>

\* db.end_session: an UPDATE by id, so a cleared row stays absent.
HaltEndSession(c) ==
  /\ up /\ pc[c] = "h_end"
  /\ sessionRow' = [i \in SessionIds |->
                      IF i = sessionId /\ sessionRow[i] # "absent"
                      THEN "closed" ELSE sessionRow[i]]
  /\ Goto(c, "h_clear")
  /\ UNCHANGED <<machineVars, configVars, engineVars, nextSession, scanRow,
                 scanSession, nextScan, processVars, iface, scanOf, back>>

HaltClear(c) ==
  /\ up /\ pc[c] = "h_clear"
  /\ sessionId' = NoId
  /\ wakeEv' = TRUE
  /\ Goto(c, back[c])
  /\ back' = [back EXCEPT ![c] = "idle"]
  /\ UNCHANGED <<machineVars, configVars, adapterInfo, stopEv, requested, dbVars,
                 processVars, iface, scanOf>>

\* adapters_svc.select: a present adapter with its radio on, or "" to unpin.
SelectAdapter(c) ==
  /\ up /\ pc[c] = "idle" /\ ~Closing
  /\ \E g \in {a \in Guids : adapters[a] = "on"} \cup {NoGuid} : pinned' = g
  /\ Goto(c, "selected")
  /\ UNCHANGED <<machineVars, enabled, engineVars, dbVars, processVars,
                 iface, scanOf, back>>

SelectWake(c) ==
  /\ up /\ pc[c] = "selected"
  /\ IF enabled THEN ScanNow ELSE UNCHANGED <<wakeEv, requested>>
  /\ Goto(c, "idle")
  /\ UNCHANGED <<machineVars, configVars, adapterInfo, sessionId, stopEv, dbVars,
                 processVars, iface, scanOf, back>>

\* settings_svc.reset: the defaults, and then what a settings change does.  It
\* stops scanning without halt, so the session stays open.
ResetSettings(c) ==
  /\ up /\ pc[c] = "idle" /\ ~Closing
  /\ enabled' = FALSE /\ pinned' = NoGuid
  /\ Goto(c, "b_wake")
  /\ UNCHANGED <<machineVars, engineVars, dbVars, processVars, iface, scanOf, back>>

\* POST /scan, a settings change, a cooldown reset: only a request.
RequestScan(c) ==
  /\ up /\ pc[c] = "idle" /\ ~Closing
  /\ ScanNow
  /\ UNCHANGED <<machineVars, configVars, adapterInfo, sessionId, stopEv, dbVars,
                 processVars, threadVars>>

\* maintenance.clear_networks: the ids already allocated are not used again.
ClearNetworks(c) ==
  /\ Erasing
  /\ up /\ pc[c] = "idle" /\ ~Closing
  /\ sessionRow' = [i \in SessionIds |-> "absent"]
  /\ scanRow' = [i \in ScanIds |-> "absent"]
  /\ UNCHANGED <<machineVars, configVars, engineVars, nextSession, scanSession,
                 nextScan, processVars, threadVars>>

(***************************************************************************)
(* The process: teardown, exit, crash, launch                              *)
(***************************************************************************)

\* lifecycle.teardown: halts only when scanning is enabled.
Teardown(c) ==
  /\ up /\ pc[c] = "idle" /\ ~Closing
  /\ IF enabled
     THEN Goto(c, "h_disable") /\ back' = [back EXCEPT ![c] = "stop"]
     ELSE Goto(c, "stop") /\ UNCHANGED back
  /\ UNCHANGED <<machineVars, configVars, engineVars, dbVars, processVars,
                 iface, scanOf>>

StopEngine(c) ==
  /\ up /\ pc[c] = "stop"
  /\ stopEv' = TRUE /\ wakeEv' = TRUE
  /\ Goto(c, "join")
  /\ UNCHANGED <<machineVars, configVars, adapterInfo, sessionId, requested, dbVars,
                 processVars, iface, scanOf, back>>

\* Memory is gone; the settings file and the database stay.
ProcessEnds ==
  /\ up' = FALSE
  /\ oldSessions' = {i \in SessionIds : i < nextSession}
  /\ oldScans' = {i \in ScanIds : i < nextScan}
  /\ adapterInfo' = NoGuid /\ sessionId' = NoId
  /\ stopEv' = FALSE /\ wakeEv' = FALSE /\ requested' = FALSE
  /\ pc' = [t \in Threads |-> "idle"]
  /\ iface' = [t \in Threads |-> NoGuid]
  /\ scanOf' = [t \in Threads |-> NoId]
  /\ back' = [t \in Threads |-> "idle"]
  /\ UNCHANGED <<machineVars, configVars, dbVars, runs>>

\* The join is bounded and every worker is a daemon thread, so the process
\* may end while the loop or a single scan is still inside a driver call.
Exit(c) == up /\ pc[c] = "join" /\ ProcessEnds

Crash == up /\ ProcessEnds

\* Faulty: what an earlier lifetime left open stays open.
KeepOrphans == UNCHANGED sessionRow

CloseOrphans ==
  sessionRow' = [i \in SessionIds |->
                   IF sessionRow[i] = "open" THEN "closed" ELSE sessionRow[i]]

\* ui.app.run and server.lifespan, then ScanEngine.start: sessions left open
\* by an earlier lifetime are closed before the loop thread starts.
Launch ==
  /\ ~up /\ runs < MaxRuns
  /\ up' = TRUE /\ runs' = runs + 1
  /\ enabled' = (enabled /\ Autostart)
  /\ CloseOrphans
  /\ pc' = [pc EXCEPT ![Loop] = "top"]
  /\ UNCHANGED <<machineVars, pinned, engineVars, nextSession, scanRow, scanSession,
                 nextScan, oldSessions, oldScans, iface, scanOf, back>>

\* An adapter is plugged in, pulled out, or its radio is switched.
AdapterChanges ==
  /\ \E g \in Guids, s \in AdapterStates :
       /\ adapters[g] # s
       /\ adapters' = [adapters EXCEPT ![g] = s]
  /\ UNCHANGED <<configVars, engineVars, dbVars, processVars, threadVars>>

ControllerStarts(c) ==
  \/ Begin(c) \/ Halt(c) \/ SelectAdapter(c) \/ RequestScan(c)
  \/ ResetSettings(c) \/ ClearNetworks(c) \/ Teardown(c)

ControllerRuns(c) ==
  \/ BeginSelect(c) \/ BeginEnable(c) \/ BeginAdapter(c) \/ BeginSession(c)
  \/ BeginWake(c) \/ SelectWake(c)
  \/ HaltDisable(c) \/ HaltEndSession(c) \/ HaltClear(c)
  \/ StopEngine(c) \/ Exit(c)

Next ==
  \/ LoopRuns \/ LoopRaises
  \/ \E s \in Scanners : RequestRunOnce(s) \/ RunOnce(s)
  \/ \E c \in Controllers : ControllerStarts(c) \/ ControllerRuns(c)
  \/ Crash \/ Launch \/ AdapterChanges

Spec == Init /\ [][Next]_vars

\* Driver calls return (the probe that lists adapters has a timeout), waits
\* elapse, and a thread that was started is scheduled until it is done.
\* Nobody has to press a button, and nothing has to crash.
Fairness ==
  /\ WF_vars(LoopRuns)
  /\ \A s \in Scanners : WF_vars(RunOnce(s))
  /\ \A c \in Controllers : WF_vars(ControllerRuns(c))

FairSpec == Spec /\ Fairness

(***************************************************************************)
(* Properties                                                              *)
(***************************************************************************)

\* While the process is up, no session that an earlier lifetime left open is
\* still open: ScanEngine.start closes them before anything can begin one.
NoOrphanedSession == up => \A i \in oldSessions : sessionRow[i] # "open"

\* A scan row of this lifetime that is not finished is being worked on, and
\* two threads never work on one row: every way out of run_once, early return
\* or exception, goes through finish_scan.
RunningScanHasOwner ==
  /\ \A i \in ScanIds \ oldScans :
       scanRow[i] = "running" =>
         \E t \in Threads : scanOf[t] = i /\ pc[t] \in Recorded
  /\ \A t, u \in Threads : scanOf[t] = scanOf[u] /\ scanOf[t] # NoId => t = u

\* While scanning is enabled, and begin is not between enabling it and opening
\* the session, the session the engine hands to start_scan exists and has not
\* been ended.  It holds with one controller: the window disables its button
\* while an operation runs.
ScanningHasOpenSession ==
  up /\ enabled /\ (\A c \in Controllers : pc[c] \notin {"b_adapter", "b_session"})
    => sessionId # NoId /\ sessionRow[sessionId] = "open"

\* A finished scan keeps its status until it is cleared: run_once finishes a
\* row once, whichever path it leaves by, and no other thread finishes it.
FinishedScanIsFinal ==
  [][\A i \in ScanIds : scanRow[i] \in {"ok", "error", "cancelled"}
       => scanRow'[i] \in {scanRow[i], "absent"}]_vars

\* The session table keeps the promise of SessionLedger, with any number of
\* controllers at once.
Ledger == INSTANCE SessionLedger WITH
            rows <- sessionRow, next <- nextSession, alive <- up
KeepsLedger == Ledger!LedgerSpec

\* After begin or a reset returns, the loop scans unless scanning is stopped again, even
\* if the request was made while the loop could not hear it.
BeginLeadsToScan ==
  \A c \in Controllers :
    pc[c] = "b_wake" ~> (pc[Loop] = "select" \/ ~enabled \/ ~up \/ ~ScansLeft)

\* Once scanning is off for good, so is the loop's use of the radio.
HaltQuietensLoop ==
  <>[](~enabled) => <>[](pc[Loop] \notin Unrecorded \cup Recorded)

\* db.close_orphaned_sessions: "A session is opened when scanning starts and
\* closed when it stops."
SessionClosedWhenStopped ==
  up /\ ~enabled /\ ControllersIdle
    => \A i \in SessionIds : sessionRow[i] # "open"

\* ScanEngine._wait: "Sleep, but wake early on a manual scan request or
\* shutdown."  The loop does not sleep a whole interval on a request.
\* (Refuted: README, section 4.)
RequestCutsWaitShort ==
  [][WaitElapsed => ~(requested /\ enabled /\ ControllersIdle)]_vars

\* api.routes.scan_now: "Run a single scan. Works whether or not continuous
\* scanning is on."  (Refuted: README, section 4.)
QueuedScanRuns == requested ~> (~requested \/ ~up \/ ~ScansLeft)

\* Adapters are interchangeable, and so are the threads of one kind.
Symmetric ==
  Permutations(Guids) \cup Permutations(Controllers) \cup Permutations(Scanners)
=============================================================================
