------------------------------ MODULE Workers ------------------------------
(***************************************************************************)
(* The background workers and what they share.  The modules here share no  *)
(* state, so one behaviour is a behaviour of one of them, chosen at the    *)
(* start, while the others stand still: what holds of this module holds of *)
(* each of them.                                                           *)
(***************************************************************************)
EXTENDS Integers, Sequences

CONSTANTS
  Settings, FirstTree, Savers, Main, Faults,            \* SettingsFile
  Sinks, AlertConfigs, MaxQueue, MaxItems,              \* AlertDispatcher
  Callers, Ports, NoPort, MaxReaders,                   \* GpsReader
  Alerts, DefaultAlerts,                                \* SettingsService
  Askers, Ttl, Pause, Limit, MaxRepairs,                \* AdapterProbe
  Tasks, MaxWorkers, Radios, NoRadio,                   \* Bridge
  Hosts, Lookers, NoHost, Reach,                        \* LanDiscovery
  Ssids, Hotspots, Adapters, NoNet,                     \* Connectivity
  Procs, Nobody, Autostart, MaxSessions, MaxLives       \* Processes

VARIABLES
  focus,
  sfMemory, sfFile, sfTmp, sfPc, sfPayload, sfLife, sfAlone, sfClashed,
  adSettings, adQueue, adStopping, adWorker, adItem, adConf, adAt, adStats,
  adSubmitted, adSevere, adLast,
  ssMemory, ssAlertConf, grStopEv, grPort, grThread, grPlace, grOpened,
  grStarted, grPc, grWant, grWaitsFor, grOutlived,
  apDevices, apCache, apFailures, apPaused, apPc, apSeen, apCount,
  apForgetting, apFloor, apCrossed,
  brJob, brStage, brWaiting, brLive, brEvents, brOpen, brTarget, brShown,
  brSingle, brToggle,
  ldPc, ldAsking, ldJoined, ldResults, ldMerging, ldDevices, ldNamed, ldLabel,
  ldLookups, ldTimeout, ldOriginal, ldShortened, ldChecks, ldAudited, ldAnswer, ldLate,
  ldCrossed,
  ncCall, ncAnswer, ncProfiles, ncKeyFile, ncJoined, ncJoining, ncInternet, ncHotspot,
  ncConfig, ncRole, ncStuck,
  psKind, psStage, psMemory, psSaved, psSession, psOpen, psSessions, psPort, psEngine,
  psArmed, psLives, psAsked, psOvertaken, psLost

fileVars ==
  <<sfMemory, sfFile, sfTmp, sfPc, sfPayload, sfLife, sfAlone, sfClashed>>
alertVars ==
  <<adSettings, adQueue, adStopping, adWorker, adItem, adConf, adAt, adStats,
    adSubmitted, adSevere, adLast>>
serviceVars ==
  <<ssMemory, ssAlertConf, grStopEv, grPort, grThread, grPlace, grOpened,
    grStarted, grPc, grWant, grWaitsFor, grOutlived>>
probeVars ==
  <<apDevices, apCache, apFailures, apPaused, apPc, apSeen, apCount,
    apForgetting, apFloor, apCrossed>>
windowVars ==
  <<brJob, brStage, brWaiting, brLive, brEvents, brOpen, brTarget, brShown,
    brSingle, brToggle>>
lanVars ==
  <<ldPc, ldAsking, ldJoined, ldResults, ldMerging, ldDevices, ldNamed, ldLabel,
    ldLookups, ldTimeout, ldOriginal, ldShortened, ldChecks, ldAudited, ldAnswer, ldLate,
    ldCrossed>>
netVars ==
  <<ncCall, ncAnswer, ncProfiles, ncKeyFile, ncJoined, ncJoining, ncInternet, ncHotspot,
    ncConfig, ncRole, ncStuck>>
processVars ==
  <<psKind, psStage, psMemory, psSaved, psSession, psOpen, psSessions, psPort, psEngine,
    psArmed, psLives, psAsked, psOvertaken, psLost>>

File == INSTANCE SettingsFile WITH
  Threads <- Savers, Defaults <- FirstTree,
  memory <- sfMemory, file <- sfFile, tmp <- sfTmp, pc <- sfPc,
  payload <- sfPayload, life <- sfLife, alone <- sfAlone, clashed <- sfClashed

Dispatch == INSTANCE AlertDispatcher WITH
  Configs <- AlertConfigs,
  settings <- adSettings, queue <- adQueue, stopping <- adStopping,
  worker <- adWorker, item <- adItem, conf <- adConf, at <- adAt, stats <- adStats,
  submitted <- adSubmitted, severe <- adSevere, last <- adLast

Service == INSTANCE SettingsService WITH
  memory <- ssMemory, alertConf <- ssAlertConf,
  stopEv <- grStopEv, port <- grPort, thread <- grThread, place <- grPlace,
  opened <- grOpened, started <- grStarted, pc <- grPc, want <- grWant,
  waitsFor <- grWaitsFor, outlived <- grOutlived

Prober == INSTANCE AdapterProbe WITH
  devices <- apDevices, cache <- apCache, failures <- apFailures,
  paused <- apPaused, pc <- apPc, seen <- apSeen, count <- apCount,
  forgetting <- apForgetting, floor <- apFloor, crossed <- apCrossed

Window == INSTANCE Bridge WITH
  job <- brJob, stage <- brStage, waiting <- brWaiting, live <- brLive,
  events <- brEvents, open <- brOpen, target <- brTarget, shown <- brShown,
  single <- brSingle, toggle <- brToggle

Lan == INSTANCE LanDiscovery WITH
  Workers <- Lookers,
  pc <- ldPc, asking <- ldAsking, joined <- ldJoined, results <- ldResults,
  merging <- ldMerging, devices <- ldDevices, named <- ldNamed, label <- ldLabel,
  lookups <- ldLookups, timeout <- ldTimeout, original <- ldOriginal,
  shortened <- ldShortened, checks <- ldChecks, audited <- ldAudited,
  answer <- ldAnswer, late <- ldLate, crossed <- ldCrossed

Net == INSTANCE Connectivity WITH
  Configs <- Hotspots, None <- NoNet,
  call <- ncCall, answer <- ncAnswer, profiles <- ncProfiles, keyFile <- ncKeyFile,
  joined <- ncJoined, joining <- ncJoining, internet <- ncInternet,
  hotspot <- ncHotspot, config <- ncConfig, role <- ncRole, stuck <- ncStuck

Machine == INSTANCE Processes WITH
  kind <- psKind, stage <- psStage, memory <- psMemory, saved <- psSaved,
  session <- psSession, open <- psOpen, sessions <- psSessions, port <- psPort,
  engine <- psEngine, armed <- psArmed, lives <- psLives,
  asked <- psAsked, overtaken <- psOvertaken, lost <- psLost

ASSUME PartsAreWellFormed ==
  /\ File!SettingsConstantsOK /\ Dispatch!DispatcherConstantsOK
  /\ Service!GpsConstantsOK /\ Service!ServiceConstantsOK
  /\ Prober!ProbeConstantsOK /\ Window!BridgeConstantsOK
  /\ Lan!LanConstantsOK /\ Net!ConnectivityConstantsOK
  /\ Machine!ProcessConstantsOK

Init ==
  /\ focus \in {"file", "alerts", "service", "probe", "window", "lan", "join", "spot",
               "processes"}
  /\ File!Init /\ Dispatch!Init /\ Service!Init /\ Prober!Init /\ Window!Init
  /\ Lan!Init /\ Net!Init /\ Machine!Init

Next ==
  /\ UNCHANGED focus
  /\ \/ focus = "file" /\ File!Next
           /\ UNCHANGED <<alertVars, serviceVars, probeVars, windowVars, lanVars, netVars,
                          processVars>>
     \/ focus = "alerts" /\ Dispatch!Next
           /\ UNCHANGED <<fileVars, serviceVars, probeVars, windowVars, lanVars, netVars,
                          processVars>>
     \/ focus = "service" /\ Service!Next
           /\ UNCHANGED <<fileVars, alertVars, probeVars, windowVars, lanVars, netVars,
                          processVars>>
     \/ focus = "probe" /\ Prober!Next
           /\ UNCHANGED <<fileVars, alertVars, serviceVars, windowVars, lanVars, netVars,
                          processVars>>
     \/ focus = "window" /\ Window!Next
           /\ UNCHANGED <<fileVars, alertVars, serviceVars, probeVars, lanVars, netVars,
                          processVars>>
     \/ focus = "lan" /\ Lan!Next
           /\ UNCHANGED <<fileVars, alertVars, serviceVars, probeVars, windowVars, netVars,
                          processVars>>
     \/ focus = "join" /\ Net!JoinNext
           /\ UNCHANGED <<fileVars, alertVars, serviceVars, probeVars, windowVars, lanVars,
                          processVars>>
     \/ focus = "spot" /\ Net!SpotNext
           /\ UNCHANGED <<fileVars, alertVars, serviceVars, probeVars, windowVars, lanVars,
                          processVars>>
     \/ focus = "processes" /\ Machine!Next
           /\ UNCHANGED <<fileVars, alertVars, serviceVars, probeVars, windowVars,
                          lanVars, netVars>>

vars ==
  <<focus, fileVars, alertVars, serviceVars, probeVars, windowVars, lanVars, netVars,
    processVars>>

\* The fairness each module states, for the part that moves.
Fairness ==
  /\ WF_alertVars(focus = "alerts" /\ Dispatch!Work)
  /\ WF_alertVars(focus = "alerts" /\ Dispatch!Start)
  /\ \A c \in Callers : WF_serviceVars(focus = "service" /\ Service!Push(c))
  /\ \A r \in 1..MaxReaders : WF_serviceVars(focus = "service" /\ Service!Read(r))
  /\ \A a \in Askers :
       /\ WF_probeVars(focus = "probe" /\ Prober!AskAgain(a))
       /\ WF_probeVars(focus = "probe" /\ Prober!Probe(a))
  /\ WF_probeVars(focus = "probe" /\ Prober!ForgetAdapters)
  /\ WF_probeVars(focus = "probe" /\ Prober!Tick)
  /\ WF_windowVars(focus = "window" /\ Window!Deliver)
  /\ WF_windowVars(focus = "window" /\ Window!TakeTask)
  /\ \A t \in Tasks : WF_windowVars(focus = "window" /\ Window!Answer(t))
  /\ WF_lanVars(focus = "lan" /\ Lan!Caller)
  /\ \A p \in Procs :
       /\ WF_processVars(focus = "processes" /\ Machine!TeardownStep(p))
       /\ WF_processVars(focus = "processes" /\ Machine!Exit(p))
       /\ WF_processVars(focus = "processes" /\ Machine!ForceExit(p))

Spec == Init /\ [][Next]_vars /\ Fairness

\* The part that moves; the others are as Init has them.
TypeOK ==
  CASE focus = "file" -> File!TypeOK
    [] focus = "alerts" -> Dispatch!TypeOK
    [] focus = "service" -> Service!TypeOK
    [] focus = "probe" -> Prober!TypeOK
    [] focus = "window" -> Window!TypeOK
    [] focus = "lan" -> Lan!TypeOK
    [] focus \in {"join", "spot"} -> Net!TypeOK
    [] focus = "processes" -> Machine!TypeOK

(***************************************************************************)
(* The properties of the parts, under the names they have there            *)
(***************************************************************************)

\* SettingsFile
SavesAreSound == File!SavesAreSound

\* AlertDispatcher.
OrderKept    == Dispatch!OrderKept
Accounted    == Dispatch!Accounted

\* SettingsService
OneReader     == Service!OneReader
PushTakesHold == Service!PushTakesEffect

\* Bridge
HeldUntilDelivered == Window!HeldUntilDelivered

\* Processes: whose sessions are open, and which engines scan.
SessionsAreKept ==
  /\ Machine!LiveSessionIsOpen /\ Machine!CleanExitClosesSession
  /\ Machine!ScansOnlyWhenAsked

\* AdapterProbe, LanDiscovery, Connectivity: what an answer says is so, also after a
\* repair, and what was needed on the way to it is put back.
AnswersAreTrue ==
  /\ Prober!ServedIsRepaired
  /\ Lan!AnswerIsWhole /\ Lan!TimeoutIsRestored
  /\ Net!OkIsTrue /\ Net!KeyIsGone
=============================================================================
