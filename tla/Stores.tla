------------------------------- MODULE Stores -------------------------------
(***************************************************************************)
(* What outlives a scan: the networks and the survey in the database, its  *)
(* schema, the adapters under repair, the executable under update, and     *)
(* what an install puts on a machine.  The modules share no state, so one  *)
(* behaviour is a behaviour of one of them, chosen at the start, while the *)
(* others stand still: what holds of this module holds of each of them.    *)
(***************************************************************************)
EXTENDS Integers, Sequences

CONSTANTS
  Threads,                                           \* of the window, the API and the engine
  Radios, Hosts, MaxSites, MaxPoints, MaxRows,       \* SurveyStore
  Heard, Adapters, Bands, Levels, MaxScans, MaxTime, \* NetworkStore
  Devices, ChipOf, Wireless, MaxRuns,                \* Recovery
  Callers, MaxRelease, MaxCrashes,                   \* ReleaseUpdate
  Layouts, Wishes, MaxSetup, MaxFaults,              \* Installation
  Procs, Columns, Since, MaxBuild, MaxStarts         \* SchemaUpgrade

VARIABLES
  focus,
  svSites, svSiteSeq, svPoints, svReadings, svPointSeq, svSnapshots, svSnapSeq,
  svInventory, svDevices, svActive, svPc, svJob, svAstray,
  nwNow, nwScans, nwScanSeq, nwBss, nwObs, nwPc, nwScan, nwTs, nwBatch, nwHeard,
  nwAstray,
  rcCode, rcService, rcAdmin, rcStep, rcTodo, rcHalf, rcChanged, rcBaseline,
  rcPower, rcAsked, rcCaller, rcOutlived, rcOff, rcStuck,
  ruRelease, ruFiles, ruStaged, ruImage, ruRuns, ruApplying, ruPc, ruInfo,
  ruAside, ruCrashes,
  inLayout, inFiles, inOwn, inLinks, inEntry, inStartup, inData, inApp, inPc, inJob,
  inDoomed, inFaults, inCuts, inOwed, inRough, inGone,
  scStamp, scColumns, scCreator, scPc, scBuild, scLack, scStarts, scOrphan

surveyVars ==
  <<svSites, svSiteSeq, svPoints, svReadings, svPointSeq, svSnapshots, svSnapSeq,
    svInventory, svDevices, svActive, svPc, svJob, svAstray>>
networkVars ==
  <<nwNow, nwScans, nwScanSeq, nwBss, nwObs, nwPc, nwScan, nwTs, nwBatch, nwHeard,
    nwAstray>>
repairVars ==
  <<rcCode, rcService, rcAdmin, rcStep, rcTodo, rcHalf, rcChanged, rcBaseline,
    rcPower, rcAsked, rcCaller, rcOutlived, rcOff, rcStuck>>
releaseVars ==
  <<ruRelease, ruFiles, ruStaged, ruImage, ruRuns, ruApplying, ruPc, ruInfo,
    ruAside, ruCrashes>>
setupVars ==
  <<inLayout, inFiles, inOwn, inLinks, inEntry, inStartup, inData, inApp, inPc, inJob,
    inDoomed, inFaults, inCuts, inOwed, inRough, inGone>>
schemaVars ==
  <<scStamp, scColumns, scCreator, scPc, scBuild, scLack, scStarts, scOrphan>>
restVars == <<setupVars, schemaVars>>

Survey == INSTANCE SurveyStore WITH
  sites <- svSites, siteSeq <- svSiteSeq, points <- svPoints,
  readings <- svReadings, pointSeq <- svPointSeq, snapshots <- svSnapshots,
  snapSeq <- svSnapSeq, inventory <- svInventory, devices <- svDevices,
  active <- svActive, pc <- svPc, job <- svJob, astray <- svAstray

Network == INSTANCE NetworkStore WITH
  Scanners <- Threads, Radios <- Heard,
  now <- nwNow, scans <- nwScans, scanSeq <- nwScanSeq, bss <- nwBss, obs <- nwObs,
  pc <- nwPc, scan <- nwScan, ts <- nwTs, batch <- nwBatch, heard <- nwHeard,
  astray <- nwAstray

Repair == INSTANCE Recovery WITH
  code <- rcCode, service <- rcService, admin <- rcAdmin, step <- rcStep,
  todo <- rcTodo, half <- rcHalf, changed <- rcChanged, baseline <- rcBaseline,
  power <- rcPower, asked <- rcAsked, caller <- rcCaller,
  outlived <- rcOutlived, off <- rcOff, stuck <- rcStuck

Release == INSTANCE ReleaseUpdate WITH
  MaxVersion <- MaxRelease,
  release <- ruRelease, files <- ruFiles, staged <- ruStaged, image <- ruImage,
  runs <- ruRuns, applying <- ruApplying, pc <- ruPc, info <- ruInfo,
  aside <- ruAside, crashes <- ruCrashes

Setup == INSTANCE Installation WITH
  MaxVersion <- MaxSetup,
  layout <- inLayout, files <- inFiles, own <- inOwn, links <- inLinks,
  entry <- inEntry, startup <- inStartup, data <- inData, app <- inApp, pc <- inPc,
  job <- inJob, doomed <- inDoomed, faults <- inFaults, cuts <- inCuts, owed <- inOwed,
  rough <- inRough, gone <- inGone

Schema == INSTANCE SchemaUpgrade WITH
  MaxVersion <- MaxBuild,
  stamp <- scStamp, columns <- scColumns, creator <- scCreator, pc <- scPc,
  build <- scBuild, lack <- scLack, starts <- scStarts, orphan <- scOrphan

ASSUME PartsAreWellFormed ==
  /\ Survey!StoreConstantsOK /\ Network!NetworkConstantsOK
  /\ Repair!RecoveryConstantsOK /\ Release!ReleaseConstantsOK
  /\ Setup!InstallConstantsOK /\ Schema!SchemaConstantsOK

\* While the repair stands still, its adapter works; an install that does has one layout.
Init ==
  /\ focus \in {"survey", "network", "repair", "release", "setup", "schema"}
  /\ Survey!Init /\ Network!Init /\ Repair!Init /\ Release!Init /\ Setup!Init
  /\ Schema!Init
  /\ focus # "repair" =>
       /\ ~rcAdmin /\ rcService = "running"
       /\ \A d \in DOMAIN rcCode : rcCode[d] = "working"
  /\ focus # "setup" => inLayout = CHOOSE l \in Layouts : TRUE

Next ==
  /\ UNCHANGED focus
  /\ \/ focus = "survey" /\ Survey!Next
        /\ UNCHANGED <<networkVars, repairVars, releaseVars, restVars>>
     \/ focus = "network" /\ Network!Next
        /\ UNCHANGED <<surveyVars, repairVars, releaseVars, restVars>>
     \/ focus = "repair" /\ Repair!Next
        /\ UNCHANGED <<surveyVars, networkVars, releaseVars, restVars>>
     \/ focus = "release" /\ Release!Next
        /\ UNCHANGED <<surveyVars, networkVars, repairVars, restVars>>
     \/ focus = "setup" /\ Setup!Next
        /\ UNCHANGED <<surveyVars, networkVars, repairVars, releaseVars, schemaVars>>
     \/ focus = "schema" /\ Schema!Next
        /\ UNCHANGED <<surveyVars, networkVars, repairVars, releaseVars, setupVars>>

vars == <<focus, surveyVars, networkVars, repairVars, releaseVars, restVars>>
Spec == Init /\ [][Next]_vars

\* The part that moves; the others are as Init has them.
TypeOK ==
  CASE focus = "survey" -> Survey!TypeOK
    [] focus = "network" -> Network!TypeOK
    [] focus = "repair" -> Repair!TypeOK
    [] focus = "release" -> Release!TypeOK
    [] focus = "setup" -> Setup!TypeOK
    [] focus = "schema" -> Schema!TypeOK

(***************************************************************************)
(* The properties of the parts, under the names they have there            *)
(***************************************************************************)

\* SurveyStore
PointsAreWhole == Survey!PointsAreWhole
NewSiteIsEmpty == Survey!NewSiteIsEmpty

\* NetworkStore
HistoryIsCovered == Network!HistoryIsCovered

\* ReleaseUpdate, Installation
NeverWithoutImage == Release!NeverWithoutImage /\ Setup!NeverWithoutImage

\* ReleaseUpdate, Recovery: what is put in place is what was published, and what is
\* changed what was announced.
OnlyAsAnnounced == Release!NothingBadInstalled /\ Repair!StepsAreAnnounced

\* Recovery, Installation, SchemaUpgrade: what was asked for is done in full, and what
\* was taken away on the way there is given back, unless that was tried and failed.
NothingLeftUndone ==
  Repair!DisabledOnlyMidway /\ Setup!UninstalledIsGone /\ Schema!UpgradeIsWhole
=============================================================================
