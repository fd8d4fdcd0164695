# A verification of wifirecon

wifirecon is a Windows desktop program (with an optional local web interface)
that surveys Wi-Fi networks: it asks the driver to scan, stores what it hears in
SQLite, runs detection rules over each scan and reports findings. Around that it
repairs adapters, audits the joined network, surveys sites, installs and updates
itself. This directory holds TLA+ models of it, the TLC configurations that check
them and the TLAPS proofs about them. Paths below are relative to the repository.

    cd tla
    tlc -workers 2 -config ScanEngineScans.cfg ScanEngine
    tlapm ScanEngineProofs.tla

## 1. The system

| Component | Source | State | Operations | What makes it correct |
|---|---|---|---|---|
| Scan engine | `app/scanner.py` | loop thread, wake and stop events, session id, adapter in use | `start`, `stop`, `begin`, `halt`, `scan_now`, `run_once`, `_loop`, `_wait`, `_supervise`, watchdog | every scan row is finished once; enabled scanning has an open session; a request is heard; it stops when told |
| Database | `app/db.py` | SQLite tables, one write lock, schema version | schema upgrade, sessions, scans, observations, alerts, suppressions, marks, sites, devices, snapshots, retention, listings | ids and foreign keys stay meaningful under clearing, wiping, pruning and crashes |
| Detections | `app/detections.py` | table suppressions | 26 rules over one scan, marks, floor, cooldowns, cap | a finding is reported once per cooldown, and none is lost |
| Findings | `app/services/findings.py` | table alerts | acknowledge, reopen, clear, reset cooldowns | deleting lets a live condition come up again |
| Alert dispatcher | `app/alerts.py` | bounded queue, worker thread, counters | `configure`, `submit`, `_run`, `_deliver`, `stop` | a slow sink never stalls a scan; what is dropped is counted |
| Settings | `app/config.py`, `app/services/settings_svc.py` | tree in memory, JSON file | `set`, `update`, `reset`, `save`, `load`, pushing to workers | memory and file agree |
| Adapter probe | `app/adapter_probe.py` | cache, failure count, pause | `probe`, `invalidate`, child process | a fault in a driver call does not take the program down; no stale list after a repair |
| Adapters, driver | `app/adapters.py`, `app/wlanapi.py`, `app/usbwifi.py` | a cache of netsh's answers | enumerate, describe, score, native calls | each adapter is described as itself; the best one can be used |
| Recovery | `app/recovery.py`, `app/services/adapters_svc.py` | devices, services | diagnose, a sequence of repair steps, elevated helper | what is changed was announced; nothing is left disabled that a step could enable again |
| GPS | `app/gps.py` | reader thread, last fix | `start`, `stop`, `_run`, `parse_nmea` | one thread reads the port; no damaged sentence moves the position |
| Updates | `app/updater.py`, `app/selfupdate.py`, `app/runtime.py` | files on disk, backups | check, verify, apply, back up, restore, restart | an interrupted update leaves a program that runs |
| Life cycle | `app/services/lifecycle.py`, `app/ui/app.py`, `app/server.py`, `app/main.py` | process, shared settings file, port | bootstrap, teardown, forced exit, restart | it ends when told, closes the session it scans in, and scans only when told |
| Survey | `app/survey.py`, `app/services/survey_svc.py` | sites, points, snapshots | capture, grade, channel plan, compare | points belong to a site that exists; the reports agree with the data |
| Devices, network audit | `app/devices.py`, `app/netaudit.py`, `app/hotspot.py`, `app/services/devices_svc.py` | table lan_devices, thread pools, profiles | discover, audit, join, hotspot, sharing | an answer is whole, a joined network is joined |
| Parsing | `app/ie_parser.py`, `app/oui.py`, `app/services/decode.py` | vendor table | information elements, vendor lookup | total on any input, and never wrong about what was heard whole |
| Reports | `app/exporters.py`, `app/reporting.py`, `app/services/networks.py`, `app/services/spectrum.py` | none | read-only | what a list says is true of its rows |
| Desktop UI | `app/ui/` | pages, worker pool, bridge | views, `Pool`, `ScanBridge` | results are delivered on the UI thread, and a page shows what is on record |
| Web API and UI | `app/api/routes.py`, `app/static/` | none of its own | one handler per operation | handlers run services in worker threads, so services run concurrently |
| Doctor | `app/doctor.py` | none | 15 checks, one verdict | a healthy verdict can be relied on |
| Installer | `app/installer.py` | install folder, shortcuts, registry, task | install, start at logon, uninstall | there is always an executable that works; an uninstall removes everything |
| Tools | `tools/` | none | test script, mock source | outside the running program |

How they meet. The loop thread, the UI's pool threads and the API's worker
threads all call the *same* engine object and the same module-level functions.
`db.transaction` serialises single transactions; `engine._lock` guards single
assignments; nothing holds a lock across an operation. The settings tree
(`scan.enabled`, `scan.interface_guid`) is shared state between the UI, the
services and the loop, and its file and the database are shared by every process
of the program that happens to run. Findings go from a scan to the database, and
from there, by a queue, to the dispatcher thread. Hard behaviours, therefore:
operations that overlap half way, stale reads between two steps, a process that
dies between two transactions, events lost or cleared too early, retries and
pauses, threads that outlive the join that waited for them, caches that outlive
what they describe, helpers that are killed half way. `PROJECT.json` lists each
at its line, with the properties that would notice it going wrong.

## 2. What is modelled

Operations are cut where another thread, a death or a failure may come between: a
step for every access to shared state. State the code keeps is a VARIABLE under
the source's name where that is possible; history variables, read by properties
only, are marked as such in the modules.

| Subject | Modules | Checked in |
|---|---|---|
| scanning | `ScanEngine`, `SessionLedger` | `ScanEngine` |
| findings | `FindingPipeline` | `MCFindingPipeline`, `MCFindingOverlap` |
| updates from a package | `PackageUpdate` | `PackageUpdate` |
| workers, processes | `SettingsFile`, `SettingsService`, `GpsReader`, `AlertDispatcher`, `AdapterProbe`, `Bridge`, `LanDiscovery`, `Connectivity`, `Processes`, composed in `Workers` | `MCWorkers` |
| what is stored | `SchemaUpgrade`, `NetworkStore`, `SurveyStore`, `Recovery`, `ReleaseUpdate`, `Installation`, composed in `Stores` | `MCStores` |
| what is made of it | `DetectionRules`, `SurveyReport`, `AdapterPicture`, `Listings`, `Screens`, `ReleaseChoice`, `Doctor`, composed in `Analysis` | `MCAnalysis` |
| the readers | `IeParser`, `TextDistance`, `VendorTable`, `NmeaSentence` | `MCAnalysis` |

The last four groups hold modules that share no state. `Workers`, `Stores` and
`Analysis` instantiate each of theirs with variables of its own and a variable
`focus`, chosen by `Init`; they keep the constants of their parts as parameters, under
names of their own where two parts use one name (`Savers` are the threads of
`SettingsFile`, `Heard` the radios of `NetworkStore`), so that the proofs are about
any values, and `MCWorkers`, `MCStores` and `MCAnalysis` extend them with those for
TLC. `Analysis` has the rules twice, for radios that share the air (`Air`) and for one
that may fall silent (`Quiet`), since each wants settings of its own. `MCAnalysis`
adds three subjects that are readers, compared with a reference on inputs that grow:
pairs of names, beacons, vendor files. A behaviour is a behaviour of one module while
the others stand still in an initial state. Nothing is lost by that, since steps of
modules without common state commute, and every property mentions one module's
variables only (a conjunction of several stays false as long as one of them is). It
keeps the state space a sum instead of a product. Where a module's fairness is used it
is stated for the moving part, `WF(focus = "probe" /\ ...)`, which for that focus is
the module's own.

### ScanEngine, SessionLedger

`ScanEngine.tla` is the engine, step by step, with the threads that use it:

* the thread `Loop` (`_supervise`, `_loop`, `_wait`, `run_once`);
* each of `Scanners`, a thread that calls `run_once` on its own (Single scan,
  `POST /scan?wait=true`, a survey point);
* each of `Controllers`, a thread that runs one operation after another: `begin`,
  `halt`, selecting an adapter, a scan request, a settings reset, clearing the
  history, and teardown.

`enabled` and `pinned` are the two settings, persisted; `sessionId`,
`adapterInfo`, `stopEv`, `wakeEv` are fields of the engine, lost with the process;
`sessionRow`, `scanRow`, `scanSession` and the two sequences are the tables. `pc`,
`iface`, `scanOf`, `back` are the threads' program counters and local variables.
`requested`, `oldSessions`, `oldScans` are history.

`run_once` is `SelectInterface` (choose), `StartScan` (open the row),
`ClaimAdapter` or `StopForLostAdapter`, `Settle` (which shutdown cancels),
`StoreResults`, `CompleteScan`, with `ScanFails` for an exception from the claim
on. `begin` is five steps, in the order of the code: choose, enable, store the
adapter, open the session, wake the loop. `halt` is three: disable, end the
session, clear the id and wake. `Teardown` is `halt` when scanning is enabled and
then `stop`, whose bounded join is why `Exit` needs nothing of the loop. `Crash`
may happen anywhere; `Launch` closes the sessions left open and resumes scanning
only if autostart says so.

Which adapter is best among those present depends on radios and drivers, so any
may be; `AdapterChanges` is the machine. Left out, because nothing below depends
on it: the phase, the activity feed, counters, lengths of waits, and what a scan
stores apart from its row (`NetworkStore`). `pinned` is written in one step with
the check that the adapter is present. Settings and database writes are assumed to
succeed outside the `try` block of `run_once`. `Autostart` is fixed during a
behaviour.

`SessionLedger.tla` is the abstract specification of the sessions table: opened
once under a fresh id, once ended stays ended, and a launch ends what a death left
open. `KeepsLedger` says that `ScanEngine` implements it, by the mapping
`rows <- sessionRow, next <- nextSession, alive <- up`.

### FindingPipeline

`FindingPipeline.tla` follows a condition to the findings page. Each of `Scans`
is a thread: `Collect` (rules, marks, mutes, floor, one finding per key), `Check`
(`suppressed_keys`, and the cap), `Suppress` (`suppress_many`), `Insert`
(`insert_alerts`); the last two are separate transactions. `until` is table
suppressions, in cycles left; `alerts` is table alerts, of which it keeps, per
finding, whether open rows and acknowledged rows exist. A person acknowledges,
reopens, deletes, resets cooldowns, clears; `Prune` is retention. `holds` is what
the rules would report (`DetectionRules` says what that is). `KeyOf` is
`suppression_key`, `RowKey` the key `delete_alerts` rebuilds from the columns of a
row: for a finding with a scope, or with only an SSID, the two differ. `quiet` is
history: the cooldown each key was promised. Left out: the truncation notice,
which has no cooldown and no state.

### PackageUpdate

`PackageUpdate.tla` is `selfupdate.py`: the install as the content of its managed
items, the backups directory, and threads that update, back up or roll back by
hand. An item is absent, a version, or half copied. Each item backed up, removed
or copied is a step, in the order of `MANAGED_PATHS`, and each may fail
(`Faults`): a failed `rmtree` or `copytree` leaves part of a directory. An update
is `StartUpdate`, `BackUpItem` per item, `FinishBackup` (the manifest; all or
nothing; prune to `Keep`), `Extract`, then `RemoveItem` and `CopyItem` or
`SkipItem` per item, and `FinishUpdate`; any exception is `RollBack` into the steps
of `restore`: `KeepItem`, `ClearItem`, `PutItemBack`, `FinishRestore`. `Crash` may
fall between any two, which includes the restart the code schedules itself, and
`Launch` needs the required items whole. A backup's name is its second and its
label, so names are numbers that sort as the names do. `was`, `broken` and `base`
are history: what was installed when an operation began, whether an update has
been cut short, and the backup that undoes it.

Assumed: deleting a backup succeeds, and the clock does not go back. Left out:
validation of the package, the download, `pip`, old bytecode, all of which leave
the managed items alone. `OncePerSecond` and a single thread are the case the
properties are about; the module allows both to be dropped.

### Workers and processes

* `SettingsFile`: `config.py`. A change under the lock, then the save outside it:
  text taken, `config.json.tmp` opened (which empties it), written, renamed.
  Every thread uses the one temporary name, every operation may fail, the process
  may die anywhere, and a launch loads what it finds. `alone` and `clashed` record
  overlaps.
* `SettingsService` over `GpsReader`: the push of a changed tree into the workers.
  `start` is stop, a bounded join, store the port, clear the event, spawn; a
  reader may outlive the join (`outlived`), and then clearing the event revives it.
* `AlertDispatcher`: `submit` never waits, the worker takes one finding at a time
  and tries the sinks in order under the settings of that moment, which a person
  may change to values that make a delivery raise; `stop` sets the event and adds
  a sentinel if there is room.
* `AdapterProbe`: threads that ask at once, children that fail, the pause after
  `Limit` failures, and a repair that makes `invalidate` necessary. `floor` and
  `crossed` record which list is new enough and whether a probe straddled it.
* `Bridge`: the pool (`TakeTask`, `Answer`), answers posted to the UI thread and
  delivered there, the reference dropped a turn later; its users are the drawer,
  the Single scan button and the Start button, and the window may close.
* `LanDiscovery`: `discover` and `audit`. Sources and pools of threads are joined
  for a while and then left behind, with what they share: the results, the
  timeout of all sockets, the list being sorted.
* `Connectivity`: joining a network (the profile and its key on disk, the request,
  the polling, giving up), hotspot and sharing. A helper works in steps, each of
  which may fail, and is killed when it takes too long; what it asked Windows for
  may still happen.
* `Processes`: window, server, command line tool and helper, as they start,
  restart and end, sharing settings file, database and port; teardown step by
  step, any of which may hang or raise, with the watchdog where the code starts one.
  Scanning may be switched off without its session (`SwitchOff`: a lost adapter), and
  teardown halts only what is on. `lost` is history: the sessions nobody is going to
  close. The engine is one step here and is in detail in `ScanEngine`.

### What is stored

* `SchemaUpgrade`: `init` and `_migrate`, statement by statement in autocommit,
  by processes of any build at the same time, killed anywhere.
* `NetworkStore`: a scan as its four transactions, overlapping scans, clearing,
  wiping, pruning, deaths. `SurveyStore`: sites and what is filed under them,
  operations that read, wait for a scan and write, clients that overlap, the
  active site as a setting outside the database. `astray` marks a wipe that came
  between the steps of an operation.
* `Recovery`: the eight steps in order, over devices with Windows' problem codes,
  in the application or in the elevated helper behind a prompt that may be
  declined, die, or outlive its caller; the diagnosis that announces them. What
  becomes of the list of adapters afterwards is in `AdapterProbe`.
* `ReleaseUpdate`: check, download, verify, move the executable aside, copy, undo,
  restart, sweep, under Windows' rule that a running image can be renamed but
  neither written nor deleted.
* `Installation`: install (stop other copies, move aside, copy, shortcuts,
  registry, start at logon by task or Run key), update in place, uninstall with
  the deletion left to a delayed command, in the one-file and the folder layout,
  with failures and deaths at any step.

### What is made of it

Pure code is operators, evaluated on states that enumerate its inputs.

* `IeParser`: the information elements, security posture, channel, width and the
  fingerprint, on byte sequences cut off anywhere. `TextDistance`: the bounded
  edit distance and the skeleton of a name, against a reference definition.
* `DetectionRules`: every rule of `detections.py` over the records of a scan, the
  stored rows, past observations and marks; time is counted in
  intervals (`max(interval, 5)` seconds, as the rule has it): a scan on time ends one
  to three of them after the last (`Paces`), and others come late or fail.
* `SurveyReport`: interference, channel plan, coverage, comparison with a
  snapshot. `AdapterPicture`: netsh's blocks parsed, matched to adapters and
  cached; bands, phys and the score of the best adapter.
* `Listings` and `Screens`: the queries behind the lists, and five pages that load
  in the pool, filter, act and are told of scans. A mark may be added on its page, or
  aside, from Live's menu or the drawer (`MarkAside`), which loads no page again.
* `VendorTable`, `ReleaseChoice`, `NmeaSentence`, `Doctor`: vendor files, the order
  of versions and the choice of the file to download, GPS sentences, the
  diagnostics and their verdict.

## 3. What the runs check

`CHECK_DEADLOCK FALSE` where the system may stop for good: a process that ended
for the last time the bounds allow, a behaviour of a subject that has been
enumerated to its end.

| Run | Instance | What it shows |
|---|---|---|
| `ScanEngineScans` | 2 adapters, 1 controller, 1 single-scan thread, 2 scans, 1 session, a raising loop | `RunningScanHasOwner`: an unfinished row belongs to one thread inside `run_once`. `FinishedScanIsFinal`: no second status. `ScanningHasOpenSession` while an adapter vanishes |
| `ScanEngineRestart` | 2 controllers, 2 sessions, 2 process lifetimes, autostart, crashes, clearing | `NoOrphanedSession` and `KeepsLedger` with operations that overlap, and over a restart |
| `ScanEngineLive` | 1 controller, 2 sessions, fair | `BeginLeadsToScan`, `HaltQuietensLoop`, with sessions a reset loses and `begin` replaces |
| `FindingCooldown` | 3 findings, cap 1, cooldown 2, faults, a person | `NoRepeat`: not again within the cooldown |
| `FindingOverlap` | 2 findings, 2 overlapping scans, a person; and unattended, 3 findings, cap 1, cooldown 2 and 3 | `QuietIsRecorded`: nothing is kept quiet that is not on the page. `PersistentIsReportedUnattended`: a condition that persists is reported again and again if its rivals, those at least as serious, are fewer than cap times cooldown; with cooldown 2 the mildest of three has too many and may starve, with 3 it has not |
| `PackageUpdate` | a directory and a file, 2 versions, 1 backup kept, 3 seconds, faults and deaths | `RollbackPoint`: an update that touches the install has a complete copy. `WayBack`: an interrupted update keeps its backup until a newer one pushes it out. `SuccessIsReal`: what is reported is on disk |
| `Workers` | the nine subjects of `Workers`, with two threads, tasks, hosts, ports or processes each | see below |
| `Stores` | the six subjects of `Stores`, with two clients or scanners, two devices of one chip and two repairs, three releases, two layouts, two processes and three schema versions | see below |
| `Analysis` | the subjects of `MCAnalysis` | see below |

`Workers`. `SavesAreSound`: a save nothing overlaps puts the memory on disk whatever
came before, and no death or error leaves half a file unless changes overlapped.
`Accounted`, `OrderKept`: every finding is sent, failed, dropped or waiting, and each
sink hears them in order. `OneReader`, `PushTakesHold`: one GPS reader unless one
outlived its join, and a pushed port takes effect. `HeldUntilDelivered`: a task on its
way to the UI is referred to. `AnswersAreTrue`: no list older than the last repair is
served as current, unless a probe straddled the repair's end; a discovery in time is
whole; a call to join or to share that says ok has done it (of the hotspot an ok says
nothing: section 4); a key does not stay on disk. `SessionsAreKept`: a living session
is not closed by a tool; a session without an end has a process that runs, or one that
could not or did not close it in one of the ways the code allows (killed, halt raised,
scanning switched off by a lost adapter or a reset, begun once more, during a halt or
after it): so a teardown that finds scanning on closes the session, whatever other
processes write; and no process scans on a flag it did not set. `NothingWaitsForEver`:
the liveness of all of them, a GPS reader told to stop among them.

`Stores`. `PointsAreWhole`, `NewSiteIsEmpty`, `HistoryIsCovered`: rows refer to what
exists and are accounted for, whoever deletes, wipes or prunes meanwhile.
`NothingLeftUndone`: no repair leaves a device disabled that nobody else disabled,
unless it is half-way through a restart or the second half could not be done; after an
uninstall nothing is left; and a database that says it is up to date has every column.
`NeverWithoutImage`: there is always an executable that works, in place or aside.
`OnlyAsAnnounced`: no download that was found to differ from its checksum is
installed, even one left by an attempt that was cut short, and no repair step changes
what the diagnosis did not name, nor anything it has no right to. With two repairs
(`MaxRuns = 2`) one may outlive its caller and meet the next, which may then find its
work done: the first of the two promises excepts that, the second does not.

`Analysis`. `RulesHold`: a signal that drifts changes the key of no finding but that
of the jump itself, the driver listing the radios in one and the same order, so a
finding is not told again because one radio has become louder than another; and a
watched access point that misses `Missing` scans which came on time (fewer than four
intervals after the last, `Paces`) is reported in the last of them, provided the rule
has a window, is not muted and its severity is above the floor. `ReportsAgree`: free
channels come first, the two notions of weak coverage agree, the comparison rebuilds
the present from the snapshot; which of two releases is newer does not lead back, and
the file picked can be put in place; a healthy diagnosis is one with which a scan
works. `PictureIsTrue`: the adapter recommended is not one that is off where another
of its kind is on, and what is described after a repair was read after it, unless
netsh was being asked meanwhile. `ScreensAreTrue`: a page at rest shows what is on
record, Live and the page of marks excepted between a mark added aside and their next
load, and the page of names after a scan. `ReadersAgree`: the edit distance equals its
definition up to the cap; of a beacon cut off anywhere exactly the elements heard
whole are read; the narrowest block in the vendor file wins; no damaged GPS sentence
is read; each adapter is described as itself; what a list says adds up. The vendor
files have at most two files of at most two rows; the names at most three letters; the
beacons at most three elements of ten kinds, with every cut; the diagnoses every pair
of things that may be wrong.

Runs that find a disagreement, each with the sentence it refutes in
`PROJECT.json`:

| Run | What happens |
|---|---|
| `FindSessionLeftOpen` | a lost adapter or a reset stops scanning and leaves the session open |
| `FindSilentRule` | a radio with too many names is never reported: the scan keeps one entry of each address, so the rule sees one name |
| `FindQuietFingerprint` | a vendor element that carries the security posture disappears and the change is reported as low: two spellings of one element never match |

Bounds. `Keep = 1` with three seconds lets two later backups push out the first, and
two items let one be done when the other fails. `MaxSessions`, `MaxScans`, `MaxRuns`,
`MaxCrashes`, `MaxFaults`, `MaxStarts` and the like cap sequences, lifetimes and
failures; `ScansLeft` makes a scan begin only while a row is left, so that nothing
stops half way because of a bound. `Cooldown` and `MaxPerScan` are the code's
settings, made small: the cap must bind (fewer than the findings), the cooldown must
outlast a cycle, and cap times cooldown lies on either side of the number of rivals.
`Paces = {1, 3}` has a scan that takes no time and the slowest for which the rule's
window, four times as long as where it begins, is still met. Two of each kind of actor
is what the hazards take: each is about one actor between two steps of another. Three
is the number of releases, since the fault with a stale download needs two after the
one that runs; and of schema versions, since the fault with the version written early
needs a column between.

Fairness. `WF` of the loop's steps and of each thread's: driver calls return or
time out, waits elapse, the operating system schedules a thread that can run, the
UI's event loop delivers what is posted, a bounded join returns. Nobody is
obliged to press a button, and no source, look-up, check, helper or teardown step
that may hang is obliged to return, so those have none; what the liveness
properties show is that the bounded joins, the time-outs and the watchdog are
enough. The safety runs use none.

## 4. Where the code and its documents differ

Besides the three runs above, the models show the following. Most were found as
the counterexample of a property that was then narrowed to what the code does; the
narrower property is the one checked. Nine of the documents' statements are kept at
the end of the module they are about, marked as refuted and in no run:
`RequestCutsWaitShort` and `QueuedScanRuns` (`ScanEngine`), `DeletedIsAudible`
(`FindingPipeline`), `SettingsReachWorkers` (`SettingsService`), `ActiveSiteExists`
(`SurveyStore`), `NothingIsDisabled` (`Recovery`), `RolledBackIsRestored`
(`PackageUpdate`), and, which takes two of each constant, `BandsWereHeard`
(`NetworkStore`) and `DrawerIsOneRadio` (`Bridge`). Put into a configuration of the
module, each gives its counterexample within seconds.

Scanning and processes

* A scan request made just before the loop enters its wait is cleared unheard
  (`scanner.py:660`), so a request does not always cut the wait short; and a scan
  queued while scanning is off never runs (`scanner.py:621`).
* Choosing another adapter between a scan's choice of interface and its check
  makes the scan take the chosen one for lost and stop scanning. An adapter chosen
  while scanning runs on another, and unplugged before its first scan, is replaced
  silently.
* `autostart_on_launch` ("Start scanning on launch", `ui/views/settings.py:56`,
  `QUICKSTART.md:187`) starts nothing after a clean exit: a launch only resumes
  what was on (`ui/app.py:82`, `server.py:62`, `main.py:337`), and closing calls
  `halt`, which turns it off. After a crash it does resume, with scans that belong
  to no session.
* A second process of the program closes the open sessions of the first
  (`scanner.py:376`).
* `main.py:77-84` offers `--wait-for-port` for relaunches, but no relaunch passes it
  (`updater.py:399`, `selfupdate.py:408`), and a server that restarts itself comes
  back as the window. `_fatal` (`ui/app.py:74`) cannot be reached while `bootstrap`
  logs its own errors. `lifecycle.py:3` says there is one sequence whichever
  interface asked; the interfaces still have parts of their own.
* A clean exit leaves the session open if scanning was switched off before it by a
  lost adapter or a settings reset: `teardown` halts only what is on
  (`lifecycle.py:56`). Left out of `Processes`: a settings patch that sets
  `scan.enabled` itself, without `begin` or `halt`.
* A process killed inside `run_once` leaves a row with status `ok` and no end,
  which its readers show as a scan that worked.
* Overlapping scans write an access point in the order in which they end, so
  `last_seen` may go back; a scan that fails between storing and the rules has
  stored rows that are then no longer new.

Findings and rules

* A death, or a failed write, between `suppress_many` and `insert_alerts` silences
  for a whole cooldown a finding nobody saw. Two overlapping scans may report one
  finding twice.
* The cap cuts by severity (`detections.py:1004`), so where as many
  findings hold that are at least as serious as the cap lets through in one cooldown, the
  mildest may never be reported. No document says otherwise; `HasRoom` names the condition.
* Deleting a summary finding, or one with only an SSID, leaves its cooldown
  running, because `delete_alerts` rebuilds another key than the rule used.
* `security_downgrade` does not know "WPA3-Enterprise 192-bit" (`detections.py:375`),
  so a fall from it to WPA2 is no downgrade. A network with only FT-SAE-EXT-KEY is
  called WPA2. `ssid_conflict` does not look at ignore marks of the other radio; which
  of two radios is blamed depends on the driver's order. The watched-missing rule
  compares seconds with a number of scans: it says nothing of a radio unheard for more
  than four windows, so a scan that takes four intervals, or scans that fail, can pass
  over it; nor is it modelled that a scan may end less than an interval after the
  last, when somebody asks for one, or two settings below the five seconds of the
  rule.
* A truncated RSN element at the end of a beacon is dropped whole
  (`ie_parser.py:191`); an HE operation element that ends with its 6 GHz control
  byte has no width (`ie_parser.py:413`).
* The branch of `oui.py:161-164` for the IEEE's CSV file can never be taken: its
  rows begin with `MA-`, and the branch wants a hexadecimal digit. The docstring
  (`oui.py:159`) and the diagnostics (`doctor.py:321`) both offer that file. Rows of
  `manuf` with a width other than 24, 28 or 36 are filed under the next width.
* `parse_version` compares what follows the number as text: `beta.10` is older
  than `beta.9`, and a build of a release (`+1`) older than the release.

Workers

* Saves that overlap can leave an unreadable file, or the older tree
  (`config.py:199`). A wipe that resets the settings pushes nothing to the workers
  (`settings_svc.py:3`). Settings forms write back what they loaded, over what
  another interface changed meanwhile.
* A GPS reader that outlives its join is revived by the next start: two read. So do
  two when two interfaces push settings at once: each joins, and then each spawns.
* The drawer can show the notes of one radio under the title of another for a
  moment ("one place to look for the full picture of one radio", `ui/drawer.py:5`):
  answers are applied in the order in which they arrive.
* `reverse_dns` sets the timeout of all sockets from sixteen threads: two that
  overlap may leave one second as the process's default. A source or check that
  outlives its join still writes to what is being merged or sorted.
* `invalidate_cache` and `invalidate` "force the next lookup": a lookup under way puts
  the old answer back, so a list begun during a repair may be served after it; and
  when the lookup fails, or probing is paused, the last list is served whatever its
  age (`adapter_probe.py:60-70`, 103-131, marked as degraded). Not modelled: what a
  helper that outlives its caller changes after the list was made, and the death of
  the application in a repair of its own.
* `configure` of the hotspot waits while the operation has not ended and says
  `configured` whatever it ended with (`hotspot.py:272-279`; starting it does look,
  295-297). A started hotspot may stop by itself. So `OkIsTrue` promises nothing of
  either.

Stores, repair, update

* A wipe starts the ids over while the active site, and a scan or a survey under
  way, keep theirs: a new site may inherit what is filed under the old id, and be
  selected. A deleted site is active for a moment, or for good if the process dies
  ("must not stay selected", `survey_svc.py`). `observed_bands` counts radios by
  today's band, not by the band they were heard on.
* A file made by an older build that was killed before it wrote its version is
  taken for new and never gets the later columns; two processes that upgrade at
  once may fail with a duplicate column.
* A repair whose second half fails leaves an adapter disabled ("nothing here
  disables", `recovery.py`); the step that rescans is not checked again, against
  `recovery.py:12`; `_netsh_data` lends the only block there is to any adapter.
* Without `OncePerSecond` the second of two backups made in a second deletes the
  first, and with it the rollback point of an update under way. An update whose
  restore fails too is reported as rolled back, even one that failed before it
  touched anything, because the rollback begins by removing.
* A download counts as good when its list of checksums cannot be fetched or has no
  entry for it (`updater.py:277-299`), as when the release has none: what is promised is
  about a checksum that was read and differs.
* A second failed install deletes the good executable the first one moved aside. An
  uninstall leaves `_internal` (`README.md:134-147`, `docs/GUIDE.md:674-685`); its
  delayed deletion may hit a new install. With both a task and the Run key set, two
  processes start at logon. The version in Apps & features stays that of the last
  install after an update.

Screens and diagnostics

* A list loaded earlier may be applied later than a newer one; the page of names is
  not told of scans; Live and the page of marks are not told of a mark added from
  Live's menu or the drawer (`main_window.py:585-591`), so with scanning off "Watch this
  radio" shows no flag until something loads the page. A search is applied to the first
  rows only (`services/networks.py:51`); the total of findings leaves the filters out.
  Deleting findings older than thirty days deletes nothing in the models, whose time is
  a few scans.
* `check_usb_adapters` and `check_scanning` (`doctor.py:175`, `202`) are in no list
  and never run. The diagnostics take the first adapter listed for the one in use
  where the engine takes the best.

## 5. What is proved

With TLAPS, for every value of the constants. Named assumptions (`ConstantsOK`,
`PipelineConstantsOK`, `UpdateConstantsOK`, and `PartsAreWellFormed` of `Workers`, of
`Stores` and of `Analysis`, which joins those of the parts) say no more than types,
that sentinels such as `NoPort` are no values, that the bounds are numbers, and that
radios, hosts, devices, keywords and the threads of a discovery are finitely many.

| Module | Theorem | Statement |
|---|---|---|
| `ScanEngineProofs` | `TypeCorrect` | `Spec => []TypeOK` |
| | `ScanRowsAreOwned` | `Spec => []RunningScanHasOwner` |
| | `FinishedScansStayFinal` | `Spec => FinishedScanIsFinal` |
| | `OrphansStayClosed` | `Spec => []NoOrphanedSession` |
| | `LedgerIsKept` | `Spec => KeepsLedger` |
| | `ScanningIsInSession` | `Spec => []ScanningHasOpenSession`, with one controller, no autostart, no clearing |
| `FindingProofs` | `PipelineTypes`, `CooldownHolds`, `QuietIsAlwaysRecorded` | `TypeOK`; `NoRepeat` for scans that do not overlap; `QuietIsRecorded` while nothing fails |
| `PackageProofs` | `PackageTypes`, `RollbackAlwaysPossible` | `TypeOK`; `RollbackPoint` with one operation at a time and no two backups in a second |
| | `BackupOutlivesFailure`, `ReportsAreTrue` | `WayBack` with one operation at a time and no two backups in a second; `SuccessIsReal` with one operation at a time |
| `WorkersProofs` | `SavesStaySound` | `Spec => SavesAreSound` |
| | `DeliveryIsInOrder`, `FindingsAreAccounted` | `Spec => OrderKept`; `Spec => []Accounted` |
| | `OneReaderAtMost` | `Spec => []OneReader`, with one caller |
| | `ReportsAreHeld` | `Spec => []HeldUntilDelivered` |
| `MachineProofs` | `AnswersStayTrue` | `Spec => []AnswersAreTrue`: the five promises of probe, discovery and connections |
| | `SessionsStayKept` | `Spec => []SessionsAreKept`: the three of processes |
| | `WorkersTypes` | `Spec => []TypeOK` of all nine subjects |
| `StoresProofs` | `PointsStayWhole`, `NewSitesAreEmpty` | `Spec => []PointsAreWhole`; `Spec => NewSiteIsEmpty` |
| | `HistoryStaysCovered` | `Spec => []HistoryIsCovered` |
| `RepairProofs` | `OnlyWhatWasAnnounced` | `Spec => OnlyAsAnnounced`, of updates and repairs |
| | `ImageIsNeverLost`, `NothingStaysUndone` | `NeverWithoutImage` of updates and installs; `NothingLeftUndone` of repairs, uninstalls and upgrades |
| | `StoresTypes` | `Spec => []TypeOK` of all six subjects |
| `AnalysisProofs` | `RulesTrue` | `Spec => RulesHold`, of drift and of loss |
| | `ScreensTrue`, `PictureTrue` | `Spec => []ScreensAreTrue`; `Spec => []PictureIsTrue` |
| | `ReportsTrue` | `Spec => []ReportsAgree`, from `SurveysAgree`, `DiagnosesAgree` and `ReleasesOrdered`, the last from `NewerIsAnOrder` and `AssetsAreRunnable` |
| | `TypeCorrect` | `Spec => []TypeOK` of all subjects |

With these, every invariant of the runs but one (`ReadersAgree`) is a theorem, and
every property about single steps, some of them under the hypothesis named. `Workers`,
`Stores` and `Analysis` are reached in two moves: a step of the composition is, for
each part, a step of that part or a stutter (`WorkersMove`, `StoresMove`,
`ScreensMove`, ...), and each part's invariant is kept by its own steps
(`SaveInvNext`, `LanInvNext`, ...). `WorkersInv` and `StoresInv` say that every part is
within its invariant.

None of the properties is inductive by itself; what each proof adds:

* `RunningScanHasOwner`. A thread that opens a row must not thereby take another's,
  so the rows from the sequence on must be unused; a thread that finishes must write
  its own row, so the id it holds is below the sequence, is not of an earlier
  lifetime, and is held exactly while it is between `start_scan` and `finish_scan`.
  `OwnerInv` says this. `FinishedScanIsFinal` follows from it: the row a thread
  finishes is still unfinished (or cleared).
* `NoOrphanedSession`: `SessionInv` adds that ids of earlier lifetimes lie below the
  sequence, so `start_session` never opens an old one. `KeepsLedger` is refinement:
  `SessionSteps` shows that only six steps touch a session, and each of those is a
  step of the ledger or a stutter.
* `ScanningHasOpenSession`: `ScanningInv` adds that halt has disabled scanning before
  it ends the session. With two controllers it is false: one clears the id the
  other has just stored.
* `NoRepeat`: `PromiseInv` ties the table to what was promised, `AudibleInv` carries
  the check over to the write. `QuietIsRecorded` holds for any number of overlapping
  scans.
* `RollbackPoint`: `RollbackInv` adds that during a backup nothing installed changes,
  that the backup is the newest (so pruning spares it), that unless an item failed it
  holds what was installed of the items gone through, and that a name not taken
  holds nothing, so a backup starts empty. The type invariant of the module needs
  `CopiesAnItem`: a thread that copies has an item to copy.
* `WayBack`: it holds even without the backup that is just being made, which may yet
  fail and be deleted (`WayInv`). Pruning keeps enough above a name or the name itself
  (`PruningKeepsEnough`): of what it takes above that name, the greatest had `Keep`
  above it.
* `SuccessIsReal`: `ReportInv`, which says what is on disk half-way. In an update the
  items gone through are the package's and the others what they were
  (`UpdateSoFar`); in a restore in which nothing failed the items gone through are
  the backup's (`RestoreSoFar`).
* `SavesAreSound`: `SaveInv`. While nothing has overlapped, the thread at work is the
  only one (`AloneInv`), what it took from memory is still there, and the temporary
  file holds what it put there (`PayloadInv`); and before the program is up at most
  the thread that loads is at work (`StartInv`).
* `NeverWithoutImage`: `ReleaseInv`. The file the program runs from works
  (`ImageWorks`); it is never the place that is copied to, since between the move and
  the end of the copy no process runs from there (`MovedAside`), and only one caller
  is between them (`OneCaller`). A process that dies leaves its image behind, and
  files change again only in a process that started from one that works.
* `NeverWithoutImage` of an install and `UninstalledIsGone`: `SetupInv`, which says
  where in an install the old executable is, and what each stage of an uninstall has
  come past (`ImageIsKept`, `TracesGo`), that what is due to be deleted covers what was
  left aside, and that a job fits the stage it is at (`JobFits`).
* `PointsAreWhole`: `PointInv` adds that ids come from a sequence that is behind none
  of them and that no two points share one (`Numbered`), so a new point takes over no
  readings and a deleted one takes no other's. Counting readings is `OneReadingEach`.
  `NewSiteIsEmpty` needs that whatever names a site names one that was issued, in the
  tables, the setting and in what a thread has still to write (`SitesAreIssued`).
* `HistoryIsCovered`: between the row of a network and its observations lie
  transactions, so what is covered is what is on file or promised (`Due`): a scan that
  has updated the rows and has still to insert its observations. That needs ids of
  scans to be fresh (`IdsAreFresh`), or one scan would be promised another's, and one
  record of each network in a batch (`BatchesAreSingle`), since each counts once.
* `UpgradeIsWhole`: `SchemaInv` remembers who created the table: it has all of that
  build's columns, and a start that adds columns lacks only those it still has to add.
* `DisabledOnlyMidway`: `DisabledIsAccounted`, that each disabled device was so before, is
  in a restart's first half, or could not be enabled again, together with the
  types; only the two halves of a restart and a death in between touch it.
* `StepsAreAnnounced`: `RepairInv`. As long as no run has outlived
  its caller there is one that lives (`OneIsLive`), and what is on its list is still
  out of order in the way the step handles (`WorkIsDue`).
* `NothingBadInstalled`: what a caller moves and copies was not refused
  (`DownloadIsWhole`), because one caller is at work at a time.
* `OrderKept`: `OrderInv`. The queue is in order and behind everything delivered
  (`QueueInOrder`), and what the worker delivers is new to the sinks it has not come
  to (`WorkInOrder`). `Accounted` needs that who has a finding in hand is delivering it
  (`InHand`), and what appending and removing do to the set of findings that wait.
* `OneReader`: while no reader has outlived its join, only the thread the service knows
  is alive, or the one it is just waiting for (`OnlyKnownReaders`). The hypothesis of
  one caller is the case the property is about, and the one the run has.
* `HeldUntilDelivered`: `BridgeInv`. A task is queued once (`WaitingOnce`) and has one
  event (`EventsOnce`), so that when it is let go nothing of it is on its way. The part
  of it that `Run` touches (`PoolInv`) is separate from the screen, so that the six
  kinds of steps share their lemmas.
* `AnswersAreTrue`: `ProbeInv`, a listing made since the last forgetting has seen the
  repair (`ListingIsRepaired`); `LanInv`, which says what is complete at each stage as
  long as no thread was too slow (`SourcesOnTime`, `PoolsOnTime`), that each device is
  checked, waits or is being checked (`DevicesAccounted`), and what the one look-up at
  work gives back (`TimeoutKept`); `NetInv`, what a call has established on its way
  (`CallKnows`).
* `ScreensAreTrue`: `CurrentInv`. A page that is watched, and none of whose calls has
  crossed another, is disturbed by nobody: of all calls under way only its own may
  change the record, and it has one at most (`Undisturbed`). Then, unless it is still
  to ask (`Pending`: somebody types, or the window has not been told of a scan), it
  shows what it would be answered, or the one call that is out will bring that
  (`UpToDate`). A mark added aside is a call that changes nothing but marks, so of the
  other pages it disturbs none (`AsideKeepsCurrent`, `AnswerUnmarked`). What a page
  asks and what it sifts by itself differ, so a call may have been made with another
  filter that asks for the same (`SameQuestion`).
* `PictureIsTrue`: `RepairInv`, what the cache holds and what a reader is about to put
  there was read since the last repair. That the adapter recommended is usable is about
  the picture as a function of the world: of finitely many adapters one has the greatest
  score, and what distinguishes two of a kind, bands and a connection, weighs less than
  the radio being on or off.
* `RulesHold`. Two scans of the same air at other levels are twins: what is in one has a
  counterpart in the other that differs by its level alone (`HeardAreTwins`). Each rule
  tells of twins by the same keys (`SameTold`, `GradedTold`, `ComparedTold`,
  `LookalikeTold`), hence all together do (`FoundTold`). A loss is reported because
  as many intervals have gone by as scans were missed, and fewer than four times as many
  (`Lags`), so that the last of the scans finds the radio within the window
  (`LossIsFound`).
* `ReportsAgree`. A sum over a set is a natural number by a recursive function over
  finite sets (`SumRecursion`), a channel that somebody is on scores at least 30 and a
  clear one nothing, and the first few of a ranking without ties are that many
  (`FirstFew`, `ClearIsFirst`). What is newer is decided at the first place where two
  versions differ (`BeforeIs`, `BeforeBefore`).
* `SessionsAreKept`: `ProcessInv`. A session has one owner, numbers are not used twice,
  and a process has no session, engine or flag before the stage that gives it
  (`NothingBeforeItsStage`). Of a session still open either it is lost, or its process has
  scanning on and has not come past the step that halts (`HaltIsAhead`), so an exit in
  order leaves none behind that is not lost.
* Where something is counted or there is a first or a best of a kind, the argument is a
  least counterexample (`Least`, from the well-foundedness of the naturals), which takes
  the place of the induction theorems.

Only model-checked:

* Liveness under fairness (`NothingWaitsForEver`, `PushTakesHold`, the properties of
  `ScanEngineLive`, `PersistentIsReportedUnattended`), which the prover does not do.
  `PushTakesHold` joins one such to one about the step that ends a push.
* `ReadersAgree`. It says what operators over data compute for every input (the edit
  distance, the beacon parser, the vendor files, netsh's blocks, the groups of a list),
  which would take induction over data; and the GPS checksum is a fold of the bitwise
  exclusive or, which the provers do not know. `Parser`, `Words`, `Vendors` and
  `Sentences` are for that reason in `MCAnalysis` and not in `Analysis`.
* The two properties of `Analysis` that are false of the code, and that of
  `ScanEngine`.
* `OneReader` for several callers, where it fails in the code as well: two pushes at
  once may each start a reader.

## 6. What is left to do

* Of `ReadersAgree`, what is not recursion over data is within reach of the prover: that
  the bands of an adapter are founded, and what the lists add up to.
* Two processes that scan at once (`Processes` keeps the engine to one step), and
  the update of a checkout, whose `git` and `pip` calls are not modelled.

## 7. What is not modelled

* Reports, exports and the written summaries (`exporters.py`, `reporting.py`, most of
  `survey.py`'s text): wording and layout over data that are modelled.
* Drawing, dialogs, theme and the pages beyond the five in `Screens` (`app/ui/`), and
  the web page (`static/`): presentation. Of `routes.py`, authentication, streaming
  and the handlers that only read.
* Native driver calls (`wlanapi.py`) and the enumeration of devices (`usbwifi.py`):
  what they return is an input of the models, chosen freely.
* Updates of a git checkout and the validation of a package in `updater.py` and
  `selfupdate.py`.
* Merging a settings file with the defaults and validating single values
  (`config.py`); renaming and archiving a site; compaction and statistics of the
  database; classification of devices by their names and ports; option parsing,
  consoles and logging.
* `tools/`: a test script and a source of made-up networks, outside the running
  program.
