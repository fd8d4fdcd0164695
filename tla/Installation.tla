---------------------------- MODULE Installation ----------------------------
(***************************************************************************)
(* The packaged build putting itself on a machine and taking itself off    *)
(* again: app/installer.py, with the delayed deletion of app/runtime.py.   *)
(* No file of a running process can be written or deleted, only renamed,   *)
(* so an install first stops the other copies and moves the old executable *)
(* aside, and an uninstall leaves the deletion to a command that waits for *)
(* two seconds.  What goes wrong on the way is mostly logged and passed    *)
(* over.                                                                   *)
(*                                                                         *)
(* One installer or uninstaller is at work at a time.  The uninstaller is  *)
(* a process started from the installed executable, or a thread of the     *)
(* application itself when the interface asked for it.                     *)
(***************************************************************************)
EXTENDS Integers, FiniteSets

CONSTANTS
  Layouts,     \* "file": all in one executable.  "folder": a stub and _internal
  Wishes,      \* what is asked for together when installing
  MaxVersion,  \* bound: versions there are to install
  MaxFaults    \* bound: steps that fail, and processes killed

\* What the constants have to be.
InstallConstantsOK ==
  /\ Layouts \subseteq {"file", "folder"}
  /\ Wishes \subseteq SUBSET {"desktop", "autostart"}
  /\ MaxVersion \in Nat \ {0} /\ MaxFaults \in Nat

VARIABLES
  layout,     \* of the builds of this machine
  files,      \* the executable, what was moved aside, and _internal
  own,        \* the person keeps files of their own in the folder
  links,      \* the shortcuts there are
  entry,      \* the version in Apps & features
  startup,    \* what starts the application at logon
  data,       \* the data directory is there
  app,        \* the file the running application was started from
  pc,         \* where the installer or uninstaller is
  job,        \* which of them, and what was asked of it
  doomed,     \* what the delayed command will delete
  faults,     \* failures so far
  cuts,       \* installs since the last good one that did not replace the files
  owed,       \* history: something was installed, and nobody has removed it
  rough,      \* history: the last uninstall met a failure or another actor
  gone        \* history: an uninstall is complete, and whether it kept the data

fileVars == <<layout, files, own>>
traceVars == <<links, entry, startup>>
pastVars == <<cuts, owed, rough, gone>>
vars == <<fileVars, traceVars, data, app, pc, job, doomed, faults, pastVars>>

None == 0            \* no such file
Part == -1           \* a file cut short, or a folder of two versions
Versions == 1..MaxVersion
Names == {"exe", "old", "internal"}
NoJob == [kind |-> "none", version |-> None, wants |-> {}]

\* wants: for an installer what was asked for, for an uninstaller what to keep.
Jobs == [kind : {"none", "install", "tool", "app"}, version : None..MaxVersion,
         wants : SUBSET {"desktop", "autostart", "data"}]

TypeOK ==
  /\ layout \in Layouts /\ own \in BOOLEAN
  /\ files \in [Names -> Part..MaxVersion]
  /\ links \subseteq {"menu", "desktop"} /\ entry \in None..MaxVersion
  /\ startup \subseteq {"task", "run"} /\ data \in BOOLEAN
  /\ app \in {"none", "exe", "old"}
  /\ pc \in {"idle", "stop", "unlink", "move", "open", "copy", "link", "register",
             "autostart", "disable", "unlinks", "unregister", "plan", "leave"}
  /\ job \in Jobs /\ doomed \subseteq Names \cup {"data", "folder"}
  /\ faults \in 0..MaxFaults /\ cuts \in 0..2
  /\ owed \in BOOLEAN /\ rough \in BOOLEAN
  /\ gone \in {"no", "all", "kept"}

\* A machine that has never seen the program.
Init ==
  /\ layout \in Layouts /\ own = FALSE
  /\ files = [n \in Names |-> None]
  /\ links = {} /\ entry = None /\ startup = {} /\ data = FALSE
  /\ app = "none" /\ pc = "idle" /\ job = NoJob /\ doomed = {}
  /\ faults = 0 /\ cuts = 0 /\ owed = FALSE /\ rough = FALSE /\ gone = "no"

\* The file a process runs from, and for a folder build all of _internal.
Startable ==
  files["exe"] \in Versions /\ (layout = "folder" => files["internal"] = files["exe"])

\* The uninstaller is itself a process of the installed executable.
Locked(n) ==
  \/ app = n
  \/ app # "none" /\ n = "internal"
  \/ n = "exe" /\ job.kind = "tool"

Exists(n) == files[n] # None

\* A step that failed, on any actor's behalf: there is a bound on these.
Fault == faults < MaxFaults /\ faults' = faults + 1

\* What meets an uninstall on its way makes it a rough one.
Crosses == doomed # {} \/ job.kind \in {"tool", "app"}

(***************************************************************************)
(* The application                                                         *)
(***************************************************************************)

\* Every process starts by making the data directory and deleting what an update left
\* aside where it runs.
Bootstrap ==
  /\ files' = IF Locked("old") THEN files ELSE [files EXCEPT !["old"] = None]
  /\ data' = TRUE

\* Started by hand or at logon.
StartApp ==
  /\ app = "none" /\ Startable
  /\ app' = "exe"
  /\ Bootstrap
  /\ gone' = "no" /\ rough' = (rough \/ Crosses)
  /\ UNCHANGED <<layout, own, traceVars, pc, job, doomed, faults, cuts, owed>>

QuitApp ==
  /\ app # "none" /\ job.kind # "app"
  /\ app' = "none"
  /\ UNCHANGED <<fileVars, traceVars, data, pc, job, doomed, faults, pastVars>>

\* replace_self, which ReleaseUpdate has in detail, for the one layout it applies to.
\* The entry in Apps & features keeps the version it was written with.
UpdateApp ==
  /\ app = "exe" /\ layout = "file" /\ files["exe"] \in 1..(MaxVersion - 1)
  /\ files' = [files EXCEPT !["exe"] = @ + 1, !["old"] = files["exe"]]
  /\ app' = "old"
  /\ rough' = (rough \/ Crosses)
  /\ UNCHANGED <<layout, own, traceVars, data, pc, job, doomed, faults, cuts, owed, gone>>

\* The person puts files of their own in the folder.
PutFiles ==
  /\ ~own /\ own' = TRUE
  /\ rough' = (rough \/ Crosses)
  /\ UNCHANGED <<layout, files, traceVars, data, app, pc, job, doomed, faults, cuts,
                 owed, gone>>

(***************************************************************************)
(* install                                                                 *)
(***************************************************************************)

Goto(place) == pc' = place /\ UNCHANGED job

Ended == pc' = "idle" /\ job' = NoJob

\* From a copy elsewhere, or from the installed one, which has nothing to copy.
StartInstall(v, wants) ==
  /\ pc = "idle"
  /\ pc' = "stop" /\ job' = [kind |-> "install", version |-> v, wants |-> wants]
  /\ data' = TRUE
  /\ gone' = "no" /\ rough' = (rough \/ doomed # {})
  /\ UNCHANGED <<fileVars, traceVars, app, doomed, faults, cuts, owed>>

Reinstall(wants) ==
  /\ pc = "idle" /\ Startable
  /\ pc' = "link"
  /\ job' = [kind |-> "install", version |-> files["exe"], wants |-> wants]
  /\ Bootstrap
  /\ gone' = "no" /\ rough' = (rough \/ doomed # {})
  /\ UNCHANGED <<layout, own, traceVars, app, doomed, faults, cuts, owed>>

\* stop_running_instances: by the name of the process, and whether that worked is
\* not looked at.  A thread of the application does not stop its own process.
StopOthers ==
  /\ pc = "stop"
  /\ \/ app' = (IF job.kind = "app" THEN app ELSE "none") /\ UNCHANGED <<faults, rough>>
     \/ app # "none" /\ job.kind # "app" /\ Fault /\ rough' = TRUE /\ UNCHANGED app
  /\ Goto(IF job.kind = "install" THEN "unlink" ELSE "disable")
  /\ UNCHANGED <<fileVars, traceVars, data, doomed, cuts, owed, gone>>

\* Faulty: the new executable is copied over the one that is there.
OverwriteInPlace ==
  /\ pc = "unlink"
  /\ Goto("open")
  /\ UNCHANGED <<fileVars, traceVars, data, app, doomed, faults, pastVars>>

\* What is aside makes room, if it can, for what is about to be moved there.
UnlinkAside ==
  /\ pc = "unlink"
  /\ IF Exists("exe")
     THEN /\ files' = IF Locked("old") THEN files ELSE [files EXCEPT !["old"] = None]
          /\ Goto("move")
     ELSE Goto("open") /\ UNCHANGED files
  /\ UNCHANGED <<layout, own, traceVars, data, app, doomed, faults, pastVars>>

\* An OSError is an install that failed, and leaves everything as it is by then.
Abandon ==
  /\ Ended
  /\ cuts' = IF cuts < 2 THEN cuts + 1 ELSE cuts
  /\ UNCHANGED <<owed, rough, gone>>

MoveAside ==
  /\ pc = "move"
  /\ \/ /\ ~Locked("old")
        /\ files' = [files EXCEPT !["old"] = files["exe"], !["exe"] = None]
        /\ app' = IF app = "exe" THEN "old" ELSE app
        /\ Goto("open") /\ UNCHANGED <<faults, pastVars>>
     \/ Locked("old") /\ Abandon /\ UNCHANGED <<files, app, faults>>
     \/ Fault /\ Abandon /\ UNCHANGED <<files, app>>
  /\ UNCHANGED <<layout, own, traceVars, data, doomed>>

Payload == {"exe"} \cup (IF layout = "folder" THEN {"internal"} ELSE {})

\* The first byte is written: of the executable, and for a folder of _internal too,
\* where what a running application has loaded cannot be.
OpenCopy ==
  /\ pc = "open"
  /\ \/ /\ ~Locked("exe") /\ (layout = "folder" => ~Locked("internal"))
        /\ files' = [n \in Names |-> IF n \in Payload THEN Part ELSE files[n]]
        /\ Goto("copy") /\ UNCHANGED <<faults, pastVars>>
     \/ /\ layout = "folder" /\ Locked("internal")
        /\ files' = [files EXCEPT !["exe"] = job.version, !["internal"] = Part]
        /\ Abandon /\ UNCHANGED faults
     \/ Locked("exe") /\ Abandon /\ UNCHANGED <<files, faults>>
     \/ Fault /\ Abandon /\ UNCHANGED files
  /\ UNCHANGED <<layout, own, traceVars, data, app, doomed>>

\* copytree goes on past a file it cannot copy and raises at the end; copy2 stops.
FinishCopy ==
  /\ pc = "copy"
  /\ \/ /\ files' = [n \in Names |-> IF n \in Payload THEN job.version ELSE files[n]]
        /\ cuts' = 0 /\ owed' = (doomed = {})
        /\ Goto("link") /\ UNCHANGED <<faults, rough, gone>>
     \/ Fault /\ Abandon /\ UNCHANGED files
     \/ /\ layout = "folder" /\ Fault /\ Abandon
        /\ \/ files' = [files EXCEPT !["exe"] = job.version]
           \/ files' = [files EXCEPT !["internal"] = job.version]
  /\ UNCHANGED <<layout, own, traceVars, data, app, doomed>>

\* create_shortcut: PowerShell may refuse, and the install goes on.
MakeLinks ==
  /\ pc = "link"
  /\ LET wanted == {"menu"} \cup (job.wants \cap {"desktop"}) IN
       \/ links' = links \cup wanted /\ UNCHANGED faults
       \/ \E some \in SUBSET wanted : links' = links \cup some /\ some # wanted /\ Fault
  /\ Goto("register")
  /\ UNCHANGED <<fileVars, entry, startup, data, app, doomed, pastVars>>

RegisterUninstaller ==
  /\ pc = "register"
  /\ \/ entry' = job.version /\ UNCHANGED faults
     \/ Fault /\ UNCHANGED entry
  /\ Goto("autostart")
  /\ UNCHANGED <<fileVars, links, startup, data, app, doomed, pastVars>>

\* enable_autostart: a scheduled task, and when that is refused the Run key.  It never
\* looks whether the other is there already.
EnableAutostart ==
  \/ startup' = startup \cup {"task"} /\ UNCHANGED faults
  \/ startup' = startup \cup {"run"} /\ Fault

FinishInstall ==
  /\ pc = "autostart"
  /\ IF "autostart" \in job.wants
     THEN EnableAutostart \/ (Fault /\ UNCHANGED startup)
     ELSE UNCHANGED <<startup, faults>>
  /\ Ended
  /\ UNCHANGED <<fileVars, links, entry, data, app, doomed, pastVars>>

\* The process is killed, or the machine goes down.
KillTool ==
  /\ pc # "idle" /\ job.kind \in {"install", "tool"} /\ Fault
  /\ Ended
  /\ cuts' = IF pc \in {"move", "open", "copy"} /\ cuts < 2 THEN cuts + 1 ELSE cuts
  /\ rough' = (rough \/ job.kind = "tool")
  /\ UNCHANGED <<fileVars, traceVars, data, app, doomed, owed, gone>>

(***************************************************************************)
(* Autostart, from the interface                                           *)
(***************************************************************************)

\* Faulty: what was registered last is taken to be all there is.
DisableEither ==
  \/ /\ startup' = (IF "task" \in startup THEN startup \ {"task"} ELSE {})
     /\ UNCHANGED <<faults, rough>>
  \/ /\ startup # {} /\ Fault /\ rough' = TRUE /\ UNCHANGED startup

\* disable_autostart: the task and the Run key, and never mind which of them fails.
DisableAutostart ==
  \/ startup' = {} /\ UNCHANGED <<faults, rough>>
  \/ \E left \in SUBSET startup \ {{}} : startup' = left /\ Fault /\ rough' = TRUE

AutostartEnabled == "task" \in startup \/ "run" \in startup

SetAutostart ==
  /\ app # "none"
  /\ \/ EnableAutostart /\ rough' = (rough \/ Crosses)
     \/ AutostartEnabled /\ DisableAutostart
  /\ UNCHANGED <<fileVars, links, entry, data, app, pc, job, doomed, cuts, owed, gone>>

(***************************************************************************)
(* uninstall                                                               *)
(***************************************************************************)

\* As a process of the installed executable, or in the application.
StartUninstall(kind, keep) ==
  /\ pc = "idle" /\ doomed = {}
  /\ kind = "tool" => Startable
  /\ kind = "app" => app # "none"
  /\ pc' = "stop" /\ job' = [kind |-> kind, version |-> None, wants |-> keep]
  /\ IF kind = "tool" THEN Bootstrap ELSE UNCHANGED <<files, data>>
  /\ gone' = "no" /\ rough' = FALSE
  /\ UNCHANGED <<layout, own, traceVars, app, doomed, faults, cuts, owed>>

RemoveAutostart ==
  /\ pc = "disable"
  /\ DisableAutostart
  /\ Goto("unlinks")
  /\ UNCHANGED <<fileVars, links, entry, data, app, doomed, cuts, owed, gone>>

RemoveLinks ==
  /\ pc = "unlinks"
  /\ \/ links' = {} /\ UNCHANGED <<faults, rough>>
     \/ \E left \in SUBSET links \ {{}} : links' = left /\ Fault /\ rough' = TRUE
  /\ Goto("unregister")
  /\ UNCHANGED <<fileVars, entry, startup, data, app, doomed, cuts, owed, gone>>

UnregisterUninstaller ==
  /\ pc = "unregister"
  /\ \/ entry' = None /\ UNCHANGED <<faults, rough>>
     \/ entry # None /\ Fault /\ rough' = TRUE /\ UNCHANGED entry
  /\ Goto("plan")
  /\ UNCHANGED <<fileVars, links, startup, data, app, doomed, cuts, owed, gone>>

\* What is to be deleted is listed now.  The folder goes as a whole if nothing in it
\* is left over; _internal is always left over.
Plan ==
  /\ pc = "plan"
  /\ \/ doomed' = ({"data"} \ job.wants) \cup {"exe"} \cup {n \in {"old"} : Exists(n)}
                    \cup (IF own \/ Exists("internal") THEN {} ELSE {"folder"})
        /\ UNCHANGED <<faults, rough>>
     \/ Fault /\ rough' = TRUE /\ UNCHANGED doomed
  /\ owed' = FALSE
  /\ Goto("leave")
  /\ UNCHANGED <<fileVars, traceVars, data, app, cuts, gone>>

\* The process ends: the one answers first and then waits for the engine.
Leave ==
  /\ pc = "leave"
  /\ app' = IF job.kind = "app" THEN "none" ELSE app
  /\ Ended
  /\ UNCHANGED <<fileVars, traceVars, data, doomed, faults, pastVars>>

\* The two seconds are over, whoever still runs.  Nobody reads what it could not
\* delete.  An open database or log keeps its directory.
Delete ==
  /\ doomed # {}
  /\ LET late == app # "none" \/ pc # "idle" IN
       /\ files' = [n \in Names |->
            IF ({n, "folder"} \cap doomed # {}) /\ ~Locked(n) THEN None ELSE files[n]]
       /\ own' = (own /\ "folder" \notin doomed)
       /\ data' = (data /\ ("data" \notin doomed \/ late))
       /\ rough' = (rough \/ late)
       /\ gone' = IF rough' THEN "no" ELSE IF "data" \in doomed THEN "all" ELSE "kept"
  /\ doomed' = {}
  /\ UNCHANGED <<layout, traceVars, app, pc, job, faults, cuts, owed>>

ApplicationNext ==
  \/ StartApp \/ QuitApp \/ UpdateApp \/ PutFiles \/ SetAutostart

InstallNext ==
  \/ \E v \in Versions, wants \in Wishes : StartInstall(v, wants)
  \/ \E wants \in Wishes : Reinstall(wants)
  \/ StopOthers \/ UnlinkAside \/ MoveAside \/ OpenCopy \/ FinishCopy
  \/ MakeLinks \/ RegisterUninstaller \/ FinishInstall \/ KillTool

UninstallNext ==
  \/ \E kind \in {"tool", "app"}, keep \in SUBSET {"data"} : StartUninstall(kind, keep)
  \/ RemoveAutostart \/ RemoveLinks \/ UnregisterUninstaller \/ Plan \/ Leave \/ Delete

Next == ApplicationNext \/ InstallNext \/ UninstallNext

Spec == Init /\ [][Next]_vars

(***************************************************************************)
(* Properties                                                              *)
(***************************************************************************)

\* An install of a single executable that fails or is killed at any step, the first
\* since the last good one, leaves an executable that works: in its place or aside.
\* The second may not: it takes what the first left, half a file, for the one to keep.
NeverWithoutImage ==
  layout = "file" /\ owed /\ cuts <= (IF pc = "idle" THEN 1 ELSE 0)
    => files["exe"] \in Versions \/ files["old"] \in Versions

\* An uninstall that meets neither a failure nor another actor removes everything:
\* whichever way the program started at logon, whatever updates and failed installs
\* had left aside, the data unless it was to stay, and of a single executable every
\* file.
UninstalledIsGone ==
  gone # "no" =>
    /\ ~AutostartEnabled /\ links = {} /\ entry = None
    /\ Exists("exe") = FALSE /\ Exists("old") = FALSE
    /\ layout = "file" => ~Exists("internal")
    /\ data = (gone = "kept")

=============================================================================
