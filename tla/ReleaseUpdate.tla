---------------------------- MODULE ReleaseUpdate ----------------------------
(***************************************************************************)
(* The update of a packaged build from a published release: app/updater.py *)
(* and the swap of the running executable in app/runtime.py.  Windows lets *)
(* nobody overwrite or delete the image of a running process, but lets it  *)
(* be renamed: the executable is moved aside, the new one copied to where  *)
(* it was, and what was moved aside is deleted at the next start.  A copy  *)
(* takes time and may fail, and the process may end between any two steps. *)
(***************************************************************************)
EXTENDS Integers, FiniteSets

CONSTANTS
  Callers,      \* threads that may ask for an update
  MaxVersion,   \* bound: versions published
  MaxCrashes    \* bound: processes killed

\* What the constants have to be.
ReleaseConstantsOK == MaxVersion \in Nat \ {0} /\ MaxCrashes \in Nat

VARIABLES
  release,    \* the latest release: its version, and whether it has checksums
  files,      \* the executable, and what was moved aside
  staged,     \* the file in data_dir()/updates
  image,      \* the file each process runs from: the app, and the one before it
  runs,       \* the version each of them is
  applying,   \* _state["applying"]
  pc,         \* where each caller is
  info,       \* the release it was told of, and whether it has checksums; once it has
              \* verified, whether there was one to compare
  aside,      \* the name it moved the executable to
  crashes     \* processes killed so far

fileVars == <<files, staged>>
procVars == <<image, runs>>
callVars == <<applying, pc, info, aside>>
vars == <<release, fileVars, procVars, callVars, crashes>>

Versions == 0..MaxVersion
None   == [version |-> 0, whole |-> FALSE]     \* no file of that name
Broken(v) == [version |-> v, whole |-> FALSE]  \* cut short, or not what was published
Whole(v)  == [version |-> v, whole |-> TRUE]
Contents  == [version : Versions, whole : BOOLEAN]

\* The executable, the name it is moved to, and names with the time in them.
Names == {"exe", "old", "old1", "old2"}
NoName == "nowhere"
NoInfo == [version |-> 0, sums |-> FALSE]

TypeOK ==
  /\ release \in [version : Versions, sums : BOOLEAN]
  /\ files \in [Names -> Contents] /\ staged \in Contents
  /\ image \in [{"app", "last"} -> Names \cup {NoName}]
  /\ runs \in [{"app", "last"} -> Versions]
  /\ applying \in BOOLEAN
  /\ pc \in [Callers -> {"idle", "check", "fetch", "verify", "move", "copy", "undo",
                         "restart"}]
  /\ info \in [Callers -> [version : Versions, sums : BOOLEAN]]
  /\ aside \in [Callers -> Names \cup {NoName}]
  /\ crashes \in 0..MaxCrashes

\* A version is installed and running; it is the latest.
Init ==
  /\ release = [version |-> 1, sums |-> TRUE]
  /\ files = [n \in Names |-> IF n = "exe" THEN Whole(1) ELSE None]
  /\ staged = None
  /\ image = [app |-> "exe", last |-> NoName] /\ runs = [app |-> 1, last |-> 0]
  /\ applying = FALSE
  /\ pc = [c \in Callers |-> "idle"] /\ info = [c \in Callers |-> NoInfo]
  /\ aside = [c \in Callers |-> NoName]
  /\ crashes = 0

Running == image["app"] # NoName
Locked(name) == \E p \in {"app", "last"} : image[p] = name

Goto(c, place) == pc' = [pc EXCEPT ![c] = place]

\* apply returns: the flag is taken down whatever came of it.
Return(c) ==
  /\ Goto(c, "idle") /\ applying' = FALSE
  /\ info' = [info EXCEPT ![c] = NoInfo] /\ aside' = [aside EXCEPT ![c] = NoName]

(***************************************************************************)
(* apply, _apply_release                                                   *)
(***************************************************************************)

\* One at a time in this process.
Apply(c) ==
  /\ Running /\ pc[c] = "idle" /\ ~applying
  /\ applying' = TRUE /\ Goto(c, "check")
  /\ UNCHANGED <<release, fileVars, procVars, info, aside, crashes>>

\* check(force=True): newer than the process that asks, or there is nothing to do.
\* The server may not be reached.
CheckRelease(c) ==
  /\ pc[c] = "check"
  /\ \/ /\ release.version > runs["app"]
        /\ info' = [info EXCEPT ![c] = release]
        /\ Goto(c, "fetch") /\ UNCHANGED <<applying, aside>>
     \/ Return(c)
  /\ UNCHANGED <<release, fileVars, procVars, crashes>>

\* _download: under another name, then renamed; cut short it still counts, and
\* only an empty one or an error does not.
Fetch(c) ==
  /\ pc[c] = "fetch"
  /\ \/ /\ staged' \in {Whole(info[c].version), Broken(info[c].version)}
        /\ Goto(c, "verify") /\ UNCHANGED <<applying, info, aside>>
     \/ Return(c) /\ UNCHANGED staged
  /\ UNCHANGED <<release, files, procVars, crashes>>

\* Faulty: what the checksum refuses is left for the next attempt, but nothing stops.
VerifyLeniently(c) ==
  /\ pc[c] = "verify"
  /\ Goto(c, "move")
  /\ UNCHANGED <<release, fileVars, procVars, applying, info, aside, crashes>>

\* _verify: only a checksum that was found and differs refuses the download.  A list
\* that cannot be fetched, or has no entry for it, refuses nothing; the answer says then
\* that nothing was verified.
Verify(c) ==
  /\ pc[c] = "verify"
  /\ \E found \in BOOLEAN :
       LET wrong == found /\ staged # Whole(info[c].version) IN
         /\ found => info[c].sums
         /\ \/ /\ ~wrong
               /\ info' = [info EXCEPT ![c].sums = found]
               /\ Goto(c, "move")
               /\ UNCHANGED <<staged, applying, aside>>
            \/ /\ wrong
               /\ staged' = None
               /\ Return(c)
  /\ UNCHANGED <<release, files, procVars, crashes>>

\* replace_self: the name aside is taken over if no process keeps it, else a new one.
MoveAside(c) ==
  /\ pc[c] = "move"
  /\ \E name \in Names \ {"exe"} :
       \/ /\ files["exe"] # None /\ staged # None
          /\ IF Locked("old") THEN files[name] = None ELSE name = "old"
          /\ files' = [files EXCEPT ![name] = files["exe"], !["exe"] = None]
          /\ image' = [p \in DOMAIN image |-> IF image[p] = "exe" THEN name ELSE image[p]]
          /\ aside' = [aside EXCEPT ![c] = name]
          /\ Goto(c, "copy") /\ UNCHANGED <<applying, info>>
       \/ Return(c) /\ UNCHANGED <<files, image>>
  /\ UNCHANGED <<release, staged, runs, crashes>>

\* shutil.copy2 first makes the file, and then either fills it or fails.
CopyBegins(c) ==
  /\ pc[c] = "copy" /\ files["exe"] = None
  /\ files' = [files EXCEPT !["exe"] = Broken(staged.version)]
  /\ UNCHANGED <<release, staged, procVars, callVars, crashes>>

CopyEnds(c) ==
  /\ pc[c] = "copy" /\ files["exe"] # None
  /\ files' = [files EXCEPT !["exe"] = staged]
  /\ staged' = None
  /\ \/ Goto(c, "restart") /\ UNCHANGED <<applying, info, aside>>
     \/ Return(c)              \* asked not to restart
  /\ UNCHANGED <<release, procVars, crashes>>

CopyFails(c) ==
  /\ pc[c] = "copy"
  /\ Goto(c, "undo")
  /\ UNCHANGED <<release, fileVars, procVars, applying, info, aside, crashes>>

\* Faulty: what was moved aside is cleared away when the update has failed.
UndoAndSweep(c) ==
  /\ pc[c] = "undo"
  /\ files' = [files EXCEPT ![aside[c]] = None]
  /\ UNCHANGED image
  /\ Return(c)
  /\ UNCHANGED <<release, staged, runs, crashes>>

\* The original is renamed back over whatever is there, or even that fails.
Undo(c) ==
  /\ pc[c] = "undo"
  /\ \/ /\ files' = [files EXCEPT !["exe"] = files[aside[c]], ![aside[c]] = None]
        /\ image' = [p \in DOMAIN image |->
                       IF image[p] = aside[c] THEN "exe" ELSE image[p]]
     \/ UNCHANGED <<files, image>>
  /\ Return(c)
  /\ UNCHANGED <<release, staged, runs, crashes>>

(***************************************************************************)
(* Processes                                                               *)
(***************************************************************************)

\* sweep_old_binaries: everything aside that is not the image of a process.
Swept(new) ==
  [n \in Names |-> IF n # "exe" /\ ~\E p \in DOMAIN new : new[p] = n THEN None
                   ELSE files[n]]

ThreadsGone ==
  /\ applying' = FALSE /\ pc' = [c \in Callers |-> "idle"]
  /\ info' = [c \in Callers |-> NoInfo] /\ aside' = [c \in Callers |-> NoName]

\* A new process starts from the executable, and sweeps.
Starts(before) ==
  /\ files["exe"].whole
  /\ image' = [app |-> "exe", last |-> before]
  /\ runs' = [app |-> files["exe"].version, last |-> IF before = NoName THEN 0 ELSE runs["app"]]
  /\ files' = Swept(image')
  /\ ThreadsGone

\* The process ends, and its threads wherever they are.
Ends ==
  /\ image' = [image EXCEPT !["app"] = NoName] /\ runs' = [runs EXCEPT !["app"] = 0]
  /\ ThreadsGone

\* The update restarts it: for a moment there are two, or, if the new process
\* cannot be started, soon none.
Restart(c) ==
  /\ pc[c] = "restart" /\ image["last"] = NoName
  /\ \/ Starts(image["app"])
     \/ Ends /\ UNCHANGED files
  /\ UNCHANGED <<release, staged, crashes>>

LastEnds ==
  /\ image["last"] # NoName
  /\ image' = [image EXCEPT !["last"] = NoName] /\ runs' = [runs EXCEPT !["last"] = 0]
  /\ UNCHANGED <<release, fileVars, callVars, crashes>>

\* Killed or closed.
Crash ==
  /\ Running /\ crashes < MaxCrashes
  /\ crashes' = crashes + 1
  /\ Ends
  /\ UNCHANGED <<release, fileVars>>

Start ==
  /\ ~Running
  /\ Starts(NoName)
  /\ UNCHANGED <<release, staged, crashes>>

\* Somebody publishes the next version, with or without checksums.
Publish ==
  /\ release.version < MaxVersion
  /\ release' \in [version : {release.version + 1}, sums : BOOLEAN]
  /\ UNCHANGED <<fileVars, procVars, callVars, crashes>>

Steps(c) ==
  \/ Apply(c) \/ CheckRelease(c) \/ Fetch(c) \/ Verify(c) \/ MoveAside(c)
  \/ CopyBegins(c) \/ CopyEnds(c) \/ CopyFails(c) \/ Undo(c) \/ Restart(c)

Next == (\E c \in Callers : Steps(c)) \/ LastEnds \/ Crash \/ Start \/ Publish

Spec == Init /\ [][Next]_vars

(***************************************************************************)
(* Properties                                                              *)
(***************************************************************************)

\* Whatever fails, is killed or is tried again, there is an executable that works:
\* in its place, or aside under a name that says so.
NeverWithoutImage ==
  \E n \in Names : files[n].whole

\* An update that says its download was verified has put in place what was published,
\* even if an earlier attempt was cut short between any two steps and left its own
\* download behind.  One that says it could not be verified is installed as it came.
NothingBadInstalled ==
  [][\A c \in Callers :
       pc[c] = "copy" /\ info[c].sums /\ staged # None /\ staged' = None
         => files'["exe"] = Whole(info[c].version)]_vars
=============================================================================
