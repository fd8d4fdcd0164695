--------------------------- MODULE PackageUpdate ---------------------------
(***************************************************************************)
(* In-place updates from a package, app/selfupdate.py: back up every       *)
(* managed item, replace the items one by one, roll back if anything       *)
(* fails; backups and rollbacks asked for by hand; a process that may be   *)
(* killed between any two steps and is started again only if what is       *)
(* installed can run.                                                      *)
(*                                                                         *)
(* An item is one entry of MANAGED_PATHS, numbered in that order, and      *)
(* copying or removing one is a step.  A package that inspect refuses, an  *)
(* install that is not writable and a download that fails change nothing   *)
(* and are left out.                                                       *)
(***************************************************************************)
EXTENDS Integers, FiniteSets, TLC

CONSTANTS
  Count,         \* how many managed paths there are
  Dirs,          \* the ones that are directories
  Required,      \* the ones the program cannot start without
  Versions,      \* contents an item may have
  Keep,          \* BACKUP_KEEP
  Updaters,      \* threads: the API does not stop two operations at once
  MaxClock,      \* bound: seconds in which a backup may begin
  Faults,        \* whether copying and removing may fail
  OncePerSecond  \* whether no two backups begin in one second

Paths == 1..Count

ASSUME UpdateConstantsOK ==
  /\ Count \in Nat /\ Keep \in Nat \ {0} /\ MaxClock \in Nat \ {0}
  /\ Dirs \subseteq Paths /\ Required \subseteq Paths
  /\ {"absent", "partial"} \cap Versions = {}
  /\ {Faults, OncePerSecond} \subseteq BOOLEAN

VARIABLES
  install,   \* the install directory: the content of each item
  backups,   \* the backups directory: what each backup holds
  taken,     \* the backups whose directory exists
  clock,     \* seconds
  up,        \* whether the program is running
  pc, op,    \* where each thread is, and in which operation
  at,        \* the item its loop has reached
  name,      \* the backup it made or restores
  pkg,       \* the package it installs
  failed,    \* whether its list of failures is not empty
  was,       \* history: what was installed when its operation began
  broken,    \* history: an update has begun to change items, and neither ended
             \* well nor was undone without a failure
  base       \* history: the backup that undoes it

fileVars   == <<install, backups, taken>>
localVars  == <<pc, op, at, name, pkg, failed, was>>
historyVars == <<broken, base>>
vars == <<fileVars, clock, up, localVars, historyVars>>

Content == Versions \cup {"absent", "partial"}
Nothing == [p \in Paths |-> "absent"]

\* A backup's directory is named by second and label; names sort by second,
\* and within one "manual" comes before "preupdate".
Names == 1..(2 * MaxClock + 1)
NameOf(what) == IF what = "update" THEN 2 * clock + 1 ELSE 2 * clock

\* What inspect accepts: one version of some items, the required ones present.
Packages ==
  { [p \in Paths |-> IF p \in S THEN v ELSE "absent"] :
      v \in Versions, S \in { T \in SUBSET Paths : Required \subseteq T } }

Replacing == {"remove", "copy"}
Restoring == {"r_remove", "r_copy"}

TypeOK ==
  /\ install \in [Paths -> Content]
  /\ backups \in [Names -> [Paths -> Content]]
  /\ taken \subseteq Names
  /\ clock \in 1..MaxClock /\ up \in BOOLEAN
  /\ pc \in [Updaters -> {"idle", "backup", "extract"} \cup Replacing \cup Restoring]
  /\ op \in [Updaters -> {"update", "backup", "rollback"}]
  /\ at \in [Updaters -> 1..(Count + 1)]
  /\ name \in [Updaters -> Names]
  /\ pkg \in [Updaters -> [Paths -> Content]]
  /\ failed \in [Updaters -> BOOLEAN]
  /\ was \in [Updaters -> [Paths -> Content]]
  /\ broken \in BOOLEAN /\ base \in Names

\* The locals of threads that are in no operation.
All(value) == [u \in Updaters |-> value]

\* A first install: some version of the required items and of some others.
Init ==
  /\ install \in Packages
  /\ backups = [n \in Names |-> Nothing] /\ taken = {}
  /\ clock = 1 /\ up = TRUE
  /\ pc = All("idle") /\ op = All("backup") /\ at = All(1) /\ name = All(1)
  /\ pkg = All(Nothing) /\ was = All(Nothing)
  /\ failed = All(FALSE)
  /\ broken = FALSE /\ base = 1

----------------------------------------------------------------------------
\* Steps of a thread.  Goto starts or continues a loop at an item.
Goto(u, place, item) ==
  pc' = [pc EXCEPT ![u] = place] /\ at' = [at EXCEPT ![u] = item]

\* The call returns, and its locals are gone.
Done(u) ==
  /\ Goto(u, "idle", 1)
  /\ op' = [op EXCEPT ![u] = "backup"]
  /\ name' = [name EXCEPT ![u] = 1]
  /\ pkg' = [pkg EXCEPT ![u] = Nothing]
  /\ failed' = [failed EXCEPT ![u] = FALSE]
  /\ was' = [was EXCEPT ![u] = Nothing]

\* apply_package, create_backup and restore, called by POST /updates/package,
\* /updates/from-url, /updates/backups and /updates/rollback or by the options
\* of the command line.
StartBackup(u, what) ==
  /\ up /\ pc[u] = "idle" /\ NameOf(what) \in Names
  /\ OncePerSecond => \A n \in taken : n < 2 * clock
  /\ Goto(u, "backup", 1)
  /\ op' = [op EXCEPT ![u] = what]
  /\ name' = [name EXCEPT ![u] = NameOf(what)]
  /\ taken' = taken \cup {NameOf(what)}
  /\ failed' = [failed EXCEPT ![u] = FALSE]
  /\ was' = [was EXCEPT ![u] = install]
  /\ UNCHANGED <<install, backups, clock, up, historyVars>>

StartUpdate(u) ==
  /\ StartBackup(u, "update")
  /\ \E p \in Packages : pkg' = [pkg EXCEPT ![u] = p]

ManualBackup(u) == StartBackup(u, "backup") /\ UNCHANGED pkg

ManualRollback(u) ==
  /\ up /\ pc[u] = "idle"
  /\ \E n \in taken : name' = [name EXCEPT ![u] = n]
  /\ Goto(u, "r_remove", 1)
  /\ op' = [op EXCEPT ![u] = "rollback"]
  /\ failed' = [failed EXCEPT ![u] = FALSE]
  /\ was' = [was EXCEPT ![u] = install]
  /\ UNCHANGED <<fileVars, clock, up, pkg, historyVars>>

(***************************************************************************)
(* create_backup                                                           *)
(***************************************************************************)

\* shutil.copytree refuses a directory that exists already.
Occupied(u) == at[u] \in Dirs /\ backups[name[u]][at[u]] # "absent"

\* Copying creates the directories above an item, so a backup deleted meanwhile
\* comes back.
CopyToBackup(u, content) ==
  /\ backups' = [backups EXCEPT ![name[u]][at[u]] = content]
  /\ taken' = taken \cup {name[u]}

\* One item; a failure is noted and the loop goes on.
BackUpItem(u) ==
  /\ up /\ pc[u] = "backup" /\ at[u] \in Paths
  /\ Goto(u, "backup", at[u] + 1)
  /\ \/ /\ install[at[u]] = "absent"
        /\ UNCHANGED <<backups, taken, failed>>
     \/ /\ install[at[u]] # "absent" /\ ~Occupied(u)
        /\ CopyToBackup(u, install[at[u]])
        /\ UNCHANGED failed
     \/ /\ install[at[u]] # "absent" /\ (Occupied(u) \/ Faults)
        /\ failed' = [failed EXCEPT ![u] = TRUE]
        /\ \/ UNCHANGED <<backups, taken>>
           \/ ~Occupied(u) /\ CopyToBackup(u, "partial")
  /\ UNCHANGED <<install, clock, up, op, name, pkg, was, historyVars>>

\* Faulty: the oldest backups are the ones kept.
OldestOf(S) == { n \in S : Cardinality({ m \in S : m < n }) < Keep }

\* _prune_backups, newest by name.
NewestOf(S) == { n \in S : Cardinality({ m \in S : m > n }) < Keep }

\* apply_package goes on; a backup asked for by hand is done.
AfterBackup(u) ==
  \/ op[u] = "backup" /\ Done(u)
  \/ op[u] = "update" /\ Goto(u, "extract", 1) /\ UNCHANGED <<op, name, pkg, failed, was>>

\* Faulty: an update goes on with the incomplete backup.
FinishAnyBackup(u) ==
  /\ up /\ pc[u] = "backup" /\ at[u] = Count + 1
  /\ taken' = NewestOf(taken)
  /\ backups' = [n \in Names |-> IF n \in taken' THEN backups[n] ELSE Nothing]
  /\ AfterBackup(u)
  /\ UNCHANGED <<install, clock, up, historyVars>>

\* The manifest, then all or nothing: a backup that misses an item is deleted.
FinishBackup(u) ==
  /\ up /\ pc[u] = "backup" /\ at[u] = Count + 1
  /\ \/ /\ failed[u] \/ Faults
        /\ taken' = taken \ {name[u]}
        /\ Done(u)
     \/ /\ ~failed[u]
        /\ taken' = NewestOf(taken)
        /\ AfterBackup(u)
  /\ backups' = [n \in Names |-> IF n \in taken' THEN backups[n] ELSE Nothing]
  /\ UNCHANGED <<install, clock, up, historyVars>>

(***************************************************************************)
(* apply_package, after the backup                                         *)
(***************************************************************************)

\* Faulty: items are put back from the one that failed on.
RollBackFromHere(u) ==
  /\ Goto(u, "r_remove", at[u] - 1)
  /\ failed' = [failed EXCEPT ![u] = FALSE]

\* The exception handler: restore the backup just made.
RollBack(u) ==
  /\ Goto(u, "r_remove", 1)
  /\ failed' = [failed EXCEPT ![u] = FALSE]

\* Without a temporary directory the call ends before the try block.
Extract(u) ==
  /\ up /\ pc[u] = "extract"
  /\ \/ /\ Goto(u, "remove", 1)
        /\ UNCHANGED <<op, name, pkg, failed, was>>
     \/ /\ Faults /\ RollBack(u)
        /\ UNCHANGED <<op, name, pkg, was>>
     \/ Faults /\ Done(u)
  /\ UNCHANGED <<fileVars, clock, up, historyVars>>

\* What removing an item that fails leaves: rmtree stops half way, unlink does
\* nothing.
AfterFailedRemove(p) ==
  IF p \in Dirs THEN {install[p], "partial"} ELSE {install[p]}

\* History: from here on only this update's backup has what was installed.
Touch(u) ==
  /\ broken' = (broken \/ op[u] = "update")
  /\ base' = IF broken \/ op[u] # "update" THEN base ELSE name[u]

\* A package that lacks an item leaves it alone.
SkipItem(u) ==
  /\ up /\ pc[u] = "remove" /\ at[u] \in Paths
  /\ pkg[u][at[u]] = "absent"
  /\ Goto(u, "remove", at[u] + 1)
  /\ UNCHANGED <<fileVars, clock, up, op, name, pkg, failed, was, historyVars>>

RemoveItem(u) ==
  /\ up /\ pc[u] = "remove" /\ at[u] \in Paths
  /\ pkg[u][at[u]] # "absent"
  /\ \/ /\ install' = [install EXCEPT ![at[u]] = "absent"]
        /\ Goto(u, "copy", at[u])
        /\ UNCHANGED failed
     \/ /\ Faults /\ install[at[u]] # "absent"
        /\ \E c \in AfterFailedRemove(at[u]) : install' = [install EXCEPT ![at[u]] = c]
        /\ RollBack(u)
  /\ Touch(u)
  /\ UNCHANGED <<backups, taken, clock, up, op, name, pkg, was>>

CopyItem(u) ==
  /\ up /\ pc[u] = "copy"
  /\ \/ /\ install' = [install EXCEPT ![at[u]] = pkg[u][at[u]]]
        /\ Goto(u, "remove", at[u] + 1)
        /\ UNCHANGED failed
     \/ /\ Faults
        /\ \E c \in {"absent", "partial"} : install' = [install EXCEPT ![at[u]] = c]
        /\ RollBack(u)
  /\ UNCHANGED <<backups, taken, clock, up, op, name, pkg, was, historyVars>>

\* Old bytecode is deleted and pip run; neither raises.  The process that
\* follows, or the restart, is Crash and Launch.
FinishUpdate(u) ==
  /\ up /\ pc[u] = "remove" /\ at[u] = Count + 1
  /\ Done(u)
  /\ broken' = FALSE
  /\ UNCHANGED <<fileVars, clock, up, base>>

(***************************************************************************)
(* restore                                                                 *)
(***************************************************************************)

\* Faulty: an item that is not there needs no restoring.
RestoreOnlyPresent(u) ==
  /\ up /\ pc[u] = "r_remove" /\ at[u] \in Paths
  /\ backups[name[u]][at[u]] = "absent" \/ install[at[u]] = "absent"
  /\ Goto(u, "r_remove", at[u] + 1)
  /\ UNCHANGED <<fileVars, clock, up, op, name, pkg, failed, was, historyVars>>

\* An item the backup lacks is left as it is.
KeepItem(u) ==
  /\ up /\ pc[u] = "r_remove" /\ at[u] \in Paths
  /\ backups[name[u]][at[u]] = "absent"
  /\ Goto(u, "r_remove", at[u] + 1)
  /\ UNCHANGED <<fileVars, clock, up, op, name, pkg, failed, was, historyVars>>

ClearItem(u) ==
  /\ up /\ pc[u] = "r_remove" /\ at[u] \in Paths
  /\ backups[name[u]][at[u]] # "absent"
  /\ \/ /\ install' = [install EXCEPT ![at[u]] = "absent"]
        /\ Goto(u, "r_copy", at[u])
        /\ UNCHANGED failed
     \/ /\ Faults /\ install[at[u]] # "absent"
        /\ \E c \in AfterFailedRemove(at[u]) : install' = [install EXCEPT ![at[u]] = c]
        /\ failed' = [failed EXCEPT ![u] = TRUE]
        /\ Goto(u, "r_remove", at[u] + 1)
  /\ Touch(u)
  /\ UNCHANGED <<backups, taken, clock, up, op, name, pkg, was>>

PutItemBack(u) ==
  /\ up /\ pc[u] = "r_copy"
  /\ \/ /\ backups[name[u]][at[u]] # "absent"
        /\ install' = [install EXCEPT ![at[u]] = backups[name[u]][at[u]]]
        /\ UNCHANGED failed
     \/ /\ Faults \/ backups[name[u]][at[u]] = "absent"
        /\ \E c \in {"absent", "partial"} : install' = [install EXCEPT ![at[u]] = c]
        /\ failed' = [failed EXCEPT ![u] = TRUE]
  /\ Goto(u, "r_remove", at[u] + 1)
  /\ UNCHANGED <<backups, taken, clock, up, op, name, pkg, was, historyVars>>

\* An update that failed says that it was rolled back, whatever restore says.
FinishRestore(u) ==
  /\ up /\ pc[u] = "r_remove" /\ at[u] = Count + 1
  /\ Done(u)
  /\ broken' = (broken /\ (failed[u] \/ name[u] # base))
  /\ UNCHANGED <<fileVars, clock, up, base>>

(***************************************************************************)
(* The process and its surroundings                                        *)
(***************************************************************************)

Runnable == \A p \in Required : install[p] \in Versions

\* The program is closed, killed or restarts itself: _schedule_restart ends the
\* process 2 seconds after a success, whatever its other threads are doing.
Crash ==
  /\ up /\ up' = FALSE
  /\ pc' = All("idle") /\ op' = All("backup") /\ at' = All(1) /\ name' = All(1)
  /\ pkg' = All(Nothing) /\ was' = All(Nothing)
  /\ failed' = All(FALSE)
  /\ UNCHANGED <<fileVars, clock, historyVars>>

Launch ==
  /\ ~up /\ Runnable
  /\ up' = TRUE
  /\ UNCHANGED <<fileVars, clock, localVars, historyVars>>

Tick ==
  /\ clock < MaxClock /\ clock' = clock + 1
  /\ UNCHANGED <<fileVars, up, localVars, historyVars>>

UpdaterStep(u) ==
  \/ StartUpdate(u) \/ ManualBackup(u) \/ ManualRollback(u)
  \/ BackUpItem(u) \/ FinishBackup(u)
  \/ Extract(u) \/ SkipItem(u) \/ RemoveItem(u) \/ CopyItem(u) \/ FinishUpdate(u)
  \/ KeepItem(u) \/ ClearItem(u) \/ PutItemBack(u) \/ FinishRestore(u)

Next == (\E u \in Updaters : UpdaterStep(u)) \/ Crash \/ Launch \/ Tick

Spec == Init /\ [][Next]_vars

(***************************************************************************)
(* Properties                                                              *)
(***************************************************************************)

\* apply_package touches nothing it cannot put back: while it replaces items, or
\* rolls back, its own backup exists and holds, item by item, what was
\* installed when it began.  It holds while operations do not overlap and no
\* two backups share a name.
RollbackPoint ==
  \A u \in Updaters :
    op[u] = "update" /\ pc[u] \in {"extract"} \cup Replacing \cup Restoring
      => name[u] \in taken /\ backups[name[u]] = was[u]

\* What an operation reports is what is on disk: after an update that ends well,
\* the package over what was there; after a restore without a failure, every
\* item of the backup.
SuccessIsReal ==
  [][\A u \in Updaters :
       /\ FinishUpdate(u) =>
            install = [p \in Paths |-> IF pkg[u][p] = "absent" THEN was[u][p] ELSE pkg[u][p]]
       /\ FinishRestore(u) /\ ~failed[u] =>
            \A p \in Paths : backups[name[u]][p] \in {"absent", install[p]}]_vars

\* GUIDE: a failed backup stops the update "rather than leaving you with no way
\* back".  An update that was cut short keeps its backup, through crashes,
\* restarts and further attempts, until Keep newer ones have pushed it out.
WayBack ==
  broken => base \in taken \/ Cardinality({ n \in taken : n > base }) >= Keep

\* apply_package: "The update failed and was rolled back".  (Refuted: README,
\* section 4.)
RolledBackIsRestored ==
  [][\A u \in Updaters :
       FinishRestore(u) /\ op[u] = "update" =>
         \A p \in Paths : was[u][p] \in {"absent", install[p]}]_vars

\* Versions are interchangeable.
Symmetric == Permutations(Versions)
=============================================================================
