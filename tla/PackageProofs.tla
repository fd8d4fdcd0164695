--------------------------- MODULE PackageProofs ---------------------------
(***************************************************************************)
(* Proofs about PackageUpdate: its types, and that an update always has    *)
(* the backup it needs to undo itself, for any items, versions and number  *)
(* of backups kept.                                                        *)
(***************************************************************************)
EXTENDS PackageUpdate, FiniteSetTheorems, WellFoundedInduction, TLAPS

(***************************************************************************)
(* Type correctness                                                        *)
(***************************************************************************)

\* The names a thread can give a backup are names.
LEMMA NameIsName ==
  ASSUME TypeOK, NEW what
  PROVE  NameOf(what) \in Nat
BY UpdateConstantsOK DEF UpdateConstantsOK, TypeOK, NameOf

\* A package is an assignment of contents to items.
LEMMA PackagesType == Packages \subseteq [Paths -> Content]
BY DEF Packages, Content

\* A thread that finishes has no locals left.
LEMMA DoneType ==
  ASSUME TypeOK, NEW u \in Updaters, Done(u)
  PROVE  /\ pc' \in [Updaters -> {"idle", "backup", "extract"} \cup Replacing \cup Restoring]
         /\ op' \in [Updaters -> {"update", "backup", "rollback"}]
         /\ at' \in [Updaters -> 1..(Count + 1)]
         /\ name' \in [Updaters -> Names]
         /\ pkg' \in [Updaters -> [Paths -> Content]]
         /\ failed' \in [Updaters -> BOOLEAN]
         /\ was' \in [Updaters -> [Paths -> Content]]
<1>1. 1 \in Names /\ 1 \in 1..(Count + 1) /\ Nothing \in [Paths -> Content]
  BY UpdateConstantsOK DEF UpdateConstantsOK, Names, Nothing, Content
<1> QED  BY <1>1 DEF Done, Goto, TypeOK

\* The first install is well typed.
LEMMA PackageInit == Init => TypeOK
<1> SUFFICES ASSUME Init PROVE TypeOK  OBVIOUS
<1>1. 1 \in Names /\ 1 \in 1..(Count + 1) /\ Nothing \in [Paths -> Content]
  BY UpdateConstantsOK DEF UpdateConstantsOK, Names, Nothing, Content
<1>2. install \in [Paths -> Content]  BY PackagesType DEF Init
<1>3. clock \in 1..MaxClock  BY UpdateConstantsOK DEF UpdateConstantsOK, Init
<1> QED  BY <1>1, <1>2, <1>3 DEF Init, TypeOK, All

\* Putting one well-typed content in the install keeps its type.
LEMMA InstallType ==
  ASSUME TypeOK, NEW p \in Paths, NEW c \in Content,
         install' = [install EXCEPT ![p] = c]
  PROVE  install' \in [Paths -> Content]
BY DEF TypeOK

\* A removal that fails leaves something an item may be.
LEMMA FailedRemoveType ==
  ASSUME TypeOK, NEW p \in Paths
  PROVE  AfterFailedRemove(p) \subseteq Content
BY DEF TypeOK, AfterFailedRemove, Content

\* What the types need to be inductive: a thread that is copying has an item to
\* copy.
CopiesAnItem == \A u \in Updaters : pc[u] \in {"copy", "r_copy"} => at[u] \in Paths

LEMMA CopiesStep == TypeOK /\ CopiesAnItem /\ [Next]_vars => CopiesAnItem'
<1> SUFFICES ASSUME TypeOK, CopiesAnItem, [Next]_vars PROVE CopiesAnItem'  OBVIOUS
<1> USE DEF Goto, TypeOK, CopiesAnItem
<1>1. ASSUME NEW u \in Updaters, UpdaterStep(u) PROVE CopiesAnItem'
  <2>1. CASE StartUpdate(u) \/ ManualBackup(u) \/ ManualRollback(u)
    BY <2>1 DEF StartUpdate, ManualBackup, ManualRollback, StartBackup
  <2>2. CASE BackUpItem(u) \/ FinishBackup(u)
    BY <2>2 DEF BackUpItem, FinishBackup, AfterBackup, Done
  <2>3. CASE Extract(u) \/ SkipItem(u) \/ CopyItem(u) \/ FinishUpdate(u)
    BY <2>3 DEF Extract, SkipItem, CopyItem, FinishUpdate, RollBack, Done
  <2>4. CASE RemoveItem(u) \/ KeepItem(u) \/ ClearItem(u) \/ PutItemBack(u) \/ FinishRestore(u)
    BY <2>4 DEF RemoveItem, KeepItem, ClearItem, PutItemBack, FinishRestore, RollBack, Done
  <2> QED  BY <1>1, <2>1, <2>2, <2>3, <2>4 DEF UpdaterStep
<1>2. CASE Crash \/ Launch \/ Tick \/ UNCHANGED vars
  BY <1>2 DEF Crash, Launch, Tick, vars, localVars, All
<1> QED  BY <1>1, <1>2 DEF Next

\* Every step keeps the types: one step of the proof per action.
LEMMA PackageTypeStep == TypeOK /\ CopiesAnItem /\ [Next]_vars => TypeOK'
<1> SUFFICES ASSUME TypeOK, CopiesAnItem, [Next]_vars PROVE TypeOK'  OBVIOUS
<1> USE DEF Goto, Replacing, Restoring
<1>0. 1 \in Names /\ 1 \in 1..(Count + 1) /\ Nothing \in [Paths -> Content]
  BY UpdateConstantsOK DEF UpdateConstantsOK, Names, Nothing, Content
<1>1. ASSUME NEW u \in Updaters, NEW what \in {"update", "backup"}, StartBackup(u, what),
             pkg' \in [Updaters -> [Paths -> Content]]
      PROVE  TypeOK'
  BY <1>0, <1>1 DEF StartBackup, TypeOK, historyVars
<1>2. ASSUME NEW u \in Updaters, StartUpdate(u) PROVE TypeOK'
  <2>1. pkg' \in [Updaters -> [Paths -> Content]]
    BY <1>2, PackagesType DEF StartUpdate, TypeOK
  <2> QED  BY <1>1, <1>2, <2>1 DEF StartUpdate
<1>3. ASSUME NEW u \in Updaters, ManualBackup(u) PROVE TypeOK'
  <2>1. pkg' \in [Updaters -> [Paths -> Content]]  BY <1>3 DEF ManualBackup, TypeOK
  <2> QED  BY <1>1, <1>3, <2>1 DEF ManualBackup
<1>4. ASSUME NEW u \in Updaters, ManualRollback(u) PROVE TypeOK'
  BY <1>0, <1>4 DEF ManualRollback, TypeOK, fileVars, historyVars
<1>5. ASSUME NEW u \in Updaters, BackUpItem(u) PROVE TypeOK'
  <2>1. at[u] \in Paths /\ at[u] + 1 \in 1..(Count + 1) /\ name[u] \in Names
    BY <1>5, UpdateConstantsOK DEF UpdateConstantsOK, BackUpItem, TypeOK, Paths
  <2>2. failed' \in [Updaters -> BOOLEAN]  BY <1>5 DEF BackUpItem, TypeOK
  <2>3. backups' \in [Names -> [Paths -> Content]]
    <3>1. \/ UNCHANGED backups
          \/ \E c \in {install[at[u]], "partial"} :
               backups' = [backups EXCEPT ![name[u]][at[u]] = c]
      BY <1>5 DEF BackUpItem, CopyToBackup
    <3>2. {install[at[u]], "partial"} \subseteq Content  BY <2>1 DEF TypeOK, Content
    <3>3. /\ backups \in [Names -> [Paths -> Content]]
          /\ \A c \in Content : [backups[name[u]] EXCEPT ![at[u]] = c] \in [Paths -> Content]
      BY <2>1 DEF TypeOK
    <3> QED  BY <2>1, <3>1, <3>2, <3>3
  <2>4. taken' \subseteq Names  BY <1>5, <2>1 DEF BackUpItem, CopyToBackup, TypeOK
  <2> QED  BY <1>5, <2>1, <2>2, <2>3, <2>4 DEF BackUpItem, TypeOK, historyVars
<1>6. ASSUME NEW u \in Updaters, FinishBackup(u) PROVE TypeOK'
  <2>1. taken' \subseteq Names  BY <1>6 DEF FinishBackup, NewestOf, TypeOK
  <2>2. backups' \in [Names -> [Paths -> Content]]
    BY <1>0, <1>6 DEF FinishBackup, TypeOK
  <2>3. CASE Done(u)
    BY <1>6, <2>1, <2>2, <2>3, DoneType DEF FinishBackup, TypeOK, historyVars
  <2>4. CASE /\ Goto(u, "extract", 1)
             /\ UNCHANGED <<op, name, pkg, failed, was>>
    BY <1>0, <1>6, <2>1, <2>2, <2>4 DEF FinishBackup, TypeOK, historyVars
  <2> QED  BY <1>6, <2>3, <2>4 DEF FinishBackup, AfterBackup
<1>7. ASSUME NEW u \in Updaters, Extract(u) PROVE TypeOK'
  <2>1. CASE Done(u)
    BY <1>7, <2>1, DoneType DEF Extract, TypeOK, fileVars, historyVars
  <2>2. CASE /\ Goto(u, "remove", 1)
             /\ UNCHANGED <<op, name, pkg, failed, was>>
    BY <1>0, <1>7, <2>2 DEF Extract, TypeOK, fileVars, historyVars
  <2>3. CASE /\ RollBack(u)
             /\ UNCHANGED <<op, name, pkg, was>>
    BY <1>0, <1>7, <2>3 DEF Extract, RollBack, TypeOK, fileVars, historyVars
  <2> QED  BY <1>7, <2>1, <2>2, <2>3 DEF Extract
<1>8. ASSUME NEW u \in Updaters, SkipItem(u) \/ KeepItem(u) PROVE TypeOK'
  <2>1. at[u] + 1 \in 1..(Count + 1)
    BY <1>8, UpdateConstantsOK DEF UpdateConstantsOK, SkipItem, KeepItem, TypeOK, Paths
  <2> QED  BY <1>8, <2>1 DEF SkipItem, KeepItem, TypeOK, fileVars, historyVars
<1>9. ASSUME NEW u \in Updaters, RemoveItem(u) \/ ClearItem(u) PROVE TypeOK'
  <2>1. at[u] \in Paths /\ at[u] + 1 \in 1..(Count + 1)
    BY <1>9, UpdateConstantsOK DEF UpdateConstantsOK, RemoveItem, ClearItem, TypeOK, Paths
  <2>2. install' \in [Paths -> Content]
    BY <1>9, <2>1, InstallType, FailedRemoveType DEF RemoveItem, ClearItem, Content
  <2>3. broken' \in BOOLEAN /\ base' \in Names
    BY <1>9 DEF RemoveItem, ClearItem, Touch, TypeOK
  <2>4. CASE RemoveItem(u)
    BY <1>0, <2>1, <2>2, <2>3, <2>4 DEF RemoveItem, RollBack, TypeOK
  <2>5. CASE ClearItem(u)
    <3>1. /\ pc' \in [Updaters -> {"idle", "backup", "extract"} \cup Replacing \cup Restoring]
          /\ at' \in [Updaters -> 1..(Count + 1)]
          /\ failed' \in [Updaters -> BOOLEAN]
      <4>1. CASE /\ Goto(u, "r_copy", at[u])
                 /\ UNCHANGED failed
        BY <2>1, <4>1 DEF TypeOK
      <4>2. CASE /\ failed' = [failed EXCEPT ![u] = TRUE]
                 /\ Goto(u, "r_remove", at[u] + 1)
        BY <2>1, <4>2 DEF TypeOK
      <4> QED  BY <2>5, <4>1, <4>2 DEF ClearItem
    <3>2. UNCHANGED <<backups, taken, clock, up, op, name, pkg, was>>  BY <2>5 DEF ClearItem
    <3> QED  BY <2>2, <2>3, <3>1, <3>2 DEF TypeOK
  <2> QED  BY <1>9, <2>4, <2>5
<1>10. ASSUME NEW u \in Updaters, CopyItem(u) \/ PutItemBack(u) PROVE TypeOK'
  <2>1. at[u] \in Paths /\ at[u] + 1 \in 1..(Count + 1)
    BY <1>10, UpdateConstantsOK DEF UpdateConstantsOK, CopyItem, PutItemBack, CopiesAnItem,
       TypeOK, Paths
  <2>2. name[u] \in Names /\ pkg[u][at[u]] \in Content /\ backups[name[u]][at[u]] \in Content
    BY <2>1 DEF TypeOK
  <2>3. install' \in [Paths -> Content]
    BY <1>10, <2>1, <2>2, InstallType DEF CopyItem, PutItemBack, Content
  <2>4. CASE CopyItem(u)
    <3>1. /\ pc' \in [Updaters -> {"idle", "backup", "extract"} \cup Replacing \cup Restoring]
          /\ at' \in [Updaters -> 1..(Count + 1)]
          /\ failed' \in [Updaters -> BOOLEAN]
      <4>1. CASE /\ Goto(u, "remove", at[u] + 1)
                 /\ UNCHANGED failed
        BY <2>1, <4>1 DEF TypeOK
      <4>2. CASE RollBack(u)
        BY <1>0, <4>2 DEF RollBack, TypeOK
      <4> QED  BY <2>4, <4>1, <4>2 DEF CopyItem
    <3>2. UNCHANGED <<backups, taken, clock, up, op, name, pkg, was, historyVars>>
      BY <2>4 DEF CopyItem
    <3> QED  BY <2>3, <3>1, <3>2 DEF TypeOK, historyVars
  <2>5. CASE PutItemBack(u)
    BY <1>0, <2>1, <2>3, <2>5 DEF PutItemBack, TypeOK, historyVars
  <2> QED  BY <1>10, <2>4, <2>5
<1>11. ASSUME NEW u \in Updaters, FinishUpdate(u) \/ FinishRestore(u) PROVE TypeOK'
  BY <1>11, DoneType DEF FinishUpdate, FinishRestore, TypeOK, fileVars
<1>12. CASE Crash
  BY <1>0, <1>12 DEF Crash, All, TypeOK, fileVars, historyVars
<1>13. CASE Launch \/ UNCHANGED vars
  BY <1>13 DEF Launch, vars, TypeOK, fileVars, localVars, historyVars
<1>14. CASE Tick
  BY <1>14, UpdateConstantsOK
  DEF UpdateConstantsOK, Tick, TypeOK, fileVars, localVars, historyVars
<1> QED
  BY <1>2, <1>3, <1>4, <1>5, <1>6, <1>7, <1>8, <1>9, <1>10, <1>11, <1>12,
     <1>13, <1>14
  DEF Next, UpdaterStep

\* The types are right in every reachable state, for any items, versions, number
\* of threads and of backups kept, with or without failures.
THEOREM PackageTypes == Spec => []TypeOK
<1>1. Init => TypeOK /\ CopiesAnItem
  BY PackageInit DEF Init, CopiesAnItem, All
<1>2. TypeOK /\ CopiesAnItem /\ [Next]_vars => TypeOK' /\ CopiesAnItem'
  BY PackageTypeStep, CopiesStep
<1> QED  BY <1>1, <1>2, PTL DEF Spec

(***************************************************************************)
(* The rollback point                                                      *)
(***************************************************************************)

\* A backup that is not there holds nothing.
NothingStray == \A n \in Names \ taken : backups[n] = Nothing

\* While a backup is made nothing installed changes, it is the newest of all, and
\* unless an item failed it holds what was installed of the items gone through.
BackupSoFar ==
  \A u \in Updaters : pc[u] = "backup" =>
    /\ install = was[u]
    /\ name[u] \in taken /\ \A n \in taken : n <= name[u]
    /\ ~failed[u] =>
         \A p \in Paths :
           backups[name[u]][p] = IF p < at[u] THEN was[u][p] ELSE "absent"

RollbackInv == NothingStray /\ BackupSoFar /\ RollbackPoint

\* Pruning keeps a set's greatest name.
LEMMA NewestKeepsGreatest ==
  ASSUME NEW S \in SUBSET Names, NEW n \in S, \A m \in S : m <= n
  PROVE  n \in NewestOf(S)
<1>1. \A m \in S : m \in Int /\ n \in Int /\ ~(m > n)
  BY DEF Names
<1>2. Cardinality({ m \in S : m > n }) = 0
  <2>1. { m \in S : m > n } = {}  BY <1>1
  <2> QED  BY <2>1, FS_EmptySet
<1> QED  BY <1>2, UpdateConstantsOK DEF UpdateConstantsOK, NewestOf

\* A backup that went through every item without a failure is what was installed.
LEMMA CompleteBackup ==
  ASSUME TypeOK, BackupSoFar, NEW u \in Updaters,
         pc[u] = "backup", at[u] = Count + 1, ~failed[u]
  PROVE  backups[name[u]] = was[u]
<1>1. \A p \in Paths : p < at[u]
  BY UpdateConstantsOK DEF UpdateConstantsOK, Paths
<1>2. \A p \in Paths : backups[name[u]][p] = was[u][p]
  BY <1>1 DEF BackupSoFar
<1>3. name[u] \in Names  BY DEF TypeOK
<1>4. backups[name[u]] \in [Paths -> Content] /\ was[u] \in [Paths -> Content]
  BY <1>3 DEF TypeOK
<1> QED  BY <1>2, <1>4

\* With one operation at a time, each step that starts a backup finds the backup's
\* name free and newer than every other.
LEMMA FreshBackup ==
  ASSUME OncePerSecond, TypeOK, RollbackInv,
         NEW u \in Updaters, NEW what \in {"update", "backup"}, StartBackup(u, what),
         \A v \in Updaters : v = u
  PROVE  RollbackInv'
<1>1. \A n \in taken : n < NameOf(what) /\ n \in Names
  <2>1. \A n \in taken : n \in Nat /\ n < 2 * clock  BY DEF StartBackup, TypeOK, Names
  <2>2. clock \in Nat  BY UpdateConstantsOK DEF UpdateConstantsOK, TypeOK
  <2> QED  BY <2>1, <2>2 DEF NameOf, TypeOK
<1>2. NameOf(what) \in Names \ taken
  BY <1>1 DEF StartBackup, Names
<1>3. backups[NameOf(what)] = Nothing  BY <1>2 DEF RollbackInv, NothingStray
<1>4. NothingStray'  BY <1>2 DEF StartBackup, RollbackInv, NothingStray
<1>5. /\ pc'[u] = "backup" /\ at'[u] = 1 /\ name'[u] = NameOf(what)
      /\ was'[u] = install /\ install' = install /\ backups' = backups
      /\ taken' = taken \cup {NameOf(what)}
  BY DEF StartBackup, Goto, TypeOK
<1>6. \A p \in Paths : ~(p < 1)  BY DEF Paths
<1>7. BackupSoFar'
  <2>1. \A n \in taken' : n <= name'[u]
    BY <1>1, <1>2, <1>5 DEF Names
  <2>2. \A p \in Paths : backups'[name'[u]][p] = "absent"
    BY <1>3, <1>5 DEF Nothing
  <2> QED  BY <1>5, <1>6, <2>1, <2>2 DEF BackupSoFar
<1>8. RollbackPoint'  BY <1>5 DEF RollbackPoint, Replacing, Restoring
<1> QED  BY <1>4, <1>7, <1>8 DEF RollbackInv

\* Copying one more item into the backup.
LEMMA BackupGrows ==
  ASSUME TypeOK, RollbackInv, NEW u \in Updaters, BackUpItem(u),
         \A v \in Updaters : v = u
  PROVE  RollbackInv'
<1>1. /\ pc[u] = "backup" /\ pc'[u] = "backup" /\ at[u] \in Paths
      /\ at'[u] = at[u] + 1 /\ name[u] \in Names
      /\ UNCHANGED <<install, name, was>>
  BY DEF BackUpItem, Goto, TypeOK
<1>2. name[u] \in taken /\ install = was[u] /\ \A n \in taken : n <= name[u]
  BY <1>1 DEF RollbackInv, BackupSoFar
<1>3. taken' = taken  BY <1>2 DEF BackUpItem, CopyToBackup
<1>4. NothingStray'
  BY <1>1, <1>2, <1>3 DEF BackUpItem, CopyToBackup, RollbackInv, NothingStray, TypeOK
<1>5. ASSUME ~failed'[u], NEW p \in Paths
      PROVE  backups'[name[u]][p] = IF p < at[u] + 1 THEN was[u][p] ELSE "absent"
  <2>1. /\ p \in Int /\ at[u] \in Int
        /\ (p < at[u] + 1) <=> (p < at[u] \/ p = at[u])
    BY <1>1 DEF Paths
  <2>2. CASE /\ install[at[u]] = "absent"
             /\ UNCHANGED <<backups, failed>>
    BY <1>1, <1>2, <1>5, <2>1, <2>2 DEF RollbackInv, BackupSoFar
  <2>3. CASE /\ backups' = [backups EXCEPT ![name[u]][at[u]] = install[at[u]]]
             /\ UNCHANGED failed
    <3>1. backups'[name[u]][p] = IF p = at[u] THEN was[u][p] ELSE backups[name[u]][p]
      BY <1>1, <1>2, <2>3 DEF TypeOK
    <3> QED  BY <1>1, <1>5, <2>1, <2>3, <3>1 DEF RollbackInv, BackupSoFar
  <2>4. CASE failed' = [failed EXCEPT ![u] = TRUE]
    BY <1>5, <2>4 DEF TypeOK
  <2> QED  BY <2>2, <2>3, <2>4 DEF BackUpItem, CopyToBackup
<1>6. BackupSoFar'  BY <1>1, <1>2, <1>3, <1>5 DEF BackupSoFar
<1>7. RollbackPoint'  BY <1>1 DEF RollbackPoint, Replacing, Restoring
<1> QED  BY <1>4, <1>6, <1>7 DEF RollbackInv

\* The end of a backup: pruning spares it, and an update goes on only with a
\* complete one.
LEMMA BackupEnds ==
  ASSUME TypeOK, RollbackInv, NEW u \in Updaters, FinishBackup(u),
         \A v \in Updaters : v = u
  PROVE  RollbackInv'
<1>1. /\ pc[u] = "backup" /\ at[u] = Count + 1
      /\ name[u] \in taken /\ taken \in SUBSET Names
      /\ \A n \in taken : n <= name[u]
  BY DEF FinishBackup, RollbackInv, BackupSoFar, TypeOK
<1>2. name[u] \in NewestOf(taken)  BY <1>1, NewestKeepsGreatest
<1>3. NothingStray'
  BY DEF FinishBackup, NothingStray
<1>4. CASE Done(u)
  <2>1. pc'[u] = "idle"  BY <1>4 DEF Done, Goto, TypeOK
  <2> QED  BY <1>3, <2>1 DEF RollbackInv, BackupSoFar, RollbackPoint, Replacing, Restoring
<1>5. CASE /\ ~failed[u] /\ taken' = NewestOf(taken)
           /\ Goto(u, "extract", 1)
           /\ UNCHANGED <<op, name, pkg, failed, was>>
  <2>1. backups[name[u]] = was[u]
    BY <1>1, <1>5, CompleteBackup DEF RollbackInv
  <2>2. name[u] \in Names /\ name[u] \in taken'  BY <1>1, <1>2, <1>5
  <2>3. backups'[name[u]] = backups[name[u]]  BY <2>2 DEF FinishBackup
  <2>4. pc'[u] = "extract"  BY <1>5 DEF Goto, TypeOK
  <2> QED  BY <1>3, <1>5, <2>1, <2>2, <2>3, <2>4 DEF RollbackInv, BackupSoFar, RollbackPoint
<1> QED  BY <1>4, <1>5 DEF FinishBackup, AfterBackup

\* Installing and restoring touch no backup, and neither starts making one.
LEMMA BackupsUntouched ==
  ASSUME TypeOK, RollbackInv, NEW u \in Updaters,
         \/ Extract(u) \/ SkipItem(u) \/ RemoveItem(u) \/ CopyItem(u) \/ FinishUpdate(u)
         \/ KeepItem(u) \/ ClearItem(u) \/ PutItemBack(u) \/ FinishRestore(u),
         \A v \in Updaters : v = u
  PROVE  RollbackInv'
<1> USE DEF Replacing, Restoring
<1>1. UNCHANGED <<backups, taken>>
  BY DEF Extract, SkipItem, RemoveItem, CopyItem, FinishUpdate, KeepItem, ClearItem,
     PutItemBack, FinishRestore, fileVars
<1>2. NothingStray'  BY <1>1 DEF RollbackInv, NothingStray
<1>3. pc'[u] # "backup"
  BY DEF Extract, SkipItem, RemoveItem, CopyItem, FinishUpdate, KeepItem, ClearItem,
     PutItemBack, FinishRestore, RollBack, Done, Goto, TypeOK
<1>4. BackupSoFar'  BY <1>3 DEF BackupSoFar
<1>5. CASE Done(u)
  <2>1. pc'[u] = "idle"  BY <1>5 DEF Done, Goto, TypeOK
  <2> QED  BY <1>2, <1>4, <2>1 DEF RollbackInv, RollbackPoint
<1>6. CASE ~Done(u)
  <2>1. pc[u] \in {"extract"} \cup Replacing \cup Restoring /\ UNCHANGED <<op, name, was>>
    BY <1>6 DEF Extract, SkipItem, RemoveItem, CopyItem, FinishUpdate, KeepItem, ClearItem,
       PutItemBack, FinishRestore
  <2>2. RollbackPoint'  BY <1>1, <2>1 DEF RollbackInv, RollbackPoint
  <2> QED  BY <1>2, <1>4, <2>2 DEF RollbackInv
<1> QED  BY <1>5, <1>6

\* Every step of the program and of its surroundings keeps the invariant.
LEMMA RollbackStep ==
  ASSUME OncePerSecond, \A u, v \in Updaters : u = v,
         TypeOK, RollbackInv, [Next]_vars
  PROVE  RollbackInv'
<1>1. ASSUME NEW u \in Updaters, UpdaterStep(u) PROVE RollbackInv'
  <2>1. CASE StartUpdate(u) \/ ManualBackup(u)
    BY <2>1, FreshBackup DEF StartUpdate, ManualBackup
  <2>2. CASE ManualRollback(u)
    <3>1. /\ pc'[u] = "r_remove" /\ op'[u] = "rollback"
          /\ UNCHANGED <<backups, taken>>
      BY <2>2 DEF ManualRollback, Goto, TypeOK, fileVars
    <3> QED  BY <3>1 DEF RollbackInv, NothingStray, BackupSoFar, RollbackPoint
  <2> QED
    BY <1>1, <2>1, <2>2, BackupGrows, BackupEnds, BackupsUntouched DEF UpdaterStep
<1>2. CASE Crash
  BY <1>2 DEF Crash, All, fileVars, RollbackInv, NothingStray, BackupSoFar, RollbackPoint,
     Replacing, Restoring
<1>3. CASE Launch \/ Tick \/ UNCHANGED vars
  BY <1>3 DEF Launch, Tick, vars, fileVars, localVars, RollbackInv, NothingStray,
     BackupSoFar, RollbackPoint
<1> QED  BY <1>1, <1>2, <1>3 DEF Next

\* create_backup and apply_package: with one operation at a time and no two backups
\* in a second, whatever fails and whenever the process is killed, an update
\* that touches the install has a complete copy of what it started from.
THEOREM RollbackAlwaysPossible ==
  ASSUME OncePerSecond, \A u, v \in Updaters : u = v
  PROVE  Spec => []RollbackPoint
<1>1. Init => TypeOK /\ CopiesAnItem /\ RollbackInv
  BY PackageInit DEF Init, All, CopiesAnItem, RollbackInv, NothingStray, BackupSoFar,
     RollbackPoint, Replacing, Restoring
<1>2. /\ TypeOK /\ CopiesAnItem /\ RollbackInv /\ [Next]_vars
      => TypeOK' /\ CopiesAnItem' /\ RollbackInv'
  BY PackageTypeStep, CopiesStep, RollbackStep
<1>3. RollbackInv => RollbackPoint  BY DEF RollbackInv
<1> QED  BY <1>1, <1>2, <1>3, PTL DEF Spec

(***************************************************************************)
(* The way back                                                            *)
(***************************************************************************)

\* The newer ones of a set of names.
Above(S, n) == { m \in S : m > n }

\* Names are finitely many numbers.
LEMMA NamesFinite ==
  ASSUME NEW S \in SUBSET Names
  PROVE  IsFiniteSet(S) /\ \A n \in S : n \in Int
<1>1. 1 \in Int /\ 2 * MaxClock + 1 \in Int
  BY UpdateConstantsOK DEF UpdateConstantsOK
<1>2. IsFiniteSet(Names)  BY <1>1, FS_Interval DEF Names
<1>3. IsFiniteSet(S)  BY <1>2, FS_Subset
<1> QED  BY <1>3 DEF Names

\* A set of names has a greatest: the one with fewest above it.
LEMMA GreatestName ==
  ASSUME NEW S \in SUBSET Names, S # {}
  PROVE  \E x \in S : \A y \in S : ~(y > x)
<1> DEFINE T == { Above(S, x) : x \in S }
<1>1. IsFiniteSet(S) /\ \A n \in S : n \in Int  BY NamesFinite
<1>2. IsWellFoundedOn(StrictSubsetOrdering(S), SUBSET S)
  BY <1>1, FS_FiniteSubsetsOfFinite, FS_StrictSubsetOrderingWellFounded
<1>3. T \subseteq SUBSET S /\ T # {}  BY DEF Above
<1>4. PICK A \in T : \A B \in T : <<B, A>> \notin StrictSubsetOrdering(S)
  <2> HIDE DEF T
  <2> QED  BY <1>2, <1>3, WFMin
<1>5. PICK x \in S : A = Above(S, x)  OBVIOUS
<1>6. ASSUME NEW y \in S, y > x PROVE FALSE
  <2>1. Above(S, y) \subseteq Above(S, x)  BY <1>1, <1>6 DEF Above
  <2>2. y \in Above(S, x) /\ y \notin Above(S, y)  BY <1>1, <1>6 DEF Above
  <2>3. <<Above(S, y), Above(S, x)>> \in StrictSubsetOrdering(S)
    BY <2>1, <2>2 DEF StrictSubsetOrdering, Above
  <2> QED  BY <1>4, <1>5, <2>3
<1> QED  BY <1>6

\* Pruning takes a name, or keeps too few above one, only if there were Keep above it,
\* and then leaves Keep above it.
LEMMA PruningKeepsEnough ==
  ASSUME NEW S \in SUBSET Names, NEW b \in Names,
         b \in S \/ Cardinality(Above(S, b)) >= Keep
  PROVE  b \in NewestOf(S) \/ Cardinality(Above(NewestOf(S), b)) >= Keep
<1> DEFINE A == Above(NewestOf(S), b)
           B == Above(S, b)
<1>1. IsFiniteSet(S) /\ \A n \in S : n \in Int  BY NamesFinite
<1>2. b \in Int /\ Keep \in Nat \ {0}
  BY UpdateConstantsOK DEF UpdateConstantsOK, Names
<1>3. A \subseteq B /\ B \subseteq S /\ NewestOf(S) \subseteq S
  BY DEF NewestOf, Above
<1>4. /\ IsFiniteSet(A) /\ IsFiniteSet(B)
      /\ Cardinality(A) \in Nat /\ Cardinality(B) \in Nat
  <2> HIDE DEF A, B
  <2>1. A \in SUBSET S /\ B \in SUBSET S  BY <1>3
  <2> QED  BY <1>1, <2>1, FS_Subset, FS_CardinalityType
<1>5. SUFFICES ASSUME b \notin NewestOf(S), Cardinality(A) < Keep
               PROVE  FALSE
  BY <1>2, <1>4
<1>6. Cardinality(B) >= Keep
  <2>1. CASE b \in S
    <3>1. ~(Cardinality(B) < Keep)  BY <1>5, <2>1 DEF NewestOf, Above
    <3> QED  BY <1>2, <1>4, <3>1
  <2> QED  BY <2>1
<1>7. B \ A # {}
  <2> SUFFICES ASSUME B \ A = {} PROVE FALSE  OBVIOUS
  <2>1. A = B  BY <1>3
  <2> HIDE DEF A, B
  <2> QED  BY <1>2, <1>4, <1>5, <1>6, <2>1
<1>8. PICK x \in B \ A : \A y \in B \ A : ~(y > x)
  <2>1. B \ A \in SUBSET Names  BY <1>3
  <2> HIDE DEF A, B
  <2> QED  BY <1>7, <2>1, GreatestName
<1>9. Above(S, x) \subseteq A
  <2> SUFFICES ASSUME NEW y \in S, y > x PROVE y \in A  BY DEF Above
  <2>1. x \in S /\ x > b  BY DEF Above
  <2>2. y > b  BY <1>1, <1>2, <2>1
  <2>3. y \in B  BY <2>2 DEF Above
  <2> QED  BY <1>8, <2>3
<1>10. Cardinality(Above(S, x)) <= Cardinality(A) /\ Cardinality(Above(S, x)) \in Nat
  <2> HIDE DEF A
  <2>1. Above(S, x) \in SUBSET A  BY <1>9
  <2> QED  BY <1>4, <2>1, FS_Subset, FS_CardinalityType
<1>11. x \in NewestOf(S)
  <2>1. x \in S  BY <1>3
  <2>2. Cardinality(Above(S, x)) < Keep  BY <1>2, <1>4, <1>5, <1>10
  <2> QED  BY <2>1, <2>2 DEF NewestOf, Above
<1>12. x \in A  BY <1>8, <1>11 DEF Above
<1> QED  BY <1>8, <1>12

\* Among more backups there are as many newer ones.
LEMMA MoreAreEnough ==
  ASSUME NEW S \in SUBSET Names, NEW T \in SUBSET Names, S \subseteq T, NEW b,
         b \in S \/ Cardinality(Above(S, b)) >= Keep
  PROVE  b \in T \/ Cardinality(Above(T, b)) >= Keep
<1>1. Above(T, b) \in SUBSET T /\ Above(S, b) \in SUBSET Above(T, b)  BY DEF Above
<1>2. IsFiniteSet(Above(T, b))  BY <1>1, NamesFinite
<1>3. /\ Cardinality(Above(S, b)) <= Cardinality(Above(T, b))
      /\ Cardinality(Above(S, b)) \in Nat /\ Cardinality(Above(T, b)) \in Nat
  BY <1>1, <1>2, FS_Subset, FS_CardinalityType
<1> QED  BY <1>3, UpdateConstantsOK DEF UpdateConstantsOK

\* The backups that are not being made just now.
Settled == { n \in taken : \A u \in Updaters : pc[u] = "backup" => n # name[u] }

\* A backup under way may still be deleted, so there is a way back without it.
WayInv ==
  broken => base \in Settled \/ Cardinality(Above(Settled, base)) >= Keep

\* The backups that were settled stay, and the one in question with them.
LEMMA SettledGrows ==
  ASSUME TypeOK, TypeOK', WayInv, Settled \subseteq Settled',
         UNCHANGED base, broken' => broken
  PROVE  WayInv'
<1>1. Settled \in SUBSET Names /\ Settled' \in SUBSET Names  BY DEF Settled, TypeOK
<1>2. ASSUME broken' PROVE base' \in Settled' \/ Cardinality(Above(Settled', base')) >= Keep
  BY <1>1, <1>2, MoreAreEnough DEF WayInv
<1>3. WayInv' = (broken' => base' \in Settled' \/ Cardinality(Above(Settled', base')) >= Keep)
  BY DEF WayInv, Above
<1> QED  BY <1>2, <1>3

\* A backup that is started is not settled, and the others are as they were.
LEMMA WayStarts ==
  ASSUME OncePerSecond, TypeOK, TypeOK', WayInv,
         NEW u \in Updaters, NEW what \in {"update", "backup"}, StartBackup(u, what),
         \A v \in Updaters : v = u
  PROVE  WayInv'
<1>1. /\ pc[u] = "idle" /\ pc'[u] = "backup" /\ name'[u] = NameOf(what)
      /\ taken' = taken \cup {NameOf(what)} /\ UNCHANGED historyVars
  BY DEF StartBackup, Goto, TypeOK
<1>2. NameOf(what) \notin taken
  <2>1. \A n \in taken : n \in Nat /\ n < 2 * clock  BY DEF StartBackup, TypeOK, Names
  <2>2. clock \in Nat  BY UpdateConstantsOK DEF UpdateConstantsOK, TypeOK
  <2> QED  BY <2>1, <2>2 DEF NameOf
<1>3. Settled \subseteq Settled'  BY <1>1, <1>2 DEF Settled
<1> QED  BY <1>1, <1>3, SettledGrows DEF historyVars

\* The end of a backup: it goes, or what is beyond Keep goes.
LEMMA WayPruned ==
  ASSUME TypeOK, TypeOK', RollbackInv, WayInv, NEW u \in Updaters, FinishBackup(u),
         \A v \in Updaters : v = u
  PROVE  WayInv'
<1>1. /\ pc[u] = "backup" /\ UNCHANGED <<broken, base>> /\ taken \in SUBSET Names
      /\ base \in Names
  BY DEF FinishBackup, historyVars, TypeOK
<1>2. pc'[u] # "backup"
  BY DEF FinishBackup, AfterBackup, Done, Goto, TypeOK
<1>3. Settled = taken \ {name[u]} /\ Settled' = taken'
  BY <1>1, <1>2 DEF Settled
<1>4. CASE taken' = taken \ {name[u]}
  BY <1>1, <1>3, <1>4, SettledGrows
<1>5. CASE taken' = NewestOf(taken)
  <2>1. SUFFICES ASSUME broken
                 PROVE  base \in taken' \/ Cardinality(Above(taken', base)) >= Keep
    BY <1>1, <1>3 DEF WayInv, Above
  <2>2. base \in Settled \/ Cardinality(Above(Settled, base)) >= Keep
    BY <2>1 DEF WayInv
  <2>3. Settled \in SUBSET Names /\ Settled \subseteq taken  BY <1>1, <1>3
  <2>4. base \in taken \/ Cardinality(Above(taken, base)) >= Keep
    BY <1>1, <2>2, <2>3, MoreAreEnough
  <2> QED  BY <1>1, <1>5, <2>4, PruningKeepsEnough
<1> QED  BY <1>4, <1>5 DEF FinishBackup

\* An update that begins to change items has its backup, and it is settled.
LEMMA WayBegins ==
  ASSUME TypeOK, TypeOK', RollbackInv, WayInv, NEW u \in Updaters,
         RemoveItem(u) \/ ClearItem(u), \A v \in Updaters : v = u
  PROVE  WayInv'
<1> USE DEF Replacing, Restoring
<1>1. /\ pc[u] \in Replacing \cup Restoring /\ UNCHANGED <<taken, name>>
      /\ Touch(u)
  BY DEF RemoveItem, ClearItem
<1>2. pc'[u] # "backup"
  BY DEF RemoveItem, ClearItem, RollBack, Goto, TypeOK
<1>3. Settled = taken /\ Settled' = taken  BY <1>1, <1>2 DEF Settled
<1>4. CASE op[u] = "update" /\ ~broken
  <2>1. name[u] \in taken /\ base' = name[u]
    BY <1>1, <1>4 DEF RollbackInv, RollbackPoint, Touch
  <2> QED  BY <1>3, <2>1 DEF WayInv
<1>5. CASE ~(op[u] = "update" /\ ~broken)
  <2>1. UNCHANGED base /\ (broken' => broken)  BY <1>1, <1>5 DEF Touch
  <2> QED  BY <1>3, <2>1, SettledGrows
<1> QED  BY <1>4, <1>5

\* Every step keeps the way back.
LEMMA WayStep ==
  ASSUME OncePerSecond, \A u, v \in Updaters : u = v,
         TypeOK, TypeOK', RollbackInv, WayInv, [Next]_vars
  PROVE  WayInv'
<1> USE DEF Replacing, Restoring
<1>1. ASSUME NEW u \in Updaters, UpdaterStep(u) PROVE WayInv'
  <2>1. CASE StartUpdate(u) \/ ManualBackup(u)
    BY <2>1, WayStarts DEF StartUpdate, ManualBackup
  <2>2. CASE ManualRollback(u)
    <3>1. /\ pc[u] = "idle" /\ pc'[u] = "r_remove" /\ UNCHANGED <<taken, broken, base>>
      BY <2>2 DEF ManualRollback, Goto, TypeOK, fileVars, historyVars
    <3>2. Settled \subseteq Settled'  BY <3>1 DEF Settled
    <3> QED  BY <3>1, <3>2, SettledGrows
  <2>3. CASE BackUpItem(u)
    <3>1. /\ pc[u] = "backup" /\ pc'[u] = "backup" /\ UNCHANGED <<name, broken, base>>
          /\ taken \subseteq taken'
      BY <2>3 DEF BackUpItem, CopyToBackup, Goto, TypeOK, historyVars
    <3>2. Settled \subseteq Settled'  BY <3>1 DEF Settled
    <3> QED  BY <3>1, <3>2, SettledGrows
  <2>4. CASE FinishBackup(u)  BY <2>4, WayPruned
  <2>5. CASE RemoveItem(u) \/ ClearItem(u)  BY <2>5, WayBegins
  <2>6. CASE \/ Extract(u) \/ SkipItem(u) \/ CopyItem(u) \/ FinishUpdate(u)
             \/ KeepItem(u) \/ PutItemBack(u) \/ FinishRestore(u)
    <3>1. UNCHANGED <<taken, base>> /\ (broken' => broken)
      <4>1. CASE Extract(u) \/ SkipItem(u) \/ CopyItem(u) \/ KeepItem(u) \/ PutItemBack(u)
        BY <4>1 DEF Extract, SkipItem, CopyItem, KeepItem, PutItemBack, fileVars, historyVars
      <4>2. CASE FinishUpdate(u)  BY <4>2 DEF FinishUpdate, fileVars
      <4>3. CASE FinishRestore(u)  BY <4>3, Zenon DEF FinishRestore, fileVars
      <4> QED  BY <2>6, <4>1, <4>2, <4>3
    <3>2. pc'[u] # "backup" /\ pc[u] # "backup"
      BY <2>6 DEF Extract, SkipItem, CopyItem, FinishUpdate, KeepItem, PutItemBack,
                  FinishRestore, RollBack, Done, Goto, TypeOK
    <3>3. Settled \subseteq Settled'  BY <3>1, <3>2 DEF Settled
    <3> QED  BY <3>1, <3>3, SettledGrows
  <2> QED
    BY <1>1, <2>1, <2>2, <2>3, <2>4, <2>5, <2>6 DEF UpdaterStep
<1>2. CASE Crash
  <2>1. \A u \in Updaters : pc'[u] # "backup"  BY <1>2 DEF Crash, All
  <2>2. Settled \subseteq Settled' /\ UNCHANGED <<broken, base>>
    BY <1>2, <2>1 DEF Crash, Settled, fileVars, historyVars
  <2> QED  BY <2>2, SettledGrows
<1>3. CASE Launch \/ Tick \/ UNCHANGED vars
  <2>1. UNCHANGED <<taken, pc, name, broken, base>>
    BY <1>3 DEF Launch, Tick, vars, fileVars, localVars, historyVars
  <2>2. Settled \subseteq Settled'  BY <2>1 DEF Settled
  <2> QED  BY <2>1, <2>2, SettledGrows
<1> QED  BY <1>1, <1>2, <1>3 DEF Next

\* create_backup and _prune_backups: with one operation at a time and no two backups in
\* a second, an update that was cut short keeps its backup through deaths, restarts and
\* failed attempts, until Keep newer ones have pushed it out.
THEOREM BackupOutlivesFailure ==
  ASSUME OncePerSecond, \A u, v \in Updaters : u = v
  PROVE  Spec => []WayBack
<1>1. Init => TypeOK /\ CopiesAnItem /\ RollbackInv /\ WayInv
  BY PackageInit DEF Init, All, CopiesAnItem, RollbackInv, NothingStray, BackupSoFar,
     RollbackPoint, WayInv, Replacing, Restoring
<1>2. /\ TypeOK /\ CopiesAnItem /\ RollbackInv /\ WayInv /\ [Next]_vars
      => TypeOK' /\ CopiesAnItem' /\ RollbackInv' /\ WayInv'
  BY PackageTypeStep, CopiesStep, RollbackStep, WayStep
<1>3. TypeOK /\ WayInv => WayBack
  <2> SUFFICES ASSUME TypeOK, WayInv, broken
               PROVE  base \in taken \/ Cardinality(Above(taken, base)) >= Keep
    BY DEF WayBack, Above
  <2>1. Settled \in SUBSET Names /\ taken \in SUBSET Names /\ Settled \subseteq taken
    BY DEF TypeOK, Settled
  <2> QED  BY <2>1, MoreAreEnough DEF WayInv
<1> QED  BY <1>1, <1>2, <1>3, PTL DEF Spec

(***************************************************************************)
(* What an operation reports                                               *)
(***************************************************************************)

\* What an update makes of an item.
Outcome(u, p) == IF pkg[u][p] = "absent" THEN was[u][p] ELSE pkg[u][p]

\* Until an update replaces items what is installed is what was; then the items gone
\* through are new and the others old.
UpdateSoFar ==
  \A u \in Updaters :
    /\ pc[u] \in {"backup", "extract"} => install = was[u]
    /\ pc[u] \in Replacing => \A p \in Paths :
         /\ p < at[u] => install[p] = Outcome(u, p)
         /\ p > at[u] \/ (p = at[u] /\ pc[u] = "remove") => install[p] = was[u][p]
    /\ pc[u] = "copy" => pkg[u][at[u]] # "absent"

\* While nothing failed the items gone through are the backup's, if it has them.
RestoreSoFar ==
  \A u \in Updaters : pc[u] \in Restoring /\ ~failed[u] => \A p \in Paths :
    p < at[u] => backups[name[u]][p] \in {"absent", install[p]}

ReportInv == UpdateSoFar /\ RestoreSoFar

\* A thread that has returned, or has just begun to put items back.
LEMMA NothingToReport ==
  ASSUME TypeOK, NEW u \in Updaters, \A v \in Updaters : v = u,
         \/ pc'[u] = "idle"
         \/ pc'[u] = "r_remove" /\ at'[u] = 1
  PROVE  ReportInv'
<1>1. \A p \in Paths : ~(p < 1)  BY DEF Paths
<1> QED  BY <1>1 DEF ReportInv, UpdateSoFar, RestoreSoFar, Replacing, Restoring

\* The steps of an update.
LEMMA UpdateReports ==
  ASSUME TypeOK, CopiesAnItem, ReportInv, NEW u \in Updaters, \A v \in Updaters : v = u,
         \/ BackUpItem(u) \/ FinishBackup(u) \/ Extract(u)
         \/ SkipItem(u) \/ RemoveItem(u) \/ CopyItem(u) \/ FinishUpdate(u)
  PROVE  ReportInv'
<1> USE DEF Replacing, Restoring
<1>1. CASE Done(u)
  <2>1. pc'[u] = "idle"  BY <1>1 DEF Done, Goto, TypeOK
  <2> QED  BY <2>1, NothingToReport
<1>2. CASE RollBack(u)
  <2>1. pc'[u] = "r_remove" /\ at'[u] = 1  BY <1>2 DEF RollBack, Goto, TypeOK
  <2> QED  BY <2>1, NothingToReport
<1>3. CASE BackUpItem(u) \/ (FinishBackup(u) /\ ~Done(u))
  <2>1. /\ pc[u] = "backup" /\ pc'[u] \in {"backup", "extract"}
        /\ UNCHANGED <<install, was>>
    BY <1>3 DEF BackUpItem, FinishBackup, AfterBackup, Goto, TypeOK
  <2> QED  BY <2>1 DEF ReportInv, UpdateSoFar, RestoreSoFar
<1>4. CASE Extract(u) /\ ~Done(u) /\ ~RollBack(u)
  <2>1. /\ pc[u] = "extract" /\ pc'[u] = "remove" /\ at'[u] = 1
        /\ UNCHANGED <<install, was>>
    BY <1>4 DEF Extract, Goto, TypeOK, fileVars
  <2>2. \A p \in Paths : ~(p < 1)  BY DEF Paths
  <2> QED  BY <2>1, <2>2 DEF ReportInv, UpdateSoFar, RestoreSoFar
<1>5. CASE SkipItem(u)
  <2>1. /\ pc[u] = "remove" /\ pc'[u] = "remove" /\ at[u] \in Paths /\ at'[u] = at[u] + 1
        /\ pkg[u][at[u]] = "absent" /\ UNCHANGED <<install, pkg, was>>
    BY <1>5 DEF SkipItem, Goto, TypeOK, fileVars
  <2>2. \A p \in Paths : ((p < at[u] + 1) <=> (p < at[u] \/ p = at[u]))
                        /\ ((p > at[u] + 1 \/ p = at[u] + 1) <=> (p > at[u]))
    BY <2>1 DEF Paths
  <2>3. ASSUME NEW p \in Paths, p < at'[u] PROVE install'[p] = Outcome(u, p)'
    BY <2>1, <2>2, <2>3 DEF ReportInv, UpdateSoFar, Outcome
  <2>4. ASSUME NEW p \in Paths, p > at'[u] \/ p = at'[u] PROVE install'[p] = was'[u][p]
    BY <2>1, <2>2, <2>4 DEF ReportInv, UpdateSoFar
  <2> QED  BY <2>1, <2>3, <2>4 DEF ReportInv, UpdateSoFar, RestoreSoFar
<1>6. CASE RemoveItem(u) /\ ~RollBack(u)
  <2>1. /\ pc[u] = "remove" /\ pc'[u] = "copy" /\ at[u] \in Paths /\ at'[u] = at[u]
        /\ install' = [install EXCEPT ![at[u]] = "absent"] /\ UNCHANGED <<pkg, was>>
        /\ pkg[u][at[u]] # "absent"
    BY <1>6 DEF RemoveItem, Goto, TypeOK
  <2>2. \A p \in Paths : p # at[u] => install'[p] = install[p]  BY <2>1 DEF TypeOK
  <2>3. \A p \in Paths : p < at[u] \/ p > at[u] => p # at[u]  BY <2>1 DEF Paths
  <2> QED  BY <2>1, <2>2, <2>3 DEF ReportInv, UpdateSoFar, RestoreSoFar, Outcome
<1>7. CASE CopyItem(u) /\ ~RollBack(u)
  <2>1. /\ pc[u] = "copy" /\ pc'[u] = "remove" /\ at[u] \in Paths /\ at'[u] = at[u] + 1
        /\ install' = [install EXCEPT ![at[u]] = pkg[u][at[u]]] /\ UNCHANGED <<pkg, was>>
    BY <1>7 DEF CopyItem, Goto, TypeOK, CopiesAnItem
  <2>2. \A p \in Paths : install'[p] = IF p = at[u] THEN pkg[u][p] ELSE install[p]
    BY <2>1 DEF TypeOK
  <2>3. \A p \in Paths :
          /\ (p < at[u] + 1) <=> (p < at[u] \/ p = at[u])
          /\ (p > at[u] + 1 \/ p = at[u] + 1) <=> (p > at[u])
          /\ p > at[u] => p # at[u]
    <3>1. at[u] \in Int /\ \A p \in Paths : p \in Int  BY <2>1 DEF Paths
    <3> QED  BY <3>1
  <2>4. pkg[u][at[u]] # "absent"  BY <2>1 DEF ReportInv, UpdateSoFar
  <2>5. ASSUME NEW p \in Paths
        PROVE  /\ p < at[u] => install[p] = Outcome(u, p)
               /\ p > at[u] => install[p] = was[u][p]
    BY <2>1 DEF ReportInv, UpdateSoFar
  <2>6. ASSUME NEW p \in Paths, p < at'[u] PROVE install'[p] = Outcome(u, p)'
    <3>1. p < at[u] \/ p = at[u]  BY <2>1, <2>3, <2>6
    <3>2. CASE p = at[u]  BY <2>1, <2>2, <2>4, <3>2 DEF Outcome
    <3>3. CASE p < at[u] /\ p # at[u]  BY <2>1, <2>2, <2>5, <3>3 DEF Outcome
    <3> QED  BY <3>1, <3>2, <3>3
  <2>7. ASSUME NEW p \in Paths, p > at'[u] \/ p = at'[u] PROVE install'[p] = was'[u][p]
    <3>1. p > at[u] /\ p # at[u]  BY <2>1, <2>3, <2>7
    <3> QED  BY <2>1, <2>2, <2>5, <3>1
  <2> QED  BY <2>1, <2>6, <2>7 DEF ReportInv, UpdateSoFar, RestoreSoFar
<1>8. CASE FinishUpdate(u)  BY <1>1, <1>8 DEF FinishUpdate
<1> QED  BY <1>1, <1>2, <1>3, <1>4, <1>5, <1>6, <1>7, <1>8

\* The steps of a restore, which changes no backup.
LEMMA RestoreReports ==
  ASSUME TypeOK, CopiesAnItem, ReportInv, NEW u \in Updaters, \A v \in Updaters : v = u,
         KeepItem(u) \/ ClearItem(u) \/ PutItemBack(u)
  PROVE  ReportInv'
<1> USE DEF Replacing, Restoring
<1>1. /\ at[u] \in Paths /\ pc[u] \in Restoring /\ pc'[u] \in Restoring
      /\ UNCHANGED <<backups, name>>
  BY DEF KeepItem, ClearItem, PutItemBack, CopiesAnItem, Goto, TypeOK, fileVars
<1>2. \A p \in Paths :
        /\ (p < at[u] + 1) <=> (p < at[u] \/ p = at[u])
        /\ p < at[u] => p # at[u]
  BY <1>1 DEF Paths
<1>3. ASSUME NEW p \in Paths, p < at'[u], ~failed'[u]
      PROVE  backups[name[u]][p] \in {"absent", install'[p]}
  <2>1. CASE KeepItem(u)
    <3>1. /\ at'[u] = at[u] + 1 /\ UNCHANGED <<install, failed>>
          /\ backups[name[u]][at[u]] = "absent"
      BY <2>1 DEF KeepItem, Goto, TypeOK, fileVars
    <3>2. p < at[u] \/ p = at[u]  BY <1>2, <1>3, <3>1
    <3>3. p < at[u] => backups[name[u]][p] \in {"absent", install[p]}
      BY <1>1, <1>3, <3>1 DEF ReportInv, RestoreSoFar
    <3> QED  BY <3>1, <3>2, <3>3
  <2>2. CASE ClearItem(u)
    <3>1. at'[u] = at[u] /\ UNCHANGED failed /\ install' = [install EXCEPT ![at[u]] = "absent"]
      BY <1>3, <2>2 DEF ClearItem, Goto, TypeOK
    <3>2. install'[p] = install[p]  BY <1>1, <1>2, <1>3, <3>1 DEF TypeOK
    <3> QED  BY <1>1, <1>3, <3>1, <3>2 DEF ReportInv, RestoreSoFar
  <2>3. CASE PutItemBack(u)
    <3>1. /\ at'[u] = at[u] + 1 /\ UNCHANGED failed
          /\ install' = [install EXCEPT ![at[u]] = backups[name[u]][at[u]]]
      BY <1>3, <2>3 DEF PutItemBack, Goto, TypeOK
    <3>2. install'[p] = IF p = at[u] THEN backups[name[u]][p] ELSE install[p]
      BY <1>1, <3>1 DEF TypeOK
    <3>3. p < at[u] \/ p = at[u]  BY <1>2, <1>3, <3>1
    <3>4. p < at[u] => backups[name[u]][p] \in {"absent", install[p]}
      BY <1>1, <1>3, <3>1 DEF ReportInv, RestoreSoFar
    <3> QED  BY <1>2, <3>2, <3>3, <3>4
  <2> QED  BY <2>1, <2>2, <2>3
<1> QED  BY <1>1, <1>3 DEF ReportInv, UpdateSoFar, RestoreSoFar

\* Every step keeps what is reported true.
LEMMA ReportStep ==
  ASSUME \A u, v \in Updaters : u = v, TypeOK, CopiesAnItem, ReportInv, [Next]_vars
  PROVE  ReportInv'
<1> USE DEF Replacing, Restoring
<1>1. ASSUME NEW u \in Updaters, UpdaterStep(u) PROVE ReportInv'
  <2>1. CASE StartUpdate(u) \/ ManualBackup(u)
    <3>1. pc'[u] = "backup" /\ install' = install /\ was'[u] = install
      BY <2>1 DEF StartUpdate, ManualBackup, StartBackup, Goto, TypeOK
    <3> QED  BY <3>1 DEF ReportInv, UpdateSoFar, RestoreSoFar
  <2>2. CASE ManualRollback(u)
    <3>1. pc'[u] = "r_remove" /\ at'[u] = 1  BY <2>2 DEF ManualRollback, Goto, TypeOK
    <3> QED  BY <3>1, NothingToReport
  <2>3. CASE FinishRestore(u)
    <3>1. pc'[u] = "idle"  BY <2>3 DEF FinishRestore, Done, Goto, TypeOK
    <3> QED  BY <3>1, NothingToReport
  <2> QED
    BY <1>1, <2>1, <2>2, <2>3, UpdateReports, RestoreReports DEF UpdaterStep
<1>2. CASE Crash
  <2>1. \A u \in Updaters : pc'[u] = "idle"  BY <1>2 DEF Crash, All
  <2> QED  BY <2>1 DEF ReportInv, UpdateSoFar, RestoreSoFar
<1>3. CASE Launch \/ Tick \/ UNCHANGED vars
  BY <1>3 DEF Launch, Tick, vars, fileVars, localVars, ReportInv, UpdateSoFar, RestoreSoFar,
              Outcome
<1> QED  BY <1>1, <1>2, <1>3 DEF Next

\* At the end of an update or a restore every item was gone through.
LEMMA ReportIsReal ==
  ASSUME TypeOK, ReportInv, NEW u \in Updaters
  PROVE  /\ FinishUpdate(u) =>
              install = [p \in Paths |-> IF pkg[u][p] = "absent" THEN was[u][p] ELSE pkg[u][p]]
         /\ FinishRestore(u) /\ ~failed[u] =>
              \A p \in Paths : backups[name[u]][p] \in {"absent", install[p]}
<1>1. \A p \in Paths : p < Count + 1
  BY UpdateConstantsOK DEF UpdateConstantsOK, Paths
<1>2. ASSUME FinishUpdate(u)
      PROVE  install = [p \in Paths |-> IF pkg[u][p] = "absent" THEN was[u][p] ELSE pkg[u][p]]
  <2>1. \A p \in Paths : install[p] = Outcome(u, p)
    BY <1>1, <1>2 DEF FinishUpdate, ReportInv, UpdateSoFar, Replacing
  <2>2. install \in [Paths -> Content]  BY DEF TypeOK
  <2> QED  BY <2>1, <2>2 DEF Outcome
<1>3. ASSUME FinishRestore(u), ~failed[u]
      PROVE  \A p \in Paths : backups[name[u]][p] \in {"absent", install[p]}
  BY <1>1, <1>3 DEF FinishRestore, ReportInv, RestoreSoFar, Restoring
<1> QED  BY <1>2, <1>3

\* apply_package and restore: with one operation at a time, an update that reports
\* success has installed the package over what was there, and a restore that reports no
\* failure has put back every item of the backup.
THEOREM ReportsAreTrue ==
  ASSUME \A u, v \in Updaters : u = v
  PROVE  Spec => SuccessIsReal
<1>1. Init => TypeOK /\ CopiesAnItem /\ ReportInv
  BY PackageInit DEF Init, All, CopiesAnItem, ReportInv, UpdateSoFar, RestoreSoFar,
     Replacing, Restoring
<1>2. /\ TypeOK /\ CopiesAnItem /\ ReportInv /\ [Next]_vars
      => TypeOK' /\ CopiesAnItem' /\ ReportInv'
  BY PackageTypeStep, CopiesStep, ReportStep
<1>3. TypeOK /\ ReportInv =>
        \A u \in Updaters :
          /\ FinishUpdate(u) =>
               install = [p \in Paths |-> IF pkg[u][p] = "absent" THEN was[u][p] ELSE pkg[u][p]]
          /\ FinishRestore(u) /\ ~failed[u] =>
               \A p \in Paths : backups[name[u]][p] \in {"absent", install[p]}
  BY ReportIsReal
<1> QED  BY <1>1, <1>2, <1>3, PTL DEF Spec, SuccessIsReal
=============================================================================
