--------------------------- MODULE WorkersProofs ----------------------------
(***************************************************************************)
(* Proofs about the parts of Workers that one process is made of, for any  *)
(* number of threads, settings, findings, sinks and tasks: what is saved,  *)
(* delivered, listed and shown.                                            *)
(***************************************************************************)
EXTENDS Workers, FiniteSetTheorems, TLAPS

(***************************************************************************)
(* The parts                                                               *)
(***************************************************************************)

\* At the start every part is at its start.
LEMMA WorkersStart ==
  Init => /\ File!Init /\ Dispatch!Init /\ Service!Init /\ Prober!Init /\ Window!Init
          /\ Lan!Init /\ Net!Init /\ Machine!Init
BY DEF Init

\* A step is a step of the part that moves, and the others stand still.
LEMMA WorkersMove ==
  ASSUME [Next]_vars
  PROVE  /\ [File!Next]_(File!vars) /\ [Dispatch!Next]_(Dispatch!vars)
         /\ [Service!Next]_(Service!vars) /\ [Prober!Next]_(Prober!vars)
         /\ [Window!Next]_(Window!vars) /\ [Lan!Next]_(Lan!vars)
         /\ [Net!Next]_(Net!vars) /\ [Machine!Next]_(Machine!vars)
         /\ UNCHANGED focus
<1>1. [File!Next]_(File!vars) /\ UNCHANGED focus
  <2>1. File!Next \/ UNCHANGED fileVars  BY DEF Next, vars
  <2> QED
    BY <2>1 DEF Next, vars, fileVars, File!vars, File!fileVars, File!saveVars, File!history
<1>2. [Dispatch!Next]_(Dispatch!vars)
  <2>1. Dispatch!Next \/ UNCHANGED alertVars  BY DEF Next, vars
  <2> QED  BY <2>1 DEF alertVars, Dispatch!vars, Dispatch!workerVars
<1>3. [Service!Next]_(Service!vars)
  <2>1. Service!Next \/ UNCHANGED serviceVars  BY DEF Next, vars
  <2> QED
    BY <2>1
       DEF serviceVars, Service!vars, Service!gpsVars, Service!objectVars, Service!readerVars,
           Service!callVars
<1>4. [Prober!Next]_(Prober!vars)
  <2>1. Prober!Next \/ UNCHANGED probeVars  BY DEF Next, vars
  <2> QED  BY <2>1 DEF probeVars, Prober!vars, Prober!threadVars, Prober!history
<1>5. [Window!Next]_(Window!vars)
  <2>1. Window!Next \/ UNCHANGED windowVars  BY DEF Next, vars
  <2> QED  BY <2>1 DEF windowVars, Window!vars, Window!poolVars, Window!screenVars
<1>6. [Lan!Next]_(Lan!vars)
  <2>1. Lan!Next \/ UNCHANGED lanVars  BY DEF Next, vars
  <2> QED
    BY <2>1 DEF lanVars, Lan!vars, Lan!sourceVars, Lan!lookupVars, Lan!auditVars
<1>7. [Net!Next]_(Net!vars)
  <2>1. Net!JoinNext \/ Net!SpotNext \/ UNCHANGED netVars  BY DEF Next, vars
  <2> QED  BY <2>1 DEF netVars, Net!Next, Net!vars, Net!netVars, Net!spotVars
<1>8. [Machine!Next]_(Machine!vars)
  <2>1. Machine!Next \/ UNCHANGED processVars  BY DEF Next, vars
  <2> QED
    BY <2>1
       DEF processVars, Machine!vars, Machine!sharedVars, Machine!ownVars, Machine!pastVars
<1> QED  BY <1>1, <1>2, <1>3, <1>4, <1>5, <1>6, <1>7, <1>8

(***************************************************************************)
(* SettingsFile                                                            *)
(*                                                                         *)
(* Only a thread that is alone can be trusted with the temporary file: the *)
(* invariant says what it has put there, and that until two changes        *)
(* overlap every thread that saves is alone.                               *)
(***************************************************************************)

\* Every step keeps the types.
LEMMA FileTypeNext ==
  ASSUME File!SettingsConstantsOK, File!TypeOK, [File!Next]_(File!vars)
  PROVE  File!TypeOK'
<1> USE DEF File!SettingsConstantsOK, File!TypeOK, File!Goto, File!Content, File!Places,
            File!Unreadable
<1>1. ASSUME NEW t \in Savers, File!Change(t) PROVE File!TypeOK'
  BY <1>1 DEF File!Change, File!fileVars, File!saveVars
<1>2. ASSUME NEW t \in Savers, File!Snapshot(t) PROVE File!TypeOK'
  BY <1>2 DEF File!Snapshot, File!fileVars, File!history
<1>3. ASSUME NEW t \in Savers, File!OpenTmp(t) PROVE File!TypeOK'
  BY <1>3 DEF File!OpenTmp, File!history
<1>4. ASSUME NEW t \in Savers, File!WriteTmp(t) PROVE File!TypeOK'
  <2>1. sfTmp' \in {sfPayload[t], "broken"}  BY <1>4 DEF File!WriteTmp
  <2> QED  BY <1>4, <2>1 DEF File!WriteTmp, File!history
<1>5. ASSUME NEW t \in Savers, File!Replace(t) PROVE File!TypeOK'
  BY <1>5 DEF File!Replace, File!fileVars, File!history
<1>6. ASSUME NEW t \in Savers, File!SaveFails(t) PROVE File!TypeOK'
  BY <1>6 DEF File!SaveFails, File!history
<1>7. CASE File!Crash  BY <1>7 DEF File!Crash, File!fileVars, File!history
<1>8. CASE File!Launch
  <2>1. CASE File!LoadFile  BY <1>8, <2>1 DEF File!Launch, File!LoadFile, File!fileVars
  <2>2. CASE File!LoadUnreadable  BY <1>8, <2>2 DEF File!Launch, File!LoadUnreadable
  <2>3. CASE File!LoadNothing  BY <1>8, <2>3 DEF File!Launch, File!LoadNothing, File!fileVars
  <2> QED  BY <1>8, <2>1, <2>2, <2>3 DEF File!Launch
<1>9. CASE File!Loaded  BY <1>9 DEF File!Loaded, File!fileVars, File!saveVars, File!history
<1>10. CASE UNCHANGED File!vars
  BY <1>10 DEF File!vars, File!fileVars, File!saveVars, File!history
<1> QED
  BY <1>1, <1>2, <1>3, <1>4, <1>5, <1>6, <1>7, <1>8, <1>9, <1>10 DEF File!Next, File!Save

\* Before the program is up at most the thread that loads is at work.
StartInv ==
  /\ sfLife = "down" => \A t \in Savers : ~File!Busy(t)
  /\ sfLife = "loading" => \A t \in Savers \ {Main} : ~File!Busy(t)

\* A thread that is alone is the only one at work, and as long as no two changes have
\* overlapped every one is.
AloneInv ==
  \A t \in Savers : File!Busy(t) =>
    /\ sfAlone[t] => \A o \in Savers \ {t} : ~File!Busy(o)
    /\ ~sfClashed => sfAlone[t]

\* What a thread that is alone has taken from memory is still there, and what is in the
\* temporary file is what it has put into it.
PayloadInv ==
  \A t \in Savers : sfAlone[t] =>
    /\ sfPc[t] \in {"open", "write", "replace"} => sfPayload[t] = sfMemory
    /\ sfPc[t] = "write" => sfTmp = "empty"
    /\ sfPc[t] = "replace" => sfTmp = sfPayload[t]

\* Together they are inductive.
SaveInv == StartInv /\ AloneInv /\ PayloadInv /\ File!FileIsWhole

\* Nobody starts to save while the program loads but the thread that does.
LEMMA StartInvNext ==
  ASSUME File!SettingsConstantsOK, File!TypeOK, StartInv, [File!Next]_(File!vars)
  PROVE  StartInv'
<1> USE DEF File!SettingsConstantsOK, File!TypeOK, StartInv, File!Goto, File!Busy, File!Places
<1>1. ASSUME NEW t \in Savers, File!Change(t) PROVE StartInv'
  BY <1>1 DEF File!Change
<1>2. ASSUME NEW t \in Savers, File!Save(t) PROVE StartInv'
  <2>1. sfPc[t] # "idle" /\ sfLife' = sfLife /\ \A o \in Savers \ {t} : sfPc'[o] = sfPc[o]
    BY <1>2
       DEF File!Save, File!Snapshot, File!OpenTmp, File!WriteTmp, File!Replace, File!SaveFails
  <2> QED  BY <2>1
<1>3. CASE File!Crash  BY <1>3 DEF File!Crash
<1>4. CASE File!Launch
  BY <1>4 DEF File!Launch, File!LoadFile, File!LoadUnreadable, File!LoadNothing
<1>5. CASE File!Loaded  BY <1>5 DEF File!Loaded
<1>6. CASE UNCHANGED File!vars  BY <1>6 DEF File!vars, File!saveVars
<1> QED  BY <1>1, <1>2, <1>3, <1>4, <1>5, <1>6 DEF File!Next

\* Whoever starts while another is at work takes everybody's claim to be alone away.
LEMMA AloneInvNext ==
  ASSUME File!SettingsConstantsOK, File!TypeOK, StartInv, AloneInv, [File!Next]_(File!vars)
  PROVE  AloneInv'
<1> USE DEF File!SettingsConstantsOK, File!TypeOK, StartInv, AloneInv, File!Goto, File!Busy,
            File!Places
<1>1. ASSUME NEW t \in Savers, File!Change(t) PROVE AloneInv'
  <2>1. CASE \E o \in Savers : File!Busy(o)  BY <1>1, <2>1 DEF File!Change
  <2>2. CASE \A o \in Savers : ~File!Busy(o)
    <3>1. /\ sfAlone' = [sfAlone EXCEPT ![t] = TRUE]
          /\ \A o \in Savers \ {t} : sfPc'[o] = "idle"
      BY <1>1, <2>2 DEF File!Change
    <3> QED  BY <3>1
  <2> QED  BY <2>1, <2>2
<1>2. ASSUME NEW t \in Savers, File!Save(t) PROVE AloneInv'
  <2>1. /\ sfPc[t] # "idle" /\ UNCHANGED File!history
        /\ \A o \in Savers \ {t} : sfPc'[o] = sfPc[o]
    BY <1>2
       DEF File!Save, File!Snapshot, File!OpenTmp, File!WriteTmp, File!Replace, File!SaveFails
  <2> QED  BY <2>1 DEF File!history
<1>3. CASE File!Crash  BY <1>3 DEF File!Crash
<1>4. CASE File!Launch
  <2>1. /\ sfAlone' = [t \in Savers |-> TRUE]
        /\ \A o \in Savers \ {Main} : sfPc'[o] = "idle"
    BY <1>4 DEF File!Launch, File!LoadFile, File!LoadUnreadable, File!LoadNothing
  <2>2. \A t \in Savers : sfPc'[t] # "idle" => t = Main  BY <2>1
  <2> QED  BY <2>1, <2>2
<1>5. CASE File!Loaded  BY <1>5 DEF File!Loaded, File!saveVars, File!history
<1>6. CASE UNCHANGED File!vars  BY <1>6 DEF File!vars, File!saveVars, File!history
<1> QED  BY <1>1, <1>2, <1>3, <1>4, <1>5, <1>6 DEF File!Next

\* Only its own steps touch the memory and the temporary file while a thread is alone.
LEMMA PayloadInvNext ==
  ASSUME File!SettingsConstantsOK, File!TypeOK, StartInv, AloneInv, PayloadInv,
         [File!Next]_(File!vars)
  PROVE  PayloadInv'
<1> USE DEF File!SettingsConstantsOK, File!TypeOK, PayloadInv, File!Goto, File!Busy, File!Places
<1>1. ASSUME NEW t \in Savers, File!Change(t) PROVE PayloadInv'
  <2>1. CASE \E o \in Savers : File!Busy(o)  BY <1>1, <2>1 DEF File!Change
  <2>2. CASE \A o \in Savers : ~File!Busy(o)
    <3>1. \A o \in Savers : sfPc'[o] \in {"idle", "snapshot"}  BY <1>1, <2>2 DEF File!Change
    <3> QED  BY <3>1
  <2> QED  BY <2>1, <2>2
<1>2. ASSUME NEW t \in Savers, File!Save(t) PROVE PayloadInv'
  <2>1. /\ sfPc[t] # "idle" /\ sfAlone' = sfAlone /\ sfMemory' = sfMemory
        /\ \A o \in Savers \ {t} : sfPc'[o] = sfPc[o] /\ sfPayload'[o] = sfPayload[o]
    BY <1>2
       DEF File!Save, File!Snapshot, File!OpenTmp, File!WriteTmp, File!Replace, File!SaveFails,
           File!history
  <2>2. ASSUME NEW o \in Savers \ {t}, sfAlone[o] PROVE sfPc'[o] = "idle"
    BY <2>1, <2>2 DEF AloneInv
  <2>3. ASSUME sfAlone[t]
        PROVE  /\ sfPc'[t] \in {"open", "write", "replace"} => sfPayload'[t] = sfMemory
               /\ sfPc'[t] = "write" => sfTmp' = "empty"
               /\ sfPc'[t] = "replace" => sfTmp' = sfPayload'[t]
    <3>1. CASE File!Snapshot(t)  BY <3>1 DEF File!Snapshot
    <3>2. CASE File!OpenTmp(t)  BY <2>3, <3>2 DEF File!OpenTmp
    <3>3. CASE File!WriteTmp(t)  BY <2>3, <3>3 DEF File!WriteTmp
    <3>4. CASE File!Replace(t) \/ File!SaveFails(t)  BY <3>4 DEF File!Replace, File!SaveFails
    <3> QED  BY <1>2, <3>1, <3>2, <3>3, <3>4 DEF File!Save
  <2> QED  BY <2>1, <2>2, <2>3
<1>3. CASE File!Crash  BY <1>3 DEF File!Crash
<1>4. CASE File!Launch
  <2>1. \A t \in Savers : sfPc'[t] \in {"idle", "snapshot"}
    BY <1>4 DEF File!Launch, File!LoadFile, File!LoadUnreadable, File!LoadNothing, StartInv
  <2> QED  BY <2>1
<1>5. CASE File!Loaded  BY <1>5 DEF File!Loaded, File!fileVars, File!saveVars, File!history
<1>6. CASE UNCHANGED File!vars
  BY <1>6 DEF File!vars, File!fileVars, File!saveVars, File!history
<1> QED  BY <1>1, <1>2, <1>3, <1>4, <1>5, <1>6 DEF File!Next

\* A thread that is alone renames a temporary file that holds what is in memory, and
\* nobody has it open.
LEMMA ReplaceAlone ==
  ASSUME File!SettingsConstantsOK, File!TypeOK, SaveInv,
         NEW t \in Savers, File!Replace(t), sfAlone[t]
  PROVE  sfFile' = sfMemory
<1> USE DEF File!SettingsConstantsOK, File!TypeOK, SaveInv
<1>1. sfTmp = sfPayload[t] /\ sfPayload[t] = sfMemory  BY DEF PayloadInv, File!Replace
<1>2. \A o \in Savers \ {t} : sfPc[o] = "idle"  BY DEF AloneInv, File!Replace, File!Busy
<1>3. File!CanReplace(t)  BY <1>1, <1>2 DEF File!CanReplace
<1> QED  BY <1>1, <1>3 DEF File!Replace

\* Only a rename, and a launch, touch the settings file.
LEMMA FileIsWholeNext ==
  ASSUME File!SettingsConstantsOK, File!TypeOK, SaveInv, [File!Next]_(File!vars)
  PROVE  File!FileIsWhole'
<1> USE DEF File!SettingsConstantsOK, File!TypeOK, SaveInv, File!FileIsWhole, File!Unreadable
<1>1. ASSUME NEW t \in Savers, File!Replace(t) PROVE File!FileIsWhole'
  <2>1. CASE sfClashed  BY <1>1, <2>1 DEF File!Replace, File!history
  <2>2. CASE ~sfClashed
    <3>1. sfAlone[t]  BY <1>1, <2>2 DEF AloneInv, File!Busy, File!Replace
    <3> QED  BY <1>1, <3>1, ReplaceAlone
  <2> QED  BY <2>1, <2>2
<1>2. ASSUME NEW t \in Savers,
             File!Snapshot(t) \/ File!OpenTmp(t) \/ File!WriteTmp(t) \/ File!SaveFails(t)
      PROVE  File!FileIsWhole'
  BY <1>2
     DEF File!Snapshot, File!OpenTmp, File!WriteTmp, File!SaveFails, File!fileVars, File!history
<1>3. ASSUME NEW t \in Savers, File!Change(t) PROVE File!FileIsWhole'
  BY <1>3 DEF File!Change, File!fileVars
<1>4. CASE File!Launch
  BY <1>4 DEF File!Launch, File!LoadFile, File!LoadUnreadable, File!LoadNothing, File!fileVars
<1>5. CASE File!Crash \/ File!Loaded \/ UNCHANGED File!vars
  BY <1>5 DEF File!Crash, File!Loaded, File!vars, File!fileVars, File!history
<1> QED  BY <1>1, <1>2, <1>3, <1>4, <1>5 DEF File!Next, File!Save

\* At the start no thread is at work and the file is whole.
LEMMA SaveInvInit ==
  ASSUME File!SettingsConstantsOK, File!Init
  PROVE  File!TypeOK /\ SaveInv
<1>1. File!TypeOK
  BY DEF File!SettingsConstantsOK, File!Init, File!TypeOK, File!Content, File!Places,
         File!Unreadable
<1>2. SaveInv
  BY DEF File!SettingsConstantsOK, File!Init, SaveInv, StartInv, AloneInv, PayloadInv,
         File!FileIsWhole, File!Unreadable, File!Busy
<1> QED  BY <1>1, <1>2

\* Every step keeps the invariant.
LEMMA SaveInvNext ==
  ASSUME File!SettingsConstantsOK, File!TypeOK, SaveInv, [File!Next]_(File!vars)
  PROVE  File!TypeOK' /\ SaveInv'
BY FileTypeNext, StartInvNext, AloneInvNext, PayloadInvNext, FileIsWholeNext DEF SaveInv

\* A save that nothing overlaps puts what is in memory into the file, and until two have
\* overlapped the file is whole, whatever dies or fails (Config.save, Config.load).
THEOREM SavesStaySound == Spec => SavesAreSound
<1>1. Init => File!TypeOK /\ SaveInv  BY WorkersStart, SaveInvInit, PartsAreWellFormed
<1>2. File!TypeOK /\ SaveInv /\ [Next]_vars => (File!TypeOK /\ SaveInv)'
  BY WorkersMove, SaveInvNext, PartsAreWellFormed
<1>3. File!TypeOK /\ SaveInv /\ [Next]_vars =>
        [File!SaveKeepsMemory /\ File!FileIsWhole']_(File!vars)
  BY WorkersMove, FileIsWholeNext, ReplaceAlone, PartsAreWellFormed DEF File!SaveKeepsMemory
<1> QED  BY <1>1, <1>2, <1>3, PTL DEF Spec, SavesAreSound, File!SavesAreSound

(***************************************************************************)
(* AlertDispatcher                                                         *)
(*                                                                         *)
(* Order: the queue is sorted and lies behind everything a sink has heard, *)
(* so what comes next is newer.  Accounts: every step that takes a finding *)
(* out of the queue or out of the hands of the worker counts it, and only  *)
(* one at a time is in hand.                                               *)
(***************************************************************************)

\* What is counted here is counted as the library counts.
LEMMA DispatchCounts ==
  ASSUME NEW S
  PROVE  /\ Dispatch!Cardinality(S) = Cardinality(S)
         /\ Dispatch!IsFiniteSet(S) <=> IsFiniteSet(S)
BY DEF Dispatch!Cardinality, Dispatch!IsFiniteSet, Cardinality, IsFiniteSet

\* The numbers and sequences the order is about.
OrderNumbers ==
  /\ adSubmitted \in Nat /\ adItem \in Nat
  /\ adQueue \in Seq(Nat)
  /\ adLast \in [Dispatch!SinkIds -> Nat]
  /\ adAt \in Nat \ {0}

\* Not the sentinel that stops the worker.
IsFinding(k) == adQueue[k] # Dispatch!Sentinel

\* The queue is in order, behind whatever is delivered or was delivered already.
QueueInOrder ==
  /\ \A k \in 1..Len(adQueue) : adQueue[k] <= adSubmitted
  /\ \A j, k \in 1..Len(adQueue) :
       j < k /\ IsFinding(j) /\ IsFinding(k) => adQueue[j] < adQueue[k]
  /\ \A k \in 1..Len(adQueue) : IsFinding(k) =>
       adItem < adQueue[k] /\ \A s \in Dispatch!SinkIds : adLast[s] < adQueue[k]

\* What the worker delivers is new to the sinks it has not come to.
WorkInOrder ==
  /\ adItem <= adSubmitted /\ \A s \in Dispatch!SinkIds : adLast[s] <= adSubmitted
  /\ adWorker = "sinks" =>
       adItem # Dispatch!Sentinel /\ \A s \in Dispatch!SinkIds : s >= adAt => adLast[s] < adItem
  /\ adWorker # "sinks" => adItem = Dispatch!Sentinel

\* Together.
OrderInv == OrderNumbers /\ QueueInOrder /\ WorkInOrder

\* A step that touches none of it.
LEMMA OrderUntouched ==
  ASSUME OrderInv, UNCHANGED <<adQueue, adWorker, adItem, adAt, adSubmitted, adLast>>
  PROVE  OrderInv'
<1>1. OrderNumbers'  BY DEF OrderInv, OrderNumbers
<1>2. QueueInOrder'  BY DEF OrderInv, QueueInOrder, IsFinding
<1>3. WorkInOrder'  BY DEF OrderInv, WorkInOrder
<1> QED  BY <1>1, <1>2, <1>3 DEF OrderInv

\* A new finding has the largest number; a full queue does not take it.
LEMMA SubmitInOrder ==
  ASSUME OrderInv, Dispatch!Submit
  PROVE  OrderInv'
<1> USE DEF OrderInv, OrderNumbers
<1>1. /\ adSubmitted' = adSubmitted + 1 /\ UNCHANGED <<adWorker, adItem, adAt, adLast>>
      /\ adQueue' = Append(adQueue, adSubmitted') \/ adQueue' = adQueue
  BY DEF Dispatch!Submit, Dispatch!workerVars
<1>2. OrderNumbers'
  <2>1. adSubmitted' \in Nat  BY <1>1
  <2>2. adQueue' \in Seq(Nat)  BY <1>1, <2>1
  <2> QED  BY <1>1, <2>1, <2>2
<1>3. QueueInOrder'
  <2>1. CASE adQueue' = adQueue  BY <1>1, <2>1 DEF QueueInOrder, IsFinding
  <2>2. CASE adQueue' = Append(adQueue, adSubmitted')
    <3>1. Len(adQueue') = Len(adQueue) + 1 /\ Len(adQueue) \in Nat  BY <2>2, <1>1
    <3>2. \A k \in 1..Len(adQueue) : adQueue'[k] = adQueue[k] /\ adQueue[k] \in Nat
      BY <2>2, <1>1
    <3>3. adQueue'[Len(adQueue) + 1] = adSubmitted'  BY <2>2, <1>1
    <3>4. \A k \in 1..Len(adQueue') : k \in 1..Len(adQueue) \/ k = Len(adQueue) + 1  BY <3>1
    <3>5. /\ adItem <= adSubmitted
          /\ \A s \in Dispatch!SinkIds : adLast[s] <= adSubmitted /\ adLast[s] \in Nat
      BY DEF WorkInOrder
    <3>6. ASSUME NEW k \in 1..Len(adQueue) PROVE adQueue[k] < adSubmitted'
      BY <1>1, <3>2 DEF QueueInOrder
    <3>7. \A k \in 1..Len(adQueue') : adQueue'[k] <= adSubmitted'
      BY <1>2, <3>2, <3>3, <3>4, <3>6
    <3>8. ASSUME NEW j \in 1..Len(adQueue'), NEW k \in 1..Len(adQueue'), j < k,
                 IsFinding(j)', IsFinding(k)'
          PROVE  adQueue'[j] < adQueue'[k]
      <4>1. j \in 1..Len(adQueue)  BY <3>1, <3>4, <3>8
      <4>2. CASE k \in 1..Len(adQueue)
        BY <3>2, <3>8, <4>1, <4>2 DEF QueueInOrder, IsFinding
      <4>3. CASE k = Len(adQueue) + 1
        BY <3>2, <3>3, <3>6, <4>1, <4>3
      <4> QED  BY <3>4, <4>2, <4>3
    <3>9. ASSUME NEW k \in 1..Len(adQueue'), IsFinding(k)'
          PROVE  adItem' < adQueue'[k] /\ \A s \in Dispatch!SinkIds : adLast'[s] < adQueue'[k]
      <4>1. CASE k \in 1..Len(adQueue)
        BY <1>1, <3>2, <3>9, <4>1 DEF QueueInOrder, IsFinding
      <4>2. CASE k = Len(adQueue) + 1
        BY <1>1, <3>3, <3>5, <4>2
      <4> QED  BY <3>4, <4>1, <4>2
    <3> QED  BY <3>7, <3>8, <3>9 DEF QueueInOrder, IsFinding
  <2> QED  BY <1>1, <2>1, <2>2
<1>4. WorkInOrder'  BY <1>1 DEF WorkInOrder
<1> QED  BY <1>2, <1>3, <1>4

\* A sentinel has no place in the order.
LEMMA StopInOrder ==
  ASSUME OrderInv, Dispatch!Stop
  PROVE  OrderInv'
<1> USE DEF OrderInv, OrderNumbers
<1>1. /\ UNCHANGED <<adSubmitted, adWorker, adItem, adAt, adLast>>
      /\ adQueue' = Append(adQueue, Dispatch!Sentinel) \/ adQueue' = adQueue
  BY DEF Dispatch!Stop, Dispatch!workerVars
<1>2. OrderNumbers'  BY <1>1 DEF Dispatch!Sentinel
<1>3. QueueInOrder'
  <2>1. CASE adQueue' = adQueue  BY <1>1, <2>1 DEF QueueInOrder, IsFinding
  <2>2. CASE adQueue' = Append(adQueue, Dispatch!Sentinel)
    <3>1. Len(adQueue') = Len(adQueue) + 1 /\ Len(adQueue) \in Nat  BY <2>2
    <3>2. \A k \in 1..Len(adQueue) : adQueue'[k] = adQueue[k]  BY <2>2
    <3>3. adQueue'[Len(adQueue) + 1] = Dispatch!Sentinel  BY <2>2
    <3>4. \A k \in 1..Len(adQueue') : k \in 1..Len(adQueue) \/ k = Len(adQueue) + 1  BY <3>1
    <3>5. \A k \in 1..Len(adQueue') : IsFinding(k)' => k \in 1..Len(adQueue)
      BY <3>3, <3>4 DEF IsFinding
    <3>6. \A k \in 1..Len(adQueue') : adQueue'[k] <= adSubmitted'
      BY <1>1, <3>2, <3>3, <3>4 DEF QueueInOrder, Dispatch!Sentinel
    <3>7. \A j, k \in 1..Len(adQueue') :
            j < k /\ IsFinding(j)' /\ IsFinding(k)' => adQueue'[j] < adQueue'[k]
      BY <3>2, <3>5 DEF QueueInOrder, IsFinding
    <3>8. \A k \in 1..Len(adQueue') : IsFinding(k)' =>
            adItem' < adQueue'[k] /\ \A s \in Dispatch!SinkIds : adLast'[s] < adQueue'[k]
      BY <1>1, <3>2, <3>5 DEF QueueInOrder, IsFinding
    <3> QED  BY <3>6, <3>7, <3>8 DEF QueueInOrder, IsFinding
  <2> QED  BY <1>1, <2>1, <2>2
<1>4. WorkInOrder'  BY <1>1 DEF WorkInOrder
<1> QED  BY <1>2, <1>3, <1>4

\* What is taken is the oldest, and newer than all that was delivered.
LEMMA GetInOrder ==
  ASSUME OrderInv, Dispatch!Get
  PROVE  OrderInv'
<1> USE DEF OrderInv, OrderNumbers
<1>1. /\ adQueue # <<>> /\ adQueue' = Tail(adQueue) /\ adWorker = "get"
      /\ UNCHANGED <<adSubmitted, adLast>>
      /\ \/ Head(adQueue) = Dispatch!Sentinel /\ adWorker' = "gone" /\ UNCHANGED <<adItem, adAt>>
         \/ Head(adQueue) # Dispatch!Sentinel /\ adWorker' = "sinks" /\ adItem' = Head(adQueue) /\ adAt' = 1
  BY DEF Dispatch!Get, Dispatch!WorkerOnly
<1>2. /\ Len(adQueue) \in Nat \ {0} /\ Head(adQueue) = adQueue[1] /\ Head(adQueue) \in Nat
      /\ Tail(adQueue) \in Seq(Nat) /\ Len(Tail(adQueue)) = Len(adQueue) - 1
  BY <1>1
<1>3. \A k \in 1..Len(adQueue') : k + 1 \in 1..Len(adQueue) /\ adQueue'[k] = adQueue[k + 1]
  BY <1>1, <1>2
<1>4. OrderNumbers'  BY <1>1, <1>2
<1>5. 1 \in 1..Len(adQueue)  BY <1>2
<1>6. QueueInOrder'
  <2>1. \A k \in 1..Len(adQueue') : adQueue'[k] <= adSubmitted'
    BY <1>1, <1>3 DEF QueueInOrder
  <2>2. \A j, k \in 1..Len(adQueue') :
          j < k /\ IsFinding(j)' /\ IsFinding(k)' => adQueue'[j] < adQueue'[k]
    <3> SUFFICES ASSUME NEW j \in 1..Len(adQueue'), NEW k \in 1..Len(adQueue'), j < k,
                        IsFinding(j)', IsFinding(k)'
                 PROVE  adQueue'[j] < adQueue'[k]
      OBVIOUS
    <3>1. /\ j + 1 \in 1..Len(adQueue) /\ k + 1 \in 1..Len(adQueue) /\ j + 1 < k + 1
          /\ IsFinding(j + 1) /\ IsFinding(k + 1)
      BY <1>3 DEF IsFinding
    <3> QED  BY <1>3, <3>1 DEF QueueInOrder
  <2>3. ASSUME NEW k \in 1..Len(adQueue'), IsFinding(k)'
        PROVE  adItem' < adQueue'[k] /\ \A s \in Dispatch!SinkIds : adLast'[s] < adQueue'[k]
    <3>1. k + 1 \in 1..Len(adQueue) /\ IsFinding(k + 1) /\ 1 < k + 1
      BY <1>3, <2>3 DEF IsFinding
    <3>2. adItem < adQueue[k + 1] /\ \A s \in Dispatch!SinkIds : adLast[s] < adQueue[k + 1]
      BY <3>1 DEF QueueInOrder
    <3>3. Head(adQueue) # Dispatch!Sentinel => adQueue[1] < adQueue[k + 1]
      BY <1>2, <1>5, <3>1 DEF QueueInOrder, IsFinding
    <3> QED  BY <1>1, <1>2, <1>3, <3>2, <3>3
  <2> QED  BY <2>1, <2>2, <2>3 DEF QueueInOrder, IsFinding
<1>7. WorkInOrder'
  <2>1. CASE Head(adQueue) = Dispatch!Sentinel  BY <1>1, <2>1 DEF WorkInOrder
  <2>2. CASE Head(adQueue) # Dispatch!Sentinel
    <3>1. adQueue[1] <= adSubmitted /\ \A s \in Dispatch!SinkIds : adLast[s] < adQueue[1]
      BY <1>2, <1>5, <2>2 DEF QueueInOrder, IsFinding
    <3> QED  BY <1>1, <1>2, <2>2, <3>1 DEF WorkInOrder
  <2> QED  BY <2>1, <2>2
<1> QED  BY <1>4, <1>6, <1>7

\* The sink that is tried has heard of nothing as new.
LEMMA TryInOrder ==
  ASSUME OrderInv, Dispatch!TrySink
  PROVE  /\ OrderInv'
         /\ \A s \in Dispatch!SinkIds : adLast'[s] # adLast[s] => adLast'[s] > adLast[s]
<1> USE DEF OrderInv, OrderNumbers
<1>1. /\ adWorker = "sinks" /\ adAt <= Sinks /\ adAt' = adAt + 1
      /\ adLast' = [adLast EXCEPT ![adAt] = adItem]
      /\ UNCHANGED <<adQueue, adWorker, adItem, adSubmitted>>
  BY DEF Dispatch!TrySink, Dispatch!Delivering, Dispatch!WorkerOnly
<1>2. OrderNumbers'
  <2>1. adAt' \in Nat \ {0}  BY <1>1
  <2>2. adItem \in Nat /\ adLast \in [Dispatch!SinkIds -> Nat]  OBVIOUS
  <2> HIDE DEF OrderInv, OrderNumbers
  <2>3. adLast' \in [Dispatch!SinkIds -> Nat]  BY <1>1, <2>2
  <2>4. adSubmitted \in Nat /\ adQueue \in Seq(Nat)  BY DEF OrderInv, OrderNumbers
  <2> QED  BY <1>1, <2>1, <2>2, <2>3, <2>4 DEF OrderNumbers
<1>3. \A s \in Dispatch!SinkIds : adLast'[s] = IF s = adAt THEN adItem ELSE adLast[s]  BY <1>1
<1>4. QueueInOrder'  BY <1>1, <1>3 DEF QueueInOrder, IsFinding
<1>5. WorkInOrder'
  <2>1. \A s \in Dispatch!SinkIds : s \in Int  BY DEF Dispatch!SinkIds
  <2> QED  BY <1>1, <1>3, <2>1 DEF WorkInOrder
<1>6. \A s \in Dispatch!SinkIds : adLast'[s] # adLast[s] => adLast'[s] > adLast[s]
  BY <1>1, <1>3 DEF WorkInOrder, Dispatch!SinkIds
<1> QED  BY <1>2, <1>4, <1>5, <1>6

\* A delivery ends, or passes a sink over.
LEMMA WorkerMovesOn ==
  ASSUME OrderInv,
         \/ Dispatch!PassOver \/ Dispatch!DeliveryRaises \/ Dispatch!DeliveryEnds
         \/ Dispatch!LoopTop \/ Dispatch!GetTimesOut
  PROVE  OrderInv' /\ UNCHANGED adLast
<1> USE DEF OrderInv, OrderNumbers
<1>1. UNCHANGED <<adQueue, adSubmitted, adLast>>
  BY DEF Dispatch!PassOver, Dispatch!DeliveryRaises, Dispatch!DeliveryEnds, Dispatch!LoopTop,
     Dispatch!GetTimesOut, Dispatch!WorkerOnly
<1>2. CASE Dispatch!PassOver
  <2>1. adAt' = adAt + 1 /\ UNCHANGED <<adItem, adWorker>>  BY <1>2 DEF Dispatch!PassOver
  <2>2. \A s \in Dispatch!SinkIds : s \in Int  BY DEF Dispatch!SinkIds
  <2> QED  BY <1>1, <2>1, <2>2 DEF QueueInOrder, WorkInOrder, IsFinding
<1>3. CASE Dispatch!DeliveryRaises \/ Dispatch!DeliveryEnds
  <2>1. adWorker' = "top" /\ adItem' = Dispatch!Sentinel /\ adAt' = 1
    BY <1>3 DEF Dispatch!DeliveryRaises, Dispatch!DeliveryEnds, Dispatch!HandsFree
  <2>2. \A k \in 1..Len(adQueue) : IsFinding(k) => 0 < adQueue[k]
    BY DEF IsFinding, Dispatch!Sentinel
  <2> QED  BY <1>1, <2>1, <2>2 DEF QueueInOrder, WorkInOrder, IsFinding, Dispatch!Sentinel
<1>4. CASE Dispatch!LoopTop \/ Dispatch!GetTimesOut
  <2>1. adWorker # "sinks" /\ adWorker' # "sinks" /\ UNCHANGED <<adItem, adAt>>
    BY <1>4 DEF Dispatch!LoopTop, Dispatch!GetTimesOut
  <2> QED  BY <1>1, <2>1 DEF QueueInOrder, WorkInOrder, IsFinding
<1> QED  BY <1>1, <1>2, <1>3, <1>4

\* Every step keeps the order, and moves what a sink has heard only onwards.
LEMMA OrderInvNext ==
  ASSUME OrderInv, [Dispatch!Next]_(Dispatch!vars)
  PROVE  /\ OrderInv'
         /\ \A s \in Dispatch!SinkIds : adLast'[s] # adLast[s] => adLast'[s] > adLast[s]
<1>1. CASE Dispatch!Start
  <2>1. /\ adWorker # "sinks" /\ adWorker' # "sinks"
        /\ UNCHANGED <<adQueue, adItem, adAt, adSubmitted, adLast>>
    BY <1>1 DEF Dispatch!Start
  <2> QED  BY <2>1 DEF OrderInv, OrderNumbers, QueueInOrder, WorkInOrder, IsFinding
<1>2. CASE Dispatch!Configure \/ UNCHANGED Dispatch!vars
  BY <1>2, OrderUntouched DEF Dispatch!Configure, Dispatch!workerVars, Dispatch!vars
<1>3. CASE Dispatch!Submit  BY <1>3, SubmitInOrder DEF Dispatch!Submit, Dispatch!workerVars
<1>4. CASE Dispatch!Stop  BY <1>4, StopInOrder DEF Dispatch!Stop, Dispatch!workerVars
<1>5. CASE Dispatch!Get  BY <1>5, GetInOrder DEF Dispatch!Get
<1>6. CASE Dispatch!TrySink  BY <1>6, TryInOrder
<1>7. CASE \/ Dispatch!PassOver \/ Dispatch!DeliveryRaises \/ Dispatch!DeliveryEnds
           \/ Dispatch!LoopTop \/ Dispatch!GetTimesOut
  BY <1>7, WorkerMovesOn
<1> QED  BY <1>1, <1>2, <1>3, <1>4, <1>5, <1>6, <1>7 DEF Dispatch!Next, Dispatch!Work

\* Who has a finding in hand is delivering it.
InHand == adWorker = "sinks" <=> adItem # Dispatch!Sentinel

\* With the accounts themselves, they are inductive.
AlertInv == Dispatch!TypeOK /\ InHand /\ Dispatch!Accounted

\* How many findings wait in a queue is a number.
LEMMA WaitingIsNatural ==
  ASSUME NEW S, NEW q \in Seq(S)
  PROVE  IsFiniteSet(Dispatch!FindingsIn(q)) /\ Cardinality(Dispatch!FindingsIn(q)) \in Nat
<1>1. Dispatch!FindingsIn(q) \subseteq 1..Len(q)  BY DEF Dispatch!FindingsIn
<1>2. IsFiniteSet(1..Len(q))  BY FS_Interval
<1> QED  BY <1>1, <1>2, FS_Subset, FS_CardinalityType

\* Appending a finding makes one more wait, and appending the sentinel none.
LEMMA OneMoreWaits ==
  ASSUME NEW S, NEW q \in Seq(S), NEW x \in S
  PROVE  Cardinality(Dispatch!FindingsIn(Append(q, x))) =
           Cardinality(Dispatch!FindingsIn(q)) + IF x = Dispatch!Sentinel THEN 0 ELSE 1
<1> DEFINE r == Append(q, x)
           n == Len(q) + 1
<1>1. /\ r \in Seq(S) /\ DOMAIN r = 1..n /\ n \in Nat /\ r[n] = x
      /\ \A k \in 1..Len(q) : r[k] = q[k]
      /\ DOMAIN q = 1..Len(q)
  OBVIOUS
<1>2. /\ n \notin Dispatch!FindingsIn(q) /\ IsFiniteSet(Dispatch!FindingsIn(q))
      /\ Cardinality(Dispatch!FindingsIn(q)) \in Nat
  BY <1>1, WaitingIsNatural DEF Dispatch!FindingsIn
<1>3. CASE x = Dispatch!Sentinel
  <2>1. Dispatch!FindingsIn(r) = Dispatch!FindingsIn(q)  BY <1>1, <1>3 DEF Dispatch!FindingsIn
  <2> QED  BY <1>2, <1>3, <2>1
<1>4. CASE x # Dispatch!Sentinel
  <2>1. Dispatch!FindingsIn(r) = Dispatch!FindingsIn(q) \cup {n}
    BY <1>1, <1>4 DEF Dispatch!FindingsIn
  <2> QED  BY <1>2, <1>4, <2>1, FS_AddElement
<1> QED  BY <1>3, <1>4

\* Taking the head off makes one fewer wait, if it was a finding: the others move up by one
\* place.
LEMMA OneFewerWaits ==
  ASSUME NEW S, NEW q \in Seq(S), q # <<>>
  PROVE  Cardinality(Dispatch!FindingsIn(q)) =
           Cardinality(Dispatch!FindingsIn(Tail(q))) + IF Head(q) = Dispatch!Sentinel THEN 0 ELSE 1
<1> DEFINE r == Tail(q)
           Behind == Dispatch!FindingsIn(q) \ {1}
           f == [k \in Dispatch!FindingsIn(r) |-> k + 1]
<1>1. /\ r \in Seq(S) /\ DOMAIN r = 1..Len(r) /\ Len(q) = Len(r) + 1 /\ Len(r) \in Nat
      /\ \A k \in 1..Len(r) : r[k] = q[k + 1]
      /\ DOMAIN q = 1..Len(q) /\ Head(q) = q[1]
  OBVIOUS
<1>2. IsFiniteSet(Dispatch!FindingsIn(q)) /\ IsFiniteSet(Dispatch!FindingsIn(r))
  BY <1>1, WaitingIsNatural
<1>3. f \in Bijection(Dispatch!FindingsIn(r), Behind)
  <2>1. \A k \in Dispatch!FindingsIn(r) : k \in Nat /\ f[k] = k + 1 /\ f[k] \in Behind
    BY <1>1 DEF Dispatch!FindingsIn
  <2>2. \A k \in Behind : k - 1 \in Dispatch!FindingsIn(r) /\ f[k - 1] = k
    BY <1>1 DEF Dispatch!FindingsIn
  <2>3. f \in [Dispatch!FindingsIn(r) -> Behind]  BY <2>1
  <2>4. \A j, k \in Dispatch!FindingsIn(r) : f[j] = f[k] => j = k  BY <2>1
  <2>5. \A k \in Behind : \E j \in Dispatch!FindingsIn(r) : f[j] = k  BY <2>2
  <2> HIDE DEF f, Behind
  <2> QED  BY <2>3, <2>4, <2>5 DEF Bijection, Injection, Surjection, IsInjective
<1>4. Cardinality(Behind) = Cardinality(Dispatch!FindingsIn(r))
  BY <1>2, <1>3, FS_Bijection, FS_CardinalityType DEF ExistsBijection
<1>5. IsFiniteSet(Behind) /\ 1 \notin Behind /\ Cardinality(Dispatch!FindingsIn(r)) \in Nat
  BY <1>2, FS_Subset, FS_CardinalityType
<1>6. CASE Head(q) = Dispatch!Sentinel
  <2>1. Dispatch!FindingsIn(q) = Behind  BY <1>1, <1>6 DEF Dispatch!FindingsIn
  <2> HIDE DEF Behind, f
  <2> QED  BY <1>4, <1>5, <1>6, <2>1
<1>7. CASE Head(q) # Dispatch!Sentinel
  <2>1. Dispatch!FindingsIn(q) = Behind \cup {1}  BY <1>1, <1>7 DEF Dispatch!FindingsIn
  <2> QED  BY <1>4, <1>5, <1>7, <2>1, FS_AddElement
<1> QED  BY <1>6, <1>7

\* A counter never exceeds what was submitted, and so keeps to its type.
LEMMA TalliesAreBounded ==
  ASSUME MaxItems \in Nat, NEW n \in 0..MaxItems, NEW w \in Nat, NEW h \in {0, 1},
         NEW f \in [{"sent", "failed", "dropped"} -> Nat],
         n = f["sent"] + f["failed"] + f["dropped"] + w + h
  PROVE  f \in [{"sent", "failed", "dropped"} -> 0..MaxItems]
<1>1. f["sent"] \in Nat /\ f["failed"] \in Nat /\ f["dropped"] \in Nat  OBVIOUS
<1>2. \A k \in {"sent", "failed", "dropped"} : f[k] \in 0..MaxItems  BY <1>1
<1> QED  BY <1>2

\* How many wait is a number, and so is each counter.
LEMMA TalliesAreNumbers ==
  ASSUME Dispatch!TypeOK, MaxItems \in Nat
  PROVE  /\ Dispatch!Waiting \in Nat /\ adSubmitted \in Nat
         /\ adStats["sent"] \in Nat /\ adStats["failed"] \in Nat /\ adStats["dropped"] \in Nat
<1>1. Dispatch!Waiting \in Nat
  BY DispatchCounts, WaitingIsNatural DEF Dispatch!TypeOK, Dispatch!Waiting
<1> QED  BY <1>1 DEF Dispatch!TypeOK

\* A step that takes a finding nowhere else.
LEMMA AccountsUntouched ==
  ASSUME AlertInv, UNCHANGED <<adQueue, adWorker, adItem, adSubmitted, adStats>>,
         Dispatch!TypeOK'
  PROVE  AlertInv'
<1>1. Dispatch!Waiting' = Dispatch!Waiting  BY DEF Dispatch!Waiting
<1> QED  BY <1>1 DEF AlertInv, Dispatch!Accounted, InHand

\* A new finding waits, or is counted as dropped (submit, queue.Full).
LEMMA SubmitAccounts ==
  ASSUME AlertInv, Dispatch!DispatcherConstantsOK, Dispatch!Submit
  PROVE  AlertInv'
<1>1. /\ adSubmitted \in Nat /\ adSubmitted < MaxItems /\ adSubmitted' = adSubmitted + 1
      /\ MaxItems \in Nat /\ MaxQueue \in Nat
      /\ adSevere' \subseteq adSevere \cup {adSubmitted'}
      /\ UNCHANGED <<adSettings, adStopping, adWorker, adItem, adConf, adAt, adLast>>
  BY DEF AlertInv, Dispatch!TypeOK, Dispatch!DispatcherConstantsOK, Dispatch!Submit,
     Dispatch!workerVars
<1>2. adSubmitted' \in Dispatch!Items \ {Dispatch!Sentinel} /\ adSubmitted' \in 0..MaxItems
  BY <1>1 DEF Dispatch!Items, Dispatch!Sentinel
<1>3. adQueue \in Seq(Dispatch!Items \cup {Dispatch!Sentinel}) /\ Len(adQueue) <= MaxQueue
  BY DEF AlertInv, Dispatch!TypeOK
<1>4. CASE Len(adQueue) < MaxQueue
  <2>1. adQueue' = Append(adQueue, adSubmitted') /\ adStats' = adStats
    BY <1>4 DEF Dispatch!Submit
  <2>2. adQueue' \in Seq(Dispatch!Items \cup {Dispatch!Sentinel}) /\ Len(adQueue') <= MaxQueue
    BY <1>1, <1>2, <1>3, <1>4, <2>1
  <2>3. Dispatch!Waiting' = Dispatch!Waiting + 1
    BY DispatchCounts, <1>2, <1>3, <2>1, OneMoreWaits DEF Dispatch!Waiting
  <2>4. UNCHANGED <<adItem, adStats>> /\ adSubmitted' = adSubmitted + 1  BY <1>1, <2>1
  <2>5. Dispatch!Accounted'
    BY <1>1, <2>3, <2>4, TalliesAreNumbers DEF AlertInv, Dispatch!Accounted
  <2>6. Dispatch!TypeOK'  BY <1>1, <1>2, <2>1, <2>2 DEF AlertInv, Dispatch!TypeOK
  <2> QED  BY <1>1, <2>5, <2>6 DEF AlertInv, InHand
<1>5. CASE ~(Len(adQueue) < MaxQueue)
  <2>1. adQueue' = adQueue /\ adStats' = [adStats EXCEPT !["dropped"] = @ + 1]
    BY <1>5 DEF Dispatch!Submit, Dispatch!Count
  <2>2. Dispatch!Waiting' = Dispatch!Waiting  BY <2>1 DEF Dispatch!Waiting
  <2>3. adStats' \in [{"sent", "failed", "dropped"} -> Nat] /\ Dispatch!Waiting \in Nat
    BY <1>1, <2>1, TalliesAreNumbers DEF AlertInv, Dispatch!TypeOK
  <2>4. adStats'["dropped"] = adStats["dropped"] + 1 /\ adStats'["sent"] = adStats["sent"]
         /\ adStats'["failed"] = adStats["failed"]
    BY <2>1 DEF AlertInv, Dispatch!TypeOK
  <2>5. Dispatch!Accounted'
    BY <1>1, <2>2, <2>4, TalliesAreNumbers DEF AlertInv, Dispatch!Accounted
  <2>6. adStats' \in [{"sent", "failed", "dropped"} -> 0..MaxItems]
    <3> DEFINE h == IF adItem' = Dispatch!Sentinel THEN 0 ELSE 1
    <3>1. h \in {0, 1} /\ adSubmitted' = adStats'["sent"] + adStats'["failed"] + adStats'["dropped"]
                                       + Dispatch!Waiting + h
      BY <2>2, <2>5 DEF Dispatch!Accounted
    <3> HIDE DEF h
    <3> QED  BY <1>1, <1>2, <2>3, <3>1, TalliesAreBounded
  <2>7. Dispatch!TypeOK'  BY <1>1, <1>2, <1>3, <2>1, <2>6 DEF AlertInv, Dispatch!TypeOK
  <2> QED  BY <1>1, <2>5, <2>7 DEF AlertInv, InHand
<1> QED  BY <1>4, <1>5

\* A sentinel is no finding.
LEMMA StopAccounts ==
  ASSUME AlertInv, Dispatch!DispatcherConstantsOK, Dispatch!Stop
  PROVE  AlertInv'
<1>1. /\ UNCHANGED <<adSettings, adWorker, adItem, adConf, adAt, adStats, adSubmitted, adSevere,
                     adLast>>
      /\ adStopping' = TRUE /\ MaxQueue \in Nat
      /\ adQueue \in Seq(Dispatch!Items \cup {Dispatch!Sentinel}) /\ Len(adQueue) <= MaxQueue
  BY DEF AlertInv, Dispatch!TypeOK, Dispatch!DispatcherConstantsOK, Dispatch!Stop,
     Dispatch!workerVars
<1>2. \/ adQueue' = Append(adQueue, Dispatch!Sentinel) /\ Len(adQueue) < MaxQueue
      \/ adQueue' = adQueue
  BY DEF Dispatch!Stop
<1>3. adQueue' \in Seq(Dispatch!Items \cup {Dispatch!Sentinel}) /\ Len(adQueue') <= MaxQueue
  BY <1>1, <1>2
<1>4. Dispatch!Waiting \in Nat  BY DispatchCounts, <1>1, WaitingIsNatural DEF Dispatch!Waiting
<1>5. Dispatch!Waiting' = Dispatch!Waiting
  <2>1. CASE adQueue' = adQueue  BY <2>1 DEF Dispatch!Waiting
  <2>2. CASE adQueue' = Append(adQueue, Dispatch!Sentinel)
    <3>1. Cardinality(Dispatch!FindingsIn(adQueue')) = Cardinality(Dispatch!FindingsIn(adQueue)) + 0
      BY <1>1, <2>2, OneMoreWaits
    <3> QED  BY DispatchCounts, <1>4, <3>1 DEF Dispatch!Waiting
  <2> QED  BY <1>2, <2>1, <2>2
<1>6. Dispatch!TypeOK'  BY <1>1, <1>3 DEF AlertInv, Dispatch!TypeOK
<1> QED  BY <1>1, <1>5, <1>6 DEF AlertInv, Dispatch!Accounted, InHand

\* A finding passes from the queue into the worker's hands.
LEMMA GetAccounts ==
  ASSUME AlertInv, Dispatch!DispatcherConstantsOK, Dispatch!Get
  PROVE  AlertInv'
<1>1. /\ adWorker = "get" /\ adQueue # <<>> /\ adQueue' = Tail(adQueue)
      /\ UNCHANGED <<adSettings, adStopping, adStats, adSubmitted, adSevere, adLast>>
      /\ adQueue \in Seq(Dispatch!Items \cup {Dispatch!Sentinel}) /\ Len(adQueue) <= MaxQueue
      /\ MaxQueue \in Nat /\ Sinks \in Nat \ {0}
      /\ adItem = Dispatch!Sentinel
  BY DEF AlertInv, Dispatch!TypeOK, InHand, Dispatch!DispatcherConstantsOK, Dispatch!Get,
     Dispatch!WorkerOnly
<1>2. /\ Head(adQueue) \in Dispatch!Items \cup {Dispatch!Sentinel} /\ Len(adQueue) \in Nat
      /\ adQueue' \in Seq(Dispatch!Items \cup {Dispatch!Sentinel})
      /\ Len(adQueue') = Len(adQueue) - 1
  BY <1>1
<1>3. Dispatch!Waiting = Dispatch!Waiting' + IF Head(adQueue) = Dispatch!Sentinel THEN 0 ELSE 1
  BY DispatchCounts, <1>1, OneFewerWaits DEF Dispatch!Waiting
<1>4. Dispatch!Waiting' \in Nat  BY DispatchCounts, <1>2, WaitingIsNatural DEF Dispatch!Waiting
<1>5. \/ Head(adQueue) = Dispatch!Sentinel /\ adWorker' = "gone" /\ UNCHANGED <<adItem, adConf, adAt>>
      \/ Head(adQueue) # Dispatch!Sentinel /\ adWorker' = "sinks" /\ adItem' = Head(adQueue)
           /\ adConf' = adSettings /\ adAt' = 1
  BY DEF Dispatch!Get
<1>6. 1 \in 1..(Sinks + 1) /\ Len(adQueue') <= MaxQueue  BY <1>1, <1>2
<1>7. Dispatch!TypeOK'  BY <1>1, <1>2, <1>5, <1>6 DEF AlertInv, Dispatch!TypeOK
<1>8. InHand'  BY <1>1, <1>5 DEF InHand
<1>9. Dispatch!Accounted'
  BY <1>1, <1>3, <1>4, <1>5 DEF AlertInv, Dispatch!Accounted, Dispatch!TypeOK
<1> QED  BY <1>7, <1>8, <1>9 DEF AlertInv

\* It leaves them for one of the counters, whichever way the delivery ends.
LEMMA EndAccounts ==
  ASSUME AlertInv, Dispatch!DispatcherConstantsOK,
         Dispatch!DeliveryRaises \/ Dispatch!DeliveryEnds
  PROVE  AlertInv'
<1>1. /\ adWorker = "sinks" /\ adWorker' = "top" /\ adItem # Dispatch!Sentinel
      /\ adItem' = Dispatch!Sentinel
      /\ adConf' = Dispatch!Quiet /\ adAt' = 1
      /\ UNCHANGED <<adSettings, adQueue, adStopping, adSubmitted, adSevere, adLast>>
      /\ adQueue \in Seq(Dispatch!Items \cup {Dispatch!Sentinel}) /\ MaxItems \in Nat
      /\ Sinks \in Nat \ {0}
  BY DEF AlertInv, InHand, Dispatch!TypeOK, Dispatch!DispatcherConstantsOK,
     Dispatch!DeliveryRaises, Dispatch!DeliveryEnds, Dispatch!Delivering, Dispatch!HandsFree,
     Dispatch!WorkerOnly
<1>2. PICK k \in {"sent", "failed"} : adStats' = [adStats EXCEPT ![k] = @ + 1]
  BY DEF Dispatch!DeliveryRaises, Dispatch!DeliveryEnds, Dispatch!Count
<1>3. Dispatch!Waiting' = Dispatch!Waiting  BY <1>1 DEF Dispatch!Waiting
<1>4. adStats' \in [{"sent", "failed", "dropped"} -> Nat] /\ Dispatch!Waiting \in Nat
  BY <1>1, <1>2, TalliesAreNumbers DEF AlertInv, Dispatch!TypeOK
<1>5. /\ adStats'["dropped"] = adStats["dropped"]
      /\ adStats'["sent"] + adStats'["failed"] = adStats["sent"] + adStats["failed"] + 1
  BY <1>1, <1>2, TalliesAreNumbers DEF AlertInv, Dispatch!TypeOK
<1>6. Dispatch!Accounted'
  BY <1>1, <1>3, <1>4, <1>5, TalliesAreNumbers DEF AlertInv, Dispatch!Accounted
<1>7. adStats' \in [{"sent", "failed", "dropped"} -> 0..MaxItems]
  <2>1. /\ adSubmitted' \in 0..MaxItems
        /\ adSubmitted' = adStats'["sent"] + adStats'["failed"] + adStats'["dropped"] + Dispatch!Waiting + 0
    BY <1>1, <1>3, <1>6 DEF Dispatch!Accounted, AlertInv, Dispatch!TypeOK
  <2> QED  BY <1>1, <1>4, <2>1, TalliesAreBounded
<1>8. 1 \in 1..(Sinks + 1)  BY <1>1
<1>9. Dispatch!TypeOK'  BY <1>1, <1>7, <1>8 DEF AlertInv, Dispatch!TypeOK
<1> QED  BY <1>1, <1>6, <1>9 DEF AlertInv, InHand

\* In between, the finding stays where it is.
LEMMA SinksAccount ==
  ASSUME AlertInv, Dispatch!DispatcherConstantsOK, Dispatch!PassOver \/ Dispatch!TrySink
  PROVE  AlertInv'
<1>1. /\ adAt \in 1..(Sinks + 1) /\ adAt <= Sinks /\ adAt' = adAt + 1 /\ Sinks \in Nat
      /\ UNCHANGED <<adSettings, adQueue, adStopping, adWorker, adItem, adConf, adStats,
                     adSubmitted, adSevere>>
      /\ adLast' = adLast \/ adLast' = [adLast EXCEPT ![adAt] = adItem]
  BY DEF AlertInv, Dispatch!TypeOK, Dispatch!DispatcherConstantsOK, Dispatch!PassOver,
     Dispatch!TrySink, Dispatch!Delivering, Dispatch!WorkerOnly
<1>2. adAt' \in 1..(Sinks + 1)  BY <1>1
<1>3. adItem \in 0..MaxItems /\ adLast \in [Dispatch!SinkIds -> 0..MaxItems]
  BY DEF AlertInv, Dispatch!TypeOK, Dispatch!Items, Dispatch!Sentinel,
     Dispatch!DispatcherConstantsOK
<1>4. adLast' \in [Dispatch!SinkIds -> 0..MaxItems]  BY <1>1, <1>3
<1>5. Dispatch!TypeOK'  BY <1>1, <1>2, <1>4 DEF AlertInv, Dispatch!TypeOK
<1> QED  BY <1>1, <1>5, AccountsUntouched

\* Every step keeps the accounts.
LEMMA AlertInvNext ==
  ASSUME AlertInv, Dispatch!DispatcherConstantsOK, [Dispatch!Next]_(Dispatch!vars)
  PROVE  AlertInv'
<1>1. CASE Dispatch!Start \/ Dispatch!LoopTop \/ Dispatch!GetTimesOut
  <2>1. /\ adWorker # "sinks" /\ adWorker' # "sinks" /\ adWorker' \in {"top", "get", "gone"}
        /\ UNCHANGED <<adSettings, adQueue, adStopping, adItem, adConf, adAt, adStats,
                       adSubmitted, adSevere, adLast>>
    BY <1>1 DEF Dispatch!Start, Dispatch!LoopTop, Dispatch!GetTimesOut, Dispatch!WorkerOnly
  <2>2. Dispatch!Waiting' = Dispatch!Waiting  BY <2>1 DEF Dispatch!Waiting
  <2> QED  BY <2>1, <2>2 DEF AlertInv, Dispatch!TypeOK, Dispatch!Accounted, InHand
<1>2. CASE Dispatch!Configure \/ UNCHANGED Dispatch!vars
  <2>1. Dispatch!TypeOK'
    BY <1>2
       DEF AlertInv, Dispatch!TypeOK, Dispatch!Configure, Dispatch!workerVars, Dispatch!vars
  <2> QED
    BY <1>2, <2>1, AccountsUntouched DEF Dispatch!Configure, Dispatch!workerVars, Dispatch!vars
<1>3. CASE Dispatch!Submit  BY <1>3, SubmitAccounts
<1>4. CASE Dispatch!Stop  BY <1>4, StopAccounts
<1>5. CASE Dispatch!Get  BY <1>5, GetAccounts
<1>6. CASE Dispatch!PassOver \/ Dispatch!TrySink  BY <1>6, SinksAccount
<1>7. CASE Dispatch!DeliveryRaises \/ Dispatch!DeliveryEnds  BY <1>7, EndAccounts
<1> QED  BY <1>1, <1>2, <1>3, <1>4, <1>5, <1>6, <1>7 DEF Dispatch!Next, Dispatch!Work

\* And they begin balanced, at nothing.
LEMMA AlertInvInit ==
  ASSUME Dispatch!DispatcherConstantsOK, Dispatch!Init
  PROVE  AlertInv
<1>1. Dispatch!FindingsIn(adQueue) = {}  BY DEF Dispatch!Init, Dispatch!FindingsIn
<1>2. Dispatch!Waiting = 0  BY DispatchCounts, <1>1, FS_EmptySet DEF Dispatch!Waiting
<1>3. Dispatch!TypeOK
  <2>1. /\ {adSettings, adConf} \subseteq AlertConfigs \cup {Dispatch!Quiet}
        /\ adStopping \in BOOLEAN
        /\ adWorker \in {"new", "top", "get", "sinks", "gone"}
        /\ adItem \in Dispatch!Items \cup {Dispatch!Sentinel}
        /\ adSevere \subseteq Dispatch!Items
    BY DEF Dispatch!Init
  <2>2. adQueue \in Seq(Dispatch!Items \cup {Dispatch!Sentinel}) /\ Len(adQueue) <= MaxQueue
    BY DEF Dispatch!Init, Dispatch!DispatcherConstantsOK
  <2>3. /\ adAt \in 1..(Sinks + 1) /\ adSubmitted \in 0..MaxItems
        /\ adStats \in [{"sent", "failed", "dropped"} -> 0..MaxItems]
        /\ adLast \in [Dispatch!SinkIds -> 0..MaxItems]
    BY DEF Dispatch!Init, Dispatch!DispatcherConstantsOK
  <2> QED  BY <2>1, <2>2, <2>3 DEF Dispatch!TypeOK
<1>4. Dispatch!Accounted  BY <1>2 DEF Dispatch!Init, Dispatch!Accounted
<1> QED  BY <1>3, <1>4 DEF Dispatch!Init, InHand, AlertInv

\* submit, the queue and the worker's loop bring findings to every sink in the order
\* scans reported them and to none twice, whatever is dropped, fails, is reconfigured
\* or is stopped.
THEOREM DeliveryIsInOrder == Spec => OrderKept
<1>1. Init => OrderInv
  BY WorkersStart
     DEF Dispatch!Init, OrderInv, OrderNumbers, QueueInOrder, WorkInOrder, IsFinding,
         Dispatch!Sentinel
<1>2. OrderInv /\ [Next]_vars => OrderInv'  BY WorkersMove, OrderInvNext
<1>3. OrderInv /\ [Next]_vars =>
        [\A s \in Dispatch!SinkIds : adLast'[s] # adLast[s] => adLast'[s] > adLast[s]]_(Dispatch!vars)
  BY WorkersMove, OrderInvNext
<1> QED  BY <1>1, <1>2, <1>3, PTL DEF Spec, OrderKept, Dispatch!OrderKept

\* What is counted as sent, failed and dropped, with what waits and what is in the worker's
\* hands, is what was submitted (AlertDispatcher.submit, _loop, _deliver).
THEOREM FindingsAreAccounted == Spec => []Accounted
<1>1. Init => AlertInv  BY WorkersStart, AlertInvInit, PartsAreWellFormed
<1>2. AlertInv /\ [Next]_vars => AlertInv'  BY WorkersMove, AlertInvNext, PartsAreWellFormed
<1>3. AlertInv => Accounted  BY DEF AlertInv, Accounted
<1> QED  BY <1>1, <1>2, <1>3, PTL DEF Spec

(***************************************************************************)
(* SettingsService and GpsReader                                           *)
(*                                                                         *)
(* With one caller, the only reader that can be alive is the one it        *)
(* started last or the one it is waiting for.                              *)
(***************************************************************************)

\* What is counted here is counted as the library counts.
LEMMA ServiceCounts ==
  ASSUME NEW S
  PROVE  /\ Service!Cardinality(S) = Cardinality(S)
         /\ Service!IsFiniteSet(S) <=> IsFiniteSet(S)
BY DEF Service!Cardinality, Service!IsFiniteSet, Cardinality, IsFiniteSet

ReaderPlaces == {"unused", "top", "opening", "reading", "waiting", "gone"}
CallerStages == {"idle", "alerts", "gps", "done"} \cup Service!Inside

\* The service and the reader begin well typed.
LEMMA ServiceTypeInit ==
  ASSUME Service!GpsConstantsOK, Service!ServiceConstantsOK, Service!Init
  PROVE  Service!TypeOK
<1>1. ssMemory \in Service!Trees /\ ssAlertConf \in Alerts
  BY DEF Service!Init, Service!Trees, Service!Defaults, Service!ServiceConstantsOK
<1>2. grPc \in [Callers -> {"idle", "alerts", "gps", "done"} \cup Service!Inside]
  BY DEF Service!Init
<1>3. grStarted \in 0..MaxReaders  BY DEF Service!Init, Service!GpsInit, Service!GpsConstantsOK
<1>4. Service!GpsType  BY <1>3 DEF Service!Init, Service!GpsInit, Service!GpsType
<1> QED  BY <1>1, <1>2, <1>4 DEF Service!TypeOK

\* A step of a caller.
LEMMA CallerTypes ==
  ASSUME Service!TypeOK, Service!GpsConstantsOK, Service!ServiceConstantsOK, NEW c \in Callers,
         Service!Update(c) \/ Service!Wipe(c) \/ Service!Push(c)
  PROVE  Service!TypeOK'
<1> USE DEF Service!TypeOK, Service!GpsType
<1>1. CASE Service!Update(c)
  BY <1>1 DEF Service!Update, Service!Proceed, Service!objectVars, Service!readerVars
<1>2. CASE Service!Wipe(c)
  BY <1>2
     DEF Service!Wipe, Service!Trees, Service!Defaults, Service!ServiceConstantsOK,
         Service!gpsVars, Service!objectVars, Service!readerVars, Service!callVars
<1>3. CASE Service!PushAlerts(c)
  <2>1. ssMemory.alerts \in Alerts  BY DEF Service!Trees
  <2> QED
    BY <1>3, <2>1
       DEF Service!PushAlerts, Service!Proceed, Service!objectVars, Service!readerVars
<1>4. CASE Service!PushGps(c)
  <2>1. ssMemory.port \in Ports \cup {NoPort}  BY DEF Service!Trees
  <2>2. grWant' \in [Callers -> Ports \cup {NoPort}]  BY <1>4, <2>1 DEF Service!PushGps
  <2>3. grPc' \in [Callers -> CallerStages]
    BY <1>4 DEF Service!PushGps, Service!Proceed, Service!Inside, CallerStages
  <2> QED
    BY <1>4, <2>2, <2>3
       DEF Service!PushGps, Service!objectVars, Service!readerVars, CallerStages
<1>5. CASE Service!Answer(c)
  BY <1>5 DEF Service!Answer, Service!Proceed, Service!objectVars, Service!readerVars
<1>6. CASE Service!CallerSteps(c) /\ UNCHANGED <<ssMemory, ssAlertConf>>
  <2>1. CASE Service!SetStop(c)
    BY <1>6, <2>1 DEF Service!SetStop, Service!Proceed, Service!Inside, Service!readerVars
  <2>2. CASE Service!Joined(c)
    <3>1. grOutlived' \in BOOLEAN  BY <2>2 DEF Service!Joined
    <3>2. grWaitsFor' \in [Callers -> Service!Readers \cup {Service!NoReader}]
      BY <2>2 DEF Service!Joined
    <3>3. grPc' \in [Callers -> CallerStages]
      BY <2>2 DEF Service!Joined, Service!Proceed, Service!Inside, CallerStages
    <3> QED
      BY <1>6, <2>2, <3>1, <3>2, <3>3 DEF Service!Joined, Service!readerVars, CallerStages
  <2>3. CASE Service!SetPort(c)
    BY <1>6, <2>3 DEF Service!SetPort, Service!Proceed, Service!Inside, Service!readerVars
  <2>4. CASE Service!ClearStop(c)
    BY <1>6, <2>4 DEF Service!ClearStop, Service!Proceed, Service!Inside, Service!readerVars
  <2>5. CASE Service!Spawn(c)
    <3>1. grStarted' \in Service!Readers /\ grStarted' \in 0..MaxReaders
      BY <2>5 DEF Service!Spawn, Service!GpsConstantsOK, Service!Readers
    <3>2. grPlace' \in [Service!Readers -> ReaderPlaces]
      BY <2>5, <3>1 DEF Service!Spawn, ReaderPlaces
    <3>3. grWant' \in [Callers -> Ports \cup {NoPort}]  BY <2>5 DEF Service!Spawn
    <3>4. grPc' \in [Callers -> CallerStages]
      BY <2>5 DEF Service!Spawn, Service!Proceed, Service!Inside, CallerStages
    <3> QED  BY <1>6, <2>5, <3>1, <3>2, <3>3, <3>4 DEF Service!Spawn, ReaderPlaces, CallerStages
  <2> QED  BY <1>6, <2>1, <2>2, <2>3, <2>4, <2>5 DEF Service!CallerSteps
<1> QED  BY <1>1, <1>2, <1>3, <1>4, <1>5, <1>6 DEF Service!Push

\* A step of a reader: it starts nobody, and nobody alive was not.
LEMMA ReaderTypes ==
  ASSUME Service!TypeOK, NEW r \in Service!Readers, Service!Read(r)
  PROVE  /\ Service!TypeOK'
         /\ UNCHANGED <<ssMemory, ssAlertConf, Service!objectVars, grStarted, Service!callVars,
                        grOutlived>>
         /\ \A o \in Service!Readers : Service!Alive(o)' => Service!Alive(o)
<1>1. UNCHANGED <<ssMemory, ssAlertConf, Service!objectVars, grStarted, Service!callVars,
                  grOutlived>>
  BY DEF Service!Read, Service!ReaderRuns, Service!ReaderOnly, Service!LoopTop, Service!Opens,
     Service!EndsReading, Service!LosesPort, Service!Waits
<1>2. PICK to \in ReaderPlaces : grPlace' = [grPlace EXCEPT ![r] = to]
  BY DEF Service!Read, Service!ReaderRuns, Service!At, Service!LoopTop, Service!Opens,
     Service!EndsReading, Service!LosesPort, Service!Waits, ReaderPlaces
<1>3. Service!Alive(r)
  BY DEF Service!Read, Service!ReaderRuns, Service!Alive, Service!LoopTop, Service!Opens,
     Service!EndsReading, Service!LosesPort, Service!Waits
<1>4. /\ grPlace \in [Service!Readers -> ReaderPlaces]
      /\ grOpened \in [Service!Readers -> Ports \cup {NoPort}]
      /\ grPort \in Ports \cup {NoPort}
  BY DEF Service!TypeOK, Service!GpsType, ReaderPlaces
<1>5. grPlace' \in [Service!Readers -> ReaderPlaces]  BY <1>2, <1>4
<1>6. grOpened' \in [Service!Readers -> Ports \cup {NoPort}]
  <2>1. \/ grOpened' = grOpened
        \/ \E p \in Ports \cup {NoPort} : grOpened' = [grOpened EXCEPT ![r] = p]
    BY <1>4
       DEF Service!Read, Service!ReaderRuns, Service!LoopTop, Service!Opens,
           Service!EndsReading, Service!LosesPort, Service!Waits
  <2> QED  BY <1>4, <2>1
<1>7. Service!TypeOK'
  BY <1>1, <1>5, <1>6
     DEF Service!TypeOK, Service!GpsType, ReaderPlaces, Service!objectVars, Service!callVars
<1>8. \A o \in Service!Readers : Service!Alive(o)' => Service!Alive(o)
  BY <1>2, <1>3, <1>4 DEF Service!Alive
<1> QED  BY <1>1, <1>7, <1>8

\* Every step keeps the types.
LEMMA ServiceTypeNext ==
  ASSUME Service!TypeOK, Service!GpsConstantsOK, Service!ServiceConstantsOK,
         [Service!Next]_(Service!vars)
  PROVE  Service!TypeOK'
<1>1. CASE UNCHANGED Service!vars
  BY <1>1
     DEF Service!vars, Service!gpsVars, Service!objectVars, Service!readerVars,
         Service!callVars, Service!TypeOK, Service!GpsType
<1> QED  BY <1>1, CallerTypes, ReaderTypes DEF Service!Next

\* Who may be alive while the caller c is where it is: the thread that is known, the
\* one that is waited for, and nobody between the join and the spawn.
MayLive(c, r) ==
  IF grPc[c] = "join" THEN r = grWaitsFor[c]
  ELSE grPc[c] \notin {"set", "clear", "spawn"} /\ r = grThread

\* As long as no reader has outlived the wait for it, the one caller knows every reader
\* that is alive.
OnlyKnownReaders(c) == ~grOutlived => \A r \in Service!Readers : Service!Alive(r) => MayLive(c, r)

\* With the types, this is inductive when there is one caller.
ReaderInv(c) == Service!TypeOK /\ OnlyKnownReaders(c)

\* Every step keeps it: the caller joins the old reader before it spawns the next.
LEMMA ReaderInvNext ==
  ASSUME NEW c, Callers = {c}, ReaderInv(c), Service!GpsConstantsOK, Service!ServiceConstantsOK,
         [Service!Next]_(Service!vars)
  PROVE  ReaderInv(c)'
<1> USE DEF ReaderInv
<1>1. Service!TypeOK'  BY ServiceTypeNext
<1>2. c \in Callers /\ grPc \in [Callers -> CallerStages]
      /\ grWaitsFor \in [Callers -> Service!Readers \cup {Service!NoReader}]
      /\ grPlace \in [Service!Readers -> ReaderPlaces]
  BY DEF Service!TypeOK, Service!GpsType, CallerStages, ReaderPlaces
<1>3. CASE UNCHANGED Service!vars
  BY <1>1, <1>3
     DEF Service!vars, Service!gpsVars, Service!objectVars, Service!readerVars,
         Service!callVars, OnlyKnownReaders, MayLive, Service!Alive
<1>4. CASE \E r \in Service!Readers : Service!Read(r)
  <2>1. /\ UNCHANGED <<grThread, grPc, grWaitsFor, grOutlived>>
        /\ \A o \in Service!Readers : Service!Alive(o)' => Service!Alive(o)
    BY <1>4, ReaderTypes DEF Service!objectVars, Service!callVars
  <2> QED  BY <1>1, <2>1 DEF OnlyKnownReaders, MayLive
<1>5. CASE \/ Service!Update(c) \/ Service!Wipe(c) \/ Service!PushAlerts(c)
           \/ Service!PushGps(c) \/ Service!Answer(c)
  <2>1. UNCHANGED <<grThread, grPlace, grWaitsFor, grOutlived>>
    BY <1>5
       DEF Service!Update, Service!Wipe, Service!PushAlerts, Service!PushGps, Service!Answer,
           Service!gpsVars, Service!objectVars, Service!readerVars, Service!callVars
  <2>2. grPc[c] \notin {"join", "set", "clear", "spawn"} \/ grPc'[c] = grPc[c]
    BY <1>5
       DEF Service!Update, Service!Wipe, Service!PushAlerts, Service!PushGps, Service!Answer,
           Service!gpsVars, Service!callVars
  <2>3. grPc'[c] \notin {"join", "set", "clear", "spawn"} \/ grPc'[c] = grPc[c]
    BY <1>2, <1>5
       DEF Service!Update, Service!Wipe, Service!PushAlerts, Service!PushGps, Service!Answer,
           Service!Proceed, Service!gpsVars, Service!callVars
  <2> QED  BY <1>1, <2>1, <2>2, <2>3 DEF OnlyKnownReaders, MayLive, Service!Alive
<1>6. CASE Service!SetStop(c)
  <2>1. /\ grPc[c] = "stop" /\ grPc'[c] = "join" /\ grWaitsFor'[c] = grThread
        /\ UNCHANGED <<grPlace, grOutlived>>
    BY <1>2, <1>6 DEF Service!SetStop, Service!Proceed, Service!readerVars
  <2> QED  BY <1>1, <2>1 DEF OnlyKnownReaders, MayLive, Service!Alive
<1>7. CASE Service!Joined(c)
  <2>1. grPc[c] = "join" /\ UNCHANGED grPlace  BY <1>7 DEF Service!Joined, Service!readerVars
  <2>2. ~grOutlived' => /\ ~grOutlived
                        /\ (grWaitsFor[c] # Service!NoReader => ~Service!Alive(grWaitsFor[c]))
    BY <1>7 DEF Service!Joined
  <2>3. \A r \in Service!Readers : r # Service!NoReader
    BY DEF Service!Readers, Service!NoReader, Service!GpsConstantsOK
  <2>4. ~grOutlived' => \A r \in Service!Readers : ~Service!Alive(r)
    BY <2>1, <2>2, <2>3 DEF OnlyKnownReaders, MayLive
  <2>5. ~grOutlived' => \A r \in Service!Readers : ~Service!Alive(r)'
    BY <2>1, <2>4 DEF Service!Alive
  <2> QED  BY <1>1, <2>5 DEF OnlyKnownReaders
<1>8. CASE Service!SetPort(c) \/ Service!ClearStop(c)
  <2>1. grPc[c] \in {"set", "clear"} /\ UNCHANGED <<grPlace, grOutlived>>
    BY <1>8 DEF Service!SetPort, Service!ClearStop, Service!readerVars
  <2> QED  BY <1>1, <2>1 DEF OnlyKnownReaders, MayLive, Service!Alive
<1>9. CASE Service!Spawn(c)
  <2>1. /\ grPc[c] = "spawn" /\ grPc'[c] = "done" /\ UNCHANGED grOutlived
        /\ grPlace' = [grPlace EXCEPT ![grThread'] = "top"]
    BY <1>2, <1>9 DEF Service!Spawn, Service!Proceed
  <2>2. \A r \in Service!Readers : r # grThread' => grPlace'[r] = grPlace[r]  BY <1>2, <2>1
  <2> QED  BY <1>1, <2>1, <2>2 DEF OnlyKnownReaders, MayLive, Service!Alive
<1> QED
  BY <1>3, <1>4, <1>5, <1>6, <1>7, <1>8, <1>9
     DEF Service!Next, Service!Push, Service!CallerSteps

\* At most one reader is known, so at most one is alive.
LEMMA OneIsKnown ==
  ASSUME NEW c, ReaderInv(c)
  PROVE  Service!OneReader
<1> SUFFICES ASSUME ~grOutlived
             PROVE  Cardinality({r \in Service!Readers : Service!Alive(r)}) <= 1
  BY ServiceCounts DEF Service!OneReader
<1> DEFINE living == {r \in Service!Readers : Service!Alive(r)}
<1>1. PICK x : \A r \in Service!Readers : Service!Alive(r) => r = x
  BY DEF ReaderInv, OnlyKnownReaders, MayLive
<1>2. living = {} \/ living = {x}  BY <1>1
<1> HIDE DEF living
<1>3. Cardinality(living) \in {0, 1}  BY <1>2, FS_EmptySet, FS_Singleton
<1>4. Cardinality(living) <= 1  BY <1>3
<1> QED  BY <1>4 DEF living

\* No reader is alive at the start.
LEMMA ReaderInvInit ==
  ASSUME NEW c, Service!GpsConstantsOK, Service!ServiceConstantsOK, Service!Init
  PROVE  ReaderInv(c)
<1>1. \A r \in Service!Readers : ~Service!Alive(r)
  BY DEF Service!Init, Service!GpsInit, Service!Alive
<1> QED  BY <1>1, ServiceTypeInit DEF ReaderInv, OnlyKnownReaders

\* With one thread that starts and stops the receiver, start and stop leave at most one
\* reader thread, unless a join gave up on one (GpsReader.start, stop).
THEOREM OneReaderAtMost ==
  ASSUME NEW c, Callers = {c}
  PROVE  Spec => []OneReader
<1>1. Init => ReaderInv(c)  BY WorkersStart, ReaderInvInit, PartsAreWellFormed
<1>2. ReaderInv(c) /\ [Next]_vars => ReaderInv(c)'
  BY WorkersMove, ReaderInvNext, PartsAreWellFormed
<1>3. ReaderInv(c) => OneReader  BY OneIsKnown DEF OneReader
<1> QED  BY <1>1, <1>2, <1>3, PTL DEF Spec

(***************************************************************************)
(* AdapterProbe                                                            *)
(*                                                                         *)
(* A child that lists the adapters after a repair has seen it; one that    *)
(* began before is caught by the flag of a crossing.                       *)
(***************************************************************************)

\* A child that has listed the tree since the last forgetting has seen the repair.
ListingIsRepaired ==
  ~apCrossed => \A a \in Askers : apPc[a] = "store" => apSeen[a] >= apFloor

\* With what is promised, it is inductive.
ProbeInv == Prober!TypeOK /\ apFloor <= apDevices /\ ListingIsRepaired /\ Prober!ServedIsRepaired

\* Nothing is cached, and nothing has been repaired.
LEMMA ProbeInvInit ==
  ASSUME Prober!ProbeConstantsOK, Prober!Init
  PROVE  ProbeInv
<1>1. Prober!TypeOK
  <2>1. /\ apDevices \in Prober!Versions /\ apFloor \in Prober!Versions
        /\ apFailures \in 0..Limit /\ apPaused \in 0..Pause
    BY DEF Prober!Init, Prober!ProbeConstantsOK, Prober!Versions
  <2>2. apCache \in [data : Prober!Versions \cup {Prober!None}, left : 0..Ttl]
    BY DEF Prober!Init, Prober!ProbeConstantsOK
  <2>3. apCount \in [Askers -> 0..Limit]  BY DEF Prober!Init, Prober!ProbeConstantsOK
  <2> QED  BY <2>1, <2>2, <2>3 DEF Prober!Init, Prober!TypeOK
<1>2. ListingIsRepaired  BY DEF Prober!Init, ListingIsRepaired
<1> QED  BY <1>1, <1>2 DEF Prober!Init, ProbeInv, Prober!ServedIsRepaired, Prober!Cached

\* A probe leaves the tree and what the repair has forgotten alone.
LEMMA ProbeStep ==
  ASSUME ProbeInv, Prober!ProbeConstantsOK, NEW a \in Askers, Prober!Ask(a) \/ Prober!Probe(a)
  PROVE  ProbeInv'
<1> USE DEF ProbeInv
<1>0. /\ Ttl \in Nat /\ Limit \in Nat /\ Pause \in Nat /\ MaxRepairs \in Nat
      /\ apDevices \in Prober!Versions /\ apFloor \in Int /\ Prober!None \in Int
      /\ Prober!Versions \subseteq Int
      /\ apPc \in [Askers -> {"idle", "child", "store", "recover", "read", "note"}]
      /\ apSeen \in [Askers -> Prober!Versions \cup {Prober!None}]
      /\ apSeen[a] \in Prober!Versions \cup {Prober!None}
      /\ apCount \in [Askers -> 0..Limit] /\ apFailures \in 0..Limit /\ apPaused \in 0..Pause
      /\ apCache \in [data : Prober!Versions \cup {Prober!None}, left : 0..Ttl]
  BY DEF Prober!TypeOK, Prober!ProbeConstantsOK, Prober!None, Prober!Versions
<1>1. CASE \E force \in BOOLEAN : Prober!AnswerAtOnce(a, force)
  BY <1>1
     DEF Prober!AnswerAtOnce, Prober!vars, Prober!threadVars, Prober!history, Prober!TypeOK,
         ListingIsRepaired, Prober!ServedIsRepaired, Prober!Cached
<1>2. CASE (\E force \in BOOLEAN : Prober!StartChild(a, force)) \/ Prober!ChildFails(a)
  <2>1. /\ UNCHANGED <<apDevices, apCache, apFailures, apPaused, apSeen, apCount, apForgetting,
                       apFloor, apCrossed>>
        /\ \E to \in {"child", "read"} : apPc' = [apPc EXCEPT ![a] = to]
    BY <1>2 DEF Prober!StartChild, Prober!ChildFails, Prober!Goto, Prober!history
  <2>2. Prober!TypeOK'  BY <1>0, <2>1 DEF Prober!TypeOK
  <2>3. ListingIsRepaired'  BY <1>0, <2>1 DEF ListingIsRepaired
  <2> QED  BY <2>1, <2>2, <2>3 DEF Prober!ServedIsRepaired, Prober!Cached
<1>3. CASE Prober!ChildLists(a)
  <2>1. /\ UNCHANGED <<apDevices, apCache, apFailures, apPaused, apCount, apForgetting, apFloor,
                       apCrossed>>
        /\ apPc' = [apPc EXCEPT ![a] = "store"] /\ apSeen' = [apSeen EXCEPT ![a] = apDevices]
    BY <1>3 DEF Prober!ChildLists, Prober!Goto, Prober!history
  <2>2. Prober!TypeOK'  BY <1>0, <2>1 DEF Prober!TypeOK
  <2>3. ListingIsRepaired'  BY <1>0, <2>1 DEF ListingIsRepaired
  <2> QED  BY <2>1, <2>2, <2>3 DEF Prober!ServedIsRepaired, Prober!Cached
<1>4. CASE Prober!Store(a)
  <2>1. /\ UNCHANGED <<apDevices, apFailures, apPaused, apCount, apForgetting, apFloor,
                       apCrossed>>
        /\ apPc[a] = "store" /\ apCache' = [data |-> apSeen[a], left |-> Ttl]
        /\ apPc' = [apPc EXCEPT ![a] = "recover"]
        /\ apSeen' = [apSeen EXCEPT ![a] = Prober!None]
    BY <1>4 DEF Prober!Store, Prober!Goto, Prober!history
  <2>2. Prober!TypeOK'  BY <1>0, <2>1 DEF Prober!TypeOK
  <2>3. ListingIsRepaired'  BY <1>0, <2>1 DEF ListingIsRepaired
  <2>4. Prober!ServedIsRepaired'
    BY <2>1 DEF ListingIsRepaired, Prober!ServedIsRepaired, Prober!Cached
  <2> QED  BY <2>1, <2>2, <2>3, <2>4
<1>5. CASE Prober!Recover(a) \/ Prober!ReadCount(a) \/ Prober!NoteFailure(a)
  <2>1. /\ UNCHANGED <<apDevices, apCache, apSeen, apForgetting, apFloor, apCrossed>>
        /\ \E to \in {"idle", "note"} : apPc' = [apPc EXCEPT ![a] = to]
    BY <1>5
       DEF Prober!Recover, Prober!ReadCount, Prober!NoteFailure, Prober!Goto, Prober!history
  <2>2. apFailures' \in 0..Limit /\ apPaused' \in 0..Pause
    BY <1>0, <1>5 DEF Prober!Recover, Prober!ReadCount, Prober!NoteFailure
  <2>3. apCount' \in [Askers -> 0..Limit]
    BY <1>0, <1>5 DEF Prober!Recover, Prober!ReadCount, Prober!NoteFailure
  <2>4. Prober!TypeOK'  BY <1>0, <2>1, <2>2, <2>3 DEF Prober!TypeOK
  <2>5. ListingIsRepaired'  BY <1>0, <2>1 DEF ListingIsRepaired
  <2> QED  BY <2>1, <2>4, <2>5 DEF Prober!ServedIsRepaired, Prober!Cached
<1> QED  BY <1>1, <1>2, <1>3, <1>4, <1>5 DEF Prober!Ask, Prober!Probe

\* Every step keeps it.
LEMMA ProbeInvNext ==
  ASSUME ProbeInv, Prober!ProbeConstantsOK, [Prober!Next]_(Prober!vars)
  PROVE  ProbeInv'
<1> USE DEF ProbeInv
<1>0. /\ Ttl \in Nat /\ Pause \in Nat /\ MaxRepairs \in Nat
      /\ apDevices \in Prober!Versions /\ apFloor \in Prober!Versions
      /\ Prober!Versions = 0..MaxRepairs
      /\ apCache \in [data : Prober!Versions \cup {Prober!None}, left : 0..Ttl]
      /\ apPaused \in 0..Pause
  BY DEF Prober!TypeOK, Prober!ProbeConstantsOK, Prober!Versions
<1>1. CASE \E a \in Askers : Prober!Ask(a) \/ Prober!Probe(a)  BY <1>1, ProbeStep
<1>2. CASE Prober!Repair
  <2>1. /\ apDevices < MaxRepairs /\ apDevices' = apDevices + 1 /\ apForgetting' = TRUE
        /\ UNCHANGED <<apCache, apFailures, apPaused, apPc, apSeen, apCount, apFloor,
                       apCrossed>>
    BY <1>2 DEF Prober!Repair, Prober!threadVars, Prober!history
  <2>2. apDevices' \in Prober!Versions /\ apFloor <= apDevices'  BY <1>0, <2>1
  <2> QED
    BY <2>1, <2>2 DEF Prober!TypeOK, ListingIsRepaired, Prober!ServedIsRepaired, Prober!Cached
<1>3. CASE Prober!ForgetAdapters
  <2>1. /\ apCache' = [apCache EXCEPT !.left = 0] /\ apForgetting' = FALSE
        /\ apFloor' = apDevices
        /\ apCrossed' = \E a \in Askers : apPc[a] \in {"child", "store"}
        /\ UNCHANGED <<apDevices, apFailures, apPaused, apPc, apSeen, apCount>>
    BY <1>3 DEF Prober!ForgetAdapters, Prober!Invalidate, Prober!threadVars
  <2>2. /\ apCache' \in [data : Prober!Versions \cup {Prober!None}, left : 0..Ttl]
        /\ apCache'.left = 0
    BY <1>0, <2>1
  <2>3. Prober!TypeOK'  BY <2>1, <2>2 DEF Prober!TypeOK
  <2>4. apFloor' <= apDevices'  BY <1>0, <2>1
  <2>5. ListingIsRepaired'  BY <2>1 DEF ListingIsRepaired
  <2>6. Prober!ServedIsRepaired'  BY <2>2 DEF Prober!ServedIsRepaired, Prober!Cached
  <2> QED  BY <2>3, <2>4, <2>5, <2>6
<1>4. CASE Prober!Tick
  <2>1. /\ apCache' = [apCache EXCEPT !.left = IF @ > 0 THEN @ - 1 ELSE 0]
        /\ apPaused' = IF apPaused > 0 THEN apPaused - 1 ELSE 0
        /\ UNCHANGED <<apDevices, apFailures, apPc, apSeen, apCount, apForgetting, apFloor,
                       apCrossed>>
    BY <1>4 DEF Prober!Tick, Prober!Elapse, Prober!threadVars, Prober!history
  <2>2. apPaused' \in 0..Pause  BY <1>0, <2>1
  <2>3. apCache.left \in 0..Ttl  BY <1>0
  <2>4. /\ apCache' \in [data : Prober!Versions \cup {Prober!None}, left : 0..Ttl]
        /\ apCache'.data = apCache.data /\ (apCache'.left > 0 => apCache.left > 0)
    BY <1>0, <2>1, <2>3
  <2>5. Prober!TypeOK'  BY <2>1, <2>2, <2>4 DEF Prober!TypeOK
  <2> QED  BY <2>1, <2>4, <2>5 DEF ListingIsRepaired, Prober!ServedIsRepaired, Prober!Cached
<1>5. CASE UNCHANGED Prober!vars
  BY <1>5
     DEF Prober!vars, Prober!threadVars, Prober!history, Prober!TypeOK, ListingIsRepaired,
         Prober!ServedIsRepaired, Prober!Cached
<1> QED  BY <1>1, <1>2, <1>3, <1>4, <1>5 DEF Prober!Next

(***************************************************************************)
(* Bridge                                                                  *)
(*                                                                         *)
(* A task is either free, or queued, or running, or has one report on the  *)
(* way; so an object is released by the delivery of its report and by      *)
(* nothing before.                                                         *)
(***************************************************************************)

\* What appending does to a queue.
LEMMA AppendIs ==
  ASSUME NEW S, NEW q \in Seq(S), NEW x \in S
  PROVE  /\ Append(q, x) \in Seq(S) /\ Len(q) \in Nat /\ Len(Append(q, x)) = Len(q) + 1
         /\ \A k \in 1..Len(q) : Append(q, x)[k] = q[k]
         /\ Append(q, x)[Len(q) + 1] = x
         /\ \A k \in 1..(Len(q) + 1) : k \in 1..Len(q) \/ k = Len(q) + 1
OBVIOUS

\* What taking the head off does.
LEMMA TailIs ==
  ASSUME NEW S, NEW q \in Seq(S), q # <<>>
  PROVE  /\ Tail(q) \in Seq(S) /\ Head(q) = q[1] /\ Head(q) \in S
         /\ Len(q) \in Nat \ {0} /\ Len(Tail(q)) = Len(q) - 1
         /\ \A k \in 1..Len(Tail(q)) : Tail(q)[k] = q[k + 1] /\ k + 1 \in 1..Len(q)
OBVIOUS

\* Every event is about a task.
LEMMA EventsHaveTasks ==
  ASSUME NEW q \in Seq(Window!Events)
  PROVE  \A k \in 1..Len(q) : q[k].task \in Tasks
<1> SUFFICES ASSUME NEW k \in 1..Len(q) PROVE q[k].task \in Tasks  OBVIOUS
<1>1. q[k] \in Window!Events  OBVIOUS
<1> QED  BY <1>1 DEF Window!Events

\* What waits for a worker is queued, once.
WaitingOnce ==
  \A j, k \in 1..Len(brWaiting) :
    brStage[brWaiting[k]] = "queued" /\ (j # k => brWaiting[j] # brWaiting[k])

\* What waits for the interface thread is the one event of a task that has answered.
EventsOnce ==
  \A j, k \in 1..Len(brEvents) :
    brStage[brEvents[k].task] = "answered" /\ (j # k => brEvents[j].task # brEvents[k].task)

\* A task that exists is referred to.
ExistingIsLive == brLive = {t \in Tasks : ~Window!Free(t)}

\* Together they are inductive.
BridgeInv == Window!TypeOK /\ WaitingOnce /\ EventsOnce /\ ExistingIsLive

\* No task exists, and nothing waits.
LEMMA BridgeInvInit == Window!Init => BridgeInv
<1> SUFFICES ASSUME Window!Init PROVE BridgeInv  OBVIOUS
<1>1. /\ brWaiting \in Seq(Tasks) /\ brEvents \in Seq(Window!Events) /\ Len(brWaiting) = 0
      /\ Len(brEvents) = 0
  BY DEF Window!Init
<1>2. Window!TypeOK  BY <1>1 DEF Window!Init, Window!TypeOK, Window!Nothing, Window!Jobs
<1> QED
  BY <1>1, <1>2 DEF Window!Init, BridgeInv, WaitingOnce, EventsOnce, ExistingIsLive, Window!Free

\* What a report is about is not free, so it exists.
LEMMA WindowInvHolds == BridgeInv => Window!HeldUntilDelivered
<1> SUFFICES ASSUME BridgeInv, NEW k \in DOMAIN brEvents PROVE brEvents[k].task \in brLive
  BY DEF Window!HeldUntilDelivered
<1>1. brEvents \in Seq(Window!Events) /\ k \in 1..Len(brEvents) /\ brEvents[k] \in Window!Events
  BY DEF BridgeInv, Window!TypeOK
<1>2. brEvents[k].task \in Tasks /\ brStage[brEvents[k].task] = "answered"
  BY <1>1 DEF Window!Events, BridgeInv, EventsOnce
<1> QED  BY <1>2 DEF BridgeInv, ExistingIsLive, Window!Free

\* What Run needs and gives, of the pool alone.
PoolInv ==
  /\ brJob \in [Tasks -> Window!Jobs]
  /\ brStage \in [Tasks -> {"free", "queued", "running", "answered"}]
  /\ brWaiting \in Seq(Tasks) /\ brLive \subseteq Tasks
  /\ WaitingOnce /\ ExistingIsLive

\* A task that is run was free, so no queue had it.
LEMMA RunKeepsPool ==
  ASSUME BridgeInv, Window!Room, NEW kind \in {"detail", "single", "toggle", "status"},
         NEW radio \in Radios \cup {NoRadio}, Window!Run(kind, radio)
  PROVE  /\ PoolInv'
         /\ \A t \in Tasks : brStage[t] = "answered" => brStage'[t] = "answered"
<1> DEFINE t == CHOOSE u \in Tasks : Window!Free(u)
<1>1. t \in Tasks /\ Window!Free(t)  BY DEF Window!Room
<1> HIDE DEF t
<1>2. /\ brJob' = [brJob EXCEPT ![t] = [kind |-> kind, radio |-> radio]]
      /\ brStage' = [brStage EXCEPT ![t] = "queued"]
      /\ brWaiting' = Append(brWaiting, t) /\ brLive' = brLive \cup {t}
  BY DEF Window!Run, t
<1>3. /\ brJob \in [Tasks -> Window!Jobs] /\ brWaiting \in Seq(Tasks) /\ brLive \subseteq Tasks
      /\ brStage \in [Tasks -> {"free", "queued", "running", "answered"}]
      /\ WaitingOnce /\ ExistingIsLive
  BY DEF BridgeInv, Window!TypeOK
<1>4. [kind |-> kind, radio |-> radio] \in Window!Jobs  BY DEF Window!Jobs
<1>5. brJob' \in [Tasks -> Window!Jobs]  BY <1>1, <1>2, <1>3, <1>4
<1>6. brStage' \in [Tasks -> {"free", "queued", "running", "answered"}]  BY <1>1, <1>2, <1>3
<1>7. /\ brWaiting' \in Seq(Tasks) /\ Len(brWaiting) \in Nat
      /\ Len(brWaiting') = Len(brWaiting) + 1
      /\ \A k \in 1..Len(brWaiting) : brWaiting'[k] = brWaiting[k] /\ brWaiting[k] \in Tasks
      /\ brWaiting'[Len(brWaiting) + 1] = t
      /\ \A k \in 1..Len(brWaiting') : k \in 1..Len(brWaiting) \/ k = Len(brWaiting) + 1
  BY <1>1, <1>2, <1>3, AppendIs
<1>8. \A k \in 1..Len(brWaiting) : brWaiting[k] # t /\ brStage'[brWaiting[k]] = "queued"
  BY <1>1, <1>2, <1>3, <1>7 DEF WaitingOnce, Window!Free
<1>9. brStage'[t] = "queued"  BY <1>1, <1>2, <1>3
<1>10. WaitingOnce'
  <2> SUFFICES ASSUME NEW j \in 1..Len(brWaiting'), NEW k \in 1..Len(brWaiting')
               PROVE  /\ brStage'[brWaiting'[k]] = "queued"
                      /\ (j # k => brWaiting'[j] # brWaiting'[k])
    BY DEF WaitingOnce
  <2>1. brStage'[brWaiting'[k]] = "queued"  BY <1>7, <1>8, <1>9
  <2>2. ASSUME j # k PROVE brWaiting'[j] # brWaiting'[k]
    <3>1. CASE j \in 1..Len(brWaiting) /\ k \in 1..Len(brWaiting)
      BY <1>3, <1>7, <2>2, <3>1 DEF WaitingOnce
    <3> QED  BY <1>7, <1>8, <2>2, <3>1
  <2> QED  BY <2>1, <2>2
<1>11. ExistingIsLive'  BY <1>1, <1>2, <1>3, <1>6 DEF ExistingIsLive, Window!Free
<1>12. brLive' \subseteq Tasks  BY <1>1, <1>2, <1>3
<1>13. \A u \in Tasks : brStage[u] = "answered" => brStage'[u] = "answered"
  BY <1>1, <1>2, <1>3 DEF Window!Free
<1> QED  BY <1>5, <1>6, <1>7, <1>10, <1>11, <1>12, <1>13 DEF PoolInv

\* Events that have tasks that have answered, each one, keep them when the pool runs on.
LEMMA EventsKept ==
  ASSUME BridgeInv, UNCHANGED brEvents,
         \A t \in Tasks : brStage[t] = "answered" => brStage'[t] = "answered"
  PROVE  EventsOnce'
<1>1. \A k \in 1..Len(brEvents) : brEvents[k].task \in Tasks
  BY EventsHaveTasks DEF BridgeInv, Window!TypeOK
<1> QED  BY <1>1 DEF BridgeInv, EventsOnce

\* The next turn of the loop: the event becomes the one that drops its task.
LEMMA ReleaseKeepsEvents ==
  ASSUME BridgeInv, NEW t \in Tasks, brEvents # <<>>, Head(brEvents).task = t,
         Window!Release(t),
         \A u \in Tasks : brStage[u] = "answered" => brStage'[u] = "answered"
  PROVE  EventsOnce' /\ brEvents' \in Seq(Window!Events)
<1> DEFINE e == [task |-> t, what |-> "discard"]
           rest == Tail(brEvents)
<1>1. e \in Window!Events /\ e.task = t /\ brEvents \in Seq(Window!Events)
  BY DEF Window!Events, BridgeInv, Window!TypeOK
<1>2. /\ rest \in Seq(Window!Events) /\ Head(brEvents) = brEvents[1] /\ 1 \in 1..Len(brEvents)
      /\ \A k \in 1..Len(rest) : rest[k] = brEvents[k + 1] /\ k + 1 \in 1..Len(brEvents)
      /\ \A k \in 1..Len(brEvents) : brEvents[k].task \in Tasks
  BY <1>1, TailIs, EventsHaveTasks
<1>3. brEvents' = Append(rest, e)  BY DEF Window!Release
<1> HIDE DEF e, rest
<1>4. /\ brEvents' \in Seq(Window!Events) /\ Len(rest) \in Nat /\ Len(brEvents') = Len(rest) + 1
      /\ \A k \in 1..Len(rest) : brEvents'[k] = rest[k]
      /\ brEvents'[Len(rest) + 1] = e
      /\ \A k \in 1..Len(brEvents') : k \in 1..Len(rest) \/ k = Len(rest) + 1
  BY <1>1, <1>2, <1>3, AppendIs
<1>5. \A k \in 1..Len(rest) : rest[k].task # t /\ brStage[rest[k].task] = "answered"
                               /\ rest[k].task \in Tasks
  <2> SUFFICES ASSUME NEW k \in 1..Len(rest)
               PROVE  rest[k].task # t /\ brStage[rest[k].task] = "answered"
                      /\ rest[k].task \in Tasks
    OBVIOUS
  <2>1. k + 1 # 1 /\ k + 1 \in 1..Len(brEvents) /\ rest[k] = brEvents[k + 1]  BY <1>2
  <2> QED  BY <1>2, <2>1 DEF BridgeInv, EventsOnce
<1>6. \A j, k \in 1..Len(rest) : j # k => rest[j].task # rest[k].task
  <2> SUFFICES ASSUME NEW j \in 1..Len(rest), NEW k \in 1..Len(rest), j # k
               PROVE  rest[j].task # rest[k].task
    OBVIOUS
  <2>1. j + 1 # k + 1  OBVIOUS
  <2> QED  BY <1>2, <2>1 DEF BridgeInv, EventsOnce
<1>7. brStage[t] = "answered"  BY <1>2 DEF BridgeInv, EventsOnce
<1>8. EventsOnce'
  <2> SUFFICES ASSUME NEW j \in 1..Len(brEvents'), NEW k \in 1..Len(brEvents')
               PROVE  /\ brStage'[brEvents'[k].task] = "answered"
                      /\ j # k => brEvents'[j].task # brEvents'[k].task
    BY DEF EventsOnce
  <2>1. brStage'[brEvents'[k].task] = "answered"  BY <1>1, <1>4, <1>5, <1>7
  <2>2. j # k => brEvents'[j].task # brEvents'[k].task  BY <1>1, <1>4, <1>5, <1>6
  <2> QED  BY <2>1, <2>2
<1> QED  BY <1>4, <1>8

\* What Run leaves alone: what is on the screen.
ScreenType ==
  /\ brOpen \in BOOLEAN /\ {brTarget, brShown} \subseteq Radios \cup {NoRadio}
  /\ {brSingle, brToggle} \subseteq BOOLEAN

\* The pool, the screen and the events are all there is.
LEMMA PartsMakeInv ==
  ASSUME PoolInv, ScreenType, brEvents \in Seq(Window!Events), EventsOnce
  PROVE  BridgeInv
BY DEF PoolInv, ScreenType, BridgeInv, Window!TypeOK

\* And the other way round.
LEMMA InvHasParts ==
  ASSUME BridgeInv
  PROVE  PoolInv /\ ScreenType /\ brEvents \in Seq(Window!Events) /\ EventsOnce
BY DEF PoolInv, ScreenType, BridgeInv, Window!TypeOK

\* The interface thread asks for something.
LEMMA AskKeepsInv ==
  ASSUME BridgeInv,
         \/ (\E r \in Radios : Window!OpenDrawer(r)) \/ Window!SingleScan
         \/ Window!ToggleScanning \/ Window!RefreshStatus
  PROVE  BridgeInv'
<1>1. PICK kind \in {"detail", "single", "toggle", "status"}, radio \in Radios \cup {NoRadio} :
        Window!Run(kind, radio)
  BY DEF Window!OpenDrawer, Window!SingleScan, Window!ToggleScanning, Window!RefreshStatus
<1>2. Window!Room /\ UNCHANGED brEvents
  BY DEF Window!OpenDrawer, Window!SingleScan, Window!ToggleScanning, Window!RefreshStatus
<1>3. ScreenType'
  BY InvHasParts
     DEF Window!OpenDrawer, Window!SingleScan, Window!ToggleScanning, Window!RefreshStatus,
         ScreenType, Window!screenVars
<1>4. PoolInv' /\ \A t \in Tasks : brStage[t] = "answered" => brStage'[t] = "answered"
  BY <1>1, <1>2, RunKeepsPool
<1>5. EventsOnce' /\ brEvents' \in Seq(Window!Events)  BY <1>2, <1>4, EventsKept, InvHasParts
<1> QED  BY <1>3, <1>4, <1>5, PartsMakeInv DEF PoolInv, ScreenType, BridgeInv, Window!TypeOK

\* An answer arrives.
LEMMA ArrivalKeepsInv ==
  ASSUME BridgeInv, NEW t \in Tasks,
         \/ Window!DetailArrives(t) \/ Window!DetailFails(t) \/ Window!StatusArrives(t)
         \/ Window!SingleEnds(t) \/ Window!ToggleEnds(t)
  PROVE  BridgeInv'
<1>1. brEvents # <<>> /\ Head(brEvents).task = t /\ Window!Release(t)
  BY DEF Window!DetailArrives, Window!DetailFails, Window!StatusArrives, Window!SingleEnds,
     Window!ToggleEnds, Window!IsNext
<1>2. brJob[t].radio \in Radios \cup {NoRadio}  BY DEF BridgeInv, Window!TypeOK, Window!Jobs
<1>3. ScreenType'
  BY <1>2, InvHasParts
     DEF Window!DetailArrives, Window!DetailFails, Window!StatusArrives, Window!SingleEnds,
         Window!ToggleEnds, ScreenType, Window!screenVars, Window!poolVars
<1>4. (Window!Room /\ Window!Run("status", NoRadio)) \/ UNCHANGED Window!poolVars
  BY DEF Window!DetailArrives, Window!DetailFails, Window!StatusArrives, Window!SingleEnds,
     Window!ToggleEnds, Window!RefreshAgain
<1>5. PoolInv' /\ \A u \in Tasks : brStage[u] = "answered" => brStage'[u] = "answered"
  <2>1. CASE Window!Room /\ Window!Run("status", NoRadio)  BY <2>1, RunKeepsPool
  <2>2. CASE UNCHANGED Window!poolVars
    BY <2>2, InvHasParts DEF Window!poolVars, PoolInv, WaitingOnce, ExistingIsLive, Window!Free
  <2> QED  BY <1>4, <2>1, <2>2
<1>6. EventsOnce' /\ brEvents' \in Seq(Window!Events)  BY <1>1, <1>5, ReleaseKeepsEvents
<1> QED  BY <1>3, <1>5, <1>6 DEF PoolInv, ScreenType, BridgeInv, Window!TypeOK

\* The task goes, and nothing that waits is about it.
LEMMA DiscardKeepsInv ==
  ASSUME BridgeInv, NEW t \in Tasks, Window!Discard(t)
  PROVE  BridgeInv'
<1>1. /\ brEvents # <<>> /\ Head(brEvents).task = t /\ brEvents' = Tail(brEvents)
      /\ brLive' = brLive \ {t} /\ brStage' = [brStage EXCEPT ![t] = "free"]
      /\ brJob' = [brJob EXCEPT ![t] = Window!Nothing]
      /\ UNCHANGED <<brWaiting, brOpen, brTarget, brShown, brSingle, brToggle>>
  BY DEF Window!Discard, Window!IsNext, Window!screenVars
<1>2. /\ brJob \in [Tasks -> Window!Jobs] /\ brWaiting \in Seq(Tasks) /\ brLive \subseteq Tasks
      /\ brStage \in [Tasks -> {"free", "queued", "running", "answered"}]
      /\ brEvents \in Seq(Window!Events) /\ WaitingOnce /\ EventsOnce /\ ExistingIsLive
  BY DEF BridgeInv, Window!TypeOK
<1>3. /\ brEvents' \in Seq(Window!Events) /\ Head(brEvents) = brEvents[1]
      /\ 1 \in 1..Len(brEvents)
      /\ \A k \in 1..Len(brEvents') : brEvents'[k] = brEvents[k + 1] /\ k + 1 \in 1..Len(brEvents)
  BY <1>1, <1>2, TailIs
<1>4. brStage[t] = "answered" /\ \A k \in 1..Len(brEvents) : brEvents[k].task \in Tasks
  BY <1>1, <1>2, <1>3, EventsHaveTasks DEF EventsOnce
<1>5. EventsOnce'
  <2> SUFFICES ASSUME NEW j \in 1..Len(brEvents'), NEW k \in 1..Len(brEvents')
               PROVE  /\ brStage'[brEvents'[k].task] = "answered"
                      /\ j # k => brEvents'[j].task # brEvents'[k].task
    BY DEF EventsOnce
  <2>1. k + 1 # 1 /\ (j # k => j + 1 # k + 1)  OBVIOUS
  <2> QED  BY <1>1, <1>2, <1>3, <1>4, <2>1 DEF EventsOnce
<1>6. \A k \in 1..Len(brWaiting) : brWaiting[k] \in Tasks  BY <1>2
<1>7. WaitingOnce'  BY <1>1, <1>2, <1>4, <1>6 DEF WaitingOnce
<1>8. ExistingIsLive'  BY <1>1, <1>2 DEF ExistingIsLive, Window!Free
<1>9. Window!TypeOK'
  BY <1>1, <1>2, <1>3 DEF BridgeInv, Window!TypeOK, Window!Nothing, Window!Jobs
<1> QED  BY <1>5, <1>7, <1>8, <1>9 DEF BridgeInv

\* A worker takes a task, which no event is about.
LEMMA TakeKeepsInv ==
  ASSUME BridgeInv, Window!TakeTask
  PROVE  BridgeInv'
<1> DEFINE t == Head(brWaiting)
<1>1. /\ brWaiting # <<>> /\ brWaiting' = Tail(brWaiting)
      /\ brStage' = [brStage EXCEPT ![t] = "running"]
      /\ UNCHANGED <<brJob, brLive, brEvents, brOpen, brTarget, brShown, brSingle, brToggle>>
  BY DEF Window!TakeTask, Window!screenVars
<1>2. /\ brWaiting \in Seq(Tasks) /\ brEvents \in Seq(Window!Events)
      /\ brStage \in [Tasks -> {"free", "queued", "running", "answered"}]
      /\ WaitingOnce /\ EventsOnce /\ ExistingIsLive
  BY DEF BridgeInv, Window!TypeOK
<1>3. /\ brWaiting' \in Seq(Tasks) /\ t = brWaiting[1] /\ t \in Tasks /\ 1 \in 1..Len(brWaiting)
      /\ \A k \in 1..Len(brWaiting') :
           brWaiting'[k] = brWaiting[k + 1] /\ k + 1 \in 1..Len(brWaiting)
  BY <1>1, <1>2, TailIs
<1>4. brStage[t] = "queued"  BY <1>2, <1>3 DEF WaitingOnce
<1> HIDE DEF t
<1>5. WaitingOnce'
  <2> SUFFICES ASSUME NEW j \in 1..Len(brWaiting'), NEW k \in 1..Len(brWaiting')
               PROVE  /\ brStage'[brWaiting'[k]] = "queued"
                      /\ j # k => brWaiting'[j] # brWaiting'[k]
    BY DEF WaitingOnce
  <2>1. k + 1 # 1 /\ (j # k => j + 1 # k + 1)  OBVIOUS
  <2>2. \A i \in 1..Len(brWaiting) : brWaiting[i] \in Tasks  BY <1>2
  <2> QED  BY <1>1, <1>2, <1>3, <2>1, <2>2 DEF WaitingOnce
<1>6. EventsOnce'
  <2>1. \A k \in 1..Len(brEvents) : brEvents[k].task \in Tasks  BY <1>2, EventsHaveTasks
  <2> QED  BY <1>1, <1>2, <1>3, <1>4, <2>1 DEF EventsOnce
<1>7. ExistingIsLive'  BY <1>1, <1>2, <1>3, <1>4 DEF ExistingIsLive, Window!Free
<1>8. Window!TypeOK'  BY <1>1, <1>2, <1>3 DEF BridgeInv, Window!TypeOK
<1> QED  BY <1>5, <1>6, <1>7, <1>8 DEF BridgeInv

\* A worker's answer is the only event about its task.
LEMMA AnswerKeepsInv ==
  ASSUME BridgeInv, NEW t \in Tasks, Window!Answer(t)
  PROVE  BridgeInv'
<1>1. PICK what \in {"done", "failed"} : brEvents' = Append(brEvents, [task |-> t, what |-> what])
  BY DEF Window!Answer, Window!Post
<1> DEFINE e == [task |-> t, what |-> what]
<1>2. /\ brStage[t] = "running" /\ brStage' = [brStage EXCEPT ![t] = "answered"]
      /\ UNCHANGED <<brJob, brWaiting, brLive, brOpen, brTarget, brShown, brSingle, brToggle>>
  BY DEF Window!Answer, Window!screenVars
<1>3. /\ brWaiting \in Seq(Tasks) /\ brEvents \in Seq(Window!Events)
      /\ brStage \in [Tasks -> {"free", "queued", "running", "answered"}]
      /\ WaitingOnce /\ EventsOnce /\ ExistingIsLive
  BY DEF BridgeInv, Window!TypeOK
<1>4. e \in Window!Events /\ e.task = t  BY DEF Window!Events
<1> HIDE DEF e
<1>5. /\ brEvents' \in Seq(Window!Events) /\ Len(brEvents) \in Nat
      /\ Len(brEvents') = Len(brEvents) + 1
      /\ \A k \in 1..Len(brEvents) : brEvents'[k] = brEvents[k]
      /\ brEvents'[Len(brEvents) + 1] = e
      /\ \A k \in 1..Len(brEvents') : k \in 1..Len(brEvents) \/ k = Len(brEvents) + 1
  BY <1>1, <1>3, <1>4, AppendIs DEF e
<1>6. \A k \in 1..Len(brEvents) : brEvents[k].task \in Tasks /\ brEvents[k].task # t
  BY <1>2, <1>3, EventsHaveTasks DEF EventsOnce
<1>7. EventsOnce'
  <2> SUFFICES ASSUME NEW j \in 1..Len(brEvents'), NEW k \in 1..Len(brEvents')
               PROVE  /\ brStage'[brEvents'[k].task] = "answered"
                      /\ j # k => brEvents'[j].task # brEvents'[k].task
    BY DEF EventsOnce
  <2>1. brStage'[brEvents'[k].task] = "answered"
    BY <1>2, <1>3, <1>4, <1>5, <1>6 DEF EventsOnce
  <2>2. ASSUME j # k PROVE brEvents'[j].task # brEvents'[k].task
    <3>1. CASE j \in 1..Len(brEvents) /\ k \in 1..Len(brEvents)
      BY <1>3, <1>5, <2>2, <3>1 DEF EventsOnce
    <3> QED  BY <1>4, <1>5, <1>6, <2>2, <3>1
  <2> QED  BY <2>1, <2>2
<1>8. WaitingOnce'
  <2>1. \A k \in 1..Len(brWaiting) : brWaiting[k] \in Tasks  BY <1>3
  <2> QED  BY <1>2, <1>3, <2>1 DEF WaitingOnce
<1>9. ExistingIsLive'  BY <1>2, <1>3 DEF ExistingIsLive, Window!Free
<1>10. Window!TypeOK'  BY <1>2, <1>3, <1>5 DEF BridgeInv, Window!TypeOK
<1> QED  BY <1>7, <1>8, <1>9, <1>10 DEF BridgeInv

\* Every step keeps the invariant.
LEMMA BridgeInvNext ==
  ASSUME BridgeInv, [Window!Next]_(Window!vars)
  PROVE  BridgeInv'
<1>1. CASE \/ (\E r \in Radios : Window!OpenDrawer(r)) \/ Window!SingleScan
           \/ Window!ToggleScanning \/ Window!RefreshStatus
  BY <1>1, AskKeepsInv
<1>2. CASE Window!CloseWindow \/ UNCHANGED Window!vars
  <2>1. UNCHANGED <<brJob, brStage, brWaiting, brLive, brEvents, brTarget, brShown, brSingle,
                    brToggle>>
        /\ brOpen' \in BOOLEAN
    BY <1>2
       DEF Window!CloseWindow, Window!vars, Window!poolVars, Window!screenVars, BridgeInv,
           Window!TypeOK
  <2> QED
    BY <2>1 DEF BridgeInv, Window!TypeOK, WaitingOnce, EventsOnce, ExistingIsLive, Window!Free
<1>3. CASE Window!Deliver  BY <1>3, ArrivalKeepsInv, DiscardKeepsInv DEF Window!Deliver
<1>4. CASE Window!TakeTask  BY <1>4, TakeKeepsInv
<1>5. CASE \E t \in Tasks : Window!Answer(t)  BY <1>5, AnswerKeepsInv
<1> QED  BY <1>1, <1>2, <1>3, <1>4, <1>5 DEF Window!Next

\* An object that a background thread reports to exists until what it reported is
\* delivered, whatever is asked for meanwhile (Bridge.run, _release).
THEOREM ReportsAreHeld == Spec => []HeldUntilDelivered
<1>1. Init => BridgeInv  BY WorkersStart, BridgeInvInit
<1>2. BridgeInv /\ [Next]_vars => BridgeInv'  BY WorkersMove, BridgeInvNext
<1>3. BridgeInv => HeldUntilDelivered  BY WindowInvHolds DEF HeldUntilDelivered
<1> QED  BY <1>1, <1>2, <1>3, PTL DEF Spec
=============================================================================
