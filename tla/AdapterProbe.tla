---------------------------- MODULE AdapterProbe ----------------------------
(***************************************************************************)
(* Listing adapters, app/adapter_probe.py: the list comes from a child     *)
(* process that may hang, crash or leave no result, is cached for a while, *)
(* and is not asked for during a pause after repeated failures.  Any       *)
(* number of threads ask at once; none holds the lock across its probe,    *)
(* and the failure count is not under the lock at all.                     *)
(*                                                                         *)
(* The device tree is a version number, raised by each repair.  Time is    *)
(* counted down: the seconds the cache is still good for, and those left   *)
(* of the pause.                                                           *)
(***************************************************************************)
EXTENDS Integers

CONSTANTS
  Askers,      \* threads that list adapters: the scan loop, the UI, the API
  Ttl,         \* CACHE_TTL
  Pause,       \* how long probing pauses
  Limit,       \* the failures that bring it about
  MaxRepairs   \* bound: changes of the device tree

\* What the constants have to be.
ProbeConstantsOK ==
  {Ttl, Pause, Limit, MaxRepairs} \subseteq Nat \ {0}

VARIABLES
  devices,     \* the device tree
  cache,       \* _cache: the version listed, and how long it is good
  failures,    \* _consecutive_failures, as far as Limit
  paused,      \* what is left of _disabled_until
  pc,          \* where each thread is in probe
  seen,        \* the version its child listed
  count,       \* the failure count it has read
  forgetting,  \* a repair has changed the tree and has yet to forget the cache
  floor,       \* history: the version at the last forgetting
  crossed      \* history: a probe was under way then

threadVars == <<pc, seen, count>>
history    == <<floor, crossed>>
vars == <<devices, cache, failures, paused, threadVars, forgetting, history>>

None == -1
Versions == 0..MaxRepairs

TypeOK ==
  /\ devices \in Versions
  /\ cache \in [data : Versions \cup {None}, left : 0..Ttl]
  /\ failures \in 0..Limit /\ paused \in 0..Pause
  /\ pc \in [Askers -> {"idle", "child", "store", "recover", "read", "note"}]
  /\ seen \in [Askers -> Versions \cup {None}]
  /\ count \in [Askers -> 0..Limit]
  /\ forgetting \in BOOLEAN
  /\ floor \in Versions /\ crossed \in BOOLEAN

Init ==
  /\ devices = 0
  /\ cache = [data |-> None, left |-> 0]
  /\ failures = 0 /\ paused = 0
  /\ pc = [a \in Askers |-> "idle"]
  /\ seen = [a \in Askers |-> None]
  /\ count = [a \in Askers |-> 0]
  /\ forgetting = FALSE
  /\ floor = 0 /\ crossed = FALSE

Goto(a, to) == pc' = [pc EXCEPT ![a] = to]

(***************************************************************************)
(* A probe                                                                 *)
(***************************************************************************)

Cached == cache.data # None /\ cache.left > 0

\* Answered at once: from the cache unless forced, or, in a pause, by the last
\* list there was, forced or not.
AnswerAtOnce(a, force) ==
  /\ pc[a] = "idle"
  /\ (~force /\ Cached) \/ paused > 0
  /\ UNCHANGED vars

StartChild(a, force) ==
  /\ pc[a] = "idle"
  /\ force \/ ~Cached
  /\ paused = 0
  /\ Goto(a, "child")
  /\ UNCHANGED <<devices, cache, failures, paused, seen, count, forgetting, history>>

\* The child reads the device tree, and ends.
ChildLists(a) ==
  /\ pc[a] = "child"
  /\ seen' = [seen EXCEPT ![a] = devices]
  /\ Goto(a, "store")
  /\ UNCHANGED <<devices, cache, failures, paused, count, forgetting, history>>

\* It is stopped by the timeout, crashes, or its result cannot be read; the
\* caller gets the last list.
ChildFails(a) ==
  /\ pc[a] = "child"
  /\ Goto(a, "read")
  /\ UNCHANGED <<devices, cache, failures, paused, seen, count, forgetting, history>>

Store(a) ==
  /\ pc[a] = "store"
  /\ cache' = [data |-> seen[a], left |-> Ttl]
  /\ seen' = [seen EXCEPT ![a] = None]
  /\ Goto(a, "recover")
  /\ UNCHANGED <<devices, failures, paused, count, forgetting, history>>

Recover(a) ==
  /\ pc[a] = "recover"
  /\ failures' = 0
  /\ Goto(a, "idle")
  /\ UNCHANGED <<devices, cache, paused, seen, count, forgetting, history>>

\* _note_failure: read, and then written, without the lock.
ReadCount(a) ==
  /\ pc[a] = "read"
  /\ count' = [count EXCEPT ![a] = failures]
  /\ Goto(a, "note")
  /\ UNCHANGED <<devices, cache, failures, paused, seen, forgetting, history>>

\* Faulty: the count is not bounded.
NoteUnbounded(a) ==
  /\ pc[a] = "note"
  /\ failures' = count[a] + 1
  /\ paused' = IF failures' = Limit THEN Pause ELSE paused
  /\ count' = [count EXCEPT ![a] = 0]
  /\ Goto(a, "idle")
  /\ UNCHANGED <<devices, cache, seen, forgetting, history>>

NoteFailure(a) ==
  /\ pc[a] = "note"
  /\ failures' = IF count[a] < Limit THEN count[a] + 1 ELSE Limit
  /\ paused' = IF failures' = Limit THEN Pause ELSE paused
  /\ count' = [count EXCEPT ![a] = 0]
  /\ Goto(a, "idle")
  /\ UNCHANGED <<devices, cache, seen, forgetting, history>>

Ask(a) == \E force \in BOOLEAN : AnswerAtOnce(a, force) \/ StartChild(a, force)

AskAgain(a) == \E force \in BOOLEAN : StartChild(a, force)

Probe(a) ==
  \/ ChildLists(a) \/ ChildFails(a) \/ Store(a) \/ Recover(a)
  \/ ReadCount(a) \/ NoteFailure(a)

(***************************************************************************)
(* Repairs and time                                                        *)
(***************************************************************************)

\* A repair changes the device tree ...
Repair ==
  /\ devices < MaxRepairs /\ ~forgetting
  /\ devices' = devices + 1
  /\ forgetting' = TRUE
  /\ UNCHANGED <<cache, failures, paused, threadVars, history>>

\* Faulty: the list is kept.
ForgetLater == UNCHANGED cache

\* invalidate: the list is no longer good, but still there for a fallback.
Invalidate == cache' = [cache EXCEPT !.left = 0]

\* ... and then has the engine forget the adapters.
ForgetAdapters ==
  /\ forgetting
  /\ Invalidate
  /\ forgetting' = FALSE
  /\ floor' = devices
  /\ crossed' = \E a \in Askers : pc[a] \in {"child", "store"}
  /\ UNCHANGED <<devices, failures, paused, threadVars>>

\* Faulty: a caller who is refused may prolong the pause.
PausedAgain ==
  /\ cache' = [cache EXCEPT !.left = IF @ > 0 THEN @ - 1 ELSE 0]
  /\ paused' \in IF paused > 1 THEN {paused - 1, Pause} ELSE {paused}

Elapse ==
  /\ cache' = [cache EXCEPT !.left = IF @ > 0 THEN @ - 1 ELSE 0]
  /\ paused' = IF paused > 0 THEN paused - 1 ELSE 0

Tick ==
  /\ cache.left > 0 \/ paused > 0
  /\ Elapse
  /\ UNCHANGED <<devices, failures, threadVars, forgetting, history>>

Next ==
  \/ \E a \in Askers : Ask(a) \/ Probe(a)
  \/ Repair \/ ForgetAdapters \/ Tick

Spec == Init /\ [][Next]_vars

\* The loop and the window ask again and again; a child ends or is killed; time
\* passes; a repair that has changed the tree goes on.
Fairness ==
  /\ \A a \in Askers : WF_vars(AskAgain(a))
  /\ \A a \in Askers : WF_vars(Probe(a))
  /\ WF_vars(ForgetAdapters) /\ WF_vars(Tick)

(***************************************************************************)
(* Properties                                                              *)
(***************************************************************************)

\* A list served as current is not older than the last repair, unless a probe
\* that began before was still under way when the repair forgot the adapters.
ServedIsRepaired == Cached /\ ~crossed => cache.data >= floor

\* Failures end: when the driver answers again, so that no child fails any more,
\* the list is refreshed again and again, however often the probe was paused.
ProbingResumes ==
  <>[][\A a \in Askers : ~ChildFails(a)]_vars
    => []<>(\E a \in Askers : pc[a] = "store")
=============================================================================
