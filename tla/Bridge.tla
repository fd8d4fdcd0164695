------------------------------- MODULE Bridge -------------------------------
(***************************************************************************)
(* The desktop interface's threads, app/ui/bridge.py, with three of their  *)
(* users in app/ui: the detail drawer, the Single scan button, the Start   *)
(* scanning button.  Blocking calls are tasks of a pool of a few workers;  *)
(* a task's answer is posted to the interface thread, whose loop delivers  *)
(* it to the callback and, one turn later, drops the last reference to the *)
(* task.  What a call returns is left out, but not whether it fails.       *)
(***************************************************************************)
EXTENDS Integers, Sequences, FiniteSets

CONSTANTS
  Tasks,       \* bound: tasks that exist at once
  MaxWorkers,  \* MAX_WORKERS
  Radios,      \* BSSIDs the drawer is opened for
  NoRadio

\* What the constants have to be.
BridgeConstantsOK == MaxWorkers \in Nat \ {0} /\ NoRadio \notin Radios

VARIABLES
  job,       \* what each task does
  stage,     \* free, queued, running or answered
  waiting,   \* the pool's queue
  live,      \* _live: the tasks something still refers to
  events,    \* the interface thread's queue
  open,      \* whether the window is open, and so the bridge attached
  target,    \* the drawer's _bssid, which its buttons act on
  shown,     \* the radio whose details it shows
  single,    \* whether the Single scan button can be pressed
  toggle     \* whether the Start scanning button can

poolVars   == <<job, stage, waiting, live>>
screenVars == <<open, target, shown, single, toggle>>
vars == <<poolVars, events, screenVars>>

Nothing == [kind |-> "none", radio |-> NoRadio]
Jobs == [kind : {"none", "detail", "single", "toggle", "status"},
         radio : Radios \cup {NoRadio}]
Events == [task : Tasks, what : {"done", "failed", "discard"}]

TypeOK ==
  /\ job \in [Tasks -> Jobs]
  /\ stage \in [Tasks -> {"free", "queued", "running", "answered"}]
  /\ waiting \in Seq(Tasks) /\ events \in Seq(Events)
  /\ live \subseteq Tasks
  /\ open \in BOOLEAN
  /\ {target, shown} \subseteq Radios \cup {NoRadio}
  /\ {single, toggle} \subseteq BOOLEAN

Init ==
  /\ job = [t \in Tasks |-> Nothing]
  /\ stage = [t \in Tasks |-> "free"]
  /\ waiting = <<>> /\ live = {} /\ events = <<>>
  /\ open = TRUE
  /\ target = NoRadio /\ shown = NoRadio
  /\ single = TRUE /\ toggle = TRUE

(***************************************************************************)
(* The interface thread                                                    *)
(***************************************************************************)

Free(t) == stage[t] = "free"

\* Pool.run makes a task: which of the free ones makes no difference.
Room == \E t \in Tasks : Free(t)

Run(kind, radio) ==
  LET t == CHOOSE u \in Tasks : Free(u) IN
    /\ job' = [job EXCEPT ![t] = [kind |-> kind, radio |-> radio]]
    /\ stage' = [stage EXCEPT ![t] = "queued"]
    /\ waiting' = Append(waiting, t)
    /\ live' = live \cup {t}

\* Drawer.open_for: the body is emptied until the details arrive.
OpenDrawer(r) ==
  /\ open /\ Room
  /\ target' = r /\ shown' = NoRadio
  /\ Run("detail", r)
  /\ UNCHANGED <<events, open, single, toggle>>

\* The menu's entry works while the button does not.
SingleScan ==
  /\ open /\ Room
  /\ single' = FALSE
  /\ Run("single", NoRadio)
  /\ UNCHANGED <<events, open, target, shown, toggle>>

ToggleScanning ==
  /\ open /\ Room
  /\ toggle' = FALSE
  /\ Run("toggle", NoRadio)
  /\ UNCHANGED <<events, open, target, shown, single>>

\* The timer, an engine event.
RefreshStatus ==
  /\ open /\ Room
  /\ Run("status", NoRadio)
  /\ UNCHANGED <<events, screenVars>>

\* closeEvent: what is still queued is never delivered.
CloseWindow ==
  /\ open
  /\ open' = FALSE
  /\ UNCHANGED <<poolVars, events, target, shown, single, toggle>>

Post(t, what) == Append(events, [task |-> t, what |-> what])

\* release: the reference goes on the next turn of the loop.
Release(t) == events' = Append(Tail(events), [task |-> t, what |-> "discard"])

\* A scan or a start that worked has the status read again; bound: if there is a
\* task left to read it.
RefreshAgain ==
  IF Room THEN Run("status", NoRadio) ELSE UNCHANGED poolVars

IsNext(t, what) ==
  open /\ events # <<>> /\ Head(events) = [task |-> t, what |-> what]

\* Drawer._render: it asks nothing about the radio the drawer is open for now.
DetailArrives(t) ==
  /\ job[t].kind = "detail" /\ IsNext(t, "done")
  /\ shown' = job[t].radio
  /\ Release(t)
  /\ UNCHANGED <<poolVars, open, target, single, toggle>>

\* A status that was read is shown, and one that was not is logged.
StatusArrives(t) ==
  /\ job[t].kind = "status" /\ \E what \in {"done", "failed"} : IsNext(t, what)
  /\ Release(t)
  /\ UNCHANGED <<poolVars, screenVars>>

\* Faulty: only a scan that worked gives the button back.
SingleForgotten(t) ==
  /\ job[t].kind = "single"
  /\ \/ IsNext(t, "done") /\ single' = TRUE /\ RefreshAgain
     \/ IsNext(t, "failed") /\ UNCHANGED <<single, poolVars>>
  /\ Release(t)
  /\ UNCHANGED <<open, target, shown, toggle>>

SingleEnds(t) ==
  /\ job[t].kind = "single"
  /\ \/ IsNext(t, "done") /\ RefreshAgain
     \/ IsNext(t, "failed") /\ UNCHANGED poolVars
  /\ single' = TRUE
  /\ Release(t)
  /\ UNCHANGED <<open, target, shown, toggle>>

\* A start or stop that failed shows its error and leaves the button as it is.
ToggleEnds(t) ==
  /\ job[t].kind = "toggle"
  /\ \/ IsNext(t, "done") /\ toggle' = TRUE /\ RefreshAgain
     \/ IsNext(t, "failed") /\ UNCHANGED <<toggle, poolVars>>
  /\ Release(t)
  /\ UNCHANGED <<open, target, shown, single>>

DetailFails(t) ==
  /\ job[t].kind = "detail" /\ IsNext(t, "failed")
  /\ Release(t)
  /\ UNCHANGED <<poolVars, screenVars>>

Discard(t) ==
  /\ IsNext(t, "discard")
  /\ events' = Tail(events)
  /\ live' = live \ {t}
  /\ stage' = [stage EXCEPT ![t] = "free"]
  /\ job' = [job EXCEPT ![t] = Nothing]
  /\ UNCHANGED <<waiting, screenVars>>

Deliver ==
  \E t \in Tasks :
    \/ DetailArrives(t) \/ DetailFails(t) \/ StatusArrives(t)
    \/ SingleEnds(t) \/ ToggleEnds(t) \/ Discard(t)

(***************************************************************************)
(* The workers                                                             *)
(***************************************************************************)

\* Faulty: the newest task goes first.
TakeNewest ==
  /\ waiting # <<>>
  /\ Cardinality({t \in Tasks : stage[t] = "running"}) < MaxWorkers
  /\ stage' = [stage EXCEPT ![waiting[Len(waiting)]] = "running"]
  /\ waiting' = SubSeq(waiting, 1, Len(waiting) - 1)
  /\ UNCHANGED <<job, live, events, screenVars>>

TakeTask ==
  /\ waiting # <<>>
  /\ Cardinality({t \in Tasks : stage[t] = "running"}) < MaxWorkers
  /\ stage' = [stage EXCEPT ![Head(waiting)] = "running"]
  /\ waiting' = Tail(waiting)
  /\ UNCHANGED <<job, live, events, screenVars>>

\* Faulty: the runnable is deleted as soon as it has run.
AnswerAndDelete(t) ==
  /\ stage[t] = "running"
  /\ stage' = [stage EXCEPT ![t] = "answered"]
  /\ \E what \in {"done", "failed"} : events' = Post(t, what)
  /\ live' = live \ {t}
  /\ UNCHANGED <<job, waiting, screenVars>>

\* Task.run: the call returns or raises, and the signal is queued.
Answer(t) ==
  /\ stage[t] = "running"
  /\ stage' = [stage EXCEPT ![t] = "answered"]
  /\ \E what \in {"done", "failed"} : events' = Post(t, what)
  /\ UNCHANGED <<job, waiting, live, screenVars>>

Next ==
  \/ \E r \in Radios : OpenDrawer(r)
  \/ SingleScan \/ ToggleScanning \/ RefreshStatus \/ CloseWindow
  \/ Deliver \/ TakeTask \/ \E t \in Tasks : Answer(t)

Spec == Init /\ [][Next]_vars

\* The interface thread's loop turns, workers are scheduled, calls return.
Fairness ==
  /\ WF_vars(Deliver) /\ WF_vars(TakeTask)
  /\ \A t \in Tasks : WF_vars(Answer(t))

(***************************************************************************)
(* Properties                                                              *)
(***************************************************************************)

\* A task whose answer is on its way is still referred to: were it collected, its
\* signal would go with it and the answer be dropped.
HeldUntilDelivered == \A k \in DOMAIN events : events[k].task \in live

\* Pending leads to Settled while the window is open: slow calls starve none, every task
\* is answered and let go; and the Single scan button, number 0, comes back, whether the
\* scan works or fails.
Pending(i) == IF i = 0 THEN ~single ELSE i \in Tasks /\ ~Free(i)
Settled(i) == ~Pending(i) \/ ~open

\* drawer.py: "there is one place to look for the full picture of one radio."
\* (Refuted: README, section 4.)
DrawerIsOneRadio == shown # NoRadio => shown = target
=============================================================================
