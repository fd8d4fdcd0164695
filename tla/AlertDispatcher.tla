-------------------------- MODULE AlertDispatcher --------------------------
(***************************************************************************)
(* Delivery of findings, app/alerts.py: scans put findings into a bounded  *)
(* queue without ever waiting, and one worker takes them out and tries the *)
(* sinks (toast, webhook, syslog, event log) one after another, under the  *)
(* settings of that moment.  A sink that fails is noted and passed over.   *)
(* Stopping sets an event, and adds a sentinel if there is room for it.    *)
(*                                                                         *)
(* A finding is numbered as it is submitted and is severe or not.  What a  *)
(* sink sends is left out.                                                 *)
(***************************************************************************)
EXTENDS Integers, Sequences, FiniteSets

CONSTANTS
  Sinks,      \* how many there are: they are tried in the order 1..Sinks
  Configs,    \* the settings a person makes: a level for each sink
  MaxQueue,   \* _MAX_QUEUE
  MaxItems    \* bound: findings submitted

\* A sink is off, wants severe findings or all; malformed is a value that is not
\* a group of settings, which the file and the API let through.
Levels == {"off", "severe", "all", "malformed"}
SinkIds == 1..Sinks
Items == 1..MaxItems
Sentinel == 0

\* What the constants have to be.
DispatcherConstantsOK ==
  /\ Sinks \in Nat \ {0} /\ MaxQueue \in Nat \ {0} /\ MaxItems \in Nat \ {0}
  /\ Configs \subseteq [SinkIds -> Levels]

VARIABLES
  settings,   \* _settings: how each sink is configured
  queue,      \* _queue
  stopping,   \* the event _stop
  worker,     \* where the worker is: new, top, get, sinks, gone
  item,       \* the finding it delivers
  conf,       \* its copy of the settings
  at,         \* the sink its loop has reached
  stats,      \* sent, failed and dropped
  submitted,  \* how many findings were submitted, the number of the last
  severe,     \* which of them were severe
  last        \* history: the last finding tried at each sink

workerVars == <<worker, item, conf, at>>
vars == <<settings, queue, stopping, workerVars, stats, submitted,
          severe, last>>

\* The settings before the first configure, and the copy of an idle worker.
Quiet == [s \in SinkIds |-> "off"]

TypeOK ==
  /\ {settings, conf} \subseteq Configs \cup {Quiet}
  /\ queue \in Seq(Items \cup {Sentinel}) /\ Len(queue) <= MaxQueue
  /\ stopping \in BOOLEAN
  /\ worker \in {"new", "top", "get", "sinks", "gone"}
  /\ item \in Items \cup {Sentinel}
  /\ at \in 1..(Sinks + 1)
  /\ stats \in [{"sent", "failed", "dropped"} -> 0..MaxItems]
  /\ submitted \in 0..MaxItems /\ severe \subseteq Items
  /\ last \in [SinkIds -> 0..MaxItems]

Init ==
  /\ settings = Quiet /\ conf = Quiet
  /\ queue = <<>> /\ stopping = FALSE
  /\ worker = "new" /\ item = Sentinel /\ at = 1
  /\ stats = [k \in {"sent", "failed", "dropped"} |-> 0]
  /\ submitted = 0 /\ severe = {}
  /\ last = [s \in SinkIds |-> 0]

Count(k) == stats' = [stats EXCEPT ![k] = @ + 1]

(***************************************************************************)
(* Callers: bootstrap, teardown, a change of settings, a scan              *)
(***************************************************************************)

\* bootstrap runs once in a process, so the worker is started once.
Start ==
  /\ worker = "new" /\ ~stopping
  /\ worker' = "top"
  /\ UNCHANGED <<settings, queue, stopping, item, conf, at, stats,
                 submitted, severe, last>>

Configure ==
  /\ settings' \in Configs /\ settings' # settings
  /\ UNCHANGED <<queue, stopping, workerVars, stats, submitted,
                 severe, last>>

\* put_nowait of one finding of a batch: a full queue drops it.
Submit ==
  /\ submitted < MaxItems
  /\ submitted' = submitted + 1
  /\ severe' \in {severe, severe \cup {submitted'}}
  /\ IF Len(queue) < MaxQueue
     THEN queue' = Append(queue, submitted') /\ UNCHANGED stats
     ELSE Count("dropped") /\ UNCHANGED queue
  /\ UNCHANGED <<settings, stopping, workerVars, last>>

\* stop: the join that follows is bounded, and leaves the worker be.
Stop ==
  /\ stopping' = TRUE
  /\ queue' = IF Len(queue) < MaxQueue THEN Append(queue, Sentinel) ELSE queue
  /\ UNCHANGED <<settings, workerVars, stats, submitted, severe, last>>

(***************************************************************************)
(* The worker                                                              *)
(***************************************************************************)

WorkerOnly == UNCHANGED <<settings, stopping, submitted, severe>>

\* Faulty: only the sentinel ends the loop.
LoopOnward ==
  /\ worker = "top"
  /\ worker' = "get"
  /\ UNCHANGED <<queue, item, conf, at, stats, last>> /\ WorkerOnly

\* The head of the loop, where the event is looked at.
LoopTop ==
  /\ worker = "top"
  /\ worker' = IF stopping THEN "gone" ELSE "get"
  /\ UNCHANGED <<queue, item, conf, at, stats, last>> /\ WorkerOnly

\* get: a second without an item.
GetTimesOut ==
  /\ worker = "get" /\ queue = <<>>
  /\ worker' = "top"
  /\ UNCHANGED <<queue, item, conf, at, stats, last>> /\ WorkerOnly

\* Faulty: the queue is a stack.
GetNewest ==
  /\ worker = "get" /\ queue # <<>>
  /\ queue' = SubSeq(queue, 1, Len(queue) - 1)
  /\ LET newest == queue[Len(queue)] IN
       IF newest = Sentinel
       THEN worker' = "gone" /\ UNCHANGED <<item, conf, at>>
       ELSE worker' = "sinks" /\ item' = newest /\ conf' = settings /\ at' = 1
  /\ UNCHANGED <<stats, last>> /\ WorkerOnly

\* get: the next item, and, for a finding, the copy of the settings.
Get ==
  /\ worker = "get" /\ queue # <<>>
  /\ queue' = Tail(queue)
  /\ IF Head(queue) = Sentinel
     THEN worker' = "gone" /\ UNCHANGED <<item, conf, at>>
     ELSE worker' = "sinks" /\ item' = Head(queue) /\ conf' = settings /\ at' = 1
  /\ UNCHANGED <<stats, last>> /\ WorkerOnly

\* The worker lets go of the finding and goes back to the head of the loop.
HandsFree ==
  worker' = "top" /\ item' = Sentinel /\ conf' = Quiet /\ at' = 1

Delivering == worker = "sinks" /\ at <= Sinks

\* enabled, and _meets the least severity it asks for.
Due(s) == conf[s] = "all" \/ (conf[s] = "severe" /\ item \in severe)

PassOver ==
  /\ Delivering /\ conf[at] # "malformed" /\ ~Due(at)
  /\ at' = at + 1
  /\ UNCHANGED <<queue, worker, item, conf, stats, last>> /\ WorkerOnly

\* Faulty: the first sink that fails ends the delivery.
TrySinkOrGiveUp ==
  /\ Delivering /\ Due(at)
  /\ last' = [last EXCEPT ![at] = item]
  /\ \/ at' = at + 1 /\ UNCHANGED worker
     \/ worker' = "gone" /\ UNCHANGED at
  /\ UNCHANGED <<queue, item, conf, stats>> /\ WorkerOnly

\* The sink sends, or raises, or times out: either way the next one is tried.
TrySink ==
  /\ Delivering /\ Due(at)
  /\ last' = [last EXCEPT ![at] = item]
  /\ at' = at + 1
  /\ UNCHANGED <<queue, worker, item, conf, stats>> /\ WorkerOnly

\* Faulty: a delivery that raises is not counted.
RaisesUncounted ==
  /\ Delivering /\ conf[at] = "malformed"
  /\ HandsFree
  /\ UNCHANGED <<queue, stats, last>> /\ WorkerOnly

\* A malformed group raises outside the sink's own handler: the finding counts as
\* failed, the sinks after it are not tried, and the worker lives on.
DeliveryRaises ==
  /\ Delivering /\ conf[at] = "malformed"
  /\ Count("failed")
  /\ HandsFree
  /\ UNCHANGED <<queue, last>> /\ WorkerOnly

\* Every sink has had its turn, successful or not: the finding counts as sent.
DeliveryEnds ==
  /\ worker = "sinks" /\ at = Sinks + 1
  /\ Count("sent")
  /\ HandsFree
  /\ UNCHANGED <<queue, last>> /\ WorkerOnly

Work ==
  \/ LoopTop \/ GetTimesOut \/ Get
  \/ PassOver \/ TrySink \/ DeliveryRaises \/ DeliveryEnds

Next == Start \/ Configure \/ Submit \/ Stop \/ Work

Spec == Init /\ [][Next]_vars

\* Every sink has a timeout, and the worker is started.
Fairness == WF_vars(Work) /\ WF_vars(Start)

(***************************************************************************)
(* Properties                                                              *)
(***************************************************************************)

\* Each sink hears of the findings in the order they were submitted, and of none
\* twice, however they were spread over scans and whatever failed.
OrderKept == [][\A s \in SinkIds : last'[s] # last[s] => last'[s] > last[s]]_vars

\* How many findings wait in the queue.
FindingsIn(q) == {k \in DOMAIN q : q[k] # Sentinel}
Waiting == Cardinality(FindingsIn(queue))

\* Nothing disappears: a finding that was submitted is counted as sent, failed or
\* dropped, or is in the queue or in the worker's hands.
Accounted ==
  submitted = stats["sent"] + stats["failed"] + stats["dropped"] + Waiting
                + IF item = Sentinel THEN 0 ELSE 1

InQueue(i) == \E k \in DOMAIN queue : queue[k] = i

\* Pending leads to Settled: a finding that was accepted is dealt with, whatever sinks
\* fail on the way and whatever settings arrive, unless delivery is stopped; and a stop,
\* number 0, ends the worker, also when a full queue has no room for the sentinel.
Pending(i) == IF i = 0 THEN stopping ELSE InQueue(i)
Settled(i) == IF i = 0 THEN worker \in {"new", "gone"}
              ELSE stopping \/ (~InQueue(i) /\ item # i)
=============================================================================
