-------------------------- MODULE SettingsService --------------------------
(***************************************************************************)
(* Changing settings while the program runs, app/services/settings_svc.py: *)
(* the tree changes, and is then pushed into the workers that read it when *)
(* they were started: the alert dispatcher and the GPS reader.  Composes   *)
(* GpsReader.  Wiping all data may reset the tree too, and pushes nothing. *)
(*                                                                         *)
(* Of the tree, the alerts group and the GPS group are kept; saving it is  *)
(* SettingsFile's.  The call that wakes the scan loop is ScanEngine's.     *)
(***************************************************************************)
EXTENDS GpsReader

CONSTANTS Alerts, DefaultAlerts

\* What the constants have to be.
ServiceConstantsOK == DefaultAlerts \in Alerts

VARIABLES
  memory,      \* the settings tree
  alertConf    \* the dispatcher's _settings

vars == <<memory, alertConf, gpsVars>>

Trees == [alerts : Alerts, gps : BOOLEAN, port : Ports \cup {NoPort}]
Defaults == [alerts |-> DefaultAlerts, gps |-> FALSE, port |-> NoPort]

TypeOK ==
  /\ memory \in Trees /\ alertConf \in Alerts
  /\ pc \in [Callers -> {"idle", "alerts", "gps", "done"} \cup Inside]
  /\ GpsType

Init ==
  /\ memory = Defaults /\ alertConf = DefaultAlerts
  /\ pc = [c \in Callers |-> "idle"]
  /\ GpsInit

\* update, and reset, which is an update to the defaults.  The first one may be
\* taken for bootstrap, which makes the same calls for the tree it has loaded.
Update(c) ==
  /\ pc[c] = "idle"
  /\ started < MaxReaders
  /\ memory' \in Trees
  /\ Proceed(c, "alerts")
  /\ UNCHANGED <<alertConf, objectVars, readerVars, want, waitsFor, outlived>>

\* wipe with reset_settings: config.reset, and no more.
Wipe(c) ==
  /\ pc[c] = "idle"
  /\ memory' = Defaults
  /\ UNCHANGED <<alertConf, gpsVars>>

PushAlerts(c) ==
  /\ pc[c] = "alerts"
  /\ alertConf' = memory.alerts
  /\ Proceed(c, "gps")
  /\ UNCHANGED <<memory, objectVars, readerVars, want, waitsFor, outlived>>

\* Faulty: a reader that runs is left as it is.
PushGpsOnce(c) ==
  /\ pc[c] = "gps"
  /\ IF memory.gps /\ (memory.port = NoPort \/ thread # NoReader)
     THEN Proceed(c, "done") /\ UNCHANGED want
     ELSE /\ want' = [want EXCEPT ![c] = IF memory.gps THEN memory.port ELSE NoPort]
          /\ Proceed(c, "stop")
  /\ UNCHANGED <<memory, alertConf, objectVars, readerVars, waitsFor, outlived>>

\* Off: stop.  On: start, which returns at once if no port is set.
PushGps(c) ==
  /\ pc[c] = "gps"
  /\ IF memory.gps /\ memory.port = NoPort
     THEN Proceed(c, "done") /\ UNCHANGED want
     ELSE /\ want' = [want EXCEPT ![c] = IF memory.gps THEN memory.port ELSE NoPort]
          /\ Proceed(c, "stop")
  /\ UNCHANGED <<memory, alertConf, objectVars, readerVars, waitsFor, outlived>>

\* The scan loop is woken and the caller gets its answer.
Answer(c) ==
  /\ pc[c] = "done"
  /\ Proceed(c, "idle")
  /\ UNCHANGED <<memory, alertConf, objectVars, readerVars, want, waitsFor, outlived>>

Push(c) ==
  \/ PushAlerts(c) \/ PushGps(c) \/ Answer(c)
  \/ CallerSteps(c) /\ UNCHANGED <<memory, alertConf>>

Read(r) == ReaderRuns(r) /\ UNCHANGED <<memory, alertConf>>

Next ==
  \/ \E c \in Callers : Update(c) \/ Wipe(c) \/ Push(c)
  \/ \E r \in Readers : Read(r)

Spec == Init /\ [][Next]_vars

\* Serial calls return, and threads that can run do.
Fairness ==
  /\ \A c \in Callers : WF_vars(Push(c))
  /\ \A r \in Readers : WF_vars(Read(r))

(***************************************************************************)
(* Properties                                                              *)
(***************************************************************************)

\* What the workers were last told is what the tree says.
AlertsFollow == alertConf = memory.alerts
GpsFollows ==
  IF memory.gps THEN thread # NoReader /\ port = memory.port /\ ~stopEv
  ELSE thread = NoReader /\ (stopEv \/ started = 0)

\* When a change of settings is answered, the dispatcher has the new sinks and the
\* reader the new port, or is told to stop: one caller at a time, and a port set.
PushTakesEffect ==
  [][\A c \in Callers : Answer(c) =>
       /\ AlertsFollow
       /\ (memory.gps => memory.port # NoPort) => GpsFollows]_vars

\* One reader at a time, unless one has outlived the join that waited for it.
OneReader == ~outlived => Cardinality({r \in Readers : Alive(r)}) <= 1

\* Stopped leads to Ended: a reader told to stop ends, also one that has outlived the
\* join and that nobody waits for any more, unless reading is started again.
Stopped == stopEv /\ thread = NoReader
Ended == ~stopEv \/ \A r \in Readers : ~Alive(r)

\* settings_svc.py: without the push, "changing the syslog host or turning GPS on
\* would look like it worked and quietly keep using the old values until the next
\* restart."  (Refuted: README, section 4.)
SettingsReachWorkers ==
  (\A c \in Callers : pc[c] = "idle") =>
    AlertsFollow /\ (thread # NoReader => memory.gps /\ port = memory.port)
=============================================================================
