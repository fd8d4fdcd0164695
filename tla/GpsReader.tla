----------------------------- MODULE GpsReader -----------------------------
(***************************************************************************)
(* The GPS reader of app/gps.py: one object, used by every thread that     *)
(* changes settings, and the reader threads it has started.  They share    *)
(* one stop event.  stop sets it and waits for the thread it knows of, but *)
(* not for ever; start stops, stores the port, clears the event and spawns *)
(* a thread.  A caller's steps are the module's; who calls, and with which *)
(* port, is SettingsService's.                                             *)
(*                                                                         *)
(* The position itself is left out.                                        *)
(***************************************************************************)
EXTENDS Integers, FiniteSets

CONSTANTS
  Callers,    \* threads that start and stop the reader
  Ports,      \* serial ports
  NoPort,     \* the blank setting
  MaxReaders  \* bound: threads started

Readers == 1..MaxReaders
NoReader == 0

\* What the constants have to be.
GpsConstantsOK == NoPort \notin Ports /\ MaxReaders \in Nat \ {0}

VARIABLES
  stopEv,    \* the event _stop
  port,      \* _port
  thread,    \* _thread
  place,     \* where each reader is
  opened,    \* the port each reader opens or has open
  started,   \* how many readers were started
  pc,        \* where each caller is
  want,      \* the port it starts the reader on, NoPort if it only stops it
  waitsFor,  \* the thread it joins
  outlived   \* history: a reader has outlived the join of a stop

objectVars == <<stopEv, port, thread>>
readerVars == <<place, opened, started>>
callVars   == <<pc, want, waitsFor>>
gpsVars    == <<objectVars, readerVars, callVars, outlived>>

Inside == {"stop", "join", "set", "clear", "spawn"}

GpsType ==
  /\ stopEv \in BOOLEAN
  /\ port \in Ports \cup {NoPort}
  /\ thread \in Readers \cup {NoReader}
  /\ place \in [Readers -> {"unused", "top", "opening", "reading", "waiting", "gone"}]
  /\ opened \in [Readers -> Ports \cup {NoPort}]
  /\ started \in 0..MaxReaders
  /\ want \in [Callers -> Ports \cup {NoPort}]
  /\ waitsFor \in [Callers -> Readers \cup {NoReader}]
  /\ outlived \in BOOLEAN

GpsInit ==
  /\ stopEv = FALSE /\ port = NoPort /\ thread = NoReader
  /\ place = [r \in Readers |-> "unused"]
  /\ opened = [r \in Readers |-> NoPort]
  /\ started = 0
  /\ want = [c \in Callers |-> NoPort]
  /\ waitsFor = [c \in Callers |-> NoReader]
  /\ outlived = FALSE

Alive(r) == place[r] \notin {"unused", "gone"}

(***************************************************************************)
(* A caller                                                                *)
(***************************************************************************)

Proceed(c, to) == pc' = [pc EXCEPT ![c] = to]

\* stop: the event, and the thread as it is known now.
SetStop(c) ==
  /\ pc[c] = "stop"
  /\ stopEv' = TRUE
  /\ waitsFor' = [waitsFor EXCEPT ![c] = thread]
  /\ Proceed(c, "join")
  /\ UNCHANGED <<port, thread, readerVars, want, outlived>>

\* A reader leaves a read within two seconds and a wait at once.  Three seconds go
\* by only while it is opening its port, or if the event was cleared meanwhile.
TimesOut(r) == Alive(r) /\ (place[r] = "opening" \/ ~stopEv)

\* Faulty: the thread is not waited for.
ForgetUnjoined(c) ==
  /\ pc[c] = "join"
  /\ thread' = NoReader
  /\ waitsFor' = [waitsFor EXCEPT ![c] = NoReader]
  /\ Proceed(c, IF want[c] = NoPort THEN "done" ELSE "set")
  /\ UNCHANGED <<stopEv, port, readerVars, want, outlived>>

Joined(c) ==
  /\ pc[c] = "join"
  /\ LET joined == {waitsFor[c]} \ {NoReader}
         late == \E r \in joined : TimesOut(r) IN
       /\ (\E r \in joined : Alive(r)) => late
       /\ outlived' = (outlived \/ late)
  /\ thread' = NoReader
  /\ waitsFor' = [waitsFor EXCEPT ![c] = NoReader]
  /\ Proceed(c, IF want[c] = NoPort THEN "done" ELSE "set")
  /\ UNCHANGED <<stopEv, port, readerVars, want>>

SetPort(c) ==
  /\ pc[c] = "set"
  /\ port' = want[c]
  /\ Proceed(c, "clear")
  /\ UNCHANGED <<stopEv, thread, readerVars, want, waitsFor, outlived>>

ClearStop(c) ==
  /\ pc[c] = "clear"
  /\ stopEv' = FALSE
  /\ Proceed(c, "spawn")
  /\ UNCHANGED <<port, thread, readerVars, want, waitsFor, outlived>>

Spawn(c) ==
  /\ pc[c] = "spawn" /\ started < MaxReaders
  /\ started' = started + 1
  /\ thread' = started'
  /\ place' = [place EXCEPT ![started'] = "top"]
  /\ want' = [want EXCEPT ![c] = NoPort]
  /\ Proceed(c, "done")
  /\ UNCHANGED <<stopEv, port, opened, waitsFor, outlived>>

CallerSteps(c) == SetStop(c) \/ Joined(c) \/ SetPort(c) \/ ClearStop(c) \/ Spawn(c)

(***************************************************************************)
(* A reader                                                                *)
(***************************************************************************)

At(r, to) == place' = [place EXCEPT ![r] = to]
ReaderOnly == UNCHANGED <<objectVars, started, callVars, outlived>>

LoopTop(r) ==
  /\ place[r] = "top"
  /\ IF stopEv THEN At(r, "gone") /\ UNCHANGED opened
     ELSE At(r, "opening") /\ opened' = [opened EXCEPT ![r] = port]
  /\ ReaderOnly

\* A port has one user: opening it again fails.
Opens(r) ==
  /\ place[r] = "opening"
  /\ ~\E o \in Readers \ {r} : place[o] = "reading" /\ opened[o] = opened[r]
  /\ At(r, "reading")
  /\ UNCHANGED opened /\ ReaderOnly

\* The inner loop looks at the event before every read; a read may fail.
EndsReading(r) ==
  /\ place[r] = "reading" /\ stopEv
  /\ At(r, "waiting")
  /\ opened' = [opened EXCEPT ![r] = NoPort]
  /\ ReaderOnly

LosesPort(r) ==
  /\ place[r] \in {"opening", "reading"}
  /\ At(r, "waiting")
  /\ opened' = [opened EXCEPT ![r] = NoPort]
  /\ ReaderOnly

\* Faulty: the backoff is slept through, and the loop starts again whatever.
SleepsOn(r) ==
  /\ place[r] = "waiting"
  /\ At(r, "opening")
  /\ opened' = [opened EXCEPT ![r] = port]
  /\ ReaderOnly

\* The backoff is a wait for the event.
Waits(r) ==
  /\ place[r] = "waiting"
  /\ At(r, IF stopEv THEN "gone" ELSE "top")
  /\ UNCHANGED opened /\ ReaderOnly

ReaderRuns(r) ==
  LoopTop(r) \/ Opens(r) \/ EndsReading(r) \/ LosesPort(r) \/ Waits(r)
=============================================================================
