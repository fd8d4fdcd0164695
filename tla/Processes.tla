------------------------------ MODULE Processes ------------------------------
(***************************************************************************)
(* The program as several processes on one machine: the command line of    *)
(* app/main.py, start and stop as app/services/lifecycle.py has them, the  *)
(* window of app/ui/app.py and the server of app/server.py.  Nothing keeps *)
(* a second process from starting.  They share the settings file, the      *)
(* database and the port; each has its own copy of the settings.           *)
(*                                                                         *)
(* ScanEngine has one process at a time, in detail.  Here an operation of  *)
(* the engine is a step, and of the settings only scan.enabled is kept.    *)
(* What begins a scan runs in a thread of its own, beside whatever else    *)
(* the process does, a teardown included.                                  *)
(***************************************************************************)
EXTENDS Integers, FiniteSets

CONSTANTS
  Procs,        \* processes that may exist at once
  Nobody,       \* no process
  Autostart,    \* the setting scan.autostart_on_launch
  MaxSessions,  \* bound: sessions ever opened
  MaxLives      \* bound: processes started

\* What the constants have to be.
ProcessConstantsOK ==
  /\ Nobody \notin Procs /\ Autostart \in BOOLEAN
  /\ MaxSessions \in Nat /\ MaxLives \in Nat

VARIABLES
  kind,       \* what each process was started as
  stage,      \* how far it has come
  memory,     \* scan.enabled in its copy of the settings
  saved,      \* scan.enabled in the file
  session,    \* the session its engine has open, 0 for none
  open,       \* the sessions without an end in the database
  sessions,   \* sessions opened so far
  port,       \* the process that listens
  engine,     \* whether its engine runs
  armed,      \* whether its exit has a deadline
  lives,      \* processes started so far
  asked,      \* history: scanning was started in this life, and not stopped since
  overtaken,  \* history: another engine started since its session was opened
  lost        \* history: the open sessions that were let go of

sharedVars == <<saved, open, sessions, port>>
ownVars == <<kind, stage, memory, session, engine, armed>>
pastVars == <<lives, asked, overtaken, lost>>
vars == <<sharedVars, ownVars, pastVars>>

Kinds == {"window", "server", "tool", "helper"}

\* teardown, in its order; the rest is the GPS, the alerts, the update checker, the
\* log of the database and its connection, each guarded as the first two are.
TeardownSteps == {"halt", "engine", "rest"}
After == [halt |-> "engine", engine |-> "rest", rest |-> "exit"]
Stages ==
  {"off", "start", "boot", "port", "clear", "claim", "bind", "up", "work", "hung", "exit"}
    \cup TeardownSteps

TypeOK ==
  /\ kind \in [Procs -> Kinds \cup {"none"}] /\ stage \in [Procs -> Stages]
  /\ memory \in [Procs -> BOOLEAN] /\ saved \in BOOLEAN
  /\ session \in [Procs -> 0..MaxSessions]
  /\ open \subseteq 1..MaxSessions /\ sessions \in 0..MaxSessions
  /\ port \in Procs \cup {Nobody}
  /\ engine \in [Procs -> BOOLEAN]
  /\ armed \in [Procs -> BOOLEAN]
  /\ lives \in 0..MaxLives /\ asked \in [Procs -> BOOLEAN]
  /\ overtaken \in [Procs -> BOOLEAN] /\ lost \subseteq 1..MaxSessions

Init ==
  /\ kind = [p \in Procs |-> "none"] /\ stage = [p \in Procs |-> "off"]
  /\ memory = [p \in Procs |-> FALSE] /\ saved = FALSE
  /\ session = [p \in Procs |-> 0] /\ open = {} /\ sessions = 0
  /\ port = Nobody /\ engine = [p \in Procs |-> FALSE]
  /\ armed = [p \in Procs |-> FALSE]
  /\ lives = 0 /\ asked = [p \in Procs |-> FALSE]
  /\ overtaken = [p \in Procs |-> FALSE] /\ lost = {}

Goto(p, place) == stage' = [stage EXCEPT ![p] = place]

\* The session a process has open is not going to be closed by it.
LetGo(p) == lost' = lost \cup ({session[p]} \cap open)

\* Whatever way a process ends, its threads, its socket and its memory are gone.
Ends(p) ==
  /\ kind' = [kind EXCEPT ![p] = "none"] /\ Goto(p, "off")
  /\ memory' = [memory EXCEPT ![p] = FALSE]
  /\ session' = [session EXCEPT ![p] = 0]
  /\ port' = IF port = p THEN Nobody ELSE port
  /\ engine' = [engine EXCEPT ![p] = FALSE]
  /\ armed' = [armed EXCEPT ![p] = FALSE]
  /\ asked' = [asked EXCEPT ![p] = FALSE]
  /\ overtaken' = [overtaken EXCEPT ![p] = FALSE]
  /\ UNCHANGED <<saved, open, sessions, lives>>

\* In order: it leaves nothing behind that it has not closed.
EndsInOrder(p) == Ends(p) /\ UNCHANGED lost

\* By force: what it has open stays open.
IsKilled(p) == Ends(p) /\ LetGo(p)

(***************************************************************************)
(* Starting                                                                *)
(***************************************************************************)

\* By a person, at logon, or by a process that is about to end: relaunch_argv starts
\* a window, whatever the process itself is, and does not ask it to wait.
Launch(p, what) ==
  /\ stage[p] = "off" /\ lives < MaxLives
  /\ lives' = lives + 1
  /\ kind' = [kind EXCEPT ![p] = what]
  /\ memory' = [memory EXCEPT ![p] = saved]
  /\ Goto(p, "start")
  /\ UNCHANGED <<sharedVars, session, engine, armed, asked, overtaken, lost>>

\* main: a helper has one job and skips the bootstrap.
Dispatch(p) ==
  /\ stage[p] = "start"
  /\ Goto(p, IF kind[p] = "helper" THEN "work" ELSE "boot")
  /\ UNCHANGED <<sharedVars, kind, memory, session, engine, armed, pastVars>>

\* Faulty: the sessions an earlier run left open are closed by whoever comes up.
BootAndTidy(p) ==
  /\ stage[p] = "boot"
  /\ open' = {}
  /\ Goto(p, CASE kind[p] = "window" -> "clear" [] kind[p] = "server" -> "port"
               [] OTHER -> "work")
  /\ UNCHANGED <<saved, sessions, port, kind, memory, session, engine, armed,
                 pastVars>>

\* bootstrap: the database, the alerts and the GPS, for every other command.
Boot(p) ==
  /\ stage[p] = "boot"
  /\ Goto(p, CASE kind[p] = "window" -> "clear" [] kind[p] = "server" -> "port"
               [] OTHER -> "work")
  /\ UNCHANGED <<sharedVars, kind, memory, session, engine, armed, pastVars>>

\* A data directory that cannot be written ends the process.
BootFails(p) == stage[p] = "boot" /\ EndsInOrder(p)

\* A busy port ends a server, unless it was told to wait; that may be for too long.
CheckPort(p) ==
  /\ stage[p] = "port" /\ port = Nobody
  /\ Goto(p, "clear")
  /\ UNCHANGED <<sharedVars, kind, memory, session, engine, armed, pastVars>>

GiveUp(p) == stage[p] = "port" /\ port # Nobody /\ EndsInOrder(p)

\* Faulty: the flag in the file is taken at its word.
TrustFlag(p) ==
  /\ stage[p] = "clear"
  /\ Goto(p, "claim")
  /\ UNCHANGED <<sharedVars, kind, memory, session, engine, armed, pastVars>>

\* scan.enabled is cleared before the engine reads it.
ClearFlag(p) ==
  /\ stage[p] = "clear"
  /\ IF Autostart THEN UNCHANGED <<memory, saved>>
     ELSE memory' = [memory EXCEPT ![p] = FALSE] /\ saved' = FALSE
  /\ Goto(p, "claim")
  /\ UNCHANGED <<open, sessions, port, kind, session, engine, armed, pastVars>>

\* engine.start closes every open session, whoever has it open.  A server does all of
\* this before it knows that it has the port.
Claim(p) ==
  /\ stage[p] = "claim"
  /\ open' = {} /\ lost' = {}
  /\ overtaken' = [q \in Procs |-> overtaken[q] \/ (q # p /\ session[q] # 0)]
  /\ engine' = [engine EXCEPT ![p] = TRUE]
  /\ Goto(p, IF kind[p] = "server" THEN "bind" ELSE "up")
  /\ UNCHANGED <<saved, sessions, port, kind, memory, session, armed, lives,
                 asked>>

\* The lifespan of a server that does not get the port ends as any other.
Bind(p) ==
  /\ stage[p] = "bind"
  /\ IF port = Nobody THEN port' = p /\ Goto(p, "up")
     ELSE UNCHANGED port /\ Goto(p, "halt")
  /\ UNCHANGED <<saved, open, sessions, kind, memory, session, engine, armed,
                 pastVars>>

(***************************************************************************)
(* Running                                                                 *)
(***************************************************************************)

\* A command line tool or a helper does its job and returns.
FinishWork(p) == stage[p] = "work" /\ EndsInOrder(p)

\* Scanning is wanted while the process is up; the thread that begins it may be as slow
\* as it likes, and is not told of a teardown.
Live(p) == stage[p] \in TeardownSteps \cup {"up", "hung"}

\* engine.begin: scan.enabled, then a new session, whatever there was.  A halt that
\* overlaps it may forget the session that was begun instead of the one it ended.  What
\* was open before is let go of; so is the new session if it is forgotten, or if the
\* teardown has already been where it halts.
Begin(p) ==
  /\ Live(p) /\ sessions < MaxSessions
  /\ memory' = [memory EXCEPT ![p] = TRUE] /\ saved' = TRUE
  /\ sessions' = sessions + 1 /\ open' = open \cup {sessions'}
  /\ \E kept \in BOOLEAN :
       /\ session' = [session EXCEPT ![p] = IF kept THEN sessions' ELSE 0]
       /\ lost' = lost \cup ({session[p]} \cap open)
                    \cup (IF kept /\ stage[p] = "up" THEN {} ELSE {sessions'})
  /\ asked' = [asked EXCEPT ![p] = TRUE]
  /\ overtaken' = [overtaken EXCEPT ![p] = FALSE]
  /\ UNCHANGED <<port, kind, stage, engine, armed, lives>>

\* The adapter is lost, the settings are reset, or a halt overlapped the begin: scanning
\* is off, and the session is neither closed nor forgotten.
SwitchOff(p) ==
  /\ Live(p) /\ memory[p]
  /\ memory' = [memory EXCEPT ![p] = FALSE] /\ saved' = FALSE
  /\ LetGo(p)
  /\ asked' = [asked EXCEPT ![p] = FALSE]
  /\ UNCHANGED <<open, sessions, port, kind, stage, session, engine, armed,
                 lives, overtaken>>

\* engine.halt
Halts(p) ==
  /\ memory' = [memory EXCEPT ![p] = FALSE] /\ saved' = FALSE
  /\ open' = open \ {session[p]} /\ lost' = lost \ {session[p]}
  /\ session' = [session EXCEPT ![p] = 0]
  /\ asked' = [asked EXCEPT ![p] = FALSE]
  /\ overtaken' = [overtaken EXCEPT ![p] = FALSE]

\* The interface that stops scanning does not look whether it is on.
Halt(p) ==
  /\ stage[p] = "up"
  /\ Halts(p)
  /\ UNCHANGED <<sessions, port, kind, stage, engine, armed, lives>>

(***************************************************************************)
(* Stopping                                                                *)
(***************************************************************************)

\* The window is closed, or the server interrupted.
Close(p) ==
  /\ stage[p] = "up"
  /\ Goto(p, "halt")
  /\ UNCHANGED <<sharedVars, kind, memory, session, engine, armed, pastVars>>

\* shutdown_now, which the API asks for: a deadline first.
ShutdownNow(p) ==
  /\ stage[p] = "up" /\ kind[p] = "server"
  /\ armed' = [armed EXCEPT ![p] = TRUE]
  /\ Goto(p, "halt")
  /\ UNCHANGED <<sharedVars, kind, memory, session, engine, pastVars>>

\* Faulty: whether scanning is on is read from the file, which others write.
TeardownReadsFile(p) ==
  /\ stage[p] \in TeardownSteps
  /\ IF stage[p] = "halt" /\ saved THEN Halts(p)
     ELSE UNCHANGED <<memory, saved, open, session, asked, overtaken, lost>>
  /\ engine' = [engine EXCEPT ![p] = @ /\ stage[p] # "engine"]
  /\ Goto(p, After[stage[p]])
  /\ UNCHANGED <<sessions, port, kind, armed, lives>>

\* Each step of the teardown: scanning is halted only if it is on.
TeardownStep(p) ==
  /\ stage[p] \in TeardownSteps
  /\ IF stage[p] = "halt" /\ memory[p] THEN Halts(p)
     ELSE UNCHANGED <<memory, saved, open, session, asked, overtaken, lost>>
  /\ engine' = [engine EXCEPT ![p] = @ /\ stage[p] # "engine"]
  /\ Goto(p, After[stage[p]])
  /\ UNCHANGED <<sessions, port, kind, armed, lives>>

\* What a step raises is logged, and the next one follows.
StepRaises(p) ==
  /\ stage[p] \in TeardownSteps
  /\ Goto(p, After[stage[p]])
  /\ IF stage[p] = "halt" THEN LetGo(p) ELSE UNCHANGED lost
  /\ UNCHANGED <<sharedVars, kind, memory, session, engine, armed, lives,
                 asked, overtaken>>

StepHangs(p) ==
  /\ stage[p] \in TeardownSteps
  /\ Goto(p, "hung")
  /\ UNCHANGED <<sharedVars, kind, memory, session, engine, armed, pastVars>>

Exit(p) == stage[p] = "exit" /\ EndsInOrder(p)

\* Faulty: the deadline is looked at by the thread that tears down.
ForceExitBetweenSteps(p) == armed[p] /\ stage[p] # "hung" /\ IsKilled(p)

\* _force_exit, when the deadline has passed.
ForceExit(p) == armed[p] /\ IsKilled(p)

\* Killed, or ended by os._exit after an update, with no teardown at all.
Crash(p) == stage[p] # "off" /\ IsKilled(p)

Starts(p) ==
  \/ \E what \in Kinds : Launch(p, what)
  \/ Dispatch(p) \/ Boot(p) \/ BootFails(p) \/ CheckPort(p) \/ GiveUp(p)
  \/ ClearFlag(p) \/ Claim(p) \/ Bind(p)

Works(p) == FinishWork(p) \/ Begin(p) \/ SwitchOff(p) \/ Halt(p)

Stops(p) ==
  \/ Close(p) \/ ShutdownNow(p) \/ TeardownStep(p) \/ StepRaises(p) \/ StepHangs(p)
  \/ Exit(p) \/ ForceExit(p) \/ Crash(p)

Next == \E p \in Procs : Starts(p) \/ Works(p) \/ Stops(p)

\* A step that returns does so in time, and a timer fires.
Fairness ==
  \A p \in Procs :
    WF_vars(TeardownStep(p)) /\ WF_vars(Exit(p)) /\ WF_vars(ForceExit(p))

Spec == Init /\ [][Next]_vars /\ Fairness

(***************************************************************************)
(* Properties                                                              *)
(***************************************************************************)

\* While a process scans, its session is open in the database, until another engine
\* starts: no command line tool and no helper that comes and goes closes it.
LiveSessionIsOpen ==
  \A p \in Procs : session[p] # 0 /\ ~overtaken[p] => session[p] \in open

\* A session without an end belongs to a process that runs, or was let go of: its
\* process was killed, its halt raised, scanning had been switched off without it, or it
\* was begun once more, during a halt, or too late.  A teardown that finds scanning on
\* closes what its process opened, whatever the others wrote to the settings meanwhile.
CleanExitClosesSession ==
  \A i \in open : (\E p \in Procs : session[p] = i) \/ i \in lost

\* No engine scans that was not told to in its own life, whatever a crash or another
\* process left in the settings file.
ScansOnlyWhenAsked ==
  \A p \in Procs : memory[p] /\ engine[p] => asked[p] \/ Autostart

\* Quits leads to Gone: a process told to shut down ends, even if a step of its teardown
\* never returns; a window that is closed ends if every step does.
Quits(p) == stage[p] \in TeardownSteps
Gone(p) == stage[p] = "off" \/ (stage[p] = "hung" /\ ~armed[p])
=============================================================================
