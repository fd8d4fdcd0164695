------------------------------- MODULE Doctor -------------------------------
(***************************************************************************)
(* What the diagnostics say of a machine: app/doctor.py.  Each check reads *)
(* a fact or two and is ok, a warning or a failure; the machine is healthy *)
(* when none has failed, and the command line exits accordingly.  Two      *)
(* checks of the source are in no list and never run, the one for broken   *)
(* USB adapters and the one for the engine; they are left out.             *)
(***************************************************************************)
EXTENDS Integers

\* What may be found, the first being what is there when all is well.
Facts ==
  [system   |-> <<"windows", "other">>,
   runtime  |-> <<"packaged", "source", "old">>,
   checkout |-> <<"git", "none">>,
   packages |-> <<"all", "no extras", "no interface">>,
   place    |-> <<"registered", "unregistered", "portable">>,
   service  |-> <<"running", "stopped", "missing", "no answer">>,
   library  |-> <<"loaded", "unusable">>,
   adapters |-> <<"external", "another", "built in", "off", "broken", "none", "no answer">>,
   user     |-> <<"admin", "standard">>,
   interval |-> <<"allowed", "short">>,
   database |-> <<"small", "large", "unreachable">>,
   disk     |-> <<"free", "tight", "full", "no answer">>,
   lan      |-> <<"off", "served", "silent">>,
   vendors  |-> <<"file", "builtin">>,
   gps      |-> <<"off", "fix", "searching", "stopped", "no support">>,
   updates  |-> <<"none", "available", "error">>]

Well == [f \in DOMAIN Facts |-> Facts[f][1]]

Found == {p \in (DOMAIN Facts) \X (1..7) : p[2] \in DOMAIN Facts[p[1]]}

\* The machines of which two parts, or one, may not be as they should be.
Machines ==
  {[Well EXCEPT ![a[1]] = Facts[a[1]][a[2]], ![b[1]] = Facts[b[1]][b[2]]] : a, b \in Found}

Graded(fact, failing, warning) ==
  IF fact \in failing THEN "fail" ELSE IF fact \in warning THEN "warn" ELSE "ok"

OffWindows(m) == m.system # "windows"

CheckPlatform(m) == Graded(m.system, {}, {"other"})
CheckPython(m)   == Graded(m.runtime, {"old"}, {})

CheckDependencies(m) == Graded(m.packages, {"no interface"}, {})

CheckInstall(m) ==
  IF m.runtime # "packaged" THEN "ok" ELSE Graded(m.place, {}, {"unregistered", "portable"})

CheckService(m) ==
  IF OffWindows(m) THEN "warn" ELSE Graded(m.service, {"stopped", "missing"}, {"no answer"})

CheckLibrary(m) == IF OffWindows(m) THEN "warn" ELSE Graded(m.library, {"unusable"}, {})

\* Faulty: nobody looks whether the radio of the one it would use is on.
CheckAdaptersBlindly(m) ==
  IF OffWindows(m) \/ m.library = "unusable" THEN "warn"
  ELSE Graded(m.adapters, {"no answer", "broken", "none"}, {"off", "built in", "another"})

\* It fails when none is listed, whether or not one is plugged in that does not work,
\* and when the one it would use has its radio off; it warns of the built-in one.
CheckAdapters(m) ==
  IF OffWindows(m) \/ m.library = "unusable" THEN "warn"
  ELSE Graded(m.adapters, {"no answer", "broken", "none", "off"}, {"built in", "another"})

CheckAdmin(m)    == Graded(m.user, {}, {"standard"})
CheckScanRate(m) == Graded(m.interval, {}, {"short"})
CheckDatabase(m) == Graded(m.database, {"unreachable"}, {"large"})
CheckDisk(m)     == Graded(m.disk, {"full"}, {"tight", "no answer"})
CheckPort(m)     == Graded(m.lan, {}, {"silent"})
CheckOui(m)      == Graded(m.vendors, {}, {"builtin"})
CheckGps(m)      == Graded(m.gps, {"no support", "stopped"}, {"searching"})

CheckUpdates(m) ==
  IF m.runtime # "packaged" /\ m.checkout # "git" THEN "warn"
  ELSE Graded(m.updates, {}, {"error", "available"})

\* run_all
Report(m) ==
  <<CheckPlatform(m), CheckPython(m), CheckDependencies(m), CheckInstall(m), CheckService(m),
    CheckLibrary(m), CheckAdapters(m), CheckAdmin(m), CheckScanRate(m), CheckDatabase(m),
    CheckDisk(m), CheckPort(m), CheckOui(m), CheckGps(m), CheckUpdates(m)>>

Healthy(m) == \A i \in DOMAIN Report(m) : Report(m)[i] # "fail"

(***************************************************************************)
(* Properties                                                              *)
(***************************************************************************)

\* What a scan needs on Windows, and what it is of no use without.
CanScan(m) ==
  /\ m.system = "windows" /\ m.library = "loaded" /\ m.service \notin {"stopped", "missing"}
  /\ m.adapters \in {"external", "another", "built in"}

CanKeep(m) == m.database # "unreachable" /\ m.disk # "full"

\* A machine that is said to be healthy can scan and keep what it hears, or is none on
\* which a scan is ever made; and one that is said not to be has a part that does not
\* work, whatever else is worth a warning, so that the exit code of --doctor is one to
\* rely on (run_all).
DiagnosisAgrees(m) ==
  Healthy(m) <=>
    /\ OffWindows(m) \/ CanScan(m)
    /\ CanKeep(m) /\ m.packages # "no interface" /\ m.runtime # "old"
    /\ m.gps \notin {"no support", "stopped"}
=============================================================================
