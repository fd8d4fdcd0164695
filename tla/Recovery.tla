------------------------------ MODULE Recovery ------------------------------
(***************************************************************************)
(* The repair of a wireless adapter: app/recovery.py, with the listing of  *)
(* USB devices it reads (app/usbwifi.py) and the service that starts it    *)
(* (app/services/adapters_svc.py).  A repair walks eight steps in a fixed  *)
(* order, in the application when that is elevated and else in a helper    *)
(* process behind a permission prompt, which may be declined, die, or      *)
(* outlive the four minutes its caller waits.  Whatever came of it, its    *)
(* caller then forgets the list of adapters: module AdapterProbe.          *)
(*                                                                         *)
(* What a device reports is Windows's business: enabling one, or scanning  *)
(* for hardware, leaves it with any of the codes it may come up with.      *)
(***************************************************************************)
EXTENDS Integers, Sequences, FiniteSets

CONSTANTS
  Devices,   \* USB functions that look like a wireless adapter
  ChipOf,    \* the chip each is a function of: its VID and PID
  Wireless,  \* those that are the wireless half of their chip
  MaxRuns    \* bound: repairs asked for

NoDevice == "none"

\* What the constants have to be.
RecoveryConstantsOK ==
  /\ IsFiniteSet(Devices) /\ NoDevice \notin Devices /\ Wireless \subseteq Devices
  /\ DOMAIN ChipOf = Devices /\ MaxRuns \in Nat \ {0}

VARIABLES
  code,      \* the problem Windows reports of each device
  service,   \* WLAN AutoConfig
  admin,     \* whether the application is elevated
  step,      \* the step each repair is at, 0 before it and Len(Steps) + 1 after
  todo,      \* the devices it has yet to work on in that step
  half,      \* the device it has disabled and not yet enabled, if any
  changed,   \* whether the step has changed anything
  baseline,  \* the interfaces there were at its start
  power,     \* whether it is elevated
  asked,     \* repairs asked for
  caller,    \* where the call is
  outlived,  \* history: a helper went on after its caller gave up
  off,       \* history: devices that somebody else had disabled
  stuck      \* history: devices that a restart could not enable again

worldVars  == <<code, service>>
runVars    == <<step, todo, half, changed, baseline, power>>
callerVars == <<asked, caller>>
history    == <<outlived, off, stuck>>
vars == <<worldVars, admin, runVars, callerVars, history>>

Steps == <<"rescan", "wlansvc", "virtualisation", "enable", "restart", "driver",
           "radio", "refresh">>
Runs == 1..MaxRuns
None == {}

\* CM_PROB codes by what is done about them: 22; 10, 14, 38 and 43; 31, which two
\* steps take on; 28, 1 and 18; and those nothing here is for.
Codes == {"absent", "working", "disabled", "failed", "unloadable", "driverless", "other"}
ComesUpAs == {"working", "failed", "unloadable", "driverless"}
Handles == [enable |-> {"disabled"}, restart |-> {"failed", "unloadable"},
            driver |-> {"driverless", "unloadable"}]

TypeOK ==
  /\ code \in [Devices -> Codes] /\ service \in {"running", "stopped", "missing"}
  /\ admin \in BOOLEAN
  /\ step \in [Runs -> 0..(Len(Steps) + 1)] /\ todo \in [Runs -> SUBSET Devices]
  /\ half \in [Runs -> Devices \cup {NoDevice}] /\ changed \in [Runs -> BOOLEAN]
  /\ baseline \in [Runs -> 0..Cardinality(Devices)] /\ power \in [Runs -> BOOLEAN]
  /\ asked \in 0..MaxRuns
  /\ caller \in {"idle", "prompt", "waiting"}
  /\ outlived \in BOOLEAN /\ off \subseteq Devices /\ stuck \subseteq Devices

Init ==
  /\ code \in [Devices -> Codes] /\ service \in {"running", "stopped", "missing"}
  /\ admin \in BOOLEAN
  /\ step = [r \in Runs |-> 0] /\ todo = [r \in Runs |-> None]
  /\ half = [r \in Runs |-> NoDevice] /\ changed = [r \in Runs |-> FALSE]
  /\ baseline = [r \in Runs |-> 0] /\ power = [r \in Runs |-> FALSE]
  /\ asked = 0 /\ caller = "idle"
  /\ outlived = FALSE
  /\ off = {d \in Devices : code[d] = "disabled"} /\ stuck = None

(***************************************************************************)
(* What is read                                                            *)
(***************************************************************************)

\* unhealthy_adapters: wireless functions that are present and do not work.
Unhealthy == {d \in Wireless : code[d] \notin {"absent", "working"}}

\* wlan_interface_count: none are offered while the service is down.
Interfaces ==
  IF service = "running"
  THEN Cardinality({d \in Wireless : code[d] = "working"}) ELSE 0

\* The devices a step works on: the unhealthy ones it is for, and to enable a
\* chip, every function of it that is disabled.
Targets(name) ==
  IF name \notin DOMAIN Handles THEN {}
  ELSE LET broken == {d \in Unhealthy : code[d] \in Handles[name]} IN
       IF name # "enable" THEN broken
       ELSE {d \in Devices : code[d] = "disabled" /\ \E b \in broken : ChipOf[b] = ChipOf[d]}

\* Faulty: of the failed ones, those are left out that a driver may do for.
PlannedNarrowly ==
  {s \in {Steps[i] : i \in DOMAIN Steps} :
     s \in DOMAIN Handles =>
       \E d \in Unhealthy : code[d] \in Handles[s] \ (IF s = "restart" THEN {"unloadable"} ELSE {})}

\* diagnose, and a repair that is only tried out: the steps that would be taken.
Planned ==
  {s \in {Steps[i] : i \in DOMAIN Steps} :
     s \in DOMAIN Handles => \E d \in Unhealthy : code[d] \in Handles[s]}

NeedsAdmin == {"wlansvc", "enable", "restart", "driver", "refresh"}

Name(r) == Steps[step[r]]
Live(r) == step[r] \in 1..Len(Steps)

(***************************************************************************)
(* A repair                                                                *)
(***************************************************************************)

World(codes, svc) == code' = codes /\ service' = svc

Same == UNCHANGED worldVars

\* A step begins: what it works on is looked up anew, and nothing when it needs
\* elevation it does not have.
EnterStep(r, n) ==
  /\ step' = [step EXCEPT ![r] = n]
  /\ changed' = [changed EXCEPT ![r] = FALSE]

\* Faulty: nobody looks whether the last step was reached.
NextStepOnward(r) ==
  /\ step[r] # 0 /\ todo[r] = None /\ half[r] = NoDevice
  /\ EnterStep(r, step[r] + 1)
  /\ todo' = [todo EXCEPT ![r] = None]
  /\ UNCHANGED <<half, baseline, power, admin, callerVars, history>> /\ Same

\* Nothing is left to do in this step: the next one, unless it has changed
\* something and there is an interface more than at the start.
NextStep(r) ==
  /\ Live(r) /\ todo[r] = None /\ half[r] = NoDevice
  /\ LET n == IF changed[r] /\ Interfaces > baseline[r] THEN Len(Steps) + 1 ELSE step[r] + 1
     IN /\ EnterStep(r, n)
        /\ todo' = [todo EXCEPT ![r] =
             IF n <= Len(Steps) /\ power[r] THEN Targets(Steps[n]) ELSE None]
  /\ UNCHANGED <<half, baseline, power, admin, callerVars, history>> /\ Same

\* rescan: a device that was not seen turns up; nothing is said to have changed.
Rescan(r) ==
  /\ Live(r) /\ Name(r) = "rescan"
  /\ \E d \in Devices, c \in ComesUpAs \cup {"disabled"} :
       /\ code[d] = "absent"
       /\ World([code EXCEPT ![d] = c], service)
       /\ off' = IF c = "disabled" THEN off \cup {d} ELSE off
  /\ UNCHANGED <<runVars, admin, callerVars, outlived, stuck>>

\* wlansvc and refresh: started when stopped, or stopped and started again, which
\* may leave it stopped.
StartService(r) ==
  /\ Live(r) /\ power[r]
  /\ \/ Name(r) = "wlansvc" /\ service = "stopped"
     \/ Name(r) = "refresh" /\ service # "missing"
  /\ ~changed[r]
  /\ \E svc \in {"running", "stopped"} :
       /\ World(code, svc)
       /\ changed' = [changed EXCEPT ![r] = svc = "running"]
  /\ UNCHANGED <<step, todo, half, baseline, power, admin, callerVars, history>>

\* Enable-PnpDevice succeeds, or fails and leaves the device as it is.
Enable(r, d) ==
  /\ Live(r) /\ Name(r) = "enable" /\ d \in todo[r]
  /\ todo' = [todo EXCEPT ![r] = @ \ {d}]
  /\ \/ /\ \E c \in ComesUpAs :
             World([code EXCEPT ![d] = IF @ = "disabled" THEN c ELSE @], service)
        /\ changed' = [changed EXCEPT ![r] = TRUE]
     \/ Same /\ UNCHANGED changed
  /\ UNCHANGED <<step, half, baseline, power, admin, callerVars, history>>

\* Faulty: the restart has no second half.
DisableOnly(r, d) ==
  /\ Live(r) /\ Name(r) = "restart" /\ d \in todo[r] /\ half[r] = NoDevice
  /\ todo' = [todo EXCEPT ![r] = @ \ {d}]
  /\ code[d] # "absent" /\ World([code EXCEPT ![d] = "disabled"], service)
  /\ UNCHANGED <<step, half, changed, baseline, power, admin, callerVars, history>>

\* The first half of a restart.
Disable(r, d) ==
  /\ Live(r) /\ Name(r) = "restart" /\ d \in todo[r] /\ half[r] = NoDevice
  /\ todo' = [todo EXCEPT ![r] = @ \ {d}]
  /\ \/ code[d] # "absent" /\ World([code EXCEPT ![d] = "disabled"], service)
        /\ half' = [half EXCEPT ![r] = d]
     \/ Same /\ UNCHANGED half
  /\ UNCHANGED <<step, changed, baseline, power, admin, callerVars, history>>

\* The second: it fails, or its 90 seconds are over, and the device stays disabled.
EnableAgain(r) ==
  /\ half[r] # NoDevice
  /\ half' = [half EXCEPT ![r] = NoDevice]
  /\ \/ /\ \E c \in ComesUpAs : World([code EXCEPT ![half[r]] = c], service)
        /\ changed' = [changed EXCEPT ![r] = TRUE]
        /\ UNCHANGED stuck
     \/ /\ Same /\ UNCHANGED changed
        /\ stuck' = stuck \cup {half[r]}
  /\ UNCHANGED <<step, todo, baseline, power, admin, callerVars, outlived, off>>

\* driver: hardware is scanned once for each, and a driver found for it or not.
BindDriver(r, d) ==
  /\ Live(r) /\ Name(r) = "driver" /\ d \in todo[r]
  /\ todo' = [todo EXCEPT ![r] = @ \ {d}]
  /\ \/ /\ World([code EXCEPT ![d] = "working"], service)
        /\ changed' = [changed EXCEPT ![r] = TRUE]
     \/ Same /\ UNCHANGED changed
  /\ UNCHANGED <<step, half, baseline, power, admin, callerVars, history>>

\* A helper is killed, or the machine takes it down.
HelperDies(r) ==
  /\ Live(r) /\ power[r] /\ ~admin
  /\ step' = [step EXCEPT ![r] = 0]
  /\ todo' = [todo EXCEPT ![r] = None] /\ half' = [half EXCEPT ![r] = NoDevice]
  /\ stuck' = IF half[r] = NoDevice THEN stuck ELSE stuck \cup {half[r]}
  /\ UNCHANGED <<changed, baseline, power, admin, callerVars, outlived, off>> /\ Same

\* virtualisation and radio only look: NextStep passes over them.
RunSteps(r) ==
  \/ NextStep(r) \/ Rescan(r) \/ StartService(r) \/ EnableAgain(r)
  \/ \E d \in Devices : Enable(r, d) \/ Disable(r, d) \/ BindDriver(r, d)

(***************************************************************************)
(* The call                                                                *)
(***************************************************************************)

Launch(r, elevated) ==
  /\ EnterStep(r, 1)
  /\ baseline' = [baseline EXCEPT ![r] = Interfaces]
  /\ power' = [power EXCEPT ![r] = elevated]
  /\ UNCHANGED <<todo, half>>

\* repair: in this process when it is elevated or elevation was not wanted.
AskRepair(elevate) ==
  /\ caller = "idle" /\ asked < MaxRuns
  /\ asked' = asked + 1
  /\ IF elevate /\ ~admin
     THEN caller' = "prompt" /\ UNCHANGED runVars
     ELSE caller' = "waiting" /\ Launch(asked', admin)
  /\ UNCHANGED <<admin, history>> /\ Same

Decline ==
  /\ caller = "prompt"
  /\ caller' = "idle"
  /\ UNCHANGED <<admin, runVars, asked, history>> /\ Same

Consent ==
  /\ caller = "prompt"
  /\ caller' = "waiting" /\ Launch(asked, TRUE)
  /\ UNCHANGED <<admin, asked, history>> /\ Same

\* The report is read, or there is none: the helper has ended.
Collect ==
  /\ caller = "waiting" /\ ~Live(asked)
  /\ caller' = "idle"
  /\ UNCHANGED <<admin, runVars, asked, history>> /\ Same

\* Only the helper is waited for with a limit, and killing the shell that waits
\* does not end an elevated process.
GiveUp ==
  /\ caller = "waiting" /\ Live(asked) /\ power[asked] /\ ~admin
  /\ caller' = "idle"
  /\ outlived' = TRUE
  /\ UNCHANGED <<admin, runVars, asked, off, stuck>> /\ Same

Next ==
  \/ \E r \in Runs : RunSteps(r) \/ HelperDies(r)
  \/ \E elevate \in BOOLEAN : AskRepair(elevate)
  \/ Decline \/ Consent \/ Collect \/ GiveUp

Spec == Init /\ [][Next]_vars

(***************************************************************************)
(* Properties                                                              *)
(***************************************************************************)

\* No device is left disabled that nobody else has disabled: a restart is still to enable
\* it, or could not, because that failed, its 90 seconds were over or the helper died in
\* between; no list of devices drawn up before, and no second repair, makes it otherwise
\* (step_restart_failed).  The excuse is the code's: nothing tries again.
DisabledOnlyMidway ==
  \A d \in Devices : code[d] = "disabled" =>
    d \in off \cup stuck \/ \E r \in Runs : half[r] = d

\* The first thing a step changes, a diagnosis taken just before would have announced,
\* and that it needs elevation; so the list of the steps that would be taken, and the
\* steps themselves, agree on what each is for (diagnose).  Two repairs at once, the one
\* its caller gave up and the next, may find the other's work done.
StepsAreAnnounced ==
  [][\A r \in Runs :
       (changed'[r] /\ ~changed[r] /\ half[r] = NoDevice) \/ half'[r] \notin {half[r], NoDevice}
         => /\ ~outlived => Name(r) \in Planned
            /\ Name(r) \in NeedsAdmin => power[r]]_vars

\* recovery.py: "Nothing here disables, uninstalls or deletes anything."  (Refuted:
\* README, section 4.)
NothingIsDisabled ==
  caller = "idle" /\ (\A r \in Runs : ~Live(r)) =>
    \A d \in Devices : code[d] = "disabled" => d \in off
=============================================================================
