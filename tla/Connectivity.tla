---------------------------- MODULE Connectivity ----------------------------
(***************************************************************************)
(* Changing what the machine is connected to: joining a network            *)
(* (services/devices_svc.py, app/netaudit.py) and the mobile hotspot with  *)
(* internet sharing (app/hotspot.py).  Each call runs a helper process,    *)
(* netsh or PowerShell, that does its work in steps, can fail at each, and *)
(* is killed when it takes too long; what it had done by then stays done,  *)
(* and what it had asked Windows for may still happen.                     *)
(***************************************************************************)
EXTENDS Integers, FiniteSets

CONSTANTS
  Ssids,
  Configs,    \* names and keys the hotspot can be given
  Adapters,   \* that can share a connection or be shared to
  None

\* What the constants have to be.
ConnectivityConstantsOK == None \notin Ssids \cup Configs \cup Adapters

VARIABLES
  call,       \* what is being done, and how far it is
  answer,     \* what the last call has answered, until something else happens
  profiles,   \* the networks Windows has a profile for
  keyFile,    \* whether a temporary file holds the passphrase
  joined,     \* the network the machine is on, or None
  joining,    \* the one Windows is trying to join, or None
  internet,   \* whether there is a connection to share
  hotspot,    \* off, starting, on, stopping
  config,     \* what the hotspot is called, or None
  role,       \* of each adapter: source, target, or none
  stuck       \* history: a process has died, or a file could not be removed

netVars == <<profiles, keyFile, joined, joining>>
spotVars == <<internet, hotspot, config, role>>
vars == <<call, answer, netVars, spotVars, stuck>>

\* A call, with what it was asked for; the flag says whether to share or to stop.
Ops == {"idle", "profile", "connect", "configure", "start", "stop", "share"}
Calls == [op : Ops, at : {"ask", "half", "wait"}, what : Ssids \cup Configs \cup {None},
          from : Adapters \cup {None}, to : Adapters \cup {None}, on : BOOLEAN]
CallOf(op, what) ==
  [op |-> op, at |-> "ask", what |-> what, from |-> None, to |-> None, on |-> TRUE]
Idle == CallOf("idle", None)

TypeOK ==
  /\ call \in Calls /\ answer \subseteq Calls
  /\ profiles \subseteq Ssids /\ keyFile \in BOOLEAN
  /\ joined \in Ssids \cup {None} /\ joining \in Ssids \cup {None}
  /\ internet \in BOOLEAN /\ hotspot \in {"off", "starting", "on", "stopping"}
  /\ config \in Configs \cup {None}
  /\ role \in [Adapters -> {"source", "target", "none"}] /\ stuck \in BOOLEAN

Init ==
  /\ call = Idle /\ answer = {} /\ profiles = {} /\ keyFile = FALSE
  /\ joined = None /\ joining = None /\ internet = TRUE /\ hotspot = "off"
  /\ config = None /\ role = [a \in Adapters |-> "none"] /\ stuck = FALSE

\* A call begins; every call ends with an answer, which is ok or an error.
Begin(c) == call = Idle /\ call' = c /\ answer' = {}
Succeeds == call' = Idle /\ answer' = {call}
Refuses == call' = Idle /\ answer' = {}
Goto(place) == call' = [call EXCEPT !.at = place] /\ UNCHANGED answer
Doing(op, place) == call.op = op /\ call.at = place

(***************************************************************************)
(* Joining                                                                 *)
(***************************************************************************)

\* With a passphrase the profile is made first, from a file that holds it.
AskConnect ==
  /\ \E s \in Ssids, key \in BOOLEAN : Begin(CallOf(IF key THEN "profile" ELSE "connect", s))
  /\ UNCHANGED <<netVars, spotVars, stuck>>

WriteKey ==
  /\ Doing("profile", "ask")
  /\ keyFile' = TRUE /\ Goto("half")
  /\ UNCHANGED <<profiles, joined, joining, spotVars, stuck>>

\* Faulty: the file is removed once the profile has been added.
AddProfileThenTidy ==
  /\ Doing("profile", "half")
  /\ \/ /\ profiles' = profiles \cup {call.what} /\ keyFile' = FALSE
        /\ call' = CallOf("connect", call.what) /\ UNCHANGED answer
     \/ UNCHANGED <<profiles, keyFile>> /\ Refuses
  /\ UNCHANGED <<joined, joining, spotVars, stuck>>

\* netsh adds it, or does not; in both cases the file is removed, if it can be.
AddProfile ==
  /\ Doing("profile", "half")
  /\ \/ /\ profiles' = profiles \cup {call.what}
        /\ call' = CallOf("connect", call.what) /\ UNCHANGED answer
     \/ UNCHANGED profiles /\ Refuses
  /\ \/ keyFile' = FALSE /\ UNCHANGED stuck
     \/ stuck' = TRUE /\ UNCHANGED keyFile
  /\ UNCHANGED <<joined, joining, spotVars>>

\* Only a network with a profile can be joined; netsh accepts the request, or not.
RequestJoin ==
  /\ Doing("connect", "ask")
  /\ \/ call.what \in profiles /\ joining' = call.what /\ Goto("wait")
     \/ UNCHANGED joining /\ Refuses
  /\ UNCHANGED <<profiles, keyFile, joined, spotVars, stuck>>

\* Windows gets there, or fails; or it loses what it had.
JoinEnds ==
  /\ joining # None
  /\ joined' \in {joining, None} /\ joining' = None /\ answer' = {}
  /\ UNCHANGED <<call, profiles, keyFile, spotVars, stuck>>

Drops ==
  /\ joined # None /\ joined' = None /\ answer' = {}
  /\ UNCHANGED <<call, profiles, keyFile, joining, spotVars, stuck>>

\* Faulty: any connection will do.
PollAny ==
  /\ Doing("connect", "wait")
  /\ joined # None /\ Succeeds
  /\ UNCHANGED <<netVars, spotVars, stuck>>

\* The caller looks every second and a half, until it is on that network or the time is
\* up, which may be just when it got there.
Poll ==
  /\ Doing("connect", "wait")
  /\ joined = call.what /\ Succeeds
  /\ UNCHANGED <<netVars, spotVars, stuck>>

GiveUpJoin ==
  /\ Doing("connect", "wait") /\ Refuses
  /\ UNCHANGED <<netVars, spotVars, stuck>>

Disconnect ==
  /\ call = Idle /\ answer' = {}
  /\ joined' = None /\ joining' = None
  /\ UNCHANGED <<call, profiles, keyFile, spotVars, stuck>>

(***************************************************************************)
(* The hotspot                                                             *)
(***************************************************************************)

AskHotspot ==
  /\ \/ \E c \in Configs : Begin(CallOf("configure", c))
     \/ Begin(CallOf("start", None)) \/ Begin(CallOf("stop", None))
  /\ UNCHANGED <<netVars, spotVars, stuck>>

\* The script waits until the operation is over, does not look at how it ended, and
\* prints the word the caller takes for success; so may the text of an error.  And the
\* helper may be killed when it has done its work.
Configure ==
  /\ Doing("configure", "ask")
  /\ \/ internet /\ config' = call.what
     \/ UNCHANGED config
  /\ Succeeds \/ Refuses
  /\ UNCHANGED <<netVars, internet, hotspot, role, stuck>>

\* The script asks Windows, and looks twenty seconds for the end of it.
Tether ==
  /\ call.op \in {"start", "stop"} /\ call.at = "ask"
  /\ \/ /\ internet
        /\ hotspot' = (IF call.op = "start" THEN "starting" ELSE "stopping")
        /\ Goto("wait")
     \/ UNCHANGED hotspot /\ Refuses
  /\ UNCHANGED <<netVars, internet, config, role, stuck>>

TetherEnds ==
  /\ hotspot \in {"starting", "stopping"}
  /\ hotspot' \in {"off", "on"}
  /\ UNCHANGED <<call, answer, netVars, internet, config, role, stuck>>

\* Success when Windows says so; an error when it says otherwise, or nothing in time.
TetherResult ==
  /\ call.op \in {"start", "stop"} /\ call.at = "wait"
  /\ \/ hotspot = (IF call.op = "start" THEN "on" ELSE "off") /\ Succeeds
     \/ Refuses
  /\ UNCHANGED <<netVars, spotVars, stuck>>

AskShare ==
  /\ \E s, t \in Adapters, flag \in BOOLEAN :
       s # t /\ Begin([CallOf("share", None) EXCEPT !.from = s, !.to = t, !.on = flag])
  /\ UNCHANGED <<netVars, spotVars, stuck>>

\* One side, then the other; Windows shares one connection at a time.  An error whose text
\* has the word done in it would be taken for success: the errors here do not.
ShareSource ==
  /\ Doing("share", "ask")
  /\ \/ /\ role' = [a \in Adapters |->
                      IF a = call.from THEN IF call.on THEN "source" ELSE "none"
                      ELSE IF call.on /\ role[a] = "source" THEN "none" ELSE role[a]]
        /\ Goto("half")
     \/ UNCHANGED role /\ Refuses
  /\ UNCHANGED <<netVars, internet, hotspot, config, stuck>>

ShareTarget ==
  /\ Doing("share", "half")
  /\ \/ /\ role' = [a \in Adapters |->
                      IF a = call.to THEN IF call.on THEN "target" ELSE "none"
                      ELSE IF call.on /\ role[a] = "target" THEN "none" ELSE role[a]]
        /\ Succeeds
     \/ UNCHANGED role /\ Refuses
  /\ UNCHANGED <<netVars, internet, hotspot, config, stuck>>

(***************************************************************************)
(* Around it                                                               *)
(***************************************************************************)

\* The helper is killed for taking too long, at whatever step it was.
HelperTimesOut ==
  /\ call.op \in {"configure", "start", "stop", "share"}
  /\ Refuses
  /\ UNCHANGED <<netVars, spotVars, stuck>>

\* The process itself dies: a file with the passphrase stays where it is.
Dies ==
  /\ call # Idle /\ Refuses
  /\ stuck' = (stuck \/ keyFile)
  /\ UNCHANGED <<netVars, spotVars>>

InternetChanges ==
  /\ internet' = ~internet
  /\ UNCHANGED <<call, answer, netVars, hotspot, config, role, stuck>>

\* The two halves share nothing but the process that may die.
JoinNext ==
  \/ AskConnect \/ WriteKey \/ AddProfile \/ RequestJoin \/ JoinEnds \/ Drops \/ Poll
  \/ GiveUpJoin \/ Disconnect \/ Dies
SpotNext ==
  \/ AskHotspot \/ Configure \/ Tether \/ TetherEnds \/ TetherResult
  \/ AskShare \/ ShareSource \/ ShareTarget
  \/ HelperTimesOut \/ Dies \/ InternetChanges

Next == JoinNext \/ SpotNext

Spec == Init /\ [][Next]_vars

(***************************************************************************)
(* Properties                                                              *)
(***************************************************************************)

\* A call to join or to share that answered ok has done what it was asked, whatever
\* earlier calls left half done, gave up waiting for, or had taken away from them.  Of the
\* hotspot an ok says less: Configure does not look at the result, and a started hotspot
\* may stop by itself.
OkIsTrue ==
  \A c \in answer :
    CASE c.op = "connect" -> joined = c.what /\ c.what \in profiles
      [] c.op = "share" -> IF c.on THEN role[c.from] = "source" /\ role[c.to] = "target"
                           ELSE role[c.from] = "none" /\ role[c.to] = "none"
      [] OTHER -> TRUE

\* A passphrase is on the disk only while its profile is being added, unless the
\* process died just then or the file could not be removed.
KeyIsGone == keyFile => stuck \/ call.op = "profile"
=============================================================================
