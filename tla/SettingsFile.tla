---------------------------- MODULE SettingsFile ----------------------------
(***************************************************************************)
(* The settings of app/config.py: one tree in memory, changed under a      *)
(* lock, and one JSON file, written outside it.  A save takes its text     *)
(* from memory, opens config.json.tmp (which empties it), writes it,       *)
(* closes it, and renames it over config.json.  Every thread uses the same *)
(* temporary name.  The process may die at any step and be started again.  *)
(*                                                                         *)
(* The tree is one value out of Settings: which key a change touches makes *)
(* no difference to what reaches the disk.                                 *)
(***************************************************************************)
EXTENDS Integers, FiniteSets

CONSTANTS
  Settings,   \* the trees a person can make
  Defaults,   \* DEFAULTS
  Threads,    \* whoever changes settings: the UI, the services, the engine
  Main,       \* the thread that imports the module, and so loads the file
  Faults      \* whether a file operation may fail

\* What the constants have to be.
SettingsConstantsOK ==
  /\ Defaults \in Settings /\ Main \in Threads /\ Faults \in BOOLEAN
  /\ {"none", "empty", "broken"} \cap Settings = {}

VARIABLES
  memory,     \* Config._data
  file,       \* config.json
  tmp,        \* config.json.tmp
  pc,         \* where each thread is in save
  payload,    \* the text each thread saves
  life,       \* down, loading (the import saves the defaults) or up
  alone,      \* history: no other change has overlapped this thread's
  clashed     \* history: two changes have overlapped, in this lifetime or before

fileVars == <<file, tmp>>
saveVars == <<pc, payload>>
history  == <<alone, clashed>>
vars == <<memory, fileVars, saveVars, life, history>>

\* A file is missing, holds some settings, or holds what no parser accepts.
Unreadable == {"empty", "broken"}
Content == Settings \cup {"none"} \cup Unreadable

Places == {"idle", "snapshot", "open", "write", "replace"}

TypeOK ==
  /\ memory \in Settings
  /\ file \in Content /\ tmp \in Content
  /\ pc \in [Threads -> Places]
  /\ payload \in [Threads -> Settings]
  /\ life \in {"down", "loading", "up"}
  /\ alone \in [Threads -> BOOLEAN] /\ clashed \in BOOLEAN

Init ==
  /\ memory = Defaults
  /\ file = "none" /\ tmp = "none"
  /\ pc = [t \in Threads |-> "idle"]
  /\ payload = [t \in Threads |-> Defaults]
  /\ life = "down"
  /\ alone = [t \in Threads |-> TRUE] /\ clashed = FALSE

Goto(t, place) == pc' = [pc EXCEPT ![t] = place]
Busy(t) == pc[t] # "idle"

(***************************************************************************)
(* Changing a setting                                                      *)
(***************************************************************************)

\* set, update, reset, ensure_token: the tree changes under the lock.
Change(t) ==
  /\ life = "up" /\ ~Busy(t)
  /\ memory' \in Settings
  /\ Goto(t, "snapshot")
  /\ LET clash == \E o \in Threads : Busy(o) IN
       /\ alone' = IF clash THEN [o \in Threads |-> FALSE]
                   ELSE [alone EXCEPT ![t] = TRUE]
       /\ clashed' = (clashed \/ clash)
  /\ UNCHANGED <<fileVars, payload, life>>

\* save: json.dumps, under the lock again.
Snapshot(t) ==
  /\ pc[t] = "snapshot"
  /\ payload' = [payload EXCEPT ![t] = memory]
  /\ Goto(t, "open")
  /\ UNCHANGED <<memory, fileVars, life, history>>

\* Faulty: the settings file itself is opened, and emptied.
OpenInPlace(t) ==
  /\ pc[t] = "open"
  /\ tmp' = "empty" /\ file' = "empty"
  /\ Goto(t, "write")
  /\ UNCHANGED <<memory, payload, life, history>>

\* write_text opens the temporary file, which empties whatever it held.
OpenTmp(t) ==
  /\ pc[t] = "open"
  /\ tmp' = "empty"
  /\ Goto(t, "write")
  /\ UNCHANGED <<memory, file, payload, life, history>>

\* It writes from the start: over nothing, or over what another thread that has
\* the file open too has written, of which a longer text leaves its tail.
WriteTmp(t) ==
  /\ pc[t] = "write"
  /\ tmp' \in IF tmp = "empty" THEN {payload[t]} ELSE {payload[t], "broken"}
  /\ Goto(t, "replace")
  /\ UNCHANGED <<memory, file, payload, life, history>>

\* Windows renames no file that is missing, or that someone has open.
CanReplace(t) == tmp # "none" /\ \A o \in Threads \ {t} : pc[o] # "write"

Replace(t) ==
  /\ pc[t] = "replace"
  /\ IF CanReplace(t) THEN file' = tmp /\ tmp' = "none" ELSE UNCHANGED fileVars
  /\ Goto(t, "idle")
  /\ UNCHANGED <<memory, payload, life, history>>

\* An OSError at any of the three is logged, and save returns: no room for the
\* rest of the text, a scanner that holds the file.
SaveFails(t) ==
  /\ Faults
  /\ pc[t] \in {"open", "write", "replace"}
  /\ \/ UNCHANGED tmp
     \/ pc[t] = "write" /\ tmp' = "broken"
  /\ Goto(t, "idle")
  /\ UNCHANGED <<memory, file, payload, life, history>>

Save(t) == Snapshot(t) \/ OpenTmp(t) \/ WriteTmp(t) \/ Replace(t) \/ SaveFails(t)

(***************************************************************************)
(* The process                                                             *)
(***************************************************************************)

Crash ==
  /\ life # "down"
  /\ life' = "down"
  /\ pc' = [t \in Threads |-> "idle"]
  /\ UNCHANGED <<memory, fileVars, payload, history>>

\* load, of a file that is there and can be parsed.
LoadFile ==
  /\ file \in Settings
  /\ memory' = file /\ life' = "up"
  /\ UNCHANGED <<fileVars, pc>>

\* A file that cannot be parsed, or cannot be read just now, is moved aside, if
\* that succeeds; the program runs on the defaults, which it does not save.
LoadUnreadable ==
  /\ file \in Unreadable \/ (Faults /\ file # "none")
  /\ memory' = Defaults /\ life' = "up"
  /\ \/ file' = "none"
     \/ Faults /\ UNCHANGED file
  /\ UNCHANGED <<tmp, pc>>

\* No file: the import saves the defaults, before any other thread exists.
LoadNothing ==
  /\ file = "none"
  /\ memory' = Defaults /\ life' = "loading"
  /\ Goto(Main, "snapshot")
  /\ UNCHANGED fileVars

Launch ==
  /\ life = "down"
  /\ LoadFile \/ LoadUnreadable \/ LoadNothing
  /\ alone' = [t \in Threads |-> TRUE]
  /\ UNCHANGED <<payload, clashed>>

Loaded ==
  /\ life = "loading" /\ ~Busy(Main)
  /\ life' = "up"
  /\ UNCHANGED <<memory, fileVars, saveVars, history>>

Next ==
  \/ \E t \in Threads : Change(t) \/ Save(t)
  \/ Crash \/ Launch \/ Loaded

Spec == Init /\ [][Next]_vars

(***************************************************************************)
(* Properties                                                              *)
(***************************************************************************)

\* A save that meets no error and that no other change overlaps puts into the
\* file what is in memory, whatever deaths, failed saves and overlapping ones
\* came before it and whatever they left in the temporary file.
SaveKeepsMemory == \A t \in Threads : Replace(t) /\ alone[t] => file' = memory

\* As long as no two changes have overlapped, a death or an error half way
\* through a save leaves the file whole: the old settings or the new.
FileIsWhole == ~clashed => file \notin Unreadable

\* Both: what saves promise as long as they do not overlap.
SavesAreSound ==
  [][SaveKeepsMemory /\ FileIsWhole']_vars
=============================================================================
