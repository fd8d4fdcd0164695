--------------------------- MODULE SchemaUpgrade ---------------------------
(***************************************************************************)
(* Bringing the database file up to date, init and _migrate of app/db.py.  *)
(* Every process does it when it starts, and nothing keeps two of them     *)
(* apart: the connection is in autocommit, so that each statement is a     *)
(* transaction of its own and others come between.  The build that starts  *)
(* may be newer than the one that wrote the file, or, after a rollback,    *)
(* older.                                                                  *)
(*                                                                         *)
(* One table stands for all of them, and the columns are those that later  *)
(* builds have added, each of which is assumed to be in the list of every  *)
(* build from then on.                                                     *)
(***************************************************************************)
EXTENDS Integers

CONSTANTS
  Procs,       \* processes that open the file
  Columns,     \* columns the first build did not have
  Since,       \* the build that brought each
  MaxVersion,  \* bound: the last build
  MaxStarts    \* bound: starts of a process

\* What the constants have to be.
SchemaConstantsOK ==
  /\ MaxVersion \in Nat \ {0} /\ MaxStarts \in Nat
  /\ Since \in [Columns -> 2..MaxVersion]

VARIABLES
  stamp,    \* schema_version in the meta table, 0 while there is none
  columns,  \* the columns the table has
  creator,  \* the build whose script made the table, 0 while there is none
  pc,       \* where each process is
  build,    \* SCHEMA_VERSION of its build
  lack,     \* the columns it has yet to add
  starts,   \* starts so far
  orphan    \* history: the first stamp was not by the build that made the table

vars == <<stamp, columns, creator, pc, build, lack, starts, orphan>>

Versions == 1..MaxVersion

\* The columns of a build's own DDL.
Wanted(v) == {c \in Columns : Since[c] <= v}

TypeOK ==
  /\ stamp \in {0} \cup Versions /\ creator \in {0} \cup Versions
  /\ columns \subseteq Columns
  /\ pc \in [Procs -> {"down", "script", "version", "first", "look", "add", "up"}]
  /\ build \in [Procs -> Versions] /\ lack \in [Procs -> SUBSET Columns]
  /\ starts \in 0..MaxStarts /\ orphan \in BOOLEAN

Init ==
  /\ stamp = 0 /\ columns = {} /\ creator = 0
  /\ pc = [p \in Procs |-> "down"] /\ build = [p \in Procs |-> 1]
  /\ lack = [p \in Procs |-> {}]
  /\ starts = 0 /\ orphan = FALSE

Proceed(p, to) == pc' = [pc EXCEPT ![p] = to]

Start(p, v) ==
  /\ pc[p] = "down" /\ starts < MaxStarts
  /\ starts' = starts + 1
  /\ build' = [build EXCEPT ![p] = v]
  /\ lack' = [lack EXCEPT ![p] = {}]
  /\ Proceed(p, "script")
  /\ UNCHANGED <<stamp, columns, creator, orphan>>

\* CREATE TABLE IF NOT EXISTS: a table that is there stays as it is.
Script(p) ==
  /\ pc[p] = "script"
  /\ IF creator = 0
     THEN creator' = build[p] /\ columns' = Wanted(build[p])
     ELSE UNCHANGED <<creator, columns>>
  /\ Proceed(p, "version")
  /\ UNCHANGED <<stamp, build, lack, starts, orphan>>

\* A file from a newer build is warned of, and used.
ReadVersion(p) ==
  /\ pc[p] = "version"
  /\ Proceed(p, CASE stamp = 0 -> "first" [] stamp \in 1..(build[p] - 1) -> "look"
                  [] OTHER -> "up")
  /\ UNCHANGED <<stamp, columns, creator, build, lack, starts, orphan>>

\* No version yet: the file is taken to be new, and its table this build's.
StampFirst(p) ==
  /\ pc[p] = "first"
  /\ stamp' = build[p]
  /\ orphan' = (orphan \/ build[p] > creator)
  /\ Proceed(p, "up")
  /\ UNCHANGED <<columns, creator, build, lack, starts>>

\* _add_missing_columns: what the table has is read once.
Look(p) ==
  /\ pc[p] = "look"
  /\ lack' = [lack EXCEPT ![p] = Wanted(build[p]) \ columns]
  /\ Proceed(p, "add")
  /\ UNCHANGED <<stamp, columns, creator, build, starts, orphan>>

\* A column at a time; one that another process has added since is an error, with
\* which the start of this one fails.
AddColumn(p) ==
  /\ pc[p] = "add"
  /\ \E c \in lack[p] :
       IF c \in columns
       THEN Proceed(p, "down") /\ UNCHANGED <<columns, lack>>
       ELSE /\ columns' = columns \cup {c}
            /\ lack' = [lack EXCEPT ![p] = @ \ {c}]
            /\ UNCHANGED pc
  /\ UNCHANGED <<stamp, creator, build, starts, orphan>>

\* Faulty: the version is written as soon as it is known to be too low.
StampEarly(p) ==
  /\ pc[p] \in {"look", "add"} /\ stamp < build[p]
  /\ stamp' = build[p]
  /\ UNCHANGED <<columns, creator, pc, build, lack, starts, orphan>>

\* The version is written last, whatever it has become meanwhile.
Stamp(p) ==
  /\ pc[p] = "add" /\ lack[p] = {}
  /\ stamp' = build[p]
  /\ Proceed(p, "up")
  /\ UNCHANGED <<columns, creator, build, lack, starts, orphan>>

\* It ends, or is killed, wherever it is.
Die(p) ==
  /\ pc[p] # "down"
  /\ Proceed(p, "down")
  /\ UNCHANGED <<stamp, columns, creator, build, lack, starts, orphan>>

Next ==
  \E p \in Procs :
    \/ \E v \in Versions : Start(p, v)
    \/ Script(p) \/ ReadVersion(p) \/ StampFirst(p) \/ Look(p) \/ AddColumn(p)
    \/ Stamp(p) \/ Die(p)

Spec == Init /\ [][Next]_vars

(***************************************************************************)
(* Properties                                                              *)
(***************************************************************************)

\* Whoever was interrupted where, and whatever other builds upgraded at the same time:
\* a process that is up finds every column its statements name, and the version on
\* file never speaks for columns that are missing, so that a later start would not add
\* them.  The exception is a file whose table an older build made and whose first
\* stamp a newer one wrote, because the older was interrupted between the two.
UpgradeIsWhole ==
  ~orphan =>
    /\ stamp # 0 => Wanted(stamp) \subseteq columns
    /\ \A p \in Procs : pc[p] = "up" => Wanted(build[p]) \subseteq columns
=============================================================================
