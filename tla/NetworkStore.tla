---------------------------- MODULE NetworkStore ----------------------------
(***************************************************************************)
(* What the scans leave in app/db.py: a row for each radio ever heard,     *)
(* with the extremes of its signal, and an observation for each time it    *)
(* was heard.  A scan is four transactions of its own, and scans overlap:  *)
(* the loop's, and the one a client asked for.  Between any two of them    *)
(* records are pruned, cleared or wiped, or the process dies.              *)
(***************************************************************************)
EXTENDS Integers, FiniteSets, FiniteSetsExt

CONSTANTS
  Scanners,   \* threads that scan
  Radios,     \* what can be heard, by BSSID
  Adapters,   \* interface GUIDs
  Bands,      \* bands a radio can be found on
  Levels,     \* signal levels, in dBm
  MaxScans,   \* bound: ids issued for scans in one life of the database
  MaxTime     \* bound: the clock

\* What the constants have to be.
NetworkConstantsOK ==
  /\ Levels \subseteq -127..0 /\ MaxScans \in Nat \ {0} /\ MaxTime \in Nat
  /\ IsFiniteSet(Radios)

VARIABLES
  now,      \* the clock, in days of retention
  scans,    \* scans: id, adapter and start
  scanSeq,  \* sqlite_sequence: the last id issued for scans
  bss,      \* bss: a row for each radio, or none
  obs,      \* observations: the scan, the radio, its level and the time
  pc,       \* where each scan is
  scan,     \* the id start_scan returned to it
  ts,       \* the time it writes with
  batch,    \* the records it has read
  heard,    \* history: what each adapter was really heard on
  astray    \* history: a wipe came between the steps of a scan

tables == <<scans, scanSeq, bss, obs>>
steps  == <<pc, scan, ts, batch>>
vars   == <<now, tables, steps, heard, astray>>

NoRow == [seen |-> 0]
Rows == [seen : Nat, max : Levels, min : Levels, band : Bands]
Records == [radio : Radios, rssi : Levels, band : Bands]

TypeOK ==
  /\ now \in 0..MaxTime
  /\ scans \subseteq [id : 1..MaxScans, adapter : Adapters, at : 0..MaxTime]
  /\ scanSeq \in 0..MaxScans
  /\ \A r \in Radios : bss[r] = NoRow \/ bss[r] \in Rows
  /\ obs \subseteq [scan : 1..MaxScans, radio : Radios, rssi : Levels, ts : 0..MaxTime]
  /\ pc \in [Scanners -> {"idle", "started", "read", "upserted", "stored"}]
  /\ scan \in [Scanners -> 0..MaxScans] /\ ts \in [Scanners -> 0..MaxTime]
  /\ \A s \in Scanners : batch[s] \subseteq Records
  /\ heard \subseteq [adapter : Adapters, band : Bands]
  /\ astray \in BOOLEAN

Init ==
  /\ now = 0
  /\ scans = {} /\ scanSeq = 0
  /\ bss = [r \in Radios |-> NoRow] /\ obs = {}
  /\ pc = [s \in Scanners |-> "idle"] /\ scan = [s \in Scanners |-> 0]
  /\ ts = [s \in Scanners |-> 0]
  /\ batch = [s \in Scanners |-> {}]
  /\ heard = {} /\ astray = FALSE

Goto(s, place) == pc' = [pc EXCEPT ![s] = place]

Rest(s) ==
  /\ Goto(s, "idle")
  /\ scan' = [scan EXCEPT ![s] = 0]
  /\ ts' = [ts EXCEPT ![s] = 0]
  /\ batch' = [batch EXCEPT ![s] = {}]

(***************************************************************************)
(* A scan                                                                  *)
(***************************************************************************)

StartScan(s, adapter) ==
  /\ pc[s] = "idle" /\ scanSeq < MaxScans
  /\ scanSeq' = scanSeq + 1
  /\ scans' = scans \cup {[id |-> scanSeq', adapter |-> adapter, at |-> now]}
  /\ Goto(s, "started") /\ scan' = [scan EXCEPT ![s] = scanSeq']
  /\ UNCHANGED <<now, bss, obs, ts, batch, heard, astray>>

\* The driver's list, of which the first entry for a radio counts, and the time.
ReadResults(s, records) ==
  /\ pc[s] = "started"
  /\ \A r, q \in records : r.radio = q.radio => r = q
  /\ Goto(s, "read")
  /\ ts' = [ts EXCEPT ![s] = now] /\ batch' = [batch EXCEPT ![s] = records]
  /\ heard' = heard \cup
       {[adapter |-> c.adapter, band |-> rec.band] :
          c \in {c \in scans : c.id = scan[s]}, rec \in records}
  /\ UNCHANGED <<now, tables, scan, astray>>

\* ON CONFLICT(bssid) DO UPDATE.
Merged(row, rec) ==
  IF row = NoRow
  THEN [seen |-> 1, max |-> rec.rssi, min |-> rec.rssi, band |-> rec.band]
  ELSE [seen |-> row.seen + 1, band |-> rec.band,
        max |-> Max({row.max, rec.rssi}), min |-> Min({row.min, rec.rssi})]

UpsertBss(s) ==
  /\ pc[s] = "read"
  /\ bss' = [r \in Radios |->
       IF \E rec \in batch[s] : rec.radio = r
       THEN Merged(bss[r], CHOOSE rec \in batch[s] : rec.radio = r)
       ELSE bss[r]]
  /\ Goto(s, "upserted")
  /\ UNCHANGED <<now, scans, scanSeq, obs, scan, ts, batch, heard, astray>>

\* The rows of a batch, which the table has ids of its own for.
Observations(s) ==
  {[scan |-> scan[s], radio |-> rec.radio, rssi |-> rec.rssi, ts |-> ts[s]] :
     rec \in batch[s]}

\* Faulty: foreign keys are not enforced.
InsertUnchecked(s) ==
  /\ pc[s] = "upserted"
  /\ obs' = obs \cup Observations(s)
  /\ Goto(s, "stored")
  /\ UNCHANGED <<now, scans, scanSeq, bss, scan, ts, batch, heard, astray>>

\* insert_observations: every record, or none when the scan's row is gone.
InsertObservations(s) ==
  /\ pc[s] = "upserted"
  /\ \/ batch[s] = {} \/ \E c \in scans : c.id = scan[s]
  /\ obs' = obs \cup Observations(s)
  /\ Goto(s, "stored")
  /\ UNCHANGED <<now, scans, scanSeq, bss, scan, ts, batch, heard, astray>>

\* The foreign key fails, or the driver, or a wait that is cut short: the scan's
\* row takes the error, if there is one.
FailScan(s) ==
  /\ pc[s] \in {"started", "read", "upserted"}
  /\ Rest(s)
  /\ UNCHANGED <<now, tables, heard, astray>>

FinishScan(s) ==
  /\ pc[s] = "stored"
  /\ Rest(s)
  /\ UNCHANGED <<now, tables, heard, astray>>

(***************************************************************************)
(* Everything else that writes here                                        *)
(***************************************************************************)

\* prune: what is older than the retention allows, and the observations of a scan
\* that is; the radios stay.
Prune(days) ==
  /\ days <= now
  /\ LET cutoff == now - days
         kept == {c \in scans : c.at >= cutoff}
     IN /\ scans' = kept
        /\ obs' = {o \in obs : o.ts >= cutoff /\ \E c \in kept : c.id = o.scan}
  /\ UNCHANGED <<now, scanSeq, bss, steps, heard, astray>>

ClearNetworks ==
  /\ scans' = {} /\ obs' = {} /\ bss' = [r \in Radios |-> NoRow]
  /\ UNCHANGED <<now, scanSeq, steps, heard, astray>>

\* wipe_everything starts the ids over as well.
Wipe ==
  /\ scans' = {} /\ obs' = {} /\ bss' = [r \in Radios |-> NoRow]
  /\ scanSeq' = 0
  /\ astray' = (astray \/ \E s \in Scanners : pc[s] # "idle")
  /\ UNCHANGED <<now, steps, heard>>

Crash ==
  /\ \E s \in Scanners : pc[s] # "idle"
  /\ pc' = [s \in Scanners |-> "idle"] /\ scan' = [s \in Scanners |-> 0]
  /\ ts' = [s \in Scanners |-> 0]
  /\ batch' = [s \in Scanners |-> {}]
  /\ UNCHANGED <<now, tables, heard, astray>>

Tick ==
  /\ now < MaxTime
  /\ now' = now + 1
  /\ UNCHANGED <<tables, steps, heard, astray>>

ScanSteps(s) ==
  \/ \E a \in Adapters : StartScan(s, a)
  \/ \E records \in SUBSET Records : ReadResults(s, records)
  \/ UpsertBss(s) \/ InsertObservations(s) \/ FailScan(s) \/ FinishScan(s)

Next ==
  \/ \E s \in Scanners : ScanSteps(s)
  \/ \E days \in 1..MaxTime : Prune(days)
  \/ ClearNetworks \/ Wipe \/ Crash \/ Tick

Spec == Init /\ [][Next]_vars

(***************************************************************************)
(* Properties                                                              *)
(***************************************************************************)

\* What history shows of a radio, its row accounts for: the row is there, no
\* observation is outside its extremes, and there are no more of them than times
\* it was seen.  Overlapping scans, a prune, a crash and even clearing
\* the tables in mid-scan keep that; only a wipe in mid-scan, which gives out ids
\* a scan still holds, may not.
HistoryIsCovered ==
  ~astray => \A r \in Radios :
    LET of == {o \in obs : o.radio = r} IN
    of # {} =>
      /\ bss[r] # NoRow
      /\ \A o \in of : o.rssi \in bss[r].min..bss[r].max
      /\ Cardinality(of) <= bss[r].seen

\* observed_bands: the bands of the radios an adapter has observations of.
ObservedBands(adapter, days) ==
  {bss[o.radio].band : o \in {o \in obs :
      /\ o.ts >= now - days /\ bss[o.radio] # NoRow
      /\ \E c \in scans : c.id = o.scan /\ c.adapter = adapter}}

\* db.py: "Bands we have actually received beacons on."  (Refuted: README,
\* section 4.)
BandsWereHeard ==
  ~astray => \A a \in Adapters : \A b \in ObservedBands(a, MaxTime) :
               \E h \in heard : h.adapter = a /\ h.band = b
=============================================================================
