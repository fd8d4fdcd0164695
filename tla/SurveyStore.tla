---------------------------- MODULE SurveyStore ----------------------------
(***************************************************************************)
(* What a survey files under a site: the tables of app/db.py for sites,    *)
(* survey points and their readings, snapshots, the inventory of access    *)
(* points and the devices found on the network, and the operations of      *)
(* app/services/survey_svc.py and devices_svc.py on them.  A statement, or *)
(* a transaction of several, is one step; an operation that reads, works   *)
(* and writes is several.                                                  *)
(*                                                                         *)
(* A site is its id: points cascade with it, while snapshots, inventory    *)
(* rows and devices only name it.  The active site is a setting, and not   *)
(* in the database at all.                                                 *)
(***************************************************************************)
EXTENDS Integers, FiniteSets

CONSTANTS
  Threads,    \* pool threads of the window, or handlers of the API
  Radios,     \* access points that can be heard
  Hosts,      \* devices that can be found, each an address and a MAC
  MaxSites,   \* bound: sites created, ids issued in one life of the database
  MaxPoints,  \* bound: points and snapshots, likewise
  MaxRows     \* bound: rows on file when another is begun

\* What the constants have to be.
StoreConstantsOK ==
  /\ {MaxSites, MaxPoints, MaxRows} \subseteq Nat \ {0}
  /\ IsFiniteSet(Radios) /\ IsFiniteSet(Hosts)

VARIABLES
  sites,      \* the ids in sites
  siteSeq,    \* sqlite_sequence: the last id issued for sites
  points,     \* survey_points: id, site, and how many networks were heard
  readings,   \* survey_readings: point and radio
  pointSeq,   \* the last id issued for survey_points
  snapshots,  \* snapshots: id and site
  snapSeq,    \* the last id issued for snapshots
  inventory,  \* ap_inventory: the site of each radio that has a row
  devices,    \* lan_devices: the site of each host that has a row
  active,     \* site.active_id in the settings
  pc,         \* where each thread is
  job,        \* what it files, under which site, and what it has heard
  astray      \* history: a wipe crossed an operation, or left a site selected

siteVars  == <<sites, siteSeq>>
pointVars == <<points, readings, pointSeq>>
snapVars  == <<snapshots, snapSeq>>
rowVars   == <<inventory, devices>>
vars == <<siteVars, pointVars, snapVars, rowVars, active, pc, job, astray>>

NoSite == 0
Absent == -1     \* a radio or a host without a row
Ids == 1..MaxSites
Kinds == {"point", "snapshot", "inventory", "device"}
NoJob == [kind |-> "none", site |-> NoSite, heard |-> {}]

TypeOK ==
  /\ sites \subseteq Ids /\ siteSeq \in 0..MaxSites
  /\ points \subseteq [id : 1..MaxPoints, site : 0..MaxSites, count : 0..Cardinality(Radios)]
  /\ readings \subseteq [point : 1..MaxPoints, radio : Radios]
  /\ {pointSeq, snapSeq} \subseteq 0..MaxPoints
  /\ snapshots \subseteq [id : 1..MaxPoints, site : 0..MaxSites]
  /\ inventory \in [Radios -> Absent..MaxSites]
  /\ devices \in [Hosts -> Absent..MaxSites]
  /\ active \in 0..MaxSites
  /\ pc \in [Threads -> {"idle", "file", "choose", "look", "clear"}]
  /\ job \in [Threads -> [kind : Kinds \cup {"none"}, site : 0..MaxSites,
                          heard : SUBSET (Radios \cup Hosts)]]
  /\ astray \in BOOLEAN

Init ==
  /\ sites = {} /\ siteSeq = 0
  /\ points = {} /\ readings = {} /\ pointSeq = 0
  /\ snapshots = {} /\ snapSeq = 0
  /\ inventory = [r \in Radios |-> Absent] /\ devices = [h \in Hosts |-> Absent]
  /\ active = NoSite
  /\ pc = [t \in Threads |-> "idle"] /\ job = [t \in Threads |-> NoJob]
  /\ astray = FALSE

Goto(t, place) == pc' = [pc EXCEPT ![t] = place]
Finish(t) == Goto(t, "idle") /\ job' = [job EXCEPT ![t] = NoJob]

\* A thread that acts in one step, between operations.
Free(t) == pc[t] = "idle"

(***************************************************************************)
(* Sites                                                                   *)
(***************************************************************************)

\* Faulty: without AUTOINCREMENT the largest id may come again.
CreateAfterLargest ==
  /\ siteSeq < MaxSites
  /\ siteSeq' = siteSeq + 1
  /\ LET next == CHOOSE i \in 1..(MaxSites + 1) :
                   /\ \A s \in sites : s < i
                   /\ i = 1 \/ i - 1 \in sites
     IN sites' = sites \cup {next}
  /\ UNCHANGED <<pointVars, snapVars, rowVars, active, pc, job, astray>>

\* create_site, under a name no other site has.
CreateSite ==
  /\ siteSeq < MaxSites
  /\ siteSeq' = siteSeq + 1
  /\ sites' = sites \cup {siteSeq'}
  /\ UNCHANGED <<pointVars, snapVars, rowVars, active, pc, job, astray>>

\* Faulty: foreign keys are not enforced, and nothing cascades.
DeleteAlone(t, s) ==
  /\ Free(t) /\ s \in sites
  /\ sites' = sites \ {s}
  /\ Goto(t, "look") /\ job' = [job EXCEPT ![t].site = s]
  /\ UNCHANGED <<siteSeq, pointVars, snapVars, rowVars, active, astray>>

\* delete_site: its points go with it, and their readings with them.
DeleteSite(t, s) ==
  /\ Free(t) /\ s \in sites
  /\ sites' = sites \ {s}
  /\ LET gone == {p \in points : p.site = s} IN
       /\ points' = points \ gone
       /\ readings' = {r \in readings : ~\E p \in gone : p.id = r.point}
  /\ Goto(t, "look") /\ job' = [job EXCEPT ![t].site = s]
  /\ UNCHANGED <<siteSeq, pointSeq, snapVars, rowVars, active, astray>>

\* It must not stay selected: looked up, and then cleared.
LookIfActive(t) ==
  /\ pc[t] = "look"
  /\ IF active = job[t].site THEN Goto(t, "clear") /\ UNCHANGED job ELSE Finish(t)
  /\ UNCHANGED <<siteVars, pointVars, snapVars, rowVars, active, astray>>

ClearActive(t) ==
  /\ pc[t] = "clear"
  /\ active' = NoSite
  /\ Finish(t)
  /\ UNCHANGED <<siteVars, pointVars, snapVars, rowVars, astray>>

\* activate_site: looked up, and then selected.
ChooseSite(t, s) ==
  /\ Free(t) /\ s \in sites
  /\ Goto(t, "choose") /\ job' = [job EXCEPT ![t].site = s]
  /\ UNCHANGED <<siteVars, pointVars, snapVars, rowVars, active, astray>>

Activate(t) ==
  /\ pc[t] = "choose"
  /\ active' = job[t].site
  /\ Finish(t)
  /\ UNCHANGED <<siteVars, pointVars, snapVars, rowVars, astray>>

Deselect ==
  /\ active # NoSite
  /\ active' = NoSite
  /\ UNCHANGED <<siteVars, pointVars, snapVars, rowVars, pc, job, astray>>

(***************************************************************************)
(* Filing: capture_point, take_snapshot, set_inventory, discover           *)
(***************************************************************************)

Filed ==
  Cardinality(points) + Cardinality(snapshots)
    + Cardinality({r \in Radios : inventory[r] # Absent})
    + Cardinality({h \in Hosts : devices[h] # Absent})

\* The site is the one asked for, which the caller may have listed long ago, though
\* not before a wipe, or the active one.  A point comes with what was heard just now;
\* so does a snapshot, of which nothing but the site is kept here.
StartFiling(t, kind, asked, heard) ==
  /\ Free(t) /\ Filed < MaxRows
  /\ asked \in 0..siteSeq
  /\ heard = {} <=> kind = "snapshot"
  /\ kind = "inventory" => Cardinality(heard) = 1
  /\ Goto(t, "file")
  /\ job' = [job EXCEPT ![t] = [kind |-> kind, heard |-> heard,
                                site |-> IF asked = NoSite THEN active ELSE asked]]
  /\ UNCHANGED <<siteVars, pointVars, snapVars, rowVars, active, astray>>

\* add_survey_point: the point and its readings, or a foreign key that fails.
FilePoint(t) ==
  /\ pc[t] = "file" /\ job[t].kind = "point" /\ pointSeq < MaxPoints
  /\ IF job[t].site \in sites \cup {NoSite}
     THEN LET id == pointSeq + 1 IN
       /\ pointSeq' = id
       /\ points' = points \cup
            {[id |-> id, site |-> job[t].site, count |-> Cardinality(job[t].heard)]}
       /\ readings' = readings \cup {[point |-> id, radio |-> r] : r \in job[t].heard}
     ELSE UNCHANGED pointVars
  /\ Finish(t)
  /\ UNCHANGED <<siteVars, snapVars, rowVars, active, astray>>

FileSnapshot(t) ==
  /\ pc[t] = "file" /\ job[t].kind = "snapshot" /\ snapSeq < MaxPoints
  /\ snapSeq' = snapSeq + 1
  /\ snapshots' = snapshots \cup {[id |-> snapSeq', site |-> job[t].site]}
  /\ Finish(t)
  /\ UNCHANGED <<siteVars, pointVars, rowVars, active, astray>>

\* Both upserts keep the site a row has when the new one has none.
Refile(rows, which, site) ==
  [k \in DOMAIN rows |-> IF k \in which /\ (site # NoSite \/ rows[k] = Absent)
                         THEN site ELSE rows[k]]

FileInventory(t) ==
  /\ pc[t] = "file" /\ job[t].kind = "inventory"
  /\ inventory' = Refile(inventory, job[t].heard, job[t].site)
  /\ Finish(t)
  /\ UNCHANGED <<siteVars, pointVars, snapVars, devices, active, astray>>

FileDevices(t) ==
  /\ pc[t] = "file" /\ job[t].kind = "device"
  /\ devices' = Refile(devices, job[t].heard, job[t].site)
  /\ Finish(t)
  /\ UNCHANGED <<siteVars, pointVars, snapVars, inventory, active, astray>>

(***************************************************************************)
(* Removing                                                                *)
(***************************************************************************)

DeletePoint(p) ==
  /\ points' = points \ {p}
  /\ readings' = {r \in readings : r.point # p.id}
  /\ UNCHANGED <<siteVars, pointSeq, snapVars, rowVars, active, pc, job, astray>>

DeleteSnapshot(s) ==
  /\ snapshots' = snapshots \ {s}
  /\ UNCHANGED <<siteVars, pointVars, snapSeq, rowVars, active, pc, job, astray>>

DeleteInventory(r) ==
  /\ inventory[r] # Absent
  /\ inventory' = [inventory EXCEPT ![r] = Absent]
  /\ UNCHANGED <<siteVars, pointVars, snapVars, devices, active, pc, job, astray>>

\* forget_devices: all, or those not seen for some days.
ForgetDevices ==
  /\ \E old \in SUBSET Hosts \ {{}} :
       devices' = [h \in Hosts |-> IF h \in old THEN Absent ELSE devices[h]]
  /\ UNCHANGED <<siteVars, pointVars, snapVars, inventory, active, pc, job, astray>>

\* wipe_everything: every table and every sequence.  The settings, and with them
\* the active site, are reset only if asked.
Wipe ==
  /\ sites' = {} /\ siteSeq' = 0
  /\ points' = {} /\ readings' = {} /\ pointSeq' = 0
  /\ snapshots' = {} /\ snapSeq' = 0
  /\ inventory' = [r \in Radios |-> Absent] /\ devices' = [h \in Hosts |-> Absent]
  /\ active' \in {active, NoSite}
  /\ astray' = (astray \/ active' # NoSite \/ \E t \in Threads : ~Free(t))
  /\ UNCHANGED <<pc, job>>

Files(t) == FilePoint(t) \/ FileSnapshot(t) \/ FileInventory(t) \/ FileDevices(t)

ThreadNext(t) ==
  \/ \E s \in Ids : DeleteSite(t, s) \/ ChooseSite(t, s)
  \/ LookIfActive(t) \/ ClearActive(t) \/ Activate(t)
  \/ \E kind \in {"point", "snapshot", "inventory"}, asked \in 0..MaxSites,
        heard \in SUBSET Radios : StartFiling(t, kind, asked, heard)
  \/ \E heard \in SUBSET Hosts : StartFiling(t, "device", NoSite, heard)
  \/ Files(t)

Next ==
  \/ \E t \in Threads : ThreadNext(t)
  \/ CreateSite \/ Deselect \/ ForgetDevices \/ Wipe
  \/ \E p \in points : DeletePoint(p)
  \/ \E s \in snapshots : DeleteSnapshot(s)
  \/ \E r \in Radios : DeleteInventory(r)

Spec == Init /\ [][Next]_vars

(***************************************************************************)
(* Properties                                                              *)
(***************************************************************************)

\* A point is stored with all of its readings and goes with all of them, however
\* it goes, and the site it is filed under exists, whoever deletes sites meanwhile.
PointsAreWhole ==
  /\ \A r \in readings : \E p \in points : p.id = r.point
  /\ \A p \in points :
       /\ p.count = Cardinality({r \in readings : r.point = p.id})
       /\ p.site \in sites \cup {NoSite}

\* Rows that name a site by its id: all there are.
NamesSite(s) ==
  \/ \E p \in points : p.site = s
  \/ \E n \in snapshots : n.site = s
  \/ \E r \in Radios : inventory[r] = s
  \/ \E h \in Hosts : devices[h] = s

\* A new site starts with nothing filed under it: what was left behind by a site
\* that was deleted does not turn up in another client's survey, nor is the new
\* site selected.  A wipe that starts the ids over breaks this when it leaves the
\* old selection in place, or comes between the steps of an operation.
NewSiteIsEmpty ==
  [][\A s \in sites' \ sites :
       ~astray => ~NamesSite(s) /\ active # s]_vars

\* survey_svc.py: "A deleted site must not stay selected, or every view filters on
\* nothing."  (Refuted: README, section 4.)
ActiveSiteExists ==
  (\A t \in Threads : Free(t)) => active \in sites \cup {NoSite}
=============================================================================
