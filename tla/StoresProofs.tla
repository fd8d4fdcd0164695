--------------------------- MODULE StoresProofs -----------------------------
(***************************************************************************)
(* Proofs about what Stores keeps in the database, for any number of       *)
(* clients, sites, points, scans and builds: the survey, the networks and  *)
(* the schema.                                                             *)
(***************************************************************************)
EXTENDS Stores, FiniteSetTheorems, TLAPS

(***************************************************************************)
(* The parts                                                               *)
(***************************************************************************)

\* At the start every part is at its start.
LEMMA StoresStart ==
  Init => /\ Survey!Init /\ Network!Init /\ Repair!Init /\ Release!Init /\ Setup!Init
          /\ Schema!Init
BY DEF Init

\* A step is a step of the part that moves, and the others stand still.
LEMMA StoresMove ==
  ASSUME [Next]_vars
  PROVE  /\ [Survey!Next]_(Survey!vars) /\ [Network!Next]_(Network!vars)
         /\ [Repair!Next]_(Repair!vars) /\ [Release!Next]_(Release!vars)
         /\ [Setup!Next]_(Setup!vars) /\ [Schema!Next]_(Schema!vars)
         /\ UNCHANGED focus
<1>1. [Survey!Next]_(Survey!vars) /\ UNCHANGED focus
  <2>1. Survey!Next \/ UNCHANGED surveyVars  BY DEF Next, vars
  <2>2. UNCHANGED focus  BY DEF Next, vars
  <2> QED
    BY <2>1, <2>2
       DEF surveyVars, Survey!vars, Survey!siteVars, Survey!pointVars, Survey!snapVars,
           Survey!rowVars
<1>2. [Network!Next]_(Network!vars)
  <2>1. Network!Next \/ UNCHANGED networkVars  BY DEF Next, vars
  <2> QED  BY <2>1 DEF networkVars, Network!vars, Network!tables, Network!steps
<1>3. [Repair!Next]_(Repair!vars)
  <2>1. Repair!Next \/ UNCHANGED repairVars  BY DEF Next, vars
  <2> QED
    BY <2>1
       DEF repairVars, Repair!vars, Repair!worldVars, Repair!runVars, Repair!callerVars,
           Repair!history
<1>4. [Release!Next]_(Release!vars)
  <2>1. Release!Next \/ UNCHANGED releaseVars  BY DEF Next, vars
  <2> QED
    BY <2>1
       DEF releaseVars, Release!vars, Release!fileVars, Release!procVars, Release!callVars
<1>5. [Setup!Next]_(Setup!vars)
  <2>1. Setup!Next \/ UNCHANGED setupVars  BY DEF Next, vars, restVars
  <2> QED
    BY <2>1 DEF setupVars, Setup!vars, Setup!fileVars, Setup!traceVars, Setup!pastVars
<1>6. [Schema!Next]_(Schema!vars)
  <2>1. Schema!Next \/ UNCHANGED schemaVars  BY DEF Next, vars, restVars
  <2> QED  BY <2>1 DEF schemaVars, Schema!vars
<1> QED  BY <1>1, <1>2, <1>3, <1>4, <1>5, <1>6

(***************************************************************************)
(* SurveyStore                                                             *)
(*                                                                         *)
(* A point is stored with its readings and goes with them, so counting     *)
(* them stays right.  An id is issued once, so nothing that was filed can  *)
(* name a site of the future, unless it was filed after its own site had   *)
(* gone.                                                                   *)
(***************************************************************************)

\* What is counted here is counted as the library counts.
LEMMA SurveyCounts ==
  ASSUME NEW S
  PROVE  /\ Survey!Cardinality(S) = Cardinality(S)
         /\ Survey!IsFiniteSet(S) <=> IsFiniteSet(S)
BY DEF Survey!Cardinality, Survey!IsFiniteSet, Cardinality, IsFiniteSet

\* How many radios and devices there are is left open, but not that they can be counted.
Countable == IsFiniteSet(Radios) /\ IsFiniteSet(Hosts)

\* Ids come from a sequence that is behind none of them, and no two points share one.
Numbered ==
  /\ svPointSeq \in Nat /\ svSiteSeq \in Nat
  /\ \A p \in svPoints : p.id \in 1..svPointSeq
  /\ \A p, q \in svPoints : p.id = q.id => p = q

\* What a thread has heard is of this world, and a site is a number.
SurveyJobs == [kind : Survey!Kinds \cup {"none"}, site : Int, heard : SUBSET (Radios \cup Hosts)]
HeardOf == svJob \in [Threads -> SurveyJobs] /\ svActive \in Int

\* So is what is stored.
StoredOK ==
  /\ svReadings \subseteq [point : Nat, radio : Radios \cup Hosts]
  /\ svPoints \subseteq [id : Nat, site : Int, count : Nat]

\* Together they are inductive.
PointInv == Numbered /\ HeardOf /\ StoredOK /\ Survey!PointsAreWhole

\* The readings of one point.
ReadingsOf(p) == {r \in svReadings : r.point = p.id}

\* A point has as many readings as radios were heard for it.
LEMMA OneReadingEach ==
  ASSUME NEW id, NEW S, IsFiniteSet(S)
  PROVE  Cardinality({[point |-> id, radio |-> r] : r \in S}) = Cardinality(S)
<1> DEFINE T == {[point |-> id, radio |-> r] : r \in S}
           f == [r \in S |-> [point |-> id, radio |-> r]]
<1>1. f \in [S -> T]  OBVIOUS
<1>2. \A r, q \in S : f[r] = f[q] => r = q
  <2> SUFFICES ASSUME NEW r \in S, NEW q \in S, f[r] = f[q] PROVE r = q  OBVIOUS
  <2>1. f[r].radio = r /\ f[q].radio = q  OBVIOUS
  <2> QED  BY <2>1
<1>3. \A t \in T : \E r \in S : f[r] = t  OBVIOUS
<1> HIDE DEF f, T
<1>4. f \in Bijection(S, T)
  BY <1>1, <1>2, <1>3 DEF Bijection, Injection, Surjection, IsInjective
<1>5. ExistsBijection(S, T)  BY <1>4 DEF ExistsBijection
<1> QED  BY <1>5, FS_Bijection DEF T

\* A step that leaves the points and the sites alone.
LEMMA PointsUntouched ==
  ASSUME PointInv, UNCHANGED <<svPoints, svReadings, svPointSeq, svSiteSeq>>,
         svSites \subseteq svSites',
         HeardOf'
  PROVE  PointInv'
<1>1. Numbered'  BY DEF PointInv, Numbered
<1>2. StoredOK'  BY DEF PointInv, StoredOK
<1>3. Survey!PointsAreWhole'  BY DEF PointInv, Survey!PointsAreWhole
<1> QED  BY <1>1, <1>2, <1>3 DEF PointInv

\* Points that go take their readings with them, and leave the others theirs.
LEMMA PointsGo ==
  ASSUME PointInv, NEW gone \in SUBSET svPoints, UNCHANGED svPointSeq, UNCHANGED svSiteSeq,
         svPoints' = svPoints \ gone,
         svReadings' = {r \in svReadings : ~\E p \in gone : p.id = r.point},
         \A p \in svPoints' : p.site \in svSites' \cup {Survey!NoSite},
         HeardOf'
  PROVE  PointInv'
<1>1. Numbered'  BY DEF PointInv, Numbered
<1>2. StoredOK'  BY DEF PointInv, StoredOK
<1>3. ASSUME NEW p \in svPoints' PROVE ReadingsOf(p)' = ReadingsOf(p)
  <2>1. \A q \in gone : q.id # p.id  BY <1>3 DEF PointInv, Numbered
  <2> QED  BY <2>1 DEF ReadingsOf
<1>4. ASSUME NEW p \in svPoints'
      PROVE  p.count = Cardinality({r \in svReadings' : r.point = p.id})
  <2>1. p.count = Cardinality(ReadingsOf(p))
    BY SurveyCounts, <1>4 DEF PointInv, Survey!PointsAreWhole, ReadingsOf
  <2>2. ReadingsOf(p) = {r \in svReadings' : r.point = p.id}
    BY <1>3 DEF ReadingsOf
  <2> QED  BY <2>1, <2>2
<1>5. \A r \in svReadings' : \E p \in svPoints' : p.id = r.point
  BY DEF PointInv, Survey!PointsAreWhole
<1>6. Survey!PointsAreWhole'  BY SurveyCounts, <1>4, <1>5 DEF Survey!PointsAreWhole
<1> QED  BY <1>1, <1>2, <1>6 DEF PointInv

\* A new point has an id that no other has, and no reading either.
LEMMA PointComes ==
  ASSUME Countable, PointInv, NEW t \in Threads, Survey!FilePoint(t)
  PROVE  PointInv'
<1> DEFINE id == svPointSeq + 1
           heard == svJob[t].heard
           point == [id |-> id, site |-> svJob[t].site, count |-> Cardinality(heard)]
           own == {[point |-> id, radio |-> r] : r \in heard}
<1>1. HeardOf'
  BY DEF Survey!FilePoint, Survey!Finish, Survey!NoJob, PointInv, HeardOf, SurveyJobs,
     Survey!NoSite
<1>2. CASE svJob[t].site \notin svSites \cup {Survey!NoSite}
  BY <1>1, <1>2, PointsUntouched DEF Survey!FilePoint, Survey!pointVars, Survey!siteVars
<1>3. CASE svJob[t].site \in svSites \cup {Survey!NoSite}
  <2>1. /\ svPointSeq' = id /\ svPoints' = svPoints \cup {point}
        /\ svReadings' = svReadings \cup own
        /\ svSites' = svSites /\ svSiteSeq' = svSiteSeq
    BY SurveyCounts, <1>3 DEF Survey!FilePoint, Survey!siteVars
  <2>2. heard \in SUBSET (Radios \cup Hosts) /\ svJob[t].site \in Int
    BY DEF PointInv, HeardOf, SurveyJobs
  <2>3. IsFiniteSet(Radios \cup Hosts)  BY FS_Union DEF Countable
  <2>4. IsFiniteSet(heard)  BY <2>2, <2>3, FS_Subset
  <2>5. Cardinality(heard) \in Nat  BY <2>4, FS_CardinalityType
  <2>6. Cardinality(own) = Cardinality(heard)  BY <2>4, OneReadingEach
  <2>7. svPointSeq \in Nat /\ \A p \in svPoints : p.id \in 1..svPointSeq
    BY DEF PointInv, Numbered
  <2> HIDE DEF heard
  <2>8. Numbered'  BY <2>1, <2>7 DEF PointInv, Numbered
  <2>9. StoredOK'  BY <2>1, <2>2, <2>5, <2>7 DEF PointInv, StoredOK
  <2>10. \A r \in svReadings : r.point # id
    BY <2>7 DEF PointInv, Survey!PointsAreWhole
  <2>11. ASSUME NEW p \in svPoints
         PROVE  p.count = Cardinality({r \in svReadings' : r.point = p.id})
    <3>1. p.id # id  BY <2>7
    <3>2. {r \in svReadings' : r.point = p.id} = {r \in svReadings : r.point = p.id}
      BY <2>1, <3>1
    <3> QED  BY SurveyCounts, <3>2 DEF PointInv, Survey!PointsAreWhole
  <2>12. point.count = Cardinality({r \in svReadings' : r.point = point.id})
    <3>1. {r \in svReadings' : r.point = id} = own  BY <2>1, <2>10
    <3> QED  BY <2>6, <3>1
  <2>13. \A r \in svReadings' : \E p \in svPoints' : p.id = r.point
    <3>1. \A r \in svReadings : \E p \in svPoints : p.id = r.point
      BY DEF PointInv, Survey!PointsAreWhole
    <3>2. \A r \in own : point.id = r.point  OBVIOUS
    <3> HIDE DEF own, point
    <3> QED  BY <2>1, <3>1, <3>2
  <2>14. \A p \in svPoints' : p.site \in svSites' \cup {Survey!NoSite}
    <3>1. \A p \in svPoints : p.site \in svSites \cup {Survey!NoSite}
      BY DEF PointInv, Survey!PointsAreWhole
    <3>2. point.site \in svSites \cup {Survey!NoSite}  BY <1>3
    <3> HIDE DEF point
    <3> QED  BY <2>1, <3>1, <3>2
  <2>15. Survey!PointsAreWhole'
    BY SurveyCounts, <2>1, <2>11, <2>12, <2>13, <2>14 DEF Survey!PointsAreWhole
  <2> QED  BY <1>1, <2>8, <2>9, <2>15 DEF PointInv
<1> QED  BY <1>2, <1>3

\* What a thread is about to file stays of this world.
LEMMA HeardOfNext ==
  ASSUME PointInv, [Survey!Next]_(Survey!vars)
  PROVE  HeardOf'
<1>1. svJob \in [Threads -> SurveyJobs] /\ svActive \in Int /\ svSiteSeq \in Nat
  BY DEF PointInv, HeardOf, Numbered
<1>2. ASSUME NEW t \in Threads, Survey!Finish(t) PROVE svJob' \in [Threads -> SurveyJobs]
  BY <1>1, <1>2 DEF Survey!Finish, Survey!NoJob, Survey!NoSite, SurveyJobs
<1>3. ASSUME NEW t \in Threads, Survey!ThreadNext(t) PROVE HeardOf'
  <2>1. ASSUME NEW s \in Survey!Ids, Survey!DeleteSite(t, s) \/ Survey!ChooseSite(t, s)
        PROVE  HeardOf'
    BY <1>1, <2>1 DEF Survey!DeleteSite, Survey!ChooseSite, Survey!Ids, HeardOf, SurveyJobs
  <2>2. CASE Survey!LookIfActive(t)  BY <1>1, <1>2, <2>2 DEF Survey!LookIfActive, HeardOf
  <2>3. CASE Survey!ClearActive(t)
    BY <1>1, <1>2, <2>3 DEF Survey!ClearActive, HeardOf, Survey!NoSite
  <2>4. CASE Survey!Activate(t)
    <3>1. svJob[t].site \in Int  BY <1>1 DEF SurveyJobs
    <3> QED  BY <1>2, <2>4, <3>1 DEF Survey!Activate, HeardOf
  <2>5. ASSUME NEW kind \in Survey!Kinds, NEW asked, NEW heard \in SUBSET (Radios \cup Hosts),
               Survey!StartFiling(t, kind, asked, heard)
        PROVE  HeardOf'
    <3>1. asked \in Int  BY <1>1, <2>5 DEF Survey!StartFiling
    <3> QED  BY <1>1, <2>5, <3>1 DEF Survey!StartFiling, HeardOf, SurveyJobs
  <2>6. CASE Survey!Files(t)
    BY <1>1, <1>2, <2>6
       DEF Survey!Files, Survey!FilePoint, Survey!FileSnapshot, Survey!FileInventory,
           Survey!FileDevices, HeardOf
  <2>7. CASE \E kind \in {"point", "snapshot", "inventory"}, asked \in 0..MaxSites,
                heard \in SUBSET Radios : Survey!StartFiling(t, kind, asked, heard)
    BY <2>5, <2>7 DEF Survey!Kinds
  <2>8. CASE \E heard \in SUBSET Hosts : Survey!StartFiling(t, "device", Survey!NoSite, heard)
    BY <2>5, <2>8 DEF Survey!Kinds
  <2> QED  BY <1>3, <2>1, <2>2, <2>3, <2>4, <2>6, <2>7, <2>8 DEF Survey!ThreadNext
<1>4. CASE Survey!CreateSite \/ Survey!Deselect \/ Survey!ForgetDevices \/ Survey!Wipe
  BY <1>1, <1>4
     DEF Survey!CreateSite, Survey!Deselect, Survey!ForgetDevices, Survey!Wipe, HeardOf,
         Survey!NoSite
<1>5. ASSUME NEW p \in svPoints, Survey!DeletePoint(p) PROVE HeardOf'
  BY <1>1, <1>5 DEF Survey!DeletePoint, HeardOf
<1>6. ASSUME NEW s \in svSnapshots, Survey!DeleteSnapshot(s) PROVE HeardOf'
  BY <1>1, <1>6 DEF Survey!DeleteSnapshot, HeardOf
<1>7. ASSUME NEW r \in Radios, Survey!DeleteInventory(r) PROVE HeardOf'
  BY <1>1, <1>7 DEF Survey!DeleteInventory, HeardOf
<1>8. CASE UNCHANGED Survey!vars  BY <1>1, <1>8 DEF Survey!vars, HeardOf
<1> QED  BY <1>3, <1>4, <1>5, <1>6, <1>7, <1>8 DEF Survey!Next

\* Every step keeps points whole.
LEMMA PointInvNext ==
  ASSUME Countable, PointInv, [Survey!Next]_(Survey!vars)
  PROVE  PointInv'
<1>1. HeardOf'  BY HeardOfNext
<1>2. ASSUME NEW t \in Threads, Survey!ThreadNext(t) PROVE PointInv'
  <2>1. ASSUME NEW s \in Survey!Ids, Survey!DeleteSite(t, s) PROVE PointInv'
    <3> DEFINE gone == {p \in svPoints : p.site = s}
    <3>1. /\ svPoints' = svPoints \ gone /\ UNCHANGED <<svPointSeq, svSiteSeq>>
          /\ svReadings' = {r \in svReadings : ~\E p \in gone : p.id = r.point}
          /\ svSites' = svSites \ {s}
      BY <2>1 DEF Survey!DeleteSite
    <3>2. \A p \in svPoints' : p.site \in svSites' \cup {Survey!NoSite}
      BY <3>1 DEF PointInv, Survey!PointsAreWhole
    <3>3. gone \in SUBSET svPoints  OBVIOUS
    <3> HIDE DEF gone
    <3> QED  BY <1>1, <3>1, <3>2, <3>3, PointsGo
  <2>2. CASE Survey!FilePoint(t)  BY <2>2, PointComes
  <2>3. ASSUME UNCHANGED <<Survey!siteVars, Survey!pointVars>> PROVE PointInv'
    BY <1>1, <2>3, PointsUntouched DEF Survey!siteVars, Survey!pointVars
  <2>4. ASSUME NEW s, Survey!ChooseSite(t, s) PROVE PointInv'
    BY <2>3, <2>4 DEF Survey!ChooseSite
  <2>5. CASE Survey!LookIfActive(t) \/ Survey!ClearActive(t) \/ Survey!Activate(t)
    BY <2>3, <2>5 DEF Survey!LookIfActive, Survey!ClearActive, Survey!Activate
  <2>6. ASSUME NEW kind, NEW asked, NEW heard, Survey!StartFiling(t, kind, asked, heard)
        PROVE  PointInv'
    BY <2>3, <2>6 DEF Survey!StartFiling
  <2>7. CASE Survey!FileSnapshot(t) \/ Survey!FileInventory(t) \/ Survey!FileDevices(t)
    BY <2>3, <2>7 DEF Survey!FileSnapshot, Survey!FileInventory, Survey!FileDevices
  <2> QED  BY <1>2, <2>1, <2>2, <2>4, <2>5, <2>6, <2>7 DEF Survey!ThreadNext, Survey!Files
<1>3. CASE Survey!CreateSite
  <2>1. Numbered'  BY <1>3 DEF Survey!CreateSite, Survey!pointVars, PointInv, Numbered
  <2>2. StoredOK'  BY <1>3 DEF Survey!CreateSite, Survey!pointVars, PointInv, StoredOK
  <2>3. Survey!PointsAreWhole'
    BY <1>3 DEF Survey!CreateSite, Survey!pointVars, PointInv, Survey!PointsAreWhole
  <2> QED  BY <1>1, <2>1, <2>2, <2>3 DEF PointInv
<1>4. CASE Survey!Wipe
  <2>1. svPoints' = {} /\ svReadings' = {} /\ svPointSeq' = 0 /\ svSiteSeq' = 0
    BY <1>4 DEF Survey!Wipe
  <2> QED  BY <1>1, <2>1 DEF PointInv, Numbered, StoredOK, Survey!PointsAreWhole
<1>5. ASSUME NEW p \in svPoints, Survey!DeletePoint(p) PROVE PointInv'
  <2>1. /\ svPoints' = svPoints \ {p} /\ UNCHANGED <<svPointSeq, svSiteSeq, svSites>>
        /\ svReadings' = {r \in svReadings : ~\E q \in {p} : q.id = r.point}
    BY <1>5 DEF Survey!DeletePoint, Survey!siteVars
  <2>2. \A q \in svPoints' : q.site \in svSites' \cup {Survey!NoSite}
    BY <2>1 DEF PointInv, Survey!PointsAreWhole
  <2>3. {p} \in SUBSET svPoints  OBVIOUS
  <2> DEFINE gone == {p}
  <2>4. /\ gone \in SUBSET svPoints /\ svPoints' = svPoints \ gone
        /\ svReadings' = {r \in svReadings : ~\E q \in gone : q.id = r.point}
    BY <2>1, <2>3
  <2> HIDE DEF gone
  <2> QED  BY <1>1, <2>1, <2>2, <2>4, PointsGo
<1>6. ASSUME UNCHANGED <<svSites, svSiteSeq, svPoints, svReadings, svPointSeq>> PROVE PointInv'
  BY <1>1, <1>6, PointsUntouched
<1>7. CASE Survey!Deselect \/ Survey!ForgetDevices
  BY <1>6, <1>7 DEF Survey!Deselect, Survey!ForgetDevices, Survey!siteVars, Survey!pointVars
<1>8. ASSUME NEW s \in svSnapshots, Survey!DeleteSnapshot(s) PROVE PointInv'
  BY <1>6, <1>8 DEF Survey!DeleteSnapshot, Survey!siteVars, Survey!pointVars
<1>9. ASSUME NEW r \in Radios, Survey!DeleteInventory(r) PROVE PointInv'
  BY <1>6, <1>9 DEF Survey!DeleteInventory, Survey!siteVars, Survey!pointVars
<1>10. CASE UNCHANGED Survey!vars
  BY <1>6, <1>10 DEF Survey!vars, Survey!siteVars, Survey!pointVars
<1> QED  BY <1>2, <1>3, <1>4, <1>5, <1>7, <1>8, <1>9, <1>10 DEF Survey!Next

\* A point is heard by radios.
RadiosHeard ==
  \A t \in Threads : svPc[t] = "file" /\ svJob[t].kind = "point" => svJob[t].heard \subseteq Radios

\* What names a site names one that was issued.
SitesAreIssued ==
  ~svAstray =>
    /\ \A s \in svSites : s <= svSiteSeq
    /\ \A p \in svPoints : p.site <= svSiteSeq
    /\ \A n \in svSnapshots : n.site <= svSiteSeq
    /\ \A r \in Radios : svInventory[r] <= svSiteSeq
    /\ \A h \in Hosts : svDevices[h] <= svSiteSeq
    /\ svActive <= svSiteSeq
    /\ \A t \in Threads : ~Survey!Free(t) => svJob[t].site <= svSiteSeq

\* With the types, they are inductive.
SurveyInv == Survey!TypeOK /\ RadiosHeard /\ SitesAreIssued

\* No more is heard than there is.
LEMMA HeardIsCounted ==
  ASSUME Survey!StoreConstantsOK, NEW heard \in SUBSET Radios
  PROVE  Cardinality(heard) \in 0..Cardinality(Radios)
<1>1. IsFiniteSet(Radios)  BY SurveyCounts DEF Survey!StoreConstantsOK
<1>2. IsFiniteSet(heard) /\ Cardinality(heard) <= Cardinality(Radios)  BY <1>1, FS_Subset
<1> QED  BY <1>1, <1>2, FS_CardinalityType

\* The bounds are numbers.
LEMMA BoundsAreNumbers ==
  ASSUME Survey!StoreConstantsOK
  PROVE  /\ MaxSites \in Nat /\ MaxPoints \in Nat /\ MaxSites > 0 /\ MaxPoints > 0
         /\ Cardinality(Radios) \in Nat
<1>1. MaxSites \in Nat \ {0} /\ MaxPoints \in Nat \ {0} /\ IsFiniteSet(Radios)
  BY SurveyCounts DEF Survey!StoreConstantsOK
<1> QED  BY <1>1, FS_CardinalityType

\* What a filing thread holds.
LEMMA JobIsTyped ==
  ASSUME Survey!TypeOK, NEW t \in Threads
  PROVE  /\ svJob[t].kind \in Survey!Kinds \cup {"none"} /\ svJob[t].site \in 0..MaxSites
         /\ svJob[t].heard \in SUBSET (Radios \cup Hosts)
BY DEF Survey!TypeOK

\* A row that is refiled names the site it is filed under, or keeps its own.
LEMMA RefileNames ==
  ASSUME NEW S, NEW rows \in [S -> Int], NEW which, NEW site \in Int
  PROVE  /\ Survey!Refile(rows, which, site) \in [S -> Int]
         /\ \A k \in S : Survey!Refile(rows, which, site)[k] \in {rows[k], site}
BY DEF Survey!Refile

\* A thread that finishes an operation is idle, with nothing in hand.
LEMMA FinishIsTyped ==
  ASSUME Survey!StoreConstantsOK, Survey!TypeOK, NEW t \in Threads, Survey!Finish(t)
  PROVE  /\ svPc' \in [Threads -> {"idle", "file", "choose", "look", "clear"}]
         /\ svJob' \in [Threads -> [kind : Survey!Kinds \cup {"none"}, site : 0..MaxSites,
                            heard : SUBSET (Radios \cup Hosts)]]
         /\ \A u \in Threads : u # t => svPc'[u] = svPc[u] /\ svJob'[u] = svJob[u]
         /\ svPc'[t] = "idle"
BY BoundsAreNumbers DEF Survey!TypeOK, Survey!Finish, Survey!Goto, Survey!NoJob, Survey!NoSite

\* A thread that goes on keeps its types.
LEMMA GotoIsTyped ==
  ASSUME Survey!StoreConstantsOK, Survey!TypeOK, NEW t \in Threads,
         NEW place \in {"file", "choose", "look", "clear"}, Survey!Goto(t, place)
  PROVE  /\ svPc' \in [Threads -> {"idle", "file", "choose", "look", "clear"}]
         /\ \A u \in Threads : u # t => svPc'[u] = svPc[u]
         /\ svPc'[t] = place
BY DEF Survey!TypeOK, Survey!Goto

\* The database is empty.
LEMMA SurveyInvInit ==
  ASSUME Survey!StoreConstantsOK, Survey!Init
  PROVE  SurveyInv
<1>1. /\ MaxSites \in Nat /\ MaxPoints \in Nat /\ MaxSites > 0 /\ MaxPoints > 0
      /\ Cardinality(Radios) \in Nat
  BY BoundsAreNumbers
<1>2. /\ Survey!Absent \in Survey!Absent..MaxSites /\ Survey!NoSite \in 0..MaxSites
      /\ 0 \in 0..MaxSites /\ 0 \in 0..MaxPoints
  BY <1>1 DEF Survey!Absent, Survey!NoSite
<1>3. Survey!TypeOK  BY <1>1, <1>2 DEF Survey!Init, Survey!TypeOK, Survey!NoJob, Survey!Ids
<1>4. RadiosHeard  BY DEF Survey!Init, RadiosHeard
<1>5. SitesAreIssued
  BY DEF Survey!Init, SitesAreIssued, Survey!Absent, Survey!NoSite, Survey!Free
<1> QED  BY <1>3, <1>4, <1>5 DEF SurveyInv

\* A point is filed with what was heard, under a site that was issued.
LEMMA FilePointKeeps ==
  ASSUME Survey!StoreConstantsOK, SurveyInv, NEW t \in Threads, Survey!FilePoint(t)
  PROVE  SurveyInv'
<1> USE DEF SurveyInv
<1> DEFINE id == svPointSeq + 1
           point == [id |-> id, site |-> svJob[t].site, count |-> Cardinality(svJob[t].heard)]
           own == {[point |-> id, radio |-> r] : r \in svJob[t].heard}
<1>1. /\ MaxSites \in Nat /\ MaxPoints \in Nat /\ MaxSites > 0 /\ MaxPoints > 0
      /\ Cardinality(Radios) \in Nat
  BY BoundsAreNumbers
<1>2. Survey!Finish(t) /\ svPc[t] = "file" /\ svJob[t].kind = "point" /\ svPointSeq < MaxPoints
      /\ UNCHANGED <<svSites, svSiteSeq, svSnapshots, svSnapSeq, svInventory, svDevices,
                     svActive, svAstray>>
  BY DEF Survey!FilePoint, Survey!siteVars, Survey!snapVars, Survey!rowVars
<1>3. /\ svJob[t].heard \in SUBSET Radios /\ svJob[t].site \in 0..MaxSites
      /\ svPointSeq \in 0..MaxPoints
  BY <1>2 DEF RadiosHeard, Survey!TypeOK
<1>4. Cardinality(svJob[t].heard) \in 0..Cardinality(Radios)  BY <1>3, HeardIsCounted
<1>5. /\ svPc' \in [Threads -> {"idle", "file", "choose", "look", "clear"}]
      /\ svJob' \in [Threads -> [kind : Survey!Kinds \cup {"none"}, site : 0..MaxSites,
                         heard : SUBSET (Radios \cup Hosts)]]
      /\ \A u \in Threads : u # t => svPc'[u] = svPc[u] /\ svJob'[u] = svJob[u]
      /\ svPc'[t] = "idle"
  BY <1>2, FinishIsTyped
<1>6. id \in 1..MaxPoints /\ id \in 0..MaxPoints  BY <1>1, <1>2, <1>3
<1>7. \/ svPointSeq' = id /\ svPoints' = svPoints \cup {point} /\ svReadings' = svReadings \cup own
      \/ UNCHANGED <<svPoints, svReadings, svPointSeq>>
  BY SurveyCounts DEF Survey!FilePoint, Survey!pointVars
<1>8. point \in [id : 1..MaxPoints, site : 0..MaxSites, count : 0..Cardinality(Radios)]
  BY <1>3, <1>4, <1>6
<1>9. own \subseteq [point : 1..MaxPoints, radio : Radios]
  BY <1>3, <1>6
<1>10. point.site = svJob[t].site  OBVIOUS
<1> HIDE DEF point, own, id
<1>11. svPoints' \subseteq [id : 1..MaxPoints, site : 0..MaxSites, count : 0..Cardinality(Radios)]
  BY SurveyCounts, <1>7, <1>8 DEF Survey!TypeOK
<1>12. svReadings' \subseteq [point : 1..MaxPoints, radio : Radios]
  BY <1>7, <1>9 DEF Survey!TypeOK
<1>13. svPointSeq' \in 0..MaxPoints  BY <1>3, <1>6, <1>7
<1>14. Survey!TypeOK'  BY SurveyCounts, <1>2, <1>5, <1>11, <1>12, <1>13 DEF Survey!TypeOK
<1>15. RadiosHeard'  BY <1>5 DEF RadiosHeard
<1>16. SitesAreIssued'
  <2> SUFFICES ASSUME ~svAstray PROVE SitesAreIssued'  BY <1>2 DEF SitesAreIssued
  <2>1. svJob[t].site <= svSiteSeq  BY <1>2 DEF SitesAreIssued, Survey!Free
  <2>2. \A p \in svPoints' : p.site <= svSiteSeq'  BY <1>2, <1>7, <1>10, <2>1 DEF SitesAreIssued
  <2> QED  BY <1>2, <1>5, <2>2 DEF SitesAreIssued, Survey!Free
<1> QED  BY <1>14, <1>15, <1>16

\* So are a snapshot, a row of the inventory and devices.
LEMMA FileOthersKeep ==
  ASSUME Survey!StoreConstantsOK, SurveyInv, NEW t \in Threads,
         Survey!FileSnapshot(t) \/ Survey!FileInventory(t) \/ Survey!FileDevices(t)
  PROVE  SurveyInv'
<1> USE DEF SurveyInv
<1> DEFINE note == [id |-> svSnapSeq + 1, site |-> svJob[t].site]
<1>1. /\ MaxSites \in Nat /\ MaxPoints \in Nat /\ MaxSites > 0 /\ MaxPoints > 0
  BY BoundsAreNumbers
<1>2. Survey!Finish(t) /\ svPc[t] = "file"
      /\ UNCHANGED <<svSites, svSiteSeq, svPoints, svReadings, svPointSeq, svActive, svAstray>>
  BY DEF Survey!FileSnapshot, Survey!FileInventory, Survey!FileDevices, Survey!siteVars,
     Survey!pointVars, Survey!snapVars, Survey!rowVars
<1>3. /\ svPc' \in [Threads -> {"idle", "file", "choose", "look", "clear"}]
      /\ svJob' \in [Threads -> [kind : Survey!Kinds \cup {"none"}, site : 0..MaxSites,
                         heard : SUBSET (Radios \cup Hosts)]]
      /\ \A u \in Threads : u # t => svPc'[u] = svPc[u] /\ svJob'[u] = svJob[u]
      /\ svPc'[t] = "idle"
  BY <1>2, FinishIsTyped
<1>4. svJob[t].site \in 0..MaxSites /\ svSnapSeq \in 0..MaxPoints  BY DEF Survey!TypeOK
<1>5. svInventory \in [Radios -> Int] /\ svDevices \in [Hosts -> Int] /\ svJob[t].site \in Int
  BY <1>1, <1>4 DEF Survey!TypeOK, Survey!Absent
<1>6. /\ svInventory' \in [Radios -> Survey!Absent..MaxSites]
      /\ \A r \in Radios : svInventory'[r] \in {svInventory[r], svJob[t].site}
  <2>1. CASE svInventory' = svInventory  BY <2>1 DEF Survey!TypeOK
  <2>2. CASE svInventory' = Survey!Refile(svInventory, svJob[t].heard, svJob[t].site)
    <3>1. /\ svInventory' \in [Radios -> Int]
          /\ \A r \in Radios : svInventory'[r] \in {svInventory[r], svJob[t].site}
      BY <1>5, <2>2, RefileNames
    <3>2. \A r \in Radios : svInventory[r] \in Survey!Absent..MaxSites  BY DEF Survey!TypeOK
    <3>3. svJob[t].site \in Survey!Absent..MaxSites  BY <1>1, <1>4 DEF Survey!Absent
    <3> QED  BY <3>1, <3>2, <3>3
  <2> QED
    BY <2>1, <2>2
       DEF Survey!FileSnapshot, Survey!FileInventory, Survey!FileDevices, Survey!rowVars
<1>7. /\ svDevices' \in [Hosts -> Survey!Absent..MaxSites]
      /\ \A h \in Hosts : svDevices'[h] \in {svDevices[h], svJob[t].site}
  <2>1. CASE svDevices' = svDevices  BY <2>1 DEF Survey!TypeOK
  <2>2. CASE svDevices' = Survey!Refile(svDevices, svJob[t].heard, svJob[t].site)
    <3>1. /\ svDevices' \in [Hosts -> Int]
          /\ \A h \in Hosts : svDevices'[h] \in {svDevices[h], svJob[t].site}
      BY <1>5, <2>2, RefileNames
    <3>2. \A h \in Hosts : svDevices[h] \in Survey!Absent..MaxSites  BY DEF Survey!TypeOK
    <3>3. svJob[t].site \in Survey!Absent..MaxSites  BY <1>1, <1>4 DEF Survey!Absent
    <3> QED  BY <3>1, <3>2, <3>3
  <2> QED
    BY <2>1, <2>2
       DEF Survey!FileSnapshot, Survey!FileInventory, Survey!FileDevices, Survey!rowVars
<1>8. \/ UNCHANGED <<svSnapshots, svSnapSeq>>
      \/ svSnapSeq < MaxPoints /\ svSnapSeq' = svSnapSeq + 1 /\ svSnapshots' = svSnapshots \cup {note}
  BY DEF Survey!FileSnapshot, Survey!FileInventory, Survey!FileDevices, Survey!snapVars
<1>9. svSnapSeq' \in 0..MaxPoints  BY <1>1, <1>4, <1>8
<1>10. svSnapshots' \subseteq [id : 1..MaxPoints, site : 0..MaxSites]
  <2>1. svSnapSeq < MaxPoints => note \in [id : 1..MaxPoints, site : 0..MaxSites]
    BY <1>1, <1>4
  <2> HIDE DEF note
  <2> QED  BY <1>8, <2>1 DEF Survey!TypeOK
<1>11. Survey!TypeOK'  BY <1>2, <1>3, <1>6, <1>7, <1>9, <1>10 DEF Survey!TypeOK
<1>12. RadiosHeard'  BY <1>3 DEF RadiosHeard
<1>13. SitesAreIssued'
  <2> SUFFICES ASSUME ~svAstray PROVE SitesAreIssued'  BY <1>2 DEF SitesAreIssued
  <2>1. svJob[t].site <= svSiteSeq  BY <1>2 DEF SitesAreIssued, Survey!Free
  <2>2. \A n \in svSnapshots' : n.site <= svSiteSeq'
    <3>1. note.site = svJob[t].site  OBVIOUS
    <3> HIDE DEF note
    <3> QED  BY <1>2, <1>8, <2>1, <3>1 DEF SitesAreIssued
  <2>3. \A r \in Radios : svInventory'[r] <= svSiteSeq'  BY <1>2, <1>6, <2>1 DEF SitesAreIssued
  <2>4. \A h \in Hosts : svDevices'[h] <= svSiteSeq'  BY <1>2, <1>7, <2>1 DEF SitesAreIssued
  <2> QED  BY <1>2, <1>3, <2>2, <2>3, <2>4 DEF SitesAreIssued, Survey!Free
<1> QED  BY <1>11, <1>12, <1>13

\* A thread that begins, looks and selects.
LEMMA ThreadKeeps ==
  ASSUME Survey!StoreConstantsOK, SurveyInv, NEW t \in Threads, Survey!ThreadNext(t)
  PROVE  SurveyInv'
<1> USE DEF SurveyInv
<1>1. /\ MaxSites \in Nat /\ MaxSites > 0 /\ svSiteSeq \in 0..MaxSites
      /\ svActive \in 0..MaxSites
  BY BoundsAreNumbers DEF Survey!TypeOK
<1>2. ASSUME NEW s \in Survey!Ids, Survey!DeleteSite(t, s) \/ Survey!ChooseSite(t, s)
      PROVE  SurveyInv'
  <2>1. /\ svSites' \subseteq svSites /\ svPoints' \subseteq svPoints
        /\ svReadings' \subseteq svReadings
        /\ UNCHANGED <<svSiteSeq, svPointSeq, svSnapshots, svSnapSeq, svInventory, svDevices,
                       svActive, svAstray>>
        /\ svJob' = [svJob EXCEPT ![t].site = s] /\ s \in svSites
        /\ (Survey!Goto(t, "look") \/ Survey!Goto(t, "choose"))
    BY <1>2
       DEF Survey!DeleteSite, Survey!ChooseSite, Survey!siteVars, Survey!pointVars,
           Survey!snapVars, Survey!rowVars
  <2>2. /\ svPc' \in [Threads -> {"idle", "file", "choose", "look", "clear"}]
        /\ \A u \in Threads : u # t => svPc'[u] = svPc[u]
        /\ svPc'[t] # "file"
    BY <2>1, GotoIsTyped
  <2>3. s \in 0..MaxSites  BY <1>1 DEF Survey!Ids
  <2>4. /\ svJob' \in [Threads -> [kind : Survey!Kinds \cup {"none"}, site : 0..MaxSites,
                            heard : SUBSET (Radios \cup Hosts)]]
        /\ svJob'[t].site = s
        /\ \A u \in Threads : u # t => svJob'[u] = svJob[u]
    BY <2>1, <2>3 DEF Survey!TypeOK
  <2>5. Survey!TypeOK'  BY <2>1, <2>2, <2>4 DEF Survey!TypeOK
  <2>6. RadiosHeard'  BY <2>2, <2>4 DEF RadiosHeard
  <2>7. SitesAreIssued'  BY <2>1, <2>2, <2>4 DEF SitesAreIssued, Survey!Free
  <2> QED  BY <2>5, <2>6, <2>7
<1>3. CASE Survey!LookIfActive(t) /\ svActive = svJob[t].site
  <2>1. /\ Survey!Goto(t, "clear") /\ svPc[t] = "look"
        /\ UNCHANGED <<svSites, svSiteSeq, svPoints, svReadings, svPointSeq, svSnapshots,
                       svSnapSeq, svInventory, svDevices, svActive, svAstray, svJob>>
    BY <1>3
       DEF Survey!LookIfActive, Survey!siteVars, Survey!pointVars, Survey!snapVars,
           Survey!rowVars
  <2>2. /\ svPc' \in [Threads -> {"idle", "file", "choose", "look", "clear"}]
        /\ \A u \in Threads : u # t => svPc'[u] = svPc[u]
        /\ svPc'[t] # "file"
    BY <2>1, GotoIsTyped
  <2>3. Survey!TypeOK'  BY <2>1, <2>2 DEF Survey!TypeOK
  <2>4. RadiosHeard'  BY <2>1, <2>2 DEF RadiosHeard
  <2>5. SitesAreIssued'  BY <2>1, <2>2 DEF SitesAreIssued, Survey!Free
  <2> QED  BY <2>3, <2>4, <2>5
<1>4. CASE \/ Survey!ClearActive(t) \/ Survey!Activate(t)
           \/ (Survey!LookIfActive(t) /\ svActive # svJob[t].site)
  <2>1. /\ Survey!Finish(t) /\ ~Survey!Free(t)
        /\ svActive' \in {svActive, Survey!NoSite, svJob[t].site}
        /\ UNCHANGED <<svSites, svSiteSeq, svPoints, svReadings, svPointSeq, svSnapshots,
                       svSnapSeq, svInventory, svDevices, svAstray>>
    BY <1>4
       DEF Survey!LookIfActive, Survey!ClearActive, Survey!Activate, Survey!Free,
           Survey!siteVars, Survey!pointVars, Survey!snapVars, Survey!rowVars
  <2>2. /\ svPc' \in [Threads -> {"idle", "file", "choose", "look", "clear"}]
        /\ svJob' \in [Threads -> [kind : Survey!Kinds \cup {"none"}, site : 0..MaxSites,
                           heard : SUBSET (Radios \cup Hosts)]]
        /\ \A u \in Threads : u # t => svPc'[u] = svPc[u] /\ svJob'[u] = svJob[u]
        /\ svPc'[t] = "idle"
    BY <2>1, FinishIsTyped
  <2>3. svActive' \in 0..MaxSites
    BY <1>1, <2>1, JobIsTyped DEF Survey!NoSite
  <2>4. Survey!TypeOK'  BY <2>1, <2>2, <2>3 DEF Survey!TypeOK
  <2>5. RadiosHeard'  BY <2>2 DEF RadiosHeard
  <2>6. SitesAreIssued'
    <3>1. ~svAstray => svActive' <= svSiteSeq'  BY <1>1, <2>1 DEF SitesAreIssued, Survey!NoSite
    <3> QED  BY <2>1, <2>2, <3>1 DEF SitesAreIssued, Survey!Free
  <2> QED  BY <2>4, <2>5, <2>6
<1>5. ASSUME NEW kind \in Survey!Kinds, NEW asked, NEW heard \in SUBSET (Radios \cup Hosts),
             kind = "point" => heard \subseteq Radios,
             Survey!StartFiling(t, kind, asked, heard)
      PROVE  SurveyInv'
  <2> DEFINE site == IF asked = Survey!NoSite THEN svActive ELSE asked
             work == [kind |-> kind, heard |-> heard, site |-> site]
  <2>1. /\ Survey!Goto(t, "file") /\ asked \in 0..svSiteSeq
        /\ svJob' = [svJob EXCEPT ![t] = work]
        /\ UNCHANGED <<svSites, svSiteSeq, svPoints, svReadings, svPointSeq, svSnapshots,
                       svSnapSeq, svInventory, svDevices, svActive, svAstray>>
    BY <1>5
       DEF Survey!StartFiling, Survey!siteVars, Survey!pointVars, Survey!snapVars,
           Survey!rowVars
  <2>2. /\ svPc' \in [Threads -> {"idle", "file", "choose", "look", "clear"}]
        /\ \A u \in Threads : u # t => svPc'[u] = svPc[u]
    BY <2>1, GotoIsTyped
  <2>3. site \in 0..MaxSites /\ (~svAstray => site <= svSiteSeq)
    BY <1>1, <2>1 DEF SitesAreIssued
  <2> HIDE DEF site
  <2>4. work \in [kind : Survey!Kinds \cup {"none"}, site : 0..MaxSites,
                  heard : SUBSET (Radios \cup Hosts)]
        /\ work.site = site /\ work.kind = kind /\ work.heard = heard
    BY <2>3
  <2> HIDE DEF work
  <2>5. /\ svJob' \in [Threads -> [kind : Survey!Kinds \cup {"none"}, site : 0..MaxSites,
                            heard : SUBSET (Radios \cup Hosts)]]
        /\ svJob'[t] = work
        /\ \A u \in Threads : u # t => svJob'[u] = svJob[u]
    BY <2>1, <2>4 DEF Survey!TypeOK
  <2>6. Survey!TypeOK'  BY <2>1, <2>2, <2>5 DEF Survey!TypeOK
  <2>7. RadiosHeard'  BY <1>5, <2>2, <2>4, <2>5 DEF RadiosHeard
  <2>8. SitesAreIssued'  BY <2>1, <2>2, <2>3, <2>4, <2>5 DEF SitesAreIssued, Survey!Free
  <2> QED  BY <2>6, <2>7, <2>8
<1>6. CASE \E kind \in {"point", "snapshot", "inventory"}, asked \in 0..MaxSites,
              heard \in SUBSET Radios : Survey!StartFiling(t, kind, asked, heard)
  BY <1>5, <1>6 DEF Survey!Kinds
<1>7. CASE \E heard \in SUBSET Hosts : Survey!StartFiling(t, "device", Survey!NoSite, heard)
  BY <1>5, <1>7 DEF Survey!Kinds
<1>8. CASE Survey!LookIfActive(t)  BY <1>3, <1>4, <1>8
<1> QED
  BY <1>2, <1>4, <1>6, <1>7, <1>8, FilePointKeeps, FileOthersKeep
     DEF Survey!ThreadNext, Survey!Files

\* Rows and selections only go.
LEMMA LessKeeps ==
  ASSUME Survey!StoreConstantsOK, SurveyInv,
         svSites' \subseteq svSites, svPoints' \subseteq svPoints, svReadings' \subseteq svReadings,
         svSnapshots' \subseteq svSnapshots,
         UNCHANGED <<svSiteSeq, svPointSeq, svSnapSeq, svPc, svJob, svAstray>>,
         svActive' \in {svActive, Survey!NoSite},
         svInventory' \in [Radios -> Int],
         \A r \in Radios : svInventory'[r] \in {svInventory[r], Survey!Absent},
         svDevices' \in [Hosts -> Int],
         \A h \in Hosts : svDevices'[h] \in {svDevices[h], Survey!Absent}
  PROVE  SurveyInv'
<1> USE DEF SurveyInv
<1>1. /\ MaxSites \in Nat /\ MaxSites > 0 /\ svSiteSeq \in 0..MaxSites
      /\ svActive \in 0..MaxSites
  BY BoundsAreNumbers DEF Survey!TypeOK
<1>2. /\ Survey!Absent \in Survey!Absent..MaxSites /\ Survey!NoSite \in 0..MaxSites
      /\ Survey!Absent <= svSiteSeq /\ Survey!NoSite <= svSiteSeq
  BY <1>1 DEF Survey!Absent, Survey!NoSite
<1>3. /\ svInventory' \in [Radios -> Survey!Absent..MaxSites]
      /\ svDevices' \in [Hosts -> Survey!Absent..MaxSites]
  BY <1>2 DEF Survey!TypeOK
<1>4. Survey!TypeOK'  BY <1>2, <1>3 DEF Survey!TypeOK
<1>5. RadiosHeard'  BY DEF RadiosHeard
<1>6. SitesAreIssued'  BY <1>2 DEF SitesAreIssued, Survey!Free
<1> QED  BY <1>4, <1>5, <1>6

\* Every step keeps the invariant.
LEMMA SurveyInvNext ==
  ASSUME Survey!StoreConstantsOK, SurveyInv, [Survey!Next]_(Survey!vars)
  PROVE  SurveyInv'
<1> USE DEF SurveyInv
<1>1. /\ MaxSites \in Nat /\ MaxSites > 0 /\ svSiteSeq \in 0..MaxSites
      /\ svActive \in 0..MaxSites
      /\ MaxPoints \in Nat
  BY BoundsAreNumbers DEF Survey!TypeOK
<1>2. /\ Survey!Absent \in Survey!Absent..MaxSites /\ Survey!NoSite \in 0..MaxSites
      /\ 0 \in 0..MaxSites /\ 0 \in 0..MaxPoints
  BY <1>1 DEF Survey!Absent, Survey!NoSite
<1>3. svInventory \in [Radios -> Int] /\ svDevices \in [Hosts -> Int]
  BY <1>1 DEF Survey!TypeOK, Survey!Absent
<1>4. CASE Survey!CreateSite
  <2>1. /\ svSiteSeq' = svSiteSeq + 1 /\ svSiteSeq < MaxSites
        /\ svSites' = svSites \cup {svSiteSeq + 1}
        /\ UNCHANGED <<svPoints, svReadings, svPointSeq, svSnapshots, svSnapSeq, svInventory,
                       svDevices, svActive, svPc, svJob, svAstray>>
    BY <1>4 DEF Survey!CreateSite, Survey!pointVars, Survey!snapVars, Survey!rowVars
  <2>2. svSiteSeq + 1 \in Survey!Ids /\ svSiteSeq + 1 \in 0..MaxSites
    BY <1>1, <2>1 DEF Survey!Ids
  <2>3. Survey!TypeOK'  BY <2>1, <2>2 DEF Survey!TypeOK
  <2>4. RadiosHeard'  BY <2>1 DEF RadiosHeard
  <2>5. \A n \in Int : n <= svSiteSeq => n <= svSiteSeq'  BY <1>1, <2>1
  <2>6. SitesAreIssued'
    <3> SUFFICES ASSUME ~svAstray PROVE SitesAreIssued'  BY <2>1 DEF SitesAreIssued
    <3>1. \A s \in svSites' : s <= svSiteSeq'
      BY <1>1, <2>1, <2>2, <2>5 DEF SitesAreIssued, Survey!TypeOK, Survey!Ids
    <3>2. \A p \in svPoints' : p.site <= svSiteSeq'
      BY <2>1, <2>5 DEF SitesAreIssued, Survey!TypeOK
    <3>3. \A n \in svSnapshots' : n.site <= svSiteSeq'
      BY <2>1, <2>5 DEF SitesAreIssued, Survey!TypeOK
    <3>4. /\ (\A r \in Radios : svInventory'[r] <= svSiteSeq')
          /\ (\A h \in Hosts : svDevices'[h] <= svSiteSeq')
      BY <1>3, <2>1, <2>5 DEF SitesAreIssued
    <3>5. svActive' <= svSiteSeq'  BY <1>1, <2>1, <2>5 DEF SitesAreIssued
    <3>6. \A t \in Threads : ~Survey!Free(t)' => svJob'[t].site <= svSiteSeq'
      <4> SUFFICES ASSUME NEW t \in Threads, ~Survey!Free(t) PROVE svJob'[t].site <= svSiteSeq'
        BY <2>1 DEF Survey!Free
      <4>1. svJob[t].site \in Int /\ svJob[t].site <= svSiteSeq
        BY <1>1, JobIsTyped DEF SitesAreIssued
      <4> QED  BY <2>1, <2>5, <4>1
    <3> QED  BY <3>1, <3>2, <3>3, <3>4, <3>5, <3>6 DEF SitesAreIssued
  <2> QED  BY <2>3, <2>4, <2>6
<1>5. CASE Survey!Wipe
  <2>1. /\ svSites' = {} /\ svSiteSeq' = 0 /\ svPoints' = {} /\ svReadings' = {}
        /\ svPointSeq' = 0
        /\ svSnapshots' = {} /\ svSnapSeq' = 0 /\ UNCHANGED <<svPc, svJob>>
        /\ svInventory' = [r \in Radios |-> Survey!Absent]
        /\ svDevices' = [h \in Hosts |-> Survey!Absent]
        /\ svActive' \in {svActive, Survey!NoSite}
        /\ svAstray' = (svAstray \/ svActive' # Survey!NoSite \/ \E t \in Threads : ~Survey!Free(t))
    BY <1>5 DEF Survey!Wipe
  <2>2. Survey!TypeOK'  BY <1>1, <1>2, <2>1 DEF Survey!TypeOK
  <2>3. RadiosHeard'  BY <2>1 DEF RadiosHeard
  <2>4. ~svAstray' => svActive' = Survey!NoSite /\ \A t \in Threads : Survey!Free(t)
    BY <2>1, Zenon
  <2>5. \A t \in Threads : Survey!Free(t)' <=> Survey!Free(t)  BY <2>1 DEF Survey!Free
  <2>6. SitesAreIssued'  BY <2>1, <2>4, <2>5 DEF SitesAreIssued, Survey!NoSite, Survey!Absent
  <2> QED  BY <2>2, <2>3, <2>6
<1>6. CASE Survey!Deselect
  BY <1>3, <1>6, LessKeeps
     DEF Survey!Deselect, Survey!siteVars, Survey!pointVars, Survey!snapVars, Survey!rowVars
<1>7. CASE Survey!ForgetDevices
  <2>1. PICK old \in SUBSET Hosts \ {{}} :
          svDevices' = [h \in Hosts |-> IF h \in old THEN Survey!Absent ELSE svDevices[h]]
    BY <1>7 DEF Survey!ForgetDevices
  <2>2. /\ svDevices' \in [Hosts -> Int]
        /\ \A h \in Hosts : svDevices'[h] \in {svDevices[h], Survey!Absent}
    BY <1>3, <2>1 DEF Survey!Absent
  <2> QED
    BY <1>3, <1>7, <2>2, LessKeeps
       DEF Survey!ForgetDevices, Survey!siteVars, Survey!pointVars, Survey!snapVars
<1>8. ASSUME NEW p \in svPoints, Survey!DeletePoint(p) PROVE SurveyInv'
  BY <1>3, <1>8, LessKeeps
     DEF Survey!DeletePoint, Survey!siteVars, Survey!snapVars, Survey!rowVars
<1>9. ASSUME NEW s \in svSnapshots, Survey!DeleteSnapshot(s) PROVE SurveyInv'
  BY <1>3, <1>9, LessKeeps
     DEF Survey!DeleteSnapshot, Survey!siteVars, Survey!pointVars, Survey!rowVars
<1>10. ASSUME NEW r \in Radios, Survey!DeleteInventory(r) PROVE SurveyInv'
  <2>1. /\ svInventory' \in [Radios -> Int]
        /\ \A q \in Radios : svInventory'[q] \in {svInventory[q], Survey!Absent}
    BY <1>3, <1>10 DEF Survey!DeleteInventory, Survey!Absent
  <2> QED
    BY <1>3, <1>10, <2>1, LessKeeps
       DEF Survey!DeleteInventory, Survey!siteVars, Survey!pointVars, Survey!snapVars
<1>11. CASE UNCHANGED Survey!vars
  BY <1>3, <1>11, LessKeeps
     DEF Survey!vars, Survey!siteVars, Survey!pointVars, Survey!snapVars, Survey!rowVars
<1> QED  BY <1>4, <1>5, <1>6, <1>7, <1>8, <1>9, <1>10, <1>11, ThreadKeeps DEF Survey!Next

\* An id that was just issued is named by nothing.
LEMMA NewSiteIsNew ==
  ASSUME Survey!StoreConstantsOK, SurveyInv, [Survey!Next]_(Survey!vars)
  PROVE  \A s \in svSites' \ svSites : ~svAstray => ~Survey!NamesSite(s) /\ svActive # s
<1> SUFFICES ASSUME NEW s \in svSites' \ svSites, ~svAstray
             PROVE  ~Survey!NamesSite(s) /\ svActive # s
  OBVIOUS
<1>1. svSiteSeq \in Nat  BY DEF SurveyInv, Survey!TypeOK
<1>2. s = svSiteSeq + 1
  <2>1. CASE Survey!CreateSite  BY <2>1 DEF Survey!CreateSite
  <2>2. ASSUME svSites' \subseteq svSites PROVE FALSE  BY <2>2
  <2>3. ASSUME NEW t \in Threads, Survey!ThreadNext(t) PROVE svSites' \subseteq svSites
    BY <2>3
       DEF Survey!ThreadNext, Survey!DeleteSite, Survey!ChooseSite, Survey!LookIfActive,
           Survey!ClearActive, Survey!Activate, Survey!StartFiling, Survey!Files,
           Survey!FilePoint, Survey!FileSnapshot, Survey!FileInventory, Survey!FileDevices,
           Survey!siteVars
  <2>4. CASE Survey!Deselect \/ Survey!ForgetDevices \/ Survey!Wipe
    BY <2>2, <2>4 DEF Survey!Deselect, Survey!ForgetDevices, Survey!Wipe, Survey!siteVars
  <2>5. CASE \/ \E p \in svPoints : Survey!DeletePoint(p)
             \/ \E n \in svSnapshots : Survey!DeleteSnapshot(n)
             \/ \E r \in Radios : Survey!DeleteInventory(r)
    BY <2>2, <2>5
       DEF Survey!DeletePoint, Survey!DeleteSnapshot, Survey!DeleteInventory, Survey!siteVars
  <2>6. CASE UNCHANGED Survey!vars  BY <2>2, <2>6 DEF Survey!vars, Survey!siteVars
  <2> QED  BY <2>1, <2>2, <2>3, <2>4, <2>5, <2>6 DEF Survey!Next
<1>3. ~(s <= svSiteSeq)  BY <1>1, <1>2
<1>4. ~Survey!NamesSite(s)  BY <1>3 DEF Survey!NamesSite, SurveyInv, SitesAreIssued
<1>5. svActive # s  BY <1>3 DEF SurveyInv, SitesAreIssued
<1> QED  BY <1>4, <1>5

\* add_survey_point and everything that deletes points, on its own or with the site,
\* keep a point and its readings together, however many clients work at once.
THEOREM PointsStayWhole == Spec => []PointsAreWhole
<1>1. Countable  BY PartsAreWellFormed, SurveyCounts DEF Countable, Survey!StoreConstantsOK
<1>2. Init => PointInv
  BY StoresStart
     DEF Survey!Init, PointInv, Numbered, HeardOf, StoredOK, Survey!PointsAreWhole,
         SurveyJobs, Survey!NoJob, Survey!NoSite
<1>3. PointInv /\ [Next]_vars => PointInv'  BY <1>1, StoresMove, PointInvNext
<1>4. PointInv => PointsAreWhole  BY DEF PointInv, PointsAreWhole
<1> QED  BY <1>2, <1>3, <1>4, PTL DEF Spec

\* Unless a site was deleted or the database wiped under somebody's feet, no row and no
\* selection names a site that is created later (create_survey_site and whatever files
\* under a site).
THEOREM NewSitesAreEmpty == Spec => NewSiteIsEmpty
<1>1. Init => SurveyInv  BY StoresStart, SurveyInvInit, PartsAreWellFormed
<1>2. SurveyInv /\ [Next]_vars => SurveyInv'  BY StoresMove, SurveyInvNext, PartsAreWellFormed
<1>3. SurveyInv /\ [Next]_vars =>
        [\A s \in svSites' \ svSites :
           ~svAstray => ~Survey!NamesSite(s) /\ svActive # s]_(Survey!vars)
  BY StoresMove, NewSiteIsNew, PartsAreWellFormed
<1> QED  BY <1>1, <1>2, <1>3, PTL DEF Spec, NewSiteIsEmpty, Survey!NewSiteIsEmpty

(***************************************************************************)
(* NetworkStore                                                            *)
(*                                                                         *)
(* A row is written before the observations it stands for.  The invariant  *)
(* says that the row already covers what a thread has promised to insert,  *)
(* as well as what is there.                                               *)
(***************************************************************************)

\* What is counted here is counted as the library counts.
LEMMA NetworkCounts ==
  ASSUME NEW S
  PROVE  /\ Network!Cardinality(S) = Cardinality(S)
         /\ Network!IsFiniteSet(S) <=> IsFiniteSet(S)
BY DEF Network!Cardinality, Network!IsFiniteSet, Cardinality, IsFiniteSet

\* The scan's row is still there.
HasRow(s) == \E c \in nwScans : c.id = nwScan[s]
\* What a scan has merged into the history and is about to insert.
Promised(s) == IF nwPc[s] = "upserted" /\ HasRow(s) THEN Network!Observations(s) ELSE {}
\* The readings of one network that its row in the history has to cover.
Due(r) ==
  {o \in nwObs \cup UNION {Promised(s) : s \in Threads} : o.radio = r}

\* A row covers readings: its levels enclose theirs, and it has counted them all.
Covers(row, due) ==
  /\ IsFiniteSet(due)
  /\ due # {} =>
       /\ row # Network!NoRow
       /\ \A o \in due : o.rssi \in row.min..row.max
       /\ Cardinality(due) <= row.seen

\* No scan has an id that is still to be issued.
IdsAreFresh ==
  /\ \A s \in Threads : nwScan[s] <= nwScanSeq
  /\ \A c \in nwScans : c.id <= nwScanSeq

\* A batch has one record of each network.
BatchesAreSingle ==
  /\ nwBatch \in [Threads -> SUBSET Network!Records]
  /\ \A s \in Threads : \A p, q \in nwBatch[s] : p.radio = q.radio => p = q

\* Together they are inductive; a wipe that crosses a scan breaks the last part.
NetworkInv ==
  /\ Network!TypeOK /\ BatchesAreSingle
  /\ \A s \in Threads : nwPc[s] = "idle" => nwScan[s] = 0
  /\ ~nwAstray => IdsAreFresh /\ \A r \in Heard : Covers(nwBss[r], Due(r))

\* What is due is on file, or promised.
LEMMA DueIs ==
  ASSUME NEW r, NEW o
  PROVE  o \in Due(r) <=>
           /\ o.radio = r
           /\ \/ o \in nwObs
              \/ \E s \in Threads : nwPc[s] = "upserted" /\ HasRow(s) /\ o \in Network!Observations(s)
BY DEF Due, Promised

\* The larger and the smaller of two numbers.
LEMMA MaxMin ==
  ASSUME NEW a \in Int, NEW b \in Int
  PROVE  /\ Network!Max({a, b}) \in {a, b} /\ Network!Max({a, b}) >= a
         /\ Network!Max({a, b}) >= b
         /\ Network!Min({a, b}) \in {a, b} /\ Network!Min({a, b}) <= a
         /\ Network!Min({a, b}) <= b
<1>1. \E m \in {a, b} : m >= a /\ m >= b
  <2>1. CASE a >= b BY <2>1
  <2>2. CASE b >= a BY <2>2
  <2> QED BY <2>1, <2>2
<1>2. \E m \in {a, b} : m <= a /\ m <= b
  <2>1. CASE a <= b BY <2>1
  <2>2. CASE b <= a BY <2>2
  <2> QED BY <2>1, <2>2
<1> QED BY <1>1, <1>2 DEF Network!Max, Network!Min

\* A row that covers readings covers fewer.
LEMMA CoversLess ==
  ASSUME NEW row, row = Network!NoRow \/ row \in Network!Rows, NEW due, NEW less \in SUBSET due,
         Covers(row, due)
  PROVE  Covers(row, less)
<1>1. IsFiniteSet(less) /\ Cardinality(less) <= Cardinality(due)
      /\ Cardinality(less) \in Nat /\ Cardinality(due) \in Nat
  BY FS_Subset, FS_CardinalityType DEF Covers
<1>2. CASE less = {}
  BY <1>1, <1>2 DEF Covers
<1>3. CASE less # {}
  <2>1. row \in Network!Rows /\ Cardinality(due) <= row.seen
    BY <1>3 DEF Covers
  <2>2. row.seen \in Nat
    BY <2>1 DEF Network!Rows
  <2>3. Cardinality(less) <= row.seen
    BY <1>1, <2>1, <2>2
  <2> QED BY <1>1, <1>3, <2>3 DEF Covers
<1> QED BY <1>2, <1>3

\* A record that is merged widens the levels and counts one more.
LEMMA MergedIs ==
  ASSUME Network!NetworkConstantsOK, NEW row, row = Network!NoRow \/ row \in Network!Rows,
         NEW rec \in Network!Records
  PROVE  /\ Network!Merged(row, rec) \in Network!Rows
         /\ Network!Merged(row, rec) # Network!NoRow
         /\ rec.rssi \in Network!Merged(row, rec).min..Network!Merged(row, rec).max
         /\ row = Network!NoRow => Network!Merged(row, rec).seen = 1
         /\ row # Network!NoRow =>
              /\ row.seen \in Nat /\ Network!Merged(row, rec).seen = row.seen + 1
              /\ row.min..row.max \subseteq Network!Merged(row, rec).min..Network!Merged(row, rec).max
<1>1. rec.rssi \in Levels /\ rec.band \in Bands /\ Levels \subseteq Int
  BY DEF Network!Records, Network!NetworkConstantsOK
<1>2. CASE row = Network!NoRow
  <2>1. Network!Merged(row, rec) = [seen |-> 1, max |-> rec.rssi, min |-> rec.rssi, band |-> rec.band]
    BY <1>2 DEF Network!Merged
  <2>2. Network!Merged(row, rec) \in Network!Rows /\ Network!Merged(row, rec) # Network!NoRow
    BY <1>1, <2>1 DEF Network!Rows, Network!NoRow
  <2>3. rec.rssi \in rec.rssi..rec.rssi
    <3>1. \A i \in Int : i \in i..i
      OBVIOUS
    <3>2. rec.rssi \in Int
      BY <1>1
    <3> QED BY <3>1, <3>2
  <2>4. /\ Network!Merged(row, rec).min = rec.rssi /\ Network!Merged(row, rec).max = rec.rssi
        /\ Network!Merged(row, rec).seen = 1
    BY <2>1
  <2> QED BY <1>2, <2>2, <2>3, <2>4
<1>3. CASE row # Network!NoRow
  <2>1. row.seen \in Nat /\ row.max \in Levels /\ row.min \in Levels
    BY <1>3 DEF Network!Rows
  <2> DEFINE hi == Network!Max({row.max, rec.rssi})
             lo == Network!Min({row.min, rec.rssi})
  <2>2. hi \in Levels /\ lo \in Levels /\ hi >= row.max /\ hi >= rec.rssi
        /\ lo <= row.min /\ lo <= rec.rssi
    <3>1. row.max \in Int /\ row.min \in Int /\ rec.rssi \in Int
      BY <1>1, <2>1
    <3>2. hi \in {row.max, rec.rssi} /\ hi >= row.max /\ hi >= rec.rssi
      BY <3>1, MaxMin
    <3>3. lo \in {row.min, rec.rssi} /\ lo <= row.min /\ lo <= rec.rssi
      BY <3>1, MaxMin
    <3> QED BY <3>2, <3>3, <2>1, <1>1
  <2>3. Network!Merged(row, rec) = [seen |-> row.seen + 1, band |-> rec.band, max |-> hi, min |-> lo]
    BY <1>3 DEF Network!Merged
  <2> HIDE DEF hi, lo
  <2>4. Network!Merged(row, rec) \in Network!Rows /\ Network!Merged(row, rec) # Network!NoRow
    <3>1. row.seen + 1 \in Nat /\ row.seen + 1 # 0
      BY <2>1
    <3> QED BY <1>1, <2>2, <2>3, <3>1 DEF Network!Rows, Network!NoRow
  <2>5. rec.rssi \in lo..hi /\ row.min..row.max \subseteq lo..hi
    <3>1. \A a, b, c, d \in Int : a <= b /\ c <= d => b..c \subseteq a..d
      OBVIOUS
    <3>2. \A a, b, c \in Int : a <= b /\ b <= c => b \in a..c
      OBVIOUS
    <3>3. /\ lo \in Int /\ hi \in Int /\ rec.rssi \in Int
          /\ row.min \in Int /\ row.max \in Int
      BY <1>1, <2>1, <2>2
    <3> QED BY <2>2, <3>1, <3>2, <3>3
  <2>6. /\ Network!Merged(row, rec).min = lo /\ Network!Merged(row, rec).max = hi
        /\ Network!Merged(row, rec).seen = row.seen + 1
    BY <2>3
  <2> QED BY <1>3, <2>1, <2>4, <2>5, <2>6
<1> QED BY <1>2, <1>3

\* So the merged row covers the reading as well.
LEMMA CoversMore ==
  ASSUME Network!NetworkConstantsOK, NEW row, row = Network!NoRow \/ row \in Network!Rows,
         NEW rec \in Network!Records,
         NEW due, NEW o, o.rssi = rec.rssi, NEW more \in SUBSET (due \cup {o}),
         Covers(row, due)
  PROVE  Covers(Network!Merged(row, rec), more)
<1> DEFINE all == due \cup {o}
           new == Network!Merged(row, rec)
<1>1. IsFiniteSet(all) /\ Cardinality(all) \in Nat /\ Cardinality(due) \in Nat
      /\ Cardinality(all) <= Cardinality(due) + 1
  <2>1. IsFiniteSet(due)
    BY DEF Covers
  <2>2. Cardinality(all) = IF o \in due THEN Cardinality(due) ELSE Cardinality(due) + 1
    BY <2>1, FS_AddElement
  <2>3. IsFiniteSet(all)
    BY <2>1, FS_AddElement
  <2>4. Cardinality(all) \in Nat /\ Cardinality(due) \in Nat
    BY <2>1, <2>3, FS_CardinalityType
  <2> QED BY <2>2, <2>3, <2>4
<1>2. new \in Network!Rows /\ new # Network!NoRow
  BY MergedIs
<1>3. \A e \in all : e.rssi \in new.min..new.max
  BY MergedIs DEF Covers
<1>4. Cardinality(all) <= new.seen
  <2>1. CASE row = Network!NoRow
    <3>1. due = {} /\ Cardinality(due) = 0
      BY <2>1, FS_EmptySet DEF Covers
    <3> QED BY <1>1, <2>1, <3>1, MergedIs
  <2>2. CASE row # Network!NoRow
    <3>1. row.seen \in Nat /\ new.seen = row.seen + 1
      BY <2>2, MergedIs
    <3>2. Cardinality(due) <= row.seen
      BY <3>1, FS_EmptySet DEF Covers
    <3> HIDE DEF new, all
    <3> QED BY <1>1, <3>1, <3>2
  <2> QED BY <2>1, <2>2
<1>5. Covers(new, all)
  BY <1>1, <1>2, <1>3, <1>4 DEF Covers
<1> HIDE DEF new
<1>6. more \in SUBSET all
  OBVIOUS
<1> HIDE DEF all
<1>7. Covers(new, more)
  BY <1>2, <1>5, <1>6, CoversLess
<1> QED BY <1>7 DEF new

\* Nothing has been heard.
LEMMA NetworkInvInit == ASSUME Network!NetworkConstantsOK, Network!Init PROVE NetworkInv
<1> USE DEF Network!Init, Network!NetworkConstantsOK
<1>1. Network!TypeOK
  <2>1. 0 \in 0..MaxTime /\ 0 \in 0..MaxScans
    OBVIOUS
  <2> QED BY <2>1 DEF Network!TypeOK
<1>2. BatchesAreSingle /\ IdsAreFresh
  BY DEF BatchesAreSingle, IdsAreFresh
<1>3. \A r \in Heard : Due(r) = {}
  BY DueIs
<1> QED BY <1>1, <1>2, <1>3, FS_EmptySet DEF NetworkInv, Covers

\* What is promised includes what the property is about.
LEMMA InvCovers == NetworkInv => Network!HistoryIsCovered
<1> SUFFICES ASSUME NetworkInv, ~nwAstray, NEW r \in Heard
             PROVE  LET of == {o \in nwObs : o.radio = r} IN
                    of # {} =>
                      /\ nwBss[r] # Network!NoRow
                      /\ \A o \in of : o.rssi \in nwBss[r].min..nwBss[r].max
                      /\ Cardinality(of) <= nwBss[r].seen
  BY NetworkCounts DEF Network!HistoryIsCovered
<1> DEFINE of == {o \in nwObs : o.radio = r}
<1>1. of \in SUBSET Due(r)
  BY DueIs
<1>2. Covers(nwBss[r], Due(r)) /\ (nwBss[r] = Network!NoRow \/ nwBss[r] \in Network!Rows)
  BY DEF NetworkInv, Network!TypeOK
<1>3. Covers(nwBss[r], of)
  BY <1>1, <1>2, CoversLess
<1> QED BY <1>3 DEF Covers

\* What shrinks stays covered.
LEMMA ShrinksKeep ==
  ASSUME NetworkInv, ~nwAstray, NEW r \in Heard,
         nwBss'[r] = nwBss[r], nwObs' \subseteq nwObs,
         \A s \in Threads :
           nwPc'[s] = "upserted" /\ HasRow(s)' =>
               nwPc[s] = "upserted" /\ HasRow(s) /\ Network!Observations(s)' = Network!Observations(s)
  PROVE  Covers(nwBss[r], Due(r))'
<1>1. Due(r)' \in SUBSET Due(r)
  BY DEF Due, Promised
<1>2. Covers(nwBss[r], Due(r)) /\ (nwBss[r] = Network!NoRow \/ nwBss[r] \in Network!Rows)
  BY DEF NetworkInv, Network!TypeOK
<1>3. Covers(nwBss[r], Due(r)')
  BY <1>1, <1>2, CoversLess
<1> QED BY <1>3 DEF Covers

\* With no readings and no scans, nothing is due.
LEMMA EmptiesKeep ==
  ASSUME nwObs' = {}, nwScans' = {}, NEW r
  PROVE  Covers(nwBss[r], Due(r))'
<1>1. Due(r)' = {}
  BY DEF Due, Promised, HasRow
<1> QED BY <1>1, FS_EmptySet DEF Covers

\* upsert_bss, before the readings are inserted: the row covers them already.
LEMMA UpsertCovers ==
  ASSUME Network!NetworkConstantsOK, NetworkInv, ~nwAstray, NEW s \in Threads,
         Network!UpsertBss(s),
         NEW r \in Heard
  PROVE  Covers(nwBss[r], Due(r))'
<1> DEFINE mine == {rec \in nwBatch[s] : rec.radio = r}
<1>1. Covers(nwBss[r], Due(r)) /\ (nwBss[r] = Network!NoRow \/ nwBss[r] \in Network!Rows)
  BY DEF NetworkInv, Network!TypeOK
<1>2. Due(r)' \subseteq Due(r) \cup {o \in Network!Observations(s) : o.radio = r}
  <2> SUFFICES ASSUME NEW o \in Due(r)', o \notin Due(r)
               PROVE  o \in Network!Observations(s) /\ o.radio = r
    OBVIOUS
  <2>1. o.radio = r /\ o \notin nwObs'
    BY DEF Due, Network!UpsertBss
  <2>2. PICK q \in Threads : /\ nwPc'[q] = "upserted" /\ HasRow(q)'
                             /\ o \in Network!Observations(q)'
    BY <2>1 DEF Due, Promised
  <2>3. HasRow(q) /\ Network!Observations(q)' = Network!Observations(q)
    BY <2>2 DEF Network!UpsertBss, HasRow, Network!Observations
  <2>4. CASE q = s
    BY <2>1, <2>2, <2>3, <2>4
  <2>5. CASE q # s
    <3>1. nwPc[q] = "upserted"
      BY <2>2, <2>5 DEF Network!UpsertBss, Network!Goto, NetworkInv, Network!TypeOK
    <3> QED BY <2>1, <2>2, <2>3, <3>1, DueIs
  <2> QED BY <2>4, <2>5
<1>3. CASE mine = {}
  <2>1. nwBss'[r] = nwBss[r]
    BY <1>3 DEF Network!UpsertBss
  <2>2. Due(r)' \in SUBSET Due(r)
    BY <1>2, <1>3 DEF Network!Observations
  <2>3. Covers(nwBss[r], Due(r)')
    BY <1>1, <2>2, CoversLess
  <2> QED BY <2>1, <2>3 DEF Covers
<1>4. CASE mine # {}
  <2>1. PICK rec \in nwBatch[s] : rec.radio = r /\ \A q \in nwBatch[s] : q.radio = r => q = rec
    BY <1>4 DEF NetworkInv, BatchesAreSingle
  <2>2. rec \in Network!Records
    BY DEF NetworkInv, BatchesAreSingle
  <2>3. (CHOOSE q \in nwBatch[s] : q.radio = r) = rec
    BY <2>1
  <2>4. nwBss'[r] = Network!Merged(nwBss[r], rec)
    BY <2>1, <2>3 DEF Network!UpsertBss
  <2> DEFINE o == [scan |-> nwScan[s], radio |-> rec.radio, rssi |-> rec.rssi, ts |-> nwTs[s]]
  <2>5. Due(r)' \in SUBSET (Due(r) \cup {o})
    BY <1>2, <2>1 DEF Network!Observations
  <2>6. o.rssi = rec.rssi
    OBVIOUS
  <2> HIDE DEF o
  <2>7. Covers(Network!Merged(nwBss[r], rec), Due(r)')
    BY <1>1, <2>2, <2>5, <2>6, CoversMore
  <2> QED BY <2>4, <2>7 DEF Covers
<1> QED BY <1>3, <1>4

\* insert_observations, or nothing where the scan's row has gone.
LEMMA InsertCovers ==
  ASSUME NetworkInv, ~nwAstray, NEW s \in Threads, Network!InsertObservations(s),
         NEW r \in Heard
  PROVE  Covers(nwBss[r], Due(r))'
<1>1. Covers(nwBss[r], Due(r)) /\ (nwBss[r] = Network!NoRow \/ nwBss[r] \in Network!Rows)
  BY DEF NetworkInv, Network!TypeOK
<1>2. nwBatch[s] # {} => nwPc[s] = "upserted" /\ HasRow(s)
  BY DEF Network!InsertObservations, HasRow
<1>3. \A o \in Network!Observations(s) : o.radio = r => o \in Due(r)
  BY <1>2, DueIs DEF Network!Observations
<1>4. Due(r)' \subseteq Due(r)
  <2> SUFFICES ASSUME NEW o \in Due(r)' PROVE o \in Due(r)
    OBVIOUS
  <2>1. o.radio = r /\ (o \in nwObs' \/ \E q \in Threads :
          nwPc'[q] = "upserted" /\ HasRow(q)' /\ o \in Network!Observations(q)')
    BY DEF Due, Promised
  <2>2. CASE o \in nwObs'
    BY <1>3, <2>1, <2>2, DueIs DEF Network!InsertObservations
  <2>3. ASSUME NEW q \in Threads, nwPc'[q] = "upserted", HasRow(q)',
               o \in Network!Observations(q)'
        PROVE  o \in Due(r)
    <3>1. HasRow(q) /\ Network!Observations(q)' = Network!Observations(q)
      BY <2>3 DEF Network!InsertObservations, HasRow, Network!Observations
    <3>2. nwPc[q] = "upserted"
      BY <2>3 DEF Network!InsertObservations, Network!Goto, NetworkInv, Network!TypeOK
    <3> QED BY <2>1, <2>3, <3>1, <3>2, DueIs
  <2> QED BY <2>1, <2>2, <2>3
<1>5. Covers(nwBss[r], Due(r)')
  BY <1>1, <1>4, CoversLess
<1> QED BY <1>5 DEF Covers, Network!InsertObservations

\* A scan that starts has a new id, and takes nothing that is due away.
LEMMA StartKeepsDue ==
  ASSUME NetworkInv, ~nwAstray, NEW s \in Threads, NEW a \in Adapters, Network!StartScan(s, a)
  PROVE  \A q \in Threads :
           nwPc'[q] = "upserted" /\ HasRow(q)' =>
               nwPc[q] = "upserted" /\ HasRow(q) /\ Network!Observations(q)' = Network!Observations(q)
<1> SUFFICES ASSUME NEW q \in Threads, nwPc'[q] = "upserted", HasRow(q)'
             PROVE  /\ nwPc[q] = "upserted" /\ HasRow(q)
                    /\ Network!Observations(q)' = Network!Observations(q)
  OBVIOUS
<1> USE DEF Network!StartScan, Network!Goto, NetworkInv, Network!TypeOK
<1>1. q # s /\ nwPc[q] = "upserted" /\ nwScan'[q] = nwScan[q]
  OBVIOUS
<1>2. HasRow(q)
  <2>1. PICK c \in nwScans' : c.id = nwScan[q]
    BY <1>1 DEF HasRow
  <2>2. nwScan[q] <= nwScanSeq /\ nwScan[q] \in Int /\ nwScanSeq \in Int
    BY DEF IdsAreFresh
  <2>3. c \in nwScans
    <3>1. c = [id |-> nwScanSeq + 1, adapter |-> a, at |-> nwNow] => c.id = nwScanSeq + 1
      OBVIOUS
    <3> QED BY <2>1, <2>2, <3>1
  <2> QED BY <2>1, <2>3 DEF HasRow
<1> QED BY <1>1, <1>2 DEF Network!Observations

\* Ids are issued in order, and history is never repaired once it went astray.
LEMMA IdsStay ==
  ASSUME Network!NetworkConstantsOK, NetworkInv, [Network!Next]_(Network!vars), ~nwAstray'
  PROVE  ~nwAstray /\ IdsAreFresh'
<1> USE DEF NetworkInv, Network!TypeOK, IdsAreFresh, Network!Goto
<1>1. ~nwAstray
  <2>1. CASE Network!Wipe
    BY <2>1, Zenon DEF Network!Wipe
  <2>2. CASE ~Network!Wipe
    BY <2>2
       DEF Network!Next, Network!ScanSteps, Network!StartScan, Network!ReadResults,
           Network!UpsertBss, Network!InsertObservations, Network!FailScan, Network!FinishScan,
           Network!Prune, Network!ClearNetworks, Network!Crash, Network!Tick, Network!vars,
           Network!tables, Network!steps
  <2> QED BY <2>1, <2>2
<1>2. ASSUME NEW s \in Threads, NEW a \in Adapters, Network!StartScan(s, a) PROVE IdsAreFresh'
  <2>1. nwScanSeq \in Int /\ nwScanSeq' = nwScanSeq + 1 /\ \A q \in Threads : nwScan[q] \in Int
    BY <1>2 DEF Network!StartScan
  <2>2. \A q \in Threads : nwScan'[q] = nwScan[q] \/ nwScan'[q] = nwScanSeq'
    BY <1>2 DEF Network!StartScan
  <2>3. \A c \in nwScans' : c.id \in Int /\ (c \in nwScans \/ c.id = nwScanSeq')
    BY <1>2 DEF Network!StartScan
  <2> QED BY <1>1, <2>1, <2>2, <2>3
<1>3. ASSUME NEW s \in Threads, Network!FailScan(s) \/ Network!FinishScan(s) PROVE IdsAreFresh'
  <2>1. /\ UNCHANGED <<nwScans, nwScanSeq>> /\ 0 <= nwScanSeq
        /\ \A q \in Threads : nwScan'[q] = nwScan[q] \/ nwScan'[q] = 0
    BY <1>3 DEF Network!FailScan, Network!FinishScan, Network!Rest, Network!tables
  <2> QED BY <1>1, <2>1
<1>4. CASE Network!Wipe
  <2>1. \A q \in Threads : nwScan[q] = 0
    <3>1. \A q \in Threads : nwPc[q] = "idle"
      BY <1>4, Zenon DEF Network!Wipe
    <3> QED BY <3>1
  <2> QED BY <1>4, <2>1 DEF Network!Wipe, Network!steps
<1>5. CASE Network!Crash
  <2>1. UNCHANGED <<nwScans, nwScanSeq>> /\ 0 <= nwScanSeq /\ nwScan' = [s \in Threads |-> 0]
    BY <1>5 DEF Network!Crash, Network!tables
  <2> QED BY <1>1, <2>1
<1>6. ASSUME UNCHANGED nwScan, UNCHANGED nwScanSeq, nwScans' \subseteq nwScans
      PROVE  IdsAreFresh'
  BY <1>1, <1>6
<1> QED
  BY <1>1, <1>2, <1>3, <1>4, <1>5, <1>6
     DEF Network!Next, Network!ScanSteps, Network!ReadResults, Network!UpsertBss,
         Network!InsertObservations, Network!Prune, Network!ClearNetworks, Network!Tick,
         Network!vars, Network!tables, Network!steps

\* What is due stays covered, whatever step is taken.
LEMMA CoverStays ==
  ASSUME Network!NetworkConstantsOK, NetworkInv, [Network!Next]_(Network!vars), ~nwAstray,
         NEW r \in Heard
  PROVE  Covers(nwBss[r], Due(r))'
<1> USE DEF NetworkInv, Network!TypeOK, Network!Goto
<1>1. ASSUME NEW s \in Threads, Network!ScanSteps(s) PROVE Covers(nwBss[r], Due(r))'
  <2>1. ASSUME NEW a \in Adapters, Network!StartScan(s, a) PROVE Covers(nwBss[r], Due(r))'
    BY <2>1, StartKeepsDue, ShrinksKeep DEF Network!StartScan
  <2>2. ASSUME NEW records \in SUBSET Network!Records, Network!ReadResults(s, records)
        PROVE  Covers(nwBss[r], Due(r))'
    <3>1. \A q \in Threads : nwPc'[q] = "upserted" /\ HasRow(q)' =>
             nwPc[q] = "upserted" /\ HasRow(q) /\ Network!Observations(q)' = Network!Observations(q)
      BY <2>2
         DEF Network!ReadResults, HasRow, Network!Observations, Network!tables, BatchesAreSingle
    <3> QED BY <2>2, <3>1, ShrinksKeep DEF Network!ReadResults, Network!tables
  <2>3. CASE Network!FailScan(s) \/ Network!FinishScan(s)
    <3>1. \A q \in Threads : nwPc'[q] = "upserted" /\ HasRow(q)' =>
             nwPc[q] = "upserted" /\ HasRow(q) /\ Network!Observations(q)' = Network!Observations(q)
      BY <2>3
         DEF Network!FailScan, Network!FinishScan, Network!Rest, HasRow, Network!Observations,
             Network!tables, BatchesAreSingle
    <3> QED BY <2>3, <3>1, ShrinksKeep DEF Network!FailScan, Network!FinishScan, Network!tables
  <2> QED
    BY <1>1, <2>1, <2>2, <2>3, UpsertCovers, InsertCovers DEF Network!ScanSteps
<1>2. ASSUME NEW days \in 1..MaxTime, Network!Prune(days) PROVE Covers(nwBss[r], Due(r))'
  <2>1. \A q \in Threads : nwPc'[q] = "upserted" /\ HasRow(q)' =>
             nwPc[q] = "upserted" /\ HasRow(q) /\ Network!Observations(q)' = Network!Observations(q)
    BY <1>2 DEF Network!Prune, HasRow, Network!Observations, Network!steps
  <2> QED BY <1>2, <2>1, ShrinksKeep DEF Network!Prune
<1>3. CASE Network!ClearNetworks \/ Network!Wipe
  BY <1>3, EmptiesKeep DEF Network!ClearNetworks, Network!Wipe
<1>4. CASE Network!Crash
  <2>1. \A q \in Threads : nwPc'[q] # "upserted"
    BY <1>4 DEF Network!Crash
  <2> QED BY <1>4, <2>1, ShrinksKeep DEF Network!Crash, Network!tables
<1>5. CASE Network!Tick \/ UNCHANGED Network!vars
  <2>1. \A q \in Threads : HasRow(q)' = HasRow(q) /\ Network!Observations(q)' = Network!Observations(q)
    BY <1>5
       DEF Network!Tick, HasRow, Network!Observations, Network!tables, Network!steps,
           Network!vars
  <2> QED
    BY <1>5, <2>1, ShrinksKeep DEF Network!Tick, Network!tables, Network!steps, Network!vars
<1> QED BY <1>1, <1>2, <1>3, <1>4, <1>5 DEF Network!Next

\* Every step keeps the types and the batches.
LEMMA NetworkTypes ==
  ASSUME Network!NetworkConstantsOK, NetworkInv, [Network!Next]_(Network!vars)
  PROVE  /\ Network!TypeOK' /\ BatchesAreSingle'
         /\ \A s \in Threads : nwPc'[s] = "idle" => nwScan'[s] = 0
<1> USE DEF NetworkInv, BatchesAreSingle, Network!Goto
<1>1. ASSUME NEW s \in Threads, NEW a \in Adapters, Network!StartScan(s, a)
      PROVE  /\ Network!TypeOK' /\ BatchesAreSingle'
             /\ \A q \in Threads : nwPc'[q] = "idle" => nwScan'[q] = 0
  <2>1. nwScanSeq' \in 1..MaxScans
    BY <1>1 DEF Network!StartScan, Network!TypeOK, Network!NetworkConstantsOK
  <2>2. nwScans' \subseteq [id : 1..MaxScans, adapter : Adapters, at : 0..MaxTime]
    BY <1>1, <2>1 DEF Network!StartScan, Network!TypeOK
  <2>3. nwScan' \in [Threads -> 0..MaxScans] /\ nwScanSeq' \in 0..MaxScans
    BY <1>1, <2>1 DEF Network!StartScan, Network!TypeOK
  <2>4. /\ nwPc' = [nwPc EXCEPT ![s] = "started"]
        /\ UNCHANGED <<nwNow, nwBss, nwObs, nwTs, nwBatch, nwHeard, nwAstray>>
    BY <1>1 DEF Network!StartScan
  <2>5. \A q \in Threads : nwPc'[q] = "idle" => q # s /\ nwScan'[q] = nwScan[q]
    BY <1>1 DEF Network!StartScan, Network!TypeOK
  <2> QED BY <2>2, <2>3, <2>4, <2>5 DEF Network!TypeOK
<1>2. ASSUME NEW s \in Threads, NEW records \in SUBSET Network!Records,
             Network!ReadResults(s, records)
      PROVE  /\ Network!TypeOK' /\ BatchesAreSingle'
             /\ \A q \in Threads : nwPc'[q] = "idle" => nwScan'[q] = 0
  <2>1. nwHeard' \subseteq [adapter : Adapters, band : Bands]
    BY <1>2 DEF Network!ReadResults, Network!TypeOK, Network!Records
  <2>2. nwBatch' = [nwBatch EXCEPT ![s] = records] /\ nwTs' = [nwTs EXCEPT ![s] = nwNow]
        /\ \A r, q \in records : r.radio = q.radio => r = q
    BY <1>2 DEF Network!ReadResults
  <2>3. BatchesAreSingle'
    BY <2>2
  <2>4. /\ nwPc' = [nwPc EXCEPT ![s] = "read"]
        /\ UNCHANGED <<nwNow, Network!tables, nwScan, nwAstray>>
    BY <1>2 DEF Network!ReadResults
  <2> QED BY <2>1, <2>2, <2>3, <2>4 DEF Network!TypeOK, Network!tables
<1>3. ASSUME NEW s \in Threads, Network!UpsertBss(s)
      PROVE  /\ Network!TypeOK' /\ BatchesAreSingle'
             /\ \A q \in Threads : nwPc'[q] = "idle" => nwScan'[q] = 0
  <2>1. \A r \in Heard : nwBss'[r] = Network!NoRow \/ nwBss'[r] \in Network!Rows
    <3> SUFFICES ASSUME NEW r \in Heard
                 PROVE  nwBss'[r] = Network!NoRow \/ nwBss'[r] \in Network!Rows
      OBVIOUS
    <3>1. CASE \E rec \in nwBatch[s] : rec.radio = r
      <4> DEFINE rec == CHOOSE q \in nwBatch[s] : q.radio = r
      <4>1. rec \in Network!Records
        BY <3>1
      <4>2. nwBss'[r] = Network!Merged(nwBss[r], rec)
        BY <1>3, <3>1 DEF Network!UpsertBss
      <4> HIDE DEF rec
      <4> QED BY <4>1, <4>2, MergedIs DEF Network!TypeOK
    <3>2. CASE ~\E rec \in nwBatch[s] : rec.radio = r
      BY <1>3, <3>2 DEF Network!UpsertBss, Network!TypeOK
    <3> QED BY <3>1, <3>2
  <2>2. nwPc' = [nwPc EXCEPT ![s] = "upserted"]
        /\ UNCHANGED <<nwNow, nwScans, nwScanSeq, nwObs, nwScan, nwTs, nwBatch, nwHeard,
                       nwAstray>>
    BY <1>3 DEF Network!UpsertBss
  <2> QED BY <2>1, <2>2 DEF Network!TypeOK
<1>4. ASSUME NEW s \in Threads, Network!InsertObservations(s)
      PROVE  /\ Network!TypeOK' /\ BatchesAreSingle'
             /\ \A q \in Threads : nwPc'[q] = "idle" => nwScan'[q] = 0
  <2>1. nwBatch[s] # {} => nwScan[s] \in 1..MaxScans
    BY <1>4 DEF Network!InsertObservations, Network!TypeOK
  <2>2. nwObs' \subseteq [scan : 1..MaxScans, radio : Heard, rssi : Levels, ts : 0..MaxTime]
    BY <1>4, <2>1
       DEF Network!InsertObservations, Network!Observations, Network!TypeOK, Network!Records
  <2>3. nwPc' = [nwPc EXCEPT ![s] = "stored"]
        /\ UNCHANGED <<nwNow, nwScans, nwScanSeq, nwBss, nwScan, nwTs, nwBatch, nwHeard,
                       nwAstray>>
    BY <1>4 DEF Network!InsertObservations
  <2> QED BY <2>2, <2>3 DEF Network!TypeOK
<1>5. ASSUME NEW s \in Threads, Network!FailScan(s) \/ Network!FinishScan(s)
      PROVE  /\ Network!TypeOK' /\ BatchesAreSingle'
             /\ \A q \in Threads : nwPc'[q] = "idle" => nwScan'[q] = 0
  <2>1. Network!Rest(s) /\ UNCHANGED <<nwNow, Network!tables, nwHeard, nwAstray>>
    BY <1>5 DEF Network!FailScan, Network!FinishScan
  <2>2. 0 \in 0..MaxScans /\ 0 \in 0..MaxTime
    BY DEF Network!NetworkConstantsOK
  <2> QED BY <2>1, <2>2 DEF Network!Rest, Network!TypeOK, Network!tables
<1>6. ASSUME NEW days \in 1..MaxTime, Network!Prune(days)
      PROVE  /\ Network!TypeOK' /\ BatchesAreSingle'
             /\ \A q \in Threads : nwPc'[q] = "idle" => nwScan'[q] = 0
  BY <1>6 DEF Network!Prune, Network!TypeOK, Network!steps
<1>7. CASE Network!ClearNetworks
  BY <1>7 DEF Network!ClearNetworks, Network!TypeOK, Network!steps
<1>8. CASE Network!Wipe
  <2>1. nwAstray' \in BOOLEAN
    BY <1>8, Zenon DEF Network!Wipe, Network!TypeOK
  <2>2. 0 \in 0..MaxScans
    BY DEF Network!NetworkConstantsOK
  <2> QED BY <1>8, <2>1, <2>2 DEF Network!Wipe, Network!TypeOK, Network!steps
<1>9. CASE Network!Crash
  <2>1. 0 \in 0..MaxScans /\ 0 \in 0..MaxTime
    BY DEF Network!NetworkConstantsOK
  <2> QED BY <1>9, <2>1 DEF Network!Crash, Network!TypeOK, Network!tables
<1>10. CASE Network!Tick
  BY <1>10
     DEF Network!Tick, Network!TypeOK, Network!tables, Network!steps, Network!NetworkConstantsOK
<1>11. CASE UNCHANGED Network!vars
  BY <1>11 DEF Network!vars, Network!TypeOK, Network!tables, Network!steps
<1> QED
  BY <1>1, <1>2, <1>3, <1>4, <1>5, <1>6, <1>7, <1>8, <1>9, <1>10, <1>11
     DEF Network!Next, Network!ScanSteps

\* Every step keeps the invariant.
LEMMA NetworkInvNext ==
  ASSUME Network!NetworkConstantsOK, NetworkInv, [Network!Next]_(Network!vars) PROVE NetworkInv'
BY NetworkTypes, IdsStay, CoverStays DEF NetworkInv

\* What the history shows of a radio is covered by the radio's row: how often it was seen,
\* and how weak and how strong (record_scan, upsert_network, insert_observations), unless a
\* scan was deleted while it was being written.
THEOREM HistoryStaysCovered == Spec => []HistoryIsCovered
<1>1. Init => NetworkInv  BY StoresStart, NetworkInvInit, PartsAreWellFormed
<1>2. NetworkInv /\ [Next]_vars => NetworkInv'
  BY StoresMove, NetworkInvNext, PartsAreWellFormed
<1>3. NetworkInv => HistoryIsCovered  BY InvCovers DEF HistoryIsCovered
<1> QED  BY <1>1, <1>2, <1>3, PTL DEF Spec

(***************************************************************************)
(* SchemaUpgrade                                                           *)
(*                                                                         *)
(* A build that opens the database adds every column it wants before it    *)
(* raises the version, and an older build never lowers it.                 *)
(***************************************************************************)

\* The table has every column that a version wants.
SchemaIsWhole(v) == Schema!Wanted(v) \subseteq scColumns

\* Who created the table gave it all of its build's columns, a stamp is set after that, and
\* a start that adds columns has only those that it still lacks left to add.
SchemaInv ==
  /\ Schema!TypeOK
  /\ scCreator # 0 => SchemaIsWhole(scCreator)
  /\ scStamp # 0 => scCreator # 0
  /\ \A p \in Procs : scPc[p] \notin {"down", "script"} => scCreator # 0
  /\ \A p \in Procs : scPc[p] = "add" => Schema!Wanted(scBuild[p]) \ scLack[p] \subseteq scColumns
  /\ Schema!UpgradeIsWhole

\* A later build wants no fewer columns.
LEMMA WantedGrows ==
  ASSUME Schema!SchemaConstantsOK, NEW v \in Schema!Versions, NEW w \in Schema!Versions, v <= w
  PROVE  Schema!Wanted(v) \subseteq Schema!Wanted(w)
BY DEF Schema!SchemaConstantsOK, Schema!Wanted, Schema!Versions

\* There is no database yet.
LEMMA SchemaInvInit == ASSUME Schema!SchemaConstantsOK, Schema!Init PROVE SchemaInv
<1> USE DEF Schema!Init
<1>1. 1 \in Schema!Versions /\ 0 \in 0..MaxStarts
  BY DEF Schema!SchemaConstantsOK, Schema!Versions
<1>2. Schema!TypeOK
  BY <1>1 DEF Schema!TypeOK
<1> QED BY <1>2 DEF SchemaInv, Schema!UpgradeIsWhole

\* Every step keeps it.
LEMMA SchemaInvNext ==
  ASSUME Schema!SchemaConstantsOK, SchemaInv, [Schema!Next]_(Schema!vars) PROVE SchemaInv'
<1> USE DEF SchemaInv, Schema!Proceed, SchemaIsWhole
<1> HIDE DEF Schema!Wanted
<1>1. CASE UNCHANGED Schema!vars
  BY <1>1 DEF Schema!vars, Schema!TypeOK, Schema!UpgradeIsWhole
<1>2. ASSUME NEW p \in Procs, NEW v \in Schema!Versions, Schema!Start(p, v) PROVE SchemaInv'
  BY <1>2 DEF Schema!Start, Schema!TypeOK, Schema!UpgradeIsWhole, Schema!SchemaConstantsOK
<1>3. ASSUME NEW p \in Procs, Schema!Script(p) PROVE SchemaInv'
  <2>1. /\ scBuild[p] \in Schema!Versions /\ Schema!Wanted(scBuild[p]) \subseteq Columns
        /\ 0 \notin Schema!Versions
    BY DEF Schema!TypeOK, Schema!Wanted, Schema!Versions
  <2>2. Schema!TypeOK' BY <1>3, <2>1 DEF Schema!Script, Schema!TypeOK
  <2>3. CASE scCreator = 0
    BY <1>3, <2>1, <2>2, <2>3 DEF Schema!Script, Schema!TypeOK, Schema!UpgradeIsWhole
  <2>4. CASE scCreator # 0
    BY <1>3, <2>1, <2>2, <2>4 DEF Schema!Script, Schema!TypeOK, Schema!UpgradeIsWhole
  <2> QED BY <2>3, <2>4
<1>4. ASSUME NEW p \in Procs, Schema!ReadVersion(p) PROVE SchemaInv'
  <2>1. PICK place \in {"first", "look", "up"} :
          /\ scPc' = [scPc EXCEPT ![p] = place]
          /\ place = "up" => scStamp # 0 /\ scStamp \notin 1..(scBuild[p] - 1)
    <3>1. CASE scStamp = 0
      BY <1>4, <3>1 DEF Schema!ReadVersion
    <3>2. CASE scStamp # 0 /\ scStamp \in 1..(scBuild[p] - 1)
      BY <1>4, <3>2 DEF Schema!ReadVersion
    <3>3. CASE scStamp # 0 /\ scStamp \notin 1..(scBuild[p] - 1)
      BY <1>4, <3>3 DEF Schema!ReadVersion
    <3> QED BY <3>1, <3>2, <3>3
  <2>2. place = "up" /\ ~scOrphan => Schema!Wanted(scBuild[p]) \subseteq scColumns
    BY <2>1, WantedGrows DEF Schema!TypeOK, Schema!UpgradeIsWhole, Schema!Versions
  <2> QED BY <1>4, <2>1, <2>2 DEF Schema!ReadVersion, Schema!TypeOK, Schema!UpgradeIsWhole
<1>5. ASSUME NEW p \in Procs, Schema!StampFirst(p) PROVE SchemaInv'
  <2>1. scCreator # 0 /\ scCreator \in Schema!Versions /\ scBuild[p] \in Schema!Versions
    BY <1>5 DEF Schema!StampFirst, Schema!TypeOK
  <2>2. ~scOrphan' => Schema!Wanted(scBuild[p]) \subseteq scColumns
    <3>1. ~scOrphan' => scBuild[p] <= scCreator
      <4>1. ~scOrphan' => ~(scBuild[p] > scCreator)
        BY <1>5, Zenon DEF Schema!StampFirst
      <4>2. scBuild[p] \in Int /\ scCreator \in Int
        BY <2>1 DEF Schema!Versions
      <4> QED BY <4>1, <4>2
    <3> QED BY <2>1, <3>1, WantedGrows
  <2>3. Schema!TypeOK'
    BY <1>5, <2>1 DEF Schema!StampFirst, Schema!TypeOK
  <2> QED BY <1>5, <2>1, <2>2, <2>3 DEF Schema!StampFirst, Schema!TypeOK, Schema!UpgradeIsWhole
<1>6. ASSUME NEW p \in Procs, Schema!Look(p) PROVE SchemaInv'
  <2>1. Schema!Wanted(scBuild[p]) \subseteq Columns
    BY DEF Schema!Wanted
  <2> QED BY <1>6, <2>1 DEF Schema!Look, Schema!TypeOK, Schema!UpgradeIsWhole
<1>7. ASSUME NEW p \in Procs, Schema!AddColumn(p) PROVE SchemaInv'
  BY <1>7 DEF Schema!AddColumn, Schema!TypeOK, Schema!UpgradeIsWhole
<1>8. ASSUME NEW p \in Procs, Schema!Stamp(p) PROVE SchemaInv'
  BY <1>8 DEF Schema!Stamp, Schema!TypeOK, Schema!UpgradeIsWhole
<1>9. ASSUME NEW p \in Procs, Schema!Die(p) PROVE SchemaInv'
  BY <1>9 DEF Schema!Die, Schema!TypeOK, Schema!UpgradeIsWhole
<1> QED
  BY <1>1, <1>2, <1>3, <1>4, <1>5, <1>6, <1>7, <1>8, <1>9 DEF Schema!Next
=============================================================================
