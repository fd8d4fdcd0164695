--------------------------- MODULE MachineProofs ----------------------------
(***************************************************************************)
(* Proofs about the parts of Workers that reach out of the process: the    *)
(* devices of the network, its connections, and the processes of one       *)
(* machine.  Last, what holds of all parts together.                       *)
(***************************************************************************)
EXTENDS WorkersProofs

(***************************************************************************)
(* LanDiscovery                                                            *)
(*                                                                         *)
(* A pool that was joined in time has nothing left, so what the caller     *)
(* reads afterwards is complete; a look-up that ends alone gives back the  *)
(* timeout it read.                                                        *)
(***************************************************************************)

\* What is counted here is counted as the library counts.
LEMMA LanCounts ==
  ASSUME NEW S
  PROVE  /\ Lan!Cardinality(S) = Cardinality(S)
         /\ Lan!IsFiniteSet(S) <=> IsFiniteSet(S)
BY DEF Lan!Cardinality, Lan!IsFiniteSet, Cardinality, IsFiniteSet

\* Nobody has asked yet; the answer is given.
NotAsked == ldPc = "idle" /\ ldAnswer = {}
LanAnswered == ldPc = "idle" /\ ldAnswer # {}

\* Only a thread that looks a name up has read the timeout, only one that has read it
\* has set it, and one that has ended does neither.
LookupsRead ==
  \A w \in Lookers :
    /\ w \in ldLookups.ended => ldLookups.at[w] = NoHost
    /\ ldLookups.at[w] = NoHost => ldOriginal[w] = "unread"
    /\ w \in ldShortened => ldOriginal[w] # "unread"

\* What the only look-up has read is what the process had.
TimeoutKept ==
  ~ldCrossed =>
    /\ (\A w \in Lookers : ldOriginal[w] = "unread") => ldTimeout = "none"
    /\ \A w \in Lookers : ldOriginal[w] # "unread" =>
         ldOriginal[w] = "none" /\ \A o \in Lookers : o # w => ldOriginal[o] = "unread"

\* A thread of the audit ends with nothing in hand, and because nothing is left.
ChecksEnd ==
  \A w \in Lookers : w \in ldChecks.ended => ldChecks.at[w] = NoHost /\ ldChecks.queue = {}

\* Nothing is begun before its time.
LanUnbegun ==
  /\ NotAsked => ldAsking = {} /\ DOMAIN ldResults = {}
  /\ NotAsked \/ ldPc \in {"gather", "merge"} => ldLookups = Lan!NoPool
  /\ NotAsked \/ ldPc \in {"gather", "merge", "names", "classify"} =>
       ldChecks = Lan!NoPool /\ ldAudited = {}
  /\ ldPc \in {"gather", "merge", "names", "classify", "checks"} => ldAnswer = {}

\* Every device is checked, or waits for it, or is being checked.
DevicesAccounted ==
  ldPc \in {"checks", "sort"} \/ LanAnswered =>
    ldDevices = ldAudited \cup ldChecks.queue \cup ({ldChecks.at[w] : w \in Lookers} \ {NoHost})

\* While no thread was too slow, what was waited for is over ...
SourcesOnTime ==
  ~ldLate =>
    /\ ldPc = "gather" =>
         /\ DOMAIN ldResults = Lan!Sources \ ldAsking
         /\ (ldJoined # 0 => "ssdp" \notin ldAsking) /\ (ldJoined = 2 => "mdns" \notin ldAsking)
         /\ ldJoined \in 0..2
    /\ ldPc = "merge" =>
         /\ ldAsking = {} /\ DOMAIN ldResults = Lan!Sources /\ ldMerging.sources = Lan!Sources
         /\ \A s \in Lan!Sources \ ldMerging.left : ldResults[s] \subseteq ldDevices
    /\ ldPc \in {"names", "classify", "checks", "sort"} \/ LanAnswered =>
         ldAsking = {} /\ \A s \in Lan!Sources : ldResults[s] \subseteq ldDevices

\* ... and nothing changes any more what was made of it.
PoolsOnTime ==
  ~ldLate =>
    /\ ldPc = "names" => \A w \in Lookers : w <= ldJoined => w \in ldLookups.ended
    /\ ldPc \in {"classify", "checks", "sort"} \/ LanAnswered =>
         /\ ldLookups.ended = Lookers
         /\ \A h \in ldDevices : ldLabel[h] = (IF h \in ldNamed THEN "name" ELSE "address")
    /\ ldPc = "checks" => \A w \in Lookers : w <= ldJoined => w \in ldChecks.ended
    /\ ldPc = "sort" \/ LanAnswered => ldChecks.ended = Lookers /\ ldAnswer = {ldAudited}

\* What is left to merge is part of it.
LeftIsKnown == ldMerging.left \subseteq ldMerging.sources

\* Together they are inductive.
LanInv ==
  /\ Lan!TypeOK /\ LeftIsKnown /\ LookupsRead /\ TimeoutKept /\ ChecksEnd
  /\ LanUnbegun /\ DevicesAccounted /\ SourcesOnTime /\ PoolsOnTime

\* There are threads, and they are numbered.
LEMMA NumbersOfWorkers ==
  ASSUME Lan!LanConstantsOK
  PROVE  /\ Cardinality(Lookers) \in Nat \ {0} /\ Lookers = 1..Cardinality(Lookers)
         /\ Lookers # {}
<1>1. Cardinality(Lookers) \in Nat  BY LanCounts, FS_CardinalityType DEF Lan!LanConstantsOK
<1>2. Lookers = 1..Cardinality(Lookers) /\ Lookers # {}  BY LanCounts DEF Lan!LanConstantsOK
<1>3. Cardinality(Lookers) # 0
  <2> DEFINE n == Cardinality(Lookers)
  <2>1. ASSUME n = 0 PROVE FALSE
    <3>1. 1..n = {}  BY <2>1
    <3> QED  BY <1>2, <3>1
  <2> QED  BY <2>1
<1> QED  BY <1>1, <1>2, <1>3

\* An answer given while no thread was too slow is of every device, named and checked, and
\* the time-out is what it was.
LEMMA InvAnswersWhole ==
  ASSUME LanInv, Lan!LanConstantsOK
  PROVE  Lan!AnswerIsWhole /\ Lan!TimeoutIsRestored
<1>1. Lan!TimeoutIsRestored  BY DEF LanInv, TimeoutKept, Lan!TimeoutIsRestored
<1>2. ASSUME LanAnswered, ~ldLate
      PROVE  /\ ldAnswer = {ldDevices} /\ ldAudited = ldDevices
             /\ \A s \in Lan!Sources : ldResults[s] \subseteq ldDevices
             /\ \A h \in ldDevices : ldLabel[h] = (IF h \in ldNamed THEN "name" ELSE "address")
  <2>1. /\ ldChecks.ended = Lookers /\ ldAnswer = {ldAudited}
        /\ \A s \in Lan!Sources : ldResults[s] \subseteq ldDevices
        /\ \A h \in ldDevices : ldLabel[h] = (IF h \in ldNamed THEN "name" ELSE "address")
    BY <1>2 DEF LanInv, SourcesOnTime, PoolsOnTime
  <2>2. Lookers # {}  BY DEF Lan!LanConstantsOK
  <2>3. ldChecks.queue = {} /\ \A w \in Lookers : ldChecks.at[w] = NoHost
    BY <2>1, <2>2 DEF LanInv, ChecksEnd
  <2>4. ldAudited = ldDevices  BY <1>2, <2>3 DEF LanInv, DevicesAccounted
  <2> QED  BY <2>1, <2>4
<1> QED  BY <1>1, <1>2 DEF Lan!AnswerIsWhole, LanAnswered

\* Nobody has asked.
LEMMA LanInvInit ==
  ASSUME Lan!LanConstantsOK, Lan!Init
  PROVE  LanInv
<1>1. /\ \A w \in Lookers : Lan!NoPool.at[w] = NoHost
      /\ Lan!NoPool.queue = {} /\ Lan!NoPool.ended = Lookers
  BY DEF Lan!NoPool
<1>2. Lan!TypeOK
  <2>1. Lan!NoPool \in Lan!Pools  BY DEF Lan!NoPool, Lan!Pools
  <2>2. 0 \in 0..(Cardinality(Lookers) + 2)  BY NumbersOfWorkers
  <2>3. <<>> \in UNION {[s -> SUBSET Hosts] : s \in SUBSET Lan!Sources}
    <3>1. <<>> \in [{} -> SUBSET Hosts]  OBVIOUS
    <3> QED  BY <3>1
  <2> QED  BY LanCounts, <2>1, <2>2, <2>3 DEF Lan!Init, Lan!TypeOK, Lan!Places
<1>3. LookupsRead /\ TimeoutKept  BY <1>1 DEF Lan!Init, LookupsRead, TimeoutKept
<1>4. ChecksEnd /\ LanUnbegun  BY <1>1 DEF Lan!Init, ChecksEnd, LanUnbegun
<1> QED
  BY <1>2, <1>3, <1>4
     DEF Lan!Init, LanInv, LeftIsKnown, DevicesAccounted, SourcesOnTime, PoolsOnTime,
         LanAnswered

\* A pool that begins has all of its hosts queued.
LEMMA FullPoolIs ==
  ASSUME NEW hosts \in SUBSET Hosts
  PROVE  /\ Lan!FullPool(hosts) \in Lan!Pools /\ Lan!FullPool(hosts).queue = hosts
         /\ Lan!FullPool(hosts).ended = {}
         /\ \A w \in Lookers : Lan!FullPool(hosts).at[w] = NoHost
BY DEF Lan!FullPool, Lan!Pools

\* A thread without a host ends, or has the one it took.
TakenFrom(pool, w, after) ==
  /\ after \in Lan!Pools
  /\ \/ /\ pool.queue = {} /\ after.queue = {}
        /\ after.at = pool.at /\ after.ended = pool.ended \cup {w}
     \/ \E h \in pool.queue :
          /\ h \in Hosts /\ after.queue = pool.queue \ {h}
          /\ after.at = [pool.at EXCEPT ![w] = h]
          /\ after.ended = pool.ended

\* That is what taking the next host off a queue comes to.
LEMMA TakenIs ==
  ASSUME NEW pool \in Lan!Pools, NEW w \in Lookers
  PROVE  TakenFrom(pool, w, Lan!Taken(pool, w))
<1> DEFINE last == CHOOSE h \in pool.queue : TRUE
           after == Lan!Taken(pool, w)
<1>1. /\ pool.queue \in SUBSET Hosts /\ pool.ended \in SUBSET Lookers
      /\ pool.at \in [Lookers -> Hosts \cup {NoHost}]
      /\ pool = [queue |-> pool.queue, at |-> pool.at, ended |-> pool.ended]
  BY DEF Lan!Pools
<1>2. CASE pool.queue = {}
  <2>1. after = [queue |-> {}, at |-> pool.at, ended |-> pool.ended \cup {w}]
    BY <1>1, <1>2 DEF Lan!Taken
  <2>2. after \in Lan!Pools  BY <1>1, <2>1 DEF Lan!Pools
  <2>3. /\ after.queue = {} /\ after.at = pool.at /\ after.ended = pool.ended \cup {w}
    BY <2>1
  <2> HIDE DEF after
  <2> QED  BY <1>2, <2>2, <2>3 DEF TakenFrom, after
<1>3. CASE pool.queue # {}
  <2>1. last \in pool.queue /\ last \in Hosts  BY <1>1, <1>3
  <2> HIDE DEF last
  <2>2. after = [pool EXCEPT !.queue = @ \ {last}, !.at[w] = last]  BY <1>3 DEF Lan!Taken, last
  <2>3. /\ after.queue = pool.queue \ {last} /\ after.at = [pool.at EXCEPT ![w] = last]
        /\ after.ended = pool.ended
        /\ after = [queue |-> after.queue, at |-> after.at, ended |-> after.ended]
    BY <1>1, <2>2
  <2>4. after.at \in [Lookers -> Hosts \cup {NoHost}]  BY <1>1, <2>1, <2>3
  <2>5. after.queue \in SUBSET Hosts /\ after.ended \in SUBSET Lookers  BY <1>1, <2>3
  <2> HIDE DEF after
  <2>6. after \in Lan!Pools  BY <2>3, <2>4, <2>5 DEF Lan!Pools
  <2> QED  BY <2>1, <2>3, <2>6 DEF TakenFrom, after
<1> QED  BY <1>2, <1>3

\* A thread lays its host aside.
LEMMA LaidAside ==
  ASSUME NEW pool \in Lan!Pools, NEW w \in Lookers
  PROVE  LET after == [pool EXCEPT !.at[w] = NoHost] IN
         /\ after \in Lan!Pools /\ after.queue = pool.queue /\ after.ended = pool.ended
         /\ after.at = [pool.at EXCEPT ![w] = NoHost]
<1> DEFINE after == [pool EXCEPT !.at[w] = NoHost]
<1>1. /\ pool.queue \in SUBSET Hosts /\ pool.ended \in SUBSET Lookers
      /\ pool.at \in [Lookers -> Hosts \cup {NoHost}]
      /\ pool = [queue |-> pool.queue, at |-> pool.at, ended |-> pool.ended]
  BY DEF Lan!Pools
<1>2. /\ after.queue = pool.queue /\ after.ended = pool.ended
      /\ after.at = [pool.at EXCEPT ![w] = NoHost]
      /\ after = [queue |-> after.queue, at |-> after.at, ended |-> after.ended]
  BY <1>1
<1>3. after.at \in [Lookers -> Hosts \cup {NoHost}]  BY <1>1, <1>2
<1> HIDE DEF after
<1>4. after \in Lan!Pools  BY <1>1, <1>2, <1>3 DEF Lan!Pools
<1> QED  BY <1>2, <1>4 DEF after

\* The look-ups keep their parts as long as none of them moves.
LEMMA LookupsUntouched ==
  ASSUME LanInv, UNCHANGED Lan!lookupVars
  PROVE  LookupsRead' /\ TimeoutKept'
BY DEF LanInv, LookupsRead, TimeoutKept, Lan!lookupVars

\* What the sources have found, as a function of those that are done.
LEMMA ResultsType ==
  ASSUME NEW f
  PROVE  f \in UNION {[s -> SUBSET Hosts] : s \in SUBSET Lan!Sources} <=>
           /\ DOMAIN f \subseteq Lan!Sources
           /\ f = [s \in DOMAIN f |-> f[s]] /\ \A s \in DOMAIN f : f[s] \subseteq Hosts
<1>1. ASSUME f \in UNION {[s -> SUBSET Hosts] : s \in SUBSET Lan!Sources}
      PROVE  /\ DOMAIN f \subseteq Lan!Sources
             /\ f = [s \in DOMAIN f |-> f[s]] /\ \A s \in DOMAIN f : f[s] \subseteq Hosts
  <2>1. PICK d \in SUBSET Lan!Sources : f \in [d -> SUBSET Hosts]  BY <1>1
  <2> QED  BY <2>1
<1>2. ASSUME DOMAIN f \subseteq Lan!Sources, f = [s \in DOMAIN f |-> f[s]],
             \A s \in DOMAIN f : f[s] \subseteq Hosts
      PROVE  f \in UNION {[s -> SUBSET Hosts] : s \in SUBSET Lan!Sources}
  <2>1. f \in [DOMAIN f -> SUBSET Hosts]  BY <1>2
  <2> QED  BY <1>2, <2>1
<1> QED  BY <1>1, <1>2

\* A call begins, and what the last one left is reset.
LEMMA DiscoverKeeps ==
  ASSUME LanInv, Lan!LanConstantsOK, Lan!Discover
  PROVE  LanInv'
<1>1. /\ ldPc = "idle" /\ ldAnswer = {} /\ ldPc' = "gather" /\ ldJoined' = 0
      /\ ldDevices' \subseteq Hosts /\ ldAsking' = Lan!Sources
      /\ UNCHANGED <<ldResults, ldMerging, ldNamed, ldLabel, ldLookups, ldTimeout, ldOriginal,
                     ldShortened, ldCrossed, ldChecks, ldAudited, ldAnswer, ldLate>>
  BY DEF Lan!Discover, Lan!LanConstantsOK, Lan!lookupVars, Lan!auditVars
<1>2. Lan!TypeOK'  BY LanCounts, <1>1, NumbersOfWorkers DEF LanInv, Lan!TypeOK, Lan!Places
<1>3. LookupsRead' /\ TimeoutKept'  BY <1>1, LookupsUntouched DEF Lan!lookupVars
<1>4. ChecksEnd'  BY <1>1 DEF LanInv, ChecksEnd
<1>5. LanUnbegun' /\ DevicesAccounted' /\ SourcesOnTime' /\ PoolsOnTime'
  BY <1>1
     DEF LanInv, LanUnbegun, NotAsked, LanAnswered, DevicesAccounted, SourcesOnTime, PoolsOnTime
<1>6. LeftIsKnown'  BY <1>1 DEF LanInv, LeftIsKnown
<1> QED  BY <1>2, <1>3, <1>4, <1>5, <1>6 DEF LanInv

\* A source ends with what it has found.
LEMMA SourceKeeps ==
  ASSUME LanInv, Lan!LanConstantsOK, NEW s \in Lan!Sources, Lan!SourceEnds(s)
  PROVE  LanInv'
<1>1. /\ s \in ldAsking /\ ldAsking' = ldAsking \ {s}
      /\ UNCHANGED <<ldPc, ldJoined, ldMerging, ldDevices, ldNamed, ldLabel, ldLookups,
                     ldTimeout, ldOriginal, ldShortened, ldCrossed, ldChecks, ldAudited,
                     ldAnswer, ldLate>>
  BY DEF Lan!SourceEnds, Lan!lookupVars, Lan!auditVars
<1>2. PICK found \in SUBSET Reach[s] :
        ldResults' = [o \in DOMAIN ldResults \cup {s} |-> IF o = s THEN found ELSE ldResults[o]]
  BY DEF Lan!SourceEnds
<1>3. /\ DOMAIN ldResults' = DOMAIN ldResults \cup {s}
      /\ \A o \in DOMAIN ldResults : o # s => ldResults'[o] = ldResults[o]
      /\ ldResults' = [o \in DOMAIN ldResults' |-> ldResults'[o]]
  BY <1>2
<1>4. Lan!TypeOK'
  <2>1. Reach[s] \subseteq Hosts  BY DEF Lan!LanConstantsOK
  <2>2. /\ DOMAIN ldResults \subseteq Lan!Sources
        /\ \A o \in DOMAIN ldResults : ldResults[o] \subseteq Hosts
    BY ResultsType DEF LanInv, Lan!TypeOK
  <2>3. /\ DOMAIN ldResults' \subseteq Lan!Sources
        /\ \A o \in DOMAIN ldResults' : ldResults'[o] \subseteq Hosts
    BY <1>2, <2>1, <2>2
  <2>4. ldResults' \in UNION {[d -> SUBSET Hosts] : d \in SUBSET Lan!Sources}
    BY <1>3, <2>3, ResultsType
  <2> QED  BY <1>1, <2>4 DEF LanInv, Lan!TypeOK
<1>5. LookupsRead' /\ TimeoutKept'  BY <1>1, LookupsUntouched DEF Lan!lookupVars
<1>6. ChecksEnd'  BY <1>1 DEF LanInv, ChecksEnd
<1>7. LanUnbegun'  BY <1>1 DEF LanInv, LanUnbegun, NotAsked
<1>8. DevicesAccounted' /\ PoolsOnTime'
  BY <1>1 DEF LanInv, LanAnswered, DevicesAccounted, PoolsOnTime
<1>9. SourcesOnTime'  BY <1>1, <1>3 DEF LanInv, LanAnswered, SourcesOnTime
<1>10. LeftIsKnown'  BY <1>1 DEF LanInv, LeftIsKnown
<1> QED  BY <1>4, <1>5, <1>6, <1>7, <1>8, <1>9, <1>10 DEF LanInv

\* The caller waits for a source, and then for no more.
LEMMA GatherKeeps ==
  ASSUME LanInv, Lan!LanConstantsOK, Lan!JoinSource \/ Lan!BeginMerge
  PROVE  LanInv'
<1>1. /\ ldPc = "gather"
      /\ UNCHANGED <<ldAsking, ldResults, ldDevices, ldNamed, ldLabel, ldLookups, ldTimeout,
                     ldOriginal, ldShortened, ldCrossed, ldChecks, ldAudited, ldAnswer>>
  BY DEF Lan!JoinSource, Lan!BeginMerge, Lan!sourceVars, Lan!lookupVars, Lan!auditVars
<1>2. LookupsRead' /\ TimeoutKept'  BY <1>1, LookupsUntouched DEF Lan!lookupVars
<1>3. ChecksEnd'  BY <1>1 DEF LanInv, ChecksEnd
<1>4. CASE Lan!JoinSource
  <2>1. /\ ldJoined < 2 /\ ldJoined' = ldJoined + 1 /\ UNCHANGED <<ldPc, ldMerging>>
        /\ ldLate' = (ldLate \/ (IF ldJoined = 0 THEN "ssdp" ELSE "mdns") \in ldAsking)
    BY <1>4 DEF Lan!JoinSource, Lan!sourceVars
  <2>2. Lan!TypeOK'
    <3>1. ldJoined' \in 0..(Cardinality(Lookers) + 2)
      BY <2>1, NumbersOfWorkers DEF LanInv, Lan!TypeOK
    <3> QED  BY LanCounts, <1>1, <2>1, <3>1 DEF LanInv, Lan!TypeOK
  <2>3. LanUnbegun' /\ DevicesAccounted'
    BY <1>1, <2>1 DEF LanInv, LanUnbegun, NotAsked, LanAnswered, DevicesAccounted
  <2>4. SourcesOnTime'
    <3>1. ~ldLate' => ~ldLate  BY <2>1
    <3>2. ~ldLate => /\ ldJoined \in {0, 1} /\ DOMAIN ldResults = Lan!Sources \ ldAsking
                     /\ (ldJoined = 1 => "ssdp" \notin ldAsking)
      BY <1>1, <2>1 DEF LanInv, SourcesOnTime
    <3>3. ~ldLate' => /\ ldJoined' \in {1, 2} /\ "ssdp" \notin ldAsking
                      /\ (ldJoined' = 2 => "mdns" \notin ldAsking)
      <4>1. ASSUME ~ldLate', ldJoined = 0 PROVE "ssdp" \notin ldAsking  BY <2>1, <4>1
      <4>2. ASSUME ~ldLate', ldJoined = 1 PROVE "mdns" \notin ldAsking
        <5>1. ldJoined # 0  BY <4>2
        <5> HIDE <4>2
        <5>2. (IF ldJoined = 0 THEN "ssdp" ELSE "mdns") = "mdns"  BY <5>1
        <5> QED  BY <2>1, <4>2, <5>2
      <4>3. ASSUME ~ldLate'
            PROVE  ldJoined \in {0, 1} /\ (ldJoined = 1 => "ssdp" \notin ldAsking)
        BY <3>1, <3>2, <4>3
      <4>4. ldJoined \in {0, 1} => ldJoined' = ldJoined + 1 /\ ldJoined' \in {1, 2}
                                     /\ (ldJoined' = 2 => ldJoined = 1)
        BY <2>1
      <4> QED  BY <4>1, <4>2, <4>3, <4>4
    <3>4. ldPc' = "gather"  BY <1>1, <2>1
    <3> QED  BY <1>1, <3>1, <3>2, <3>3, <3>4 DEF SourcesOnTime, LanAnswered
  <2>5. PoolsOnTime'  BY <1>1, <2>1 DEF LanInv, PoolsOnTime, LanAnswered
  <2>6. LeftIsKnown'  BY <2>1 DEF LanInv, LeftIsKnown
  <2> QED  BY <1>2, <1>3, <2>2, <2>3, <2>4, <2>5, <2>6 DEF LanInv
<1>5. CASE Lan!BeginMerge
  <2>1. /\ ldJoined = 2 /\ ldPc' = "merge" /\ UNCHANGED <<ldJoined, ldLate>>
        /\ ldMerging' = [sources |-> DOMAIN ldResults, left |-> DOMAIN ldResults]
    BY <1>5 DEF Lan!BeginMerge
  <2>2. Lan!TypeOK'
    <3>1. DOMAIN ldResults \subseteq Lan!Sources  BY ResultsType DEF LanInv, Lan!TypeOK
    <3> QED  BY <1>1, <2>1, <3>1 DEF LanInv, Lan!TypeOK, Lan!Places
  <2>3. LanUnbegun' /\ DevicesAccounted'
    BY <1>1, <2>1 DEF LanInv, LanUnbegun, NotAsked, LanAnswered, DevicesAccounted
  <2>4. SourcesOnTime'
    <3>1. ~ldLate => /\ DOMAIN ldResults = Lan!Sources \ ldAsking
                     /\ "ssdp" \notin ldAsking /\ "mdns" \notin ldAsking
      BY <1>1, <2>1 DEF LanInv, SourcesOnTime
    <3>2. ~ldLate => ldAsking = {}  BY <3>1 DEF LanInv, Lan!TypeOK, Lan!Sources
    <3> QED  BY <1>1, <2>1, <3>1, <3>2 DEF SourcesOnTime, LanAnswered
  <2>5. PoolsOnTime'  BY <1>1, <2>1 DEF PoolsOnTime, LanAnswered
  <2>6. LeftIsKnown'  BY <2>1 DEF LanInv, LeftIsKnown
  <2> QED  BY <1>2, <1>3, <2>2, <2>3, <2>4, <2>5, <2>6 DEF LanInv
<1> QED  BY <1>4, <1>5

\* What a source found is merged, or the merge gives up.
LEMMA MergeKeeps ==
  ASSUME LanInv, Lan!MergeFails \/ \E s \in Lan!Sources : Lan!MergeOne(s)
  PROVE  LanInv'
<1>1. /\ ldPc = "merge"
      /\ UNCHANGED <<ldJoined, ldAsking, ldResults, ldLabel, ldLookups, ldTimeout, ldOriginal,
                     ldShortened, ldCrossed, ldChecks, ldAudited, ldAnswer, ldLate>>
  BY DEF Lan!MergeFails, Lan!MergeOne, Lan!sourceVars, Lan!lookupVars, Lan!auditVars
<1>2. LookupsRead' /\ TimeoutKept'  BY <1>1, LookupsUntouched DEF Lan!lookupVars
<1>3. ChecksEnd'  BY <1>1 DEF LanInv, ChecksEnd
<1>4. CASE Lan!MergeFails
  <2>1. ldPc' = "failed" /\ UNCHANGED <<ldMerging, ldDevices, ldNamed>>
    BY <1>4 DEF Lan!MergeFails, Lan!sourceVars
  <2> QED
    BY <1>1, <1>2, <1>3, <2>1
       DEF LanInv, Lan!TypeOK, Lan!Places, LanUnbegun, NotAsked, LanAnswered, DevicesAccounted,
           SourcesOnTime, PoolsOnTime, LeftIsKnown
<1>5. ASSUME NEW s \in Lan!Sources, Lan!MergeOne(s) PROVE LanInv'
  <2>1. /\ ldPc' = ldPc /\ DOMAIN ldResults = ldMerging.sources /\ s \in ldMerging.left
        /\ ldDevices' = ldDevices \cup ldResults[s]
        /\ ldNamed' \subseteq ldNamed \cup ldResults[s]
        /\ ldMerging' = [ldMerging EXCEPT !.left = @ \ {s}]
    BY <1>5 DEF Lan!MergeOne
  <2>2. /\ DOMAIN ldResults \subseteq Lan!Sources
        /\ \A o \in DOMAIN ldResults : ldResults[o] \subseteq Hosts
        /\ ldMerging \in [sources : SUBSET Lan!Sources, left : SUBSET Lan!Sources]
    BY ResultsType DEF LanInv, Lan!TypeOK
  <2>3. /\ ldMerging'.left = ldMerging.left \ {s} /\ ldMerging'.sources = ldMerging.sources
        /\ ldMerging' \in [sources : SUBSET Lan!Sources, left : SUBSET Lan!Sources]
    BY <2>1, <2>2
  <2>4. ~ldLate => s \in DOMAIN ldResults  BY <1>1 DEF LanInv, SourcesOnTime
  <2>5. Lan!TypeOK'
    <3>1. ldResults[s] \subseteq Hosts
      BY <2>1, <2>2 DEF LanInv, LeftIsKnown
    <3> QED  BY <1>1, <2>1, <2>3, <3>1 DEF LanInv, Lan!TypeOK
  <2>6. LanUnbegun' /\ DevicesAccounted' /\ PoolsOnTime'
    BY <1>1, <2>1 DEF LanInv, LanUnbegun, NotAsked, LanAnswered, DevicesAccounted, PoolsOnTime
  <2>7. SourcesOnTime'  BY <1>1, <2>1, <2>3 DEF LanInv, SourcesOnTime, LanAnswered
  <2>8. LeftIsKnown'  BY <2>3 DEF LanInv, LeftIsKnown
  <2> QED  BY <1>2, <1>3, <2>5, <2>6, <2>7, <2>8 DEF LanInv
<1> QED  BY <1>4, <1>5

\* The merge is over, and the look-ups begin with every device in their queue.
LEMMA BeginNamesKeeps ==
  ASSUME LanInv, Lan!LanConstantsOK, Lan!BeginNames
  PROVE  LanInv'
<1>1. /\ ldPc = "merge" /\ ldPc' = "names" /\ ldJoined' = 0
      /\ ldLookups' = Lan!FullPool(ldDevices' \ ldNamed')
      /\ DOMAIN ldResults = ldMerging.sources /\ ldMerging.left = {}
      /\ UNCHANGED <<ldAsking, ldResults, ldMerging, ldLabel, ldTimeout, ldOriginal,
                     ldShortened, ldCrossed, ldChecks, ldAudited, ldAnswer, ldLate>>
  BY DEF Lan!BeginNames, Lan!sourceVars, Lan!auditVars
<1>0. /\ ldDevices \subseteq ldDevices' /\ ldDevices' \subseteq Hosts /\ ldNamed' \subseteq Hosts
  <2>1. PICK found \in SUBSET Reach["netbios"] : \E told \in SUBSET found :
          ldDevices' = ldDevices \cup found /\ ldNamed' = ldNamed \cup told
    BY DEF Lan!BeginNames
  <2>2. Reach["netbios"] \subseteq Hosts  BY DEF Lan!LanConstantsOK
  <2> QED  BY <2>1, <2>2 DEF LanInv, Lan!TypeOK
<1>2. /\ ldLookups' \in Lan!Pools /\ ldLookups'.ended = {}
      /\ \A w \in Lookers : ldLookups'.at[w] = NoHost
  BY <1>0, <1>1, FullPoolIs
<1>3. \A w \in Lookers : ldOriginal[w] = "unread" /\ w \notin ldShortened
  BY <1>1 DEF LanInv, LanUnbegun, LookupsRead, Lan!NoPool
<1>4. Lan!TypeOK'
  BY LanCounts, <1>0, <1>1, <1>2, NumbersOfWorkers DEF LanInv, Lan!TypeOK, Lan!Places
<1>5. LookupsRead' /\ TimeoutKept'  BY <1>1, <1>2, <1>3 DEF LanInv, LookupsRead, TimeoutKept
<1>6. ChecksEnd' /\ LeftIsKnown'  BY <1>1 DEF LanInv, ChecksEnd, LeftIsKnown
<1>7. LanUnbegun' /\ DevicesAccounted'
  BY <1>1 DEF LanInv, LanUnbegun, NotAsked, LanAnswered, DevicesAccounted
<1>9. SourcesOnTime'
  <2>1. ~ldLate => ldAsking = {} /\ \A r \in Lan!Sources : ldResults[r] \subseteq ldDevices
    BY <1>1 DEF LanInv, SourcesOnTime
  <2> QED  BY <1>0, <1>1, <2>1 DEF SourcesOnTime, LanAnswered
<1>8. PoolsOnTime'
  <2>1. \A w \in Lookers : ~(w <= 0)  BY NumbersOfWorkers
  <2> QED  BY <1>1, <2>1 DEF PoolsOnTime, LanAnswered
<1> QED  BY <1>4, <1>5, <1>6, <1>7, <1>8, <1>9 DEF LanInv

\* The caller waits for a thread of a pool and goes on without it if it must.
LEMMA JoinEndsKeeps ==
  ASSUME LanInv, Lan!LanConstantsOK, Lan!JoinLookup \/ Lan!JoinCheck
  PROVE  LanInv'
<1>1. /\ ldPc \in {"names", "checks"} /\ ldJoined < Cardinality(Lookers)
      /\ ldJoined' = ldJoined + 1
      /\ UNCHANGED <<ldPc, ldAsking, ldResults, ldMerging, ldDevices, ldNamed, ldLabel,
                     ldLookups, ldTimeout, ldOriginal, ldShortened, ldCrossed, ldChecks,
                     ldAudited, ldAnswer>>
  BY LanCounts DEF Lan!JoinLookup, Lan!JoinCheck, Lan!sourceVars, Lan!lookupVars, Lan!auditVars
<1>2. /\ ldPc = "names" => ldLate' = (ldLate \/ ldJoined + 1 \notin ldLookups.ended)
      /\ ldPc = "checks" => ldLate' = (ldLate \/ ldJoined + 1 \notin ldChecks.ended)
  BY DEF Lan!JoinLookup, Lan!JoinCheck
<1>3. ldJoined \in Nat /\ \A w \in Lookers : w \in Nat
  BY NumbersOfWorkers DEF LanInv, Lan!TypeOK
<1>4. ldLate' \in BOOLEAN /\ (~ldLate' => ~ldLate)  BY <1>1, <1>2 DEF LanInv, Lan!TypeOK
<1>5. Lan!TypeOK'
  <2>1. ldJoined' \in 0..(Cardinality(Lookers) + 2)  BY <1>1, <1>3, NumbersOfWorkers
  <2> QED  BY LanCounts, <1>1, <1>4, <2>1 DEF LanInv, Lan!TypeOK
<1>6. LookupsRead' /\ TimeoutKept'  BY <1>1, LookupsUntouched DEF Lan!lookupVars
<1>7. ChecksEnd' /\ LeftIsKnown'  BY <1>1 DEF LanInv, ChecksEnd, LeftIsKnown
<1>8. LanUnbegun' /\ DevicesAccounted' /\ SourcesOnTime'
  BY <1>1, <1>4 DEF LanInv, LanUnbegun, NotAsked, LanAnswered, DevicesAccounted, SourcesOnTime
<1>9. PoolsOnTime'
  <2>1. \A w \in Lookers : w <= ldJoined' => w <= ldJoined \/ w = ldJoined + 1  BY <1>1, <1>3
  <2>2. CASE ldPc = "names"
    BY <1>1, <1>2, <2>1, <2>2 DEF LanInv, PoolsOnTime, LanAnswered
  <2>3. CASE ldPc = "checks"
    BY <1>1, <1>2, <2>1, <2>3 DEF LanInv, PoolsOnTime, LanAnswered
  <2> QED  BY <1>1, <2>2, <2>3
<1> QED  BY <1>5, <1>6, <1>7, <1>8, <1>9 DEF LanInv

\* A look-up takes the next host, or ends.
LEMMA TakeLookupKeeps ==
  ASSUME LanInv, Lan!LanConstantsOK, NEW w \in Lookers, Lan!TakeLookup(w)
  PROVE  LanInv'
<1>1. /\ ldLookups.at[w] = NoHost /\ w \notin ldLookups.ended
      /\ ldLookups' = Lan!Taken(ldLookups, w)
      /\ UNCHANGED <<ldPc, ldJoined, ldAsking, ldResults, ldMerging, ldDevices, ldNamed,
                     ldLabel, ldTimeout, ldOriginal, ldShortened, ldCrossed, ldChecks,
                     ldAudited, ldAnswer, ldLate>>
  BY DEF Lan!TakeLookup, Lan!Free, Lan!sourceVars, Lan!auditVars
<1>2. ldLookups \in Lan!Pools /\ ldOriginal[w] = "unread"
  BY <1>1 DEF LanInv, Lan!TypeOK, LookupsRead
<1>3. TakenFrom(ldLookups, w, ldLookups')  BY <1>1, <1>2, TakenIs
<1>4. /\ ldLookups' \in Lan!Pools /\ ldLookups.ended \subseteq ldLookups'.ended
      /\ ldLookups'.ended \subseteq Lookers
  BY <1>3 DEF TakenFrom, Lan!Pools
<1>5. LookupsRead'
  <2>1. ldLookups.at \in [Lookers -> Hosts \cup {NoHost}] /\ NoHost \notin Hosts
    BY <1>2 DEF Lan!Pools, Lan!LanConstantsOK
  <2>2. CASE ldLookups.queue = {}
    <3>1. ldLookups'.at = ldLookups.at /\ ldLookups'.ended = ldLookups.ended \cup {w}
      BY <1>3, <2>2 DEF TakenFrom
    <3> QED  BY <1>1, <3>1 DEF LanInv, LookupsRead
  <2>3. CASE ldLookups.queue # {}
    <3>1. PICK h \in Hosts : /\ ldLookups'.at = [ldLookups.at EXCEPT ![w] = h]
                             /\ ldLookups'.ended = ldLookups.ended
      BY <1>3, <2>3 DEF TakenFrom
    <3> QED  BY <1>1, <2>1, <3>1 DEF LanInv, LookupsRead
  <2> QED  BY <2>2, <2>3
<1>6. Lan!TypeOK' /\ TimeoutKept'  BY <1>1, <1>4 DEF LanInv, Lan!TypeOK, TimeoutKept
<1>7. ChecksEnd' /\ LeftIsKnown'  BY <1>1 DEF LanInv, ChecksEnd, LeftIsKnown
<1>8. LanUnbegun'
  <2>1. ldLookups # Lan!NoPool  BY <1>1 DEF Lan!NoPool
  <2> QED  BY <1>1, <2>1 DEF LanInv, LanUnbegun, NotAsked
<1>9. DevicesAccounted' /\ SourcesOnTime'
  BY <1>1 DEF LanInv, LanAnswered, DevicesAccounted, SourcesOnTime
<1>10. PoolsOnTime'  BY <1>1, <1>4 DEF LanInv, LanAnswered, PoolsOnTime
<1> QED  BY <1>5, <1>6, <1>7, <1>8, <1>9, <1>10 DEF LanInv

\* It reads the time-out, and then sets it.
LEMMA TimeoutStepKeeps ==
  ASSUME LanInv, NEW w \in Lookers, Lan!ReadTimeout(w) \/ Lan!ShortenTimeout(w)
  PROVE  LanInv'
<1>1. UNCHANGED <<ldPc, ldJoined, ldAsking, ldResults, ldMerging, ldDevices, ldNamed, ldLabel,
                  ldLookups, ldChecks, ldAudited, ldAnswer, ldLate>>
  BY DEF Lan!ReadTimeout, Lan!ShortenTimeout, Lan!sourceVars, Lan!auditVars
<1>2. /\ ldOriginal \in [Lookers -> {"none", "short", "unread"}]
      /\ ldTimeout \in {"none", "short"} /\ ldShortened \subseteq Lookers /\ ldCrossed \in BOOLEAN
  BY DEF LanInv, Lan!TypeOK
<1>3. /\ LookupsRead' /\ TimeoutKept'
      /\ ldOriginal' \in [Lookers -> {"none", "short", "unread"}]
      /\ ldTimeout' \in {"none", "short"} /\ ldShortened' \subseteq Lookers
      /\ ldCrossed' \in BOOLEAN
  <2>1. CASE Lan!ReadTimeout(w)
    <3>1. /\ ldLookups.at[w] # NoHost /\ ldOriginal' = [ldOriginal EXCEPT ![w] = ldTimeout]
          /\ ldCrossed' = (ldCrossed \/ \E o \in Lookers : ldOriginal[o] # "unread")
          /\ UNCHANGED <<ldTimeout, ldShortened>>
      BY <2>1 DEF Lan!ReadTimeout
    <3>2. /\ ldOriginal'[w] = ldTimeout /\ ldTimeout # "unread"
          /\ \A o \in Lookers : o # w => ldOriginal'[o] = ldOriginal[o]
      BY <1>2, <3>1
    <3>3. LookupsRead'  BY <1>1, <3>1, <3>2 DEF LanInv, LookupsRead
    <3>4. TimeoutKept'
      <4>1. ~ldCrossed' => ~ldCrossed /\ \A o \in Lookers : ldOriginal[o] = "unread"
        BY <3>1
      <4>2. ~ldCrossed' => ldTimeout = "none"  BY <4>1 DEF LanInv, TimeoutKept
      <4> QED  BY <3>1, <3>2, <4>1, <4>2 DEF TimeoutKept
    <3> QED  BY <1>2, <3>1, <3>3, <3>4
  <2>2. CASE Lan!ShortenTimeout(w)
    <3>1. /\ ldOriginal[w] # "unread" /\ ldTimeout' = "short"
          /\ ldShortened' = ldShortened \cup {w} /\ UNCHANGED <<ldOriginal, ldCrossed>>
      BY <2>2 DEF Lan!ShortenTimeout
    <3> QED  BY <1>1, <1>2, <3>1 DEF LanInv, LookupsRead, TimeoutKept
  <2> QED  BY <2>1, <2>2
<1>4. Lan!TypeOK'  BY <1>1, <1>3 DEF LanInv, Lan!TypeOK
<1>5. ChecksEnd' /\ LeftIsKnown' /\ LanUnbegun'
  BY <1>1 DEF LanInv, ChecksEnd, LeftIsKnown, LanUnbegun, NotAsked
<1>6. DevicesAccounted' /\ SourcesOnTime' /\ PoolsOnTime'
  BY <1>1 DEF LanInv, LanAnswered, DevicesAccounted, SourcesOnTime, PoolsOnTime
<1> QED  BY <1>3, <1>4, <1>5, <1>6 DEF LanInv

\* It puts the time-out back and notes the name.
LEMMA LookupEndsKeeps ==
  ASSUME LanInv, Lan!LanConstantsOK, NEW w \in Lookers, Lan!LookupEnds(w)
  PROVE  LanInv'
<1>1. /\ w \in ldShortened /\ ldShortened' = ldShortened \ {w}
      /\ ldLookups' = [ldLookups EXCEPT !.at[w] = NoHost]
      /\ ldNamed' \in {ldNamed, ldNamed \cup {ldLookups.at[w]}}
      /\ ldTimeout' = ldOriginal[w] /\ ldOriginal' = [ldOriginal EXCEPT ![w] = "unread"]
      /\ UNCHANGED <<ldPc, ldJoined, ldAsking, ldResults, ldMerging, ldDevices, ldLabel,
                     ldCrossed, ldChecks, ldAudited, ldAnswer, ldLate>>
  BY DEF Lan!LookupEnds, Lan!sourceVars, Lan!auditVars
<1>2. /\ ldLookups \in Lan!Pools /\ ldOriginal \in [Lookers -> {"none", "short", "unread"}]
      /\ ldLookups.at \in [Lookers -> Hosts \cup {NoHost}] /\ ldShortened \subseteq Lookers
  BY DEF LanInv, Lan!TypeOK, Lan!Pools
<1>3. /\ ldLookups' \in Lan!Pools /\ ldLookups'.queue = ldLookups.queue
      /\ ldLookups'.ended = ldLookups.ended
      /\ ldLookups'.at = [ldLookups.at EXCEPT ![w] = NoHost]
  BY <1>1, <1>2, LaidAside
<1>4. ldOriginal[w] # "unread" /\ w \notin ldLookups.ended /\ ldLookups.at[w] \in Hosts
  BY <1>1, <1>2 DEF LanInv, LookupsRead
<1>5. /\ ldOriginal' \in [Lookers -> {"none", "short", "unread"}] /\ ldOriginal'[w] = "unread"
      /\ \A o \in Lookers : o # w => ldOriginal'[o] = ldOriginal[o]
  BY <1>1, <1>2
<1>6. Lan!TypeOK'  BY <1>1, <1>2, <1>3, <1>4, <1>5 DEF LanInv, Lan!TypeOK
<1>7. LookupsRead'  BY <1>1, <1>2, <1>3, <1>4, <1>5 DEF LanInv, LookupsRead
<1>8. TimeoutKept'  BY <1>1, <1>4, <1>5 DEF LanInv, TimeoutKept
<1>9. ChecksEnd' /\ LeftIsKnown'  BY <1>1 DEF LanInv, ChecksEnd, LeftIsKnown
<1>10. LanUnbegun'
  <2>1. ldLookups # Lan!NoPool  BY <1>4 DEF Lan!NoPool
  <2> QED  BY <1>1, <2>1 DEF LanInv, LanUnbegun, NotAsked
<1>11. DevicesAccounted' /\ SourcesOnTime'
  BY <1>1 DEF LanInv, LanAnswered, DevicesAccounted, SourcesOnTime
<1>12. PoolsOnTime'  BY <1>1, <1>3, <1>4 DEF LanInv, LanAnswered, PoolsOnTime
<1> QED  BY <1>6, <1>7, <1>8, <1>9, <1>10, <1>11, <1>12 DEF LanInv

\* Every device gets its label, and the audit begins.
LEMMA ClassifyKeeps ==
  ASSUME LanInv, Lan!LanConstantsOK, Lan!Classify \/ Lan!Audit
  PROVE  LanInv'
<1>1. UNCHANGED <<ldAsking, ldResults, ldMerging, ldDevices, ldNamed, ldLookups, ldTimeout,
                  ldOriginal, ldShortened, ldCrossed, ldAudited, ldAnswer, ldLate>>
  BY DEF Lan!Classify, Lan!Audit, Lan!sourceVars, Lan!lookupVars, Lan!auditVars
<1>2. LookupsRead' /\ TimeoutKept'  BY <1>1, LookupsUntouched DEF Lan!lookupVars
<1>3. LeftIsKnown'  BY <1>1 DEF LanInv, LeftIsKnown
<1>4. CASE Lan!Classify
  <2>1. /\ ldPc = "names" /\ ldJoined = Cardinality(Lookers) /\ ldPc' = "classify"
        /\ ldLabel' = [h \in Hosts |-> IF h \notin ldDevices THEN "none"
                                       ELSE IF h \in ldNamed THEN "name" ELSE "address"]
        /\ UNCHANGED <<ldJoined, ldChecks>>
    BY LanCounts, <1>4 DEF Lan!Classify, Lan!auditVars
  <2>2. Lan!TypeOK'  BY <1>1, <2>1 DEF LanInv, Lan!TypeOK, Lan!Places
  <2>3. ChecksEnd' /\ LanUnbegun' /\ DevicesAccounted' /\ SourcesOnTime'
    BY <1>1, <2>1
       DEF LanInv, ChecksEnd, LanUnbegun, NotAsked, LanAnswered, DevicesAccounted, SourcesOnTime
  <2>4. PoolsOnTime'
    <3>1. ~ldLate => Lookers \subseteq ldLookups.ended
      BY <2>1, NumbersOfWorkers DEF LanInv, PoolsOnTime
    <3>2. ldLookups.ended \subseteq Lookers /\ ldDevices \subseteq Hosts
      BY DEF LanInv, Lan!TypeOK, Lan!Pools
    <3> QED  BY <1>1, <2>1, <3>1, <3>2 DEF PoolsOnTime, LanAnswered
  <2> QED  BY <1>2, <1>3, <2>2, <2>3, <2>4 DEF LanInv
<1>5. CASE Lan!Audit
  <2>1. /\ ldPc = "classify" /\ ldPc' = "checks" /\ ldJoined' = 0
        /\ ldChecks' = Lan!FullPool(ldDevices)
        /\ UNCHANGED ldLabel
    BY <1>5 DEF Lan!Audit
  <2>2. /\ ldChecks' \in Lan!Pools /\ ldChecks'.queue = ldDevices /\ ldChecks'.ended = {}
        /\ \A w \in Lookers : ldChecks'.at[w] = NoHost
    BY <2>1, FullPoolIs DEF LanInv, Lan!TypeOK
  <2>3. Lan!TypeOK'
    BY LanCounts, <1>1, <2>1, <2>2, NumbersOfWorkers DEF LanInv, Lan!TypeOK, Lan!Places
  <2>4. ChecksEnd'  BY <2>2 DEF ChecksEnd
  <2>5. LanUnbegun' /\ SourcesOnTime'
    BY <1>1, <2>1 DEF LanInv, LanUnbegun, NotAsked, LanAnswered, SourcesOnTime
  <2>6. DevicesAccounted'
    <3>1. ldAudited = {} /\ {ldChecks'.at[w] : w \in Lookers} \subseteq {NoHost}
      BY <2>1, <2>2 DEF LanInv, LanUnbegun
    <3> QED  BY <1>1, <2>2, <3>1 DEF DevicesAccounted
  <2>7. PoolsOnTime'
    <3>1. \A w \in Lookers : ~(w <= 0)  BY NumbersOfWorkers
    <3> QED  BY <1>1, <2>1, <3>1 DEF LanInv, PoolsOnTime, LanAnswered
  <2> QED  BY <1>2, <1>3, <2>3, <2>4, <2>5, <2>6, <2>7 DEF LanInv
<1> QED  BY <1>4, <1>5

\* A check takes the next device, or ends.
LEMMA TakeCheckKeeps ==
  ASSUME LanInv, Lan!LanConstantsOK, NEW w \in Lookers, Lan!TakeCheck(w)
  PROVE  LanInv'
<1>1. /\ ldChecks.at[w] = NoHost /\ w \notin ldChecks.ended
      /\ ldChecks' = Lan!Taken(ldChecks, w)
      /\ UNCHANGED <<ldPc, ldJoined, ldAsking, ldResults, ldMerging, ldDevices, ldNamed,
                     ldLabel, ldLookups, ldTimeout, ldOriginal, ldShortened, ldCrossed,
                     ldAudited, ldAnswer, ldLate>>
  BY DEF Lan!TakeCheck, Lan!Free, Lan!sourceVars, Lan!lookupVars
<1>2. /\ ldChecks \in Lan!Pools /\ ldChecks.at \in [Lookers -> Hosts \cup {NoHost}]
      /\ ldChecks.ended \subseteq Lookers /\ NoHost \notin Hosts
  BY DEF LanInv, Lan!TypeOK, Lan!Pools, Lan!LanConstantsOK
<1>0. TakenFrom(ldChecks, w, ldChecks')  BY <1>1, <1>2, TakenIs
<1>3. /\ ldChecks' \in Lan!Pools /\ ldChecks.ended \subseteq ldChecks'.ended
      /\ ldChecks'.ended \subseteq Lookers
  BY <1>0 DEF TakenFrom, Lan!Pools
<1>4. ChecksEnd' /\ DevicesAccounted'
  <2>1. CASE ldChecks.queue = {}
    <3>1. /\ ldChecks'.queue = {} /\ ldChecks'.at = ldChecks.at
          /\ ldChecks'.ended = ldChecks.ended \cup {w}
      BY <1>0, <2>1 DEF TakenFrom
    <3> QED  BY <1>1, <2>1, <3>1 DEF LanInv, ChecksEnd, DevicesAccounted, LanAnswered
  <2>2. CASE ldChecks.queue # {}
    <3>1. PICK h \in ldChecks.queue :
            /\ h \in Hosts /\ ldChecks'.queue = ldChecks.queue \ {h}
            /\ ldChecks'.at = [ldChecks.at EXCEPT ![w] = h] /\ ldChecks'.ended = ldChecks.ended
      BY <1>0, <2>2 DEF TakenFrom
    <3>2. ldChecks.ended = {}  BY <1>2, <2>2 DEF LanInv, ChecksEnd
    <3>3. ldChecks'.queue \cup ({ldChecks'.at[v] : v \in Lookers} \ {NoHost})
            = ldChecks.queue \cup ({ldChecks.at[v] : v \in Lookers} \ {NoHost})
      <4>1. /\ ldChecks'.at[w] = h /\ h # NoHost
            /\ \A v \in Lookers : v # w => ldChecks'.at[v] = ldChecks.at[v]
        BY <1>2, <3>1
      <4>2. {ldChecks'.at[v] : v \in Lookers} \ {NoHost}
              = ({ldChecks.at[v] : v \in Lookers} \ {NoHost}) \cup {h}
        BY <1>1, <4>1
      <4> QED  BY <3>1, <4>2
    <3> QED  BY <1>1, <3>1, <3>2, <3>3 DEF LanInv, ChecksEnd, DevicesAccounted, LanAnswered
  <2> QED  BY <2>1, <2>2
<1>5. Lan!TypeOK'  BY <1>1, <1>3 DEF LanInv, Lan!TypeOK
<1>6. LookupsRead' /\ TimeoutKept'  BY <1>1, LookupsUntouched DEF Lan!lookupVars
<1>7. LeftIsKnown' /\ SourcesOnTime'
  BY <1>1 DEF LanInv, LeftIsKnown, LanAnswered, SourcesOnTime
<1>8. LanUnbegun'
  <2>1. ldChecks # Lan!NoPool  BY <1>1 DEF Lan!NoPool
  <2> QED  BY <1>1, <2>1 DEF LanInv, LanUnbegun, NotAsked
<1>9. PoolsOnTime'  BY <1>1, <1>3 DEF LanInv, LanAnswered, PoolsOnTime
<1> QED  BY <1>4, <1>5, <1>6, <1>7, <1>8, <1>9 DEF LanInv

\* What it had in hand is audited.
LEMMA CheckEndsKeeps ==
  ASSUME LanInv, Lan!LanConstantsOK, NEW w \in Lookers, Lan!CheckEnds(w)
  PROVE  LanInv'
<1>1. /\ ldChecks.at[w] # NoHost /\ ldChecks' = [ldChecks EXCEPT !.at[w] = NoHost]
      /\ ldAudited' = ldAudited \cup {ldChecks.at[w]}
      /\ UNCHANGED <<ldPc, ldJoined, ldAsking, ldResults, ldMerging, ldDevices, ldNamed,
                     ldLabel, ldLookups, ldTimeout, ldOriginal, ldShortened, ldCrossed,
                     ldAnswer, ldLate>>
  BY DEF Lan!CheckEnds, Lan!sourceVars, Lan!lookupVars
<1>2. ldChecks \in Lan!Pools /\ ldChecks.at \in [Lookers -> Hosts \cup {NoHost}]
  BY DEF LanInv, Lan!TypeOK, Lan!Pools
<1>3. /\ ldChecks' \in Lan!Pools /\ ldChecks'.queue = ldChecks.queue
      /\ ldChecks'.ended = ldChecks.ended
      /\ ldChecks'.at = [ldChecks.at EXCEPT ![w] = NoHost]
  BY <1>1, <1>2, LaidAside
<1>4. w \notin ldChecks.ended /\ ldChecks.at[w] \in Hosts  BY <1>1, <1>2 DEF LanInv, ChecksEnd
<1>5. Lan!TypeOK'  BY <1>1, <1>3, <1>4 DEF LanInv, Lan!TypeOK
<1>6. LookupsRead' /\ TimeoutKept'  BY <1>1, LookupsUntouched DEF Lan!lookupVars
<1>7. LeftIsKnown' /\ SourcesOnTime'
  BY <1>1 DEF LanInv, LeftIsKnown, LanAnswered, SourcesOnTime
<1>8. ChecksEnd'  BY <1>2, <1>3, <1>4 DEF LanInv, ChecksEnd
<1>9. LanUnbegun'
  <2>1. ldChecks # Lan!NoPool  BY <1>1 DEF Lan!NoPool
  <2> QED  BY <1>1, <2>1 DEF LanInv, LanUnbegun, NotAsked
<1>10. DevicesAccounted'
  <2>1. /\ ldChecks'.at[w] = NoHost
        /\ \A v \in Lookers : v # w => ldChecks'.at[v] = ldChecks.at[v]
    BY <1>2, <1>3
  <2>2. {ldChecks.at[v] : v \in Lookers} \ {NoHost}
          = ({ldChecks'.at[v] : v \in Lookers} \ {NoHost}) \cup {ldChecks.at[w]}
    BY <1>1, <2>1
  <2> QED  BY <1>1, <1>3, <2>2 DEF LanInv, DevicesAccounted, LanAnswered
<1>11. PoolsOnTime'  BY <1>1, <1>3, <1>4 DEF LanInv, LanAnswered, PoolsOnTime
<1> QED  BY <1>5, <1>6, <1>7, <1>8, <1>9, <1>10, <1>11 DEF LanInv

\* The answer is put in order and given.
LEMMA SortKeeps ==
  ASSUME LanInv, Lan!LanConstantsOK, Lan!BeginSort \/ Lan!EndSort
  PROVE  LanInv'
<1>1. UNCHANGED <<ldJoined, ldAsking, ldResults, ldMerging, ldDevices, ldNamed, ldLabel,
                  ldLookups, ldTimeout, ldOriginal, ldShortened, ldCrossed, ldChecks,
                  ldAudited, ldLate>>
  BY DEF Lan!BeginSort, Lan!EndSort, Lan!sourceVars, Lan!lookupVars, Lan!auditVars
<1>2. \/ /\ ldPc = "checks" /\ ldJoined = Cardinality(Lookers)
         /\ ldAnswer' = {ldAudited} /\ ldPc' = "sort"
      \/ /\ ldPc = "sort" /\ ldAnswer' = ldAnswer
         /\ ldPc' = IF ldAnswer = {ldAudited} THEN "idle" ELSE "failed"
  BY LanCounts DEF Lan!BeginSort, Lan!EndSort
<1>3. Lan!TypeOK'  BY <1>1, <1>2 DEF LanInv, Lan!TypeOK, Lan!Places
<1>4. LookupsRead' /\ TimeoutKept'  BY <1>1, LookupsUntouched DEF Lan!lookupVars
<1>5. LeftIsKnown' /\ ChecksEnd'  BY <1>1 DEF LanInv, LeftIsKnown, ChecksEnd
<1>6. LanUnbegun' /\ DevicesAccounted' /\ SourcesOnTime'
  BY <1>1, <1>2 DEF LanInv, LanUnbegun, NotAsked, LanAnswered, DevicesAccounted, SourcesOnTime
<1>7. PoolsOnTime'
  <2>1. ldPc = "checks" /\ ldJoined = Cardinality(Lookers) /\ ~ldLate => ldChecks.ended = Lookers
    <3>1. ldChecks.ended \subseteq Lookers  BY DEF LanInv, Lan!TypeOK, Lan!Pools
    <3>2. \A w \in Lookers : w <= Cardinality(Lookers)  BY NumbersOfWorkers
    <3> QED  BY <3>1, <3>2 DEF LanInv, PoolsOnTime
  <2> QED  BY <1>1, <1>2, <2>1 DEF LanInv, PoolsOnTime, LanAnswered
<1> QED  BY <1>3, <1>4, <1>5, <1>6, <1>7 DEF LanInv

\* Every step keeps the invariant.
LEMMA LanInvNext ==
  ASSUME LanInv, Lan!LanConstantsOK, [Lan!Next]_(Lan!vars)
  PROVE  LanInv'
<1>1. CASE UNCHANGED Lan!vars
  <2>1. UNCHANGED <<ldPc, ldJoined, ldAsking, ldResults, ldMerging, ldDevices, ldNamed,
                    ldLabel, ldLookups, ldTimeout, ldOriginal, ldShortened, ldCrossed,
                    ldChecks, ldAudited, ldAnswer, ldLate>>
    BY <1>1 DEF Lan!vars, Lan!sourceVars, Lan!lookupVars, Lan!auditVars
  <2> QED
    BY <2>1
       DEF LanInv, Lan!TypeOK, LeftIsKnown, LookupsRead, TimeoutKept, ChecksEnd, LanUnbegun,
           NotAsked, LanAnswered, DevicesAccounted, SourcesOnTime, PoolsOnTime
<1>2. CASE Lan!Discover  BY <1>2, DiscoverKeeps
<1>3. CASE Lan!Caller
  BY <1>3, GatherKeeps, MergeKeeps, BeginNamesKeeps, JoinEndsKeeps, ClassifyKeeps, SortKeeps
     DEF Lan!Caller
<1>4. CASE Lan!Others
  BY <1>4, SourceKeeps, TakeLookupKeeps, TimeoutStepKeeps, LookupEndsKeeps,
      TakeCheckKeeps, CheckEndsKeeps
     DEF Lan!Others
<1> QED  BY <1>1, <1>2, <1>3, <1>4 DEF Lan!Next

(***************************************************************************)
(* Connectivity                                                            *)
(*                                                                         *)
(* What a call has established on its way stays established until it       *)
(* answers, because only the call at work changes it and nothing from      *)
(* outside does so silently.                                               *)
(***************************************************************************)

\* What a call has established on the way, which nothing else can undo while it runs.
CallKnows ==
  /\ ncCall # Net!Idle => ncAnswer = {}
  /\ ncCall.op \in {"profile", "connect"} => ncCall.what \in Ssids
  /\ ncCall.op = "configure" => ncCall.what \in Hotspots
  /\ ncCall.op = "connect" /\ ncCall.at = "wait" => ncCall.what \in ncProfiles
  /\ ncCall.op = "share" =>
       /\ ncCall.from \in Adapters /\ ncCall.to \in Adapters /\ ncCall.from # ncCall.to
       /\ ncCall.at = "half" => ncRole[ncCall.from] = (IF ncCall.on THEN "source" ELSE "none")

\* With what is promised, it is inductive.
NetInv == Net!TypeOK /\ CallKnows /\ Net!OkIsTrue /\ Net!KeyIsGone

\* A call that begins is a call, and says what it is for.
LEMMA CallsOf ==
  ASSUME NEW op \in Net!Ops, NEW what \in Ssids \cup Hotspots \cup {NoNet}
  PROVE  /\ Net!CallOf(op, what) \in Net!Calls
         /\ Net!CallOf(op, what).op = op /\ Net!CallOf(op, what).what = what
         /\ Net!CallOf(op, what).at = "ask"
BY DEF Net!CallOf, Net!Calls

\* So is the one that stands for none.
LEMMA IdleIs == Net!Idle \in Net!Calls /\ Net!Idle.op = "idle"
BY DEF Net!Idle, Net!CallOf, Net!Calls, Net!Ops

\* A call that ends in an error, or is cut short, claims nothing.
LEMMA RefusedKeeps ==
  ASSUME NetInv, Net!Refuses, Net!TypeOK', Net!KeyIsGone'
  PROVE  NetInv'
BY IdleIs DEF Net!Refuses, NetInv, CallKnows, Net!OkIsTrue

\* Nobody has called.
LEMMA NetInvInit == Net!Init => NetInv
<1> SUFFICES ASSUME Net!Init PROVE NetInv  OBVIOUS
<1>1. Net!TypeOK  BY IdleIs DEF Net!Init, Net!TypeOK
<1> QED  BY <1>1, IdleIs DEF Net!Init, NetInv, CallKnows, Net!OkIsTrue, Net!KeyIsGone

\* A call begins with nothing answered.
LEMMA AskJoinKeeps ==
  ASSUME NetInv, Net!AskConnect \/ Net!AskHotspot
  PROVE  NetInv'
<1>1. PICK op \in Net!Ops, what \in Ssids \cup Hotspots \cup {NoNet} :
        /\ Net!Begin(Net!CallOf(op, what))
        /\ op \in {"profile", "connect"} => what \in Ssids
        /\ op = "configure" => what \in Hotspots
        /\ op \in {"profile", "connect", "configure", "start", "stop"}
  BY DEF Net!AskConnect, Net!AskHotspot, Net!Ops
<1>2. /\ ncCall = Net!Idle /\ ncCall' \in Net!Calls /\ ncCall'.op = op /\ ncCall'.what = what
      /\ ncAnswer' = {}
  BY <1>1, CallsOf DEF Net!Begin
<1>3. UNCHANGED <<ncProfiles, ncKeyFile, ncJoined, ncJoining, ncInternet, ncHotspot, ncConfig,
                  ncRole, ncStuck>>
  BY DEF Net!AskConnect, Net!AskHotspot, Net!netVars, Net!spotVars
<1>4. ncCall'.at = "ask"  BY <1>1, CallsOf DEF Net!Begin
<1>5. Net!TypeOK'  BY <1>2, <1>3 DEF NetInv, Net!TypeOK
<1>6. CallKnows'  BY <1>1, <1>2, <1>4 DEF CallKnows
<1>7. Net!OkIsTrue'  BY <1>2 DEF Net!OkIsTrue
<1>8. Net!KeyIsGone'  BY <1>2, <1>3, IdleIs DEF NetInv, Net!KeyIsGone
<1> QED  BY <1>5, <1>6, <1>7, <1>8 DEF NetInv

\* A call moves to its next place.
LEMMA NetGotoIs ==
  ASSUME ncCall \in Net!Calls, NEW place \in {"ask", "half", "wait"}, Net!Goto(place)
  PROVE  /\ ncCall' \in Net!Calls /\ ncCall'.at = place /\ ncAnswer' = ncAnswer
         /\ ncCall'.op = ncCall.op /\ ncCall'.what = ncCall.what /\ ncCall'.from = ncCall.from
         /\ ncCall'.to = ncCall.to /\ ncCall'.on = ncCall.on
BY DEF Net!Goto, Net!Calls

\* The key is written to a file, and the file is gone when the profile has been added, or
\* not.
LEMMA ProfileKeeps ==
  ASSUME NetInv, Net!WriteKey \/ Net!AddProfile
  PROVE  NetInv'
<1>1. /\ ncCall.op = "profile" /\ ncCall # Net!Idle /\ ncAnswer = {} /\ ncCall.what \in Ssids
      /\ ncCall \in Net!Calls
      /\ UNCHANGED <<ncJoined, ncJoining, ncInternet, ncHotspot, ncConfig, ncRole>>
  BY IdleIs
     DEF Net!WriteKey, Net!AddProfile, Net!Doing, NetInv, Net!TypeOK, CallKnows, Net!spotVars
<1>2. CASE Net!WriteKey
  <2>1. ncKeyFile' = TRUE /\ Net!Goto("half") /\ UNCHANGED <<ncProfiles, ncStuck>>
    BY <1>2 DEF Net!WriteKey
  <2>2. /\ ncCall' \in Net!Calls /\ ncCall'.op = "profile" /\ ncCall'.what = ncCall.what
        /\ ncAnswer' = {}
    BY <1>1, <2>1, NetGotoIs
  <2> QED
    BY <1>1, <2>1, <2>2 DEF NetInv, Net!TypeOK, CallKnows, Net!OkIsTrue, Net!KeyIsGone
<1>3. CASE Net!AddProfile
  <2>1. ncProfiles' \subseteq Ssids /\ ncProfiles \subseteq ncProfiles'
        /\ ncKeyFile' \in BOOLEAN /\ ncStuck' \in BOOLEAN
    BY <1>1, <1>3 DEF Net!AddProfile, Net!Refuses, NetInv, Net!TypeOK
  <2>2. ncKeyFile' => ncStuck'
    BY <1>3 DEF Net!AddProfile
  <2>3. CASE ncCall' = Net!CallOf("connect", ncCall.what) /\ UNCHANGED ncAnswer
    <3>1. /\ ncCall' \in Net!Calls /\ ncCall'.op = "connect" /\ ncCall'.what = ncCall.what
          /\ ncCall'.at = "ask"
      BY <1>1, <2>3, CallsOf DEF Net!Ops
    <3> QED
      BY <1>1, <2>1, <2>2, <2>3, <3>1
         DEF NetInv, Net!TypeOK, CallKnows, Net!OkIsTrue, Net!KeyIsGone
  <2>4. CASE Net!Refuses
    <3>1. Net!TypeOK' /\ Net!KeyIsGone'
      BY <1>1, <2>1, <2>2, <2>4, IdleIs DEF NetInv, Net!TypeOK, Net!KeyIsGone, Net!Refuses
    <3> QED  BY <2>4, <3>1, RefusedKeeps
  <2> QED  BY <1>3, <2>3, <2>4 DEF Net!AddProfile
<1> QED  BY <1>2, <1>3

\* A join is requested, awaited and given up.
LEMMA JoinKeeps ==
  ASSUME NetInv, Net!RequestJoin \/ Net!Poll \/ Net!GiveUpJoin
  PROVE  NetInv'
<1>1. /\ ncCall.op = "connect" /\ ncCall # Net!Idle /\ ncAnswer = {} /\ ncCall \in Net!Calls
      /\ UNCHANGED <<ncProfiles, ncKeyFile, ncJoined, ncInternet, ncHotspot, ncConfig, ncRole,
                     ncStuck>>
      /\ ncProfiles \subseteq Ssids
  BY IdleIs
     DEF Net!RequestJoin, Net!Poll, Net!GiveUpJoin, Net!Doing, NetInv, Net!TypeOK, CallKnows,
         Net!netVars, Net!spotVars
<1>2. ncKeyFile => ncStuck  BY <1>1 DEF NetInv, Net!KeyIsGone
<1>3. CASE Net!Refuses
  <2>1. ncJoining' \in Ssids \cup {NoNet}
    BY <1>1 DEF Net!RequestJoin, Net!Poll, Net!GiveUpJoin, NetInv, Net!TypeOK, Net!netVars
  <2>2. Net!TypeOK' /\ Net!KeyIsGone'
    BY <1>1, <1>2, <1>3, <2>1, IdleIs DEF NetInv, Net!TypeOK, Net!KeyIsGone, Net!Refuses
  <2> QED  BY <1>3, <2>2, RefusedKeeps
<1>4. CASE /\ Net!RequestJoin /\ ncCall.what \in ncProfiles /\ ncJoining' = ncCall.what
           /\ Net!Goto("wait")
  <2>1. /\ ncCall' \in Net!Calls /\ ncCall'.op = "connect" /\ ncCall'.what = ncCall.what
        /\ ncAnswer' = {}
    BY <1>1, <1>4, NetGotoIs
  <2> QED
    BY <1>1, <1>2, <1>4, <2>1 DEF NetInv, Net!TypeOK, CallKnows, Net!OkIsTrue, Net!KeyIsGone
<1>5. CASE Net!Poll
  <2>1. /\ ncCall.at = "wait" /\ ncJoined = ncCall.what /\ ncCall' = Net!Idle
        /\ ncAnswer' = {ncCall}
        /\ ncJoining' = ncJoining
    BY <1>5 DEF Net!Poll, Net!Doing, Net!Succeeds, Net!netVars
  <2>2. ncCall.what \in ncProfiles  BY <1>1, <2>1 DEF NetInv, CallKnows
  <2>3. Net!OkIsTrue'  BY <1>1, <2>1, <2>2 DEF Net!OkIsTrue
  <2> QED  BY <1>1, <1>2, <2>1, <2>3, IdleIs DEF NetInv, Net!TypeOK, CallKnows, Net!KeyIsGone
<1> QED  BY <1>3, <1>4, <1>5 DEF Net!RequestJoin, Net!Poll, Net!GiveUpJoin

\* Windows joins, drops and leaves networks by itself.
LEMMA WindowsKeeps ==
  ASSUME NetInv, Net!JoinEnds \/ Net!Drops \/ Net!Disconnect
  PROVE  NetInv'
<1>1. /\ ncAnswer' = {} /\ ncJoined' \in Ssids \cup {NoNet} /\ ncJoining' \in Ssids \cup {NoNet}
      /\ UNCHANGED <<ncCall, ncProfiles, ncKeyFile, ncInternet, ncHotspot, ncConfig, ncRole,
                     ncStuck>>
  BY DEF Net!JoinEnds, Net!Drops, Net!Disconnect, NetInv, Net!TypeOK, Net!spotVars
<1> QED  BY <1>1 DEF NetInv, Net!TypeOK, CallKnows, Net!OkIsTrue, Net!KeyIsGone

\* The process dies, or the helper is killed.
LEMMA EndsKeep ==
  ASSUME NetInv, Net!Dies \/ Net!HelperTimesOut
  PROVE  NetInv'
<1>1. /\ Net!Refuses
      /\ UNCHANGED <<ncProfiles, ncKeyFile, ncJoined, ncJoining, ncInternet, ncHotspot,
                     ncConfig, ncRole>>
  BY DEF Net!Dies, Net!HelperTimesOut, Net!netVars, Net!spotVars
<1>2. ncStuck' \in BOOLEAN /\ (ncKeyFile => ncStuck')
  BY DEF Net!Dies, Net!HelperTimesOut, NetInv, Net!TypeOK, Net!KeyIsGone
<1>3. Net!TypeOK' /\ Net!KeyIsGone'
  BY <1>1, <1>2, IdleIs DEF NetInv, Net!TypeOK, Net!KeyIsGone, Net!Refuses
<1> QED  BY <1>1, <1>3, RefusedKeeps

\* The hotspot is configured, started and stopped.
LEMMA HotspotKeeps ==
  ASSUME NetInv, Net!Configure \/ Net!Tether \/ Net!TetherResult
  PROVE  NetInv'
<1>1. /\ ncCall.op \in {"configure", "start", "stop"} /\ ncCall # Net!Idle /\ ncAnswer = {}
      /\ ncCall \in Net!Calls
      /\ UNCHANGED <<ncProfiles, ncKeyFile, ncJoined, ncJoining, ncInternet, ncRole, ncStuck>>
      /\ ncCall.op = "configure" => ncCall.what \in Hotspots
  BY IdleIs
     DEF Net!Configure, Net!Tether, Net!TetherResult, Net!Doing, NetInv, Net!TypeOK, CallKnows,
         Net!netVars, Net!spotVars
<1>2. ncKeyFile => ncStuck  BY <1>1 DEF NetInv, Net!KeyIsGone
<1>3. /\ ncHotspot' \in {"off", "starting", "on", "stopping"}
      /\ ncConfig' \in Hotspots \cup {NoNet}
  BY <1>1
     DEF Net!Configure, Net!Tether, Net!TetherResult, Net!Doing, NetInv, Net!TypeOK,
         Net!spotVars
<1>4. CASE Net!Refuses
  <2>1. Net!TypeOK' /\ Net!KeyIsGone'
    BY <1>1, <1>2, <1>3, <1>4, IdleIs DEF NetInv, Net!TypeOK, Net!KeyIsGone, Net!Refuses
  <2> QED  BY <1>4, <2>1, RefusedKeeps
<1>5. CASE Net!Succeeds
  <2>1. ncCall' = Net!Idle /\ ncAnswer' = {ncCall}  BY <1>5 DEF Net!Succeeds
  <2>2. Net!OkIsTrue'  BY <1>1, <1>5, <2>1 DEF Net!OkIsTrue
  <2> QED
    BY <1>1, <1>2, <1>3, <2>1, <2>2, IdleIs DEF NetInv, Net!TypeOK, CallKnows, Net!KeyIsGone
<1>6. CASE ncCall.op \in {"start", "stop"} /\ Net!Goto("wait")
  <2>1. ncCall' \in Net!Calls /\ ncCall'.op = ncCall.op /\ ncAnswer' = {}
    BY <1>1, <1>6, NetGotoIs
  <2> QED
    BY <1>1, <1>2, <1>3, <1>6, <2>1
       DEF NetInv, Net!TypeOK, CallKnows, Net!OkIsTrue, Net!KeyIsGone
<1> QED  BY <1>4, <1>5, <1>6 DEF Net!Configure, Net!Tether, Net!TetherResult, Net!Doing

\* Windows changes its mind about what no call claims.
LEMMA HotspotMoves ==
  ASSUME NetInv, Net!TetherEnds \/ Net!InternetChanges
  PROVE  NetInv'
<1>1. /\ ncInternet' \in BOOLEAN /\ ncHotspot' \in {"off", "starting", "on", "stopping"}
      /\ UNCHANGED <<ncCall, ncAnswer, ncProfiles, ncKeyFile, ncJoined, ncJoining, ncConfig,
                     ncRole, ncStuck>>
  BY DEF Net!TetherEnds, Net!InternetChanges, NetInv, Net!TypeOK, Net!netVars
<1> QED  BY <1>1 DEF NetInv, Net!TypeOK, CallKnows, Net!OkIsTrue, Net!KeyIsGone

\* A call to share one adapter's connection with another begins.
LEMMA AskShareKeeps ==
  ASSUME NetInv, Net!AskShare
  PROVE  NetInv'
<1>1. PICK s \in Adapters, t \in Adapters, flag \in BOOLEAN :
        s # t /\ Net!Begin([Net!CallOf("share", NoNet) EXCEPT !.from = s, !.to = t, !.on = flag])
  BY DEF Net!AskShare
<1>2. /\ ncCall = Net!Idle /\ ncAnswer' = {} /\ ncCall' \in Net!Calls /\ ncCall'.op = "share"
      /\ ncCall'.at = "ask"
      /\ ncCall'.from = s /\ ncCall'.to = t
  BY <1>1 DEF Net!Begin, Net!CallOf, Net!Calls, Net!Ops
<1>3. UNCHANGED <<ncProfiles, ncKeyFile, ncJoined, ncJoining, ncInternet, ncHotspot, ncConfig,
                  ncRole, ncStuck>>
  BY DEF Net!AskShare, Net!netVars, Net!spotVars
<1>4. Net!TypeOK'  BY <1>2, <1>3 DEF NetInv, Net!TypeOK
<1>5. CallKnows' /\ Net!OkIsTrue'  BY <1>1, <1>2 DEF CallKnows, Net!OkIsTrue
<1>6. Net!KeyIsGone'  BY <1>2, <1>3, IdleIs DEF NetInv, Net!KeyIsGone
<1> QED  BY <1>4, <1>5, <1>6 DEF NetInv

\* One side, then the other, which leaves the first as it is.
LEMMA ShareKeeps ==
  ASSUME NetInv, Net!ShareSource \/ Net!ShareTarget
  PROVE  NetInv'
<1>1. /\ ncCall.op = "share" /\ ncCall # Net!Idle /\ ncAnswer = {} /\ ncCall \in Net!Calls
      /\ ncCall.on \in BOOLEAN
      /\ ncCall.from \in Adapters /\ ncCall.to \in Adapters /\ ncCall.from # ncCall.to
      /\ UNCHANGED <<ncProfiles, ncKeyFile, ncJoined, ncJoining, ncInternet, ncHotspot,
                     ncConfig, ncStuck>>
  BY IdleIs
     DEF Net!ShareSource, Net!ShareTarget, Net!Doing, NetInv, Net!TypeOK, Net!Calls, CallKnows,
         Net!netVars
<1>2. ncKeyFile => ncStuck  BY <1>1 DEF NetInv, Net!KeyIsGone
<1>3. ncRole' \in [Adapters -> {"source", "target", "none"}]
  BY <1>1 DEF Net!ShareSource, Net!ShareTarget, NetInv, Net!TypeOK
<1>4. CASE Net!Refuses
  <2>1. Net!TypeOK' /\ Net!KeyIsGone'
    BY <1>1, <1>2, <1>3, <1>4, IdleIs DEF NetInv, Net!TypeOK, Net!KeyIsGone, Net!Refuses
  <2> QED  BY <1>4, <2>1, RefusedKeeps
<1>5. CASE Net!ShareSource /\ ~Net!Refuses
  <2>1. /\ ncRole'[ncCall.from] = (IF ncCall.on THEN "source" ELSE "none") /\ Net!Goto("half")
    BY <1>1, <1>5 DEF Net!ShareSource
  <2>2. /\ ncCall' \in Net!Calls /\ ncCall'.op = "share" /\ ncCall'.from = ncCall.from
        /\ ncCall'.to = ncCall.to
        /\ ncCall'.on = ncCall.on /\ ncAnswer' = {}
    BY <1>1, <2>1, NetGotoIs
  <2> QED
    BY <1>1, <1>2, <1>3, <2>1, <2>2
       DEF NetInv, Net!TypeOK, CallKnows, Net!OkIsTrue, Net!KeyIsGone
<1>6. CASE Net!ShareTarget /\ ~Net!Refuses
  <2>1. /\ ncCall.at = "half" /\ ncCall' = Net!Idle /\ ncAnswer' = {ncCall}
        /\ ncRole' = [a \in Adapters |->
                       IF a = ncCall.to THEN IF ncCall.on THEN "target" ELSE "none"
                       ELSE IF ncCall.on /\ ncRole[a] = "target" THEN "none" ELSE ncRole[a]]
    BY <1>6 DEF Net!ShareTarget, Net!Doing, Net!Succeeds
  <2>2. ncRole[ncCall.from] = (IF ncCall.on THEN "source" ELSE "none")
    BY <1>1, <2>1 DEF NetInv, CallKnows
  <2>3. /\ ncRole'[ncCall.to] = (IF ncCall.on THEN "target" ELSE "none")
        /\ ncRole'[ncCall.from] = ncRole[ncCall.from]
    BY <1>1, <2>1, <2>2
  <2>4. Net!OkIsTrue'  BY <1>1, <2>1, <2>2, <2>3 DEF Net!OkIsTrue
  <2> QED
    BY <1>1, <1>2, <1>3, <2>1, <2>4, IdleIs DEF NetInv, Net!TypeOK, CallKnows, Net!KeyIsGone
<1> QED  BY <1>4, <1>5, <1>6

\* Every step keeps the invariant.
LEMMA NetInvNext ==
  ASSUME NetInv, [Net!Next]_(Net!vars)
  PROVE  NetInv'
<1>1. CASE UNCHANGED Net!vars
  BY <1>1
     DEF Net!vars, Net!netVars, Net!spotVars, NetInv, Net!TypeOK, CallKnows, Net!OkIsTrue,
         Net!KeyIsGone
<1>2. CASE Net!JoinNext
  BY <1>2, AskJoinKeeps, ProfileKeeps, JoinKeeps, WindowsKeeps, EndsKeep DEF Net!JoinNext
<1>3. CASE Net!SpotNext
  BY <1>3, AskJoinKeeps, HotspotKeeps, HotspotMoves, AskShareKeeps, ShareKeeps, EndsKeep
     DEF Net!SpotNext
<1> QED  BY <1>1, <1>2, <1>3 DEF Net!Next

(***************************************************************************)
(* Processes                                                               *)
(*                                                                         *)
(* A session has one owner, numbers are never used twice, and each stage   *)
(* of a process says which of its resources it has by then.  What is open  *)
(* and was not let go of will be halted by the teardown, because scanning  *)
(* is on in the memory of its process, whatever the file says.             *)
(***************************************************************************)

\* Before it begins a session, before it has an engine, and once the flag of a crash is
\* cleared.
Unbegun == {"off", "start", "boot", "port", "clear", "claim", "bind", "work"}
Unclaimed == Unbegun \ {"bind"}
Cleared == Machine!Stages \ {"off", "start", "boot", "port", "clear", "work"}

\* Sessions are numbered from one, and those on file or in hand have numbers that were
\* used.
NumbersAreUsed ==
  /\ psOpen \subseteq 1..psSessions
  /\ \A p \in Procs : psSession[p] \in 0..psSessions

\* No two processes have the same session.
SessionsAreOwn == \A p, q \in Procs : psSession[p] = psSession[q] /\ psSession[p] # 0 => p = q

\* A process has no session, no engine and no flag in memory before the stage that gives
\* it.
NothingBeforeItsStage ==
  \A p \in Procs :
    /\ psStage[p] \in Unbegun => psSession[p] = 0
    /\ psStage[p] \in Unclaimed => ~psEngine[p]
    /\ psStage[p] \in Cleared => (psMemory[p] => psAsked[p] \/ Autostart)

\* Until the teardown has been where it halts, an open session that was not let go of is
\* scanned for, so that it will be halted there; after that there is none.
HaltIsAhead ==
  \A p \in Procs : psSession[p] \in psOpen =>
    psSession[p] \in psLost \/ (psMemory[p] /\ psStage[p] \in {"up", "halt", "hung"})

\* With what is promised, they are inductive.
ProcessInv ==
  /\ Machine!TypeOK /\ NumbersAreUsed /\ SessionsAreOwn /\ NothingBeforeItsStage
  /\ HaltIsAhead
  /\ Machine!LiveSessionIsOpen /\ Machine!CleanExitClosesSession

\* An engine scans because the process was asked to, or is set up to.
LEMMA InvKeepsSessions == ProcessInv => Machine!ScansOnlyWhenAsked
BY DEF ProcessInv, Machine!TypeOK, NothingBeforeItsStage, Machine!ScansOnlyWhenAsked, Unclaimed,
   Unbegun, Cleared, Machine!Stages, Machine!TeardownSteps

\* No process runs, and no session is open.
LEMMA ProcessInvInit == ASSUME Machine!ProcessConstantsOK, Machine!Init PROVE ProcessInv
<1> USE DEF Machine!Init, Machine!ProcessConstantsOK
<1>1. Machine!TypeOK
  <2>1. "off" \in Machine!Stages /\ 0 \in 0..MaxSessions /\ 0 \in 0..MaxLives
    BY DEF Machine!Stages
  <2> QED BY <2>1 DEF Machine!TypeOK
<1>2. NumbersAreUsed /\ SessionsAreOwn
  BY DEF NumbersAreUsed, SessionsAreOwn
<1>3. NothingBeforeItsStage /\ HaltIsAhead
  BY DEF NothingBeforeItsStage, Unbegun, Unclaimed, Cleared, HaltIsAhead
<1>4. Machine!LiveSessionIsOpen /\ Machine!CleanExitClosesSession
  BY DEF Machine!LiveSessionIsOpen, Machine!CleanExitClosesSession
<1> QED BY <1>1, <1>2, <1>3, <1>4 DEF ProcessInv

\* A process that ends in order leaves no session that it was to close, and one that is
\* killed leaves its own to the next start.
LEMMA EndsKeeps ==
  ASSUME Machine!ProcessConstantsOK, ProcessInv, NEW p \in Procs,
         \/ Machine!IsKilled(p)
         \/ Machine!EndsInOrder(p) /\ psStage[p] \in {"boot", "port", "work", "exit"}
  PROVE  ProcessInv'
<1> USE DEF ProcessInv, Machine!Ends, Machine!Goto
<1>0. Machine!Ends(p)
  BY DEF Machine!IsKilled, Machine!EndsInOrder
<1>1. /\ psLost' = psLost \/ psLost' = psLost \cup ({psSession[p]} \cap psOpen)
      /\ psSession[p] \in psOpen => psSession[p] \in psLost'
  BY DEF Machine!IsKilled, Machine!EndsInOrder, Machine!LetGo, HaltIsAhead
<1>2. Machine!TypeOK'
  <2>1. "off" \in Machine!Stages /\ 0 \in 0..MaxSessions
    BY DEF Machine!Stages, Machine!ProcessConstantsOK
  <2>2. psLost' \subseteq 1..MaxSessions
    BY <1>1 DEF Machine!TypeOK
  <2>3. psPort' \in Procs \cup {Nobody}
    BY <1>0 DEF Machine!TypeOK
  <2> QED BY <1>0, <2>1, <2>2, <2>3 DEF Machine!TypeOK
<1>3. NumbersAreUsed' /\ SessionsAreOwn'
  BY <1>0 DEF Machine!TypeOK, NumbersAreUsed, SessionsAreOwn
<1>4. NothingBeforeItsStage'
  BY <1>0 DEF Machine!TypeOK, NothingBeforeItsStage, Unbegun, Unclaimed, Cleared
<1>5. HaltIsAhead'
  <2>1. psSession'[p] = 0 /\ 0 \notin psOpen'
    BY <1>0 DEF Machine!TypeOK
  <2>2. \A q \in Procs : q # p => /\ psSession'[q] = psSession[q] /\ psMemory'[q] = psMemory[q]
                                 /\ psStage'[q] = psStage[q]
    BY <1>0 DEF Machine!TypeOK
  <2> QED BY <1>0, <1>1, <2>1, <2>2 DEF HaltIsAhead
<1>6. Machine!LiveSessionIsOpen'
  BY <1>0 DEF Machine!TypeOK, Machine!LiveSessionIsOpen
<1>7. Machine!CleanExitClosesSession'
  BY <1>0, <1>1 DEF Machine!TypeOK, Machine!CleanExitClosesSession
<1> QED BY <1>2, <1>3, <1>4, <1>5, <1>6, <1>7

\* The steps of a start that open no session.
StartsPlain(p) ==
  \/ \E what \in Machine!Kinds : Machine!Launch(p, what)
  \/ Machine!Dispatch(p) \/ Machine!Boot(p) \/ Machine!CheckPort(p) \/ Machine!ClearFlag(p)
  \/ Machine!Bind(p)

\* They keep the invariant.
LEMMA StartsKeep ==
  ASSUME Machine!ProcessConstantsOK, ProcessInv, NEW p \in Procs, StartsPlain(p)
  PROVE  ProcessInv'
<1> USE DEF ProcessInv, Machine!Goto, Machine!sharedVars, Machine!pastVars, StartsPlain,
            Machine!Launch, Machine!Dispatch, Machine!Boot, Machine!CheckPort,
            Machine!ClearFlag, Machine!Bind
<1>1. Machine!TypeOK'
  <2>1. PICK place \in Machine!Stages : psStage' = [psStage EXCEPT ![p] = place]
    BY DEF Machine!Stages, Machine!TeardownSteps
  <2>2. psLives' \in 0..MaxLives
    BY DEF Machine!TypeOK, Machine!ProcessConstantsOK
  <2>3. psKind' \in [Procs -> Machine!Kinds \cup {"none"}]
    BY DEF Machine!TypeOK
  <2>4. /\ psMemory' \in [Procs -> BOOLEAN] /\ psSaved' \in BOOLEAN
        /\ psPort' \in Procs \cup {Nobody}
    <3>1. psSaved \in BOOLEAN /\ psSaved' \in BOOLEAN
      BY DEF Machine!TypeOK
    <3>2. \/ psMemory' = psMemory \/ psMemory' = [psMemory EXCEPT ![p] = FALSE]
          \/ psMemory' = [psMemory EXCEPT ![p] = psSaved]
      OBVIOUS
    <3>3. psMemory' \in [Procs -> BOOLEAN]
      BY <3>1, <3>2 DEF Machine!TypeOK
    <3> QED BY <3>1, <3>3 DEF Machine!TypeOK
  <2>5. UNCHANGED <<psSession, psOpen, psSessions, psEngine, psArmed, psAsked, psOvertaken,
                    psLost>>
    OBVIOUS
  <2>6. psStage' \in [Procs -> Machine!Stages]
    BY <2>1 DEF Machine!TypeOK
  <2> HIDE DEF Machine!Goto, Machine!sharedVars, Machine!pastVars, StartsPlain, Machine!Launch,
               Machine!Dispatch, Machine!Boot, Machine!CheckPort, Machine!ClearFlag,
               Machine!Bind
  <2> QED BY <2>2, <2>3, <2>4, <2>5, <2>6 DEF Machine!TypeOK
<1>2. NumbersAreUsed' /\ SessionsAreOwn'
  BY DEF Machine!TypeOK, NumbersAreUsed, SessionsAreOwn
<1>3. NothingBeforeItsStage'
  BY DEF Machine!TypeOK, NothingBeforeItsStage, Unbegun, Unclaimed, Cleared, Machine!Stages,
     Machine!TeardownSteps
<1>4. Machine!LiveSessionIsOpen' /\ Machine!CleanExitClosesSession'
  BY DEF Machine!TypeOK, Machine!LiveSessionIsOpen, Machine!CleanExitClosesSession
<1>5. HaltIsAhead'
  <2>1. psSession[p] = 0 /\ 0 \notin psOpen
    BY DEF Machine!TypeOK, NothingBeforeItsStage, Unbegun
  <2>2. UNCHANGED <<psSession, psOpen, psLost>>
    OBVIOUS
  <2>3. \A q \in Procs : q # p => psMemory'[q] = psMemory[q] /\ psStage'[q] = psStage[q]
    BY DEF Machine!TypeOK
  <2> QED BY <2>1, <2>2, <2>3 DEF HaltIsAhead
<1> QED BY <1>1, <1>2, <1>3, <1>4, <1>5

\* The start that finds the sessions of a process that died closes them.
LEMMA ClaimKeeps ==
  ASSUME Machine!ProcessConstantsOK, ProcessInv, NEW p \in Procs, Machine!Claim(p)
  PROVE  ProcessInv'
<1> USE DEF ProcessInv, Machine!Goto, Machine!Claim
<1>1. Machine!TypeOK'
  BY DEF Machine!TypeOK, Machine!Stages, Machine!TeardownSteps
<1>2. NumbersAreUsed' /\ SessionsAreOwn'
  BY DEF Machine!TypeOK, NumbersAreUsed, SessionsAreOwn
<1>3. NothingBeforeItsStage'
  BY DEF Machine!TypeOK, NothingBeforeItsStage, Unbegun, Unclaimed, Cleared, Machine!Stages,
     Machine!TeardownSteps
<1>4. Machine!LiveSessionIsOpen'
  BY DEF Machine!TypeOK, Machine!LiveSessionIsOpen, NothingBeforeItsStage, Unbegun
<1>5. Machine!CleanExitClosesSession' /\ HaltIsAhead'
  BY DEF Machine!CleanExitClosesSession, HaltIsAhead
<1> QED BY <1>1, <1>2, <1>3, <1>4, <1>5

\* A new session has a number of its own, and what was open before is let go of.
LEMMA BeginKeeps ==
  ASSUME Machine!ProcessConstantsOK, ProcessInv, NEW p \in Procs, Machine!Begin(p)
  PROVE  ProcessInv'
<1> USE DEF ProcessInv
<1>0. /\ psSessions \in Nat /\ psSessions < MaxSessions /\ MaxSessions \in Nat
      /\ psSessions' = psSessions + 1 /\ psOpen' = psOpen \cup {psSessions'}
      /\ psMemory' = [psMemory EXCEPT ![p] = TRUE] /\ psSaved' = TRUE
      /\ psAsked' = [psAsked EXCEPT ![p] = TRUE]
      /\ psOvertaken' = [psOvertaken EXCEPT ![p] = FALSE]
      /\ UNCHANGED <<psPort, psKind, psStage, psEngine, psArmed, psLives>>
      /\ psStage[p] \in Machine!TeardownSteps \cup {"up", "hung"}
  BY DEF Machine!Begin, Machine!TypeOK, Machine!ProcessConstantsOK, Machine!Live
<1>1. PICK kept \in BOOLEAN :
        /\ psSession' = [psSession EXCEPT ![p] = IF kept THEN psSessions' ELSE 0]
        /\ psLost' = psLost \cup ({psSession[p]} \cap psOpen)
                       \cup (IF kept /\ psStage[p] = "up" THEN {} ELSE {psSessions'})
  BY DEF Machine!Begin
<1>2. /\ psSession'[p] \in {psSessions', 0}
      /\ psSession'[p] = psSessions' \/ psSessions' \in psLost'
      /\ psStage[p] = "up" \/ psSessions' \in psLost'
      /\ \A q \in Procs : q # p => psSession'[q] = psSession[q]
  BY <1>1 DEF Machine!TypeOK
<1>3. psLost \subseteq psLost' /\ psLost' \subseteq psLost \cup psOpen \cup {psSessions'}
  BY <1>1
<1>4. Machine!TypeOK'
  <2>1. psSessions' \in 1..MaxSessions /\ psSessions' \in 0..MaxSessions /\ 0 \in 0..MaxSessions
    BY <1>0
  <2>2. psSession' \in [Procs -> 0..MaxSessions] /\ psLost' \subseteq 1..MaxSessions
    BY <1>1, <1>3, <2>1 DEF Machine!TypeOK
  <2> QED BY <1>0, <2>1, <2>2 DEF Machine!TypeOK
<1>5. NumbersAreUsed'
  <2>1. \A q \in Procs : psSession[q] \in 0..psSessions
    BY DEF NumbersAreUsed
  <2>2. \A q \in Procs : psSession'[q] \in 0..psSessions'
    BY <1>0, <1>2, <2>1
  <2> QED BY <1>0, <2>2 DEF NumbersAreUsed
<1>6. SessionsAreOwn'
  <2>1. \A q \in Procs : psSession[q] \in 0..psSessions
    BY DEF NumbersAreUsed
  <2>2. psSessions' \notin 0..psSessions
    BY <1>0
  <2>3. \A q \in Procs : psSession[q] # psSessions'
    BY <2>1, <2>2
  <2> QED BY <1>2, <2>3 DEF SessionsAreOwn
<1>7. NothingBeforeItsStage'
  BY <1>0, <1>2
     DEF Machine!TypeOK, NothingBeforeItsStage, Unbegun, Unclaimed, Cleared,
         Machine!TeardownSteps
<1>8. HaltIsAhead'
  <2>1. 0 \notin psOpen' /\ psMemory'[p] /\ \A q \in Procs : q # p => psMemory'[q] = psMemory[q]
    BY <1>0 DEF Machine!TypeOK
  <2>2. \A q \in Procs : q # p => psSession'[q] # psSessions'
    BY <1>0, <1>2 DEF NumbersAreUsed
  <2> QED BY <1>0, <1>2, <1>3, <2>1, <2>2 DEF HaltIsAhead
<1>9. Machine!LiveSessionIsOpen'
  BY <1>0, <1>2 DEF Machine!TypeOK, Machine!LiveSessionIsOpen
<1>10. Machine!CleanExitClosesSession'
  <2> SUFFICES ASSUME NEW i \in psOpen'
               PROVE  (\E q \in Procs : psSession'[q] = i) \/ i \in psLost'
    BY DEF Machine!CleanExitClosesSession
  <2>1. CASE i = psSessions'
    BY <1>2, <2>1
  <2>2. CASE i \in psOpen /\ i = psSession[p]
    BY <1>1, <2>2
  <2>3. CASE i \in psOpen /\ i # psSession[p]
    BY <1>2, <1>3, <2>3 DEF Machine!CleanExitClosesSession
  <2> QED BY <1>0, <2>1, <2>2, <2>3
<1> QED BY <1>4, <1>5, <1>6, <1>7, <1>8, <1>9, <1>10

\* A session that is switched off is let go of.
LEMMA SwitchOffKeeps ==
  ASSUME Machine!ProcessConstantsOK, ProcessInv, NEW p \in Procs, Machine!SwitchOff(p)
  PROVE  ProcessInv'
<1> USE DEF ProcessInv, Machine!SwitchOff, Machine!LetGo
<1>1. Machine!TypeOK'
  BY DEF Machine!TypeOK
<1>2. NumbersAreUsed' /\ SessionsAreOwn' /\ Machine!LiveSessionIsOpen'
  BY DEF NumbersAreUsed, SessionsAreOwn, Machine!LiveSessionIsOpen
<1>3. NothingBeforeItsStage'
  BY DEF Machine!TypeOK, NothingBeforeItsStage
<1>4. HaltIsAhead' /\ Machine!CleanExitClosesSession'
  BY DEF Machine!TypeOK, HaltIsAhead, Machine!CleanExitClosesSession
<1> QED BY <1>1, <1>2, <1>3, <1>4

\* A step of the teardown moves the process on, and starts no engine.
Moves(p, place) ==
  /\ psStage[p] \in {"up"} \cup Machine!TeardownSteps
  /\ place \in {psStage[p], "hung", "exit"} \cup Machine!TeardownSteps
  /\ psStage' = [psStage EXCEPT ![p] = place]
  /\ UNCHANGED <<psSessions, psPort, psKind, psLives>>
  /\ psArmed' \in [Procs -> BOOLEAN] /\ psEngine' \in [Procs -> BOOLEAN]
  /\ \A q \in Procs : psEngine'[q] => psEngine[q]

\* It halts; or it leaves what it has open as it is, and knows that, or need not.
Leaves(p, place) ==
  \/ Machine!Halts(p)
  \/ /\ UNCHANGED <<psMemory, psSaved, psOpen, psSession, psAsked, psOvertaken>>
     /\ \/ /\ UNCHANGED psLost
           /\ place \in {"halt", "hung"} \/ psStage[p] \notin {"up", "halt"} \/ ~psMemory[p]
        \/ Machine!LetGo(p)

\* All of the teardown is such steps.
LEMMA StopsMove ==
  ASSUME ProcessInv, NEW p \in Procs,
         \/ Machine!Halt(p) \/ Machine!Close(p) \/ Machine!ShutdownNow(p)
         \/ Machine!TeardownStep(p) \/ Machine!StepRaises(p) \/ Machine!StepHangs(p)
  PROVE  \E place \in Machine!Stages : Moves(p, place) /\ Leaves(p, place)
<1> USE DEF ProcessInv, Machine!TypeOK, Moves, Leaves, Machine!Goto, Machine!sharedVars,
            Machine!pastVars, Machine!TeardownSteps, Machine!Stages
<1>1. CASE Machine!Halt(p)
  <2>1. psStage' = [psStage EXCEPT ![p] = psStage[p]]
    BY <1>1 DEF Machine!Halt
  <2> QED BY <1>1, <2>1 DEF Machine!Halt
<1>2. CASE Machine!Close(p)
  <2>1. Moves(p, "halt") /\ Leaves(p, "halt") BY <1>2 DEF Machine!Close
  <2> QED BY <2>1
<1>3. CASE Machine!ShutdownNow(p)
  <2>1. Moves(p, "halt") /\ Leaves(p, "halt") BY <1>3 DEF Machine!ShutdownNow
  <2> QED BY <2>1
<1>4. CASE Machine!TeardownStep(p)
  <2> DEFINE next == Machine!After[psStage[p]]
  <2>1. Moves(p, next) BY <1>4 DEF Machine!TeardownStep, Machine!After
  <2>2. Leaves(p, next) BY <1>4 DEF Machine!TeardownStep, Machine!After
  <2>3. next \in Machine!Stages BY <1>4 DEF Machine!TeardownStep, Machine!After
  <2> QED BY <2>1, <2>2, <2>3
<1>5. CASE Machine!StepRaises(p)
  <2> DEFINE next == Machine!After[psStage[p]]
  <2>1. Moves(p, next) BY <1>5 DEF Machine!StepRaises, Machine!After
  <2>2. Leaves(p, next) BY <1>5 DEF Machine!StepRaises, Machine!After
  <2>3. next \in Machine!Stages BY <1>5 DEF Machine!StepRaises, Machine!After
  <2> QED BY <2>1, <2>2, <2>3
<1>6. CASE Machine!StepHangs(p)
  <2>1. Moves(p, "hung") /\ Leaves(p, "hung") BY <1>6 DEF Machine!StepHangs
  <2> QED BY <2>1
<1> QED BY <1>1, <1>2, <1>3, <1>4, <1>5, <1>6

\* The step that halts the engine closes the session it has, and no other.
LEMMA HaltsClose ==
  ASSUME Machine!ProcessConstantsOK, ProcessInv, NEW p \in Procs, Machine!Halts(p),
         UNCHANGED psSessions
  PROVE  /\ NumbersAreUsed' /\ SessionsAreOwn' /\ Machine!LiveSessionIsOpen'
         /\ Machine!CleanExitClosesSession'
         /\ psMemory' \in [Procs -> BOOLEAN] /\ psSaved' \in BOOLEAN
         /\ psAsked' \in [Procs -> BOOLEAN] /\ psOvertaken' \in [Procs -> BOOLEAN]
         /\ psOpen' = psOpen \ {psSession[p]} /\ psLost' = psLost \ {psSession[p]}
         /\ psSession' \in [Procs -> 0..MaxSessions]
         /\ ~psMemory'[p] /\ psSession'[p] = 0
         /\ \A q \in Procs : q # p =>
              /\ psMemory'[q] = psMemory[q] /\ psAsked'[q] = psAsked[q]
              /\ psSession'[q] = psSession[q]
<1> USE DEF ProcessInv, Machine!Halts, Machine!TypeOK
<1>1. 0 \in 0..MaxSessions
  BY DEF Machine!ProcessConstantsOK
<1>2. /\ psMemory' \in [Procs -> BOOLEAN] /\ psSaved' \in BOOLEAN
      /\ psAsked' \in [Procs -> BOOLEAN] /\ psOvertaken' \in [Procs -> BOOLEAN]
      /\ psOpen' = psOpen \ {psSession[p]} /\ psLost' = psLost \ {psSession[p]}
      /\ psSession' \in [Procs -> 0..MaxSessions]
      /\ ~psMemory'[p] /\ psSession'[p] = 0
      /\ \A q \in Procs : q # p =>
           /\ psMemory'[q] = psMemory[q] /\ psAsked'[q] = psAsked[q]
           /\ psSession'[q] = psSession[q]
  BY <1>1
<1>3. NumbersAreUsed' /\ SessionsAreOwn'
  <2>1. psSessions \in Nat /\ 0 \in 0..psSessions
    BY <1>1
  <2> QED BY <2>1 DEF NumbersAreUsed, SessionsAreOwn
<1>4. Machine!LiveSessionIsOpen'
  BY DEF Machine!LiveSessionIsOpen, SessionsAreOwn
<1>5. Machine!CleanExitClosesSession'
  <2> SUFFICES ASSUME NEW i \in psOpen', i \notin psLost'
               PROVE  \E q \in Procs : psSession'[q] = i
    BY DEF Machine!CleanExitClosesSession
  <2>1. PICK q \in Procs : psSession[q] = i
    BY DEF Machine!CleanExitClosesSession
  <2>2. q # p /\ psSession'[q] = i
    BY <2>1
  <2> QED BY <2>2
<1> QED BY <1>2, <1>3, <1>4, <1>5

\* So the teardown keeps the invariant.
LEMMA MovesKeep ==
  ASSUME Machine!ProcessConstantsOK, ProcessInv, NEW p \in Procs, NEW place \in Machine!Stages,
         Moves(p, place), Leaves(p, place)
  PROVE  ProcessInv'
<1> USE DEF ProcessInv, Moves
<1>0. /\ psStage'[p] = place /\ 0 \notin psOpen
      /\ \A q \in Procs : q # p => psStage'[q] = psStage[q]
  BY DEF Machine!TypeOK
<1>1. CASE Machine!Halts(p)
  <2>1. Machine!TypeOK'
    BY <1>1, HaltsClose DEF Machine!TypeOK
  <2>2. NothingBeforeItsStage'
    BY <1>1, HaltsClose
       DEF Machine!TypeOK, NothingBeforeItsStage, Unbegun, Unclaimed, Cleared, Machine!Stages,
           Machine!TeardownSteps
  <2>3. HaltIsAhead'
    <3>1. \A q \in Procs : psSession[q] \in psOpen /\ q # p => psSession[q] # psSession[p]
      BY <1>0 DEF SessionsAreOwn
    <3> QED BY <1>0, <1>1, <3>1, HaltsClose DEF HaltIsAhead
  <2> QED BY <1>1, <2>1, <2>2, <2>3, HaltsClose
<1>2. CASE ~Machine!Halts(p)
  <2>0. /\ UNCHANGED <<psMemory, psSaved, psOpen, psSession, psAsked, psOvertaken>>
        /\ psLost \subseteq psLost' /\ psLost' \subseteq psLost \cup psOpen
        /\ \/ place \in {"halt", "hung"} /\ psStage[p] # "hung"
           \/ psStage[p] \notin {"up", "halt"} \/ ~psMemory[p]
           \/ psSession[p] \in psOpen => psSession[p] \in psLost'
    BY <1>2 DEF Leaves, Machine!LetGo, Machine!TeardownSteps
  <2>1. Machine!TypeOK'
    BY <2>0 DEF Machine!TypeOK
  <2>2. /\ NumbersAreUsed' /\ SessionsAreOwn' /\ Machine!LiveSessionIsOpen'
        /\ Machine!CleanExitClosesSession'
    BY <2>0
       DEF NumbersAreUsed, SessionsAreOwn, Machine!LiveSessionIsOpen,
           Machine!CleanExitClosesSession
  <2>3. NothingBeforeItsStage'
    BY <2>0
       DEF Machine!TypeOK, NothingBeforeItsStage, Unbegun, Unclaimed, Cleared, Machine!Stages,
           Machine!TeardownSteps
  <2>4. HaltIsAhead'
    <3>1. psStage[p] # "hung" BY DEF Machine!TeardownSteps
    <3> QED BY <1>0, <2>0, <3>1 DEF HaltIsAhead
  <2> QED BY <2>1, <2>2, <2>3, <2>4
<1> QED BY <1>1, <1>2

\* Every step keeps it.
LEMMA ProcessInvNext ==
  ASSUME Machine!ProcessConstantsOK, ProcessInv, [Machine!Next]_(Machine!vars) PROVE ProcessInv'
<1>1. CASE UNCHANGED Machine!vars
  BY <1>1
     DEF Machine!vars, Machine!sharedVars, Machine!ownVars, Machine!pastVars, ProcessInv,
         Machine!TypeOK, NumbersAreUsed, SessionsAreOwn, NothingBeforeItsStage, HaltIsAhead,
         Machine!LiveSessionIsOpen, Machine!CleanExitClosesSession
<1>2. CASE Machine!Next
  <2>1. PICK p \in Procs : Machine!Starts(p) \/ Machine!Works(p) \/ Machine!Stops(p)
    BY <1>2 DEF Machine!Next
  <2>2. CASE \/ Machine!IsKilled(p)
             \/ Machine!EndsInOrder(p) /\ psStage[p] \in {"boot", "port", "work", "exit"}
    BY <2>2, EndsKeeps
  <2>3. CASE StartsPlain(p)
    BY <2>3, StartsKeep
  <2>4. CASE Machine!Claim(p)
    BY <2>4, ClaimKeeps
  <2>5. CASE Machine!Begin(p) \/ Machine!SwitchOff(p)
    BY <2>5, BeginKeeps, SwitchOffKeeps
  <2>6. CASE \/ Machine!Halt(p) \/ Machine!Close(p) \/ Machine!ShutdownNow(p)
             \/ Machine!TeardownStep(p) \/ Machine!StepRaises(p) \/ Machine!StepHangs(p)
    BY <2>6, StopsMove, MovesKeep
  <2>7. \/ Machine!IsKilled(p)
        \/ Machine!EndsInOrder(p) /\ psStage[p] \in {"boot", "port", "work", "exit"}
        \/ StartsPlain(p) \/ Machine!Claim(p) \/ Machine!Begin(p) \/ Machine!SwitchOff(p)
        \/ Machine!Halt(p) \/ Machine!Close(p) \/ Machine!ShutdownNow(p)
        \/ Machine!TeardownStep(p) \/ Machine!StepRaises(p)
        \/ Machine!StepHangs(p)
    BY <2>1
       DEF Machine!Starts, Machine!Works, Machine!Stops, StartsPlain, Machine!BootFails,
           Machine!GiveUp, Machine!FinishWork, Machine!Exit, Machine!ForceExit, Machine!Crash
  <2> QED BY <2>2, <2>3, <2>4, <2>5, <2>6, <2>7
<1> QED BY <1>1, <1>2

(***************************************************************************)
(* All parts                                                               *)
(***************************************************************************)

\* Every part is within its invariant, in every state.
WorkersInv ==
  /\ focus \in {"file", "alerts", "service", "probe", "window", "lan", "join", "spot",
               "processes"}
  /\ File!TypeOK /\ AlertInv /\ Service!TypeOK /\ ProbeInv /\ BridgeInv /\ LanInv /\ NetInv
  /\ ProcessInv

\* It is inductive, because the parts' are and only one part moves at a time.
LEMMA WorkersInvHolds == Spec => []WorkersInv
<1>1. Init => WorkersInv
  <2> SUFFICES ASSUME Init PROVE WorkersInv  OBVIOUS
  <2>1. File!TypeOK  BY WorkersStart, SaveInvInit, PartsAreWellFormed
  <2>2. AlertInv /\ Service!TypeOK
    BY WorkersStart, AlertInvInit, ServiceTypeInit, PartsAreWellFormed
  <2>3. ProbeInv /\ BridgeInv
    BY WorkersStart, ProbeInvInit, BridgeInvInit, PartsAreWellFormed
  <2>4. LanInv /\ NetInv /\ ProcessInv
    BY WorkersStart, LanInvInit, NetInvInit, ProcessInvInit, PartsAreWellFormed
  <2> QED  BY <2>1, <2>2, <2>3, <2>4 DEF Init, WorkersInv
<1>2. WorkersInv /\ [Next]_vars => WorkersInv'
  <2> SUFFICES ASSUME WorkersInv, [Next]_vars PROVE WorkersInv'  OBVIOUS
  <2>1. File!TypeOK'  BY WorkersMove, FileTypeNext, PartsAreWellFormed DEF WorkersInv
  <2>2. AlertInv' /\ Service!TypeOK'
    BY WorkersMove, AlertInvNext, ServiceTypeNext, PartsAreWellFormed DEF WorkersInv
  <2>3. ProbeInv' /\ BridgeInv'
    BY WorkersMove, ProbeInvNext, BridgeInvNext, PartsAreWellFormed DEF WorkersInv
  <2>4. LanInv' /\ NetInv' /\ ProcessInv'
    BY WorkersMove, LanInvNext, NetInvNext, ProcessInvNext, PartsAreWellFormed
       DEF WorkersInv
  <2> QED  BY <2>1, <2>2, <2>3, <2>4, WorkersMove DEF WorkersInv
<1> QED  BY <1>1, <1>2, PTL DEF Spec

\* Every part's variables keep their types, whichever part moves.
THEOREM WorkersTypes == Spec => []TypeOK
<1>1. WorkersInv => TypeOK
  BY DEF WorkersInv, AlertInv, ProbeInv, BridgeInv, LanInv, NetInv, ProcessInv, TypeOK
<1> QED  BY <1>1, WorkersInvHolds, PTL

\* What an answer says is so: the adapters' list after a repair, the devices a discovery
\* found, and what joining a network and sharing a connection report; and the process's
\* timeout and the network's key are put back on the way (list_usb_adapters, discover,
\* NetworkService), each but for the overlaps and kills that the property names.
THEOREM AnswersStayTrue == Spec => []AnswersAreTrue
<1>1. WorkersInv => AnswersAreTrue
  BY InvAnswersWhole, PartsAreWellFormed DEF WorkersInv, ProbeInv, NetInv, AnswersAreTrue
<1> QED  BY <1>1, WorkersInvHolds, PTL

\* The session of a process that lives is open; a teardown that finds scanning on closes
\* what its process opened, so that a session without a process is one that was let go of
\* at a step that does so; and an engine scans only if its process was asked to, and was
\* not told to stop since (bootstrap, serve, teardown, begin, halt).
THEOREM SessionsStayKept == Spec => []SessionsAreKept
<1>1. WorkersInv => SessionsAreKept
  BY InvKeepsSessions DEF WorkersInv, ProcessInv, SessionsAreKept
<1> QED  BY <1>1, WorkersInvHolds, PTL
=============================================================================
