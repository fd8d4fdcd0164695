---------------------------- MODULE LanDiscovery ----------------------------
(***************************************************************************)
(* Looking at the network the machine has joined: discover, in             *)
(* app/devices.py, which asks several sources at once, merges what they    *)
(* say and looks names up in a pool of threads, and audit, in              *)
(* app/netaudit.py, which checks the hosts it found in another.  Every     *)
(* thread is joined for a while and then left behind: it goes on, with     *)
(* what it shares with the answer under construction.  A behaviour is one  *)
(* audit.                                                                  *)
(***************************************************************************)
EXTENDS Integers, FiniteSets

CONSTANTS
  Hosts,      \* the addresses there are
  Reach,      \* the hosts each source may find
  Workers,    \* the threads of a pool, the same number for both
  NoHost

Sources == {"ssdp", "mdns"}

\* What the constants have to be.
LanConstantsOK ==
  /\ NoHost \notin Hosts /\ IsFiniteSet(Hosts) /\ Hosts # {}
  /\ Reach \in [{"arp", "netbios"} \cup Sources -> SUBSET Hosts]
  /\ IsFiniteSet(Workers) /\ Workers # {} /\ Workers = 1..Cardinality(Workers)

VARIABLES
  pc,         \* where the caller is
  asking,     \* the sources whose thread still listens
  joined,     \* how many threads of the present pool it has waited for
  results,    \* what each source that is done has found
  merging,    \* the sources there were when the merge began, and those still to do
  devices,    \* the addresses merged
  named,      \* those with a host name
  label,      \* what each is called in the answer: by name, by address, not yet
  lookups,    \* the pool of look-ups: its queue, the host of each thread
  timeout,    \* the default timeout of every socket of the process, or "short"
  original,   \* the one each thread of the look-ups has read
  shortened,  \* the threads that have set theirs since
  checks,     \* the pool of the audit
  audited,    \* the hosts it has appended to its results
  answer,     \* the hosts of the last answer, once there is one
  late,       \* history: a thread has outlived its join
  crossed     \* history: two look-ups have overlapped

sourceVars == <<asking, results, merging>>
lookupVars == <<lookups, timeout, original, shortened, crossed>>
auditVars  == <<checks, audited>>
vars == <<pc, joined, sourceVars, devices, named, label, lookupVars, auditVars, answer, late>>

Pools == [queue : SUBSET Hosts, at : [Workers -> Hosts \cup {NoHost}], ended : SUBSET Workers]
NoPool == [queue |-> {}, at |-> [w \in Workers |-> NoHost], ended |-> Workers]
FullPool(hosts) == [queue |-> hosts, at |-> [w \in Workers |-> NoHost], ended |-> {}]

Places == {"idle", "gather", "merge", "names", "classify", "checks", "sort", "failed"}

TypeOK ==
  /\ pc \in Places /\ asking \subseteq Sources /\ joined \in 0..Cardinality(Workers) + 2
  /\ results \in UNION {[s -> SUBSET Hosts] : s \in SUBSET Sources}
  /\ merging \in [sources : SUBSET Sources, left : SUBSET Sources]
  /\ devices \subseteq Hosts /\ named \subseteq Hosts
  /\ label \in [Hosts -> {"none", "name", "address"}]
  /\ lookups \in Pools /\ checks \in Pools
  /\ timeout \in {"none", "short"} /\ original \in [Workers -> {"none", "short", "unread"}]
  /\ shortened \subseteq Workers
  /\ audited \subseteq Hosts /\ answer \subseteq SUBSET Hosts
  /\ late \in BOOLEAN /\ crossed \in BOOLEAN

Init ==
  /\ pc = "idle" /\ asking = {} /\ joined = 0 /\ results = <<>>
  /\ merging = [sources |-> {}, left |-> {}]
  /\ devices = {} /\ named = {} /\ label = [h \in Hosts |-> "none"]
  /\ lookups = NoPool /\ timeout = "none" /\ original = [w \in Workers |-> "unread"]
  /\ shortened = {}
  /\ checks = NoPool /\ audited = {} /\ answer = {} /\ late = FALSE /\ crossed = FALSE

(***************************************************************************)
(* The sources                                                             *)
(***************************************************************************)

\* The ARP table first, by itself; then a thread for each chatty source.
Discover ==
  /\ pc = "idle" /\ answer = {}
  /\ devices' \in SUBSET Reach["arp"]
  /\ asking' = Sources /\ pc' = "gather" /\ joined' = 0
  /\ UNCHANGED <<results, merging, named, label, lookupVars, auditVars, answer, late>>

\* The answers are in, or the socket failed; either way the thread stores what it has.
SourceEnds(s) ==
  /\ s \in asking
  /\ \E found \in SUBSET Reach[s] :
       results' = [o \in DOMAIN results \cup {s} |-> IF o = s THEN found ELSE results[o]]
  /\ asking' = asking \ {s}
  /\ UNCHANGED <<pc, joined, merging, devices, named, label, lookupVars, auditVars,
                 answer, late>>

\* A source may listen for twice its time, which is more than it is waited for.
JoinSource ==
  /\ pc = "gather" /\ joined < 2
  /\ LET s == IF joined = 0 THEN "ssdp" ELSE "mdns" IN late' = (late \/ s \in asking)
  /\ joined' = joined + 1
  /\ UNCHANGED <<pc, sourceVars, devices, named, label, lookupVars, auditVars, answer>>

BeginMerge ==
  /\ pc = "gather" /\ joined = 2
  /\ merging' = [sources |-> DOMAIN results, left |-> DOMAIN results]
  /\ pc' = "merge"
  /\ UNCHANGED <<joined, asking, results, devices, named, label, lookupVars, auditVars,
                 answer, late>>

\* The dictionary must not grow under the loop.
MergeFails ==
  /\ pc = "merge" /\ DOMAIN results # merging.sources
  /\ pc' = "failed"
  /\ UNCHANGED <<joined, sourceVars, devices, named, label, lookupVars, auditVars, answer,
                 late>>

\* What Bonjour announces may come with host names.
MergeOne(s) ==
  /\ pc = "merge" /\ DOMAIN results = merging.sources /\ s \in merging.left
  /\ devices' = devices \cup results[s]
  /\ IF s = "mdns" THEN \E told \in SUBSET results[s] : named' = named \cup told
     ELSE UNCHANGED named
  /\ merging' = [merging EXCEPT !.left = @ \ {s}]
  /\ UNCHANGED <<pc, joined, asking, results, label, lookupVars, auditVars, answer, late>>

(***************************************************************************)
(* The names                                                               *)
(***************************************************************************)

\* The caller asks the NetBIOS cache itself, with names or without; then the pool gets
\* every device that has none.
BeginNames ==
  /\ pc = "merge" /\ DOMAIN results = merging.sources /\ merging.left = {}
  /\ \E found \in SUBSET Reach["netbios"] : \E told \in SUBSET found :
       devices' = devices \cup found /\ named' = named \cup told
  /\ lookups' = FullPool(devices' \ named')
  /\ pc' = "names" /\ joined' = 0
  /\ UNCHANGED <<sourceVars, label, timeout, original, shortened, crossed, auditVars,
                 answer, late>>

\* A thread takes a host off the queue under the lock, or ends.
Taken(pool, w) ==
  LET last == CHOOSE h \in pool.queue : TRUE IN
  IF pool.queue = {} THEN [pool EXCEPT !.ended = @ \cup {w}]
  ELSE [pool EXCEPT !.queue = @ \ {last}, !.at[w] = last]

Free(pool, w) == pool.at[w] = NoHost /\ w \notin pool.ended

TakeLookup(w) ==
  /\ Free(lookups, w)
  /\ lookups' = Taken(lookups, w)
  /\ UNCHANGED <<pc, joined, sourceVars, devices, named, label, timeout, original, shortened,
                 crossed, auditVars, answer, late>>

\* With a host in hand, reverse_dns reads the default of the whole process ...
ReadTimeout(w) ==
  /\ lookups.at[w] # NoHost /\ original[w] = "unread"
  /\ original' = [original EXCEPT ![w] = timeout]
  /\ crossed' = (crossed \/ \E o \in Workers : original[o] # "unread")
  /\ UNCHANGED <<pc, joined, sourceVars, devices, named, label, lookups, timeout, shortened,
                 auditVars, answer, late>>

\* ... and sets it.
ShortenTimeout(w) ==
  /\ original[w] # "unread" /\ w \notin shortened
  /\ timeout' = "short" /\ shortened' = shortened \cup {w}
  /\ UNCHANGED <<pc, joined, sourceVars, devices, named, label, lookups, original, crossed,
                 auditVars, answer, late>>

\* Faulty: a look-up that fails leaves the timeout as it is.
LookupForgets(w) ==
  /\ w \in shortened
  /\ \/ named' = named \cup {lookups.at[w]} /\ timeout' = original[w]
     \/ UNCHANGED <<named, timeout>>
  /\ original' = [original EXCEPT ![w] = "unread"] /\ shortened' = shortened \ {w}
  /\ lookups' = [lookups EXCEPT !.at[w] = NoHost]
  /\ UNCHANGED <<pc, joined, sourceVars, devices, label, crossed, auditVars, answer, late>>

\* Whatever comes of the look-up, the thread puts back what it read.
LookupEnds(w) ==
  /\ w \in shortened
  /\ named' \in {named, named \cup {lookups.at[w]}}
  /\ timeout' = original[w]
  /\ original' = [original EXCEPT ![w] = "unread"] /\ shortened' = shortened \ {w}
  /\ lookups' = [lookups EXCEPT !.at[w] = NoHost]
  /\ UNCHANGED <<pc, joined, sourceVars, devices, label, crossed, auditVars, answer, late>>

JoinLookup ==
  /\ pc = "names" /\ joined < Cardinality(Workers)
  /\ late' = (late \/ joined + 1 \notin lookups.ended)
  /\ joined' = joined + 1
  /\ UNCHANGED <<pc, sourceVars, devices, named, label, lookupVars, auditVars, answer>>

\* Every device gets its vendor, its category and its label.
Classify ==
  /\ pc = "names" /\ joined = Cardinality(Workers)
  /\ label' = [h \in Hosts |-> IF h \notin devices THEN "none"
                               ELSE IF h \in named THEN "name" ELSE "address"]
  /\ pc' = "classify"
  /\ UNCHANGED <<joined, sourceVars, devices, named, lookupVars, auditVars, answer, late>>

(***************************************************************************)
(* The audit                                                               *)
(***************************************************************************)

\* The first so many of the devices discovered, in the order of their addresses.
Audit ==
  /\ pc = "classify"
  /\ checks' = FullPool(devices)
  /\ pc' = "checks" /\ joined' = 0
  /\ UNCHANGED <<sourceVars, devices, named, label, lookupVars, audited, answer, late>>

TakeCheck(w) ==
  /\ Free(checks, w)
  /\ checks' = Taken(checks, w)
  /\ UNCHANGED <<pc, joined, sourceVars, devices, named, label, lookupVars, audited, answer,
                 late>>

\* scan_host has been through the ports; the host is appended under the lock.
CheckEnds(w) ==
  /\ checks.at[w] # NoHost
  /\ audited' = audited \cup {checks.at[w]}
  /\ checks' = [checks EXCEPT !.at[w] = NoHost]
  /\ UNCHANGED <<pc, joined, sourceVars, devices, named, label, lookupVars, answer, late>>

\* Faulty: the caller waits for every thread to the end.
JoinCheckForGood ==
  /\ pc = "checks" /\ joined < Cardinality(Workers) /\ joined + 1 \in checks.ended
  /\ joined' = joined + 1
  /\ UNCHANGED <<pc, sourceVars, devices, named, label, lookupVars, auditVars, answer, late>>

JoinCheck ==
  /\ pc = "checks" /\ joined < Cardinality(Workers)
  /\ late' = (late \/ joined + 1 \notin checks.ended)
  /\ joined' = joined + 1
  /\ UNCHANGED <<pc, sourceVars, devices, named, label, lookupVars, auditVars, answer>>

\* The list is empty while it is being sorted, and a thread that appends to it then
\* makes the sort fail.
BeginSort ==
  /\ pc = "checks" /\ joined = Cardinality(Workers)
  /\ answer' = {audited} /\ pc' = "sort"
  /\ UNCHANGED <<joined, sourceVars, devices, named, label, lookupVars, auditVars, late>>

\* The findings, of what was there; then the answer.
EndSort ==
  /\ pc = "sort"
  /\ pc' = IF answer = {audited} THEN "idle" ELSE "failed"
  /\ UNCHANGED <<joined, sourceVars, devices, named, label, lookupVars, auditVars, answer,
                 late>>

Caller ==
  \/ JoinSource \/ BeginMerge \/ MergeFails \/ (\E s \in Sources : MergeOne(s))
  \/ BeginNames \/ JoinLookup \/ Classify
  \/ Audit \/ JoinCheck \/ BeginSort \/ EndSort

Others ==
  \/ \E s \in Sources : SourceEnds(s)
  \/ \E w \in Workers : TakeLookup(w) \/ ReadTimeout(w) \/ ShortenTimeout(w)
                         \/ LookupEnds(w) \/ TakeCheck(w) \/ CheckEnds(w)

Next == Discover \/ Caller \/ Others

Spec == Init /\ [][Next]_vars /\ WF_vars(Caller)

(***************************************************************************)
(* Properties                                                              *)
(***************************************************************************)

\* An answer that no thread was too slow for is whole: the hosts of it are all those
\* that any source found, each has been checked, and is called by its name if a source
\* or a look-up has found one.
AnswerIsWhole ==
  pc = "idle" /\ answer # {} /\ ~late =>
    /\ answer = {devices} /\ audited = devices
    /\ \A s \in Sources : results[s] \subseteq devices
    /\ \A h \in devices : label[h] = (IF h \in named THEN "name" ELSE "address")

\* Once no look-up is under way the process has its own timeout again, unless two
\* have overlapped, of which the second read what the first had set.
TimeoutIsRestored ==
  (~crossed /\ \A w \in Workers : original[w] = "unread") => timeout = "none"

\* Asked leads to Answered: whatever hangs, the caller gets its answer, or an error.
Asked == pc # "idle"
Answered == pc \in {"idle", "failed"}
=============================================================================
