--------------------------- MODULE DetectionRules ---------------------------
(***************************************************************************)
(* The rules of app/detections.py and what they rest on from one scan to   *)
(* the next: the row app/db.py stores for each radio, its latest           *)
(* observations, and the marks of app/services/marks.py.                   *)
(*                                                                         *)
(* A rule is a set of findings: the rule's name, a severity, and what the  *)
(* finding is about, from which its cooldown takes its key.  Titles,       *)
(* details and evidence are left out.  The cooldowns themselves, and the   *)
(* cap, are the subject of FindingPipeline.                                *)
(***************************************************************************)
EXTENDS Integers, Sequences, FiniteSets, FiniteSetsExt, SequencesExt, TextDistance

CONSTANTS
  Radios,      \* addresses that may be heard
  Oui,         \* the vendor prefix of each
  Vendor,      \* the name the registry has for it, or NoVendor
  Local,       \* those whose address software made up
  Names,       \* SSIDs, upper and lower case being one
  Text,        \* the letters of each, and of the beginnings people mark
  MixedNames,  \* those that mix alphabets
  LureNames,   \* settings: lure_ssids
  Sounds,      \* what a radio may send, apart from its address and its level
  Answers,     \* names it may answer to besides
  Levels,      \* signal levels, in dBm
  MarkPool,    \* marks a person may set: kind, match type, value
  SecurityElements, \* elements that carry the security posture, as they are written
  PostureElements,  \* and as a record has them
  Muted, Severe,    \* settings: muted_rules, and the severities from severity_floor up
  Threshold, Jump, Baseline, Missing, MaxNames, Busy,
               \* settings: levenshtein_threshold, rssi_jump_db,
               \* min_observations_for_baseline, missing_scans_before_alert,
               \* max_ssids_per_bssid, congestion_utilization_pct
  Paces        \* bound: how many intervals after the last a scan on time may end

NoName == "none"
NoVendor == "unknown"
Silent == [silent |-> TRUE]
NoRow == [none |-> TRUE]
NotOnTime == -1
NoChannel == -1

\* What there is in a sound: what a radio sends, apart from its address and its level.
SoundFields ==
  {"ssid", "security", "enterprise", "tkip", "pmf", "wps", "facts", "channel", "band",
   "width", "load", "country", "beacon", "elements", "broken"}

\* What the constants have to be.
RulesConstantsOK ==
  /\ DOMAIN Oui = Radios /\ DOMAIN Vendor = Radios /\ Local \subseteq Radios
  /\ Names \subseteq DOMAIN Text /\ NoName \notin Names
  /\ MixedNames \cup LureNames \cup Answers \subseteq Names /\ Levels \subseteq -127..0
  /\ \A s \in Sounds : SoundFields \subseteq DOMAIN s
  /\ {Threshold, Jump, Baseline, Missing, MaxNames, Busy} \subseteq Nat /\ Baseline > 0
  /\ Paces \subseteq 1..3

VARIABLES
  air,      \* what each radio sends, or Silent
  answers,  \* further names it answers to
  level,    \* how loud it is here
  rows,     \* table bss: what was stored of each
  seen,     \* and how often, up to Baseline
  recent,   \* table observations: its latest levels, the newest first
  gone,     \* how long it has not been heard, up to a bound: time is counted in
            \* intervals, the setting or five seconds, whichever is longer
  marks,    \* table marks
  order,    \* the order a set of names happens to have in this process
  report,   \* what the scan that has just ended reports
  missed    \* history: scans that did not hear it, if each was on time

airVars  == <<air, answers, level>>
dbVars   == <<rows, seen, recent, gone>>
vars == <<airVars, dbVars, marks, order, report, missed>>

\* Four times the window in which a watched radio is reported missing.
Horizon == 4 * Missing

\* The ways to list a set.
Orders(S) == {l \in [1..Cardinality(S) -> S] : IsInjective(l)}

Init ==
  /\ air = [r \in Radios |-> Silent] /\ answers = [r \in Radios |-> {}]
  /\ level \in [Radios -> Levels]
  /\ rows = [r \in Radios |-> NoRow] /\ seen = [r \in Radios |-> 0]
  /\ recent = [r \in Radios |-> <<>>] /\ gone = [r \in Radios |-> 0]
  /\ marks = {}
  /\ order \in Orders(Names)
  /\ report = {}
  /\ missed = [r \in Radios |-> 0]

(***************************************************************************)
(* Marks                                                                   *)
(***************************************************************************)

\* MarkSet.matches: by address, by vendor prefix, by name or by how it begins.
Matches(kind, x) ==
  \E m \in marks :
    /\ m.kind = kind
    /\ \/ m.type = "bssid" /\ m.value = x.bssid
       \/ m.type = "oui"   /\ m.value = Oui[x.bssid]
       \/ m.type = "ssid"  /\ m.value = x.name
       \/ m.type = "ssid_prefix" /\ x.name # NoName /\ IsPrefix(Text[m.value], Text[x.name])

\* watched_ssids and trusted_ssids together: marks on a whole name only.
Tracked ==
  {m.value : m \in {m \in marks : m.type = "ssid" /\ m.kind \in {"watch", "trusted"}}}

(***************************************************************************)
(* Rules about one radio.  A scan is the set of records heard.             *)
(***************************************************************************)

\* One finding for each radio, or one for all of them.
About(rule, severity, heard) ==
  {[rule |-> rule, severity |-> severity, about |-> <<"bssid", x.bssid>>] : x \in heard}
Summary(rule, severity, heard) ==
  IF heard = {} THEN {} ELSE {[rule |-> rule, severity |-> severity, about |-> <<"-">>]}

OpenNetwork(scan) ==
  About("open_network", "info", {x \in scan : x.security = "Open" /\ ~x.hidden})

WeakCrypto(scan) ==
  LET wep  == {x \in scan : x.security = "WEP"}
      tkip == {x \in scan : x.tkip} \ wep
      old  == {x \in scan : x.security \in {"WPA", "WPA/WPA2 mixed"}} \ tkip
  IN About("weak_crypto", "high", wep) \cup About("weak_crypto", "medium", tkip)
       \cup About("weak_crypto", "low", old)

\* The labels that start with it.
Wpa3Labels == {"WPA3", "WPA3-Enterprise", "WPA3-Enterprise 192-bit"}

Wpa3PmfOptional(scan) ==
  About("wpa3_pmf_optional", "medium",
        {x \in scan : x.security \in Wpa3Labels /\ ~x.hidden
                        /\ x.pmf = "capable"})

MixedScript(scan) == About("mixed_script_ssid", "medium", {x \in scan : x.name \in MixedNames})

Lure(scan) ==
  About("lure_ssid", "medium", {x \in scan : x.name \in LureNames /\ x.security = "Open"})

HiddenSsid(scan) == About("hidden_ssid", "info", {x \in scan : x.hidden})

Randomized(scan) ==
  LET local == {x \in scan : x.bssid \in Local} IN
  About("randomized_bssid", "high", {x \in local : x.name \in Tracked})
    \cup About("randomized_bssid", "info", {x \in local : x.name \notin Tracked})

Malformed(scan) == About("malformed_ie", "medium", {x \in scan : x.broken})

\* A name that looks like a marked one, or nearly does.  The first marked name that
\* is close enough decides, and in which order they come nobody has said.
Lookalike(scan) ==
  LET Distance(x, n) ==
        IF Skeleton(Text[x.name]) = Skeleton(Text[n]) THEN 0
        ELSE Levenshtein(Skeleton(Text[x.name]), Skeleton(Text[n]), Threshold)
      First(x) ==
        SelectInSeq(order, LAMBDA n : n \in Tracked /\ Distance(x, n) <= Threshold)
      near == {x \in scan : /\ x.name \notin Tracked \cup {NoName}
                            /\ ~Matches("trusted", x)
                            /\ Skeleton(Text[x.name]) # <<>>
                            /\ First(x) # 0}
      same == {x \in near : Distance(x, order[First(x)]) = 0}
  IN About("lookalike_ssid", "critical", same)
       \cup About("lookalike_ssid", "high", near \ same)

(***************************************************************************)
(* Rules about radios that share a name, a channel or a neighbourhood      *)
(***************************************************************************)

\* An SSID offered with postures that do not belong together.
SsidConflict(scan) ==
  LET Group(n) == {x \in scan : x.name = n /\ ~x.hidden}
      Postures(n) == {<<x.security, x.enterprise>> : x \in Group(n)}
      Transition == {<<s, FALSE>> : s \in {"WPA2", "WPA2/WPA3 transition", "WPA3"}}
      mixed == {n \in Names : Cardinality(Postures(n)) > 1 /\ ~(Postures(n) \subseteq Transition)}
  IN {[rule |-> "ssid_conflict", severity |-> "high", about |-> <<"ssid", n>>] : n \in mixed}

\* Faulty: keyed on the radio that is loudest just now.
SsidConflictByLoudest(scan) ==
  LET Group(n) == {x \in scan : x.name = n /\ ~x.hidden}
      Loudest(n) == CHOOSE x \in Group(n) : \A y \in Group(n) : x.rssi >= y.rssi
  IN {[rule |-> "ssid_conflict", severity |-> "high",
       about |-> <<"bssid", Loudest(f.about[2]).bssid>>] : f \in SsidConflict(scan)}

Conflicts(scan) == SsidConflict(scan)

VendorMismatch(scan) ==
  LET Vendors(n) == {Vendor[y.bssid] : y \in {y \in scan : y.name = n}}
  IN About("vendor_mismatch", "medium",
           {x \in scan : /\ x.name \in Tracked /\ ~Matches("trusted", x)
                         /\ Vendor[x.bssid] = NoVendor /\ Cardinality(Vendors(x.name)) > 1})

EnterpriseBait(scan) ==
  About("enterprise_downgrade_bait", "critical",
        {x \in scan : /\ ~x.enterprise /\ x.name # NoName
                      /\ \E y \in scan : y.enterprise /\ y.name = x.name})

\* A radio with more names than it ought to have, of those the scan kept.
MultiSsid(scan) ==
  LET NamesOf(r) == {x.name : x \in {x \in scan : x.bssid = r}} \ {NoName}
  IN {[rule |-> "bssid_multi_ssid", severity |-> "high", about |-> <<"bssid", r>>] :
        r \in {r \in Radios : Cardinality(NamesOf(r)) > MaxNames}}

\* The one of some radios that comes first in the driver's list.
FirstOf(list, some) == list[SelectInSeq(list, LAMBDA r : r \in some)]

\* Among countries named as often, the one that was heard of first.
CountryMismatch(scan, list) ==
  LET from == {x \in scan : x.country # <<>>}
      codes == {x.country : x \in from}
      Of(c) == {x.bssid : x \in {x \in from : x.country = c}}
      most == {c \in codes : \A d \in codes : Cardinality(Of(c)) >= Cardinality(Of(d))}
      first == FirstOf(list, UNION {Of(c) : c \in most})
  IN IF Cardinality(codes) < 2 THEN {}
     ELSE About("country_mismatch", "low", {x \in from : first \notin Of(x.country)})

\* One for each busy channel, however many report it.
Congestion(scan) ==
  LET busy == {x \in scan : x.load >= Busy /\ x.channel # NoChannel}
      channels == {<<x.band, x.channel>> : x \in busy}
      Worst(c) == Max({x.load : x \in {x \in busy : <<x.band, x.channel>> = c}})
  IN {[rule |-> "channel_congestion", about |-> <<"channel", c[1], c[2]>>,
       severity |-> IF Worst(c) >= Max({Busy + 25, 85}) THEN "medium" ELSE "low"] :
        c \in channels}

Wps(scan) ==
  Summary("wps_enabled", IF \E x \in scan : x.wps = "pin" THEN "medium" ELSE "info",
          {x \in scan : x.wps # "none"})

PmfMissing(scan) ==
  Summary("pmf_missing", "low",
          {x \in scan : /\ x.security \notin {"Open", "WEP", "WPA"} /\ ~x.hidden
                        /\ x.pmf = "none"})

Disclosure(scan) == Summary("wps_device_disclosure", "low", {x \in scan : x.facts >= 3})

Overlap(scan) ==
  Summary("adjacent_channel_overlap", "info",
          {x \in scan : x.band = "2.4" /\ x.channel \notin {NoChannel, 1, 6, 11, 14} /\ x.width > 20})

(***************************************************************************)
(* Rules about what has changed.  Before is what was stored of each radio. *)
(***************************************************************************)

Known(x, before) == before[x.bssid] # NoRow

\* Of the labels, those that are weaker than another.
Rank(label) ==
  CASE label = "Open" -> 0 [] label = "WEP" -> 1 [] label = "WPA" -> 2
    [] label \in {"WPA/WPA2 mixed", "OWE"} -> 3 [] label = "WPA2/WPA3 transition" -> 5
    [] label = "WPA3" -> 6 [] label = "WPA3-Enterprise" -> 7 [] OTHER -> 4

Downgrade(scan, before) ==
  About("security_downgrade", "high",
        {x \in scan : Known(x, before) /\ Rank(x.security) < Rank(before[x.bssid].security)})

ChannelChange(scan, before) ==
  LET moved == {x \in scan : /\ Known(x, before)
                             /\ before[x.bssid].channel \notin {NoChannel, x.channel}
                             /\ x.channel # NoChannel /\ before[x.bssid].band = x.band}
      watched == {x \in moved : Matches("watch", x)}
  IN About("channel_change", "medium", watched) \cup About("channel_change", "info", moved \ watched)

\* Recipes of the fingerprint are of one version here.
FingerprintChange(scan, before) ==
  LET Touched(x) == SymDiff(x.elements, before[x.bssid].elements)
      changed == {x \in scan : Known(x, before) /\ Touched(x) # {}}
      serious == {x \in changed : Touched(x) \cap SecurityElements # {}}
  IN About("ie_fingerprint_change", "high", serious)
       \cup About("ie_fingerprint_change", "low", changed \ serious)

Beacon(scan, before) ==
  LET odd == {x \in scan : x.beacon # 0 /\ (x.beacon < 50 \/ x.beacon > 200)}
      changed == {x \in scan \ odd : /\ x.beacon # 0 /\ Known(x, before)
                                     /\ before[x.bssid].beacon \notin {0, x.beacon}}
  IN About("beacon_interval_anomaly", "low", odd)
       \cup About("beacon_interval_anomaly", "medium", changed)

NewBssid(scan, before) ==
  About("new_bssid", "medium",
        {x \in scan : ~Known(x, before) /\ (Matches("watch", x) \/ x.name \in Tracked)})

\* Louder than the mean of its latest observations, of which this is one.
RssiAnomaly(scan, before, times, latest) ==
  About("rssi_anomaly", "medium",
        {x \in scan : /\ Known(x, before) /\ times[x.bssid] >= Baseline
                      /\ LET l == latest[x.bssid] IN
                           /\ Len(l) = Baseline
                           /\ Baseline * (x.rssi - Jump) >= FoldSeq(+, 0, l)})

\* Faulty: gone for longer than the window, not for as long.
QuietTooLate(scan, away) ==
  {[rule |-> "watched_ap_missing", severity |-> "medium", about |-> <<"bssid", r>>] :
     r \in {r \in Radios : /\ rows[r] # NoRow /\ ~\E x \in scan : x.bssid = r
                           /\ Matches("watch", rows[r])
                           /\ Missing < away[r] /\ away[r] < Horizon}}

\* A watched radio not heard for so long, and not for four times as long.
WatchedMissing(scan, away) ==
  {[rule |-> "watched_ap_missing", severity |-> "medium", about |-> <<"bssid", r>>] :
     r \in {r \in Radios : /\ rows[r] # NoRow /\ ~\E x \in scan : x.bssid = r
                           /\ Matches("watch", rows[r])
                           /\ Missing <= away[r] /\ away[r] < Horizon}}

(***************************************************************************)
(* A scan                                                                  *)
(***************************************************************************)

\* build_record: the name is the one in the beacon, or else what a probe of the
\* driver's got out of it.
RecordAt(r, probed, rssi) ==
  LET s == air[r]
      name == IF s.ssid = NoName THEN probed ELSE s.ssid
      own == [bssid |-> r, name |-> name, hidden |-> name = NoName, rssi |-> rssi]
  IN [f \in DOMAIN s \cup DOMAIN own |-> IF f \in DOMAIN own THEN own[f] ELSE s[f]]
Record(r, probed) == RecordAt(r, probed, level[r])

\* What the driver may list of the air, a radio once for each name it answers to.
Entries(r, probed) ==
  {Record(r, probed)}
    \cup {[Record(r, probed) EXCEPT !.name = n, !.hidden = FALSE] : n \in answers[r]}

\* Those that are on the air.
Audible == {r \in Radios : air[r] # Silent}

\* run_once keeps of each radio the entry that comes first.
Scans(probed) ==
  {Range(kept) : kept \in {k \in [Audible -> UNION {Entries(r, probed) : r \in Audible}] :
                              \A r \in Audible : k[r] \in Entries(r, probed)}}

\* Every rule, in the order they are registered.
Found(scan, before, times, latest, away, list) ==
  OpenNetwork(scan) \cup WeakCrypto(scan) \cup Wps(scan) \cup PmfMissing(scan)
    \cup Wpa3PmfOptional(scan) \cup Downgrade(scan, before) \cup Conflicts(scan)
    \cup Lookalike(scan) \cup MixedScript(scan) \cup Lure(scan) \cup HiddenSsid(scan)
    \cup NewBssid(scan, before) \cup VendorMismatch(scan) \cup Randomized(scan)
    \cup MultiSsid(scan) \cup RssiAnomaly(scan, before, times, latest)
    \cup ChannelChange(scan, before) \cup FingerprintChange(scan, before)
    \cup Beacon(scan, before) \cup CountryMismatch(scan, list) \cup Congestion(scan)
    \cup WatchedMissing(scan, away) \cup EnterpriseBait(scan) \cup Disclosure(scan)
    \cup Overlap(scan) \cup Malformed(scan)

\* Who a finding names, if anyone: for a name in conflict, the loudest.
NamedBy(f, scan, list) ==
  LET group == {x \in scan : x.name = f.about[2] /\ ~x.hidden}
      loudest == {x \in group : \A y \in group : x.rssi >= y.rssi}
  IN CASE f.about[1] = "bssid" -> {f.about[2]}
       [] f.about[1] = "ssid"  -> {FirstOf(list, {x.bssid : x \in loudest})}
       [] OTHER -> {}

\* run: a rule that is muted, what is not severe enough, and what names somebody
\* ignored are left out.
Kept(found, scan, list) ==
  LET Ignored(r) ==
        \/ \E x \in scan : x.bssid = r /\ Matches("ignore", x)
        \/ r \notin Audible /\ Matches("ignore", rows[r])
  IN {f \in found : /\ f.rule \notin Muted /\ f.severity \in Severe
                    /\ \A r \in NamedBy(f, scan, list) : ~Ignored(r)}

\* _db_row: what is kept of a record and looked at again.
Row(x) ==
  [bssid |-> x.bssid, name |-> x.name, security |-> x.security, channel |-> x.channel,
   band |-> x.band, beacon |-> x.beacon, elements |-> x.elements]

\* upsert_bss and insert_observations, for a scan that heard these.
Stored(scan) ==
  [r \in Radios |-> LET mine == {x \in scan : x.bssid = r} IN
                    IF mine = {} THEN rows[r] ELSE Row(CHOOSE x \in mine : TRUE)]

\* Faulty: the first time does not count.
CountedFromZero ==
  [r \in Radios |-> IF r \in Audible /\ rows[r] # NoRow THEN Min({seen[r] + 1, Baseline})
                    ELSE seen[r]]

\* How often each was heard, and how loud, of late.
Counted ==
  [r \in Radios |-> IF r \in Audible THEN Min({seen[r] + 1, Baseline}) ELSE seen[r]]

Latest ==
  [r \in Radios |-> IF r \notin Audible THEN recent[r]
                    ELSE SubSeq(<<level[r]>> \o recent[r], 1,
                                Min({Baseline, Len(recent[r]) + 1}))]

\* For how long it has not been, once a scan is over that ends so long after the last.
Away(gap) ==
  [r \in Radios |-> IF r \in Audible THEN 0 ELSE Min({gone[r] + gap, Horizon})]

\* One scan, from the driver's list to the findings, that ends an interval after the
\* last or, as a scan takes its time and the interval may have a minimum, up to less than
\* four: one that ends later is not on time, and comes after a Wait.
Scan(probed) ==
  /\ \E gap \in Paces :
       /\ \E scan \in Scans(probed), list \in Orders(Audible) :
            /\ report' = Kept(Found(scan, rows, seen, Latest, Away(gap), list), scan, list)
            /\ rows' = Stored(scan)
       /\ gone' = Away(gap)
  /\ seen' = Counted /\ recent' = Latest
  /\ missed' = [r \in Radios |-> IF r \in Audible THEN 0
                                ELSE IF missed[r] = NotOnTime THEN NotOnTime
                                ELSE Min({missed[r] + 1, Horizon})]
  /\ UNCHANGED <<airVars, marks, order>>

\* One that fails after the networks were stored: what changed is not told again.
ScanFails(probed) ==
  /\ \E scan \in Scans(probed) : rows' = Stored(scan)
  /\ seen' = Counted /\ \E gap \in Paces : gone' = Away(gap)
  /\ missed' = [r \in Radios |-> IF r \in Audible THEN 0 ELSE NotOnTime]
  /\ report' = {}
  /\ UNCHANGED <<airVars, recent, marks, order>>

\* An interval in which nobody scans.
Wait ==
  /\ gone' = [r \in Radios |-> Min({gone[r] + 1, Horizon})]
  /\ missed' = [r \in Radios |-> NotOnTime]
  /\ report' = {}
  /\ UNCHANGED <<airVars, rows, seen, recent, marks, order>>

(***************************************************************************)
(* The air, and the person                                                 *)
(***************************************************************************)

\* A radio comes, goes, or is set up differently.
Change(r) ==
  /\ \E sound \in Sounds \cup {Silent} : air' = [air EXCEPT ![r] = sound]
  /\ \E n \in SUBSET Answers : /\ n = {} \/ air'[r] # Silent
                           /\ answers' = [answers EXCEPT ![r] = n]
  /\ report' = {}
  /\ UNCHANGED <<level, dbVars, marks, order, missed>>

\* It is a little nearer or further off.
Drift(r) ==
  /\ \E l \in Levels : level' = [level EXCEPT ![r] = l]
  /\ report' = {}
  /\ UNCHANGED <<air, answers, dbVars, marks, order, missed>>

\* add_mark and delete_mark.
AddMark ==
  /\ \E m \in MarkPool \ marks : marks' = marks \cup {m}
  /\ report' = {}
  /\ UNCHANGED <<airVars, dbVars, order, missed>>
RemoveMark ==
  /\ \E m \in marks : marks' = marks \ {m}
  /\ report' = {}
  /\ UNCHANGED <<airVars, dbVars, order, missed>>

Next ==
  \/ \E n \in Names \cup {NoName} : Scan(n) \/ ScanFails(n)
  \/ Wait \/ AddMark \/ RemoveMark
  \/ \E r \in Radios : Change(r) \/ Drift(r)

(***************************************************************************)
(* Properties                                                              *)
(***************************************************************************)

\* What a number of scans on time says of the time: that it is no shorter, and less than
\* four times as long.
Lags(scans, time) ==
  scans \in Nat /\ (scans <= Missing => scans <= time /\ time <= 3 * scans)

TypeOK ==
  /\ air \in [Radios -> Sounds \cup {Silent}]
  /\ answers \in [Radios -> SUBSET Names] /\ level \in [Radios -> Levels]
  /\ \A r \in Radios : /\ rows[r] # NoRow => rows[r].bssid = r
                       /\ (rows[r] = NoRow) = (seen[r] = 0) /\ seen[r] \in 0..Baseline
                       /\ recent[r] \in Seq(Levels) /\ Len(recent[r]) <= seen[r]
                       /\ gone[r] \in 0..Horizon
                       /\ missed[r] # NotOnTime => Lags(missed[r], gone[r])
  /\ marks \subseteq MarkPool
  /\ \A f \in report : f.rule \notin Muted /\ f.severity \in Severe

\* A radio that drifts a few dB is not news.  Whatever is on the air, what the rules
\* would find goes by the same keys as before, jumps of the level itself apart: a
\* finding keyed on who is loudest would be told again each time the order changed.
KeysAt(loud) ==
  LET heard == {RecordAt(r, NoName, loud[r]) : r \in Audible}
      list == CHOOSE l \in Orders(Audible) : TRUE
  IN {<<f.rule, f.about>> : f \in {f \in Found(heard, rows, seen, recent, gone, list) :
                                   f.rule # "rssi_anomaly"}}
DriftsQuietly == level' # level => KeysAt(level') = KeysAt(level)

\* A watched radio that was stored once and is then not heard in so many scans, all
\* on time, is reported missing in the last of them, unless it is to be ignored: where
\* the rule is not muted, what it finds is severe enough, and there is a window at all.
\* The rule counts seconds and the setting counts scans: the two agree as long as no scan
\* ends four intervals or more after the last.
LossIsReported ==
  Missing > 0 /\ "watched_ap_missing" \notin Muted /\ "medium" \in Severe =>
  \A r \in Radios :
    /\ missed'[r] = Missing /\ missed[r] # Missing /\ rows[r] # NoRow
    /\ Matches("watch", rows[r]) /\ ~Matches("ignore", rows[r])
    => \E f \in report' : f.rule = "watched_ap_missing" /\ f.about[2] = r

\* When an element that carries the security posture comes or goes, that is reported,
\* and as serious (docs/DETECTIONS.md).
PostureChangesAreSerious ==
  (\E n \in Names \cup {NoName} : Scan(n))
  => \A r \in Audible :
       /\ rows[r] # NoRow
       /\ SymDiff(rows[r].elements, air[r].elements) \cap PostureElements # {}
       /\ \A m \in marks : m.kind # "ignore"
       => \E f \in report' : /\ f.rule = "ie_fingerprint_change"
                            /\ f.about[2] = r /\ f.severity = "high"
PostureChangeIsHigh == [][PostureChangesAreSerious]_vars

\* A radio that answers to more names than it should, and is not to be ignored, is
\* reported, as the list of rules says (docs/DETECTIONS.md).
ManyNamesAreReported ==
  (\E n \in Names \cup {NoName} : Scan(n))
  => \A r \in Audible :
       /\ Cardinality((answers[r] \cup {air[r].ssid}) \ {NoName}) > MaxNames
       /\ \A m \in marks : m.kind # "ignore"
       => \E f \in report' : f.rule = "bssid_multi_ssid" /\ f.about[2] = r
MultiNamedIsReported == [][ManyNamesAreReported]_vars

=============================================================================
