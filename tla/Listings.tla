------------------------------ MODULE Listings ------------------------------
(***************************************************************************)
(* What is read back of the networks and findings on record: the reading   *)
(* half of app/db.py, with app/services/networks.py, findings.py and       *)
(* spectrum.py.  Texts are matched whole, and the limits, of hundreds of   *)
(* rows and more, are never met.                                           *)
(***************************************************************************)
EXTENDS Integers, Sequences, SequencesExt, FiniteSets, FiniteSetsExt

CONSTANTS
  Radios,  \* BSSIDs, in the order of their rows
  Looks,   \* what a row may say of a radio, but for when it was heard
  Rules    \* rule names

\* What the constants have to be.
ListingsConstantsOK ==
  \A l \in Looks :
    /\ l.name \in STRING /\ l.hidden \in BOOLEAN /\ l.level \in Int /\ l.channel \in Nat
    /\ l.enterprise \in BOOLEAN /\ l.pmf \in BOOLEAN

VARIABLES
  now,     \* scans so far, which is what the time is here
  rows,    \* the bss table: of the radios heard, what and when
  alerts   \* the alerts table, a sequence of findings some of which are deleted

Known == DOMAIN rows
Kept == {i \in DOMAIN alerts : ~alerts[i].gone}

(***************************************************************************)
(* One row for each radio                                                  *)
(***************************************************************************)

Since(window) == IF window = "all" THEN 0 ELSE now

\* Rows heard in a window, of a band if one is chosen, with what is searched for as
\* their name or address.
ListBss(window, search, band) ==
  {r \in Known :
    /\ rows[r].last >= Since(window)
    /\ search = "" \/ rows[r].name = search \/ r = search
    /\ band = "" \/ rows[r].band = band}

CountBss(window) == Cardinality({r \in Known : rows[r].last >= Since(window)})

\* The loudest first.
ByLevel(table, radios) ==
  SetToSortSeq(radios, LAMBDA a, b : \/ table[a].level > table[b].level
                                     \/ table[a].level = table[b].level /\ table[a].id < table[b].id)

(***************************************************************************)
(* One entry for each name                                                 *)
(***************************************************************************)

Key(row, r) == IF row.hidden \/ row.name = "" THEN <<"hidden", r>> ELSE <<"name", row.name>>

NewGroup(row) ==
  [name |-> row.name, hidden |-> row.hidden, radios |-> {}, bands |-> {}, channels |-> {},
   securities |-> {}, best |-> -127, first |-> row.first, last |-> row.last,
   enterprise |-> FALSE, pmf |-> TRUE]

Posture(row) == <<row.security, row.enterprise>>

WithRadio(g, row, r) ==
  [g EXCEPT !.radios = @ \cup {r}, !.bands = @ \cup {row.band}, !.channels = @ \cup {row.channel},
            !.securities = @ \cup {Posture(row)}, !.best = Max({@, row.level}),
            !.first = Min({@, row.first}), !.last = Max({@, row.last}),
            !.enterprise = @ \/ row.enterprise, !.pmf = @ /\ row.pmf]

GroupsOf(table, radios) ==
  LET Add(groups, r) ==
        LET k == Key(table[r], r)
            g == IF k \in DOMAIN groups THEN groups[k] ELSE NewGroup(table[r])
        IN [q \in DOMAIN groups \cup {k} |->
              IF q = k THEN WithRadio(g, table[r], r) ELSE groups[q]]
  IN FoldLeft(Add, [k \in {} |-> 0], ByLevel(table, radios))

SsidGrouped(window) == GroupsOf(rows, ListBss(window, "", ""))

MixedSecurity(g) == Cardinality(g.securities) > 1
MultiBand(g) == Cardinality(g.bands) > 1

Grouped(window, search, band) ==
  LET groups == SsidGrouped(window) IN
  {groups[k] : k \in {q \in DOMAIN groups :
     /\ search = "" \/ groups[q].name = search \/ search \in groups[q].radios
     /\ band = "" \/ band \in groups[q].bands}}

(***************************************************************************)
(* Channels                                                                *)
(***************************************************************************)

ChannelUsage(window) ==
  LET heard == {r \in ListBss(window, "", "") : rows[r].channel # 0}
      slots == {<<rows[r].band, rows[r].channel>> : r \in heard}
      On(s) == {r \in heard : <<rows[r].band, rows[r].channel>> = s}
  IN [s \in slots |-> [count |-> Cardinality(On(s)), best |-> Max({rows[r].level : r \in On(s)})]]

\* A radio without a frequency has no place in the picture; one without a width is
\* drawn as narrow as there are.
Layout(window) ==
  LET Drawn(b) == {r \in ListBss(window, "", "") : rows[r].band = b /\ rows[r].channel # 0} IN
  [b \in {"2.4", "5", "6"} |-> {[radio |-> r, channel |-> rows[r].channel,
                                 width |-> IF rows[r].width = 0 THEN 20 ELSE rows[r].width]
                                 : r \in Drawn(b)}]

(***************************************************************************)
(* Findings                                                                *)
(***************************************************************************)

ListAlerts(severity, rule, open) ==
  {i \in Kept :
    /\ severity = "" \/ alerts[i].severity = severity
    /\ rule = "" \/ alerts[i].rule = rule
    /\ open => alerts[i].open}

AlertCounts ==
  [s \in {alerts[i].severity : i \in ListAlerts("", "", TRUE)} |->
     Cardinality(ListAlerts(s, "", TRUE))]

FlaggedBssids ==
  UNION {{alerts[i].radio : i \in ListAlerts(s, "", TRUE)} : s \in {"critical", "high"}}

(***************************************************************************)
(* Properties                                                              *)
(***************************************************************************)

Windows == {"recent", "all"}

\* The entries of a window share its radios out, one without a name alone and those of
\* a name together; and what an entry says is true of it: its best level is a radio's,
\* none is louder, it is the age of its radios, and it is of mixed security when two of
\* them differ (ssid_grouped).
GroupsShareRadiosOut ==
  \A w \in Windows :
    LET groups == SsidGrouped(w)
        all == {groups[k] : k \in DOMAIN groups}
        Sum == FoldSet(LAMBDA k, n : n + Cardinality(groups[k].radios), 0, DOMAIN groups)
    IN /\ UNION {g.radios : g \in all} = ListBss(w, "", "") /\ Sum = CountBss(w)
       /\ \A g \in all :
            /\ g.hidden \/ g.name = "" => Cardinality(g.radios) = 1
            /\ \A r \in g.radios : rows[r].name = g.name
            /\ \E r \in g.radios : rows[r].level = g.best
            /\ \A r \in g.radios : rows[r].level <= g.best /\ rows[r].first >= g.first
                                   /\ rows[r].last <= g.last /\ (g.pmf => rows[r].pmf)
            /\ MixedSecurity(g) <=> \E q, r \in g.radios : Posture(rows[q]) # Posture(rows[r])
       /\ \A q, r \in ListBss(w, "", "") :
            rows[q].name = rows[r].name /\ rows[q].name # "" /\ ~rows[q].hidden /\ ~rows[r].hidden
              => \E g \in all : {q, r} \subseteq g.radios

\* The channels count every radio that has one, in the window and once, as the picture
\* of the spectrum does (channel_usage, layout_from_rows).
ChannelsCountRadios ==
  \A w \in Windows :
    LET usage == ChannelUsage(w)
        placed == {r \in ListBss(w, "", "") : rows[r].channel # 0}
    IN /\ FoldSet(LAMBDA s, n : n + usage[s].count, 0, DOMAIN usage) = Cardinality(placed)
       /\ \A b \in {"2.4", "5", "6"} :
            Cardinality(Layout(w)[b]) =
              FoldSet(LAMBDA s, n : n + usage[s].count, 0, {s \in DOMAIN usage : s[1] = b})

\* A radio is outlined exactly when one of its findings is open and critical or high,
\* and the counts by severity add up to what is open (flagged_bssids, alert_counts).
FlagsAreOpenFindings ==
  /\ \A r \in Radios : r \in FlaggedBssids <=>
       \E i \in Kept : /\ alerts[i].radio = r /\ alerts[i].open
                       /\ alerts[i].severity \in {"critical", "high"}
  /\ FoldSet(LAMBDA s, n : n + AlertCounts[s], 0, DOMAIN AlertCounts)
       = Cardinality({i \in Kept : alerts[i].open})

ListingsAgree == GroupsShareRadiosOut /\ ChannelsCountRadios /\ FlagsAreOpenFindings
=============================================================================
