--------------------------- MODULE AdapterPicture ---------------------------
(***************************************************************************)
(* Which radio is which: app/adapters.py.  For every interface Windows     *)
(* lists, what a live query, two tables printed by netsh (kept for eight   *)
(* seconds), the beacons on record and a list of known models say of it is *)
(* put together, and the best radio to scan with is recommended.           *)
(*                                                                         *)
(* A line of netsh is a key with a value, a band without a key, or blank.  *)
(* A device description is a sequence of words, and so is what is looked   *)
(* for in one.                                                             *)
(***************************************************************************)
EXTENDS Integers, Sequences, SequencesExt, FiniteSets

CONSTANTS
  Adapters,  \* in the order Windows lists them
  Text,      \* the description of each
  Types,     \* the radio types its driver prints
  Phys,      \* the PHY types a live query returns
  Declared,  \* the bands its driver declares, {} when it does not say
  Named,     \* the adapters whose driver block says what device it is of
  Keywords,  \* config "preferred"
  Moves,     \* bound: what happens to the adapters
  Life       \* NETSH_TTL, in the steps of this model

Nobody == "nobody"

\* What the constants have to be.
PictureConstantsOK ==
  /\ Adapters \in Seq(Range(Adapters)) /\ Nobody \notin Range(Adapters)
  /\ {DOMAIN Text, DOMAIN Types, DOMAIN Phys, DOMAIN Declared} = {Range(Adapters)}
  /\ IsFiniteSet(Keywords)
  /\ Named \subseteq Range(Adapters) /\ Moves \in Nat /\ Life \in Nat \ {0}

VARIABLES
  plugged, on, joined,  \* the adapters there are, their radios, and the connected one
  heard,    \* <<adapter, band>> of the beacons on record
  moves,    \* what happened to the adapters so far
  cache,    \* what netsh printed, when it was asked (.of), and how long ago it was kept
  reader,   \* a second thread's reading of netsh, not yet in the cache
  floor     \* history: the moves known of when the cache was last emptied

worldVars == <<plugged, on, joined, heard, moves>>
vars == <<worldVars, cache, reader, floor>>

Radios == Range(Adapters)
Bands == {"2.4", "5", "6"}
NoBlock == [k \in {} |-> <<>>]
NoTables == [of |-> 0, interfaces |-> NoBlock, drivers |-> NoBlock]

(***************************************************************************)
(* What netsh prints                                                       *)
(***************************************************************************)

Pair(key, value) == [key |-> key, value |-> value]
Blank == Pair("blank", <<>>)
BandLine(b) == Pair("band", b)

\* Lines of a block: a key that comes again adds to what it had.
WithLine(block, line) ==
  IF line.key = "there is" THEN block
  ELSE IF line.key \in DOMAIN block /\ line.value # <<>>
       THEN [block EXCEPT ![line.key] = Append(@, line.value)]
       ELSE (line.key :> <<line.value>>) @@ block

\* Blocks are parted by blank lines; a line without a key is of none.
Blocks(lines) ==
  LET Step(acc, line) ==
        IF line.key = "blank"
        THEN IF DOMAIN acc.open = {} THEN acc
             ELSE [done |-> Append(acc.done, acc.open), open |-> NoBlock]
        ELSE IF line.key = "band" THEN acc
        ELSE [acc EXCEPT !.open = WithLine(@, line)]
      end == FoldLeft(Step, [done |-> <<>>, open |-> NoBlock], lines)
  IN IF DOMAIN end.open = {} THEN end.done ELSE Append(end.done, end.open)

\* The keyless lines after "Number of supported bands", to the next line with a key.
SupportedBands(lines) ==
  LET Step(acc, line) ==
        CASE line.key = "interface name" -> [acc EXCEPT !.at = line.value, !.collecting = FALSE]
          [] line.key = "number of supported bands" ->
               [acc EXCEPT !.collecting = TRUE,
                           !.bands = IF acc.at = Nobody THEN @ ELSE @ @@ (acc.at :> {})]
          [] acc.collecting /\ line.key = "band" /\ acc.at # Nobody ->
               [acc EXCEPT !.bands[acc.at] = @ \cup {line.value}]
          [] acc.collecting /\ line.key \notin {"band", "blank"} -> [acc EXCEPT !.collecting = FALSE]
          [] OTHER -> acc
  IN FoldLeft(Step, [at |-> Nobody, collecting |-> FALSE, bands |-> NoBlock], lines).bands

\* External: `netsh wlan show interfaces` and `show drivers`.
InterfaceText ==
  <<Pair("there is", <<>>), Blank>> \o
  FlattenSeq([i \in DOMAIN Adapters |->
    LET a == Adapters[i] IN
    IF a \notin plugged THEN <<>>
    ELSE <<Pair("name", a), Pair("description", Text[a]), Pair("physical address", a),
           Pair("ssid", IF joined = a THEN "corp" ELSE ""), Blank>>])

DriverText ==
  FlattenSeq([i \in DOMAIN Adapters |->
    LET a == Adapters[i] IN
    IF a \notin plugged THEN <<>>
    ELSE <<Pair("interface name", a), Pair("version", a)>>
         \o (IF a \in Named THEN <<Pair("description", Text[a])>> ELSE <<>>)
         \o (IF Declared[a] = {} THEN <<>>
             ELSE <<Pair("number of supported bands", "n")>>
                  \o SetToSeq({BandLine(b) : b \in Declared[a]}))
         \o <<Pair("radio types supported", Types[a]), Blank>>])

\* The blocks with a name, by that name; the last of a name stays.
ByName(blocks, key) ==
  LET named == {i \in DOMAIN blocks : key \in DOMAIN blocks[i]}
      names == {blocks[i][key][1] : i \in named}
  IN [n \in names |-> blocks[CHOOSE i \in named :
                               /\ blocks[i][key][1] = n
                               /\ \A j \in named : blocks[j][key][1] = n => j <= i]]

WithBands(drivers, bands) ==
  [n \in DOMAIN drivers |->
     IF n \in DOMAIN bands THEN ("_supported_bands" :> <<bands[n]>>) @@ drivers[n]
     ELSE drivers[n]]

Tables ==
  [of |-> moves, interfaces |-> ByName(Blocks(InterfaceText), "name"),
   drivers |-> WithBands(ByName(Blocks(DriverText), "interface name"),
                         SupportedBands(DriverText))]

(***************************************************************************)
(* Describing an adapter                                                   *)
(***************************************************************************)

Within(part, whole) ==
  \E i \in 0..(Len(whole) - Len(part)) : SubSeq(whole, i + 1, i + Len(part)) = part

Described(block) == IF "description" \in DOMAIN block THEN block["description"][1] ELSE <<>>

\* Faulty: a description that holds the text is as good as the same.
MatchAnywhere(text, table) ==
  LET near == {n \in DOMAIN table : Within(text, Described(table[n]))} IN
  IF near = {} THEN NoBlock
  ELSE table[CHOOSE n \in near :
               \A m \in near : Len(Described(table[m])) <= Len(Described(table[n]))]

\* The block of a device: the same description, else one that holds it, else the only
\* one there is.
MatchNetsh(text, table) ==
  LET same == {n \in DOMAIN table : Described(table[n]) = text}
      near == {n \in DOMAIN table : text # <<>> /\ Within(text, Described(table[n]))}
  IN IF same # {} THEN table[CHOOSE n \in same : TRUE]
     ELSE IF near # {} THEN table[CHOOSE n \in near : TRUE]
     ELSE IF \E n \in DOMAIN table : DOMAIN table = {n}
          THEN table[CHOOSE n \in DOMAIN table : TRUE] ELSE NoBlock

\* KNOWN_ADAPTERS, the more telling first, with the first match deciding; the chips
\* of CHIPSET_HINTS are of internal adapters.
KnownAdapters ==
  <<[words |-> <<"awus036axml">>, six |-> TRUE],
    [words |-> <<"alfa">>, six |-> FALSE],
    [words |-> <<"mt7921">>, six |-> FALSE],
    [words |-> <<"usb", "wireless">>, six |-> FALSE]>>

Classify(text) ==
  LET found == SelectInSeq(KnownAdapters, LAMBDA k : Within(k.words, text)) IN
  [known |-> found # 0, external |-> found # 0,
   six |-> found # 0 /\ KnownAdapters[found].six]

\* What radio types and PHY types imply.
Inferred(types, phys) ==
  (IF types \cap {"b", "g"} # {} \/ phys \cap {"hrdsss", "erp"} # {} THEN {"2.4"} ELSE {})
  \cup (IF types \cap {"a", "ac", "ax"} # {} \/ phys \cap {"ofdm", "vht"} # {}
        THEN {"2.4", "5"} ELSE {})
  \cup (IF "n" \in types \/ "ht" \in phys THEN {"2.4"} ELSE {})
  \cup (IF "he" \in phys THEN {"2.4", "5"} ELSE {})
  \cup (IF "be" \in types \/ "eht" \in phys THEN Bands ELSE {})

HeardBy(a) == {h[2] : h \in {p \in heard : p[1] = a}}
HeardAtAll == {h[2] : h \in heard}

Value(block, key, default) == IF key \in DOMAIN block THEN block[key][1] ELSE default

(* The picture of one interface; live is what a handle answered of it.     *)
Describe(a, live, tables) ==
  LET own == MatchNetsh(Text[a], tables.interfaces)
      driver == MatchNetsh(Text[a], tables.drivers)
      types == Value(driver, "radio types supported", {})
      declared == Value(driver, "_supported_bands", {})
      base == IF declared # {} THEN declared
              ELSE Inferred(types, IF live THEN Phys[a] ELSE {})
      observed == IF HeardBy(a) # {} THEN HeardBy(a) ELSE HeardAtAll
      gained == observed \ base
      kind == Classify(Text[a])
  IN [mac |-> Value(own, "physical address", Nobody),
      driver |-> Value(driver, "version", Nobody),
      ssid |-> Value(own, "ssid", ""),
      live |-> live, on |-> IF live THEN IF a \in on THEN "on" ELSE "off" ELSE "unknown",
      connected |-> joined = a, known |-> kind.known, external |-> kind.external,
      declared |-> declared, observed |-> observed, bands |-> base \cup observed,
      attribution |-> IF HeardBy(a) # {} THEN "this adapter"
                      ELSE IF observed # {} THEN "this machine" ELSE "none",
      source |-> IF gained = {} THEN IF declared # {} THEN "driver" ELSE "inferred"
                 ELSE IF declared # {} THEN "driver + observed" ELSE "observed",
      note |-> IF "6" \in base \cup observed /\ gained # {} THEN "confirmed"
               ELSE IF kind.six /\ "6" \notin base \cup observed THEN "driver lacks it"
               ELSE "none"]

Score(info, text) ==
  50 * Cardinality({k \in Keywords : Within(k, text)})
  + (IF info.external THEN 40 ELSE 0) + (IF info.known THEN 20 ELSE 0)
  + (IF "6" \in info.bands THEN 15 ELSE 0)
  + (CASE info.on = "on" -> 10 [] info.on = "off" -> -60 [] OTHER -> 0)
  - (IF info.connected THEN 5 ELSE 0)

\* An adapter that cannot be described at all is listed with what the list says.
Unreadable(a) ==
  [mac |-> Nobody, driver |-> Nobody, ssid |-> "", live |-> FALSE, on |-> "unknown",
   connected |-> joined = a, known |-> FALSE, external |-> FALSE, declared |-> {},
   observed |-> {}, bands |-> {}, attribution |-> "none", source |-> "none", note |-> "none"]

\* The first of the best.
Recommended(infos) ==
  LET S(a) == Score(infos[a], Text[a])
      best == SelectInSeq(Adapters, LAMBDA a : a \in DOMAIN infos
                                     /\ \A b \in DOMAIN infos : S(b) <= S(a))
  IN IF best = 0 THEN Nobody ELSE Adapters[best]

(***************************************************************************)
(* Steps                                                                   *)
(***************************************************************************)

TypeOK ==
  /\ plugged \subseteq Radios /\ on \subseteq Radios /\ joined \in Radios \cup {Nobody}
  /\ heard \subseteq Radios \X Bands /\ moves \in 0..Moves /\ floor \in 0..Moves
  /\ cache = [age |-> cache.age, tables |-> cache.tables]
  /\ cache.age \in 0..Life /\ cache.tables.of \in 0..Moves
  /\ reader.busy \in BOOLEAN /\ reader.tables.of \in 0..Moves

Init ==
  /\ plugged = Radios /\ on = Radios /\ joined = Nobody /\ heard = {} /\ moves = 0
  /\ cache = [age |-> Life, tables |-> NoTables]
  /\ reader = [busy |-> FALSE, tables |-> NoTables]
  /\ floor = 0

\* Something happens to an adapter: plugged or pulled out, switched, joined, heard of.
Move(a) ==
  /\ moves < Moves /\ moves' = moves + 1
  /\ \/ /\ plugged' = IF a \in plugged THEN plugged \ {a} ELSE plugged \cup {a}
        /\ joined' = IF joined = a THEN Nobody ELSE joined
        /\ UNCHANGED <<on, heard>>
     \/ a \in plugged /\ on' = (on \ {a}) \cup ({a} \ on) /\ UNCHANGED <<plugged, joined, heard>>
     \/ a \in plugged \cap on /\ joined' = a /\ UNCHANGED <<plugged, on, heard>>
     \/ /\ a \in plugged \cap on
        /\ \E b \in Bands : heard' = heard \cup {<<a, b>>}
        /\ UNCHANGED <<plugged, on, joined>>
  /\ UNCHANGED <<cache, reader, floor>>

Tick ==
  /\ cache.age < Life /\ cache' = [cache EXCEPT !.age = @ + 1]
  /\ UNCHANGED <<worldVars, reader, floor>>

\* Faulty: what was printed is kept until it is old.
InvalidateLate ==
  /\ floor' = IF reader.busy THEN floor ELSE moves
  /\ UNCHANGED <<worldVars, cache, reader>>

InvalidateCache ==
  /\ cache' = [cache EXCEPT !.age = Life]
  /\ floor' = IF reader.busy THEN floor ELSE moves
  /\ UNCHANGED <<worldVars, reader>>

\* A thread asks netsh, and keeps what it printed some time later.
ReadBegins ==
  /\ ~reader.busy /\ cache.age = Life
  /\ reader' = [busy |-> TRUE, tables |-> Tables]
  /\ UNCHANGED <<worldVars, cache, floor>>

ReadEnds ==
  /\ reader.busy
  /\ cache' = [age |-> 0, tables |-> reader.tables]
  /\ reader' = [busy |-> FALSE, tables |-> NoTables]
  /\ UNCHANGED <<worldVars, floor>>

\* netsh is asked when its cache is old, and may print nothing.
Answers == IF cache.age < Life THEN {cache.tables} ELSE {Tables, [NoTables EXCEPT !.of = moves]}

\* What the call may return now: of every interface, some of which cannot be asked, and
\* one perhaps not described at all.
Picture(tables, live, lost) ==
  LET infos == [a \in plugged |-> IF a \in lost THEN Unreadable(a)
                                  ELSE Describe(a, a \in live, tables)]
  IN [infos |-> infos, recommended |-> Recommended(infos), tables |-> tables]

Pictures ==
  {Picture(tables, c[1], c[2]) : tables \in Answers,
     c \in {p \in (SUBSET plugged) \X ({{}} \cup {{a} : a \in plugged}) : p[1] \cap p[2] = {}}}

EnumerateAdapters ==
  /\ plugged # {} /\ cache.age = Life
  /\ \E tables \in Answers : cache' = [age |-> 0, tables |-> tables]
  /\ UNCHANGED <<worldVars, reader, floor>>

Next ==
  \/ \E a \in Radios : Move(a)
  \/ Tick \/ InvalidateCache \/ ReadBegins \/ ReadEnds \/ EnumerateAdapters

(***************************************************************************)
(* Properties                                                              *)
(***************************************************************************)

\* Where netsh listed every interface there is, each is described with its own address
\* and never with another's, however alike the descriptions are (_match_netsh).
EachIsItself(p) ==
  DOMAIN p.infos \subseteq DOMAIN p.tables.interfaces =>
    \A a \in DOMAIN p.infos : p.infos[a].mac \in {a, Nobody}

\* The bands of an adapter are those its driver declares and those heard, and 6 GHz is
\* never inferred from anything less than Wi-Fi 7 (describe, _bands_from_radio_types).
BandsAreFounded(p) ==
  \A a \in DOMAIN p.infos :
    LET i == p.infos[a] IN
    /\ i.declared \cup i.observed \subseteq i.bands
    /\ "6" \in i.bands => \/ "6" \in i.declared \cup i.observed
                          \/ i.declared = {} /\ ("be" \in UNION Range(Types) \/ "eht" \in Phys[a])

\* Exactly one adapter is recommended if there is any, and it is not one that is off
\* where one of its kind, no less wanted, is on (preference_score).
BestIsUsable(p) ==
  LET Wanted(a) == {k \in Keywords : Within(k, Text[a])}
      best == p.recommended
  IN /\ DOMAIN p.infos # {} <=> best # Nobody
     /\ \A a \in DOMAIN p.infos :
          ~(/\ p.infos[best].on = "off" /\ p.infos[a].on = "on"
            /\ p.infos[a].external = p.infos[best].external
            /\ p.infos[a].known = p.infos[best].known /\ Wanted(a) = Wanted(best))

\* Unless netsh was being asked when the cache was emptied, what is described after that
\* is not what was printed before (invalidate_cache).
RepairShows(p) == p.tables.of >= floor
=============================================================================
