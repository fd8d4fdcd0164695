----------------------------- MODULE MCAnalysis -----------------------------
(***************************************************************************)
(* Analysis for TLC, with the readers that are functions of what they are  *)
(* given: how two names compare, what a beacon says of which the end is    *)
(* missing, whose an address is, and where a GPS receiver is.  What they   *)
(* are given grows step by step, so that TLC compares each with its        *)
(* reference on all of it.                                                 *)
(***************************************************************************)
EXTENDS Analysis, SequencesExt, TLC

VARIABLES
  first, second,  \* two names, letter by letter; or a vendor file, and those there are
  beacon, cut     \* a list of elements, and how many of its bytes were heard

wordVars == <<first, second>>
beaconVars == <<beacon, cut>>

MCSubjects == {"air", "quiet", "words", "beacon", "survey", "adapters", "screens", "vendors", "once"}

Parser == INSTANCE IeParser

\* A zero that looks like an o, a dash that looks like nothing.
MCLetters == {"c", "o", "0", "-"}
MCFold == [l \in MCLetters |-> CASE l = "0" -> "o" [] l = "-" -> "dropped" [] OTHER -> l]
MCNames == {"corp", "c0rp"}
MCText == [corp |-> <<"c", "o", "c">>, c0rp |-> <<"c", "0", "c">>, c |-> <<"c">>]

(***************************************************************************)
(* Beacons                                                                 *)
(***************************************************************************)

Encoded(elements) ==
  FlattenSeq([i \in DOMAIN elements |->
                <<elements[i].id, Len(elements[i].body)>> \o elements[i].body])

El(id, body) == [id |-> id, body |-> body]
OneSuite(n) == <<1, 0, 0, 15, 172, n>>
RsnBody(cipher, akm, caps) == <<1, 0, 0, 15, 172, 4>> \o OneSuite(cipher) \o OneSuite(akm) \o caps

Ssid   == El(0, <<99>>)
NoSsid == El(0, <<0>>)
Tim    == El(5, <<>>)
Ht     == El(61, <<6, 5>>)
Psk    == El(48, RsnBody(4, 2, <<128, 0>>))
Sae    == El(48, RsnBody(4, 8, <<192, 0>>))
Radius == El(48, RsnBody(4, 1, <<192, 0>>))
Short  == El(48, <<1, 0, 0, 15, 172, 4, 2, 0, 0, 15, 172, 2, 1>>)
WpaOne == El(221, <<0, 80, 242, 1, 1, 0, 0, 80, 242, 2>> \o OneSuite(2) \o OneSuite(2))
WpsPin == El(221, <<0, 80, 242, 4, 16, 8, 0, 2, 0, 4, 16, 33, 0, 1, 65>>)
He     == El(255, <<36, 0, 0, 2, 0, 0, 0, 5, 2, 0, 0, 0>>)
Bare   == El(255, <<>>)
Loaded == El(11, <<3, 0, 230, 0, 0>>)
Germany == El(7, <<68, 69, 32>>)

\* What a radio sends, as the rules see it.
SoundOf(d, period) ==
  [ssid |-> IF d.hidden THEN "none" ELSE "corp",
   security |-> d.posture.generation, enterprise |-> d.posture.enterprise,
   tkip |-> d.posture.tkip,
   pmf |-> IF d.posture.required THEN "required"
           ELSE IF d.posture.capable THEN "capable" ELSE "none",
   wps |-> IF d.info.wps = {} THEN "none" ELSE IF \E w \in d.info.wps : w.pin THEN "pin" ELSE "push",
   facts |-> IF d.info.wps = {} THEN 0 ELSE (CHOOSE w \in d.info.wps : TRUE).facts,
   channel |-> d.info.channel, band |-> d.info.band, width |-> d.info.width,
   load |-> d.info.load, country |-> d.info.country, beacon |-> period,
   elements |-> d.stable, broken |-> d.broken]

Sound(elements, khz, privacy, period) ==
  SoundOf(Parser!Decoded(Encoded(elements), khz, privacy, <<>>), period)

\* An enterprise network, an open copy of it in a crowded place, an old one that hides
\* and does not count well, and an everyday one.
Company ==
  [ssid |-> "corp", security |-> "WPA2", enterprise |-> TRUE, tkip |-> FALSE,
   pmf |-> "required", wps |-> "none", facts |-> 0, channel |-> 6, band |-> "2.4",
   width |-> 20, load |-> -1, country |-> <<68, 69>>, beacon |-> 100,
   elements |-> {<<0, -1>>, <<7, -1>>, <<48, -1>>}, broken |-> FALSE]
Copy ==
  [ssid |-> "corp", security |-> "Open", enterprise |-> FALSE, tkip |-> FALSE,
   pmf |-> "none", wps |-> "none", facts |-> 0, channel |-> 3, band |-> "2.4",
   width |-> 40, load |-> 90, country |-> <<85, 83>>, beacon |-> 102,
   elements |-> {<<0, -1>>, <<3, -1>>, <<7, -1>>, <<61, -1>>}, broken |-> FALSE]
Hider ==
  [ssid |-> "none", security |-> "WPA", enterprise |-> FALSE, tkip |-> TRUE,
   pmf |-> "none", wps |-> "pin", facts |-> 1, channel |-> 36, band |-> "5",
   width |-> 20, load |-> -1, country |-> <<>>, beacon |-> 20,
   elements |-> {<<221>>, <<0, -1>>, <<"vendor", 0, 80, 242, 1>>, <<"vendor", 0, 80, 242, 4>>},
   broken |-> FALSE]
Plain ==
  [Company EXCEPT !.enterprise = FALSE, !.pmf = "capable", !.country = <<>>,
                  !.elements = {<<0, -1>>, <<48, -1>>}]

(***************************************************************************)
(* The rules                                                               *)
(***************************************************************************)

Watch == [kind |-> "watch", type |-> "bssid", value |-> "ap"]
Trust == [kind |-> "trusted", type |-> "ssid", value |-> "corp"]

MCWrittenElements == Parser!SecurityElements
MCRecordElements == Parser!PostureElements
MCLevels == {-80, -40}

MCCrowdOui == [r \in {"ap", "twin"} |-> r]
MCCrowdVendor == [r \in {"ap", "twin"} |-> IF r = "ap" THEN "Maker" ELSE "unknown"]
MCCrowdSounds == {Company, Copy, Hider}
MCCrowdMarks == {Trust, [kind |-> "ignore", type |-> "oui", value |-> "twin"]}

MCLoneOui == [r \in {"ap"} |-> "maker"]
MCLoneVendor == [r \in {"ap"} |-> "Maker"]
MCLoneSounds == {Plain}
MCLoneMarks ==
  {Watch, Trust, [kind |-> "watch", type |-> "ssid_prefix", value |-> "c"],
   [kind |-> "ignore", type |-> "ssid", value |-> "corp"]}

\* One vendor the program knows, and rows on the blocks around an address of its.
Vendors == INSTANCE VendorTable WITH BuiltIn <- [p \in {<<"a">>} |-> "known"]
RowOf(form, prefix, bits, vendor) ==
  [form |-> form, prefix |-> prefix, bits |-> bits, vendor |-> vendor]
VendorRows ==
  {RowOf("manuf", <<"a">>, 24, "maker"), RowOf("manuf", <<"a">>, 24, "heir"),
   RowOf("manuf", <<"a", "1">>, 28, "tenant"), RowOf("manuf", <<"a", "1", "2">>, 36, "lodger"),
   RowOf("manuf", <<>>, 24, "none"), RowOf("csv", <<"b">>, 24, "other")}
Addresses == {<<>>, <<"a">>, <<"b">>, <<"a", "1">>, <<"a", "1", "2">>, <<"a", "1", "3">>, <<"a", "2", "2">>}

MCTags ==
  {[form |-> "blank", numbers |-> <<>>, rest |-> <<>>], [form |-> "odd", numbers |-> <<>>, rest |-> <<2>>]}
    \cup {[form |-> "version", numbers |-> n, rest |-> r] :
           n \in {<<0, 0, 0>>, <<0, 9, 1>>, <<1, 0, 0>>, <<1, 0, 2>>}, r \in {<<>>, <<9>>, <<1, 0>>}}

Sentences == INSTANCE NmeaSentence WITH
  Blank <- 1, South <- 2, West <- 3, North <- 4, East <- 5, Valid <- 6, Gga <- 7, Rmc <- 8

Words == INSTANCE TextDistance

\* Two networks at the lower end, of which a wide one overlaps what is beside it, and
\* one that moves band; levels on both sides of what is strong, covered and changed.
LookOf(ssid, band, channel, width, load, phy) ==
  [ssid |-> ssid, band |-> band, channel |-> channel, width |-> width, load |-> load,
   security |-> "WPA2", phy |-> phy]
MCSurveyLooks ==
  {LookOf("corp", "2.4", 1, 20, 900, "n"), LookOf("corp", "5", 36, 80, -1, "ac"),
   LookOf("guest", "2.4", 4, 40, -1, "n")}
MCSurveyLevels == {-82, -72}

\* Two adapters of one model, the second with the number Windows gives such a one.
MCInterfaces == <<"a", "b">>
MCDescriptions == [a |-> <<"mt7921">>, b |-> <<"mt7921", "#2">>]
MCTypes == [a |-> {"ax"}, b |-> {"ax"}]
MCPhys == [a |-> {"he"}, b |-> {"eht"}]
MCDeclared == [a |-> {"2.4", "5", "6"}, b |-> {}]
MCKeywords == {<<"#2">>}

\* A network with a name, and one that hides and says no channel.
SeenAs(name, band, channel, signal) ==
  [name |-> name, hidden |-> name = "", band |-> band, channel |-> channel, level |-> signal,
   enterprise |-> name # "", security |-> "WPA2", pmf |-> name # "", width |-> 0]
MCMarkPool == {Watch}
MCScreenLooks == {SeenAs("corp", "2.4", 1, -50), SeenAs("", "5", 0, -60)}

ASSUME ReadersAreWellFormed == Words!TextConstantsOK /\ Sentences!NmeaConstantsOK

\* What is not the subject is as it may be.
MCInit ==
  /\ Init
  /\ focus \notin {"air", "quiet"} => order[1] = "corp" /\ \A r \in DOMAIN level : level[r] = -80
  /\ focus # "screens" => page = "live"
  /\ first = <<>> /\ second = <<>> /\ beacon = <<>> /\ cut = 0

\* A letter more.
Spell ==
  \E l \in {"c", "o", "0"} :
    \/ Len(first) < 3 /\ first' = Append(first, l) /\ UNCHANGED second
    \/ Len(second) < 3 /\ second' = Append(second, l) /\ UNCHANGED first

\* A row more in a file of vendors, or the file laid beside the others.
Collect ==
  \/ /\ Len(first) < 2 /\ Len(second) < 2
     /\ \E row \in VendorRows : first' = Append(first, row)
     /\ UNCHANGED second
  \/ Len(second) < 2 /\ second' = Append(second, first) /\ first' = <<>>

\* An element more, or the end lost somewhere.
Send ==
  \/ /\ Len(beacon) < 3 /\ cut = Len(Encoded(beacon))
     /\ \E e \in {Ssid, NoSsid, Tim, Ht, Psk, Sae, Short, WpsPin, He, Bare} :
          beacon' = Append(beacon, e)
     /\ cut' = Len(Encoded(beacon'))
  \/ cut' \in 0..(cut - 1) /\ UNCHANGED beacon

MCNext ==
  \/ Next /\ UNCHANGED <<wordVars, beaconVars>>
  \/ focus = "words" /\ Spell /\ UNCHANGED <<vars, beaconVars>>
  \/ focus = "vendors" /\ Collect /\ UNCHANGED <<vars, beaconVars>>
  \/ focus = "beacon" /\ Send /\ UNCHANGED <<vars, wordVars>>

MCSpec == MCInit /\ [][MCNext]_<<vars, wordVars, beaconVars>>

Labels ==
  {"Open", "WEP", "WPA", "WPA/WPA2 mixed", "OWE", "WPA2", "WPA2/WPA3 transition", "WPA3",
   "WPA3-Enterprise", "WPA3-Enterprise 192-bit"}

\* Whatever was cut off, something comes out.
HeardPart == SubSeq(Encoded(beacon), 1, cut)
BeaconOK ==
  \A d \in {Parser!Decoded(HeardPart, 5955000, TRUE, <<>>)} :
  /\ d.posture.generation \in Labels /\ d.info.width \in {20, 40, 80, 160}
  /\ d.info.channel \in Nat /\ d.posture.required => d.posture.generation # "WEP"

\* Whatever the two names and the cap, the bounded distance is the distance when that
\* is within the cap, and beyond the cap when it is beyond: neither the shortcuts nor
\* the early end makes two names look nearer or further than they are
\* (detections.levenshtein).
DistanceAgrees ==
  \A cap \in 0..3 :
    LET bounded == Words!Levenshtein(first, second, cap)
        exact == Words!EditDistance(first, second)
    IN IF exact <= cap THEN bounded = exact ELSE bounded > cap

\* However much of a beacon's end is missing, the parser finds the elements that were
\* heard whole, all of them, in their order, and nothing else (iter_elements).
ElementsAgree ==
  LET Size(n) == Len(Encoded(SubSeq(beacon, 1, n)))
      whole == {n \in DOMAIN beacon : Size(n) <= cut}
      found == Parser!Elements(HeardPart)
  IN /\ DOMAIN found = whole
     /\ \A n \in whole :
          LET e == beacon[n] IN
          found[n] = IF e.id = 255 /\ e.body # <<>>
                     THEN [id |-> 255, ext |-> e.body[1], body |-> Tail(e.body)]
                     ELSE [id |-> e.id, ext |-> -1, body |-> e.body]

\* What the rules are checked with is what the parser makes of these beacons.
SoundsAreParsed ==
  /\ Company = Sound(<<Ssid, Germany, Radius>>, 2437000, TRUE, 100)
  /\ Copy = Sound(<<Ssid, El(3, <<3>>), Ht, Loaded, El(7, <<85, 83, 32>>)>>, 2422000, FALSE, 102)
  /\ Hider = Sound(<<NoSsid, WpaOne, WpsPin>>, 5180000, TRUE, 20)
  /\ Plain = Sound(<<Ssid, Psk>>, 2437000, TRUE, 100)

\* The readers say what their references say, whatever they are given; so do what the
\* tables of adapters and the lists on the screens are put together from.
ReadersAgree ==
  /\ focus = "words" => DistanceAgrees
  /\ focus = "beacon" => ElementsAgree /\ BeaconOK
  /\ focus = "vendors" => Vendors!VendorsAgree(second, Addresses)
  /\ focus = "once" => SoundsAreParsed /\ Sentences!FixesAgree({9, 10}, {0, 1, 6, 11})
  /\ focus = "adapters" => \A p \in Picture!Pictures : Picture!EachIsItself(p) /\ Picture!BandsAreFounded(p)
  /\ focus = "screens" => Screens!ListingsAgree
=============================================================================
