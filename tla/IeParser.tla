------------------------------ MODULE IeParser ------------------------------
(***************************************************************************)
(* app/ie_parser.py: what the information elements of a beacon say, and    *)
(* what app/scanner.py takes from them to know an access point again.      *)
(* A blob is a sequence of bytes; offsets count from 0 as they do there.   *)
(* Names nobody tells apart, of ciphers, vendors and WPS texts, are left   *)
(* out.                                                                    *)
(***************************************************************************)
EXTENDS Integers, Sequences, FiniteSets, SequencesExt

NoExtension == -1
NoChannel == -1
NoLoad == -1
Unknown == "unknown"

(***************************************************************************)
(* Bytes                                                                   *)
(***************************************************************************)

At(p, off) == p[off + 1]
From(p, off) == SubSeq(p, off + 1, Len(p))
U16(p, off) == At(p, off) + 256 * At(p, off + 1)
Bit(n, mask) == (n \div mask) % 2 = 1
Bounded(n, limit) == IF n < limit THEN n ELSE limit

Microsoft == <<0, 80, 242>>
WiFiAlliance == <<80, 111, 154>>
Ieee == <<0, 15, 172>>

\* Key management by what it is taken for below; of the ciphers, TKIP.
AkmName(n) ==
  CASE n \in {1, 3, 13} -> "802.1X" [] n = 5 -> "802.1X-SHA256"
    [] n \in {11, 12} -> "802.1X-Suite-B" [] n \in {2, 4} -> "PSK"
    [] n \in {8, 9, 24} -> "SAE" [] n = 18 -> "OWE" [] OTHER -> "other"
CipherName(n) == IF n = 2 THEN "TKIP" ELSE "other"

\* _suite_name: the number of a suite of a vendor it knows, 0 otherwise.
Suite(p, off) ==
  IF SubSeq(p, off + 1, off + 3) \in {Ieee, Microsoft} THEN At(p, off + 3) ELSE 0

(***************************************************************************)
(* Elements                                                                *)
(***************************************************************************)

\* Faulty: what ends with the blob is taken for truncated.
CutAtEnd(end, p) == end >= Len(p)

Truncated(end, p) == end > Len(p)

\* iter_elements: a truncated tail is left out, and nobody told.
Elements(blob) ==
  LET from[i \in 0..Len(blob)] ==
        IF i + 2 > Len(blob) THEN <<>>
        ELSE LET end == i + 2 + At(blob, i + 1)
                 body == SubSeq(blob, i + 3, end)
             IN IF Truncated(end, blob) THEN <<>>
                ELSE IF At(blob, i) = 255 /\ body # <<>>
                     THEN <<[id |-> 255, ext |-> body[1], body |-> Tail(body)]>> \o from[end]
                     ELSE <<[id |-> At(blob, i), ext |-> NoExtension, body |-> body]>> \o from[end]
  IN from[0]

\* A counted list of suites: those that are there of the first 32 promised.  With no
\* room for the count there is no list.
Suites(p, off) ==
  IF off + 2 > Len(p) THEN [numbers |-> {}, off |-> off, short |-> FALSE, many |-> FALSE]
  ELSE LET promised == Bounded(U16(p, off), 32)
           there == Bounded(promised, (Len(p) - off - 2) \div 4)
       IN [numbers |-> {Suite(p, off + 2 + 4 * i) : i \in 0..there - 1},
           off |-> off + 2 + 4 * there, short |-> there < promised,
           many |-> U16(p, off) > 32]

\* The version and the group cipher come first.
AfterGroup(p) == IF Len(p) >= 6 THEN 6 ELSE 2

\* parse_rsn
Rsn(p) ==
  IF Len(p) < 2 THEN [akms |-> {}, ciphers |-> {}, capable |-> FALSE, required |-> FALSE,
                      malformed |-> TRUE]
  ELSE LET pairwise == Suites(p, AfterGroup(p))
           akms == Suites(p, pairwise.off)
           caps == IF akms.off + 2 <= Len(p) THEN U16(p, akms.off) ELSE 0
       IN [akms |-> {AkmName(n) : n \in akms.numbers},
           ciphers |-> {CipherName(n) : n \in pairwise.numbers},
           capable |-> Bit(caps, 128), required |-> Bit(caps, 64),
           malformed |-> pairwise.short \/ pairwise.many \/ akms.short \/ akms.many]

\* parse_wpa: here too many suites are no fault.
Wpa(p) ==
  IF Len(p) < 2 THEN [akms |-> {}, ciphers |-> {}, malformed |-> TRUE]
  ELSE LET pairwise == Suites(p, AfterGroup(p))
           akms == Suites(p, pairwise.off)
       IN [akms |-> {AkmName(n) : n \in akms.numbers},
           ciphers |-> {CipherName(n) : n \in pairwise.numbers},
           malformed |-> pairwise.short \/ akms.short]

\* parse_wps: the attributes, as far as they are whole.
Attributes(p) ==
  LET from[i \in 0..Len(p)] ==
        IF i + 4 > Len(p) THEN <<>>
        ELSE LET end == i + 4 + 256 * At(p, i + 2) + At(p, i + 3)
             IN IF Truncated(end, p) THEN <<>>
                ELSE <<[attr |-> 256 * At(p, i) + At(p, i + 1), value |-> SubSeq(p, i + 5, end)]>>
                       \o from[end]
  IN from[0]

\* The last of some elements or attributes, or none.
LastOf(list, Is(_), none) ==
  LET i == SelectLastInSeq(list, Is) IN IF i = 0 THEN none ELSE list[i]

\* Whether a PIN can be tried, by label, display or keypad, and how many of its make,
\* model, number, name and serial number it gives away.
Wps(p) ==
  LET methods == LastOf(Attributes(p), LAMBDA a : a.attr = 4104 /\ Len(a.value) >= 2,
                        [attr |-> 4104, value |-> <<0, 0>>])
      bits == 256 * methods.value[1] + methods.value[2]
      texts == {a \in Range(Attributes(p)) :
                  a.attr \in {4113, 4129, 4131, 4132, 4162} /\ a.value # <<>>}
  IN [pin |-> Bit(bits, 4) \/ Bit(bits, 8) \/ Bit(bits, 256),
      facts |-> Cardinality({a.attr : a \in texts})]

(***************************************************************************)
(* Channel and width                                                       *)
(***************************************************************************)

\* Steps of 5 MHz above a base, to the nearest.
Steps(khz, base) == (khz - base + 2500) \div 5000

\* _channel_from_freq
ChannelOf(khz) ==
  CASE khz \in 2401000..2495000 ->
         LET n == Steps(khz, 2407000)
         IN [band |-> "2.4", channel |-> IF khz \in 2483001..2484999 THEN 14
                                         ELSE IF n \in 1..13 THEN n ELSE NoChannel]
    [] khz \in 4900000..4999999 -> [band |-> "5", channel |-> Steps(khz, 4000000)]
    [] khz \in 5000000..5925000 -> [band |-> "5", channel |-> Steps(khz, 5000000)]
    [] khz \in 5925001..7125000 ->
         LET n == Steps(khz, 5950000)
         IN [band |-> "6", channel |-> IF n >= 1 THEN n ELSE NoChannel]
    [] khz \in 57000000..71000000 ->
         [band |-> "60", channel |-> (khz - 56160000 + 1080000) \div 2160000]
    [] OTHER -> [band |-> Unknown, channel |-> NoChannel]

\* _vht_width: 0 for no answer.
VhtWidth(vht, ht) ==
  LET wide == Len(ht) >= 2 /\ Bit(At(ht, 1), 4) /\ At(ht, 1) % 4 \in {1, 3}
      apart == At(vht, 2) - At(vht, 1)
  IN IF Len(vht) >= 3 /\ At(vht, 0) = 2 THEN 160
     ELSE IF Len(vht) >= 3 /\ At(vht, 0) = 3 THEN 80
     ELSE IF Len(vht) >= 3 /\ At(vht, 0) = 1
          THEN IF At(vht, 2) # 0 /\ apart \in {-8, 8} THEN 160 ELSE 80
     ELSE IF Len(ht) < 2 THEN 0 ELSE IF wide THEN 40 ELSE 20

\* _he_width: the 6 GHz operation information, where it is.
HeWidth(he) ==
  IF Len(he) < 6 \/ ~Bit(At(he, 2), 2) THEN 0
  ELSE LET off == 6 + (IF Bit(At(he, 3), 64) THEN 3 ELSE 0) + (IF Bit(At(he, 1), 128) THEN 1 ELSE 0)
       IN IF off + 4 < Len(he) THEN 20 * 2 ^ (At(he, off + 1) % 4) ELSE 0

(***************************************************************************)
(* A beacon                                                                *)
(***************************************************************************)

\* What an element says by being there.
Feature(e) ==
  CASE e.id = 45 -> {"ht"} [] e.id = 191 -> {"vht"} [] e.id = 54 -> {"ft"}
    [] e.id = 70 -> {"rm"} [] e.id = 107 -> {"interworking"} [] e.id = 114 -> {"mesh"}
    [] e.id = 201 -> {"colocated"}
    [] e.id = 127 /\ Len(e.body) >= 3 -> IF Bit(At(e.body, 2), 8) THEN {"transition"} ELSE {}
    [] e.id = 255 /\ e.ext \in {35, 36, 59} -> {"he"}
    [] e.id = 255 /\ e.ext \in {106, 107, 108} -> {"eht"}
    [] OTHER -> {}

\* A vendor element: its maker and, where there is one, its type.
IsVendor(e, oui, type) ==
  e.id = 221 /\ Len(e.body) >= 4 /\ SubSeq(e.body, 1, 3) = oui /\ At(e.body, 3) = type

\* The DS parameter says the channel, and the HT operation where nothing has yet.
Tune(channel, e) ==
  IF e.id = 3 /\ e.body # <<>> THEN At(e.body, 0)
  ELSE IF e.id = 61 /\ e.body # <<>> /\ channel \in {NoChannel, 0} THEN At(e.body, 0)
  ELSE channel

Blank(ssid) == \A i \in DOMAIN ssid : ssid[i] = 0

\* parse_ies: of elements that come twice, mostly the last counts.
InfoOf(es, khz) ==
  LET Body(Is(_)) == LastOf(es, Is, [id |-> 0, ext |-> NoExtension, body |-> <<>>]).body
      With(id) == {e \in Range(es) : e.id = id}
      Maker(type) == {e \in Range(es) : IsVendor(e, Microsoft, type)}
      ssid == Body(LAMBDA e : e.id = 0)
      load == Body(LAMBDA e : e.id = 11 /\ Len(e.body) >= 5)
      country == Body(LAMBDA e : e.id = 7 /\ Len(e.body) >= 3)
      said == FoldLeft(Tune, NoChannel, es)
      tuned == ChannelOf(khz)
      he == HeWidth(Body(LAMBDA e : e.id = 255 /\ e.ext = 36))
      vht == VhtWidth(Body(LAMBDA e : e.id = 192), Body(LAMBDA e : e.id = 61))
  IN [named |-> With(0) # {}, hidden |-> \E e \in With(0) : Blank(e.body),
      ssid |-> IF Blank(ssid) THEN <<>> ELSE ssid,
      channel |-> IF said = NoChannel \/ (tuned.band = "6" /\ tuned.channel # NoChannel)
                  THEN tuned.channel ELSE said,
      band |-> tuned.band,
      width |-> IF he # 0 THEN he ELSE IF vht # 0 THEN vht ELSE 20,
      country |-> SubSeq(country, 1, Bounded(2, Len(country))),
      load |-> IF load = <<>> THEN NoLoad ELSE (200 * At(load, 2) + 255) \div 510,
      rsn |-> IF With(48) = {} THEN {} ELSE {Rsn(Body(LAMBDA e : e.id = 48))},
      wpa |-> IF Maker(1) = {} THEN {}
              ELSE {Wpa(From(Body(LAMBDA e : IsVendor(e, Microsoft, 1)), 4))},
      wps |-> IF Maker(4) = {} THEN {}
              ELSE {Wps(From(Body(LAMBDA e : IsVendor(e, Microsoft, 4)), 4))},
      wmm |-> Maker(2) # {},
      hotspot |-> \E e \in Range(es) : IsVendor(e, WiFiAlliance, 16),
      features |-> UNION {Feature(e) : e \in Range(es)}]

Info(blob, khz) == InfoOf(Elements(blob), khz)

\* security_summary.  The label is what app/detections.py ranks.
Generation(info, privacy) ==
  LET rsn == UNION {x.akms : x \in info.rsn}
      akms == rsn \cup UNION {x.akms : x \in info.wpa}
      required == \E x \in info.rsn : x.required
  IN IF info.rsn = {} THEN IF info.wpa # {} THEN "WPA" ELSE IF privacy THEN "WEP" ELSE "Open"
     ELSE IF "SAE" \in akms THEN IF "PSK" \in akms THEN "WPA2/WPA3 transition" ELSE "WPA3"
     ELSE IF "OWE" \in akms THEN "OWE"
     ELSE IF "802.1X-Suite-B" \in akms THEN "WPA3-Enterprise 192-bit"
     ELSE IF "802.1X-SHA256" \in akms /\ required THEN "WPA3-Enterprise"
     ELSE IF info.wpa # {} THEN "WPA/WPA2 mixed" ELSE "WPA2"

Posture(info, privacy) ==
  [generation |-> Generation(info, privacy),
   enterprise |-> \E x \in info.rsn \cup info.wpa :
                    x.akms \cap {"802.1X", "802.1X-SHA256", "802.1X-Suite-B"} # {},
   tkip |-> \E x \in info.rsn \cup info.wpa : "TKIP" \in x.ciphers,
   capable |-> \E x \in info.rsn : x.capable,
   required |-> \E x \in info.rsn : x.required]

\* phy_label
Phy(info, driver) ==
  LET Is(name) == name \in info.features \/ driver = name
      old == [erp |-> "g", hrdsss |-> "b", ofdm |-> "a"]
  IN IF Is("eht") THEN "be"
     ELSE IF Is("he") THEN IF info.band = "6" THEN "ax at 6 GHz" ELSE "ax"
     ELSE IF Is("vht") THEN "ac" ELSE IF Is("ht") THEN "n"
     ELSE IF driver \in DOMAIN old THEN old[driver] ELSE driver

(***************************************************************************)
(* Knowing an access point again (app/scanner.py)                          *)
(***************************************************************************)

Volatile == {5, 11, 32, 35, 37, 40, 42, 60, 74, 201}

\* What an element is known by: a vendor's by its maker, and by its type where a type
\* is what the fourth byte is.
KnownBy(e) ==
  IF e.id = 221 /\ Len(e.body) >= 3
  THEN LET oui == SubSeq(e.body, 1, 3) IN
       {<<221>>, <<"vendor">> \o oui \o (IF oui \notin {Microsoft, WiFiAlliance} THEN <<>>
                                        ELSE IF Len(e.body) > 3 THEN <<At(e.body, 3)>>
                                        ELSE <<NoExtension>>)}
  ELSE IF e.id \in Volatile THEN {} ELSE {<<e.id, e.ext>>}

\* stable_elements, and so ie_fingerprint.
StableElements(blob) == UNION {KnownBy(e) : e \in Range(Elements(blob))}

\* SECURITY_ELEMENTS of app/detections.py: of the vendor's types, the digits are two.
SecurityElements ==
  {<<48, NoExtension>>} \cup {<<"vendor">> \o Microsoft \o <<"0", type>> : type \in {1, 4}}

\* What they stand for, as stable_elements has it.
PostureElements ==
  {<<48, NoExtension>>} \cup {<<"vendor">> \o Microsoft \o <<type>> : type \in {1, 4}}

\* build_record: a name the beacon holds back may be in what the driver heard besides.
RecordOf(info, stable, privacy, probed) ==
  LET said == IF info.named THEN info.ssid ELSE probed
      held == info.hidden \/ said = <<>>
  IN [name |-> IF held /\ probed # <<>> THEN probed ELSE said,
      hidden |-> held /\ probed = <<>>,
      info |-> info, posture |-> Posture(info, privacy), phy |-> Phy(info, "erp"),
      broken |-> \E x \in info.rsn \cup info.wpa : x.malformed,
      stable |-> stable]

Decoded(blob, khz, privacy, probed) ==
  RecordOf(Info(blob, khz), StableElements(blob), privacy, probed)
=============================================================================
