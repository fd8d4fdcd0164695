---------------------------- MODULE NmeaSentence ----------------------------
(***************************************************************************)
(* What a line of a GPS receiver says: parse_nmea of app/gps.py.  A line   *)
(* is a sequence of fields, and the checksum after them if there is one.   *)
(* A field is the code of what it says, those of a place being the minutes *)
(* of its degrees and the letter of its hemisphere; the fields nothing is  *)
(* read from, and what a fix has beside its place, are left out.           *)
(***************************************************************************)
EXTENDS Integers, Sequences, SequencesExt, Bitwise

CONSTANTS
  Blank,       \* a field with nothing in it, or nothing that can be read
  South, West, North, East,
  Valid,       \* the status letter of a place that holds
  Gga, Rmc     \* the two sentences that are read

\* What the constants have to be.
NmeaConstantsOK ==
  {Blank, South, West, North, East, Valid, Gga, Rmc} \subseteq Nat /\ Gga # Rmc

\* The exclusive or of all that is said.
Checksum(body) == FoldLeft(LAMBDA sum, f : sum ^^ f, 0, body)

\* Faulty: nobody counts.
HasChecksum(line) == line.sum # {}

\* _nmea_checksum_ok: a line without one is refused.
ChecksumOk(line) == line.sum = {Checksum(line.body)}

\* _dm_to_decimal: in minutes, to the north and the east; without a hemisphere there is
\* no place.
ToMinutes(place, side) ==
  IF place = Blank \/ side = Blank THEN {}
  ELSE {IF side \in {South, West} THEN -place ELSE place}

\* The two sentences have the place at different fields, and say in their own way
\* that it holds.
PlaceAt(fields, n) ==
  {[lat |-> lat, lon |-> lon] :
     lat \in ToMinutes(fields[n], fields[n + 1]),
     lon \in ToMinutes(fields[n + 2], fields[n + 3])}

Said(fields) ==
  CASE fields[1] = Gga /\ Len(fields) >= 6 -> IF fields[6] \in {0, Blank} THEN {} ELSE PlaceAt(fields, 2)
    [] fields[1] = Rmc /\ Len(fields) >= 6 -> IF fields[2] = Valid THEN PlaceAt(fields, 3) ELSE {}
    [] OTHER -> {}

\* parse_nmea: a fix, or nothing.
ParseNmea(line) ==
  IF line.body = <<>> \/ ~ChecksumOk(line) THEN {} ELSE Said(line.body)

(***************************************************************************)
(* Properties                                                              *)
(***************************************************************************)

Line(body) == [body |-> body, sum |-> {Checksum(body)}]

\* The two sentences about a place agree on where it is, on its side of the equator and
\* of Greenwich, and neither gives a place it does not vouch for; and a line of which
\* one field was changed on the way, or the end lost, gives none (parse_nmea).
FixesAgree(places, qualities) ==
  \A lat, lon \in places, ns \in {North, South}, ew \in {East, West}, q \in qualities :
    LET gga == <<Gga, lat, ns, lon, ew, q>>
        rmc == <<Rmc, q, lat, ns, lon, ew>>
        there == {[lat |-> IF ns = North THEN lat ELSE -lat,
                   lon |-> IF ew = East THEN lon ELSE -lon]}
    IN /\ ParseNmea(Line(gga)) = IF q \in {0, Blank} THEN {} ELSE there
       /\ ParseNmea(Line(rmc)) = IF q = Valid THEN there ELSE {}
       /\ \A body \in {gga, rmc} :
            /\ \A i \in DOMAIN body, v \in places \cup qualities :
                 v # body[i] => ParseNmea([Line(body) EXCEPT !.body[i] = v]) = {}
            /\ \A n \in 0..Len(body) :
                 ParseNmea([body |-> SubSeq(body, 1, n), sum |-> {}]) = {}
=============================================================================
