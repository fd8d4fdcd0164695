---------------------------- MODULE SurveyReport ----------------------------
(***************************************************************************)
(* What app/survey.py makes of a survey: how contended each channel is and *)
(* which ones to use, how well each place is covered, and what has changed *)
(* since a snapshot.  The picture is what list_bss returns for the last    *)
(* minutes: one row for each radio heard, the one thing all three reports  *)
(* are computed from.                                                      *)
(***************************************************************************)
EXTENDS Integers, Sequences, FiniteSets, FiniteSetsExt

CONSTANTS
  Radios,
  Looks,      \* what a row says apart from its level: name, band, channel, width, load,
              \* security and phy
  Levels,     \* dBm
  MaxPoints   \* bound on the places walked to

\* What the constants have to be.
ReportConstantsOK ==
  /\ \A l \in Looks : /\ l.band \in {"2.4", "5", "6"} /\ l.width \in {20, 40, 80, 160}
                      /\ l.channel \in Nat /\ l.load \in Nat \cup {-1}
  /\ Levels \subseteq -126..-1 /\ MaxPoints \in Nat /\ IsFiniteSet(Radios)

VARIABLES
  now,        \* the rows of the radios heard in the last minutes
  kept,       \* the snapshot there is, if any: the rows when it was taken
  points      \* the places walked to, each with the rows heard there

vars == <<now, kept, points>>

Rows == [look : Looks, level : Levels]
Pictures == UNION {[heard -> Rows] : heard \in SUBSET Radios}

TypeOK ==
  /\ now \in Pictures
  /\ kept \subseteq Pictures /\ Cardinality(kept) <= 1
  /\ points \in Seq(Pictures) /\ Len(points) <= MaxPoints

Init == now = <<>> /\ kept = {} /\ points = <<>>

With(picture, r, row) ==
  [o \in DOMAIN picture \cup {r} |-> IF o = r THEN row ELSE picture[o]]
Without(picture, r) == [o \in DOMAIN picture \ {r} |-> picture[o]]

\* A radio is heard, or has not been for all the minutes that count.
Hear(r) == \E row \in Rows : now' = With(now, r, row) /\ UNCHANGED <<kept, points>>
Leave(r) == r \in DOMAIN now /\ now' = Without(now, r) /\ UNCHANGED <<kept, points>>

TakeSnapshot == kept' = {now} /\ UNCHANGED <<now, points>>

\* A place is surveyed: what is heard is filed with it.
CapturePoint ==
  /\ Len(points) < MaxPoints
  /\ points' = Append(points, now)
  /\ UNCHANGED <<now, kept>>

Next == (\E r \in Radios : Hear(r) \/ Leave(r)) \/ TakeSnapshot \/ CapturePoint

Spec == Init /\ [][Next]_vars

(***************************************************************************)
(* Interference and channels                                               *)
(***************************************************************************)

On(band, channel) ==
  {r \in DOMAIN now : now[r].look.band = band /\ now[r].look.channel = channel}
Observed(band) == {now[r].look.channel : r \in {o \in DOMAIN now : now[o].look.band = band}}

\* _channel_span, around the channel, of the widest network on it.
HalfSpan(band, channel) ==
  LET width == Max({now[r].look.width : r \in On(band, channel)}) IN
  IF band = "2.4" THEN 2 + (width \div 20 - 1) * 4 ELSE (width \div 20) * 2

\* Two spans that meet in more than a point.
Overlaps(band, c, d) ==
  LET apart == IF c < d THEN d - c ELSE c - d
  IN apart < HalfSpan(band, c) + HalfSpan(band, d)

OverlappingAps(band, channel) ==
  LET others == {d \in Observed(band) \ {channel} : Overlaps(band, d, channel)}
  IN SumFunction([d \in others |-> Cardinality(On(band, d))])

\* Tenths of a per cent, of the radios that say how busy they are.
Utilization(band, channel) ==
  LET telling == {r \in On(band, channel) : now[r].look.load # -1}
      sum == SumFunction([r \in telling |-> now[r].look.load])
      n == Cardinality(telling)
  IN IF n = 0 THEN 0 ELSE (2 * sum + n) \div (2 * n)

\* In tenths: sharing a channel hurts most.
CongestionScore(band, channel) ==
  LET strong == {r \in On(band, channel) : now[r].level >= -75} IN
  30 * Cardinality(On(band, channel)) + 15 * OverlappingAps(band, channel)
    + 20 * Cardinality(strong) + (Utilization(band, channel) + 2) \div 4

Dfs == {4 * n : n \in 13..16} \cup {4 * n : n \in 25..36}
Candidates(band) ==
  CASE band = "2.4" -> {1, 6, 11}
    [] band = "5"   -> {4 * n : n \in 9..12} \cup {4 * n + 1 : n \in 37..41} \cup Dfs
    [] band = "6"   -> {5 + 16 * n : n \in 0..14}

PlanScore(band) ==
  [c \in Candidates(band) |->
     (IF c \in Observed(band) THEN CongestionScore(band, c) ELSE 0)
       + (IF band = "5" /\ c \in Dfs THEN 60 ELSE 0)]

\* Faulty: the channels are taken in their order.
RecommendedInOrder(band, radios) ==
  {c \in Candidates(band) : Cardinality({d \in Candidates(band) : d < c}) < radios}

\* channel_plan: the best few, the lower number where the scores are the same.
Recommended(band, radios) ==
  LET score == PlanScore(band)
      Better(d, c) == score[d] < score[c] \/ (score[d] = score[c] /\ d < c)
  IN {c \in DOMAIN score : Cardinality({d \in DOMAIN score : Better(d, c)}) < radios}

(***************************************************************************)
(* Coverage                                                                *)
(***************************************************************************)

NotHeard == -1000

\* grade_signal
Grade(level) ==
  CASE level = NotHeard -> "none"    [] level >= -60 -> "excellent" [] level \in -67..-61 -> "good"
    [] level \in -72..-68 -> "fair" [] level \in -80..-73 -> "weak" [] OTHER -> "unusable"

\* The strongest of some radios at a place.
Strongest(place, Those) ==
  IF Those = {} THEN NotHeard ELSE Max({place[r].level : r \in Those})

BestAt(place) == Strongest(place, DOMAIN place)

\* A network is a name in a band.
NetworkOf(row) == <<row.look.ssid, row.look.band>>
Networks == UNION {{NetworkOf(points[p][r]) : r \in DOMAIN points[p]} : p \in DOMAIN points}

\* coverage_matrix
LevelAt(place, network) ==
  Strongest(place, {r \in DOMAIN place : NetworkOf(place[r]) = network})

Covers(network) == {p \in DOMAIN points : LevelAt(points[p], network) >= -72}
Gaps(network) == {p \in DOMAIN points : LevelAt(points[p], network) < -72}
CoveragePct(network) ==
  (200 * Cardinality(Covers(network)) + Len(points)) \div (2 * Len(points))
SeenAt(network) == Cardinality({p \in DOMAIN points : LevelAt(points[p], network) # NotHeard})

GradedPoints(grades) == {p \in DOMAIN points : Grade(BestAt(points[p])) \in grades}

WeakPoints == {p \in DOMAIN points : BestAt(points[p]) < -72}
PartialNetworks ==
  {n \in Networks : CoveragePct(n) \in 1..79 /\ SeenAt(n) > 1}

(***************************************************************************)
(* Before and after                                                        *)
(***************************************************************************)

Far(x, y) == x - y >= 10 \/ y - x >= 10

\* Faulty: a radio is one that changed only while its name stays.
ChangedUnderName(before, after) ==
  {r \in DOMAIN before \cap DOMAIN after :
     before[r].look.ssid = after[r].look.ssid
       /\ (before[r].look # after[r].look \/ Far(before[r].level, after[r].level))}

Compared == {"ssid", "channel", "band", "width", "security", "phy"}

Changed(before, after) ==
  {r \in DOMAIN before \cap DOMAIN after :
     \/ \E field \in Compared : before[r].look[field] # after[r].look[field]
     \/ Far(before[r].level, after[r].level)}

\* compare_snapshot, with what it says of each radio that changed.
Comparison(before, after) ==
  [added   |-> {<<r, after[r]>> : r \in DOMAIN after \ DOMAIN before},
   removed |-> DOMAIN before \ DOMAIN after,
   changed |-> {<<r, after[r]>> : r \in Changed(before, after)}]

(***************************************************************************)
(* Properties                                                              *)
(***************************************************************************)

\* What nobody is on comes first: a channel someone is on is recommended only when
\* every channel that nobody is on, and radar cannot claim, is recommended too.
ClearComesFirst ==
  \A band \in {"2.4", "5", "6"}, radios \in {1, 3} :
    LET chosen == Recommended(band, radios)
        clear == Candidates(band) \ (Observed(band) \cup IF band = "5" THEN Dfs ELSE {})
    IN /\ Cardinality(chosen) = radios
       /\ chosen \cap Observed(band) # {} => clear \subseteq chosen

\* The two ways a place is called badly covered agree: the ones where the strongest
\* signal is weak are those that lie in the gaps of every network, and the grades
\* of the summary leave out only the places where nothing was heard.
CoverageAgrees ==
  /\ WeakPoints = {p \in DOMAIN points : \A n \in Networks : p \in Gaps(n)}
  /\ Cardinality(GradedPoints({"excellent", "good", "fair", "weak", "unusable"}))
       = Len(points) - Cardinality({p \in DOMAIN points : points[p] = <<>>})
  /\ \A n \in PartialNetworks : Gaps(n) # {} /\ Covers(n) # {}

\* The comparison is enough to get from the snapshot to the present: take away, add
\* and replace what it says, and every radio is there, looks as it does now, and is
\* not ten decibels off.
Patched(before, c) ==
  LET said == c.added \cup c.changed
      told == {pair[1] : pair \in said}
  IN [r \in (DOMAIN before \ c.removed) \cup told |->
        IF r \in told THEN (CHOOSE pair \in said : pair[1] = r)[2] ELSE before[r]]

ComparisonAgrees ==
  \A before \in kept :
    LET patched == Patched(before, Comparison(before, now)) IN
    /\ DOMAIN patched = DOMAIN now
    /\ \A r \in DOMAIN now :
         /\ \A f \in Compared : patched[r].look[f] = now[r].look[f]
         /\ ~Far(patched[r].level, now[r].level)

ReportsAgree == ClearComesFirst /\ CoverageAgrees /\ ComparisonAgrees
=============================================================================
