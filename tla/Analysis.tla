------------------------------ MODULE Analysis ------------------------------
(***************************************************************************)
(* What is made of a scan.  The modules here share no state, so one        *)
(* behaviour is about one subject, chosen at the start: what the rules say *)
(* of what is on the air and of who is missing from it, what a survey      *)
(* reports, which adapter is which, and what the screens show.  Of the     *)
(* subject "once", what is diagnosed and which release is newer, there is  *)
(* nothing that changes.                                                   *)
(***************************************************************************)
EXTENDS Integers, Sequences

CONSTANTS
  Subjects,                                             \* those behaviours are about
  Names, Text, Letters, Fold, Dropped, MixedNames, LureNames, Levels, WrittenElements,
  RecordElements, Muted, Severe, Threshold, Jump, MaxNames, Busy, Paces,
                                                        \* DetectionRules, of which there are two:
  CrowdRadios, CrowdOui, CrowdVendor, CrowdLocal, CrowdSounds, CrowdAnswers, CrowdMarks,
  CrowdBaseline, CrowdMissing,                          \* there is much on the air, or
  LoneRadios, LoneOui, LoneVendor, LoneLocal, LoneSounds, LoneAnswers, LoneMarks,
  LoneBaseline, LoneMissing,                            \* a radio may fall silent
  SurveyRadios, SurveyLooks, SurveyLevels, MaxPoints,   \* SurveyReport
  Steady,                                               \* radios that stay while one walks
  Interfaces, Descriptions, Types, Phys, Declared, Named, Keywords, Moves, Life,
                                                        \* AdapterPicture
  Listed, FirstListed, RuleNames, ScreenLooks, Pages, MarkPool, BandChoices, Searches,
  MaxScans, MaxTurns, MaxLoads,                         \* Screens
  Tags, MaxAssets                                       \* ReleaseChoice

VARIABLES
  focus,
  air, answers, level, rows, seen, recent, gone, marks, order, report, missed,
  now, kept, points,
  plugged, on, joined, heard, moves, cache, reader, floor,
  apNow, apRows, alerts, apMarks, page, filter, shown, typing, tasks, told, turns, tangled

rulesVars ==
  <<air, answers, level, rows, seen, recent, gone, marks, order, report, missed>>
surveyVars == <<now, kept, points>>
adapterVars == <<plugged, on, joined, heard, moves, cache, reader, floor>>
screenVars ==
  <<apNow, apRows, alerts, apMarks, page, filter, shown, typing, tasks, told, turns, tangled>>
vars == <<focus, rulesVars, surveyVars, adapterVars, screenVars>>

(***************************************************************************)
(* The parts                                                               *)
(***************************************************************************)

Air == INSTANCE DetectionRules WITH
  Radios <- CrowdRadios, Oui <- CrowdOui, Vendor <- CrowdVendor, Local <- CrowdLocal,
  Sounds <- CrowdSounds, Answers <- CrowdAnswers, MarkPool <- CrowdMarks,
  Baseline <- CrowdBaseline, Missing <- CrowdMissing, Paces <- {1},
  SecurityElements <- WrittenElements, PostureElements <- RecordElements

Quiet == INSTANCE DetectionRules WITH
  Radios <- LoneRadios, Oui <- LoneOui, Vendor <- LoneVendor, Local <- LoneLocal,
  Sounds <- LoneSounds, Answers <- LoneAnswers, MarkPool <- LoneMarks,
  Baseline <- LoneBaseline, Missing <- LoneMissing,
  SecurityElements <- WrittenElements, PostureElements <- RecordElements

Survey == INSTANCE SurveyReport WITH
  Radios <- SurveyRadios, Looks <- SurveyLooks, Levels <- SurveyLevels

Picture == INSTANCE AdapterPicture WITH Adapters <- Interfaces, Text <- Descriptions

Screens == INSTANCE Screens WITH
  now <- apNow, rows <- apRows, marks <- apMarks, heard <- told,
  Radios <- Listed, First <- FirstListed, Looks <- ScreenLooks, Rules <- RuleNames, Bands <- BandChoices

Clinic == INSTANCE Doctor
Releases == INSTANCE ReleaseChoice

ASSUME PartsAreWellFormed ==
  /\ Air!RulesConstantsOK /\ Quiet!RulesConstantsOK
  /\ Survey!ReportConstantsOK /\ Picture!PictureConstantsOK
  /\ Screens!ListingsConstantsOK /\ Screens!ScreensConstantsOK
  /\ MaxAssets \in Nat /\ \A tag \in Tags : Releases!TagOK(tag)

(***************************************************************************)
(* One behaviour                                                           *)
(***************************************************************************)

Init ==
  /\ focus \in Subjects
  /\ IF focus = "quiet" THEN Quiet!Init ELSE Air!Init
  /\ Survey!Init /\ Picture!Init /\ Screens!Init

\* On the air, neither pauses nor failures are of interest here, nor how a driver
\* finds a hidden name out; in the quiet, they are.
AirNext ==
  \/ Air!Scan("none") \/ Air!AddMark \/ Air!RemoveMark
  \/ \E r \in CrowdRadios : Air!Change(r) \/ Air!Drift(r)

\* A survey is walked, on the way of which some of the radios stay as they are, or
\* compared with a snapshot.
SurveyNext ==
  \/ \E r \in SurveyRadios \ (IF points = <<>> THEN {} ELSE Steady) :
       Survey!Hear(r) \/ Survey!Leave(r)
  \/ points = <<>> /\ Survey!TakeSnapshot
  \/ kept = {} /\ Survey!CapturePoint

Next ==
  /\ UNCHANGED focus
  /\ \/ /\ \/ focus = "air" /\ AirNext
           \/ focus = "quiet" /\ Quiet!Next
        /\ UNCHANGED <<surveyVars, adapterVars, screenVars>>
     \/ /\ focus = "survey" /\ SurveyNext
        /\ UNCHANGED <<rulesVars, adapterVars, screenVars>>
     \/ /\ focus = "adapters" /\ Picture!Next
        /\ UNCHANGED <<rulesVars, surveyVars, screenVars>>
     \/ /\ focus = "screens" /\ Screens!Next
        /\ UNCHANGED <<rulesVars, surveyVars, adapterVars>>

Spec == Init /\ [][Next]_vars

(***************************************************************************)
(* Properties                                                              *)
(***************************************************************************)

TypeOK ==
  /\ IF focus = "quiet" THEN Quiet!TypeOK ELSE Air!TypeOK
  /\ Survey!TypeOK /\ Picture!TypeOK /\ Screens!TypeOK

\* DetectionRules: of what only drifts nothing is reported, and of what is lost, if
\* watched, its loss.
RulesHold ==
  [][(focus = "air" => Air!DriftsQuietly) /\ (focus = "quiet" => Quiet!LossIsReported)]_vars

\* DetectionRules: both false of the code.
PostureChangeIsHigh  == [][focus = "air" => Air!PostureChangesAreSerious]_vars
MultiNamedIsReported == [][focus = "quiet" => Quiet!ManyNamesAreReported]_vars

\* Which of two releases is newer is an order that does not lead back, and what is
\* offered can be put in place of the program (updater.is_newer, _pick_asset).
ReleasesAgree ==
  /\ \A a, b \in Tags : Releases!OrderAgrees(a, b)
  /\ \A a, b, c \in Tags : Releases!NewerIsTransitive(a, b, c)
  /\ \A n \in 0..MaxAssets : \A assets \in [1..n -> {"own", "exe", "zip", "text"}] :
       Releases!AssetAgrees(assets)

\* What is reported: a survey (SurveyReport), a diagnosis (Doctor) and a release.
ReportsAgree ==
  /\ focus = "survey" => Survey!ReportsAgree
  /\ focus = "once" => /\ ReleasesAgree
                       /\ \A m \in Clinic!Machines : Clinic!DiagnosisAgrees(m)

\* AdapterPicture: the adapter that is recommended can be used, and what a repair has
\* changed is seen.
PictureIsTrue ==
  focus = "adapters" => \A p \in Picture!Pictures : Picture!BestIsUsable(p) /\ Picture!RepairShows(p)

\* Screens
ScreensAreTrue == focus = "screens" => Screens!ScreenIsCurrent
=============================================================================
