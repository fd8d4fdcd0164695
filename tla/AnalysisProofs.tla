--------------------------- MODULE AnalysisProofs ---------------------------
(***************************************************************************)
(* Analysis, for every value of its constants: its types, what its rules   *)
(* hold, what its reports and its screens are true of, and which adapter   *)
(* and which release are chosen.                                           *)
(*                                                                         *)
(* Operators that come from the library through an instance are copies     *)
(* (Survey!Cardinality beside Cardinality); SurveySizes and the like say   *)
(* that they are the same.                                                 *)
(***************************************************************************)
EXTENDS Analysis, FiniteSetTheorems, SequenceTheorems, WellFoundedInduction, TLAPS

(***************************************************************************)
(* Least numbers, without which nothing here is counted                    *)
(***************************************************************************)

\* A set of numbers that is not empty has a least one.  Every induction and every
\* maximum below is a use of it: the least counterexample, the least distance to a bound.
LEMMA Least ==
  ASSUME NEW S, S \subseteq Nat, S # {}
  PROVE  \E n \in S : \A m \in S : n <= m
<1>1. IsWellFoundedOn(OpToRel(<, Nat), Nat) BY NatLessThanWellFounded
<1>2. PICK n \in S : \A y \in Nat : <<y, n>> \in OpToRel(<, Nat) => ~(y \in S) BY <1>1, WFMin
<1>3. \A y \in S : ~(y < n) BY <1>2 DEF OpToRel
<1>4. n \in S BY <1>2, Zenon
<1> QED BY <1>3, <1>4

(***************************************************************************)
(* What is on the screens                                                  *)
(***************************************************************************)

\* A function on 1..n is a sequence.  (TypeOK says of the calls that they are a list in
\* this form, from which the provers get on more easily than from Seq of something.)
LEMMA ListIsSeq ==
  ASSUME NEW s, Len(s) \in Nat, s = [k \in 1..Len(s) |-> s[k]]
  PROVE  s \in Seq({s[k] : k \in 1..Len(s)}) /\ DOMAIN s = 1..Len(s)
<1>1. DOMAIN s = 1..Len(s) OBVIOUS
<1>2. s \in [1..Len(s) -> {s[k] : k \in 1..Len(s)}] OBVIOUS
<1> QED BY <1>1, <1>2

\* A list with one more at its end.
LEMMA AppendFacts ==
  ASSUME NEW s, Len(s) \in Nat, s = [k \in 1..Len(s) |-> s[k]], NEW x, NEW t, t = Append(s, x)
  PROVE  /\ Len(t) = Len(s) + 1 /\ DOMAIN t = 1..(Len(s) + 1)
         /\ t = [k \in 1..Len(t) |-> t[k]]
         /\ \A k \in 1..Len(s) : t[k] = s[k]
         /\ t[Len(s) + 1] = x
<1> DEFINE S == {s[k] : k \in 1..Len(s)} \cup {x}
<1>1. s \in Seq({s[k] : k \in 1..Len(s)}) BY ListIsSeq
<1>2. s \in Seq(S)
  BY <1>1
<1> HIDE DEF S
<1>3. x \in S BY DEF S
<1>4. t \in Seq(S) /\ Len(t) = Len(s) + 1 BY <1>2, <1>3
<1>5. DOMAIN t = 1..(Len(s) + 1) BY <1>4
<1>6. t = [k \in 1..Len(t) |-> t[k]]
  <2>1. t \in [1..Len(t) -> S] BY <1>4, LenProperties
  <2> QED BY <2>1
<1>7. \A k \in 1..Len(s) : t[k] = s[k] BY <1>2, <1>3
<1>8. t[Len(s) + 1] = x BY <1>2, <1>3
<1> QED BY <1>4, <1>5, <1>6, <1>7, <1>8

\* A list with one taken out.
LEMMA RemoveFacts ==
  ASSUME NEW s, Len(s) \in Nat, s = [k \in 1..Len(s) |-> s[k]], NEW i \in 1..Len(s),
         NEW t, t = Screens!RemoveAt(s, i)
  PROVE  /\ Len(t) = Len(s) - 1 /\ DOMAIN t = 1..(Len(s) - 1)
         /\ t = [k \in 1..Len(t) |-> t[k]]
         /\ \A k \in 1..(Len(s) - 1) : t[k] = IF k < i THEN s[k] ELSE s[k + 1]
<1> DEFINE S == {s[k] : k \in 1..Len(s)}
           a == SubSeq(s, 1, i - 1)
           b == SubSeq(s, i + 1, Len(s))
<1>1. s \in Seq(S) BY ListIsSeq
<1>0. t = a \o b BY DEF Screens!RemoveAt
<1> HIDE DEF S
<1>2. a \in Seq(S) /\ Len(a) = i - 1 /\ \A k \in 1..(i - 1) : a[k] = s[k]
  BY <1>1
<1>3. b \in Seq(S) /\ Len(b) = Len(s) - i /\ \A k \in 1..(Len(s) - i) : b[k] = s[i + k]
  BY <1>1
<1> HIDE DEF a, b
<1>4. t \in Seq(S) /\ Len(t) = Len(s) - 1
  <2>1. a \o b \in Seq(S) /\ Len(a \o b) = Len(a) + Len(b) BY <1>2, <1>3
  <2> QED BY <1>0, <1>2, <1>3, <2>1
<1>5. DOMAIN t = 1..(Len(s) - 1) BY <1>4
<1>6. t = [k \in 1..Len(t) |-> t[k]]
  <2>1. t \in [1..Len(t) -> S] BY <1>4, LenProperties
  <2> QED BY <2>1
<1>7. ASSUME NEW k \in 1..(Len(s) - 1)
      PROVE  t[k] = IF k < i THEN s[k] ELSE s[k + 1]
  <2>1. CASE k < i BY <2>1, <1>0, <1>2, <1>3
  <2>2. CASE k >= i
    <3>1. t[k] = b[k - Len(a)] BY <2>2, <1>0, <1>2, <1>3
    <3>2. k - Len(a) = k - i + 1 BY <2>2, <1>2
    <3>3. b[k - i + 1] = s[i + (k - i + 1)] BY <2>2, <1>3
    <3>4. i + (k - i + 1) = k + 1 OBVIOUS
    <3> QED BY <2>2, <3>1, <3>2, <3>3, <3>4
  <2> QED BY <2>1, <2>2
<1> QED BY <1>4, <1>5, <1>6, <1>7

\* What a screen would be answered depends on the record only.
LEMMA AnswerKept ==
  ASSUME NEW p, NEW f, UNCHANGED <<apNow, apRows, alerts, apMarks>>
  PROVE  Screens!Answer(p, f)' = Screens!Answer(p, f)
<1>1. Screens!LiveListing(f)' = Screens!LiveListing(f)
  BY DEF Screens!LiveListing, Screens!ListBss, Screens!Known, Screens!Since,
    Screens!FlaggedBssids, Screens!ListAlerts, Screens!Kept, Screens!WatchedBssids
<1>2. Screens!NamesListing(f)' = Screens!NamesListing(f)
  BY DEF Screens!NamesListing, Screens!Grouped, Screens!SsidGrouped, Screens!ListBss, Screens!Known, Screens!Since
<1>3. Screens!SpectrumListing(f)' = Screens!SpectrumListing(f)
  BY DEF Screens!SpectrumListing, Screens!Layout, Screens!ChannelUsage, Screens!ListBss, Screens!Known, Screens!Since,
    Screens!FlaggedBssids, Screens!ListAlerts, Screens!Kept
<1>4. Screens!FindingsListing(f)' = Screens!FindingsListing(f)
  BY DEF Screens!FindingsListing, Screens!ListAlerts, Screens!Kept
<1>5. Screens!MarksListing' = Screens!MarksListing
  BY DEF Screens!MarksListing
<1> QED BY <1>1, <1>2, <1>3, <1>4, <1>5 DEF Screens!Answer

\* Of marks, on the screens that show them.
LEMMA AnswerUnmarked ==
  ASSUME NEW p \in {"names", "spectrum", "findings"}, NEW f, UNCHANGED <<apNow, apRows, alerts>>
  PROVE  Screens!Answer(p, f)' = Screens!Answer(p, f)
<1>1. Screens!NamesListing(f)' = Screens!NamesListing(f)
  BY DEF Screens!NamesListing, Screens!Grouped, Screens!SsidGrouped, Screens!ListBss, Screens!Known, Screens!Since
<1>2. Screens!SpectrumListing(f)' = Screens!SpectrumListing(f)
  BY DEF Screens!SpectrumListing, Screens!Layout, Screens!ChannelUsage, Screens!ListBss, Screens!Known, Screens!Since,
    Screens!FlaggedBssids, Screens!ListAlerts, Screens!Kept
<1>3. Screens!FindingsListing(f)' = Screens!FindingsListing(f)
  BY DEF Screens!FindingsListing, Screens!ListAlerts, Screens!Kept
<1> QED BY <1>1, <1>2, <1>3 DEF Screens!Answer

\* What is assumed of the constants of Screens.
LEMMA ScreenConstants ==
  /\ Pages \subseteq {"live", "names", "spectrum", "findings", "marks"}
  /\ "" \in BandChoices /\ "" \in Searches /\ FirstListed \in Listed
  /\ MaxScans \in Nat /\ MaxScans > 0 /\ MaxLoads \in Nat /\ MaxLoads > 0 /\ MaxTurns \in Nat
<1>1. Screens!ScreensConstantsOK BY PartsAreWellFormed
<1>2. Pages \subseteq {"live", "names", "spectrum", "findings", "marks"}
  BY <1>1, Zenon DEF Screens!ScreensConstantsOK
<1>3. "" \in BandChoices \cap Searches BY <1>1, Zenon DEF Screens!ScreensConstantsOK
<1>4. FirstListed \in Listed BY <1>1, Zenon DEF Screens!ScreensConstantsOK
<1>5. MaxScans \in Nat \ {0} /\ MaxTurns \in Nat /\ MaxLoads \in Nat \ {0}
  BY <1>1, Zenon DEF Screens!ScreensConstantsOK
<1>6. MaxScans > 0 /\ MaxLoads > 0 BY <1>5
<1> QED BY <1>2, <1>3, <1>4, <1>5, <1>6

\* The numbers among them.
LEMMA ScreenBounds ==
  /\ MaxScans \in Nat /\ MaxScans > 0 /\ MaxLoads \in Nat /\ MaxLoads > 0 /\ MaxTurns \in Nat
BY ScreenConstants

\* The record: what is heard, found and marked.
ScreenStore == <<apNow, apRows, alerts, apMarks>>

\* Two choices on a screen that ask the store for the same: "only" is not asked of the
\* store on the screens that sift what they have been given.
SameQuestion(p, f, g) ==
  /\ f.window = g.window /\ f.search = g.search /\ f.band = g.band
  /\ p \notin {"live", "names"} => f = g

\* A screen whose contents are claimed to be current: it is showing, its last call
\* crossed no other, and on the names' screen nothing was heard since the start.
Watched(p) == page = p /\ p \notin tangled /\ (p = "names" => apNow = 1)

\* A screen that is still to ask: the typing has not ended, or the window has not been
\* told of a scan.
Pending(p) == p \in typing \/ (p \in Screens!ReloadOnScan /\ told > 0)

\* No call but its own is going to change what it shows, and of its own there is one.
Undisturbed(p) ==
  /\ \A k \in DOMAIN tasks : tasks[k].page # p => ~Screens!Touches(tasks[k], p)
  /\ \A j, k \in DOMAIN tasks : tasks[j].page = p /\ tasks[k].page = p => j = k

\* A call brings a screen what it asks for: what it has got, it got of the record as it
\* is, unless it changes the record.
Brings(t, p, f) ==
  /\ t.does = "load" => SameQuestion(p, t.with, f)
  /\ t.does = "load" \/ p = "marks" => t.got = Screens!Nothing \/ t.got = Screens!Answer(p, f)

\* With nothing on its way a screen shows what it would be answered; else what is on its
\* way will be that.
UpToDate(p) ==
  \A f \in {filter[p]} :
    /\ ~Screens!Out(p) => shown[p] = Screens!Answer(p, f)
    /\ \A k \in DOMAIN tasks : tasks[k].page = p => Brings(tasks[k], p, f)

\* The inductive invariant: a screen that is watched is disturbed by nobody and, unless
\* it is still to ask, up to date or about to be.
CurrentInv ==
  \A p \in Pages : Watched(p) => Undisturbed(p) /\ (~Pending(p) => UpToDate(p))

\* What asks for the same is answered the same.
LEMMA SameAnswer ==
  ASSUME NEW p \in Pages, NEW f, NEW g, SameQuestion(p, f, g)
  PROVE  Screens!Answer(p, f) = Screens!Answer(p, g)
<1>1. CASE f = g BY <1>1
<1>2. CASE p = "live"
  <2>1. Screens!LiveListing(f) = Screens!LiveListing(g)
    BY DEF SameQuestion, Screens!LiveListing
  <2> QED BY <1>2, <2>1 DEF Screens!Answer
<1>3. CASE p = "names"
  <2>1. Screens!NamesListing(f) = Screens!NamesListing(g)
    BY DEF SameQuestion, Screens!NamesListing
  <2> QED BY <1>3, <2>1 DEF Screens!Answer
<1> QED BY <1>1, <1>2, <1>3 DEF SameQuestion

\* A call that crosses no other is the only one of its screen, and nobody changes the
\* record.
LEMMA CleanAppend ==
  ASSUME NEW s, Len(s) \in Nat, s = [k \in 1..Len(s) |-> s[k]], NEW q, NEW x, x.page = q,
         ~Screens!Crossing(s, q), tasks' = Append(s, x)
  PROVE  /\ Undisturbed(q)' /\ Screens!Out(q)'
         /\ \A k \in DOMAIN tasks' : tasks'[k].page = q => tasks'[k] = x
<1>1. /\ Len(tasks') = Len(s) + 1 /\ DOMAIN tasks' = 1..(Len(s) + 1)
      /\ \A k \in 1..Len(s) : tasks'[k] = s[k]
      /\ tasks'[Len(s) + 1] = x
  BY AppendFacts
<1>2. DOMAIN s = 1..Len(s) OBVIOUS
<1>3. \A k \in 1..Len(s) : s[k].page # q /\ ~Screens!Touches(s[k], q)
  BY <1>2 DEF Screens!Crossing, Screens!Touches
<1>4. \A k \in 1..(Len(s) + 1) : k \in 1..Len(s) \/ k = Len(s) + 1 OBVIOUS
<1>5. \A k \in DOMAIN tasks' : tasks'[k].page = q => k = Len(s) + 1 /\ tasks'[k] = x
  BY <1>1, <1>3, <1>4
<1>6. \A k \in DOMAIN tasks' : tasks'[k].page # q => ~Screens!Touches(tasks'[k], q)
  BY <1>1, <1>3, <1>4
<1>7. Screens!Out(q)'
  BY <1>1 DEF Screens!Out
<1> QED BY <1>5, <1>6, <1>7 DEF Undisturbed, Screens!Touches

\* A call that does not touch a screen does not disturb it.
LEMMA ForeignLoad ==
  ASSUME Screens!TypeOK, NEW p \in Pages, NEW x, x.page # p, ~Screens!Touches(x, p),
         tasks' = Append(tasks, x), Undisturbed(p)
  PROVE  /\ Undisturbed(p)'
         /\ UpToDate(p) /\ UNCHANGED <<ScreenStore, filter[p], shown[p]>> => UpToDate(p)'
<1>0. Len(tasks) \in Nat /\ tasks = [k \in 1..Len(tasks) |-> tasks[k]] BY DEF Screens!TypeOK
<1>1. /\ Len(tasks') = Len(tasks) + 1 /\ DOMAIN tasks' = 1..(Len(tasks) + 1)
      /\ \A k \in 1..Len(tasks) : tasks'[k] = tasks[k]
      /\ tasks'[Len(tasks) + 1] = x
  BY <1>0, AppendFacts
<1>2. DOMAIN tasks = 1..Len(tasks) BY <1>0
<1>4. \A k \in 1..(Len(tasks) + 1) : k \in 1..Len(tasks) \/ k = Len(tasks) + 1 BY <1>0
<1>5. \A k \in DOMAIN tasks' : tasks'[k].page = p => k \in DOMAIN tasks /\ tasks'[k] = tasks[k]
  BY <1>1, <1>2, <1>4
<1>6. \A k \in DOMAIN tasks : k \in DOMAIN tasks' /\ tasks'[k] = tasks[k]
  BY <1>0, <1>1, <1>2
<1>7. Undisturbed(p)'
  <2>1. \A k \in DOMAIN tasks' : tasks'[k].page # p => ~Screens!Touches(tasks'[k], p)
    BY <1>1, <1>2, <1>4 DEF Undisturbed
  <2> QED BY <1>5, <2>1 DEF Undisturbed, Screens!Touches
<1>8. ASSUME UpToDate(p), UNCHANGED <<ScreenStore, filter[p], shown[p]>>
      PROVE  UpToDate(p)'
  <2> SUFFICES ASSUME NEW f \in {filter[p]'}
               PROVE  /\ ~Screens!Out(p)' => shown[p]' = Screens!Answer(p, f)'
                      /\ \A k \in DOMAIN tasks' : tasks'[k].page = p => Brings(tasks[k], p, f)'
    BY DEF UpToDate
  <2>1. Screens!Answer(p, f)' = Screens!Answer(p, f)
    BY <1>8, AnswerKept DEF ScreenStore
  <2>2. Screens!Out(p)' <=> Screens!Out(p) BY <1>5, <1>6 DEF Screens!Out
  <2>3. f = filter[p] BY <1>8
  <2>4. ~Screens!Out(p)' => shown[p]' = Screens!Answer(p, f)'
    BY <1>8, <2>1, <2>2, <2>3 DEF UpToDate
  <2>5. ASSUME NEW k \in DOMAIN tasks', tasks'[k].page = p
        PROVE  Brings(tasks[k], p, f)'
    BY <1>5, <1>8, <2>1, <2>3, <2>5 DEF UpToDate, Brings
  <2> QED BY <2>4, <2>5
<1> QED BY <1>7, <1>8

\* A call that is answered disturbs nobody any more, and was the last of its screen.
LEMMA Fewer ==
  ASSUME Screens!TypeOK, NEW p \in Pages, NEW i \in DOMAIN tasks,
         tasks' = Screens!RemoveAt(tasks, i), Undisturbed(p)
  PROVE  /\ Undisturbed(p)'
         /\ tasks[i].page = p => ~Screens!Out(p)'
         /\ tasks[i].page # p /\ UpToDate(p) /\ UNCHANGED <<ScreenStore, filter[p], shown[p]>>
              => UpToDate(p)'
<1>0. Len(tasks) \in Nat /\ tasks = [k \in 1..Len(tasks) |-> tasks[k]] BY DEF Screens!TypeOK
<1>1. /\ DOMAIN tasks' = 1..(Len(tasks) - 1)
      /\ \A k \in 1..(Len(tasks) - 1) : tasks'[k] = IF k < i THEN tasks[k] ELSE tasks[k + 1]
  <2>1. i \in 1..Len(tasks) BY <1>0
  <2> QED BY <1>0, <2>1, RemoveFacts
<1>2. DOMAIN tasks = 1..Len(tasks) BY <1>0
<1> DEFINE Old(k) == IF k < i THEN k ELSE k + 1
<1>3. \A k \in DOMAIN tasks' : Old(k) \in DOMAIN tasks /\ Old(k) # i /\ tasks'[k] = tasks[Old(k)]
  BY <1>0, <1>1, <1>2
<1>4. \A j, k \in DOMAIN tasks' : Old(j) = Old(k) => j = k
  BY <1>0, <1>1
<1>5. \A k \in DOMAIN tasks : k = i \/ \E j \in DOMAIN tasks' : Old(j) = k
  <2> SUFFICES ASSUME NEW k \in DOMAIN tasks, k # i
               PROVE  \E j \in DOMAIN tasks' : Old(j) = k
    OBVIOUS
  <2>1. CASE k < i
    <3>1. k \in DOMAIN tasks' /\ Old(k) = k BY <1>0, <1>1, <1>2, <2>1
    <3> QED BY <3>1
  <2>2. CASE k > i
    <3>1. k - 1 \in DOMAIN tasks' /\ Old(k - 1) = k BY <1>0, <1>1, <1>2, <2>2
    <3> QED BY <3>1
  <2> QED BY <1>0, <1>2, <2>1, <2>2
<1> HIDE DEF Old
<1>6. Undisturbed(p)'
  <2>1. \A k \in DOMAIN tasks' : tasks'[k].page # p => ~Screens!Touches(tasks'[k], p)
    BY <1>3 DEF Undisturbed
  <2>2. \A j, k \in DOMAIN tasks' : tasks'[j].page = p /\ tasks'[k].page = p => j = k
    BY <1>3, <1>4 DEF Undisturbed
  <2> QED BY <2>1, <2>2 DEF Undisturbed, Screens!Touches
<1>7. tasks[i].page = p => ~Screens!Out(p)'
  BY <1>3 DEF Undisturbed, Screens!Out
<1>8. ASSUME tasks[i].page # p, UpToDate(p), UNCHANGED <<ScreenStore, filter[p], shown[p]>>
      PROVE  UpToDate(p)'
  <2> SUFFICES ASSUME NEW f \in {filter[p]'}
               PROVE  /\ ~Screens!Out(p)' => shown[p]' = Screens!Answer(p, f)'
                      /\ \A k \in DOMAIN tasks' : tasks'[k].page = p => Brings(tasks[k], p, f)'
    BY DEF UpToDate
  <2>1. Screens!Answer(p, f)' = Screens!Answer(p, f)
    BY <1>8, AnswerKept DEF ScreenStore
  <2>2. Screens!Out(p) => Screens!Out(p)' BY <1>3, <1>5, <1>8 DEF Screens!Out
  <2>3. f = filter[p] BY <1>8
  <2>4. ~Screens!Out(p)' => shown[p]' = Screens!Answer(p, f)'
    BY <1>8, <2>1, <2>2, <2>3 DEF UpToDate
  <2>5. ASSUME NEW k \in DOMAIN tasks', tasks'[k].page = p
        PROVE  Brings(tasks[k], p, f)'
    BY <1>3, <1>8, <2>1, <2>3, <2>5 DEF UpToDate, Brings
  <2> QED BY <2>4, <2>5
<1> QED BY <1>6, <1>7, <1>8

\* A screen that has asked without crossing another call will be up to date.
LEMMA AskedCleanly ==
  ASSUME NEW s, Len(s) \in Nat, s = [k \in 1..Len(s) |-> s[k]], NEW q \in Pages,
         NEW does, NEW with,
         tasks' = Append(s, [page |-> q, does |-> does, with |-> with, got |-> Screens!Nothing]),
         ~Screens!Crossing(s, q), does = "load" => with = filter[q]'
  PROVE  Undisturbed(q)' /\ UpToDate(q)'
<1> DEFINE x == [page |-> q, does |-> does, with |-> with, got |-> Screens!Nothing]
<1>1. /\ Undisturbed(q)' /\ Screens!Out(q)'
      /\ \A k \in DOMAIN tasks' : tasks'[k].page = q => tasks'[k] = x
  <2> HIDE DEF x
  <2>1. x.page = q BY DEF x
  <2>2. tasks' = Append(s, x) BY DEF x
  <2> QED BY <2>1, <2>2, CleanAppend
<1>2. ASSUME NEW f \in {filter[q]'}, NEW k \in DOMAIN tasks', tasks'[k].page = q
      PROVE  Brings(tasks[k], q, f)'
  <2>1. tasks'[k] = x BY <1>1, <1>2
  <2> QED BY <1>2, <2>1 DEF Brings, SameQuestion
<1> QED BY <1>1, <1>2 DEF UpToDate

\* A screen stays up to date while neither its calls nor its answer change.
LEMMA StaysUpToDate ==
  ASSUME NEW p \in Pages, UpToDate(p), UNCHANGED <<tasks, filter[p], shown[p]>>,
         \A f \in {filter[p]} : Screens!Answer(p, f)' = Screens!Answer(p, f)
  PROVE  UpToDate(p)'
<1>1. Screens!Out(p)' <=> Screens!Out(p) BY DEF Screens!Out
<1> QED BY <1>1 DEF UpToDate, Brings

\* Asking, in general: the screen that asks is either tangled or asks cleanly, and the
\* others are as before.
LEMMA AskKeepsCurrent ==
  ASSUME Screens!TypeOK, CurrentInv, NEW q \in Pages, NEW does, NEW with,
         Screens!Ask(q, does, with), page' = q \/ page' = page, page' # q => does = "load",
         does = "load" => with = filter[q]', UNCHANGED <<ScreenStore, shown>>,
         \A p \in Pages : p # q => filter[p]' = filter[p],
         \A p \in Pages : p # q => (Pending(p)' <=> Pending(p))
  PROVE  CurrentInv'
<1> SUFFICES ASSUME NEW p \in Pages, Watched(p)'
             PROVE  Undisturbed(p)' /\ (~Pending(p)' => UpToDate(p)')
  BY DEF CurrentInv
<1>0. Len(tasks) \in Nat /\ tasks = [k \in 1..Len(tasks) |-> tasks[k]] BY DEF Screens!TypeOK
<1>1. tasks' = Append(tasks, [page |-> q, does |-> does, with |-> with, got |-> Screens!Nothing])
  BY DEF Screens!Ask
<1>2. CASE p = q
  <2>1. ~Screens!Crossing(tasks, q) BY <1>2 DEF Screens!Ask, Watched
  <2> QED BY <1>0, <1>1, <1>2, <2>1, AskedCleanly
<1>3. CASE p # q
  <2>1. page = p /\ page' = p BY <1>3 DEF Watched
  <2>2. p \notin tangled BY <1>3 DEF Watched, Screens!Ask
  <2>3. Watched(p) BY <2>1, <2>2 DEF Watched, ScreenStore
  <2>4. does = "load" BY <1>3, <2>1
  <2>5. Undisturbed(p) /\ (~Pending(p) => UpToDate(p)) BY <2>3 DEF CurrentInv
  <2>6. UNCHANGED <<ScreenStore, filter[p], shown[p]>> BY <1>3
  <2> DEFINE x == [page |-> q, does |-> does, with |-> with, got |-> Screens!Nothing]
  <2>7. x.page # p /\ ~Screens!Touches(x, p) /\ tasks' = Append(tasks, x)
    BY <1>1, <1>3, <2>4 DEF Screens!Touches
  <2> HIDE DEF x
  <2>8. Undisturbed(p)' /\ (UpToDate(p) => UpToDate(p)') BY <2>5, <2>6, <2>7, ForeignLoad
  <2> QED BY <1>3, <2>5, <2>8
<1> QED BY <1>2, <1>3

\* One action after the other keeps it: a worker runs a call.
LEMMA RunTaskKeepsCurrent ==
  ASSUME Screens!TypeOK, CurrentInv, NEW i \in DOMAIN tasks, Screens!RunTask(i)
  PROVE  CurrentInv'
<1> SUFFICES ASSUME NEW p \in Pages, Watched(p)'
             PROVE  Undisturbed(p)' /\ (~Pending(p)' => UpToDate(p)')
  BY DEF CurrentInv
<1>0. Len(tasks) \in Nat /\ tasks = [k \in 1..Len(tasks) |-> tasks[k]] /\ Screens!TaskOK(tasks[i])
  BY DEF Screens!TypeOK
<1>1. UNCHANGED <<apNow, apRows, page, filter, shown, typing, told, tangled>>
  BY DEF Screens!RunTask
<1>2. Watched(p) BY <1>1 DEF Watched
<1>3. Undisturbed(p) /\ (~Pending(p) => UpToDate(p)) BY <1>2 DEF CurrentInv
<1> DEFINE t == tasks[i]
           got == IF t.does = "load" THEN Screens!Answer(t.page, t.with) ELSE [marks |-> apMarks']
<1>4. tasks' = [tasks EXCEPT ![i].got = got] /\ t.got = Screens!Nothing BY DEF Screens!RunTask
<1>5. /\ DOMAIN tasks' = DOMAIN tasks
      /\ \A k \in DOMAIN tasks : k # i => tasks'[k] = tasks[k]
      /\ tasks'[i] = [page |-> t.page, does |-> t.does, with |-> t.with, got |-> got]
  <2>1. t = [page |-> t.page, does |-> t.does, with |-> t.with, got |-> t.got]
    BY <1>0 DEF Screens!TaskOK
  <2> HIDE DEF got
  <2>2. tasks' = [tasks EXCEPT ![i] = [t EXCEPT !.got = got]] BY <1>4
  <2>3. [t EXCEPT !.got = got] = [page |-> t.page, does |-> t.does, with |-> t.with, got |-> got]
    BY <2>1
  <2> QED BY <1>0, <2>2, <2>3
<1> HIDE DEF got
<1>6. \A k \in DOMAIN tasks : tasks'[k].page = tasks[k].page /\ tasks'[k].does = tasks[k].does
                              /\ tasks'[k].with = tasks[k].with
  BY <1>5
<1>7. Undisturbed(p)' BY <1>3, <1>5, <1>6 DEF Undisturbed, Screens!Touches
<1>8. Screens!Out(p)' <=> Screens!Out(p) BY <1>5, <1>6 DEF Screens!Out
<1>9. ASSUME ~Pending(p)' PROVE UpToDate(p)'
  <2>0. UpToDate(p) BY <1>1, <1>3, <1>9 DEF Pending
  <2> SUFFICES ASSUME NEW f \in {filter[p]'}
               PROVE  /\ ~Screens!Out(p)' => shown[p]' = Screens!Answer(p, f)'
                      /\ \A k \in DOMAIN tasks' : tasks'[k].page = p => Brings(tasks[k], p, f)'
    BY DEF UpToDate
  <2>1. f = filter[p] BY <1>1
  <2>2. CASE t.does = "load"
    <3>1. UNCHANGED <<apNow, apRows, alerts, apMarks>> BY <1>1, <2>2 DEF Screens!RunTask
    <3>2. Screens!Answer(p, f)' = Screens!Answer(p, f) BY <3>1, AnswerKept
    <3>3. ~Screens!Out(p)' => shown[p]' = Screens!Answer(p, f)'
      BY <1>1, <1>8, <2>0, <2>1, <3>2 DEF UpToDate
    <3>4. ASSUME NEW k \in DOMAIN tasks', tasks'[k].page = p
          PROVE  Brings(tasks[k], p, f)'
      <4>0. Brings(tasks[k], p, f) BY <1>5, <1>6, <2>0, <2>1, <3>4 DEF UpToDate
      <4>1. CASE k # i BY <1>5, <4>0, <4>1, <3>2 DEF Brings
      <4>2. CASE k = i
        <5>1. t.page = p BY <1>6, <3>4, <4>2
        <5>2. SameQuestion(p, t.with, f) BY <2>2, <4>0, <4>2 DEF Brings
        <5>3. got = Screens!Answer(p, f) BY <2>2, <5>1, <5>2, SameAnswer DEF got
        <5> QED BY <1>5, <2>2, <3>2, <4>2, <5>2, <5>3 DEF Brings
      <4> QED BY <4>1, <4>2
    <3> QED BY <3>3, <3>4
  <2>3. CASE t.does # "load" /\ t.page # p
    <3>1. t.does = "aside" /\ p \notin {"live", "marks"}
      BY <1>3, <2>3 DEF Undisturbed, Screens!Touches, Screens!ShowMarks
    <3>2. UNCHANGED alerts BY <3>1 DEF Screens!RunTask
    <3>6. p \in {"names", "spectrum", "findings"} BY <3>1, ScreenConstants
    <3>3. Screens!Answer(p, f)' = Screens!Answer(p, f) BY <1>1, <3>2, <3>6, AnswerUnmarked
    <3>4. ~Screens!Out(p)' => shown[p]' = Screens!Answer(p, f)'
      BY <1>1, <1>8, <2>0, <2>1, <3>3 DEF UpToDate
    <3>5. ASSUME NEW k \in DOMAIN tasks', tasks'[k].page = p
          PROVE  Brings(tasks[k], p, f)'
      <4>1. k # i BY <1>6, <2>3, <3>5
      <4>2. Brings(tasks[k], p, f) BY <1>5, <1>6, <2>0, <2>1, <3>5 DEF UpToDate
      <4> QED BY <1>5, <3>3, <4>1, <4>2 DEF Brings
    <3> QED BY <3>4, <3>5
  <2>4. CASE t.does # "load" /\ t.page = p
    <3>1. t.page = p /\ Screens!Out(p) BY <2>4 DEF Screens!Out
    <3>2. \A k \in DOMAIN tasks : tasks[k].page = p => k = i BY <1>3, <3>1 DEF Undisturbed
    <3>3. p = "marks" => got = Screens!Answer(p, f)'
      BY <2>4 DEF got, Screens!Answer, Screens!MarksListing
    <3>4. ASSUME NEW k \in DOMAIN tasks', tasks'[k].page = p
          PROVE  Brings(tasks[k], p, f)'
      <4>1. k = i BY <1>5, <1>6, <3>2, <3>4
      <4> QED BY <1>5, <2>4, <3>3, <4>1 DEF Brings
    <3> QED BY <1>8, <3>1, <3>4
  <2> QED BY <2>2, <2>3, <2>4
<1> QED BY <1>7, <1>9

\* One action after the other keeps it: an answer is shown.
LEMMA ApplyKeepsCurrent ==
  ASSUME Screens!TypeOK, CurrentInv, NEW i \in DOMAIN tasks, Screens!Apply(i)
  PROVE  CurrentInv'
<1> SUFFICES ASSUME NEW p \in Pages, Watched(p)'
             PROVE  Undisturbed(p)' /\ (~Pending(p)' => UpToDate(p)')
  BY DEF CurrentInv
<1>0. Len(tasks) \in Nat /\ tasks = [k \in 1..Len(tasks) |-> tasks[k]] /\ Screens!TaskOK(tasks[i])
      /\ i \in 1..Len(tasks) /\ DOMAIN shown = Pages
  BY DEF Screens!TypeOK
<1>1. UNCHANGED <<ScreenStore, page, filter, typing, told>>
  BY DEF Screens!Apply, Screens!storeVars, ScreenStore
<1> DEFINE t == tasks[i]
           rest == Screens!RemoveAt(tasks, i)
<1>2. t.got # Screens!Nothing BY DEF Screens!Apply
<1>3. CASE t.does = "load" \/ t.page = "marks"
  <2>0. t.does # "aside" /\ ~(t.does # "load" /\ t.page = "findings")
    BY <1>0, <1>3 DEF Screens!TaskOK
  <2>1. shown' = [shown EXCEPT ![t.page] = t.got] /\ tasks' = rest /\ UNCHANGED tangled
    BY <2>0 DEF Screens!Apply
  <2>2. Watched(p) BY <1>1, <2>1 DEF Watched, ScreenStore
  <2>3. Undisturbed(p) /\ (~Pending(p) => UpToDate(p)) BY <2>2 DEF CurrentInv
  <2>4. Pending(p)' <=> Pending(p) BY <1>1 DEF Pending
  <2>5. CASE t.page # p
    <3>1. shown'[p] = shown[p] BY <1>0, <2>1, <2>5
    <3> QED BY <1>1, <2>1, <2>3, <2>4, <2>5, <3>1, Fewer
  <2>6. CASE t.page = p
    <3>1. Undisturbed(p)' /\ ~Screens!Out(p)' BY <2>1, <2>3, <2>6, Fewer
    <3>2. shown'[p] = t.got BY <1>0, <2>1, <2>6
    <3>3. ASSUME ~Pending(p)' PROVE UpToDate(p)'
      <4> SUFFICES ASSUME NEW f \in {filter[p]'}
                   PROVE  shown[p]' = Screens!Answer(p, f)'
        BY <3>1 DEF UpToDate, Screens!Out
      <4>1. f = filter[p] BY <1>1
      <4>2. Brings(t, p, f) BY <2>3, <2>4, <2>6, <3>3, <4>1 DEF UpToDate
      <4>3. t.got = Screens!Answer(p, f) BY <1>2, <1>3, <2>6, <4>2 DEF Brings
      <4>4. Screens!Answer(p, f)' = Screens!Answer(p, f)
        BY <1>1, AnswerKept DEF ScreenStore
      <4> QED BY <3>2, <4>3, <4>4
    <3> QED BY <3>1, <3>3
  <2> QED BY <2>5, <2>6
<1>5. CASE t.does = "aside"
  <2>1. UNCHANGED <<shown, tangled>> /\ tasks' = rest /\ t.page # p
    <3>1. t.page = "window" BY <1>0, <1>5 DEF Screens!TaskOK
    <3> QED BY <1>5, <3>1, ScreenConstants DEF Screens!Apply
  <2>2. Watched(p) BY <1>1, <2>1 DEF Watched, ScreenStore
  <2>3. Undisturbed(p) /\ (~Pending(p) => UpToDate(p)) BY <2>2 DEF CurrentInv
  <2>4. Pending(p)' <=> Pending(p) BY <1>1 DEF Pending
  <2> QED BY <1>1, <2>1, <2>3, <2>4, Fewer
<1>4. CASE ~(t.does \in {"load", "aside"} \/ t.page = "marks")
  <2> DEFINE x == [page |-> t.page, does |-> "load", with |-> filter[t.page], got |-> Screens!Nothing]
  <2>1. /\ tasks' = Append(rest, x) /\ UNCHANGED shown
        /\ tangled' = IF Screens!Crossing(rest, t.page) THEN tangled \cup {t.page} ELSE tangled \ {t.page}
    BY <1>4 DEF Screens!Apply
  <2>2. t.page = "findings" BY <1>0, <1>4 DEF Screens!TaskOK
  <2>3. CASE t.page = p
    <3>1. ~Screens!Crossing(rest, p) BY <2>1, <2>3 DEF Watched
    <3>2. Len(rest) \in Nat /\ rest = [k \in 1..Len(rest) |-> rest[k]]
      <4>1. Len(rest) = Len(tasks) - 1 /\ rest = [k \in 1..Len(rest) |-> rest[k]]
        BY <1>0, RemoveFacts
      <4> QED BY <1>0, <4>1
    <3> QED BY <1>1, <2>1, <2>3, <3>1, <3>2, AskedCleanly
  <2>4. CASE t.page # p
    <3>1. Watched(p) BY <1>1, <2>1, <2>4 DEF Watched, ScreenStore
    <3>2. Undisturbed(p) BY <3>1 DEF CurrentInv
    <3> QED BY <1>4, <2>4, <3>2 DEF Undisturbed, Screens!Touches
  <2> QED BY <2>3, <2>4
<1> QED BY <1>3, <1>4, <1>5

\* One action after the other keeps it: a call fails.
LEMMA FailKeepsCurrent ==
  ASSUME Screens!TypeOK, CurrentInv, NEW i \in DOMAIN tasks, Screens!Fail(i)
  PROVE  CurrentInv'
<1> SUFFICES ASSUME NEW p \in Pages, Watched(p)'
             PROVE  Undisturbed(p)' /\ (~Pending(p)' => UpToDate(p)')
  BY DEF CurrentInv
<1>1. UNCHANGED <<ScreenStore, page, filter, shown, typing, told>>
  BY DEF Screens!Fail, Screens!storeVars, ScreenStore
<1>2. tangled' = tangled \cup (Pages \cap {tasks[i].page}) /\ tasks' = Screens!RemoveAt(tasks, i)
  BY DEF Screens!Fail
<1>3. tasks[i].page # p /\ Watched(p) BY <1>1, <1>2 DEF Watched, ScreenStore
<1>4. Undisturbed(p) /\ (~Pending(p) => UpToDate(p)) BY <1>3 DEF CurrentInv
<1>5. Pending(p)' <=> Pending(p) BY <1>1 DEF Pending
<1> QED BY <1>1, <1>2, <1>3, <1>4, <1>5, Fewer

\* One action after the other keeps it: a screen is shown.
LEMMA ShowKeepsCurrent ==
  ASSUME Screens!TypeOK, CurrentInv, NEW q \in Pages, Screens!ShowView(q)
  PROVE  CurrentInv'
<1>1. Screens!Ask(q, "load", filter[q]) /\ page' = q /\ UNCHANGED <<ScreenStore, filter, shown, typing, told>>
  BY DEF Screens!ShowView, Screens!Load, Screens!storeVars, ScreenStore
<1>2. \A p \in Pages : Pending(p)' <=> Pending(p) BY <1>1 DEF Pending
<1> QED BY <1>1, <1>2, AskKeepsCurrent

\* One action after the other keeps it: the typing ends.
LEMMA DebounceKeepsCurrent ==
  ASSUME Screens!TypeOK, CurrentInv, NEW q \in Pages, Screens!Debounce(q)
  PROVE  CurrentInv'
<1>1. /\ Screens!Ask(q, "load", filter[q]) /\ typing' = typing \ {q}
      /\ UNCHANGED <<ScreenStore, page, filter, shown, told>>
  BY DEF Screens!Debounce, Screens!Load, Screens!storeVars, ScreenStore
<1>2. \A p \in Pages : p # q => (Pending(p)' <=> Pending(p)) BY <1>1 DEF Pending
<1> QED BY <1>1, <1>2, AskKeepsCurrent

\* One action after the other keeps it: a filter is chosen.
LEMMA ChooseKeepsCurrent ==
  ASSUME Screens!TypeOK, CurrentInv, NEW q \in Pages, Screens!Choose(q)
  PROVE  CurrentInv'
<1>1. /\ Screens!Ask(q, "load", filter[q]') /\ page = q
      /\ UNCHANGED <<ScreenStore, page, shown, typing, told>>
  BY DEF Screens!Choose, Screens!Turn, Screens!Load, Screens!storeVars, ScreenStore
<1>2. \A p \in Pages : p # q => filter'[p] = filter[p]
  <2>1. PICK f : filter' = [filter EXCEPT ![q] = f] BY DEF Screens!Choose
  <2> QED BY <2>1 DEF Screens!TypeOK
<1>3. \A p \in Pages : Pending(p)' <=> Pending(p) BY <1>1 DEF Pending
<1> QED BY <1>1, <1>2, <1>3, AskKeepsCurrent

\* One action after the other keeps it: findings are acknowledged, reopened or cleared.
LEMMA FindingsKeepCurrent ==
  ASSUME Screens!TypeOK, CurrentInv, Screens!ChangeFindings
  PROVE  CurrentInv'
<1>1. /\ "findings" \in Pages /\ page = "findings"
      /\ UNCHANGED <<ScreenStore, page, filter, shown, typing, told>>
  BY DEF Screens!ChangeFindings, Screens!Turn, Screens!storeVars, ScreenStore
<1>0. PICK does \in {"acknowledge", "reopen", "clear"} : \E with : Screens!Ask("findings", does, with)
  BY DEF Screens!ChangeFindings
<1>2. PICK with : Screens!Ask("findings", does, with) BY <1>0
<1>3. \A p \in Pages : Pending(p)' <=> Pending(p) BY <1>1 DEF Pending
<1> QED BY <1>1, <1>2, <1>3, AskKeepsCurrent

\* One action after the other keeps it: a mark is added or removed.
LEMMA MarksKeepCurrent ==
  ASSUME Screens!TypeOK, CurrentInv, Screens!AddMark \/ Screens!RemoveMark
  PROVE  CurrentInv'
<1>1. /\ "marks" \in Pages /\ page = "marks"
      /\ UNCHANGED <<ScreenStore, page, filter, shown, typing, told>>
  BY DEF Screens!AddMark, Screens!RemoveMark, Screens!Turn, Screens!storeVars, ScreenStore
<1>0. PICK does \in {"mark", "remove"} : \E with : Screens!Ask("marks", does, with)
  BY DEF Screens!AddMark, Screens!RemoveMark
<1>2. PICK with : Screens!Ask("marks", does, with) BY <1>0
<1>3. \A p \in Pages : Pending(p)' <=> Pending(p) BY <1>1 DEF Pending
<1> QED BY <1>1, <1>2, <1>3, AskKeepsCurrent

\* One action after the other keeps it: a mark is added aside.
LEMMA AsideKeepsCurrent ==
  ASSUME Screens!TypeOK, CurrentInv, Screens!MarkAside
  PROVE  CurrentInv'
<1> SUFFICES ASSUME NEW p \in Pages, Watched(p)'
             PROVE  Undisturbed(p)' /\ (~Pending(p)' => UpToDate(p)')
  BY DEF CurrentInv
<1>1. UNCHANGED <<ScreenStore, page, filter, shown, typing, told>>
  BY DEF Screens!MarkAside, Screens!storeVars, ScreenStore
<1>2. PICK m : tasks' = Append(tasks, [page |-> "window", does |-> "aside", with |-> m, got |-> Screens!Nothing])
  BY DEF Screens!MarkAside
<1>3. tangled' = tangled \cup Screens!ShowMarks BY DEF Screens!MarkAside
<1>4. Watched(p) /\ p \notin Screens!ShowMarks BY <1>1, <1>3 DEF Watched, ScreenStore
<1>5. Undisturbed(p) /\ (~Pending(p) => UpToDate(p)) BY <1>4 DEF CurrentInv
<1>6. Pending(p)' <=> Pending(p) BY <1>1 DEF Pending
<1> DEFINE x == [page |-> "window", does |-> "aside", with |-> m, got |-> Screens!Nothing]
<1>7. x.page # p /\ ~Screens!Touches(x, p) /\ tasks' = Append(tasks, x)
  BY <1>2, <1>4, ScreenConstants DEF Screens!Touches
<1> HIDE DEF x
<1> QED BY <1>1, <1>5, <1>6, <1>7, ForeignLoad

\* One action after the other keeps it: somebody types.
LEMMA TypeKeepsCurrent ==
  ASSUME Screens!TypeOK, CurrentInv, NEW q \in Pages, Screens!Type(q)
  PROVE  CurrentInv'
<1> SUFFICES ASSUME NEW p \in Pages, Watched(p)'
             PROVE  Undisturbed(p)' /\ (~Pending(p)' => UpToDate(p)')
  BY DEF CurrentInv
<1>1. /\ page = q /\ typing' = typing \cup {q}
      /\ UNCHANGED <<ScreenStore, page, shown, tasks, told, tangled>>
  BY DEF Screens!Type, Screens!Turn, Screens!storeVars, ScreenStore
<1>2. p = q /\ Watched(p) BY <1>1 DEF Watched, ScreenStore
<1>3. Undisturbed(p)' BY <1>1, <1>2 DEF CurrentInv, Undisturbed
<1>4. Pending(p)' BY <1>1, <1>2 DEF Pending
<1> QED BY <1>3, <1>4

\* One action after the other keeps it: what there is is sifted.
LEMMA SiftKeepsCurrent ==
  ASSUME Screens!TypeOK, CurrentInv, NEW q \in Pages, Screens!Sift(q)
  PROVE  CurrentInv'
<1> SUFFICES ASSUME NEW p \in Pages, Watched(p)'
             PROVE  Undisturbed(p)' /\ (~Pending(p)' => UpToDate(p)')
  BY DEF CurrentInv
<1>1. /\ page = q /\ q \in {"live", "names"} /\ filter' = [filter EXCEPT ![q].only = ~@]
      /\ UNCHANGED <<ScreenStore, page, shown, typing, tasks, told, tangled>>
  BY DEF Screens!Sift, Screens!Turn, Screens!Searchable, Screens!storeVars, ScreenStore
<1>2. p = q /\ Watched(p) BY <1>1 DEF Watched, ScreenStore
<1>3. Undisturbed(p) /\ (~Pending(p) => UpToDate(p)) BY <1>2 DEF CurrentInv
<1>4. Undisturbed(p)' BY <1>1, <1>3 DEF Undisturbed
<1>5. Pending(p)' <=> Pending(p) BY <1>1 DEF Pending
<1>6. ASSUME UpToDate(p) PROVE UpToDate(p)'
  <2> SUFFICES ASSUME NEW f \in {filter[p]'}
               PROVE  /\ ~Screens!Out(p)' => shown[p]' = Screens!Answer(p, f)'
                      /\ \A k \in DOMAIN tasks' : tasks'[k].page = p => Brings(tasks[k], p, f)'
    BY DEF UpToDate
  <2> DEFINE g == filter[p]
  <2>1. g \in Screens!Filters /\ f = [g EXCEPT !.only = ~g.only]
    BY <1>1, <1>2 DEF Screens!TypeOK
  <2>2. SameQuestion(p, g, f) BY <1>1, <1>2, <2>1 DEF SameQuestion, Screens!Filters
  <2>3. Screens!Answer(p, g) = Screens!Answer(p, f) BY <2>2, SameAnswer
  <2>4. Screens!Answer(p, f)' = Screens!Answer(p, f) BY <1>1, AnswerKept DEF ScreenStore
  <2>5. Screens!Out(p)' <=> Screens!Out(p) BY <1>1 DEF Screens!Out
  <2>6. ~Screens!Out(p)' => shown[p]' = Screens!Answer(p, f)'
    BY <1>1, <1>6, <2>3, <2>4, <2>5 DEF UpToDate
  <2>7. ASSUME NEW k \in DOMAIN tasks', tasks'[k].page = p
        PROVE  Brings(tasks[k], p, f)'
    <3>1. Brings(tasks[k], p, g) BY <1>1, <1>6, <2>7 DEF UpToDate
    <3>2. SameQuestion(p, tasks[k].with, g) => SameQuestion(p, tasks[k].with, f)
      BY <2>2 DEF SameQuestion
    <3> QED BY <1>1, <2>3, <2>4, <3>1, <3>2 DEF Brings
  <2> QED BY <2>6, <2>7
<1> QED BY <1>3, <1>4, <1>5, <1>6

\* One action after the other keeps it: a scan ends.
LEMMA ScanKeepsCurrent ==
  ASSUME Screens!TypeOK, CurrentInv, Screens!Scan
  PROVE  CurrentInv'
<1> SUFFICES ASSUME NEW p \in Pages, Watched(p)'
             PROVE  Undisturbed(p)' /\ (~Pending(p)' => UpToDate(p)')
  BY DEF CurrentInv
<1>1. /\ apNow' = apNow + 1 /\ told' = told + 1
      /\ UNCHANGED <<page, filter, shown, typing, tasks, apMarks, tangled>>
  BY DEF Screens!Scan
<1>2. apNow \in Nat /\ told \in Nat /\ apNow > 0
  <2>1. apNow \in 1..MaxScans /\ told \in 0..(apNow - 1) BY DEF Screens!TypeOK
  <2>2. MaxScans \in Nat BY ScreenConstants
  <2> QED BY <2>1, <2>2
<1>3. p # "names" /\ Watched(p) BY <1>1, <1>2 DEF Watched
<1>4. Undisturbed(p) /\ (~Pending(p) => UpToDate(p)) BY <1>3 DEF CurrentInv
<1>5. Undisturbed(p)' BY <1>1, <1>4 DEF Undisturbed
<1>6. ASSUME ~Pending(p)' PROVE UpToDate(p)'
  <2>1. p = "marks"
    <3>1. told' > 0 BY <1>1, <1>2
    <3>2. p \notin Screens!ReloadOnScan BY <1>6, <3>1 DEF Pending, Screens!ReloadOnScan
    <3>3. p \in {"live", "names", "spectrum", "findings", "marks"} BY ScreenConstants
    <3> QED BY <1>3, <3>2, <3>3 DEF Screens!ReloadOnScan
  <2>2. ~Pending(p) BY <1>1, <1>6, <2>1 DEF Pending, Screens!ReloadOnScan
  <2>3. \A f \in {filter[p]} : Screens!Answer(p, f)' = Screens!Answer(p, f)
    BY <1>1, <2>1 DEF Screens!Answer, Screens!MarksListing
  <2> QED BY <1>1, <1>4, <2>2, <2>3, StaysUpToDate
<1> QED BY <1>5, <1>6

\* One action after the other keeps it: the window is told of a scan.
LEMMA OnScannedKeepsCurrent ==
  ASSUME Screens!TypeOK, CurrentInv, Screens!OnScanned
  PROVE  CurrentInv'
<1>1. UNCHANGED <<ScreenStore, page, filter, shown, typing>> /\ told > 0 /\ told' = told - 1 /\ page \in Pages
  BY DEF Screens!OnScanned, Screens!storeVars, ScreenStore, Screens!TypeOK
<1>2. CASE page \in Screens!ReloadOnScan
  <2>1. Screens!Ask(page, "load", filter[page]) BY <1>2 DEF Screens!OnScanned, Screens!Load
  <2> SUFFICES ASSUME NEW p \in Pages, Watched(p)'
               PROVE  Undisturbed(p)' /\ (~Pending(p)' => UpToDate(p)')
    BY DEF CurrentInv
  <2>2. p = page BY <1>1 DEF Watched
  <2>3. ~Screens!Crossing(tasks, p) BY <2>1, <2>2 DEF Screens!Ask, Watched
  <2>4. Len(tasks) \in Nat /\ tasks = [k \in 1..Len(tasks) |-> tasks[k]] BY DEF Screens!TypeOK
  <2>5. tasks' = Append(tasks, [page |-> p, does |-> "load", with |-> filter[p], got |-> Screens!Nothing])
    BY <2>1, <2>2 DEF Screens!Ask
  <2> QED BY <1>1, <2>2, <2>3, <2>4, <2>5, AskedCleanly
<1>3. CASE page \notin Screens!ReloadOnScan
  <2>1. UNCHANGED <<tasks, tangled>> BY <1>3 DEF Screens!OnScanned
  <2> SUFFICES ASSUME NEW p \in Pages, Watched(p)'
               PROVE  Undisturbed(p)' /\ (~Pending(p)' => UpToDate(p)')
    BY DEF CurrentInv
  <2>2. p = page /\ Watched(p) BY <1>1, <2>1 DEF Watched, ScreenStore
  <2>3. Undisturbed(p) /\ (~Pending(p) => UpToDate(p)) BY <2>2 DEF CurrentInv
  <2>4. Undisturbed(p)' BY <2>1, <2>3 DEF Undisturbed
  <2>5. Pending(p)' <=> Pending(p) BY <1>1, <1>3, <2>2 DEF Pending
  <2>6. \A f \in {filter[p]} : Screens!Answer(p, f)' = Screens!Answer(p, f)
    BY <1>1, AnswerKept DEF ScreenStore
  <2> QED BY <1>1, <2>1, <2>3, <2>4, <2>5, <2>6, StaysUpToDate
<1> QED BY <1>2, <1>3

\* Every step keeps the invariant.
LEMMA CurrentInvNext ==
  ASSUME Screens!TypeOK, CurrentInv, [Screens!Next]_screenVars
  PROVE  CurrentInv'
<1>1. CASE UNCHANGED screenVars
  <2>1. UNCHANGED <<ScreenStore, page, filter, shown, typing, tasks, told, tangled>>
    BY <1>1 DEF screenVars, ScreenStore
  <2> SUFFICES ASSUME NEW p \in Pages, Watched(p)'
               PROVE  Undisturbed(p)' /\ (~Pending(p)' => UpToDate(p)')
    BY DEF CurrentInv
  <2>2. Watched(p) BY <2>1 DEF Watched, ScreenStore
  <2>3. Undisturbed(p) /\ (~Pending(p) => UpToDate(p)) BY <2>2 DEF CurrentInv
  <2>4. Undisturbed(p)' BY <2>1, <2>3 DEF Undisturbed
  <2>5. Pending(p)' <=> Pending(p) BY <2>1 DEF Pending
  <2>6. \A f \in {filter[p]} : Screens!Answer(p, f)' = Screens!Answer(p, f)
    BY <2>1, AnswerKept DEF ScreenStore
  <2> QED BY <2>1, <2>3, <2>4, <2>5, <2>6, StaysUpToDate
<1>2. CASE Screens!Next
  BY <1>2, RunTaskKeepsCurrent, ApplyKeepsCurrent, FailKeepsCurrent, ShowKeepsCurrent,
     TypeKeepsCurrent, DebounceKeepsCurrent, ChooseKeepsCurrent, SiftKeepsCurrent,
     FindingsKeepCurrent, MarksKeepCurrent, AsideKeepsCurrent, ScanKeepsCurrent, OnScannedKeepsCurrent
  DEF Screens!Next
<1> QED BY <1>1, <1>2

\* It holds when the window opens.
LEMMA CurrentInvInit == ASSUME Screens!Init PROVE CurrentInv
<1> SUFFICES ASSUME NEW p \in Pages, Watched(p)
             PROVE  Undisturbed(p) /\ UpToDate(p)
  BY DEF CurrentInv
<1>1. p = page /\ tasks = <<[page |-> p, does |-> "load", with |-> filter[p], got |-> Screens!Nothing]>>
  BY DEF Screens!Init, Watched
<1>2. DOMAIN tasks = {1} /\ tasks[1].page = p /\ Screens!Out(p) BY <1>1 DEF Screens!Out
<1>3. Undisturbed(p) BY <1>2 DEF Undisturbed
<1>4. \A f \in {filter[p]} : Brings(tasks[1], p, f) BY <1>1 DEF Brings, SameQuestion
<1> QED BY <1>2, <1>3, <1>4 DEF UpToDate

\* And where it holds, a screen that is watched, with nothing on its way, is current.
LEMMA CurrentInvShows ==
  ASSUME Screens!TypeOK, CurrentInv
  PROVE  Screens!ScreenIsCurrent
<1> SUFFICES ASSUME NEW p \in Pages, Screens!Settled(p), p = "names" => apNow = 1
             PROVE  shown[p] = Screens!Answer(p, filter[p])
  BY DEF Screens!ScreenIsCurrent
<1>1. Watched(p) /\ ~Pending(p) /\ ~Screens!Out(p)
  BY DEF Screens!Settled, Watched, Pending, Screens!TypeOK
<1>2. UpToDate(p) BY <1>1 DEF CurrentInv
<1> QED BY <1>1, <1>2 DEF UpToDate

\* The types of Screens, at the start.
LEMMA ScreensTypeInit == ASSUME Screens!Init PROVE Screens!TypeOK
<1>0. /\ Pages \subseteq {"live", "names", "spectrum", "findings", "marks"}
      /\ "" \in BandChoices /\ "" \in Searches /\ FirstListed \in Listed
      /\ MaxScans \in Nat /\ MaxScans > 0 /\ MaxLoads \in Nat /\ MaxLoads > 0 /\ MaxTurns \in Nat
  BY ScreenConstants
<1>1. /\ filter = [p \in Pages |-> [Screens!NoFilter EXCEPT !.only = p = "findings"]]
      /\ tasks = <<[page |-> page, does |-> "load", with |-> filter[page], got |-> Screens!Nothing]>>
      /\ page \in Pages /\ DOMAIN apRows = {FirstListed}
  BY DEF Screens!Init
<1>2. filter \in [Pages -> Screens!Filters]
  <2>1. ASSUME NEW p \in Pages
        PROVE  [Screens!NoFilter EXCEPT !.only = p = "findings"] \in Screens!Filters
    BY <1>0 DEF Screens!Filters, Screens!NoFilter, Screens!Windows
  <2> QED BY <1>1, <2>1
<1> DEFINE x == [page |-> page, does |-> "load", with |-> filter[page], got |-> Screens!Nothing]
<1>3. Screens!TaskOK(x)
  <2>1. filter[page] \in Screens!Filters BY <1>1, <1>2
  <2> QED BY <1>1, <2>1 DEF Screens!TaskOK
<1> HIDE DEF x
<1>4. tasks = <<x>> BY <1>1 DEF x
<1>5. Len(tasks) = 1 /\ DOMAIN tasks = {1} /\ tasks[1] = x BY <1>4
<1>6. tasks = [k \in 1..Len(tasks) |-> tasks[k]]
  <2>1. tasks \in Seq({x}) BY <1>4
  <2>2. tasks \in [1..Len(tasks) -> {x}] BY <2>1, LenProperties
  <2> QED BY <2>2
<1>7. \A k \in DOMAIN tasks : Screens!TaskOK(tasks[k]) BY <1>3, <1>5
<1>8. Screens!Known \subseteq Listed BY <1>0, <1>1 DEF Screens!Known
<1>9. /\ apNow = 1 /\ apMarks = {} /\ DOMAIN shown = Pages /\ typing = {} /\ tangled = {}
      /\ told = 0 /\ turns = 0
  BY DEF Screens!Init
<1>10. apNow \in 1..MaxScans /\ told \in 0..(apNow - 1) /\ turns \in 0..MaxTurns
  BY <1>9, ScreenBounds
<1>11. Len(tasks) + told < MaxLoads + apNow BY <1>5, <1>9, ScreenBounds
<1> QED BY <1>1, <1>2, <1>5, <1>6, <1>7, <1>8, <1>9, <1>10, <1>11 DEF Screens!TypeOK

\* The calls are a list of calls.
TaskListOK == Len(tasks) \in Nat /\ tasks = [k \in 1..Len(tasks) |-> tasks[k]]
              /\ \A k \in DOMAIN tasks : Screens!TaskOK(tasks[k])

\* One more, of the right shape, is too.
LEMMA TasksAppend ==
  ASSUME NEW s, Len(s) \in Nat, s = [k \in 1..Len(s) |-> s[k]],
         \A k \in DOMAIN s : Screens!TaskOK(s[k]),
         NEW x, Screens!TaskOK(x), tasks' = Append(s, x)
  PROVE  TaskListOK' /\ Len(tasks') = Len(s) + 1
<1> DEFINE t == tasks'
<1>9. t = Append(s, x) OBVIOUS
<1> HIDE DEF t
<1>0. t = [k \in 1..Len(t) |-> t[k]]
  <2>1. s \in Seq({s[k] : k \in 1..Len(s)} \cup {x}) BY ListIsSeq
  <2>2. t \in Seq({s[k] : k \in 1..Len(s)} \cup {x}) BY <1>9, <2>1
  <2>3. t \in [1..Len(t) -> {s[k] : k \in 1..Len(s)} \cup {x}] BY <2>2, LenProperties
  <2> QED BY <2>3
<1>1. /\ Len(tasks') = Len(s) + 1 /\ DOMAIN tasks' = 1..(Len(s) + 1)
      /\ \A k \in 1..Len(s) : tasks'[k] = s[k]
      /\ tasks'[Len(s) + 1] = x
  BY AppendFacts
<1>2. \A k \in 1..(Len(s) + 1) : k \in 1..Len(s) \/ k = Len(s) + 1 OBVIOUS
<1>3. DOMAIN s = 1..Len(s) OBVIOUS
<1>4. \A k \in DOMAIN tasks' : Screens!TaskOK(tasks'[k]) BY <1>1, <1>2, <1>3
<1>5. Len(tasks') \in Nat BY <1>1
<1> QED BY <1>0, <1>1, <1>4, <1>5 DEF TaskListOK, Screens!TaskOK, t

\* And one fewer.
LEMMA TasksRemove ==
  ASSUME TaskListOK, NEW i \in DOMAIN tasks, NEW t, t = Screens!RemoveAt(tasks, i)
  PROVE  /\ Len(t) = Len(tasks) - 1 /\ Len(t) \in Nat /\ t = [k \in 1..Len(t) |-> t[k]]
         /\ \A k \in DOMAIN t : Screens!TaskOK(t[k])
<1>0. Len(tasks) \in Nat /\ tasks = [k \in 1..Len(tasks) |-> tasks[k]] BY DEF TaskListOK
<1>1. i \in 1..Len(tasks) /\ DOMAIN tasks = 1..Len(tasks) BY <1>0
<1>2. Len(t) = Len(tasks) - 1 /\ DOMAIN t = 1..(Len(tasks) - 1) BY <1>0, <1>1, RemoveFacts
<1>7. \A k \in 1..(Len(tasks) - 1) : t[k] = IF k < i THEN tasks[k] ELSE tasks[k + 1]
  BY <1>0, <1>1, RemoveFacts
<1>6. t = [k \in 1..Len(t) |-> t[k]] BY <1>0, <1>1, RemoveFacts
<1>3. Len(t) \in Nat BY <1>0, <1>1, <1>2
<1>4. \A k \in DOMAIN t : \E j \in DOMAIN tasks : t[k] = tasks[j]
  BY <1>0, <1>1, <1>2, <1>7
<1>5. \A k \in DOMAIN t : Screens!TaskOK(t[k]) BY <1>4 DEF TaskListOK
<1> QED BY <1>2, <1>3, <1>5, <1>6

\* Asking adds one call.
LEMMA AskKeepsTasks ==
  ASSUME Screens!TypeOK, NEW q \in Pages, NEW does, NEW with,
         Screens!TaskOK([page |-> q, does |-> does, with |-> with, got |-> Screens!Nothing]),
         Screens!Ask(q, does, with)
  PROVE  TaskListOK' /\ Len(tasks') = Len(tasks) + 1 /\ tangled' \subseteq Pages
<1>1. tasks' = Append(tasks, [page |-> q, does |-> does, with |-> with, got |-> Screens!Nothing])
  BY DEF Screens!Ask
<1>2. tangled' \subseteq Pages BY DEF Screens!Ask, Screens!TypeOK
<1>3. Len(tasks) \in Nat /\ tasks = [k \in 1..Len(tasks) |-> tasks[k]]
      /\ \A k \in DOMAIN tasks : Screens!TaskOK(tasks[k])
  BY DEF Screens!TypeOK
<1>4. TaskListOK' /\ Len(tasks') = Len(tasks) + 1 BY <1>1, <1>3, TasksAppend, Zenon
<1> QED BY <1>2, <1>4

\* There is room for the call of a person: the calls are fewer than MaxLoads then, and
\* the scans yet to be told of fewer than those there were.
LEMMA MorePending ==
  ASSUME Screens!TypeOK, Len(tasks') = Len(tasks) + 1, Len(tasks) < MaxLoads,
         UNCHANGED <<apNow, told>>
  PROVE  Len(tasks') + told' < MaxLoads + apNow'
<1>1. Len(tasks) \in Nat /\ apNow \in 1..MaxScans /\ told \in 0..(apNow - 1)
  BY DEF Screens!TypeOK
<1>2. MaxLoads \in Nat /\ MaxScans \in Nat BY ScreenConstants
<1>3. told < apNow /\ apNow \in Nat /\ told \in Nat BY <1>1, <1>2
<1> QED BY <1>1, <1>2, <1>3

\* One action after the other keeps the types: a worker runs a call.
LEMMA RunTaskKeepsType ==
  ASSUME Screens!TypeOK, NEW i \in DOMAIN tasks, Screens!RunTask(i)
  PROVE  Screens!TypeOK'
<1>1. UNCHANGED <<apNow, apRows, page, filter, shown, typing, told, turns, tangled>>
  BY DEF Screens!RunTask
<1> DEFINE t == tasks[i]
           got == IF t.does = "load" THEN Screens!Answer(t.page, t.with) ELSE [marks |-> apMarks']
<1>2. tasks' = [tasks EXCEPT ![i].got = got] BY DEF Screens!RunTask
<1>3. Len(tasks) \in Nat /\ tasks = [k \in 1..Len(tasks) |-> tasks[k]]
      /\ \A k \in DOMAIN tasks : Screens!TaskOK(tasks[k])
  BY DEF Screens!TypeOK
<1> HIDE DEF got
<1>4. t = [page |-> t.page, does |-> t.does, with |-> t.with, got |-> t.got]
  BY <1>3 DEF Screens!TaskOK
<1> DEFINE u == [page |-> t.page, does |-> t.does, with |-> t.with, got |-> got]
<1>5. [t EXCEPT !.got = got] = u BY <1>4
<1>6. tasks' = [tasks EXCEPT ![i] = u] BY <1>2, <1>5
<1>7. Screens!TaskOK(u) BY <1>3 DEF Screens!TaskOK
<1> HIDE DEF u, t
<1>8. /\ Len(tasks') = Len(tasks) /\ DOMAIN tasks' = DOMAIN tasks
      /\ tasks' = [k \in 1..Len(tasks') |-> tasks'[k]]
  <2> DEFINE S == {tasks[k] : k \in 1..Len(tasks)} \cup {u}
  <2>1. tasks \in [1..Len(tasks) -> S] BY <1>3
  <2>2. tasks' \in [1..Len(tasks) -> S] BY <1>6, <2>1
  <2>3. tasks' \in Seq(S) /\ Len(tasks') = Len(tasks) BY <1>3, <2>2
  <2> QED BY <1>3, <2>2, <2>3
<1>9. \A k \in DOMAIN tasks' : Screens!TaskOK(tasks'[k])
  BY <1>3, <1>6, <1>7, <1>8
<1>10. apMarks' \subseteq MarkPool
  <2>1. t.does \in {"mark", "aside"} => t.with \in MarkPool BY <1>3 DEF Screens!TaskOK, t
  <2> QED BY <2>1 DEF Screens!RunTask, Screens!TypeOK, t
<1>11. Len(tasks') + told' < MaxLoads + apNow' BY <1>1, <1>8 DEF Screens!TypeOK
<1>12. Screens!Known' \subseteq Listed BY <1>1 DEF Screens!TypeOK, Screens!Known
<1>13. Len(tasks') \in Nat BY <1>3, <1>8
<1>14. \A k \in DOMAIN tasks' : Screens!TaskOK(tasks[k])' BY <1>9 DEF Screens!TaskOK
<1> QED BY <1>1, <1>8, <1>10, <1>11, <1>12, <1>13, <1>14 DEF Screens!TypeOK

\* Likewise: an answer is shown.
LEMMA ApplyKeepsType ==
  ASSUME Screens!TypeOK, NEW i \in DOMAIN tasks, Screens!Apply(i)
  PROVE  Screens!TypeOK'
<1>1. UNCHANGED <<apNow, apRows, apMarks, page, filter, typing, told, turns>>
  BY DEF Screens!Apply, Screens!storeVars
<1> DEFINE t == tasks[i]
           rest == Screens!RemoveAt(tasks, i)
<1>2. TaskListOK /\ Screens!TaskOK(t) BY DEF Screens!TypeOK, TaskListOK
<1>3. /\ Len(rest) = Len(tasks) - 1 /\ Len(rest) \in Nat /\ rest = [k \in 1..Len(rest) |-> rest[k]]
      /\ \A k \in DOMAIN rest : Screens!TaskOK(rest[k])
  BY <1>2, TasksRemove, Zenon
<1>4. TaskListOK' /\ Len(tasks') <= Len(tasks) /\ DOMAIN shown' = Pages /\ tangled' \subseteq Pages
  <2>1. CASE t.does = "load" \/ t.page = "marks"
    <3>0. t.does # "aside" /\ ~(t.does # "load" /\ t.page = "findings")
      BY <1>2, <2>1 DEF Screens!TaskOK
    <3>1. /\ shown' = [shown EXCEPT ![t.page] = t.got] /\ tasks' = rest /\ UNCHANGED tangled
      BY <3>0 DEF Screens!Apply
    <3>2. TaskListOK' BY <1>3, <3>1 DEF TaskListOK, Screens!TaskOK
    <3>3. Len(tasks') <= Len(tasks) BY <1>2, <1>3, <3>1 DEF TaskListOK
    <3> QED BY <3>1, <3>2, <3>3 DEF Screens!TypeOK
  <2>3. CASE t.does = "aside"
    <3>0. t.page = "window" BY <1>2, <2>3 DEF Screens!TaskOK
    <3>1. tasks' = rest /\ UNCHANGED <<shown, tangled>> BY <2>3, <3>0 DEF Screens!Apply
    <3>2. TaskListOK' BY <1>3, <3>1 DEF TaskListOK, Screens!TaskOK
    <3>3. Len(tasks') <= Len(tasks) BY <1>2, <1>3, <3>1 DEF TaskListOK
    <3> QED BY <3>1, <3>2, <3>3 DEF Screens!TypeOK
  <2>2. CASE ~(t.does \in {"load", "aside"} \/ t.page = "marks")
    <3> DEFINE x == [page |-> t.page, does |-> "load", with |-> filter[t.page], got |-> Screens!Nothing]
    <3>1. /\ tasks' = Append(rest, x) /\ UNCHANGED shown
          /\ tangled' \subseteq tangled \cup {t.page}
      BY <2>2 DEF Screens!Apply
    <3>2. t.page = "findings" BY <1>2, <2>2 DEF Screens!TaskOK
    <3>3. i \in DOMAIN tasks /\ t.page \in Pages BY <1>2, <2>2 DEF Screens!TaskOK
    <3>4. filter[t.page] \in Screens!Filters BY <3>3 DEF Screens!TypeOK
    <3>5. Screens!TaskOK(x) BY <3>3, <3>4 DEF Screens!TaskOK
    <3> HIDE DEF x, rest
    <3>6. TaskListOK' /\ Len(tasks') = Len(rest) + 1 BY <1>3, <3>1, <3>5, TasksAppend, Zenon
    <3>7. Len(tasks') <= Len(tasks) BY <1>2, <1>3, <3>6 DEF TaskListOK
    <3> QED BY <3>1, <3>3, <3>6, <3>7 DEF Screens!TypeOK
  <2> QED BY <2>1, <2>2, <2>3
<1>5. Len(tasks') + told' < MaxLoads + apNow'
  <2>1. Len(tasks) + told < MaxLoads + apNow /\ Len(tasks) \in Nat /\ Len(tasks') \in Nat
    BY <1>4 DEF Screens!TypeOK, TaskListOK
  <2>2. apNow \in 1..MaxScans /\ told \in 0..(apNow - 1) BY DEF Screens!TypeOK
  <2>3. MaxLoads \in Nat /\ MaxScans \in Nat BY ScreenConstants
  <2>4. apNow \in Nat /\ told \in Nat BY <2>2, <2>3
  <2> QED BY <1>1, <1>4, <2>1, <2>3, <2>4
<1>6. Screens!Known' \subseteq Listed BY <1>1 DEF Screens!TypeOK, Screens!Known
<1> QED BY <1>1, <1>4, <1>5, <1>6 DEF Screens!TypeOK, TaskListOK
\* Likewise: a call fails.
LEMMA FailKeepsType ==
  ASSUME Screens!TypeOK, NEW i \in DOMAIN tasks, Screens!Fail(i)
  PROVE  Screens!TypeOK'
<1>1. UNCHANGED <<apNow, apRows, apMarks, page, filter, shown, typing, told, turns>>
  BY DEF Screens!Fail, Screens!storeVars
<1> DEFINE rest == Screens!RemoveAt(tasks, i)
<1>2. TaskListOK /\ Screens!TaskOK(tasks[i]) BY DEF Screens!TypeOK, TaskListOK
<1>3. /\ Len(rest) = Len(tasks) - 1 /\ Len(rest) \in Nat /\ rest = [k \in 1..Len(rest) |-> rest[k]]
      /\ \A k \in DOMAIN rest : Screens!TaskOK(rest[k])
  BY <1>2, TasksRemove, Zenon
<1>4. tasks' = rest /\ tangled' = tangled \cup (Pages \cap {tasks[i].page}) BY DEF Screens!Fail
<1>5. TaskListOK' BY <1>3, <1>4 DEF TaskListOK, Screens!TaskOK
<1>6. tangled' \subseteq Pages BY <1>2, <1>4 DEF Screens!TaskOK, Screens!TypeOK
<1>7. Len(tasks') + told' < MaxLoads + apNow'
  <2>1. Len(tasks) + told < MaxLoads + apNow /\ Len(tasks) \in Nat BY DEF Screens!TypeOK
  <2>2. apNow \in 1..MaxScans /\ told \in 0..(apNow - 1) BY DEF Screens!TypeOK
  <2>3. apNow \in Nat /\ told \in Nat BY <2>2, ScreenBounds
  <2> HIDE DEF rest
  <2> QED BY <1>1, <1>3, <1>4, <2>1, <2>3, ScreenBounds
<1>8. Screens!Known' \subseteq Listed BY <1>1 DEF Screens!TypeOK, Screens!Known
<1> QED BY <1>1, <1>5, <1>6, <1>7, <1>8 DEF Screens!TypeOK, TaskListOK

\* What a step that only asks has to show of its types.
LEMMA OneMoreKeepsType ==
  ASSUME Screens!TypeOK, TaskListOK', tangled' \subseteq Pages,
         Len(tasks') + told' < MaxLoads + apNow', told' \in 0..(apNow' - 1),
         UNCHANGED <<apNow, apRows, apMarks, shown>>,
         page' \in Pages, filter' \in [Pages -> Screens!Filters],
         typing' \subseteq Pages, turns' \in 0..MaxTurns
  PROVE  Screens!TypeOK'
<1>1. Screens!Known' \subseteq Listed BY DEF Screens!TypeOK, Screens!Known
<1>2. apNow' \in 1..MaxScans /\ apMarks' \subseteq MarkPool /\ DOMAIN shown' = Pages
  BY DEF Screens!TypeOK
<1> QED BY <1>1, <1>2 DEF Screens!TypeOK, TaskListOK, Screens!Filters, Screens!Windows

\* What a person does is counted up to the bound.
LEMMA TurnCounts ==
  ASSUME Screens!TypeOK, Screens!Something
  PROVE  turns' \in 0..MaxTurns
BY ScreenBounds DEF Screens!TypeOK, Screens!Something

\* Likewise: a screen is shown.
LEMMA ShowKeepsType ==
  ASSUME Screens!TypeOK, NEW q \in Pages, Screens!ShowView(q)
  PROVE  Screens!TypeOK'
<1>1. /\ Screens!Ask(q, "load", filter[q]) /\ page' = q /\ Len(tasks) < MaxLoads
      /\ UNCHANGED <<apNow, apRows, alerts, apMarks, filter, shown, typing, told>>
  BY DEF Screens!ShowView, Screens!Load, Screens!storeVars
<1>2. turns' \in 0..MaxTurns BY TurnCounts DEF Screens!ShowView
<1>3. Screens!TaskOK([page |-> q, does |-> "load", with |-> filter[q], got |-> Screens!Nothing])
  BY DEF Screens!TypeOK, Screens!TaskOK
<1>4. TaskListOK' /\ Len(tasks') = Len(tasks) + 1 /\ tangled' \subseteq Pages
  BY <1>1, <1>3, AskKeepsTasks
<1>5. Len(tasks') + told' < MaxLoads + apNow' BY <1>1, <1>4, MorePending
<1>6. filter' \in [Pages -> Screens!Filters] /\ typing' \subseteq Pages /\ told' \in 0..(apNow' - 1)
  BY <1>1 DEF Screens!TypeOK
<1> QED BY <1>1, <1>2, <1>4, <1>5, <1>6, OneMoreKeepsType

\* Likewise: the typing ends.
LEMMA DebounceKeepsType ==
  ASSUME Screens!TypeOK, NEW q \in Pages, Screens!Debounce(q)
  PROVE  Screens!TypeOK'
<1>1. /\ Screens!Ask(q, "load", filter[q]) /\ typing' = typing \ {q} /\ Len(tasks) < MaxLoads
      /\ UNCHANGED <<apNow, apRows, alerts, apMarks, page, filter, shown, told, turns>>
  BY DEF Screens!Debounce, Screens!Load, Screens!storeVars
<1>3. Screens!TaskOK([page |-> q, does |-> "load", with |-> filter[q], got |-> Screens!Nothing])
  BY DEF Screens!TypeOK, Screens!TaskOK
<1>4. TaskListOK' /\ Len(tasks') = Len(tasks) + 1 /\ tangled' \subseteq Pages
  BY <1>1, <1>3, AskKeepsTasks
<1>5. Len(tasks') + told' < MaxLoads + apNow' BY <1>1, <1>4, MorePending
<1>6. /\ filter' \in [Pages -> Screens!Filters] /\ typing' \subseteq Pages /\ turns' \in 0..MaxTurns
      /\ told' \in 0..(apNow' - 1) /\ page' \in Pages
  BY <1>1 DEF Screens!TypeOK
<1> QED BY <1>1, <1>4, <1>5, <1>6, OneMoreKeepsType

\* What may be chosen on a screen is a filter.
LEMMA OfferedAreFilters ==
  ASSUME Screens!TypeOK, NEW q \in Pages, NEW f \in Screens!Offered(q)
  PROVE  f \in Screens!Filters
<1> DEFINE g == filter[q]
<1>0. g \in Screens!Filters BY DEF Screens!TypeOK
<1> HIDE DEF g
<1>1. CASE q \in Screens!Searchable
  <2>1. Screens!Offered(q) = Screens!SearchFilters(g)
    <3>1. q # "spectrum" /\ q # "findings" BY <1>1 DEF Screens!Searchable
    <3> QED BY <1>1, <3>1 DEF Screens!Offered, g
  <2> QED BY <1>0, <2>1 DEF Screens!SearchFilters, Screens!Filters
<1>2. CASE q = "spectrum"
  <2>1. f \in Screens!SpectrumFilters(g) BY <1>2 DEF Screens!Offered, Screens!Searchable, g
  <2> QED BY <1>0, <2>1 DEF Screens!SpectrumFilters, Screens!Filters
<1>3. CASE q = "findings"
  <2>1. f \in Screens!FindingsFilters(g) BY <1>3 DEF Screens!Offered, Screens!Searchable, g
  <2> QED BY <1>0, <2>1 DEF Screens!FindingsFilters, Screens!Filters
<1>4. CASE q \notin Screens!Searchable /\ q # "spectrum" /\ q # "findings"
  BY <1>4 DEF Screens!Offered
<1> QED BY <1>1, <1>2, <1>3, <1>4

\* Likewise: a filter is chosen.
LEMMA ChooseKeepsType ==
  ASSUME Screens!TypeOK, NEW q \in Pages, Screens!Choose(q)
  PROVE  Screens!TypeOK'
<1>1. /\ Screens!Ask(q, "load", filter[q]') /\ Len(tasks) < MaxLoads
      /\ UNCHANGED <<apNow, apRows, alerts, apMarks, page, typing, shown, told>>
  BY DEF Screens!Choose, Screens!Load, Screens!storeVars, Screens!Turn
<1>2. turns' \in 0..MaxTurns BY TurnCounts DEF Screens!Choose, Screens!Turn
<1>3. PICK f \in Screens!Offered(q) : filter' = [filter EXCEPT ![q] = f] BY DEF Screens!Choose
<1>4. f \in Screens!Filters BY OfferedAreFilters
<1>5. filter' \in [Pages -> Screens!Filters] /\ filter'[q] = f
  BY <1>3, <1>4 DEF Screens!TypeOK
<1>6. Screens!TaskOK([page |-> q, does |-> "load", with |-> filter'[q], got |-> Screens!Nothing])
  BY <1>4, <1>5 DEF Screens!TaskOK
<1>7. TaskListOK' /\ Len(tasks') = Len(tasks) + 1 /\ tangled' \subseteq Pages
  BY <1>1, <1>6, AskKeepsTasks
<1>8. Len(tasks') + told' < MaxLoads + apNow' BY <1>1, <1>7, MorePending
<1>9. typing' \subseteq Pages /\ told' \in 0..(apNow' - 1) /\ page' \in Pages
  BY <1>1 DEF Screens!TypeOK
<1> QED BY <1>1, <1>2, <1>5, <1>7, <1>8, <1>9, OneMoreKeepsType

\* Likewise: findings are changed.
LEMMA FindingsKeepType ==
  ASSUME Screens!TypeOK, Screens!ChangeFindings
  PROVE  Screens!TypeOK'
<1>1. /\ Len(tasks) < MaxLoads /\ "findings" \in Pages
      /\ UNCHANGED <<apNow, apRows, alerts, apMarks, page, filter, typing, shown, told>>
  BY DEF Screens!ChangeFindings, Screens!storeVars, Screens!Turn
<1>2. turns' \in 0..MaxTurns BY TurnCounts DEF Screens!ChangeFindings, Screens!Turn
<1>0. PICK does \in {"acknowledge", "reopen", "clear"} : \E with : Screens!Ask("findings", does, with)
  BY DEF Screens!ChangeFindings
<1>3. PICK with : Screens!Ask("findings", does, with) BY <1>0
<1>4. Screens!TaskOK([page |-> "findings", does |-> does, with |-> with, got |-> Screens!Nothing])
  BY <1>1, <1>3 DEF Screens!TaskOK
<1>5. TaskListOK' /\ Len(tasks') = Len(tasks) + 1 /\ tangled' \subseteq Pages
  BY <1>1, <1>3, <1>4, AskKeepsTasks
<1>6. Len(tasks') + told' < MaxLoads + apNow' BY <1>1, <1>5, MorePending
<1>7. /\ filter' \in [Pages -> Screens!Filters] /\ typing' \subseteq Pages
      /\ told' \in 0..(apNow' - 1) /\ page' \in Pages
  BY <1>1 DEF Screens!TypeOK
<1> QED BY <1>1, <1>2, <1>5, <1>6, <1>7, OneMoreKeepsType

\* Likewise: marks are.
LEMMA MarksKeepType ==
  ASSUME Screens!TypeOK, Screens!AddMark \/ Screens!RemoveMark
  PROVE  Screens!TypeOK'
<1>1. /\ Len(tasks) < MaxLoads /\ "marks" \in Pages /\ Screens!Something
      /\ UNCHANGED <<apNow, apRows, alerts, apMarks, page, filter, typing, shown, told>>
  BY DEF Screens!AddMark, Screens!RemoveMark, Screens!storeVars, Screens!Turn
<1>2. turns' \in 0..MaxTurns BY <1>1, TurnCounts
<1>0. PICK does \in {"mark", "remove"} :
        \E with : (does = "mark" => with \in MarkPool) /\ Screens!Ask("marks", does, with)
  BY DEF Screens!AddMark, Screens!RemoveMark
<1>3. PICK with : (does = "mark" => with \in MarkPool) /\ Screens!Ask("marks", does, with) BY <1>0
<1>4. Screens!TaskOK([page |-> "marks", does |-> does, with |-> with, got |-> Screens!Nothing])
  BY <1>1, <1>3 DEF Screens!TaskOK
<1>5. TaskListOK' /\ Len(tasks') = Len(tasks) + 1 /\ tangled' \subseteq Pages
  BY <1>1, <1>3, <1>4, AskKeepsTasks
<1>6. Len(tasks') + told' < MaxLoads + apNow' BY <1>1, <1>5, MorePending
<1>7. /\ filter' \in [Pages -> Screens!Filters] /\ typing' \subseteq Pages
      /\ told' \in 0..(apNow' - 1) /\ page' \in Pages
  BY <1>1 DEF Screens!TypeOK
<1> QED BY <1>1, <1>2, <1>5, <1>6, <1>7, OneMoreKeepsType

\* Likewise: a mark is added aside.
LEMMA AsideKeepsType ==
  ASSUME Screens!TypeOK, Screens!MarkAside
  PROVE  Screens!TypeOK'
<1>1. /\ Len(tasks) < MaxLoads /\ Screens!Something /\ tangled' = tangled \cup Screens!ShowMarks
      /\ UNCHANGED <<apNow, apRows, alerts, apMarks, page, filter, typing, shown, told>>
  BY DEF Screens!MarkAside, Screens!storeVars
<1>2. turns' \in 0..MaxTurns BY <1>1, TurnCounts
<1>3. PICK m \in MarkPool :
        tasks' = Append(tasks, [page |-> "window", does |-> "aside", with |-> m, got |-> Screens!Nothing])
  BY DEF Screens!MarkAside
<1> DEFINE x == [page |-> "window", does |-> "aside", with |-> m, got |-> Screens!Nothing]
<1>4. Screens!TaskOK(x) BY DEF Screens!TaskOK
<1>5. tasks' = Append(tasks, x) BY <1>3
<1> HIDE DEF x
<1>6. Len(tasks) \in Nat /\ tasks = [k \in 1..Len(tasks) |-> tasks[k]]
      /\ \A k \in DOMAIN tasks : Screens!TaskOK(tasks[k])
  BY DEF Screens!TypeOK
<1>7. TaskListOK' /\ Len(tasks') = Len(tasks) + 1 BY <1>4, <1>5, <1>6, TasksAppend, Zenon
<1>8. Len(tasks') + told' < MaxLoads + apNow' BY <1>1, <1>7, MorePending
<1>9. /\ filter' \in [Pages -> Screens!Filters] /\ typing' \subseteq Pages
      /\ told' \in 0..(apNow' - 1) /\ page' \in Pages /\ tangled' \subseteq Pages
  BY <1>1 DEF Screens!TypeOK, Screens!ShowMarks
<1> QED BY <1>1, <1>2, <1>7, <1>8, <1>9, OneMoreKeepsType

\* Likewise: somebody types, or sifts.
LEMMA TypingKeepsType ==
  ASSUME Screens!TypeOK, NEW q \in Pages, Screens!Type(q) \/ Screens!Sift(q)
  PROVE  Screens!TypeOK'
<1>1. /\ Screens!Something /\ typing' \subseteq Pages
      /\ UNCHANGED <<apNow, apRows, alerts, apMarks, page, shown, tasks, told, tangled>>
  BY DEF Screens!Type, Screens!Sift, Screens!storeVars, Screens!Turn, Screens!TypeOK
<1>2. turns' \in 0..MaxTurns BY <1>1, TurnCounts
<1> DEFINE g == filter[q]
<1>3. g \in Screens!Filters BY DEF Screens!TypeOK
<1>4. PICK f : f \in Screens!Filters /\ filter' = [filter EXCEPT ![q] = f]
  <2>1. CASE Screens!Type(q)
    <3>1. PICK x \in Searches : filter' = [filter EXCEPT ![q].search = x] BY <2>1 DEF Screens!Type
    <3>2. [g EXCEPT !.search = x] \in Screens!Filters BY <1>3, <3>1 DEF Screens!Filters
    <3> QED BY <3>1, <3>2
  <2>2. CASE Screens!Sift(q)
    <3>1. filter' = [filter EXCEPT ![q].only = ~@] BY <2>2 DEF Screens!Sift
    <3>2. [g EXCEPT !.only = ~g.only] \in Screens!Filters BY <1>3 DEF Screens!Filters
    <3> QED BY <3>1, <3>2
  <2> QED BY <2>1, <2>2
<1>5. filter' \in [Pages -> Screens!Filters] BY <1>4 DEF Screens!TypeOK
<1>6. TaskListOK' BY <1>1 DEF Screens!TypeOK, TaskListOK, Screens!TaskOK
<1>7. /\ Len(tasks') + told' < MaxLoads + apNow' /\ tangled' \subseteq Pages
      /\ told' \in 0..(apNow' - 1) /\ page' \in Pages
  BY <1>1 DEF Screens!TypeOK
<1> QED BY <1>1, <1>2, <1>5, <1>6, <1>7, OneMoreKeepsType
\* Likewise: a scan ends.
LEMMA ScanKeepsType ==
  ASSUME Screens!TypeOK, Screens!Scan
  PROVE  Screens!TypeOK'
<1>1. /\ apNow < MaxScans /\ apNow' = apNow + 1 /\ told' = told + 1 /\ Screens!Something
      /\ UNCHANGED <<page, filter, shown, typing, tasks, apMarks, tangled>>
  BY DEF Screens!Scan
<1>2. turns' \in 0..MaxTurns BY <1>1, TurnCounts
<1>3. apNow \in 1..MaxScans /\ told \in 0..(apNow - 1) /\ Len(tasks) + told < MaxLoads + apNow
      /\ Len(tasks) \in Nat
  BY DEF Screens!TypeOK
<1>4. apNow' \in 1..MaxScans /\ told' \in 0..(apNow' - 1) BY <1>1, <1>3, ScreenBounds
<1>5. Len(tasks') + told' < MaxLoads + apNow'
  <2>1. apNow \in Nat /\ told \in Nat BY <1>3, ScreenBounds
  <2> QED BY <1>1, <1>3, <2>1, ScreenBounds
<1>6. Screens!Known' \subseteq Listed
  <2>1. PICK r \in Listed : DOMAIN apRows' = DOMAIN apRows \cup {r} BY DEF Screens!Scan, Screens!Known
  <2> QED BY <2>1 DEF Screens!TypeOK, Screens!Known
<1>7. TaskListOK' BY <1>1 DEF Screens!TypeOK, TaskListOK, Screens!TaskOK
<1>8. /\ page' \in Pages /\ filter' \in [Pages -> Screens!Filters] /\ DOMAIN shown' = Pages
      /\ typing' \subseteq Pages /\ tangled' \subseteq Pages /\ apMarks' \subseteq MarkPool
  BY <1>1 DEF Screens!TypeOK
<1> QED BY <1>2, <1>4, <1>5, <1>6, <1>7, <1>8 DEF Screens!TypeOK, TaskListOK, Screens!Filters, Screens!Windows

\* Likewise: the window is told of it.
LEMMA OnScannedKeepsType ==
  ASSUME Screens!TypeOK, Screens!OnScanned
  PROVE  Screens!TypeOK'
<1>1. told > 0 /\ told' = told - 1
      /\ UNCHANGED <<apNow, apRows, apMarks, page, filter, shown, typing, turns>>
  BY DEF Screens!OnScanned, Screens!storeVars
<1>2. /\ Len(tasks) \in Nat /\ Len(tasks) + told < MaxLoads + apNow
      /\ apNow \in 1..MaxScans /\ told \in 0..(apNow - 1)
  BY DEF Screens!TypeOK
<1>3. TaskListOK' /\ Len(tasks') \in {Len(tasks), Len(tasks) + 1} /\ tangled' \subseteq Pages
  <2>1. CASE page \in Screens!ReloadOnScan
    <3>1. Screens!Ask(page, "load", filter[page]) BY <2>1 DEF Screens!OnScanned, Screens!Load
    <3>2. page \in Pages BY DEF Screens!TypeOK
    <3>3. Screens!TaskOK([page |-> page, does |-> "load", with |-> filter[page], got |-> Screens!Nothing])
      BY DEF Screens!TypeOK, Screens!TaskOK
    <3> QED BY <3>1, <3>2, <3>3, AskKeepsTasks
  <2>2. CASE page \notin Screens!ReloadOnScan
    <3>1. UNCHANGED <<tasks, tangled>> BY <2>2 DEF Screens!OnScanned
    <3> QED BY <3>1 DEF Screens!TypeOK, TaskListOK, Screens!TaskOK
  <2> QED BY <2>1, <2>2
<1>4. apNow \in Nat /\ told \in Nat /\ apNow' = apNow BY <1>1, <1>2, ScreenBounds
<1>5. told' \in 0..(apNow' - 1) /\ Len(tasks') + told' < MaxLoads + apNow'
  BY <1>1, <1>2, <1>3, <1>4, ScreenBounds
<1>6. /\ filter' \in [Pages -> Screens!Filters] /\ typing' \subseteq Pages
      /\ page' \in Pages /\ turns' \in 0..MaxTurns
  BY <1>1 DEF Screens!TypeOK
<1> QED BY <1>1, <1>3, <1>5, <1>6, OneMoreKeepsType

\* Every step keeps the types of Screens.
LEMMA ScreensTypeNext ==
  ASSUME Screens!TypeOK, [Screens!Next]_screenVars
  PROVE  Screens!TypeOK'
<1>1. CASE UNCHANGED screenVars
  <2>1. UNCHANGED <<apNow, apRows, apMarks, page, filter, shown, typing, tasks, told, turns, tangled>>
    BY <1>1 DEF screenVars
  <2>2. TaskListOK' BY <2>1 DEF Screens!TypeOK, TaskListOK, Screens!TaskOK
  <2>3. /\ filter' \in [Pages -> Screens!Filters] /\ typing' \subseteq Pages /\ tangled' \subseteq Pages
        /\ page' \in Pages /\ turns' \in 0..MaxTurns /\ told' \in 0..(apNow' - 1)
        /\ Len(tasks') + told' < MaxLoads + apNow'
    BY <2>1 DEF Screens!TypeOK
  <2> QED BY <2>1, <2>2, <2>3, OneMoreKeepsType
<1>2. CASE Screens!Next
  BY <1>2, RunTaskKeepsType, ApplyKeepsType, FailKeepsType, ShowKeepsType, TypingKeepsType,
     DebounceKeepsType, ChooseKeepsType, FindingsKeepType, MarksKeepType, AsideKeepsType,
     ScanKeepsType, OnScannedKeepsType
  DEF Screens!Next
<1> QED BY <1>1, <1>2

\* A step of the whole is one of Screens, or leaves it alone.
LEMMA ScreensMove == ASSUME [Next]_vars PROVE [Screens!Next]_screenVars
BY DEF Next, vars

\* What is inductive of the screens.
ScreensInv == Screens!TypeOK /\ CurrentInv

\* A screen that is showing, with nothing on its way to it, shows what the record would
\* answer it now (views/base.py, main_window.py: which screens reload on a scan), however
\* calls, scans, typing and failures fall together; but for those that ScreenIsCurrent
\* leaves out, whose last call crossed another.
THEOREM ScreensTrue == Spec => []ScreensAreTrue
<1>1. Init => ScreensInv
  BY ScreensTypeInit, CurrentInvInit DEF Init, ScreensInv
<1>2. ScreensInv /\ [Next]_vars => ScreensInv'
  BY ScreensMove, ScreensTypeNext, CurrentInvNext DEF ScreensInv
<1>3. ScreensInv => ScreensAreTrue
  BY CurrentInvShows DEF ScreensInv, ScreensAreTrue
<1> QED BY <1>1, <1>2, <1>3, PTL DEF Spec

(***************************************************************************)
(* Which adapter is which                                                  *)
(***************************************************************************)

\* What is assumed of the constants of AdapterPicture.
LEMMA PictureConstants ==
  /\ Interfaces \in Seq(Picture!Radios) /\ Picture!Nobody \notin Picture!Radios
  /\ Moves \in Nat /\ Life \in Nat /\ Life > 0 /\ Picture!IsFiniteSet(Keywords)
<1>1. Picture!PictureConstantsOK BY PartsAreWellFormed
<1>2. Interfaces \in Seq(Picture!Radios) /\ Picture!Nobody \notin Picture!Radios
  BY <1>1, Zenon DEF Picture!PictureConstantsOK, Picture!Radios
<1>3. Moves \in Nat /\ Life \in Nat \ {0} /\ Picture!IsFiniteSet(Keywords)
  BY <1>1, Zenon DEF Picture!PictureConstantsOK
<1>4. Life > 0 BY <1>3
<1> QED BY <1>2, <1>3, <1>4

\* Its Cardinality and IsFiniteSet are those of the standard module.
LEMMA PictureSizes ==
  ASSUME NEW S
  PROVE  /\ Picture!Cardinality(S) = Cardinality(S)
         /\ Picture!IsFiniteSet(S) <=> IsFiniteSet(S)
BY DEF Picture!Cardinality, Picture!IsFiniteSet, Cardinality, IsFiniteSet

\* The words in a description that speak for an adapter.
WantedIn(text) == {k \in Keywords : Picture!Within(k, text)}

\* There are only so many.
LEMMA WantedCount ==
  ASSUME NEW text
  PROVE  /\ Picture!Cardinality(WantedIn(text)) \in Nat
         /\ Picture!Cardinality(WantedIn(text)) <= Cardinality(Keywords)
         /\ Cardinality(Keywords) \in Nat
<1>1. IsFiniteSet(Keywords) BY PictureConstants, PictureSizes
<1>2. WantedIn(text) \subseteq Keywords BY DEF WantedIn
<1>3. Picture!Cardinality(WantedIn(text)) = Cardinality(WantedIn(text)) BY PictureSizes
<1> QED BY <1>1, <1>2, <1>3, FS_Subset, FS_CardinalityType

\* What else speaks for it.
Bonus(info) ==
  (IF info.external THEN 40 ELSE 0) + (IF info.known THEN 20 ELSE 0)
  + (IF "6" \in info.bands THEN 15 ELSE 0)
  + (IF info.on = "on" THEN 10 ELSE IF info.on = "off" THEN -60 ELSE 0)
  - (IF info.connected THEN 5 ELSE 0)

\* A score is the one and the other.
LEMMA ScoreIs ==
  ASSUME NEW info, NEW text
  PROVE  /\ Picture!Score(info, text) = 50 * Picture!Cardinality(WantedIn(text)) + Bonus(info)
         /\ Bonus(info) \in Int /\ Bonus(info) <= 85
<1> DEFINE n == Picture!Cardinality(WantedIn(text))
           e == IF info.external THEN 40 ELSE 0
           k == IF info.known THEN 20 ELSE 0
           b == IF "6" \in info.bands THEN 15 ELSE 0
           o == CASE info.on = "on" -> 10 [] info.on = "off" -> -60 [] OTHER -> 0
           c == IF info.connected THEN 5 ELSE 0
<1>1. Picture!Score(info, text) = 50 * n + e + k + b + o - c
  BY DEF Picture!Score, WantedIn
<1>2. o = IF info.on = "on" THEN 10 ELSE IF info.on = "off" THEN -60 ELSE 0 OBVIOUS
<1>3. Bonus(info) = e + k + b + o - c BY <1>2 DEF Bonus
<1>4. e \in {0, 40} /\ k \in {0, 20} /\ b \in {0, 15} /\ o \in {10, -60, 0} /\ c \in {0, 5}
  BY <1>2
<1>5. n \in Nat BY WantedCount
<1> HIDE DEF e, k, b, o, c
<1>6. Bonus(info) \in Int /\ Bonus(info) <= 85 BY <1>3, <1>4
<1> DEFINE m == 50 * n
<1>7. m \in Int BY <1>5
<1>8. Picture!Score(info, text) = m + e + k + b + o - c BY <1>1
<1> HIDE DEF m
<1>9. Picture!Score(info, text) = m + Bonus(info) BY <1>3, <1>4, <1>7, <1>8
<1> QED BY <1>6, <1>9 DEF m

\* An adapter that is off scores below its like that is on: what it loses for that is more
\* than all it may gain by its bands, and by being free.
LEMMA OffIsWorse ==
  ASSUME NEW i, NEW j, NEW s, NEW t, WantedIn(s) = WantedIn(t), i.on = "off", j.on = "on",
         i.external = j.external, i.known = j.known
  PROVE  Picture!Score(i, s) < Picture!Score(j, t)
<1> DEFINE n == Picture!Cardinality(WantedIn(t))
<1>1. Picture!Score(i, s) = 50 * n + Bonus(i) /\ Picture!Score(j, t) = 50 * n + Bonus(j)
  BY ScoreIs
<1>2. n \in Nat /\ Bonus(i) \in Int /\ Bonus(j) \in Int BY ScoreIs, WantedCount
<1>3. Bonus(i) < Bonus(j)
  <2> DEFINE e == IF i.external THEN 40 ELSE 0
             k == IF i.known THEN 20 ELSE 0
             a == IF "6" \in i.bands THEN 15 ELSE 0
             b == IF "6" \in j.bands THEN 15 ELSE 0
             c == IF i.connected THEN 5 ELSE 0
             d == IF j.connected THEN 5 ELSE 0
  <2>1. Bonus(i) = e + k + a + (-60) - c BY DEF Bonus
  <2>2. Bonus(j) = e + k + b + 10 - d BY DEF Bonus
  <2>3. e \in {0, 40} /\ k \in {0, 20} /\ a \in {0, 15} /\ b \in {0, 15} /\ c \in {0, 5} /\ d \in {0, 5}
    OBVIOUS
  <2> HIDE DEF e, k, a, b, c, d
  <2> QED BY <2>1, <2>2, <2>3
<1> HIDE DEF n
<1> QED BY <1>1, <1>2, <1>3

\* Some adapter scores best.
LEMMA SomeBest ==
  ASSUME NEW D, D # {}, NEW infos
  PROVE  \E a \in D : \A b \in D : Picture!Score(infos[b], Descriptions[b])
                                     <= Picture!Score(infos[a], Descriptions[a])
<1> DEFINE S(a) == Picture!Score(infos[a], Descriptions[a])
           top == 50 * Cardinality(Keywords) + 85
           short == {top - S(a) : a \in D}
<1>1. Cardinality(Keywords) \in Nat BY WantedCount
<1>2. \A a \in D : S(a) \in Int /\ S(a) <= top
  <2> SUFFICES ASSUME NEW a \in D PROVE S(a) \in Int /\ S(a) <= top OBVIOUS
  <2> DEFINE n == Picture!Cardinality(WantedIn(Descriptions[a]))
             x == Bonus(infos[a])
  <2>1. n \in Nat /\ n <= Cardinality(Keywords) BY WantedCount
  <2>2. x \in Int /\ x <= 85 /\ S(a) = 50 * n + x BY ScoreIs
  <2> HIDE DEF n, x, S
  <2> QED BY <1>1, <2>1, <2>2
<1>3. top \in Int BY <1>1
<1> HIDE DEF S, top
<1>4. short \subseteq Nat /\ short # {} BY <1>2, <1>3
<1>5. PICK n \in short : \A m \in short : n <= m BY <1>4, Least
<1>6. PICK a \in D : n = top - S(a) BY <1>5
<1>7. \A b \in D : S(b) <= S(a)
  <2> SUFFICES ASSUME NEW b \in D PROVE S(b) <= S(a) OBVIOUS
  <2>1. n <= top - S(b) BY <1>5
  <2> QED BY <1>2, <1>3, <1>6, <2>1
<1> QED BY <1>7 DEF S

\* The one that is recommended does, if there is any.
LEMMA FirstOfBest ==
  ASSUME NEW infos, DOMAIN infos \subseteq Picture!Radios
  PROVE  IF DOMAIN infos = {} THEN Picture!Recommended(infos) = Picture!Nobody
         ELSE /\ Picture!Recommended(infos) \in DOMAIN infos
              /\ \A b \in DOMAIN infos :
                   Picture!Score(infos[b], Descriptions[b])
                     <= Picture!Score(infos[Picture!Recommended(infos)],
                                      Descriptions[Picture!Recommended(infos)])
<1> DEFINE S(a) == Picture!Score(infos[a], Descriptions[a])
           Good(a) == a \in DOMAIN infos /\ \A b \in DOMAIN infos : S(b) <= S(a)
           I == {i \in 1..Len(Interfaces) : Good(Interfaces[i])}
           best == IF I # {} THEN Picture!Min(I) ELSE 0
<1>1. Picture!Recommended(infos) = IF best = 0 THEN Picture!Nobody ELSE Interfaces[best]
  BY DEF Picture!Recommended, Picture!SelectInSeq
<1>2. Interfaces \in Seq(Picture!Radios) /\ Len(Interfaces) \in Nat BY PictureConstants
<1>3. I # {} => Picture!Min(I) \in I
  <2> SUFFICES ASSUME I # {} PROVE Picture!Min(I) \in I OBVIOUS
  <2>1. I \subseteq Nat BY <1>2
  <2> HIDE DEF I
  <2>2. \E n \in I : \A m \in I : n <= m BY <2>1, Least
  <2> QED BY <2>2 DEF Picture!Min
<1>4. I # {} => best \in I /\ best # 0 BY <1>2, <1>3
<1>5. CASE DOMAIN infos = {}
  <2>1. I = {} BY <1>5
  <2> QED BY <1>1, <1>5, <2>1
<1>6. CASE DOMAIN infos # {}
  <2>1. PICK a \in DOMAIN infos : \A b \in DOMAIN infos : S(b) <= S(a) BY <1>6, SomeBest
  <2>2. PICK i \in 1..Len(Interfaces) : Interfaces[i] = a
    <3>1. a \in Picture!Range(Interfaces) BY <2>1 DEF Picture!Radios
    <3> QED BY <1>2, <3>1 DEF Picture!Range
  <2> HIDE DEF S
  <2>3. I # {} BY <2>1, <2>2
  <2>4. Good(Interfaces[best]) /\ best # 0 BY <1>4, <2>3
  <2> HIDE DEF I, best
  <2>5. Picture!Recommended(infos) = Interfaces[best] BY <1>1, <2>4
  <2> QED BY <1>6, <2>4, <2>5 DEF S
<1> QED BY <1>5, <1>6

\* So none is recommended that cannot be used where one like it can.
LEMMA RecommendedIsUsable ==
  ASSUME Picture!TypeOK, NEW p \in Picture!Pictures
  PROVE  Picture!BestIsUsable(p)
<1>1. PICK tables, live, lost : p = Picture!Picture(tables, live, lost)
  BY DEF Picture!Pictures
<1>2. DOMAIN p.infos = plugged /\ p.recommended = Picture!Recommended(p.infos)
  BY <1>1 DEF Picture!Picture
<1>3. plugged \subseteq Picture!Radios BY DEF Picture!TypeOK
<1> DEFINE infos == p.infos
           best == p.recommended
<1>4. IF plugged = {} THEN best = Picture!Nobody
      ELSE /\ best \in plugged
           /\ \A b \in plugged : Picture!Score(infos[b], Descriptions[b])
                                   <= Picture!Score(infos[best], Descriptions[best])
  BY <1>2, <1>3, FirstOfBest
<1>5. plugged # {} <=> best # Picture!Nobody BY <1>3, <1>4, PictureConstants
<1>6. ASSUME NEW a \in plugged, infos[best].on = "off", infos[a].on = "on",
             infos[a].external = infos[best].external, infos[a].known = infos[best].known,
             WantedIn(Descriptions[a]) = WantedIn(Descriptions[best])
      PROVE  FALSE
  <2>1. Picture!Score(infos[best], Descriptions[best]) < Picture!Score(infos[a], Descriptions[a])
    BY <1>6, OffIsWorse
  <2>2. Picture!Score(infos[a], Descriptions[a]) <= Picture!Score(infos[best], Descriptions[best])
    BY <1>4, <1>6
  <2>3. Picture!Score(infos[a], Descriptions[a]) \in Int /\ Picture!Score(infos[best], Descriptions[best]) \in Int
    <3>1. \A i, t : 50 * Picture!Cardinality(WantedIn(t)) + Bonus(i) \in Int BY ScoreIs, WantedCount
    <3> QED BY <3>1, ScoreIs
  <2> QED BY <2>1, <2>2, <2>3
<1> QED BY <1>2, <1>5, <1>6 DEF Picture!BestIsUsable, WantedIn

(***************************************************************************)
(* What a repair has changed is seen                                       *)
(***************************************************************************)

\* The inductive invariant: what is in the cache, or about to be put there, was read
\* after the last repair.  A read that began before a repair ended is what makes it
\* necessary to speak of the reader.
RepairInv ==
  /\ floor <= moves
  /\ cache.age < Life => cache.tables.of >= floor
  /\ reader.busy => reader.tables.of >= floor

\* The types of AdapterPicture, and this, at the start.
LEMMA PictureInit == ASSUME Picture!Init PROVE Picture!TypeOK /\ RepairInv
<1>1. /\ plugged = Picture!Radios /\ on = Picture!Radios /\ joined = Picture!Nobody /\ heard = {}
      /\ moves = 0 /\ cache = [age |-> Life, tables |-> Picture!NoTables]
      /\ reader = [busy |-> FALSE, tables |-> Picture!NoTables] /\ floor = 0
  BY DEF Picture!Init
<1>2. Picture!NoTables.of = 0 BY DEF Picture!NoTables
<1>3. /\ cache = [age |-> cache.age, tables |-> cache.tables]
      /\ cache.age = Life /\ cache.tables.of = 0 /\ reader.busy = FALSE /\ reader.tables.of = 0
  BY <1>1, <1>2
<1>4. Moves \in Nat /\ Life \in Nat BY PictureConstants
<1>5. Picture!TypeOK BY <1>1, <1>3, <1>4 DEF Picture!TypeOK
<1>6. RepairInv BY <1>1, <1>3, <1>4 DEF RepairInv
<1> QED BY <1>5, <1>6

\* Whoever asks for the adapters gets tables that were read since.
LEMMA AnswersAreNew ==
  ASSUME Picture!TypeOK, RepairInv, NEW tables \in Picture!Answers
  PROVE  tables.of >= floor /\ tables.of \in 0..Moves
<1>0. moves \in Nat /\ floor \in Nat /\ moves \in 0..Moves BY PictureConstants DEF Picture!TypeOK
<1>1. CASE cache.age < Life
  BY <1>1 DEF Picture!Answers, RepairInv, Picture!TypeOK
<1>2. CASE ~(cache.age < Life)
  <2>1. tables \in {Picture!Tables, [Picture!NoTables EXCEPT !.of = moves]}
    BY <1>2 DEF Picture!Answers
  <2>2. Picture!Tables.of = moves BY DEF Picture!Tables
  <2>3. [Picture!NoTables EXCEPT !.of = moves].of = moves BY DEF Picture!NoTables
  <2>4. tables.of = moves BY <2>1, <2>2, <2>3
  <2> QED BY <1>0, <2>4 DEF RepairInv
<1> QED BY <1>1, <1>2

\* Every step keeps both.
LEMMA PictureNext ==
  ASSUME Picture!TypeOK, RepairInv, [Picture!Next]_adapterVars
  PROVE  Picture!TypeOK' /\ RepairInv'
<1>0. /\ moves \in 0..Moves /\ floor \in 0..Moves /\ cache.age \in 0..Life
      /\ cache.tables.of \in 0..Moves /\ reader.tables.of \in 0..Moves
      /\ Moves \in Nat /\ Life \in Nat /\ Life > 0
  BY PictureConstants DEF Picture!TypeOK
<1>1. CASE UNCHANGED adapterVars
  BY <1>1 DEF adapterVars, Picture!TypeOK, RepairInv
<1>2. ASSUME NEW a \in Picture!Radios, Picture!Move(a)
      PROVE  Picture!TypeOK' /\ RepairInv'
  <2>1. moves < Moves /\ moves' = moves + 1 /\ UNCHANGED <<cache, reader, floor>>
    BY <1>2 DEF Picture!Move
  <2>2. plugged' \subseteq Picture!Radios /\ on' \subseteq Picture!Radios
    BY <1>2 DEF Picture!Move, Picture!TypeOK
  <2>3. joined' \in Picture!Radios \cup {Picture!Nobody} /\ heard' \subseteq Picture!Radios \X Picture!Bands
    BY <1>2 DEF Picture!Move, Picture!TypeOK
  <2>4. moves' \in 0..Moves /\ floor' <= moves' BY <1>0, <2>1 DEF RepairInv
  <2> QED BY <2>1, <2>2, <2>3, <2>4 DEF Picture!TypeOK, RepairInv
<1>3. CASE Picture!Tick
  <2>1. cache.age < Life /\ cache' = [cache EXCEPT !.age = @ + 1]
        /\ UNCHANGED <<plugged, on, joined, heard, moves, reader, floor>>
    BY <1>3 DEF Picture!Tick, Picture!worldVars
  <2>2. cache' = [age |-> cache.age + 1, tables |-> cache.tables]
    BY <2>1 DEF Picture!TypeOK
  <2>3. cache'.age = cache.age + 1 /\ cache'.tables = cache.tables
        /\ cache' = [age |-> cache'.age, tables |-> cache'.tables]
    BY <2>2
  <2>4. cache'.age \in 0..Life BY <1>0, <2>1, <2>3
  <2>5. cache'.age < Life => cache.age < Life BY <2>1
  <2> QED BY <2>1, <2>3, <2>4, <2>5 DEF Picture!TypeOK, RepairInv
<1>4. CASE Picture!InvalidateCache
  <2>1. cache' = [cache EXCEPT !.age = Life] /\ floor' = (IF reader.busy THEN floor ELSE moves)
        /\ UNCHANGED <<plugged, on, joined, heard, moves, reader>>
    BY <1>4 DEF Picture!InvalidateCache, Picture!worldVars
  <2>2. cache' = [age |-> Life, tables |-> cache.tables] BY <2>1 DEF Picture!TypeOK
  <2>3. cache'.age = Life /\ cache'.tables = cache.tables
        /\ cache' = [age |-> cache'.age, tables |-> cache'.tables]
    BY <2>2
  <2>4. cache'.age \in 0..Life /\ ~(cache'.age < Life) BY <1>0, <2>3
  <2>5. floor' \in 0..Moves /\ floor' <= moves' BY <1>0, <2>1 DEF RepairInv
  <2>6. reader'.busy => reader'.tables.of >= floor' BY <2>1 DEF RepairInv
  <2> QED BY <2>1, <2>3, <2>4, <2>5, <2>6 DEF Picture!TypeOK, RepairInv
<1>5. CASE Picture!ReadBegins
  <2>1. reader' = [busy |-> TRUE, tables |-> Picture!Tables]
        /\ UNCHANGED <<plugged, on, joined, heard, moves, cache, floor>>
    BY <1>5 DEF Picture!ReadBegins, Picture!worldVars
  <2>2. reader'.busy = TRUE /\ reader'.tables.of = moves BY <2>1 DEF Picture!Tables
  <2>3. moves >= floor BY <1>0 DEF RepairInv
  <2> QED BY <1>0, <2>1, <2>2, <2>3 DEF Picture!TypeOK, RepairInv
<1>6. CASE Picture!ReadEnds
  <2>1. reader.busy /\ cache' = [age |-> 0, tables |-> reader.tables]
        /\ reader' = [busy |-> FALSE, tables |-> Picture!NoTables]
        /\ UNCHANGED <<plugged, on, joined, heard, moves, floor>>
    BY <1>6 DEF Picture!ReadEnds, Picture!worldVars
  <2>2. cache'.age = 0 /\ cache'.tables = reader.tables
        /\ cache' = [age |-> cache'.age, tables |-> cache'.tables]
    BY <2>1
  <2>3. reader'.busy = FALSE /\ reader'.tables.of = 0 BY <2>1 DEF Picture!NoTables
  <2>4. 0 \in 0..Life /\ 0 \in 0..Moves BY <1>0
  <2>5. cache'.tables.of >= floor' BY <2>1, <2>2 DEF RepairInv
  <2> QED BY <1>0, <2>1, <2>2, <2>3, <2>4, <2>5 DEF Picture!TypeOK, RepairInv
<1>7. CASE Picture!EnumerateAdapters
  <2>1. PICK tables \in Picture!Answers : cache' = [age |-> 0, tables |-> tables]
    BY <1>7 DEF Picture!EnumerateAdapters
  <2>2. UNCHANGED <<plugged, on, joined, heard, moves, reader, floor>>
    BY <1>7 DEF Picture!EnumerateAdapters, Picture!worldVars
  <2>3. tables.of >= floor /\ tables.of \in 0..Moves BY AnswersAreNew
  <2>4. cache'.age = 0 /\ cache'.tables = tables
        /\ cache' = [age |-> cache'.age, tables |-> cache'.tables]
    BY <2>1
  <2>5. 0 \in 0..Life BY <1>0
  <2> QED BY <2>2, <2>3, <2>4, <2>5 DEF Picture!TypeOK, RepairInv
<1> QED BY <1>1, <1>2, <1>3, <1>4, <1>5, <1>6, <1>7 DEF Picture!Next

\* A step of the whole is one of AdapterPicture, or leaves it alone.
LEMMA PictureMove == ASSUME [Next]_vars PROVE [Picture!Next]_adapterVars
BY DEF Next, vars

\* And both make the picture true.
LEMMA PictureShows ==
  ASSUME Picture!TypeOK, RepairInv
  PROVE  PictureIsTrue
<1> SUFFICES ASSUME NEW p \in Picture!Pictures
             PROVE  Picture!BestIsUsable(p) /\ Picture!RepairShows(p)
  BY DEF PictureIsTrue
<1>1. PICK tables, live, lost : tables \in Picture!Answers /\ p = Picture!Picture(tables, live, lost)
  <2>1. \E tables \in Picture!Answers : \E live, lost : p = Picture!Picture(tables, live, lost)
    BY DEF Picture!Pictures
  <2> QED BY ONLY <2>1
<1>2. p.tables = tables BY <1>1 DEF Picture!Picture
<1>3. Picture!RepairShows(p) BY <1>1, <1>2, AnswersAreNew DEF Picture!RepairShows
<1> QED BY <1>3, RecommendedIsUsable

\* The adapter that is recommended can be used, if one like it can, and what was changed
\* before a repair ended is seen after it (adapters.py: the cache of the tables, its
\* invalidation, the scores), for all adapters, tables and moments.
THEOREM PictureTrue == Spec => []PictureIsTrue
<1> DEFINE Inv == Picture!TypeOK /\ RepairInv
<1>1. Init => Inv BY PictureInit DEF Init
<1>2. Inv /\ [Next]_vars => Inv' BY PictureMove, PictureNext
<1>3. Inv => PictureIsTrue BY PictureShows
<1> QED BY <1>1, <1>2, <1>3, PTL DEF Spec

(***************************************************************************)
(* Which release is newer                                                  *)
(***************************************************************************)

\* A function on 1..n is a sequence of length n.
LEMMA FunctionIsSeq ==
  ASSUME NEW S, NEW n \in Nat, NEW f \in [1..n -> S]
  PROVE  f \in Seq(S) /\ Len(f) = n
OBVIOUS

\* What the order of two lists comes to: the one begins the other, or the first
\* difference decides.
LEMMA BeforeIs ==
  ASSUME NEW s \in Seq(Int), NEW t \in Seq(Int)
  PROVE  Releases!Before(s, t) <=>
           \/ Len(s) < Len(t) /\ \A j \in 1..Len(s) : s[j] = t[j]
           \/ \E i \in 1..Len(s) : /\ i <= Len(t) /\ s[i] < t[i]
                                   /\ \A j \in 1..(i - 1) : s[j] = t[j]
<1>1. Len(s) \in Nat /\ Len(t) \in Nat /\ DOMAIN s = 1..Len(s) /\ DOMAIN t = 1..Len(t) OBVIOUS
<1>2. ASSUME NEW u \in Seq(Int), NEW n \in 0..Len(u)
      PROVE  /\ SubSeq(u, 1, n) \in Seq(Int) /\ Len(SubSeq(u, 1, n)) = n
             /\ \A j \in 1..n : SubSeq(u, 1, n)[j] = u[j]
  <2>1. n \in Nat /\ n <= Len(u) /\ Len(u) \in Nat OBVIOUS
  <2> QED BY <2>1
<1>3. Len(s) < Len(t) => (SubSeq(t, 1, Len(s)) = s <=> \A j \in 1..Len(s) : s[j] = t[j])
  <2> SUFFICES ASSUME Len(s) < Len(t)
               PROVE  SubSeq(t, 1, Len(s)) = s <=> \A j \in 1..Len(s) : s[j] = t[j]
    OBVIOUS
  <2> DEFINE u == SubSeq(t, 1, Len(s))
  <2>0. Len(s) \in 0..Len(t) BY <1>1
  <2>1. u \in Seq(Int) /\ Len(u) = Len(s) /\ \A j \in 1..Len(s) : u[j] = t[j]
    BY <1>2, <2>0
  <2> HIDE DEF u
  <2>2. u = s => \A j \in 1..Len(s) : s[j] = t[j] BY <2>1
  <2>3. ASSUME \A j \in 1..Len(s) : s[j] = t[j] PROVE u = s
    BY <2>1, <2>3, SeqEqual
  <2> QED BY <2>2, <2>3 DEF u
<1>4. ASSUME NEW i \in 1..Len(s), i <= Len(t)
      PROVE  SubSeq(s, 1, i - 1) = SubSeq(t, 1, i - 1) <=> \A j \in 1..(i - 1) : s[j] = t[j]
  <2> DEFINE u == SubSeq(s, 1, i - 1)
             v == SubSeq(t, 1, i - 1)
  <2>0. (i - 1) \in 0..Len(s) /\ (i - 1) \in 0..Len(t) BY <1>1, <1>4
  <2>1. u \in Seq(Int) /\ Len(u) = i - 1 /\ \A j \in 1..(i - 1) : u[j] = s[j]
    BY <1>2, <2>0
  <2>2. v \in Seq(Int) /\ Len(v) = i - 1 /\ \A j \in 1..(i - 1) : v[j] = t[j]
    BY <1>2, <2>0
  <2> HIDE DEF u, v
  <2>3. u = v => \A j \in 1..(i - 1) : s[j] = t[j] BY <2>1, <2>2
  <2>4. ASSUME \A j \in 1..(i - 1) : s[j] = t[j] PROVE u = v
    BY <2>1, <2>2, <2>4, SeqEqual
  <2> QED BY <2>3, <2>4 DEF u, v
<1>5. \A i : i \in (DOMAIN s) \cap (DOMAIN t) <=> i \in 1..Len(s) /\ i <= Len(t) BY <1>1
<1> QED BY <1>3, <1>4, <1>5, Zenon DEF Releases!Before

\* It does not lead back,
LEMMA BeforeNotAfter ==
  ASSUME NEW s \in Seq(Int), NEW t \in Seq(Int), Releases!Before(s, t)
  PROVE  ~Releases!Before(t, s)
<1> SUFFICES ASSUME Releases!Before(t, s) PROVE FALSE OBVIOUS
<1>0. Len(s) \in Nat /\ Len(t) \in Nat /\ (\A i \in 1..Len(s) : s[i] \in Int) /\ (\A i \in 1..Len(t) : t[i] \in Int)
  OBVIOUS
<1>1. \/ Len(s) < Len(t) /\ \A j \in 1..Len(s) : s[j] = t[j]
      \/ \E i \in 1..Len(s) : i <= Len(t) /\ s[i] < t[i] /\ \A j \in 1..(i - 1) : s[j] = t[j]
  BY BeforeIs
<1>2. \/ Len(t) < Len(s) /\ \A j \in 1..Len(t) : t[j] = s[j]
      \/ \E i \in 1..Len(t) : i <= Len(s) /\ t[i] < s[i] /\ \A j \in 1..(i - 1) : t[j] = s[j]
  BY BeforeIs
<1> QED BY <1>0, <1>1, <1>2

\* it compares any two,
LEMMA BeforeOrAfter ==
  ASSUME NEW s \in Seq(Int), NEW t \in Seq(Int), s # t
  PROVE  Releases!Before(s, t) \/ Releases!Before(t, s)
<1>0. Len(s) \in Nat /\ Len(t) \in Nat /\ (\A i \in 1..Len(s) : s[i] \in Int) /\ (\A i \in 1..Len(t) : t[i] \in Int)
  OBVIOUS
<1> DEFINE D == {i \in 1..Len(s) : i <= Len(t) /\ s[i] # t[i]}
<1>1. CASE D # {}
  <2>1. D \subseteq Nat BY <1>0
  <2>2. PICK i \in D : \A j \in D : i <= j BY <1>1, <2>1, Least
  <2>3. ASSUME NEW j \in 1..(i - 1) PROVE s[j] = t[j]
    <3>1. j \in 1..Len(s) /\ j <= Len(t) /\ j < i /\ j \in Nat BY <1>0
    <3>2. j \notin D BY <1>0, <2>2, <3>1
    <3> QED BY <3>1, <3>2
  <2>4. i \in 1..Len(s) /\ i \in 1..Len(t) /\ i <= Len(s) /\ i <= Len(t) BY <1>0
  <2>5. s[i] < t[i] \/ t[i] < s[i] BY <1>0, <2>4
  <2> QED BY <2>3, <2>4, <2>5, BeforeIs
<1>2. CASE D = {}
  <2>1. \A j \in 1..Len(s) : j <= Len(t) => s[j] = t[j] BY <1>2
  <2>2. Len(s) # Len(t)
    <3> SUFFICES ASSUME Len(s) = Len(t) PROVE FALSE OBVIOUS
    <3>1. s = t BY <1>0, <2>1, SeqEqual
    <3> QED BY <3>1
  <2>3. CASE Len(s) < Len(t)
    <3>1. \A j \in 1..Len(s) : s[j] = t[j] BY <1>0, <2>1, <2>3
    <3> QED BY <2>3, <3>1, BeforeIs
  <2>4. CASE Len(t) < Len(s)
    <3>1. \A j \in 1..Len(t) : t[j] = s[j] BY <1>0, <2>1, <2>4
    <3> QED BY <2>4, <3>1, BeforeIs
  <2> QED BY <1>0, <2>2, <2>3, <2>4
<1> QED BY <1>1, <1>2

\* and it is transitive.
LEMMA BeforeBefore ==
  ASSUME NEW s \in Seq(Int), NEW t \in Seq(Int), NEW u \in Seq(Int),
         Releases!Before(s, t), Releases!Before(t, u)
  PROVE  Releases!Before(s, u)
<1>0. /\ Len(s) \in Nat /\ Len(t) \in Nat /\ Len(u) \in Nat
      /\ (\A i \in 1..Len(s) : s[i] \in Int) /\ (\A i \in 1..Len(t) : t[i] \in Int)
      /\ (\A i \in 1..Len(u) : u[i] \in Int)
  OBVIOUS
<1>1. CASE Len(s) < Len(t) /\ \A j \in 1..Len(s) : s[j] = t[j]
  <2>1. CASE Len(t) < Len(u) /\ \A j \in 1..Len(t) : t[j] = u[j]
    <3>1. Len(s) < Len(u) /\ \A j \in 1..Len(s) : s[j] = u[j] BY <1>0, <1>1, <2>1
    <3> QED BY <3>1, BeforeIs
  <2>2. ASSUME NEW i \in 1..Len(t), i <= Len(u), t[i] < u[i], \A j \in 1..(i - 1) : t[j] = u[j]
        PROVE  Releases!Before(s, u)
    <3>1. CASE i <= Len(s)
      <4>1. i \in 1..Len(s) /\ s[i] < u[i] /\ \A j \in 1..(i - 1) : s[j] = u[j]
        BY <1>0, <1>1, <2>2, <3>1
      <4> QED BY <2>2, <4>1, BeforeIs
    <3>2. CASE Len(s) < i
      <4>1. Len(s) < Len(u) /\ \A j \in 1..Len(s) : s[j] = u[j] BY <1>0, <1>1, <2>2, <3>2
      <4> QED BY <4>1, BeforeIs
    <3> QED BY <1>0, <3>1, <3>2
  <2> QED BY <2>1, <2>2, BeforeIs
<1>2. ASSUME NEW k \in 1..Len(s), k <= Len(t), s[k] < t[k], \A j \in 1..(k - 1) : s[j] = t[j]
      PROVE  Releases!Before(s, u)
  <2>1. CASE Len(t) < Len(u) /\ \A j \in 1..Len(t) : t[j] = u[j]
    <3>1. k <= Len(u) /\ s[k] < u[k] /\ \A j \in 1..(k - 1) : s[j] = u[j] BY <1>0, <1>2, <2>1
    <3> QED BY <1>2, <3>1, BeforeIs
  <2>2. ASSUME NEW i \in 1..Len(t), i <= Len(u), t[i] < u[i], \A j \in 1..(i - 1) : t[j] = u[j]
        PROVE  Releases!Before(s, u)
    <3>1. CASE i < k
      <4>1. i \in 1..Len(s) /\ s[i] < u[i] /\ \A j \in 1..(i - 1) : s[j] = u[j]
        BY <1>0, <1>2, <2>2, <3>1
      <4> QED BY <2>2, <4>1, BeforeIs
    <3>2. CASE k <= i
      <4>0. s[k] \in Int /\ t[k] \in Int /\ u[k] \in Int /\ k <= Len(u) BY <1>0, <1>2, <2>2, <3>2
      <4>1. t[k] <= u[k]
        <5>1. CASE k = i BY <2>2, <4>0, <5>1
        <5>2. CASE k < i
          <6>1. k \in 1..(i - 1) BY <1>0, <5>2
          <6> QED BY <2>2, <4>0, <6>1
        <5> QED BY <1>0, <3>2, <5>1, <5>2
      <4>2. s[k] < u[k] BY <1>2, <4>0, <4>1
      <4>3. \A j \in 1..(k - 1) : s[j] = u[j] BY <1>0, <1>2, <2>2, <3>2
      <4> QED BY <4>0, <4>2, <4>3, BeforeIs
    <3> QED BY <1>0, <3>1, <3>2
  <2> QED BY <2>1, <2>2, BeforeIs
<1> QED BY <1>1, <1>2, BeforeIs

\* A tag is parsed to two lists of numbers.
LEMMA TagsAreParsed ==
  ASSUME NEW a \in Tags
  PROVE  Releases!ParseVersion(a).key \in Seq(Int) /\ Releases!ParseVersion(a).rest \in Seq(Int)
<1>1. Releases!TagOK(a) BY PartsAreWellFormed
<1>2. CASE a.form = "blank"
  <2>1. Releases!ParseVersion(a) = [key |-> <<-1, 0, 0, 1>>, rest |-> <<>>]
    BY <1>2 DEF Releases!ParseVersion
  <2> QED BY <2>1
<1>3. CASE a.form = "odd"
  <2>1. Releases!ParseVersion(a) = [key |-> <<0, 0, 0, 1>>, rest |-> a.rest]
    BY <1>3 DEF Releases!ParseVersion
  <2>2. a.rest \in Seq(Int) BY <1>1 DEF Releases!TagOK
  <2> QED BY <2>1, <2>2
<1>4. CASE a.form = "version"
  <2>1. /\ Releases!ParseVersion(a).key = a.numbers \o <<IF a.rest = <<>> THEN 1 ELSE 0>>
        /\ Releases!ParseVersion(a).rest = a.rest
    BY <1>4 DEF Releases!ParseVersion
  <2>2. a.rest \in Seq(Int) /\ a.numbers \in [1..3 -> Int] BY <1>1, <1>4 DEF Releases!TagOK
  <2>3. a.numbers \in Seq(Int) BY <2>2, FunctionIsSeq
  <2> QED BY <2>1, <2>2, <2>3
<1> QED BY <1>1, <1>2, <1>3, <1>4 DEF Releases!TagOK

\* A list with one more at its end, again.
LEMMA OneMore ==
  ASSUME NEW s \in Seq(Int), NEW x \in Int
  PROVE  /\ Len(s \o <<x>>) = Len(s) + 1 /\ (s \o <<x>>)[Len(s) + 1] = x
         /\ \A i \in 1..Len(s) : (s \o <<x>>)[i] = s[i]
OBVIOUS

\* The key of a version: three numbers, and 1 for a release that is no preview.
LEMMA VersionKey ==
  ASSUME NEW a \in Tags, a.form = "version"
  PROVE  /\ Len(Releases!ParseVersion(a).key) = 4 /\ Releases!ParseVersion(a).rest = a.rest
         /\ \A i \in 1..3 : Releases!ParseVersion(a).key[i] = a.numbers[i] /\ a.numbers[i] \in Nat
         /\ Releases!ParseVersion(a).key[4] = IF a.rest = <<>> THEN 1 ELSE 0
<1>1. Releases!TagOK(a) BY PartsAreWellFormed
<1>2. /\ Releases!ParseVersion(a).key = a.numbers \o <<IF a.rest = <<>> THEN 1 ELSE 0>>
      /\ Releases!ParseVersion(a).rest = a.rest
  BY DEF Releases!ParseVersion
<1>3. a.numbers \in [1..3 -> Nat] BY <1>1 DEF Releases!TagOK
<1> DEFINE numbers == a.numbers
           x == IF a.rest = <<>> THEN 1 ELSE 0
           key == Releases!ParseVersion(a).key
<1>4. numbers \in [1..3 -> Int] /\ \A i \in 1..3 : numbers[i] \in Nat BY <1>3
<1>5. x \in Int OBVIOUS
<1>6. key = numbers \o <<x>> BY <1>2
<1> HIDE DEF numbers, x, key
<1>7. numbers \in Seq(Int) /\ Len(numbers) = 3 BY <1>4, FunctionIsSeq
<1>8. Len(key) = 4 /\ key[4] = x /\ \A i \in 1..3 : key[i] = numbers[i]
  <2>1. Len(key) = Len(numbers) + 1 /\ key[Len(numbers) + 1] = x
        /\ \A i \in 1..Len(numbers) : key[i] = numbers[i]
    BY <1>5, <1>6, <1>7, OneMore, Zenon
  <2> QED BY <1>7, <2>1
<1> QED BY <1>2, <1>4, <1>8 DEF numbers, x, key

\* Of two tags whatever, which is newer agrees with the versions they stand for and does
\* not lead back (updater.parse_version, is_newer).
THEOREM NewerIsAnOrder ==
  /\ \A a, b \in Tags : Releases!OrderAgrees(a, b)
  /\ \A a, b, c \in Tags : Releases!NewerIsTransitive(a, b, c)
<1>1. ASSUME NEW a \in Tags, NEW b \in Tags PROVE Releases!OrderAgrees(a, b)
  <2> DEFINE p == Releases!ParseVersion(a)
             q == Releases!ParseVersion(b)
  <2>0. p.key \in Seq(Int) /\ p.rest \in Seq(Int) /\ q.key \in Seq(Int) /\ q.rest \in Seq(Int)
    BY TagsAreParsed
  <2>1. /\ Releases!IsNewer(a, b) <=> Releases!Before(q.key, p.key) \/ (p.key = q.key /\ Releases!Before(q.rest, p.rest))
        /\ Releases!IsNewer(b, a) <=> Releases!Before(p.key, q.key) \/ (q.key = p.key /\ Releases!Before(p.rest, q.rest))
    BY DEF Releases!IsNewer
  <2>2. p = [key |-> p.key, rest |-> p.rest] /\ q = [key |-> q.key, rest |-> q.rest]
    <3>1. ASSUME NEW t \in Tags
          PROVE  Releases!ParseVersion(t) = [key |-> Releases!ParseVersion(t).key, rest |-> Releases!ParseVersion(t).rest]
      <4>1. Releases!TagOK(t) BY PartsAreWellFormed
      <4>2. t.form \in {"blank", "odd", "version"} BY <4>1 DEF Releases!TagOK
      <4> QED BY <4>2 DEF Releases!ParseVersion
    <3> QED BY <3>1
  <2>3. ~(Releases!IsNewer(a, b) /\ Releases!IsNewer(b, a))
    <3> HIDE DEF p, q
    <3> QED BY <2>0, <2>1, BeforeNotAfter
  <2>4. Releases!IsNewer(a, b) \/ Releases!IsNewer(b, a) \/ p = q
    <3> HIDE DEF p, q
    <3> QED BY <2>0, <2>1, <2>2, BeforeOrAfter
  <2>5. ASSUME a.form = "version", b.form = "version"
        PROVE  /\ Releases!Above(a, b) => Releases!IsNewer(a, b)
               /\ a.numbers = b.numbers /\ a.rest = <<>> /\ b.rest # <<>> => Releases!IsNewer(a, b)
    <3>1. /\ Len(p.key) = 4 /\ \A i \in 1..3 : p.key[i] = a.numbers[i] /\ a.numbers[i] \in Nat
          /\ p.key[4] = IF a.rest = <<>> THEN 1 ELSE 0
      BY <2>5, VersionKey
    <3>2. /\ Len(q.key) = 4 /\ \A i \in 1..3 : q.key[i] = b.numbers[i] /\ b.numbers[i] \in Nat
          /\ q.key[4] = IF b.rest = <<>> THEN 1 ELSE 0
      BY <2>5, VersionKey
    <3> HIDE DEF p, q
    <3>3. ASSUME Releases!Above(a, b) PROVE Releases!IsNewer(a, b)
      <4>1. PICK i \in 1..3 : a.numbers[i] > b.numbers[i] /\ \A j \in 1..(i - 1) : a.numbers[j] = b.numbers[j]
        BY <3>3 DEF Releases!Above
      <4>2. i \in 1..Len(q.key) /\ i <= Len(p.key) /\ q.key[i] < p.key[i]
        BY <3>1, <3>2, <4>1
      <4>3. \A j \in 1..(i - 1) : q.key[j] = p.key[j] BY <3>1, <3>2, <4>1
      <4>4. Releases!Before(q.key, p.key) BY <2>0, <4>2, <4>3, BeforeIs
      <4> QED BY <2>1, <4>4
    <3>4. ASSUME a.numbers = b.numbers, a.rest = <<>>, b.rest # <<>> PROVE Releases!IsNewer(a, b)
      <4>1. 4 \in 1..Len(q.key) /\ 4 <= Len(p.key) /\ q.key[4] < p.key[4] BY <3>1, <3>2, <3>4
      <4>2. \A j \in 1..(4 - 1) : q.key[j] = p.key[j] BY <3>1, <3>2, <3>4
      <4>3. Releases!Before(q.key, p.key) BY <2>0, <4>1, <4>2, BeforeIs
      <4> QED BY <2>1, <4>3
    <3> QED BY <3>3, <3>4
  <2> QED BY <2>3, <2>4, <2>5 DEF Releases!OrderAgrees
<1>2. ASSUME NEW a \in Tags, NEW b \in Tags, NEW c \in Tags PROVE Releases!NewerIsTransitive(a, b, c)
  <2> DEFINE p == Releases!ParseVersion(a)
             q == Releases!ParseVersion(b)
             r == Releases!ParseVersion(c)
  <2>0. p.key \in Seq(Int) /\ p.rest \in Seq(Int) /\ q.key \in Seq(Int) /\ q.rest \in Seq(Int)
        /\ r.key \in Seq(Int) /\ r.rest \in Seq(Int)
    BY TagsAreParsed
  <2>1. /\ Releases!IsNewer(a, b) <=> Releases!Before(q.key, p.key) \/ (p.key = q.key /\ Releases!Before(q.rest, p.rest))
        /\ Releases!IsNewer(b, c) <=> Releases!Before(r.key, q.key) \/ (q.key = r.key /\ Releases!Before(r.rest, q.rest))
        /\ Releases!IsNewer(a, c) <=> Releases!Before(r.key, p.key) \/ (p.key = r.key /\ Releases!Before(r.rest, p.rest))
    BY DEF Releases!IsNewer
  <2> HIDE DEF p, q, r
  <2>2. Releases!IsNewer(a, b) /\ Releases!IsNewer(b, c) => Releases!IsNewer(a, c)
    BY <2>0, <2>1, BeforeBefore
  <2> QED BY <2>2 DEF Releases!NewerIsTransitive
<1> QED BY <1>1, <1>2

\* Of the assets of a release, however many, one that can be put in place of the program
\* is picked, where there is one (updater._pick_asset).
THEOREM AssetsAreRunnable ==
  ASSUME NEW n \in Nat, NEW assets \in [1..n -> {"own", "exe", "zip", "text"}]
  PROVE  Releases!AssetAgrees(assets)
<1> DEFINE Of(kinds) == {i \in DOMAIN assets : assets[i] \in kinds}
           m == Releases!PickAsset(assets)
<1>1. ASSUME NEW kinds, Of(kinds) # {} PROVE Releases!Min(Of(kinds)) \in Of(kinds)
  <2>1. Of(kinds) \subseteq Nat OBVIOUS
  <2>2. PICK i \in Of(kinds) : \A j \in Of(kinds) : i <= j BY <1>1, <2>1, Least
  <2> HIDE DEF Of
  <2> QED BY <2>2 DEF Releases!Min
<1>2. m = CASE Of({"own"}) # {} -> Releases!Min(Of({"own"}))
            [] Of({"own"}) = {} /\ Of({"exe"}) # {} -> Releases!Min(Of({"exe"}))
            [] Of({"own", "exe"}) = {} /\ Of({"zip"}) # {} -> Releases!Min(Of({"zip"}))
            [] OTHER -> 0
  BY DEF Releases!PickAsset
<1>3. Of({"own", "exe"}) = {} <=> Of({"own"}) = {} /\ Of({"exe"}) = {} OBVIOUS
<1>4. 0 \notin DOMAIN assets OBVIOUS
<1>5. CASE Of({"own"}) # {}
  <2>1. m = Releases!Min(Of({"own"}))
    <3> HIDE DEF Of, m
    <3> QED BY <1>2, <1>3, <1>5
  <2>2. m \in Of({"own"}) BY <1>1, <1>5, <2>1
  <2> HIDE DEF m
  <2> QED BY <1>4, <1>5, <2>2 DEF Releases!AssetAgrees, m
<1>6. CASE Of({"own"}) = {} /\ Of({"exe"}) # {}
  <2>1. m = Releases!Min(Of({"exe"}))
    <3> HIDE DEF Of, m
    <3> QED BY <1>2, <1>3, <1>6
  <2>2. m \in Of({"exe"})
    <3> HIDE DEF Of, m
    <3> QED BY <1>1, <1>6, <2>1
  <2> HIDE DEF m
  <2> QED BY <1>4, <1>6, <2>2 DEF Releases!AssetAgrees, m
<1>7. CASE Of({"own", "exe"}) = {} /\ Of({"zip"}) # {}
  <2>1. m = Releases!Min(Of({"zip"}))
    <3> HIDE DEF Of, m
    <3> QED BY <1>2, <1>3, <1>7
  <2>2. m \in Of({"zip"})
    <3> HIDE DEF Of, m
    <3> QED BY <1>1, <1>7, <2>1
  <2> HIDE DEF m
  <2> QED BY <1>4, <1>7, <2>2 DEF Releases!AssetAgrees, m
<1>8. CASE Of({"own", "exe"}) = {} /\ Of({"zip"}) = {}
  <2>1. m = 0
    <3> HIDE DEF Of, m
    <3> QED BY <1>2, <1>3, <1>8
  <2> HIDE DEF m
  <2> QED BY <1>8, <2>1 DEF Releases!AssetAgrees, m
<1> QED BY <1>3, <1>5, <1>6, <1>7, <1>8

\* Both, as the runs check them.
THEOREM ReleasesOrdered == ReleasesAgree
<1>1. ASSUME NEW n \in 0..MaxAssets, NEW assets \in [1..n -> {"own", "exe", "zip", "text"}]
      PROVE  Releases!AssetAgrees(assets)
  <2>1. n \in Nat BY PartsAreWellFormed
  <2> QED BY <2>1, AssetsAreRunnable
<1> QED BY <1>1, NewerIsAnOrder DEF ReleasesAgree

(***************************************************************************)
(* What is diagnosed                                                       *)
(***************************************************************************)

\* What a machine may have found of it.
LEMMA MachineFacts ==
  ASSUME NEW m \in Clinic!Machines
  PROVE  /\ m.library \in {"loaded", "unusable"}
         /\ m.adapters \in {"external", "another", "built in", "off", "broken", "none", "no answer"}
<1> DEFINE F == {"system", "runtime", "checkout", "packages", "place", "service", "library", "adapters",
                 "user", "interval", "database", "disk", "lan", "vendors", "gps", "updates"}
<1>1. DOMAIN Clinic!Facts = F BY DEF Clinic!Facts
<1>2. PICK a \in Clinic!Found, b \in Clinic!Found :
        m = [Clinic!Well EXCEPT ![a[1]] = Clinic!Facts[a[1]][a[2]], ![b[1]] = Clinic!Facts[b[1]][b[2]]]
  BY DEF Clinic!Machines
<1>3. /\ a[1] \in F /\ a[2] \in DOMAIN Clinic!Facts[a[1]]
      /\ b[1] \in F /\ b[2] \in DOMAIN Clinic!Facts[b[1]]
  BY <1>1 DEF Clinic!Found
<1>4. DOMAIN Clinic!Well = F /\ \A f \in F : Clinic!Well[f] = Clinic!Facts[f][1]
  BY <1>1 DEF Clinic!Well
<1> HIDE DEF F
<1>5. ASSUME NEW f \in F, 1 \in DOMAIN Clinic!Facts[f]
      PROVE  \E k \in DOMAIN Clinic!Facts[f] : m[f] = Clinic!Facts[f][k]
  BY <1>2, <1>3, <1>4, <1>5
<1>6. Clinic!Facts["library"] = <<"loaded", "unusable">> BY DEF Clinic!Facts
<1>7. Clinic!Facts["adapters"] = <<"external", "another", "built in", "off", "broken", "none", "no answer">>
  BY DEF Clinic!Facts
<1> DEFINE T == Clinic!Facts["adapters"]
           U == <<"external", "another", "built in", "off", "broken", "none", "no answer">>
<1>13. DOMAIN U = 1..7 OBVIOUS
<1>14. /\ U[1] = "external" /\ U[2] = "another" /\ U[3] = "built in" /\ U[4] = "off"
       /\ U[5] = "broken" /\ U[6] = "none" /\ U[7] = "no answer"
  OBVIOUS
<1>15. T = U BY <1>7
<1> HIDE DEF T, U
<1>8. "library" \in F /\ "adapters" \in F BY DEF F
<1>9. \E k \in DOMAIN Clinic!Facts["library"] : m["library"] = Clinic!Facts["library"][k]
  BY <1>5, <1>6, <1>8
<1>10. \E k \in 1..7 : m["adapters"] = T[k]
  <2>1. DOMAIN T = 1..7 /\ 1 \in DOMAIN T BY <1>13, <1>15
  <2> QED BY <1>5, <1>8, <2>1 DEF T
<1>11. m["library"] \in {"loaded", "unusable"} BY <1>6, <1>9
<1>12. m["adapters"] \in {"external", "another", "built in", "off", "broken", "none", "no answer"}
  <2>1. \A k \in 1..7 : k = 1 \/ k = 2 \/ k = 3 \/ k = 4 \/ k = 5 \/ k = 6 \/ k = 7 OBVIOUS
  <2> QED BY <1>10, <1>14, <1>15, <2>1
<1> QED BY <1>11, <1>12

\* A machine is healthy when none of the checks fails.
LEMMA HealthyIs ==
  ASSUME NEW m
  PROVE  Clinic!Healthy(m) <=>
           /\ Clinic!CheckPlatform(m) # "fail" /\ Clinic!CheckPython(m) # "fail"
           /\ Clinic!CheckDependencies(m) # "fail" /\ Clinic!CheckInstall(m) # "fail"
           /\ Clinic!CheckService(m) # "fail" /\ Clinic!CheckLibrary(m) # "fail"
           /\ Clinic!CheckAdapters(m) # "fail" /\ Clinic!CheckAdmin(m) # "fail"
           /\ Clinic!CheckScanRate(m) # "fail" /\ Clinic!CheckDatabase(m) # "fail"
           /\ Clinic!CheckDisk(m) # "fail" /\ Clinic!CheckPort(m) # "fail"
           /\ Clinic!CheckOui(m) # "fail" /\ Clinic!CheckGps(m) # "fail"
           /\ Clinic!CheckUpdates(m) # "fail"
BY DEF Clinic!Healthy, Clinic!Report

\* A machine is called healthy exactly when a scan can be made on it and kept, or it is one
\* on which none is ever made, and no part it needs is broken: no warning and no skipped
\* check hides a failure (services/doctor.py, run_all; the exit code of --doctor).
THEOREM DiagnosesAgree == \A m \in Clinic!Machines : Clinic!DiagnosisAgrees(m)
<1> SUFFICES ASSUME NEW m \in Clinic!Machines PROVE Clinic!DiagnosisAgrees(m) OBVIOUS
<1>1. /\ Clinic!CheckPlatform(m) # "fail" /\ Clinic!CheckInstall(m) # "fail"
      /\ Clinic!CheckAdmin(m) # "fail" /\ Clinic!CheckScanRate(m) # "fail"
      /\ Clinic!CheckPort(m) # "fail" /\ Clinic!CheckOui(m) # "fail" /\ Clinic!CheckUpdates(m) # "fail"
  BY DEF Clinic!CheckPlatform, Clinic!CheckInstall, Clinic!CheckAdmin, Clinic!CheckScanRate,
    Clinic!CheckPort, Clinic!CheckOui, Clinic!CheckUpdates, Clinic!Graded
<1>2. /\ Clinic!CheckPython(m) # "fail" <=> m.runtime # "old"
      /\ Clinic!CheckDependencies(m) # "fail" <=> m.packages # "no interface"
      /\ Clinic!CheckDatabase(m) # "fail" <=> m.database # "unreachable"
      /\ Clinic!CheckDisk(m) # "fail" <=> m.disk # "full"
      /\ Clinic!CheckGps(m) # "fail" <=> m.gps \notin {"no support", "stopped"}
  BY DEF Clinic!CheckPython, Clinic!CheckDependencies, Clinic!CheckDatabase, Clinic!CheckDisk,
    Clinic!CheckGps, Clinic!Graded
<1>3. /\ Clinic!CheckService(m) # "fail" <=> Clinic!OffWindows(m) \/ m.service \notin {"stopped", "missing"}
      /\ Clinic!CheckLibrary(m) # "fail" <=> Clinic!OffWindows(m) \/ m.library # "unusable"
      /\ Clinic!CheckAdapters(m) # "fail" <=>
           \/ Clinic!OffWindows(m) \/ m.library = "unusable"
           \/ m.adapters \notin {"no answer", "broken", "none", "off"}
  BY DEF Clinic!CheckService, Clinic!CheckLibrary, Clinic!CheckAdapters, Clinic!Graded
<1>4. /\ m.library \in {"loaded", "unusable"}
      /\ m.adapters \in {"external", "another", "built in", "off", "broken", "none", "no answer"}
  BY MachineFacts
<1> QED BY <1>1, <1>2, <1>3, <1>4, HealthyIs
  DEF Clinic!DiagnosisAgrees, Clinic!CanScan, Clinic!CanKeep, Clinic!OffWindows

(***************************************************************************)
(* What a survey reports                                                   *)
(***************************************************************************)

\* Cardinality and IsFiniteSet of SurveyReport are those of the standard module.
LEMMA SurveySizes ==
  ASSUME NEW S
  PROVE  /\ Survey!Cardinality(S) = Cardinality(S)
         /\ Survey!IsFiniteSet(S) <=> IsFiniteSet(S)
BY DEF Survey!Cardinality, Survey!IsFiniteSet, Cardinality, IsFiniteSet

\* A sum of natural numbers, as a recursive function on the sets they are taken over.
\* That there is one is an induction over the size of those sets.
LEMMA SumRecursion ==
  ASSUME NEW w, IsFiniteSet(DOMAIN w), \A x \in DOMAIN w : w[x] \in Nat
  PROVE  \E f \in [SUBSET DOMAIN w -> Nat] :
           \A s \in SUBSET DOMAIN w :
             f[s] = IF s = {} THEN 0
                    ELSE w[CHOOSE x \in s : TRUE] + f[s \ {CHOOSE x \in s : TRUE}]
<1> DEFINE S == DOMAIN w
           c(s) == CHOOSE x \in s : TRUE
           D(k) == {s \in SUBSET S : Cardinality(s) <= k}
           Sums(f, k) == \A s \in SUBSET S :
             Cardinality(s) <= k => f[s] = IF s = {} THEN 0 ELSE w[c(s)] + f[s \ {c(s)}]
           bad == {k \in Nat : ~\E f \in [D(k) -> Nat] : Sums(f, k)}
<1>1. \A s \in SUBSET S : IsFiniteSet(s) /\ Cardinality(s) \in Nat
  BY FS_Subset, FS_CardinalityType
<1>2. ASSUME NEW s \in SUBSET S, s # {}
      PROVE  c(s) \in s /\ s \ {c(s)} \in SUBSET S /\ Cardinality(s \ {c(s)}) = Cardinality(s) - 1
  <2>1. c(s) \in s BY <1>2
  <2>2. IsFiniteSet(s) BY <1>1
  <2> QED BY <2>1, <2>2, FS_RemoveElement
<1>3. \A s \in SUBSET S : s = {} <=> Cardinality(s) = 0 BY <1>1, FS_EmptySet
<1> HIDE DEF c
<1>4. ASSUME bad # {} PROVE FALSE
  <2>0. bad \subseteq Nat OBVIOUS
  <2> HIDE DEF bad
  <2>1. PICK k \in bad : \A m \in bad : k <= m BY <1>4, <2>0, Least
  <2>2. k # 0
    <3> SUFFICES ASSUME k = 0 PROVE \E f \in [D(k) -> Nat] : Sums(f, k) BY <2>1 DEF bad
    <3> DEFINE f == [s \in D(k) |-> 0]
    <3>1. f \in [D(k) -> Nat] OBVIOUS
    <3>2. \A s \in SUBSET S : Cardinality(s) <= k => s = {} /\ f[s] = 0 BY <1>1, <1>3
    <3>3. Sums(f, k) BY <3>2
    <3> QED BY <3>1, <3>3
  <2>3a. k \in Nat BY <2>0, <2>1
  <2>3b. k - 1 \in Nat BY <2>2, <2>3a
  <2>3c. k - 1 \notin bad BY <2>1, <2>3a
  <2>3. k \in Nat /\ k - 1 \in Nat /\ ~(k - 1 \in bad) BY <2>3a, <2>3b, <2>3c
  <2> USE DEF bad
  <2>4. PICK g \in [D(k - 1) -> Nat] : Sums(g, k - 1) BY <2>3
  <2> DEFINE f == [s \in D(k) |-> IF s = {} THEN 0 ELSE w[c(s)] + g[s \ {c(s)}]]
  <2>5. \A s \in D(k) : s # {} => s \ {c(s)} \in D(k - 1) /\ c(s) \in S
    BY <1>1, <1>2, <2>3
  <2>6. f \in [D(k) -> Nat] BY <2>4, <2>5
  <2>7. \A s \in D(k - 1) : s \in D(k) /\ f[s] = g[s] BY <1>1, <2>3, <2>4
  <2>8. Sums(f, k) BY <2>5, <2>7
  <2> QED BY <2>1, <2>6, <2>8
<1> DEFINE n == Cardinality(S)
<1>5. n \in Nat /\ n \notin bad BY <1>1, <1>4
<1>6. \E f \in [D(n) -> Nat] : Sums(f, n) BY <1>5
<1>7. \A s \in SUBSET S : Cardinality(s) <= n BY FS_Subset
<1>8. D(n) = SUBSET S BY <1>7
<1>9. \E f \in [SUBSET S -> Nat] : Sums(f, n) BY <1>6, <1>8
<1> QED BY <1>7, <1>9 DEF c

\* So a sum of natural numbers is one.  (The library defines it by such a function, of
\* which nothing is known until one is shown to exist.)
LEMMA SumIsNat ==
  ASSUME NEW w, IsFiniteSet(DOMAIN w), \A x \in DOMAIN w : w[x] \in Nat
  PROVE  Survey!SumFunction(w) \in Nat
<1> DEFINE S == DOMAIN w
           c(s) == CHOOSE x \in s : TRUE
           Body(f) == [s \in SUBSET S |-> IF s = {} THEN 0 ELSE w[c(s)] + f[s \ {c(s)}]]
           iter == CHOOSE f : f = Body(f)
           n == Cardinality(S)
<1>1. Survey!SumFunction(w) = iter[S]
  BY DEF Survey!SumFunction, Survey!SumFunctionOnSet, Survey!FoldFunctionOnSet, Survey!MapThenFoldSet
<1>2. \A s \in SUBSET S : IsFiniteSet(s) /\ Cardinality(s) \in Nat /\ Cardinality(s) <= n
  BY FS_Subset, FS_CardinalityType
<1>3. n \in Nat /\ SUBSET S = {s \in SUBSET S : Cardinality(s) <= n} BY <1>2
<1>4. PICK f \in [SUBSET S -> Nat] :
        \A s \in SUBSET S : f[s] = IF s = {} THEN 0 ELSE w[c(s)] + f[s \ {c(s)}]
  BY SumRecursion
<1>5. f = Body(f) BY <1>4
<1>6. iter = Body(iter) BY <1>5
<1>7. \A s \in SUBSET S : iter[s] = IF s = {} THEN 0 ELSE w[c(s)] + iter[s \ {c(s)}] BY <1>6
<1> DEFINE bad == {Cardinality(s) : s \in {t \in SUBSET S : iter[t] \notin Nat}}
<1>8. ASSUME NEW s \in SUBSET S, s # {}
      PROVE  c(s) \in S /\ s \ {c(s)} \in SUBSET S /\ Cardinality(s \ {c(s)}) = Cardinality(s) - 1
  <2>1. c(s) \in s BY <1>8
  <2>2. IsFiniteSet(s) BY <1>2
  <2> QED BY <2>1, <2>2, FS_RemoveElement
<1> HIDE DEF iter, c
<1>9. bad = {}
  <2> SUFFICES ASSUME bad # {} PROVE FALSE OBVIOUS
  <2>1. bad \subseteq Nat BY <1>2
  <2>2. PICK k \in bad : \A m \in bad : k <= m BY <2>1, Least
  <2>3. PICK s \in SUBSET S : k = Cardinality(s) /\ iter[s] \notin Nat BY <2>2
  <2>4. s # {} BY <1>7, <2>3
  <2> DEFINE t == s \ {c(s)}
  <2>5. c(s) \in S /\ t \in SUBSET S /\ Cardinality(t) = Cardinality(s) - 1 BY <1>8, <2>4
  <2>6. iter[s] = w[c(s)] + iter[t] /\ w[c(s)] \in Nat BY <1>7, <2>4, <2>5
  <2> HIDE DEF t
  <2>7. iter[t] \notin Nat BY <2>3, <2>6
  <2>8. k - 1 \in bad BY <2>3, <2>5, <2>7
  <2> HIDE DEF bad
  <2>9. k \in Nat BY <2>1, <2>2
  <2> QED BY <2>2, <2>8, <2>9
<1> QED BY <1>1, <1>9

\* What is assumed of the constants of SurveyReport.
LEMMA SurveyConstants ==
  /\ \A l \in SurveyLooks : l.load \in Nat \cup {-1}
  /\ \A x \in SurveyLevels : x \in Int /\ -126 <= x /\ x <= -1
  /\ MaxPoints \in Nat /\ IsFiniteSet(SurveyRadios)
<1>1. Survey!ReportConstantsOK BY PartsAreWellFormed
<1>2. Survey!IsFiniteSet(SurveyRadios) BY <1>1 DEF Survey!ReportConstantsOK
<1>3. IsFiniteSet(SurveyRadios) BY <1>2, SurveySizes
<1>4. \A x \in SurveyLevels : x \in -126..-1 BY <1>1 DEF Survey!ReportConstantsOK
<1> QED BY <1>1, <1>3, <1>4 DEF Survey!ReportConstantsOK

\* A picture: some radios, each with what it looks like and how loud it is.
LEMMA PictureIs ==
  ASSUME NEW p
  PROVE  p \in Survey!Pictures <=>
           /\ p = [r \in DOMAIN p |-> p[r]] /\ DOMAIN p \subseteq SurveyRadios
           /\ \A r \in DOMAIN p : p[r] \in Survey!Rows
<1>1. ASSUME p \in Survey!Pictures
      PROVE  /\ p = [r \in DOMAIN p |-> p[r]] /\ DOMAIN p \subseteq SurveyRadios
             /\ \A r \in DOMAIN p : p[r] \in Survey!Rows
  <2>1. PICK S \in SUBSET SurveyRadios : p \in [S -> Survey!Rows] BY <1>1 DEF Survey!Pictures
  <2> QED BY <2>1
<1>2. ASSUME p = [r \in DOMAIN p |-> p[r]], DOMAIN p \subseteq SurveyRadios,
             \A r \in DOMAIN p : p[r] \in Survey!Rows
      PROVE  p \in Survey!Pictures
  <2>1. p \in [DOMAIN p -> Survey!Rows] BY <1>2
  <2> QED BY <1>2, <2>1 DEF Survey!Pictures
<1> QED BY <1>1, <1>2

\* Nothing on the air is one.
LEMMA EmptyPicture == <<>> \in Survey!Pictures
<1>1. DOMAIN <<>> = {} OBVIOUS
<1>2. <<>> = [r \in DOMAIN <<>> |-> <<>>[r]] OBVIOUS
<1> QED BY <1>1, <1>2, PictureIs

\* The types of SurveyReport, at the start.
LEMMA SurveyInit == ASSUME Survey!Init PROVE Survey!TypeOK
<1>1. now \in Survey!Pictures BY EmptyPicture DEF Survey!Init
<1>2. kept \subseteq Survey!Pictures /\ Survey!Cardinality(kept) <= 1
  <2>1. kept = {} BY DEF Survey!Init
  <2>2. Survey!Cardinality(kept) = 0 BY <2>1, SurveySizes, FS_EmptySet
  <2> QED BY <2>1, <2>2
<1>3. points \in Seq(Survey!Pictures) /\ Len(points) <= MaxPoints
  BY SurveyConstants DEF Survey!Init
<1> QED BY <1>1, <1>2, <1>3 DEF Survey!TypeOK

\* Every step keeps them.
LEMMA SurveyNextType ==
  ASSUME Survey!TypeOK, [Survey!Next]_surveyVars
  PROVE  Survey!TypeOK'
<1>1. CASE UNCHANGED surveyVars
  BY <1>1 DEF surveyVars, Survey!TypeOK
<1>2. ASSUME NEW r \in SurveyRadios, Survey!Hear(r) PROVE Survey!TypeOK'
  <2>1. PICK row \in Survey!Rows : now' = Survey!With(now, r, row) BY <1>2 DEF Survey!Hear
  <2>2. now' = [o \in DOMAIN now \cup {r} |-> IF o = r THEN row ELSE now[o]]
    BY <2>1 DEF Survey!With
  <2>3. now' \in Survey!Pictures
    <3>1. DOMAIN now \subseteq SurveyRadios /\ \A o \in DOMAIN now : now[o] \in Survey!Rows
      BY PictureIs DEF Survey!TypeOK
    <3> QED BY <2>2, <3>1, PictureIs
  <2>4. UNCHANGED <<kept, points>> BY <1>2 DEF Survey!Hear
  <2> QED BY <2>3, <2>4 DEF Survey!TypeOK
<1>3. ASSUME NEW r \in SurveyRadios, Survey!Leave(r) PROVE Survey!TypeOK'
  <2>1. now' = [o \in DOMAIN now \ {r} |-> now[o]] /\ UNCHANGED <<kept, points>>
    BY <1>3 DEF Survey!Leave, Survey!Without
  <2>2. now' \in Survey!Pictures
    <3>1. DOMAIN now \subseteq SurveyRadios /\ \A o \in DOMAIN now : now[o] \in Survey!Rows
      BY PictureIs DEF Survey!TypeOK
    <3> QED BY <2>1, <3>1, PictureIs
  <2> QED BY <2>1, <2>2 DEF Survey!TypeOK
<1>4. CASE Survey!TakeSnapshot
  <2>1. kept' = {now} /\ UNCHANGED <<now, points>> BY <1>4 DEF Survey!TakeSnapshot
  <2>2. Survey!Cardinality({now}) = 1 BY SurveySizes, FS_Singleton
  <2> QED BY <2>1, <2>2 DEF Survey!TypeOK
<1>5. CASE Survey!CapturePoint
  <2>1. Len(points) < MaxPoints /\ points' = Append(points, now) /\ UNCHANGED <<now, kept>>
    BY <1>5 DEF Survey!CapturePoint
  <2>2. points \in Seq(Survey!Pictures) /\ now \in Survey!Pictures BY DEF Survey!TypeOK
  <2>3. points' \in Seq(Survey!Pictures) /\ Len(points') = Len(points) + 1 BY <2>1, <2>2
  <2>4. Len(points) \in Nat BY <2>2
  <2>5. Len(points') <= MaxPoints BY <2>1, <2>3, <2>4, SurveyConstants
  <2> QED BY <2>1, <2>3, <2>5 DEF Survey!TypeOK
<1> QED BY <1>1, <1>2, <1>3, <1>4, <1>5 DEF Survey!Next

\* A step of the whole is one of SurveyReport, or leaves it alone.
LEMMA SurveyMove == ASSUME [Next]_vars PROVE [Survey!Next]_surveyVars
BY DEF Next, SurveyNext, Survey!Next, vars

\* A snapshot with what a comparison says of it carried out is what is on the air now,
\* but for levels that moved too little to be told.
LEMMA ComparisonHolds == ASSUME Survey!TypeOK PROVE Survey!ComparisonAgrees
<1> SUFFICES ASSUME NEW before \in kept
             PROVE  LET patched == Survey!Patched(before, Survey!Comparison(before, now)) IN
                    /\ DOMAIN patched = DOMAIN now
                    /\ \A r \in DOMAIN now :
                         /\ \A f \in Survey!Compared : patched[r].look[f] = now[r].look[f]
                         /\ ~Survey!Far(patched[r].level, now[r].level)
  BY DEF Survey!ComparisonAgrees
<1> DEFINE c == Survey!Comparison(before, now)
           changed == Survey!Changed(before, now)
           said == c.added \cup c.changed
           named == {pair[1] : pair \in said}
           patched == Survey!Patched(before, c)
<1>1. /\ c.added = {<<r, now[r]>> : r \in DOMAIN now \ DOMAIN before}
      /\ c.removed = DOMAIN before \ DOMAIN now
      /\ c.changed = {<<r, now[r]>> : r \in changed}
  BY DEF Survey!Comparison
<1>2. changed \subseteq DOMAIN before \cap DOMAIN now BY DEF Survey!Changed
<1>3. \A pair \in said : pair[1] \in DOMAIN now /\ pair = <<pair[1], now[pair[1]]>> BY <1>1, <1>2
<1>4. named = (DOMAIN now \ DOMAIN before) \cup changed
  <2>1. ASSUME NEW r \in (DOMAIN now \ DOMAIN before) \cup changed PROVE r \in named
    <3>1. <<r, now[r]>> \in said BY <1>1
    <3> QED BY <3>1
  <2>2. ASSUME NEW r \in named PROVE r \in (DOMAIN now \ DOMAIN before) \cup changed
    BY <1>1, <2>2
  <2> QED BY <2>1, <2>2
<1> HIDE DEF c, changed
<1>5. patched = [r \in (DOMAIN before \ c.removed) \cup named |->
                   IF r \in named THEN (CHOOSE pair \in said : pair[1] = r)[2] ELSE before[r]]
  BY DEF Survey!Patched
<1>6. (DOMAIN before \ c.removed) \cup named = DOMAIN now
  BY <1>1, <1>2, <1>4
<1>7. ASSUME NEW r \in named PROVE (CHOOSE pair \in said : pair[1] = r)[2] = now[r]
  <2>1. \E pair \in said : pair[1] = r BY <1>7
  <2> DEFINE pair == CHOOSE q \in said : q[1] = r
  <2>2. pair \in said /\ pair[1] = r BY <2>1
  <2> HIDE DEF pair, said
  <2>3. pair = <<r, now[r]>> BY <1>3, <2>2
  <2>4. pair[2] = now[r] BY <2>3
  <2> QED BY <2>4, Zenon DEF pair
<1> HIDE DEF said, named, patched
<1>8. DOMAIN patched = DOMAIN now BY <1>5, <1>6
<1>9. ASSUME NEW r \in DOMAIN now
      PROVE  /\ \A f \in Survey!Compared : patched[r].look[f] = now[r].look[f]
             /\ ~Survey!Far(patched[r].level, now[r].level)
  <2>0. now[r].level \in Int
    <3>1. now[r] \in Survey!Rows BY PictureIs DEF Survey!TypeOK
    <3>2. now[r].level \in SurveyLevels BY <3>1 DEF Survey!Rows
    <3> QED BY <3>2, SurveyConstants
  <2>1. CASE r \in named
    <3>1. patched[r] = now[r] BY <1>5, <1>6, <1>7, <2>1
    <3> QED BY <2>0, <3>1 DEF Survey!Far
  <2>2. CASE r \notin named
    <3>1. patched[r] = before[r] BY <1>5, <1>6, <2>2
    <3>2. r \in DOMAIN before /\ r \notin changed BY <1>4, <2>2
    <3>3. /\ \A f \in Survey!Compared : before[r].look[f] = now[r].look[f]
          /\ ~Survey!Far(before[r].level, now[r].level)
      BY <3>2 DEF changed, Survey!Changed
    <3> QED BY <3>1, <3>3
  <2> QED BY <2>1, <2>2
<1> QED BY <1>8, <1>9 DEF patched, c

\* The strongest of some radios at a place, or a level below all there are.
LEMMA StrongestIs ==
  ASSUME NEW place \in Survey!Pictures, NEW those, those \subseteq DOMAIN place
  PROVE  /\ those = {} => Survey!Strongest(place, those) = -1000
         /\ those # {} => \E r \in those : Survey!Strongest(place, those) = place[r].level
         /\ \A r \in those : /\ place[r].level \in Int /\ -126 <= place[r].level
                             /\ place[r].level <= -1
                             /\ place[r].level <= Survey!Strongest(place, those)
<1>1. \A r \in those : /\ place[r].level \in Int /\ -126 <= place[r].level
                       /\ place[r].level <= -1
  <2>1. \A r \in those : place[r] \in Survey!Rows BY PictureIs
  <2>2. \A r \in those : place[r].level \in SurveyLevels BY <2>1 DEF Survey!Rows
  <2> QED BY <2>2, SurveyConstants
<1>2. CASE those = {} BY <1>2 DEF Survey!Strongest, Survey!NotHeard
<1>3. CASE those # {}
  <2> DEFINE levels == {place[r].level : r \in those}
             short == {0 - x : x \in levels}
  <2>1. \A x \in levels : x \in Int /\ -126 <= x /\ x <= -1 BY <1>1
  <2>2. levels # {} BY <1>3
  <2>3. Survey!Strongest(place, those) = Survey!Max(levels) BY <1>3 DEF Survey!Strongest
  <2> HIDE DEF levels
  <2>4. short \subseteq Nat /\ short # {} BY <2>1, <2>2
  <2>5. PICK n \in short : \A m \in short : n <= m BY <2>4, Least
  <2>6. PICK x \in levels : n = 0 - x BY <2>5
  <2>7. \A y \in levels : x >= y
    <3> SUFFICES ASSUME NEW y \in levels PROVE x >= y OBVIOUS
    <3>1. n <= 0 - y BY <2>5
    <3> QED BY <2>1, <2>6, <3>1
  <2>8. Survey!Max(levels) \in levels /\ \A y \in levels : Survey!Max(levels) >= y
    BY <2>7 DEF Survey!Max
  <2>9. \A r \in those : place[r].level \in levels BY DEF levels
  <2>10. \E r \in those : Survey!Max(levels) = place[r].level BY <2>8 DEF levels
  <2>11. \A r \in those : place[r].level <= Survey!Max(levels) BY <2>1, <2>8, <2>9
  <2> QED BY <1>1, <1>3, <2>3, <2>10, <2>11
<1> QED BY <1>2, <1>3

\* It is below a level exactly if all of them are.
LEMMA ShortIs ==
  ASSUME NEW place \in Survey!Pictures, NEW those, those \subseteq DOMAIN place
  PROVE  /\ Survey!Strongest(place, those) \in Int /\ Survey!Strongest(place, those) <= -1
         /\ -1000 <= Survey!Strongest(place, those)
         /\ Survey!Strongest(place, those) < -72 <=> \A r \in those : place[r].level < -72
         /\ Survey!Strongest(place, those) = -1000 <=> those = {}
<1> DEFINE x == Survey!Strongest(place, those)
<1>1. those = {} => x = -1000 BY StrongestIs
<1>2. those # {} => \E r \in those : x = place[r].level BY StrongestIs
<1>3. \A r \in those : /\ place[r].level \in Int /\ -126 <= place[r].level
                       /\ place[r].level <= -1 /\ place[r].level <= x
  BY StrongestIs
<1> HIDE DEF x
<1>4. CASE those = {} BY <1>1, <1>4 DEF x
<1>5. CASE those # {}
  <2>1. PICK r \in those : x = place[r].level BY <1>2, <1>5
  <2>2. x \in Int /\ -126 <= x /\ x <= -1 BY <1>3, <2>1
  <2>3. x < -72 => \A q \in those : place[q].level < -72 BY <1>3, <2>2
  <2>4. (\A q \in those : place[q].level < -72) => x < -72 BY <2>1
  <2> QED BY <1>5, <2>2, <2>3, <2>4 DEF x
<1> QED BY <1>4, <1>5

\* The points of a survey.
LEMMA PlaceIs ==
  ASSUME Survey!TypeOK
  PROVE  /\ Len(points) \in Nat /\ DOMAIN points = 1..Len(points)
         /\ \A p \in DOMAIN points : points[p] \in Survey!Pictures
BY DEF Survey!TypeOK

\* A point is weak exactly if every network has a gap there.
LEMMA WeakIsInAllGaps ==
  ASSUME Survey!TypeOK
  PROVE  Survey!WeakPoints
           = {p \in DOMAIN points : \A n \in Survey!Networks : p \in Survey!Gaps(n)}
<1> SUFFICES ASSUME NEW p \in DOMAIN points
             PROVE  Survey!BestAt(points[p]) < -72
                      <=> \A n \in Survey!Networks : Survey!LevelAt(points[p], n) < -72
  BY DEF Survey!WeakPoints, Survey!Gaps
<1> DEFINE place == points[p]
           Of(n) == {r \in DOMAIN place : Survey!NetworkOf(place[r]) = n}
<1>1. place \in Survey!Pictures BY PlaceIs
<1>2. Survey!BestAt(place) < -72 <=> \A r \in DOMAIN place : place[r].level < -72
  BY <1>1, ShortIs DEF Survey!BestAt
<1>3. ASSUME NEW n
      PROVE  Survey!LevelAt(place, n) < -72 <=> \A r \in Of(n) : place[r].level < -72
  BY <1>1, ShortIs DEF Survey!LevelAt
<1>4. \A r \in DOMAIN place : Survey!NetworkOf(place[r]) \in Survey!Networks
  BY DEF Survey!Networks
<1> HIDE DEF place
<1>5. (\A n \in Survey!Networks : Survey!LevelAt(place, n) < -72)
        => \A r \in DOMAIN place : place[r].level < -72
  BY <1>3, <1>4
<1> QED BY <1>2, <1>3, <1>5 DEF place

\* Every point has a grade but those where nothing is heard.
LEMMA GradesLeaveOutSilence ==
  ASSUME Survey!TypeOK
  PROVE  Survey!Cardinality(Survey!GradedPoints({"excellent", "good", "fair", "weak", "unusable"}))
           = Len(points) - Survey!Cardinality({p \in DOMAIN points : points[p] = <<>>})
<1> DEFINE all == DOMAIN points
           silent == {p \in all : points[p] = <<>>}
           graded == Survey!GradedPoints({"excellent", "good", "fair", "weak", "unusable"})
<1>1. ASSUME NEW x \in Int, -1000 <= x, x <= -1
      PROVE  Survey!Grade(x) \in {"excellent", "good", "fair", "weak", "unusable"} <=> x # -1000
  BY DEF Survey!Grade, Survey!NotHeard
<1>2. ASSUME NEW p \in all PROVE p \in graded <=> p \notin silent
  <2> DEFINE place == points[p]
  <2>1. place \in Survey!Pictures BY PlaceIs
  <2> DEFINE x == Survey!Strongest(place, DOMAIN place)
  <2>2. x \in Int /\ -1000 <= x /\ x <= -1 /\ (x = -1000 <=> DOMAIN place = {})
    BY <2>1, ShortIs
  <2>4. p \in graded
          <=> Survey!Grade(x) \in {"excellent", "good", "fair", "weak", "unusable"}
    BY DEF Survey!GradedPoints, Survey!BestAt
  <2> HIDE DEF x, graded
  <2>3. DOMAIN place = {} <=> place = <<>>
    <3>1. place = [r \in DOMAIN place |-> place[r]] BY <2>1, PictureIs
    <3> QED BY <3>1
  <2> QED BY <1>1, <2>2, <2>3, <2>4
<1>3. graded = all \ silent BY <1>2 DEF Survey!GradedPoints
<1>4. IsFiniteSet(all) /\ Cardinality(all) = Len(points) BY PlaceIs, FS_Interval
<1>5. Cardinality(all \ silent) = Cardinality(all) - Cardinality(all \cap silent)
  BY <1>4, FS_Difference
<1>6. all \cap silent = silent OBVIOUS
<1> QED BY <1>3, <1>4, <1>5, <1>6, SurveySizes

\* A share rounded to whole percents: all is 100 and nothing is 0.
LEMMA Quotient ==
  ASSUME NEW n \in Nat, n > 0
  PROVE  (200 * n + n) \div (2 * n) = 100 /\ (200 * 0 + n) \div (2 * n) = 0
OBVIOUS

\* A network that is partly covered has a gap, and is heard.
LEMMA PartlyCovered ==
  ASSUME Survey!TypeOK, NEW n \in Survey!PartialNetworks
  PROVE  Survey!Gaps(n) # {} /\ Survey!Covers(n) # {}
<1> DEFINE c == Survey!Cardinality(Survey!Covers(n))
           L == Len(points)
<1>1. (200 * c + L) \div (2 * L) \in 1..79 /\ n \in Survey!Networks
  BY DEF Survey!PartialNetworks, Survey!CoveragePct
<1>2. L \in Nat /\ L > 0
  <2>1. DOMAIN points # {} BY <1>1 DEF Survey!Networks
  <2> QED BY <2>1, PlaceIs
<1>3. Survey!Covers(n) # {}
  <2> SUFFICES ASSUME Survey!Covers(n) = {} PROVE FALSE OBVIOUS
  <2>1. c = 0 BY SurveySizes, FS_EmptySet
  <2>2. (200 * 0 + L) \div (2 * L) = 0 BY <1>2, Quotient
  <2> HIDE DEF L, c
  <2> QED BY <1>1, <2>1, <2>2
<1>4. Survey!Gaps(n) # {}
  <2> SUFFICES ASSUME Survey!Gaps(n) = {} PROVE FALSE OBVIOUS
  <2>1. \A p \in DOMAIN points : Survey!LevelAt(points[p], n) \in Int
    <3> SUFFICES ASSUME NEW p \in DOMAIN points PROVE Survey!LevelAt(points[p], n) \in Int
      OBVIOUS
    <3>1. points[p] \in Survey!Pictures BY PlaceIs
    <3> QED BY <3>1, ShortIs DEF Survey!LevelAt
  <2>2. Survey!Covers(n) = DOMAIN points BY <2>1 DEF Survey!Covers, Survey!Gaps
  <2>5. Cardinality(1..L) = L BY <1>2, FS_Interval
  <2>3. c = L BY <2>2, <2>5, PlaceIs, SurveySizes
  <2>4. (200 * L + L) \div (2 * L) = 100 BY <1>2, Quotient
  <2> HIDE DEF L, c
  <2> QED BY <1>1, <2>3, <2>4
<1> QED BY <1>3, <1>4

\* What a survey says of coverage, point by point and in sum, agrees.
LEMMA CoverageHolds == ASSUME Survey!TypeOK PROVE Survey!CoverageAgrees
BY WeakIsInAllGaps, GradesLeaveOutSilence, PartlyCovered DEF Survey!CoverageAgrees

\* The first few of a ranking without ties.
Below(score, c) ==
  {d \in DOMAIN score : score[d] < score[c] \/ (score[d] = score[c] /\ d < c)}

\* Of some places in a ranking one is before all the others.
LEMMA BestOf ==
  ASSUME NEW score, NEW T, T \subseteq DOMAIN score, T # {},
         \A c \in DOMAIN score : c \in Nat /\ score[c] \in Nat
  PROVE  \E b \in T : \A d \in T : d = b \/ b \in Below(score, d)
<1> DEFINE values == {score[c] : c \in T}
<1>1. values \subseteq Nat /\ values # {} OBVIOUS
<1>2. PICK v \in values : \A m \in values : v <= m BY <1>1, Least
<1> DEFINE best == {c \in T : score[c] = v}
<1>3. best \subseteq Nat /\ best # {} BY <1>2
<1>4. PICK b \in best : \A m \in best : b <= m BY <1>3, Least
<1>5. ASSUME NEW d \in T, d # b PROVE b \in Below(score, d)
  <2>1. b \in DOMAIN score /\ score[b] = v /\ b \in Nat /\ score[b] \in Nat BY <1>4
  <2>2. d \in DOMAIN score /\ d \in Nat /\ score[d] \in Nat /\ v <= score[d] BY <1>2
  <2>3. score[d] = v => b <= d BY <1>4
  <2> QED BY <2>1, <2>2, <2>3, <1>5 DEF Below
<1> QED BY <1>4, <1>5

\* The ranking is strict, and transitive.
LEMMA BelowIsStrict ==
  ASSUME NEW score, \A c \in DOMAIN score : c \in Nat /\ score[c] \in Nat
  PROVE  /\ \A c \in DOMAIN score : c \notin Below(score, c) /\ Below(score, c) \subseteq DOMAIN score
         /\ \A c, d \in DOMAIN score : d \in Below(score, c) => /\ c \notin Below(score, d)
                                                              /\ Below(score, d) \subseteq Below(score, c)
BY DEF Below

\* So those with fewer than one, or than three, before them are as many.
LEMMA FirstFew ==
  ASSUME NEW score, IsFiniteSet(DOMAIN score),
         \A c \in DOMAIN score : c \in Nat /\ score[c] \in Nat,
         NEW x \in DOMAIN score, NEW y \in DOMAIN score, NEW z \in DOMAIN score,
         x # y, y # z, x # z
  PROVE  /\ Cardinality({c \in DOMAIN score : Cardinality(Below(score, c)) < 1}) = 1
         /\ Cardinality({c \in DOMAIN score : Cardinality(Below(score, c)) < 3}) = 3
<1> DEFINE U == DOMAIN score
           B(c) == Below(score, c)
<1>1. PICK f \in U : \A d \in U : d = f \/ f \in B(d) BY BestOf
<1>2. U \ {f} # {} BY x \in U, y \in U, x # y
<1>3. PICK s \in U \ {f} : \A d \in U \ {f} : d = s \/ s \in B(d) BY <1>2, BestOf
<1>4. U \ {f, s} # {}
  <2>1. x \in U /\ y \in U /\ z \in U OBVIOUS
  <2> QED BY <2>1
<1>5. PICK t \in U \ {f, s} : \A d \in U \ {f, s} : d = t \/ t \in B(d) BY <1>4, BestOf
<1>6. \A c \in U : c \notin B(c) /\ B(c) \subseteq U BY BelowIsStrict
<1>7. \A c, d \in U : d \in B(c) => c \notin B(d) /\ B(d) \subseteq B(c) BY BelowIsStrict
<1>8. \A c \in U : IsFiniteSet(B(c)) /\ Cardinality(B(c)) \in Nat
  BY <1>6, FS_Subset, FS_CardinalityType
<1> HIDE DEF B
<1>9. f \in U /\ s \in U /\ t \in U /\ f # s /\ f # t /\ s # t BY <1>3, <1>5
<1>10. B(f) = {} /\ B(s) = {f} /\ B(t) = {f, s}
  <2>1. B(f) = {} BY <1>1, <1>6, <1>7
  <2>2. B(s) = {f} BY <1>1, <1>3, <1>6, <1>7, <1>9
  <2>3. B(t) = {f, s} BY <1>1, <1>3, <1>5, <1>6, <1>7, <1>9
  <2> QED BY <2>1, <2>2, <2>3
<1>11. Cardinality({}) = 0 /\ Cardinality({f}) = 1 /\ Cardinality({f, s}) = 2 /\ Cardinality({f, s, t}) = 3
  <2>1. IsFiniteSet({}) /\ Cardinality({}) = 0 BY FS_EmptySet
  <2>2. IsFiniteSet({f}) /\ Cardinality({f}) = 1 BY FS_Singleton
  <2>0. s \notin {f} /\ t \notin {f, s} BY <1>9
  <2>3. /\ IsFiniteSet({f} \cup {s})
        /\ Cardinality({f} \cup {s}) = IF s \in {f} THEN Cardinality({f}) ELSE Cardinality({f}) + 1
    BY <2>2, FS_AddElement, Zenon
  <2>4. {f} \cup {s} = {f, s} OBVIOUS
  <2>7. IsFiniteSet({f, s}) /\ Cardinality({f, s}) = 2 BY <2>0, <2>2, <2>3, <2>4
  <2>8. Cardinality({f, s} \cup {t})
          = IF t \in {f, s} THEN Cardinality({f, s}) ELSE Cardinality({f, s}) + 1
    BY <2>7, FS_AddElement, Zenon
  <2>5. Cardinality({f, s} \cup {t}) = 3 BY <2>0, <2>7, <2>8
  <2>6. {f, s} \cup {t} = {f, s, t} OBVIOUS
  <2> QED BY <2>1, <2>2, <2>5, <2>6, <2>7
<1>12. \A c \in U \ {f} : Cardinality(B(c)) >= 1
  <2> SUFFICES ASSUME NEW c \in U \ {f} PROVE Cardinality(B(c)) >= 1 OBVIOUS
  <2>1. {f} \subseteq B(c) BY <1>1
  <2> QED BY <2>1, <1>8, <1>11, FS_Subset
<1>13. \A c \in U \ {f, s, t} : Cardinality(B(c)) >= 3
  <2> SUFFICES ASSUME NEW c \in U \ {f, s, t} PROVE Cardinality(B(c)) >= 3 OBVIOUS
  <2>1. {f, s, t} \subseteq B(c) BY <1>1, <1>3, <1>5
  <2> QED BY <2>1, <1>8, <1>11, FS_Subset
<1>14. {c \in U : Cardinality(B(c)) < 1} = {f}
  BY <1>8, <1>9, <1>10, <1>11, <1>12
<1>15. {c \in U : Cardinality(B(c)) < 3} = {f, s, t}
  BY <1>8, <1>9, <1>10, <1>11, <1>13
<1> QED BY <1>11, <1>14, <1>15, FS_Singleton DEF B

\* There are at least three channels on a band, and finitely many.
LEMMA CandidatesAre ==
  ASSUME NEW band \in {"2.4", "5", "6"}
  PROVE  /\ \A c \in Survey!Candidates(band) : c \in Nat
         /\ IsFiniteSet(Survey!Candidates(band))
         /\ \E x, y, z \in Survey!Candidates(band) : x # y /\ y # z /\ x # z
<1>0. IsFiniteSet(0..300)
  <2>1. 0 \in Int /\ 300 \in Int OBVIOUS
  <2> QED BY <2>1, FS_Interval, Zenon
<1>1. CASE band = "2.4"
  <2>1. Survey!Candidates(band) = {1, 6, 11} BY <1>1 DEF Survey!Candidates
  <2>2. \A c \in {1, 6, 11} : c \in 0..300 OBVIOUS
  <2>3. {1, 6, 11} \in SUBSET (0..300) BY <2>2
  <2>4. IsFiniteSet({1, 6, 11}) BY <2>3, <1>0, FS_Subset
  <2> QED BY <2>1, <2>4
<1>2. CASE band = "5"
  <2> DEFINE S == Survey!Candidates(band)
  <2>1. S = {4 * n : n \in 9..12} \cup {4 * n + 1 : n \in 37..41} \cup Survey!Dfs
    BY <1>2 DEF Survey!Candidates
  <2>2. \A c \in S : c \in 0..300 BY <2>1 DEF Survey!Dfs
  <2>3. S \in SUBSET (0..300) BY <2>2
  <2>4. IsFiniteSet(S) BY <2>3, <1>0, FS_Subset
  <2>5. 4 * 9 \in S /\ 4 * 10 \in S /\ 4 * 11 \in S BY <2>1
  <2> QED BY <2>2, <2>4, <2>5
<1>3. CASE band = "6"
  <2> DEFINE S == Survey!Candidates(band)
  <2>1. S = {5 + 16 * n : n \in 0..14} BY <1>3 DEF Survey!Candidates
  <2>2. \A c \in S : c \in 0..300 BY <2>1
  <2>3. S \in SUBSET (0..300) BY <2>2
  <2>4. IsFiniteSet(S) BY <2>3, <1>0, FS_Subset
  <2>5. 5 + 16 * 0 \in S /\ 5 + 16 * 1 \in S /\ 5 + 16 * 2 \in S BY <2>1
  <2> QED BY <2>2, <2>4, <2>5
<1> QED BY <1>1, <1>2, <1>3

\* What is heard is counted.
LEMMA HeardIsFinite ==
  ASSUME Survey!TypeOK, NEW S, S \subseteq DOMAIN now
  PROVE  IsFiniteSet(S) /\ Survey!Cardinality(S) \in Nat /\ (S # {} => Survey!Cardinality(S) > 0)
<1>1. DOMAIN now \subseteq SurveyRadios BY PictureIs DEF Survey!TypeOK
<1>2. IsFiniteSet(S) BY <1>1, SurveyConstants, FS_Subset
<1>3. Cardinality(S) \in Nat /\ (Cardinality(S) = 0 <=> S = {})
  BY <1>2, FS_CardinalityType, FS_EmptySet
<1> QED BY <1>2, <1>3, SurveySizes

\* Contention is a number, at least 30 where anything is on the channel.
LEMMA ContentionIsNat ==
  ASSUME Survey!TypeOK, NEW band, NEW channel
  PROVE  /\ Survey!CongestionScore(band, channel) \in Nat
         /\ Survey!On(band, channel) # {} => Survey!CongestionScore(band, channel) >= 30
<1> DEFINE here == Survey!Cardinality(Survey!On(band, channel))
           strong == Survey!Cardinality({r \in Survey!On(band, channel) : now[r].level >= -75})
           over == Survey!OverlappingAps(band, channel)
           util == Survey!Utilization(band, channel)
<1>1. \A d : Survey!On(band, d) \subseteq DOMAIN now BY DEF Survey!On
<1>2. \A d : Survey!Cardinality(Survey!On(band, d)) \in Nat BY <1>1, HeardIsFinite
<1>3. here \in Nat /\ (Survey!On(band, channel) # {} => here > 0) BY <1>1, HeardIsFinite
<1>4. strong \in Nat
  <2>1. {r \in Survey!On(band, channel) : now[r].level >= -75} \subseteq DOMAIN now BY <1>1
  <2> QED BY <2>1, HeardIsFinite
<1>5. over \in Nat
  <2> DEFINE others == {d \in Survey!Observed(band) \ {channel} : Survey!Overlaps(band, d, channel)}
             w == [d \in others |-> Survey!Cardinality(Survey!On(band, d))]
  <2>1. over = Survey!SumFunction(w) BY DEF Survey!OverlappingAps
  <2>2. IsFiniteSet(others)
    <3> DEFINE f == [r \in DOMAIN now |-> now[r].look.channel]
               all == {now[r].look.channel : r \in DOMAIN now}
    <3>1. IsFiniteSet(DOMAIN now) BY HeardIsFinite
    <3>2. f \in Surjection(DOMAIN now, all) BY DEF Surjection
    <3>3. IsFiniteSet(all) BY <3>1, <3>2, FS_Surjection
    <3>4. others \subseteq all BY DEF Survey!Observed
    <3> QED BY <3>3, <3>4, FS_Subset
  <2> HIDE DEF others
  <2>3. DOMAIN w = others /\ \A d \in DOMAIN w : w[d] \in Nat BY <1>2
  <2> HIDE DEF w, over
  <2> QED BY <2>1, <2>2, <2>3, SumIsNat
<1>6. util \in Nat
  <2> DEFINE telling == {r \in Survey!On(band, channel) : now[r].look.load # -1}
             w == [r \in telling |-> now[r].look.load]
             n == Survey!Cardinality(telling)
             sum == Survey!SumFunction(w)
  <2>1. util = IF n = 0 THEN 0 ELSE (2 * sum + n) \div (2 * n) BY DEF Survey!Utilization
  <2>2. telling \subseteq DOMAIN now BY <1>1
  <2>3. IsFiniteSet(telling) /\ n \in Nat BY <2>2, HeardIsFinite
  <2>4. \A r \in telling : now[r].look.load \in Nat
    <3> SUFFICES ASSUME NEW r \in telling PROVE now[r].look.load \in Nat OBVIOUS
    <3>1. now[r] \in Survey!Rows BY <2>2, PictureIs DEF Survey!TypeOK
    <3>2. now[r].look \in SurveyLooks BY <3>1 DEF Survey!Rows
    <3>3. now[r].look.load \in Nat \cup {-1} /\ now[r].look.load # -1 BY <3>2, SurveyConstants
    <3> QED BY <3>3
  <2>5. sum \in Nat
    <3> HIDE DEF telling
    <3>1. DOMAIN w = telling /\ \A r \in DOMAIN w : w[r] \in Nat BY <2>4
    <3> HIDE DEF w
    <3> QED BY <2>3, <3>1, SumIsNat
  <2> HIDE DEF n, sum, util
  <2>6. n # 0 => (2 * sum + n) \div (2 * n) \in Nat BY <2>3, <2>5
  <2> QED BY <2>1, <2>6
<1>7. Survey!CongestionScore(band, channel) = 30 * here + 15 * over + 20 * strong + (util + 2) \div 4
  BY DEF Survey!CongestionScore
<1> HIDE DEF here, strong, over, util
<1>8. (util + 2) \div 4 \in Nat BY <1>6
<1>9. 30 * here + 15 * over + 20 * strong + (util + 2) \div 4 >= 30 * here
  BY <1>3, <1>4, <1>5, <1>8
<1>10. here > 0 => 30 * here >= 30 BY <1>3
<1> QED BY <1>3, <1>4, <1>5, <1>7, <1>8, <1>9, <1>10

\* A channel that is clear is recommended before one that is not.
LEMMA ClearIsFirst == ASSUME Survey!TypeOK PROVE Survey!ClearComesFirst
<1> SUFFICES ASSUME NEW band \in {"2.4", "5", "6"}, NEW radios \in {1, 3}
             PROVE  LET chosen == Survey!Recommended(band, radios)
                        clear == Survey!Candidates(band)
                                   \ (Survey!Observed(band) \cup IF band = "5" THEN Survey!Dfs ELSE {})
                    IN /\ Survey!Cardinality(chosen) = radios
                       /\ chosen \cap Survey!Observed(band) # {} => clear \subseteq chosen
  BY DEF Survey!ClearComesFirst
<1> DEFINE U == Survey!Candidates(band)
           score == Survey!PlanScore(band)
           chosen == Survey!Recommended(band, radios)
           observed == Survey!Observed(band)
           clear == U \ (observed \cup IF band = "5" THEN Survey!Dfs ELSE {})
           radar(c) == IF band = "5" /\ c \in Survey!Dfs THEN 60 ELSE 0
<1>1. DOMAIN score = U BY DEF Survey!PlanScore
<1>2. \A c \in U : score[c] = (IF c \in observed THEN Survey!CongestionScore(band, c) ELSE 0) + radar(c)
  BY DEF Survey!PlanScore
<1>3. \A c \in observed : Survey!CongestionScore(band, c) >= 30
  <2> SUFFICES ASSUME NEW c \in observed PROVE Survey!CongestionScore(band, c) >= 30 OBVIOUS
  <2>1. Survey!On(band, c) # {} BY DEF Survey!On, Survey!Observed
  <2> QED BY <2>1, ContentionIsNat
<1>4. \A c : Survey!CongestionScore(band, c) \in Nat BY ContentionIsNat
<1>5. \A c : radar(c) \in {0, 60} OBVIOUS
<1>6. \A c \in clear : c \in U /\ c \notin observed /\ radar(c) = 0 OBVIOUS
<1>7. chosen = {c \in DOMAIN score : Survey!Cardinality(Below(score, c)) < radios}
  BY DEF Survey!Recommended, Below
<1> HIDE DEF radar, observed, clear, score, chosen, U
<1>8. \A c \in U : c \in Nat /\ score[c] \in Nat BY <1>2, <1>4, <1>5, CandidatesAre DEF U
<1>9. \A c \in U \cap observed : score[c] >= 30 BY <1>2, <1>3, <1>4, <1>5
<1>10. \A c \in clear : score[c] = 0 BY <1>2, <1>6
<1>11. IsFiniteSet(U) /\ \E x, y, z \in U : x # y /\ y # z /\ x # z BY CandidatesAre DEF U
<1>12. chosen = {c \in DOMAIN score : Cardinality(Below(score, c)) < radios} BY <1>7, SurveySizes
<1>13. Survey!Cardinality(chosen) = radios
  <2>1. PICK x, y, z \in DOMAIN score : x # y /\ y # z /\ x # z BY <1>1, <1>11
  <2>2. /\ Cardinality({c \in DOMAIN score : Cardinality(Below(score, c)) < 1}) = 1
        /\ Cardinality({c \in DOMAIN score : Cardinality(Below(score, c)) < 3}) = 3
    <3>1. IsFiniteSet(DOMAIN score) BY <1>1, <1>11
    <3>2. \A c \in DOMAIN score : c \in Nat /\ score[c] \in Nat BY <1>1, <1>8
    <3> QED BY <2>1, <3>1, <3>2, FirstFew
  <2>3. Cardinality(chosen) = radios
    <3>1. CASE radios = 1 BY <3>1, <1>12, <2>2
    <3>2. CASE radios = 3 BY <3>2, <1>12, <2>2
    <3> QED BY <3>1, <3>2
  <2> QED BY <2>3, SurveySizes
<1>14. ASSUME NEW c \in chosen \cap observed, NEW e \in clear PROVE e \in chosen
  <2>1. c \in U /\ e \in U BY <1>1, <1>6, <1>12
  <2>2. e \in Below(score, c) BY <1>1, <1>8, <1>9, <1>10, <2>1 DEF Below
  <2>3. Below(score, e) \subseteq Below(score, c) /\ Below(score, c) \subseteq U
    BY <1>1, <1>8, <2>1, <2>2, BelowIsStrict
  <2>4. IsFiniteSet(Below(score, c)) BY <1>11, <2>3, FS_Subset
  <2>5. Cardinality(Below(score, e)) <= Cardinality(Below(score, c)) BY <2>3, <2>4, FS_Subset
  <2>6. Cardinality(Below(score, e)) \in Nat /\ Cardinality(Below(score, c)) \in Nat
    BY <2>3, <2>4, FS_Subset, FS_CardinalityType
  <2>7. Cardinality(Below(score, c)) < radios BY <1>12
  <2>8. radios \in Nat OBVIOUS
  <2>9. Cardinality(Below(score, e)) < radios BY <2>5, <2>6, <2>7, <2>8
  <2> QED BY <1>1, <1>12, <2>1, <2>9
<1> QED BY <1>13, <1>14 DEF chosen, clear, observed, U

\* The three, and the types they rest on, at every moment: channels that are recommended,
\* coverage, and the comparison with a snapshot.
THEOREM SurveysAgree == Spec => [](Survey!TypeOK /\ Survey!ReportsAgree)
<1>1. Init => Survey!TypeOK BY SurveyInit DEF Init
<1>2. Survey!TypeOK /\ [Next]_vars => Survey!TypeOK' BY SurveyMove, SurveyNextType
<1>3. Survey!TypeOK => Survey!ReportsAgree
  BY ClearIsFirst, CoverageHolds, ComparisonHolds DEF Survey!ReportsAgree
<1> QED BY <1>1, <1>2, <1>3, PTL DEF Spec

(***************************************************************************)
(* What the rules say: a type that is kept, where a radio may fall silent  *)
(***************************************************************************)

\* What is assumed of the constants.
LEMMA QuietConstants ==
  /\ LoneBaseline \in Nat /\ LoneBaseline > 0 /\ LoneMissing \in Nat
  /\ Quiet!Horizon \in Nat /\ Quiet!Horizon = 4 * LoneMissing
  /\ LoneAnswers \subseteq Names /\ Paces \subseteq 1..3
<1>1. Quiet!RulesConstantsOK BY PartsAreWellFormed
<1>2. LoneBaseline \in Nat /\ LoneBaseline > 0 /\ LoneMissing \in Nat
  BY <1>1 DEF Quiet!RulesConstantsOK
<1>3. LoneAnswers \subseteq Names /\ Paces \subseteq 1..3 BY <1>1 DEF Quiet!RulesConstantsOK
<1>4. Quiet!Horizon = 4 * LoneMissing BY DEF Quiet!Horizon
<1> QED BY <1>2, <1>3, <1>4

\* Counting up to a bound.
LEMMA QuietMin ==
  ASSUME NEW n \in Nat, NEW cap \in Nat
  PROVE  /\ Quiet!Min({n + 1, cap}) \in 0..cap
         /\ Quiet!Min({n + 1, cap}) = IF n + 1 <= cap THEN n + 1 ELSE cap
         /\ Quiet!Min({cap, n + 1}) = Quiet!Min({n + 1, cap})
<1> DEFINE m == IF n + 1 <= cap THEN n + 1 ELSE cap
<1>1. m \in {n + 1, cap} /\ \A y \in {n + 1, cap} : m <= y OBVIOUS
<1>2. \A x \in {n + 1, cap} : (\A y \in {n + 1, cap} : x <= y) => x = m OBVIOUS
<1>3. Quiet!Min({n + 1, cap}) = m BY <1>1, <1>2 DEF Quiet!Min
<1>4. {n + 1, cap} = {cap, n + 1} OBVIOUS
<1> HIDE DEF m
<1>5. Quiet!Min({cap, n + 1}) = m BY <1>3, <1>4
<1> QED BY <1>3, <1>5 DEF m

\* What a scan has of a radio is about it, and it has all that are on the air.
LEMMA QuietScanIs ==
  ASSUME NEW probed, NEW scan \in Quiet!Scans(probed)
  PROVE  /\ \A x \in scan : x.bssid \in Quiet!Audible
         /\ \A r \in Quiet!Audible : \E x \in scan : x.bssid = r
<1>1. ASSUME NEW r, NEW x \in Quiet!Entries(r, probed) PROVE x.bssid = r
  <2> DEFINE rec == Quiet!Record(r, probed)
  <2>1. rec.bssid = r /\ "bssid" \in DOMAIN rec BY DEF Quiet!Record, Quiet!RecordAt
  <2> HIDE DEF rec
  <2>2. \A n : [rec EXCEPT !.name = n, !.hidden = FALSE].bssid = r BY <2>1
  <2> QED BY <2>1, <2>2 DEF Quiet!Entries, rec
<1>2. PICK k \in [Quiet!Audible -> UNION {Quiet!Entries(r, probed) : r \in Quiet!Audible}] :
        (\A r \in Quiet!Audible : k[r] \in Quiet!Entries(r, probed)) /\ scan = Quiet!Range(k)
  BY DEF Quiet!Scans
<1>3. scan = {k[r] : r \in Quiet!Audible} BY <1>2 DEF Quiet!Range
<1>4. \A r \in Quiet!Audible : k[r].bssid = r BY <1>1, <1>2
<1> QED BY <1>3, <1>4

\* What is stored of a radio names it, and only of those on the air anything changes.
LEMMA QuietStored ==
  ASSUME NEW probed, NEW scan \in Quiet!Scans(probed), NEW r \in LoneRadios
  PROVE  IF r \in Quiet!Audible
         THEN Quiet!Stored(scan)[r] # Quiet!NoRow /\ Quiet!Stored(scan)[r].bssid = r
         ELSE Quiet!Stored(scan)[r] = rows[r]
<1> DEFINE mine == {x \in scan : x.bssid = r}
           x == CHOOSE y \in mine : TRUE
<1>1. Quiet!Stored(scan)[r] = IF mine = {} THEN rows[r] ELSE Quiet!Row(x)
  BY DEF Quiet!Stored
<1>2. r \in Quiet!Audible <=> mine # {} BY QuietScanIs
<1>3. mine # {} => x \in mine OBVIOUS
<1> HIDE DEF x
<1>4. mine # {} => x.bssid = r BY <1>3
<1>5. Quiet!Row(x).bssid = x.bssid BY DEF Quiet!Row
<1>6. Quiet!Row(x) # Quiet!NoRow
  <2>1. "bssid" \in DOMAIN Quiet!Row(x) BY DEF Quiet!Row
  <2>2. "bssid" \notin DOMAIN Quiet!NoRow BY DEF Quiet!NoRow
  <2> QED BY <2>1, <2>2
<1> QED BY <1>1, <1>2, <1>4, <1>5, <1>6

\* The counts of a radio, and its latest levels, after a scan that heard it or did not.
LEMMA QuietCounts ==
  ASSUME Quiet!TypeOK, NEW r \in LoneRadios
  PROVE  /\ Quiet!Counted[r] \in 0..LoneBaseline
         /\ r \in Quiet!Audible => Quiet!Counted[r] # 0
         /\ r \notin Quiet!Audible => Quiet!Counted[r] = seen[r]
         /\ seen[r] <= Quiet!Counted[r]
         /\ Quiet!Latest[r] \in Seq(Levels) /\ Len(Quiet!Latest[r]) <= Quiet!Counted[r]
<1>1. /\ seen[r] \in Nat /\ seen[r] <= LoneBaseline /\ gone[r] \in Nat
      /\ recent[r] \in Seq(Levels) /\ Len(recent[r]) <= seen[r] /\ level[r] \in Levels
  BY QuietConstants DEF Quiet!TypeOK
<1>2. LoneBaseline \in Nat /\ LoneBaseline > 0 /\ Quiet!Horizon \in Nat BY QuietConstants
<1>3. Quiet!Counted[r] = IF r \in Quiet!Audible THEN Quiet!Min({seen[r] + 1, LoneBaseline})
                         ELSE seen[r]
  BY DEF Quiet!Counted
<1>4. /\ Quiet!Min({seen[r] + 1, LoneBaseline}) \in 0..LoneBaseline
      /\ Quiet!Min({seen[r] + 1, LoneBaseline})
           = IF seen[r] + 1 <= LoneBaseline THEN seen[r] + 1 ELSE LoneBaseline
  BY <1>1, <1>2, QuietMin
<1> DEFINE all == <<level[r]>> \o recent[r]
           old == Len(recent[r])
           n == Quiet!Min({LoneBaseline, old + 1})
<1>6. Quiet!Latest[r] = IF r \notin Quiet!Audible THEN recent[r] ELSE SubSeq(all, 1, n)
  BY DEF Quiet!Latest
<1>7. all \in Seq(Levels) /\ Len(all) = old + 1 /\ old \in Nat /\ old <= seen[r] BY <1>1
<1> HIDE DEF all, old
<1>8. n = IF old + 1 <= LoneBaseline THEN old + 1 ELSE LoneBaseline
  <2>1. n = Quiet!Min({old + 1, LoneBaseline}) BY <1>2, <1>7, QuietMin
  <2>2. Quiet!Min({old + 1, LoneBaseline}) = IF old + 1 <= LoneBaseline THEN old + 1 ELSE LoneBaseline
    BY <1>2, <1>7, QuietMin
  <2> QED BY <2>1, <2>2
<1> HIDE DEF n
<1>9. n \in Nat /\ n <= Len(all) BY <1>2, <1>7, <1>8
<1>10. SubSeq(all, 1, n) \in Seq(Levels) /\ Len(SubSeq(all, 1, n)) = n BY <1>7, <1>9
<1>11. CASE r \in Quiet!Audible
  <2>1. Quiet!Counted[r] = IF seen[r] + 1 <= LoneBaseline THEN seen[r] + 1 ELSE LoneBaseline
    BY <1>3, <1>4, <1>11
  <2>2. Quiet!Latest[r] = SubSeq(all, 1, n) BY <1>6, <1>11
  <2>3. n <= Quiet!Counted[r] BY <1>1, <1>2, <1>7, <1>8, <2>1
  <2> QED BY <1>1, <1>2, <1>10, <1>11, <2>1, <2>2, <2>3
<1>12. CASE r \notin Quiet!Audible
  BY <1>1, <1>2, <1>3, <1>6, <1>12
<1> QED BY <1>11, <1>12

\* How long a radio has been away after a scan.
LEMMA QuietAway ==
  ASSUME Quiet!TypeOK, NEW r \in LoneRadios, NEW gap \in Paces
  PROVE  /\ Quiet!Away(gap)[r] \in 0..Quiet!Horizon
         /\ Quiet!Away(gap)[r] = IF r \in Quiet!Audible THEN 0
                             ELSE IF gone[r] + gap <= Quiet!Horizon THEN gone[r] + gap
                             ELSE Quiet!Horizon
<1>1. gone[r] \in Nat /\ Quiet!Horizon \in Nat /\ gap \in 1..3
  BY QuietConstants DEF Quiet!TypeOK
<1> DEFINE n == gone[r] + gap - 1
<1>2. n \in Nat /\ n + 1 = gone[r] + gap BY <1>1
<1> HIDE DEF n
<1>3. Quiet!Min({n + 1, Quiet!Horizon}) = IF n + 1 <= Quiet!Horizon THEN n + 1 ELSE Quiet!Horizon
  BY <1>1, <1>2, QuietMin
<1>4. Quiet!Away(gap)[r] = IF r \in Quiet!Audible THEN 0 ELSE Quiet!Min({n + 1, Quiet!Horizon})
  BY <1>2 DEF Quiet!Away
<1> QED BY <1>1, <1>2, <1>3, <1>4

\* A scan more on time, and what it adds to the time.
LEMMA QuietLag ==
  ASSUME NEW n \in Nat, NEW time \in Nat, Quiet!Lags(n, time), NEW gap \in Paces,
         NEW more, more = Quiet!Min({n + 1, Quiet!Horizon}),
         NEW after, after = IF time + gap <= Quiet!Horizon THEN time + gap ELSE Quiet!Horizon
  PROVE  Quiet!Lags(more, after)
<1>1. LoneMissing \in Nat /\ Quiet!Horizon \in Nat /\ Quiet!Horizon = 4 * LoneMissing /\ gap \in 1..3
  BY QuietConstants
<1>2. more = IF n + 1 <= Quiet!Horizon THEN n + 1 ELSE Quiet!Horizon BY <1>1, QuietMin
<1>3. more \in Nat BY <1>1, <1>2
<1>4. ASSUME more <= LoneMissing PROVE more <= after /\ after <= 3 * more
  BY <1>1, <1>2, <1>4 DEF Quiet!Lags
<1> QED BY <1>3, <1>4 DEF Quiet!Lags

\* The types, at the start.
LEMMA QuietTypeInit == ASSUME Quiet!Init PROVE Quiet!TypeOK
<1>1. LoneBaseline \in Nat /\ Quiet!Horizon \in Nat BY QuietConstants
<1>2. /\ air \in [LoneRadios -> LoneSounds \cup {Quiet!Silent}]
      /\ answers \in [LoneRadios -> SUBSET Names] /\ level \in [LoneRadios -> Levels]
      /\ marks \subseteq LoneMarks
      /\ \A f \in report : f.rule \notin Muted /\ f.severity \in Severe
  BY DEF Quiet!Init
<1>3. ASSUME NEW r \in LoneRadios
      PROVE  /\ rows[r] = Quiet!NoRow /\ seen[r] = 0 /\ recent[r] = <<>> /\ gone[r] = 0
             /\ missed[r] = 0
  BY DEF Quiet!Init
<1>4. <<>> \in Seq(Levels) /\ Len(<<>>) = 0 OBVIOUS
<1>5. 0 \in 0..LoneBaseline /\ 0 \in 0..Quiet!Horizon BY <1>1
<1>6. \A r \in LoneRadios :
        /\ rows[r] # Quiet!NoRow => rows[r].bssid = r
        /\ (rows[r] = Quiet!NoRow) = (seen[r] = 0) /\ seen[r] \in 0..LoneBaseline
        /\ recent[r] \in Seq(Levels) /\ Len(recent[r]) <= seen[r]
        /\ gone[r] \in 0..Quiet!Horizon
        /\ missed[r] # Quiet!NotOnTime => Quiet!Lags(missed[r], gone[r])
  <2> TAKE r \in LoneRadios
  <2>1. recent[r] = <<>> /\ seen[r] = 0 BY <1>3
  <2>2. recent[r] \in Seq(Levels) /\ Len(recent[r]) <= seen[r]
    <3>1. Len(recent[r]) = 0 /\ recent[r] \in Seq(Levels) BY <1>4, <2>1, Zenon
    <3> QED BY <2>1, <3>1
  <2>3. (rows[r] = Quiet!NoRow) = (seen[r] = 0) BY <1>3
  <2>4. Quiet!Lags(missed[r], gone[r]) BY <1>3 DEF Quiet!Lags
  <2> QED BY <1>3, <1>5, <2>2, <2>3, <2>4
<1> QED BY <1>2, <1>6 DEF Quiet!TypeOK

\* What a radio is like after a step that tells it so.
QuietRadioOK(row, times, latest, away, late, r) ==
  /\ row # Quiet!NoRow => row.bssid = r
  /\ (row = Quiet!NoRow) = (times = 0) /\ times \in 0..LoneBaseline
  /\ latest \in Seq(Levels) /\ Len(latest) <= times
  /\ away \in 0..Quiet!Horizon
  /\ late # Quiet!NotOnTime => Quiet!Lags(late, away)

\* The types are those of each radio and of the rest.
LEMMA QuietTypeIs ==
  Quiet!TypeOK <=>
    /\ air \in [LoneRadios -> LoneSounds \cup {Quiet!Silent}]
    /\ answers \in [LoneRadios -> SUBSET Names] /\ level \in [LoneRadios -> Levels]
    /\ \A r \in LoneRadios : QuietRadioOK(rows[r], seen[r], recent[r], gone[r], missed[r], r)
    /\ marks \subseteq LoneMarks
    /\ \A f \in report : f.rule \notin Muted /\ f.severity \in Severe
BY DEF Quiet!TypeOK, QuietRadioOK

\* A scan keeps them,
LEMMA QuietScanKeepsType ==
  ASSUME Quiet!TypeOK, NEW probed, Quiet!Scan(probed)
  PROVE  Quiet!TypeOK'
<1>0. PICK gap \in Paces :
        /\ \E scan \in Quiet!Scans(probed), list \in Quiet!Orders(Quiet!Audible) :
             /\ report' = Quiet!Kept(Quiet!Found(scan, rows, seen, Quiet!Latest, Quiet!Away(gap), list), scan, list)
             /\ rows' = Quiet!Stored(scan)
        /\ gone' = Quiet!Away(gap)
  BY DEF Quiet!Scan
<1>1. PICK scan \in Quiet!Scans(probed), list \in Quiet!Orders(Quiet!Audible) :
        /\ report' = Quiet!Kept(Quiet!Found(scan, rows, seen, Quiet!Latest, Quiet!Away(gap), list), scan, list)
        /\ rows' = Quiet!Stored(scan)
  BY <1>0
<1>2. /\ seen' = Quiet!Counted /\ recent' = Quiet!Latest /\ gone' = Quiet!Away(gap)
      /\ missed' = [r \in LoneRadios |-> IF r \in Quiet!Audible THEN 0
                       ELSE IF missed[r] = Quiet!NotOnTime THEN Quiet!NotOnTime
                       ELSE Quiet!Min({missed[r] + 1, Quiet!Horizon})]
      /\ UNCHANGED <<air, answers, level, marks, order>>
  BY <1>0 DEF Quiet!Scan, Quiet!airVars
<1>3. \A f \in report' : f.rule \notin Muted /\ f.severity \in Severe
  BY <1>1 DEF Quiet!Kept
<1>4. ASSUME NEW r \in LoneRadios
      PROVE  QuietRadioOK(rows'[r], seen'[r], recent'[r], gone'[r], missed'[r], r)
  <2>1. QuietRadioOK(rows[r], seen[r], recent[r], gone[r], missed[r], r) BY QuietTypeIs
  <2>2. rows'[r] = Quiet!Stored(scan)[r] BY <1>1
  <2>3. seen'[r] = Quiet!Counted[r] /\ recent'[r] = Quiet!Latest[r] /\ gone'[r] = Quiet!Away(gap)[r]
    BY <1>2
  <2>7. /\ gone'[r] \in 0..Quiet!Horizon
        /\ gone'[r] = IF r \in Quiet!Audible THEN 0
                      ELSE IF gone[r] + gap <= Quiet!Horizon THEN gone[r] + gap ELSE Quiet!Horizon
    BY <2>3, QuietAway
  <2>4. missed'[r] # Quiet!NotOnTime => Quiet!Lags(missed'[r], gone'[r])
    <3>1. missed'[r] = IF r \in Quiet!Audible THEN 0
                       ELSE IF missed[r] = Quiet!NotOnTime THEN Quiet!NotOnTime
                       ELSE Quiet!Min({missed[r] + 1, Quiet!Horizon})
      BY <1>2
    <3>2. CASE r \in Quiet!Audible BY <2>7, <3>1, <3>2 DEF Quiet!Lags
    <3>3. CASE r \notin Quiet!Audible /\ missed[r] # Quiet!NotOnTime
      <4>1. Quiet!Lags(missed[r], gone[r]) /\ gone[r] \in Nat /\ missed[r] \in Nat
        BY <2>1, <3>3, QuietConstants DEF QuietRadioOK, Quiet!Lags
      <4>2. missed'[r] = Quiet!Min({missed[r] + 1, Quiet!Horizon}) BY <3>1, <3>3
      <4> QED BY <2>7, <3>3, <4>1, <4>2, QuietLag
    <3> QED BY <3>1, <3>2, <3>3
  <2>5. /\ Quiet!Counted[r] \in 0..LoneBaseline
        /\ r \in Quiet!Audible => Quiet!Counted[r] # 0
        /\ r \notin Quiet!Audible => Quiet!Counted[r] = seen[r]
        /\ Quiet!Latest[r] \in Seq(Levels) /\ Len(Quiet!Latest[r]) <= Quiet!Counted[r]
    BY QuietCounts
  <2>6. IF r \in Quiet!Audible
        THEN Quiet!Stored(scan)[r] # Quiet!NoRow /\ Quiet!Stored(scan)[r].bssid = r
        ELSE Quiet!Stored(scan)[r] = rows[r]
    BY QuietStored
  <2> QED BY <2>1, <2>2, <2>3, <2>4, <2>5, <2>6, <2>7 DEF QuietRadioOK
<1> QED BY <1>2, <1>3, <1>4, QuietTypeIs DEF Quiet!TypeOK, QuietRadioOK

\* and one that fails,
LEMMA QuietFailureKeepsType ==
  ASSUME Quiet!TypeOK, NEW probed, Quiet!ScanFails(probed)
  PROVE  Quiet!TypeOK'
<1>1. PICK scan \in Quiet!Scans(probed) : rows' = Quiet!Stored(scan) BY DEF Quiet!ScanFails
<1>0. PICK gap \in Paces : gone' = Quiet!Away(gap) BY DEF Quiet!ScanFails
<1>2. /\ seen' = Quiet!Counted /\ gone' = Quiet!Away(gap)
      /\ missed' = [r \in LoneRadios |-> IF r \in Quiet!Audible THEN 0 ELSE Quiet!NotOnTime]
      /\ report' = {} /\ UNCHANGED <<air, answers, level, recent, marks, order>>
  BY <1>0 DEF Quiet!ScanFails, Quiet!airVars
<1>3. ASSUME NEW r \in LoneRadios
      PROVE  QuietRadioOK(rows'[r], seen'[r], recent'[r], gone'[r], missed'[r], r)
  <2>1. QuietRadioOK(rows[r], seen[r], recent[r], gone[r], missed[r], r) BY QuietTypeIs
  <2>2. rows'[r] = Quiet!Stored(scan)[r] BY <1>1
  <2>3. seen'[r] = Quiet!Counted[r] /\ recent'[r] = recent[r] /\ gone'[r] = Quiet!Away(gap)[r]
        /\ missed'[r] = IF r \in Quiet!Audible THEN 0 ELSE Quiet!NotOnTime
    BY <1>2
  <2>8. gone'[r] \in 0..Quiet!Horizon /\ (r \in Quiet!Audible => gone'[r] = 0)
    BY <2>3, QuietAway
  <2>4. missed'[r] # Quiet!NotOnTime => Quiet!Lags(missed'[r], gone'[r])
    BY <2>3, <2>8 DEF Quiet!Lags
  <2>5. /\ Quiet!Counted[r] \in 0..LoneBaseline
        /\ r \in Quiet!Audible => Quiet!Counted[r] # 0
        /\ r \notin Quiet!Audible => Quiet!Counted[r] = seen[r]
        /\ seen[r] <= Quiet!Counted[r]
    BY QuietCounts
  <2>6. IF r \in Quiet!Audible
        THEN Quiet!Stored(scan)[r] # Quiet!NoRow /\ Quiet!Stored(scan)[r].bssid = r
        ELSE Quiet!Stored(scan)[r] = rows[r]
    BY QuietStored
  <2>7. Len(recent[r]) <= Quiet!Counted[r]
    <3>1. Len(recent[r]) \in Nat /\ seen[r] \in Nat /\ Len(recent[r]) <= seen[r]
      BY <2>1, QuietConstants DEF QuietRadioOK
    <3>2. Quiet!Counted[r] \in Nat BY <2>5, QuietConstants
    <3> QED BY <2>5, <3>1, <3>2
  <2> QED BY <2>1, <2>2, <2>3, <2>4, <2>5, <2>6, <2>7, <2>8 DEF QuietRadioOK
<1> QED BY <1>2, <1>3, QuietTypeIs DEF Quiet!TypeOK, QuietRadioOK

\* and every other step.
LEMMA QuietTypeNext ==
  ASSUME Quiet!TypeOK, [Quiet!Next]_rulesVars
  PROVE  Quiet!TypeOK'
<1>1. CASE UNCHANGED rulesVars BY <1>1 DEF rulesVars, Quiet!TypeOK
<1>2. CASE Quiet!Wait
  <2>1. /\ gone' = [r \in LoneRadios |-> Quiet!Min({gone[r] + 1, Quiet!Horizon})]
        /\ missed' = [r \in LoneRadios |-> Quiet!NotOnTime] /\ report' = {}
        /\ UNCHANGED <<air, answers, level, rows, seen, recent, marks>>
    BY <1>2 DEF Quiet!Wait, Quiet!airVars
  <2>2. ASSUME NEW r \in LoneRadios
        PROVE  QuietRadioOK(rows[r], seen[r], recent[r], gone'[r], missed'[r], r)
    <3>1. QuietRadioOK(rows[r], seen[r], recent[r], gone[r], missed[r], r) BY QuietTypeIs
    <3>2. gone[r] \in Nat /\ Quiet!Horizon \in Nat BY <3>1, QuietConstants DEF QuietRadioOK
    <3>3. gone'[r] \in 0..Quiet!Horizon BY <2>1, <3>2, QuietMin
    <3>4. missed'[r] = Quiet!NotOnTime BY <2>1
    <3> QED BY <3>1, <3>3, <3>4 DEF QuietRadioOK
  <2> QED BY <2>1, <2>2, QuietTypeIs DEF Quiet!TypeOK, QuietRadioOK
<1>3. ASSUME NEW r \in LoneRadios, Quiet!Change(r) PROVE Quiet!TypeOK'
  <2>1. PICK sound \in LoneSounds \cup {Quiet!Silent} : air' = [air EXCEPT ![r] = sound]
    BY <1>3 DEF Quiet!Change
  <2>2. PICK n \in SUBSET LoneAnswers : answers' = [answers EXCEPT ![r] = n]
    BY <1>3 DEF Quiet!Change
  <2>3. report' = {} /\ UNCHANGED <<level, rows, seen, recent, gone, marks, missed>>
    BY <1>3 DEF Quiet!Change, Quiet!dbVars
  <2>4. air' \in [LoneRadios -> LoneSounds \cup {Quiet!Silent}] BY <2>1 DEF Quiet!TypeOK
  <2>5. answers' \in [LoneRadios -> SUBSET Names] BY <2>2, QuietConstants DEF Quiet!TypeOK
  <2> QED BY <2>3, <2>4, <2>5 DEF Quiet!TypeOK
<1>4. ASSUME NEW r \in LoneRadios, Quiet!Drift(r) PROVE Quiet!TypeOK'
  BY <1>4 DEF Quiet!Drift, Quiet!dbVars, Quiet!TypeOK
<1>5. CASE Quiet!AddMark \/ Quiet!RemoveMark
  BY <1>5 DEF Quiet!AddMark, Quiet!RemoveMark, Quiet!airVars, Quiet!dbVars, Quiet!TypeOK
<1> QED
  BY <1>1, <1>2, <1>3, <1>4, <1>5, QuietScanKeepsType, QuietFailureKeepsType DEF Quiet!Next

\* A loss that is due is among what a scan finds, and is not left out of it.
LEMMA LossIsFound ==
  ASSUME Quiet!TypeOK, NEW probed, Quiet!Scan(probed), LoneMissing > 0,
         "watched_ap_missing" \notin Muted, "medium" \in Severe, NEW r \in LoneRadios,
         missed'[r] = LoneMissing, rows[r] # Quiet!NoRow,
         Quiet!Matches("watch", rows[r]), ~Quiet!Matches("ignore", rows[r])
  PROVE  \E f \in report' : f.rule = "watched_ap_missing" /\ f.about[2] = r
<1> DEFINE f == [rule |-> "watched_ap_missing", severity |-> "medium", about |-> <<"bssid", r>>]
<1>1. PICK gap \in Paces, scan \in Quiet!Scans(probed), list \in Quiet!Orders(Quiet!Audible) :
        report' = Quiet!Kept(Quiet!Found(scan, rows, seen, Quiet!Latest, Quiet!Away(gap), list), scan, list)
  BY DEF Quiet!Scan
<1>2. missed'[r] = IF r \in Quiet!Audible THEN 0
                   ELSE IF missed[r] = Quiet!NotOnTime THEN Quiet!NotOnTime
                   ELSE Quiet!Min({missed[r] + 1, Quiet!Horizon})
  BY DEF Quiet!Scan
<1>3. LoneMissing \in Nat /\ Quiet!Horizon = 4 * LoneMissing /\ Quiet!Horizon \in Nat /\ gap \in 1..3
  BY QuietConstants
<1>4. r \notin Quiet!Audible /\ missed[r] # Quiet!NotOnTime
  BY <1>2, <1>3 DEF Quiet!NotOnTime
<1>5. Quiet!Lags(missed[r], gone[r]) /\ missed[r] \in Nat /\ gone[r] \in Nat
  BY <1>4, <1>3 DEF Quiet!TypeOK, Quiet!Lags
<1>6. LoneMissing <= Quiet!Away(gap)[r] /\ Quiet!Away(gap)[r] < Quiet!Horizon
  <2>1. LoneMissing = IF missed[r] + 1 <= Quiet!Horizon THEN missed[r] + 1 ELSE Quiet!Horizon
    BY <1>2, <1>3, <1>4, <1>5, QuietMin
  <2>2. missed[r] + 1 = LoneMissing BY <1>3, <1>5, <2>1
  <2>3. missed[r] <= gone[r] /\ gone[r] <= 3 * missed[r] BY <1>3, <1>5, <2>2 DEF Quiet!Lags
  <2>4. Quiet!Away(gap)[r] = IF gone[r] + gap <= Quiet!Horizon THEN gone[r] + gap ELSE Quiet!Horizon
    BY <1>4, QuietAway
  <2> QED BY <1>3, <1>5, <2>2, <2>3, <2>4
<1>7. \A x \in scan : x.bssid # r BY <1>4, QuietScanIs
<1>8. f \in Quiet!WatchedMissing(scan, Quiet!Away(gap))
  BY <1>3, <1>6, <1>7 DEF Quiet!WatchedMissing
<1>9. f \in Quiet!Found(scan, rows, seen, Quiet!Latest, Quiet!Away(gap), list)
  BY <1>8 DEF Quiet!Found
<1>10. f.rule = "watched_ap_missing" /\ f.severity = "medium" /\ f.about[1] = "bssid" /\ f.about[2] = r
  OBVIOUS
<1> HIDE DEF f
<1>11. Quiet!NamedBy(f, scan, list) = {r} BY <1>10 DEF Quiet!NamedBy
<1>12. f \in report'
  <2>1. report' = {g \in Quiet!Found(scan, rows, seen, Quiet!Latest, Quiet!Away(gap), list) :
                     /\ g.rule \notin Muted /\ g.severity \in Severe
                     /\ \A q \in Quiet!NamedBy(g, scan, list) :
                          ~(\/ \E x \in scan : x.bssid = q /\ Quiet!Matches("ignore", x)
                            \/ q \notin Quiet!Audible /\ Quiet!Matches("ignore", rows[q]))}
    BY <1>1 DEF Quiet!Kept
  <2> QED BY <1>7, <1>9, <1>10, <1>11, <2>1
<1> QED BY <1>10, <1>12

\* So no step leaves a loss that is due untold.
LEMMA LossNext ==
  ASSUME Quiet!TypeOK, [Quiet!Next]_rulesVars
  PROVE  Quiet!LossIsReported
<1> SUFFICES ASSUME LoneMissing > 0, "watched_ap_missing" \notin Muted, "medium" \in Severe,
                    NEW r \in LoneRadios,
                    missed'[r] = LoneMissing, missed[r] # LoneMissing, rows[r] # Quiet!NoRow,
                    Quiet!Matches("watch", rows[r]), ~Quiet!Matches("ignore", rows[r])
             PROVE  \E f \in report' : f.rule = "watched_ap_missing" /\ f.about[2] = r
  BY DEF Quiet!LossIsReported
<1>1. LoneMissing \in Nat BY QuietConstants
<1>2. missed' # missed OBVIOUS
<1>3. ASSUME NEW probed, Quiet!Scan(probed)
      PROVE  \E f \in report' : f.rule = "watched_ap_missing" /\ f.about[2] = r
  BY <1>3, LossIsFound
<1>4. ASSUME NEW probed, Quiet!ScanFails(probed) PROVE FALSE
  <2>1. missed'[r] \in {0, -1} BY <1>4 DEF Quiet!ScanFails, Quiet!NotOnTime
  <2> QED BY <1>1, <2>1
<1>5. ~Quiet!Wait
  <2>1. Quiet!Wait => missed'[r] = -1 BY DEF Quiet!Wait, Quiet!NotOnTime
  <2> QED BY <1>1, <2>1
<1>6. ~Quiet!AddMark /\ ~Quiet!RemoveMark /\ ~UNCHANGED rulesVars
  BY <1>2 DEF Quiet!AddMark, Quiet!RemoveMark, rulesVars
<1>7. \A q \in LoneRadios : ~Quiet!Change(q) /\ ~Quiet!Drift(q)
  BY <1>2 DEF Quiet!Change, Quiet!Drift
<1> QED BY <1>3, <1>4, <1>5, <1>6, <1>7 DEF Quiet!Next

(***************************************************************************)
(* The same type, where there is much on the air                           *)
(***************************************************************************)

\* What is assumed of the constants.
LEMMA AirConstants ==
  /\ CrowdBaseline \in Nat /\ CrowdBaseline > 0 /\ CrowdMissing \in Nat
  /\ Air!Horizon \in Nat /\ Air!Horizon = 4 * CrowdMissing
  /\ CrowdAnswers \subseteq Names /\ {1} \subseteq 1..3
<1>1. Air!RulesConstantsOK BY PartsAreWellFormed
<1>2. CrowdBaseline \in Nat /\ CrowdBaseline > 0 /\ CrowdMissing \in Nat
  BY <1>1 DEF Air!RulesConstantsOK
<1>3. CrowdAnswers \subseteq Names /\ {1} \subseteq 1..3 BY <1>1 DEF Air!RulesConstantsOK
<1>4. Air!Horizon = 4 * CrowdMissing BY DEF Air!Horizon
<1> QED BY <1>2, <1>3, <1>4

\* Counting up to a bound.
LEMMA AirMin ==
  ASSUME NEW n \in Nat, NEW cap \in Nat
  PROVE  /\ Air!Min({n + 1, cap}) \in 0..cap
         /\ Air!Min({n + 1, cap}) = IF n + 1 <= cap THEN n + 1 ELSE cap
         /\ Air!Min({cap, n + 1}) = Air!Min({n + 1, cap})
<1> DEFINE m == IF n + 1 <= cap THEN n + 1 ELSE cap
<1>1. m \in {n + 1, cap} /\ \A y \in {n + 1, cap} : m <= y OBVIOUS
<1>2. \A x \in {n + 1, cap} : (\A y \in {n + 1, cap} : x <= y) => x = m OBVIOUS
<1>3. Air!Min({n + 1, cap}) = m BY <1>1, <1>2 DEF Air!Min
<1>4. {n + 1, cap} = {cap, n + 1} OBVIOUS
<1> HIDE DEF m
<1>5. Air!Min({cap, n + 1}) = m BY <1>3, <1>4
<1> QED BY <1>3, <1>5 DEF m

\* What a scan has of a radio is about it, and it has all that are on the air.
LEMMA AirScanIs ==
  ASSUME NEW probed, NEW scan \in Air!Scans(probed)
  PROVE  /\ \A x \in scan : x.bssid \in Air!Audible
         /\ \A r \in Air!Audible : \E x \in scan : x.bssid = r
<1>1. ASSUME NEW r, NEW x \in Air!Entries(r, probed) PROVE x.bssid = r
  <2> DEFINE rec == Air!Record(r, probed)
  <2>1. rec.bssid = r /\ "bssid" \in DOMAIN rec BY DEF Air!Record, Air!RecordAt
  <2> HIDE DEF rec
  <2>2. \A n : [rec EXCEPT !.name = n, !.hidden = FALSE].bssid = r BY <2>1
  <2> QED BY <2>1, <2>2 DEF Air!Entries, rec
<1>2. PICK k \in [Air!Audible -> UNION {Air!Entries(r, probed) : r \in Air!Audible}] :
        (\A r \in Air!Audible : k[r] \in Air!Entries(r, probed)) /\ scan = Air!Range(k)
  BY DEF Air!Scans
<1>3. scan = {k[r] : r \in Air!Audible} BY <1>2 DEF Air!Range
<1>4. \A r \in Air!Audible : k[r].bssid = r BY <1>1, <1>2
<1> QED BY <1>3, <1>4

\* What is stored of a radio names it, and only of those on the air anything changes.
LEMMA AirStored ==
  ASSUME NEW probed, NEW scan \in Air!Scans(probed), NEW r \in CrowdRadios
  PROVE  IF r \in Air!Audible
         THEN Air!Stored(scan)[r] # Air!NoRow /\ Air!Stored(scan)[r].bssid = r
         ELSE Air!Stored(scan)[r] = rows[r]
<1> DEFINE mine == {x \in scan : x.bssid = r}
           x == CHOOSE y \in mine : TRUE
<1>1. Air!Stored(scan)[r] = IF mine = {} THEN rows[r] ELSE Air!Row(x)
  BY DEF Air!Stored
<1>2. r \in Air!Audible <=> mine # {} BY AirScanIs
<1>3. mine # {} => x \in mine OBVIOUS
<1> HIDE DEF x
<1>4. mine # {} => x.bssid = r BY <1>3
<1>5. Air!Row(x).bssid = x.bssid BY DEF Air!Row
<1>6. Air!Row(x) # Air!NoRow
  <2>1. "bssid" \in DOMAIN Air!Row(x) BY DEF Air!Row
  <2>2. "bssid" \notin DOMAIN Air!NoRow BY DEF Air!NoRow
  <2> QED BY <2>1, <2>2
<1> QED BY <1>1, <1>2, <1>4, <1>5, <1>6

\* The counts of a radio, and its latest levels, after a scan that heard it or did not.
LEMMA AirCounts ==
  ASSUME Air!TypeOK, NEW r \in CrowdRadios
  PROVE  /\ Air!Counted[r] \in 0..CrowdBaseline
         /\ r \in Air!Audible => Air!Counted[r] # 0
         /\ r \notin Air!Audible => Air!Counted[r] = seen[r]
         /\ seen[r] <= Air!Counted[r]
         /\ Air!Latest[r] \in Seq(Levels) /\ Len(Air!Latest[r]) <= Air!Counted[r]
<1>1. /\ seen[r] \in Nat /\ seen[r] <= CrowdBaseline /\ gone[r] \in Nat
      /\ recent[r] \in Seq(Levels) /\ Len(recent[r]) <= seen[r] /\ level[r] \in Levels
  BY AirConstants DEF Air!TypeOK
<1>2. CrowdBaseline \in Nat /\ CrowdBaseline > 0 /\ Air!Horizon \in Nat BY AirConstants
<1>3. Air!Counted[r] = IF r \in Air!Audible THEN Air!Min({seen[r] + 1, CrowdBaseline})
                         ELSE seen[r]
  BY DEF Air!Counted
<1>4. /\ Air!Min({seen[r] + 1, CrowdBaseline}) \in 0..CrowdBaseline
      /\ Air!Min({seen[r] + 1, CrowdBaseline})
           = IF seen[r] + 1 <= CrowdBaseline THEN seen[r] + 1 ELSE CrowdBaseline
  BY <1>1, <1>2, AirMin
<1> DEFINE all == <<level[r]>> \o recent[r]
           old == Len(recent[r])
           n == Air!Min({CrowdBaseline, old + 1})
<1>6. Air!Latest[r] = IF r \notin Air!Audible THEN recent[r] ELSE SubSeq(all, 1, n)
  BY DEF Air!Latest
<1>7. all \in Seq(Levels) /\ Len(all) = old + 1 /\ old \in Nat /\ old <= seen[r] BY <1>1
<1> HIDE DEF all, old
<1>8. n = IF old + 1 <= CrowdBaseline THEN old + 1 ELSE CrowdBaseline
  <2>1. n = Air!Min({old + 1, CrowdBaseline}) BY <1>2, <1>7, AirMin
  <2>2. Air!Min({old + 1, CrowdBaseline}) = IF old + 1 <= CrowdBaseline THEN old + 1 ELSE CrowdBaseline
    BY <1>2, <1>7, AirMin
  <2> QED BY <2>1, <2>2
<1> HIDE DEF n
<1>9. n \in Nat /\ n <= Len(all) BY <1>2, <1>7, <1>8
<1>10. SubSeq(all, 1, n) \in Seq(Levels) /\ Len(SubSeq(all, 1, n)) = n BY <1>7, <1>9
<1>11. CASE r \in Air!Audible
  <2>1. Air!Counted[r] = IF seen[r] + 1 <= CrowdBaseline THEN seen[r] + 1 ELSE CrowdBaseline
    BY <1>3, <1>4, <1>11
  <2>2. Air!Latest[r] = SubSeq(all, 1, n) BY <1>6, <1>11
  <2>3. n <= Air!Counted[r] BY <1>1, <1>2, <1>7, <1>8, <2>1
  <2> QED BY <1>1, <1>2, <1>10, <1>11, <2>1, <2>2, <2>3
<1>12. CASE r \notin Air!Audible
  BY <1>1, <1>2, <1>3, <1>6, <1>12
<1> QED BY <1>11, <1>12

\* How long a radio has been away after a scan.
LEMMA AirAway ==
  ASSUME Air!TypeOK, NEW r \in CrowdRadios, NEW gap \in {1}
  PROVE  /\ Air!Away(gap)[r] \in 0..Air!Horizon
         /\ Air!Away(gap)[r] = IF r \in Air!Audible THEN 0
                             ELSE IF gone[r] + gap <= Air!Horizon THEN gone[r] + gap
                             ELSE Air!Horizon
<1>1. gone[r] \in Nat /\ Air!Horizon \in Nat /\ gap \in 1..3
  BY AirConstants DEF Air!TypeOK
<1> DEFINE n == gone[r] + gap - 1
<1>2. n \in Nat /\ n + 1 = gone[r] + gap BY <1>1
<1> HIDE DEF n
<1>3. Air!Min({n + 1, Air!Horizon}) = IF n + 1 <= Air!Horizon THEN n + 1 ELSE Air!Horizon
  BY <1>1, <1>2, AirMin
<1>4. Air!Away(gap)[r] = IF r \in Air!Audible THEN 0 ELSE Air!Min({n + 1, Air!Horizon})
  BY <1>2 DEF Air!Away
<1> QED BY <1>1, <1>2, <1>3, <1>4

\* A scan more on time, and what it adds to the time.
LEMMA AirLag ==
  ASSUME NEW n \in Nat, NEW time \in Nat, Air!Lags(n, time), NEW gap \in {1},
         NEW more, more = Air!Min({n + 1, Air!Horizon}),
         NEW after, after = IF time + gap <= Air!Horizon THEN time + gap ELSE Air!Horizon
  PROVE  Air!Lags(more, after)
<1>1. CrowdMissing \in Nat /\ Air!Horizon \in Nat /\ Air!Horizon = 4 * CrowdMissing /\ gap \in 1..3
  BY AirConstants
<1>2. more = IF n + 1 <= Air!Horizon THEN n + 1 ELSE Air!Horizon BY <1>1, AirMin
<1>3. more \in Nat BY <1>1, <1>2
<1>4. ASSUME more <= CrowdMissing PROVE more <= after /\ after <= 3 * more
  BY <1>1, <1>2, <1>4 DEF Air!Lags
<1> QED BY <1>3, <1>4 DEF Air!Lags

\* The types, at the start.
LEMMA AirTypeInit == ASSUME Air!Init PROVE Air!TypeOK
<1>1. CrowdBaseline \in Nat /\ Air!Horizon \in Nat BY AirConstants
<1>2. /\ air \in [CrowdRadios -> CrowdSounds \cup {Air!Silent}]
      /\ answers \in [CrowdRadios -> SUBSET Names] /\ level \in [CrowdRadios -> Levels]
      /\ marks \subseteq CrowdMarks
      /\ \A f \in report : f.rule \notin Muted /\ f.severity \in Severe
  BY DEF Air!Init
<1>3. ASSUME NEW r \in CrowdRadios
      PROVE  /\ rows[r] = Air!NoRow /\ seen[r] = 0 /\ recent[r] = <<>> /\ gone[r] = 0
             /\ missed[r] = 0
  BY DEF Air!Init
<1>4. <<>> \in Seq(Levels) /\ Len(<<>>) = 0 OBVIOUS
<1>5. 0 \in 0..CrowdBaseline /\ 0 \in 0..Air!Horizon BY <1>1
<1>6. \A r \in CrowdRadios :
        /\ rows[r] # Air!NoRow => rows[r].bssid = r
        /\ (rows[r] = Air!NoRow) = (seen[r] = 0) /\ seen[r] \in 0..CrowdBaseline
        /\ recent[r] \in Seq(Levels) /\ Len(recent[r]) <= seen[r]
        /\ gone[r] \in 0..Air!Horizon
        /\ missed[r] # Air!NotOnTime => Air!Lags(missed[r], gone[r])
  <2> TAKE r \in CrowdRadios
  <2>1. recent[r] = <<>> /\ seen[r] = 0 BY <1>3
  <2>2. recent[r] \in Seq(Levels) /\ Len(recent[r]) <= seen[r]
    <3>1. Len(recent[r]) = 0 /\ recent[r] \in Seq(Levels) BY <1>4, <2>1, Zenon
    <3> QED BY <2>1, <3>1
  <2>3. (rows[r] = Air!NoRow) = (seen[r] = 0) BY <1>3
  <2>4. Air!Lags(missed[r], gone[r]) BY <1>3 DEF Air!Lags
  <2> QED BY <1>3, <1>5, <2>2, <2>3, <2>4
<1> QED BY <1>2, <1>6 DEF Air!TypeOK

\* What a radio is like after a step that tells it so.
AirRadioOK(row, times, latest, away, late, r) ==
  /\ row # Air!NoRow => row.bssid = r
  /\ (row = Air!NoRow) = (times = 0) /\ times \in 0..CrowdBaseline
  /\ latest \in Seq(Levels) /\ Len(latest) <= times
  /\ away \in 0..Air!Horizon
  /\ late # Air!NotOnTime => Air!Lags(late, away)

\* The types are those of each radio and of the rest.
LEMMA AirTypeIs ==
  Air!TypeOK <=>
    /\ air \in [CrowdRadios -> CrowdSounds \cup {Air!Silent}]
    /\ answers \in [CrowdRadios -> SUBSET Names] /\ level \in [CrowdRadios -> Levels]
    /\ \A r \in CrowdRadios : AirRadioOK(rows[r], seen[r], recent[r], gone[r], missed[r], r)
    /\ marks \subseteq CrowdMarks
    /\ \A f \in report : f.rule \notin Muted /\ f.severity \in Severe
BY DEF Air!TypeOK, AirRadioOK

\* A scan keeps them,
LEMMA AirScanKeepsType ==
  ASSUME Air!TypeOK, NEW probed, Air!Scan(probed)
  PROVE  Air!TypeOK'
<1>0. PICK gap \in {1} :
        /\ \E scan \in Air!Scans(probed), list \in Air!Orders(Air!Audible) :
             /\ report' = Air!Kept(Air!Found(scan, rows, seen, Air!Latest, Air!Away(gap), list), scan, list)
             /\ rows' = Air!Stored(scan)
        /\ gone' = Air!Away(gap)
  BY DEF Air!Scan
<1>1. PICK scan \in Air!Scans(probed), list \in Air!Orders(Air!Audible) :
        /\ report' = Air!Kept(Air!Found(scan, rows, seen, Air!Latest, Air!Away(gap), list), scan, list)
        /\ rows' = Air!Stored(scan)
  BY <1>0
<1>2. /\ seen' = Air!Counted /\ recent' = Air!Latest /\ gone' = Air!Away(gap)
      /\ missed' = [r \in CrowdRadios |-> IF r \in Air!Audible THEN 0
                       ELSE IF missed[r] = Air!NotOnTime THEN Air!NotOnTime
                       ELSE Air!Min({missed[r] + 1, Air!Horizon})]
      /\ UNCHANGED <<air, answers, level, marks, order>>
  BY <1>0 DEF Air!Scan, Air!airVars
<1>3. \A f \in report' : f.rule \notin Muted /\ f.severity \in Severe
  BY <1>1 DEF Air!Kept
<1>4. ASSUME NEW r \in CrowdRadios
      PROVE  AirRadioOK(rows'[r], seen'[r], recent'[r], gone'[r], missed'[r], r)
  <2>1. AirRadioOK(rows[r], seen[r], recent[r], gone[r], missed[r], r) BY AirTypeIs
  <2>2. rows'[r] = Air!Stored(scan)[r] BY <1>1
  <2>3. seen'[r] = Air!Counted[r] /\ recent'[r] = Air!Latest[r] /\ gone'[r] = Air!Away(gap)[r]
    BY <1>2
  <2>7. /\ gone'[r] \in 0..Air!Horizon
        /\ gone'[r] = IF r \in Air!Audible THEN 0
                      ELSE IF gone[r] + gap <= Air!Horizon THEN gone[r] + gap ELSE Air!Horizon
    BY <2>3, AirAway
  <2>4. missed'[r] # Air!NotOnTime => Air!Lags(missed'[r], gone'[r])
    <3>1. missed'[r] = IF r \in Air!Audible THEN 0
                       ELSE IF missed[r] = Air!NotOnTime THEN Air!NotOnTime
                       ELSE Air!Min({missed[r] + 1, Air!Horizon})
      BY <1>2
    <3>2. CASE r \in Air!Audible BY <2>7, <3>1, <3>2 DEF Air!Lags
    <3>3. CASE r \notin Air!Audible /\ missed[r] # Air!NotOnTime
      <4>1. Air!Lags(missed[r], gone[r]) /\ gone[r] \in Nat /\ missed[r] \in Nat
        BY <2>1, <3>3, AirConstants DEF AirRadioOK, Air!Lags
      <4>2. missed'[r] = Air!Min({missed[r] + 1, Air!Horizon}) BY <3>1, <3>3
      <4> QED BY <2>7, <3>3, <4>1, <4>2, AirLag
    <3> QED BY <3>1, <3>2, <3>3
  <2>5. /\ Air!Counted[r] \in 0..CrowdBaseline
        /\ r \in Air!Audible => Air!Counted[r] # 0
        /\ r \notin Air!Audible => Air!Counted[r] = seen[r]
        /\ Air!Latest[r] \in Seq(Levels) /\ Len(Air!Latest[r]) <= Air!Counted[r]
    BY AirCounts
  <2>6. IF r \in Air!Audible
        THEN Air!Stored(scan)[r] # Air!NoRow /\ Air!Stored(scan)[r].bssid = r
        ELSE Air!Stored(scan)[r] = rows[r]
    BY AirStored
  <2> QED BY <2>1, <2>2, <2>3, <2>4, <2>5, <2>6, <2>7 DEF AirRadioOK
<1> QED BY <1>2, <1>3, <1>4, AirTypeIs DEF Air!TypeOK, AirRadioOK

\* and one that fails,
LEMMA AirFailureKeepsType ==
  ASSUME Air!TypeOK, NEW probed, Air!ScanFails(probed)
  PROVE  Air!TypeOK'
<1>1. PICK scan \in Air!Scans(probed) : rows' = Air!Stored(scan) BY DEF Air!ScanFails
<1>0. PICK gap \in {1} : gone' = Air!Away(gap) BY DEF Air!ScanFails
<1>2. /\ seen' = Air!Counted /\ gone' = Air!Away(gap)
      /\ missed' = [r \in CrowdRadios |-> IF r \in Air!Audible THEN 0 ELSE Air!NotOnTime]
      /\ report' = {} /\ UNCHANGED <<air, answers, level, recent, marks, order>>
  BY <1>0 DEF Air!ScanFails, Air!airVars
<1>3. ASSUME NEW r \in CrowdRadios
      PROVE  AirRadioOK(rows'[r], seen'[r], recent'[r], gone'[r], missed'[r], r)
  <2>1. AirRadioOK(rows[r], seen[r], recent[r], gone[r], missed[r], r) BY AirTypeIs
  <2>2. rows'[r] = Air!Stored(scan)[r] BY <1>1
  <2>3. seen'[r] = Air!Counted[r] /\ recent'[r] = recent[r] /\ gone'[r] = Air!Away(gap)[r]
        /\ missed'[r] = IF r \in Air!Audible THEN 0 ELSE Air!NotOnTime
    BY <1>2
  <2>8. gone'[r] \in 0..Air!Horizon /\ (r \in Air!Audible => gone'[r] = 0)
    BY <2>3, AirAway
  <2>4. missed'[r] # Air!NotOnTime => Air!Lags(missed'[r], gone'[r])
    BY <2>3, <2>8 DEF Air!Lags
  <2>5. /\ Air!Counted[r] \in 0..CrowdBaseline
        /\ r \in Air!Audible => Air!Counted[r] # 0
        /\ r \notin Air!Audible => Air!Counted[r] = seen[r]
        /\ seen[r] <= Air!Counted[r]
    BY AirCounts
  <2>6. IF r \in Air!Audible
        THEN Air!Stored(scan)[r] # Air!NoRow /\ Air!Stored(scan)[r].bssid = r
        ELSE Air!Stored(scan)[r] = rows[r]
    BY AirStored
  <2>7. Len(recent[r]) <= Air!Counted[r]
    <3>1. Len(recent[r]) \in Nat /\ seen[r] \in Nat /\ Len(recent[r]) <= seen[r]
      BY <2>1, AirConstants DEF AirRadioOK
    <3>2. Air!Counted[r] \in Nat BY <2>5, AirConstants
    <3> QED BY <2>5, <3>1, <3>2
  <2> QED BY <2>1, <2>2, <2>3, <2>4, <2>5, <2>6, <2>7, <2>8 DEF AirRadioOK
<1> QED BY <1>2, <1>3, AirTypeIs DEF Air!TypeOK, AirRadioOK

\* and every other step.
LEMMA AirTypeNext ==
  ASSUME Air!TypeOK, [Air!Next]_rulesVars
  PROVE  Air!TypeOK'
<1>1. CASE UNCHANGED rulesVars BY <1>1 DEF rulesVars, Air!TypeOK
<1>2. CASE Air!Wait
  <2>1. /\ gone' = [r \in CrowdRadios |-> Air!Min({gone[r] + 1, Air!Horizon})]
        /\ missed' = [r \in CrowdRadios |-> Air!NotOnTime] /\ report' = {}
        /\ UNCHANGED <<air, answers, level, rows, seen, recent, marks>>
    BY <1>2 DEF Air!Wait, Air!airVars
  <2>2. ASSUME NEW r \in CrowdRadios
        PROVE  AirRadioOK(rows[r], seen[r], recent[r], gone'[r], missed'[r], r)
    <3>1. AirRadioOK(rows[r], seen[r], recent[r], gone[r], missed[r], r) BY AirTypeIs
    <3>2. gone[r] \in Nat /\ Air!Horizon \in Nat BY <3>1, AirConstants DEF AirRadioOK
    <3>3. gone'[r] \in 0..Air!Horizon BY <2>1, <3>2, AirMin
    <3>4. missed'[r] = Air!NotOnTime BY <2>1
    <3> QED BY <3>1, <3>3, <3>4 DEF AirRadioOK
  <2> QED BY <2>1, <2>2, AirTypeIs DEF Air!TypeOK, AirRadioOK
<1>3. ASSUME NEW r \in CrowdRadios, Air!Change(r) PROVE Air!TypeOK'
  <2>1. PICK sound \in CrowdSounds \cup {Air!Silent} : air' = [air EXCEPT ![r] = sound]
    BY <1>3 DEF Air!Change
  <2>2. PICK n \in SUBSET CrowdAnswers : answers' = [answers EXCEPT ![r] = n]
    BY <1>3 DEF Air!Change
  <2>3. report' = {} /\ UNCHANGED <<level, rows, seen, recent, gone, marks, missed>>
    BY <1>3 DEF Air!Change, Air!dbVars
  <2>4. air' \in [CrowdRadios -> CrowdSounds \cup {Air!Silent}] BY <2>1 DEF Air!TypeOK
  <2>5. answers' \in [CrowdRadios -> SUBSET Names] BY <2>2, AirConstants DEF Air!TypeOK
  <2> QED BY <2>3, <2>4, <2>5 DEF Air!TypeOK
<1>4. ASSUME NEW r \in CrowdRadios, Air!Drift(r) PROVE Air!TypeOK'
  BY <1>4 DEF Air!Drift, Air!dbVars, Air!TypeOK
<1>5. CASE Air!AddMark \/ Air!RemoveMark
  BY <1>5 DEF Air!AddMark, Air!RemoveMark, Air!airVars, Air!dbVars, Air!TypeOK
<1> QED
  BY <1>1, <1>2, <1>3, <1>4, <1>5, AirScanKeepsType, AirFailureKeepsType DEF Air!Next

(***************************************************************************)
(* Drifting: of two scans that differ in levels only, the same is told     *)
(***************************************************************************)

\* Two records of which all but the level is the same.
Alike(x, y) ==
  /\ x.bssid = y.bssid /\ x.name = y.name /\ x.hidden = y.hidden
  /\ x.security = y.security /\ x.enterprise = y.enterprise /\ x.tkip = y.tkip
  /\ x.pmf = y.pmf /\ x.wps = y.wps /\ x.facts = y.facts /\ x.channel = y.channel
  /\ x.band = y.band /\ x.width = y.width /\ x.load = y.load /\ x.country = y.country
  /\ x.beacon = y.beacon /\ x.elements = y.elements /\ x.broken = y.broken

\* Two scans that differ in levels only.
Twins(s, t) ==
  /\ \A x \in s : \E y \in t : Alike(x, y)
  /\ \A y \in t : \E x \in s : Alike(x, y)

\* The scan at some levels.
HeardAt(loud) == {Air!RecordAt(r, Air!NoName, loud[r]) : r \in Air!Audible}

\* At whatever levels, they are such scans.
LEMMA HeardAreTwins == ASSUME Air!TypeOK, NEW l, NEW m PROVE Twins(HeardAt(l), HeardAt(m))
<1>1. ASSUME NEW r \in Air!Audible, NEW a, NEW b
      PROVE  Alike(Air!RecordAt(r, Air!NoName, a), Air!RecordAt(r, Air!NoName, b))
  <2> DEFINE s == air[r]
             x == Air!RecordAt(r, Air!NoName, a)
             y == Air!RecordAt(r, Air!NoName, b)
             own(f) == f \in {"bssid", "name", "hidden", "rssi"}
  <2>1. Air!SoundFields \subseteq DOMAIN s
    <3>1. s \in CrowdSounds BY DEF Air!TypeOK, Air!Audible
    <3>2. Air!RulesConstantsOK BY PartsAreWellFormed
    <3> QED BY <3>1, <3>2 DEF Air!RulesConstantsOK
  <2>2. \A f \in Air!SoundFields : x[f] = s[f] /\ y[f] = s[f]
    <3> SUFFICES ASSUME NEW f \in Air!SoundFields PROVE x[f] = s[f] /\ y[f] = s[f] OBVIOUS
    <3>1. f \in DOMAIN s /\ f \notin {"bssid", "name", "hidden", "rssi"}
      BY <2>1 DEF Air!SoundFields
    <3> QED BY <3>1 DEF Air!RecordAt
  <2>3. x.bssid = y.bssid /\ x.name = y.name /\ x.hidden = y.hidden BY DEF Air!RecordAt
  <2> HIDE DEF x, y
  <2>4. Alike(x, y) BY <2>2, <2>3 DEF Alike, Air!SoundFields
  <2> QED BY <2>4 DEF x, y
<1>2. \A x \in HeardAt(l) : \E y \in HeardAt(m) : Alike(x, y) BY <1>1 DEF HeardAt
<1>3. \A y \in HeardAt(m) : \E x \in HeardAt(l) : Alike(x, y) BY <1>1 DEF HeardAt
<1> QED BY <1>2, <1>3 DEF Twins

\* What is told of one is told of the other.
Tells(s, t) == \A f \in s : \E g \in t : g.rule = f.rule /\ g.about = f.about

\* What is told of a radio that is in both,
LEMMA AboutTold ==
  ASSUME NEW rule, NEW severity, NEW other, NEW s, NEW t,
         \A x \in s : \E y \in t : y.bssid = x.bssid
  PROVE  Tells(Air!About(rule, severity, s), Air!About(rule, other, t))
<1> SUFFICES ASSUME NEW f \in Air!About(rule, severity, s)
             PROVE  \E g \in Air!About(rule, other, t) : g.rule = f.rule /\ g.about = f.about
  BY DEF Tells
<1>1. PICK x \in s : f = [rule |-> rule, severity |-> severity, about |-> <<"bssid", x.bssid>>]
  BY DEF Air!About
<1>2. PICK y \in t : y.bssid = x.bssid OBVIOUS
<1> DEFINE g == [rule |-> rule, severity |-> other, about |-> <<"bssid", y.bssid>>]
<1>3. g \in Air!About(rule, other, t) BY DEF Air!About
<1>4. g.rule = f.rule /\ g.about = f.about BY <1>1, <1>2
<1> QED BY <1>3, <1>4

\* and of all of them together.
LEMMA SummaryTold ==
  ASSUME NEW rule, NEW severity, NEW other, NEW s, NEW t, s # {} => t # {}
  PROVE  Tells(Air!Summary(rule, severity, s), Air!Summary(rule, other, t))
<1> DEFINE f == [rule |-> rule, severity |-> severity, about |-> <<"-">>]
           g == [rule |-> rule, severity |-> other, about |-> <<"-">>]
<1>1. g.rule = f.rule /\ g.about = f.about OBVIOUS
<1> HIDE DEF f, g
<1>2. Air!Summary(rule, severity, s) = IF s = {} THEN {} ELSE {f} BY DEF Air!Summary, f
<1>3. Air!Summary(rule, other, t) = IF t = {} THEN {} ELSE {g} BY DEF Air!Summary, g
<1> QED BY <1>1, <1>2, <1>3 DEF Tells

\* The rules that tell of all that are of a kind.
LEMMA SameTold ==
  ASSUME NEW scan, NEW twin, Twins(scan, twin)
  PROVE  /\ Tells(Air!OpenNetwork(scan), Air!OpenNetwork(twin))
         /\ Tells(Air!Wpa3PmfOptional(scan), Air!Wpa3PmfOptional(twin))
         /\ Tells(Air!MixedScript(scan), Air!MixedScript(twin))
         /\ Tells(Air!Lure(scan), Air!Lure(twin))
         /\ Tells(Air!HiddenSsid(scan), Air!HiddenSsid(twin))
         /\ Tells(Air!Malformed(scan), Air!Malformed(twin))
         /\ Tells(Air!Wps(scan), Air!Wps(twin))
         /\ Tells(Air!PmfMissing(scan), Air!PmfMissing(twin))
         /\ Tells(Air!Disclosure(scan), Air!Disclosure(twin))
         /\ Tells(Air!Overlap(scan), Air!Overlap(twin))
<1>1. Tells(Air!OpenNetwork(scan), Air!OpenNetwork(twin))
  BY AboutTold DEF Twins, Alike, Air!OpenNetwork
<1>2. Tells(Air!Wpa3PmfOptional(scan), Air!Wpa3PmfOptional(twin))
  BY AboutTold DEF Twins, Alike, Air!Wpa3PmfOptional
<1>3. Tells(Air!MixedScript(scan), Air!MixedScript(twin))
  BY AboutTold DEF Twins, Alike, Air!MixedScript
<1>4. Tells(Air!Lure(scan), Air!Lure(twin))
  BY AboutTold DEF Twins, Alike, Air!Lure
<1>5. Tells(Air!HiddenSsid(scan), Air!HiddenSsid(twin))
  BY AboutTold DEF Twins, Alike, Air!HiddenSsid
<1>6. Tells(Air!Malformed(scan), Air!Malformed(twin))
  BY AboutTold DEF Twins, Alike, Air!Malformed
<1>7. Tells(Air!Wps(scan), Air!Wps(twin))
  <2>1. {x \in scan : x.wps # "none"} # {} => {x \in twin : x.wps # "none"} # {}
    BY DEF Twins, Alike
  <2> QED BY <2>1, SummaryTold DEF Air!Wps
<1>8. Tells(Air!PmfMissing(scan), Air!PmfMissing(twin))
  BY SummaryTold DEF Twins, Alike, Air!PmfMissing
<1>9. Tells(Air!Disclosure(scan), Air!Disclosure(twin))
  BY SummaryTold DEF Twins, Alike, Air!Disclosure
<1>10. Tells(Air!Overlap(scan), Air!Overlap(twin))
  <2> DEFINE Wide(S) == {x \in S : /\ x.band = "2.4" /\ x.channel \notin {Air!NoChannel, 1, 6, 11, 14}
                                  /\ x.width > 20}
  <2>1. Wide(scan) # {} => Wide(twin) # {}
    <3> SUFFICES ASSUME NEW x \in Wide(scan) PROVE Wide(twin) # {} OBVIOUS
    <3>1. PICK y \in twin : Alike(x, y) BY DEF Twins
    <3>2. x.band = y.band /\ x.channel = y.channel /\ x.width = y.width BY <3>1 DEF Alike
    <3>3. y \in Wide(twin) BY <3>2
    <3> QED BY <3>3
  <2>2. Tells(Air!Summary("adjacent_channel_overlap", "info", Wide(scan)),
              Air!Summary("adjacent_channel_overlap", "info", Wide(twin)))
    BY <2>1, SummaryTold
  <2> QED BY <2>2 DEF Air!Overlap
<1> QED BY <1>1, <1>2, <1>3, <1>4, <1>5, <1>6, <1>7, <1>8, <1>9, <1>10

\* Of two parts that are each told, both are.
LEMMA BothTold ==
  ASSUME NEW a, NEW b, NEW c, NEW d, Tells(a, c), Tells(b, d)
  PROVE  Tells(a \cup b, c \cup d)
BY DEF Tells

\* Marks do not look at the level.
LEMMA MatchesAlike ==
  ASSUME NEW x, NEW y, Alike(x, y), NEW kind
  PROVE  Air!Matches(kind, x) <=> Air!Matches(kind, y)
BY DEF Alike, Air!Matches

\* Rules of which the findings are at different severities.
LEMMA GradedTold ==
  ASSUME NEW scan, NEW twin, Twins(scan, twin), NEW before
  PROVE  /\ Tells(Air!WeakCrypto(scan), Air!WeakCrypto(twin))
         /\ Tells(Air!Randomized(scan), Air!Randomized(twin))
         /\ Tells(Air!ChannelChange(scan, before), Air!ChannelChange(twin, before))
         /\ Tells(Air!FingerprintChange(scan, before), Air!FingerprintChange(twin, before))
         /\ Tells(Air!Beacon(scan, before), Air!Beacon(twin, before))
<1>1. Tells(Air!WeakCrypto(scan), Air!WeakCrypto(twin))
  <2> DEFINE Wep(S) == {x \in S : x.security = "WEP"}
             Tkip(S) == {x \in S : x.tkip} \ Wep(S)
             Old(S) == {x \in S : x.security \in {"WPA", "WPA/WPA2 mixed"}} \ Tkip(S)
  <2>1. Tells(Air!About("weak_crypto", "high", Wep(scan)), Air!About("weak_crypto", "high", Wep(twin)))
    BY AboutTold DEF Twins, Alike
  <2>2. Tells(Air!About("weak_crypto", "medium", Tkip(scan)), Air!About("weak_crypto", "medium", Tkip(twin)))
    BY AboutTold DEF Twins, Alike
  <2>3. Tells(Air!About("weak_crypto", "low", Old(scan)), Air!About("weak_crypto", "low", Old(twin)))
    <3>1. \A x \in Old(scan) : \E y \in Old(twin) : y.bssid = x.bssid
      <4> SUFFICES ASSUME NEW x \in Old(scan) PROVE \E y \in Old(twin) : y.bssid = x.bssid OBVIOUS
      <4>1. PICK y \in twin : Alike(x, y) BY DEF Twins
      <4>2. y.bssid = x.bssid /\ y.security = x.security /\ y.tkip = x.tkip BY <4>1 DEF Alike
      <4>3. y \in Old(twin) BY <4>2
      <4> QED BY <4>2, <4>3
    <3> HIDE DEF Old
    <3> QED BY <3>1, AboutTold
  <2> QED BY <2>1, <2>2, <2>3, BothTold DEF Air!WeakCrypto
<1>2. Tells(Air!Randomized(scan), Air!Randomized(twin))
  <2> DEFINE Marked(S) == {x \in {x \in S : x.bssid \in CrowdLocal} : x.name \in Air!Tracked}
             Other(S) == {x \in {x \in S : x.bssid \in CrowdLocal} : x.name \notin Air!Tracked}
  <2>1. Tells(Air!About("randomized_bssid", "high", Marked(scan)),
              Air!About("randomized_bssid", "high", Marked(twin)))
    BY AboutTold DEF Twins, Alike
  <2>2. Tells(Air!About("randomized_bssid", "info", Other(scan)),
              Air!About("randomized_bssid", "info", Other(twin)))
    BY AboutTold DEF Twins, Alike
  <2> QED BY <2>1, <2>2, BothTold DEF Air!Randomized
<1>3. Tells(Air!ChannelChange(scan, before), Air!ChannelChange(twin, before))
  <2> DEFINE Moved(S) == {x \in S : /\ Air!Known(x, before)
                                    /\ before[x.bssid].channel \notin {Air!NoChannel, x.channel}
                                    /\ x.channel # Air!NoChannel /\ before[x.bssid].band = x.band}
             Watch(S) == {x \in Moved(S) : Air!Matches("watch", x)}
  <2>0. \A x \in scan : \E y \in twin :
          /\ y.bssid = x.bssid /\ (x \in Moved(scan) => y \in Moved(twin))
          /\ (Air!Matches("watch", x) <=> Air!Matches("watch", y))
    <3> SUFFICES ASSUME NEW x \in scan
                 PROVE  \E y \in twin :
                          /\ y.bssid = x.bssid /\ (x \in Moved(scan) => y \in Moved(twin))
                          /\ (Air!Matches("watch", x) <=> Air!Matches("watch", y))
      OBVIOUS
    <3>1. PICK y \in twin : Alike(x, y) BY DEF Twins
    <3>2. y.bssid = x.bssid /\ y.channel = x.channel /\ y.band = x.band BY <3>1 DEF Alike
    <3>3. x \in Moved(scan) => y \in Moved(twin) BY <3>2 DEF Air!Known
    <3> QED BY <3>1, <3>2, <3>3, MatchesAlike
  <2> HIDE DEF Moved
  <2>1. Tells(Air!About("channel_change", "medium", Watch(scan)),
              Air!About("channel_change", "medium", Watch(twin)))
    <3>1. \A x \in Watch(scan) : \E y \in Watch(twin) : y.bssid = x.bssid
      <4>1. Moved(scan) \subseteq scan BY DEF Moved
      <4> QED BY <2>0, <4>1
    <3> HIDE DEF Watch
    <3> QED BY <3>1, AboutTold
  <2>2. Tells(Air!About("channel_change", "info", Moved(scan) \ Watch(scan)),
              Air!About("channel_change", "info", Moved(twin) \ Watch(twin)))
    <3>1. Moved(scan) \subseteq scan BY DEF Moved
    <3> QED BY <2>0, <3>1, AboutTold
  <2> QED BY <2>1, <2>2, BothTold DEF Air!ChannelChange, Moved
<1>4. Tells(Air!FingerprintChange(scan, before), Air!FingerprintChange(twin, before))
  <2> DEFINE Touched(x) == Air!SymDiff(x.elements, before[x.bssid].elements)
             Changed(S) == {x \in S : Air!Known(x, before) /\ Touched(x) # {}}
             Serious(S) == {x \in Changed(S) : Touched(x) \cap WrittenElements # {}}
  <2>0. \A x \in scan : \E y \in twin :
          /\ y.bssid = x.bssid /\ Touched(x) = Touched(y)
          /\ (Air!Known(x, before) <=> Air!Known(y, before))
    BY DEF Twins, Alike, Air!Known
  <2> HIDE DEF Touched
  <2>1. Tells(Air!About("ie_fingerprint_change", "high", Serious(scan)),
              Air!About("ie_fingerprint_change", "high", Serious(twin)))
    BY <2>0, AboutTold
  <2>2. Tells(Air!About("ie_fingerprint_change", "low", Changed(scan) \ Serious(scan)),
              Air!About("ie_fingerprint_change", "low", Changed(twin) \ Serious(twin)))
    BY <2>0, AboutTold
  <2> QED BY <2>1, <2>2, BothTold DEF Air!FingerprintChange, Touched
<1>5. Tells(Air!Beacon(scan, before), Air!Beacon(twin, before))
  <2> DEFINE IsOdd(x) == x.beacon # 0 /\ (x.beacon < 50 \/ x.beacon > 200)
             IsNew(x) == /\ x.beacon # 0 /\ Air!Known(x, before)
                         /\ before[x.bssid].beacon \notin {0, x.beacon}
             Odd(S) == {x \in S : IsOdd(x)}
             Changed(S) == {x \in S \ Odd(S) : IsNew(x)}
  <2>0. \A x \in scan : \E y \in twin :
          y.bssid = x.bssid /\ (IsOdd(x) <=> IsOdd(y)) /\ (IsNew(x) <=> IsNew(y))
    <3> SUFFICES ASSUME NEW x \in scan
                 PROVE  \E y \in twin :
                          y.bssid = x.bssid /\ (IsOdd(x) <=> IsOdd(y)) /\ (IsNew(x) <=> IsNew(y))
      OBVIOUS
    <3>1. PICK y \in twin : Alike(x, y) BY DEF Twins
    <3>2. y.bssid = x.bssid /\ y.beacon = x.beacon BY <3>1 DEF Alike
    <3> QED BY <3>2 DEF Air!Known
  <2> HIDE DEF IsOdd, IsNew
  <2>1. Tells(Air!About("beacon_interval_anomaly", "low", Odd(scan)),
              Air!About("beacon_interval_anomaly", "low", Odd(twin)))
    BY <2>0, AboutTold
  <2>2. Tells(Air!About("beacon_interval_anomaly", "medium", Changed(scan)),
              Air!About("beacon_interval_anomaly", "medium", Changed(twin)))
    BY <2>0, AboutTold
  <2> QED BY <2>1, <2>2, BothTold DEF Air!Beacon, IsOdd, IsNew
<1> QED BY <1>1, <1>2, <1>3, <1>4, <1>5

\* A rule that compares radios of one scan, or a radio with what is stored of it.
LEMMA ComparedTold ==
  ASSUME NEW scan, NEW twin, Twins(scan, twin), NEW before, NEW away, NEW list
  PROVE  /\ Tells(Air!Downgrade(scan, before), Air!Downgrade(twin, before))
         /\ Tells(Air!NewBssid(scan, before), Air!NewBssid(twin, before))
         /\ Tells(Air!EnterpriseBait(scan), Air!EnterpriseBait(twin))
         /\ Tells(Air!WatchedMissing(scan, away), Air!WatchedMissing(twin, away))
         /\ Tells(Air!VendorMismatch(scan), Air!VendorMismatch(twin))
         /\ Tells(Air!MultiSsid(scan), Air!MultiSsid(twin))
         /\ Tells(Air!Conflicts(scan), Air!Conflicts(twin))
         /\ Tells(Air!CountryMismatch(scan, list), Air!CountryMismatch(twin, list))
         /\ Tells(Air!Congestion(scan), Air!Congestion(twin))
<1>0. \A S : Tells(S, S) BY DEF Tells
<1>1. Tells(Air!Downgrade(scan, before), Air!Downgrade(twin, before))
  BY AboutTold DEF Twins, Alike, Air!Downgrade, Air!Known
<1>2. Tells(Air!NewBssid(scan, before), Air!NewBssid(twin, before))
  <2> DEFINE Fresh(S) == {x \in S : /\ ~Air!Known(x, before)
                                    /\ Air!Matches("watch", x) \/ x.name \in Air!Tracked}
  <2>1. \A x \in Fresh(scan) : \E y \in Fresh(twin) : y.bssid = x.bssid
    <3> SUFFICES ASSUME NEW x \in Fresh(scan) PROVE \E y \in Fresh(twin) : y.bssid = x.bssid OBVIOUS
    <3>1. PICK y \in twin : Alike(x, y) BY DEF Twins
    <3>2. Air!Matches("watch", x) <=> Air!Matches("watch", y) BY <3>1, MatchesAlike
    <3>3. y.bssid = x.bssid /\ y.name = x.name BY <3>1 DEF Alike
    <3>4. y \in Fresh(twin) BY <3>2, <3>3 DEF Air!Known
    <3> QED BY <3>3, <3>4
  <2> HIDE DEF Fresh
  <2>2. Tells(Air!About("new_bssid", "medium", Fresh(scan)), Air!About("new_bssid", "medium", Fresh(twin)))
    BY <2>1, AboutTold
  <2> QED BY <2>2 DEF Air!NewBssid, Fresh
<1>3. Tells(Air!EnterpriseBait(scan), Air!EnterpriseBait(twin))
  <2> DEFINE Bait(S) == {x \in S : /\ ~x.enterprise /\ x.name # Air!NoName
                                   /\ \E y \in S : y.enterprise /\ y.name = x.name}
  <2>1. \A x \in Bait(scan) : \E y \in Bait(twin) : y.bssid = x.bssid
    BY DEF Twins, Alike
  <2> HIDE DEF Bait
  <2>2. Tells(Air!About("enterprise_downgrade_bait", "critical", Bait(scan)),
              Air!About("enterprise_downgrade_bait", "critical", Bait(twin)))
    BY <2>1, AboutTold
  <2> QED BY <2>2 DEF Air!EnterpriseBait, Bait
<1>4. Tells(Air!WatchedMissing(scan, away), Air!WatchedMissing(twin, away))
  <2>1. \A r : (\E x \in scan : x.bssid = r) <=> (\E x \in twin : x.bssid = r)
    BY DEF Twins, Alike
  <2>2. Air!WatchedMissing(scan, away) = Air!WatchedMissing(twin, away)
    BY <2>1 DEF Air!WatchedMissing
  <2> QED BY <1>0, <2>2
<1>5. Tells(Air!VendorMismatch(scan), Air!VendorMismatch(twin))
  <2> DEFINE Vendors(S, n) == {CrowdVendor[y.bssid] : y \in {y \in S : y.name = n}}
             Odd(S) == {x \in S : /\ x.name \in Air!Tracked /\ ~Air!Matches("trusted", x)
                                  /\ CrowdVendor[x.bssid] = Air!NoVendor
                                  /\ Air!Cardinality(Vendors(S, x.name)) > 1}
  <2>1. \A n : Vendors(scan, n) = Vendors(twin, n) BY DEF Twins, Alike
  <2> HIDE DEF Vendors
  <2>2. \A x \in Odd(scan) : \E y \in Odd(twin) : y.bssid = x.bssid
    <3> SUFFICES ASSUME NEW x \in Odd(scan) PROVE \E y \in Odd(twin) : y.bssid = x.bssid OBVIOUS
    <3>1. PICK y \in twin : Alike(x, y) BY DEF Twins
    <3>2. Air!Matches("trusted", x) <=> Air!Matches("trusted", y) BY <3>1, MatchesAlike
    <3>3. y.bssid = x.bssid /\ y.name = x.name BY <3>1 DEF Alike
    <3>4. y \in Odd(twin) BY <2>1, <3>2, <3>3
    <3> QED BY <3>3, <3>4
  <2> HIDE DEF Odd
  <2>3. Tells(Air!About("vendor_mismatch", "medium", Odd(scan)),
              Air!About("vendor_mismatch", "medium", Odd(twin)))
    BY <2>2, AboutTold
  <2> QED BY <2>3 DEF Air!VendorMismatch, Odd, Vendors
<1>6. Tells(Air!MultiSsid(scan), Air!MultiSsid(twin))
  <2> DEFINE NamesOf(S, r) == {x.name : x \in {x \in S : x.bssid = r}} \ {Air!NoName}
  <2>1. \A r : NamesOf(scan, r) = NamesOf(twin, r) BY DEF Twins, Alike
  <2> HIDE DEF NamesOf
  <2>2. {r \in CrowdRadios : Air!Cardinality(NamesOf(scan, r)) > MaxNames}
          = {r \in CrowdRadios : Air!Cardinality(NamesOf(twin, r)) > MaxNames}
    BY <2>1
  <2>3. Air!MultiSsid(scan) = Air!MultiSsid(twin) BY <2>2 DEF Air!MultiSsid, NamesOf
  <2> QED BY <1>0, <2>3
<1>7. Tells(Air!Conflicts(scan), Air!Conflicts(twin))
  <2> DEFINE Postures(S, n) == {<<x.security, x.enterprise>> : x \in {x \in S : x.name = n /\ ~x.hidden}}
             Transition == {<<s, FALSE>> : s \in {"WPA2", "WPA2/WPA3 transition", "WPA3"}}
             Mixed(S) == {n \in Names : /\ Air!Cardinality(Postures(S, n)) > 1
                                        /\ ~(Postures(S, n) \subseteq Transition)}
  <2>1. \A n : Postures(scan, n) = Postures(twin, n) BY DEF Twins, Alike
  <2> HIDE DEF Postures, Transition
  <2>2. Mixed(scan) = Mixed(twin) BY <2>1
  <2> HIDE DEF Mixed
  <2>3. Air!Conflicts(scan) = Air!Conflicts(twin)
    BY <2>2 DEF Air!Conflicts, Air!SsidConflict, Mixed, Postures, Transition
  <2> QED BY <1>0, <2>3
<1>8. Tells(Air!CountryMismatch(scan, list), Air!CountryMismatch(twin, list))
  <2> DEFINE From(S) == {x \in S : x.country # <<>>}
             Codes(S) == {x.country : x \in From(S)}
             Of(S, c) == {x.bssid : x \in {x \in From(S) : x.country = c}}
             Most(S) == {c \in Codes(S) : \A d \in Codes(S) :
                           Air!Cardinality(Of(S, c)) >= Air!Cardinality(Of(S, d))}
             First(S) == Air!FirstOf(list, UNION {Of(S, c) : c \in Most(S)})
             Odd(S) == {x \in From(S) : First(S) \notin Of(S, x.country)}
  <2>1. Codes(scan) = Codes(twin) BY DEF Twins, Alike
  <2>2. \A c : Of(scan, c) = Of(twin, c) BY DEF Twins, Alike
  <2>3. \A x \in From(scan) : \E y \in From(twin) : y.bssid = x.bssid /\ y.country = x.country
    BY DEF Twins, Alike
  <2> HIDE DEF From, Codes, Of
  <2>4. Most(scan) = Most(twin) BY <2>1, <2>2
  <2> HIDE DEF Most
  <2>5. First(scan) = First(twin)
    <3>1. UNION {Of(scan, c) : c \in Most(scan)} = UNION {Of(twin, c) : c \in Most(twin)}
      BY <2>2, <2>4
    <3> QED BY <3>1
  <2> HIDE DEF First
  <2>6. \A x \in Odd(scan) : \E y \in Odd(twin) : y.bssid = x.bssid BY <2>2, <2>3, <2>5
  <2>7. Tells(Air!About("country_mismatch", "low", Odd(scan)),
              Air!About("country_mismatch", "low", Odd(twin)))
    BY <2>6, AboutTold
  <2>8. ASSUME NEW S
        PROVE  Air!CountryMismatch(S, list)
                 = IF Air!Cardinality(Codes(S)) < 2 THEN {}
                   ELSE Air!About("country_mismatch", "low", Odd(S))
    BY DEF Air!CountryMismatch, Odd, First, Most, Of, Codes, From
  <2> HIDE DEF Odd
  <2>9. CASE Air!Cardinality(Codes(scan)) < 2 BY <2>1, <2>8, <2>9 DEF Tells
  <2>10. CASE ~(Air!Cardinality(Codes(scan)) < 2) BY <2>1, <2>7, <2>8, <2>10
  <2> QED BY <2>9, <2>10
<1>9. Tells(Air!Congestion(scan), Air!Congestion(twin))
  <2> DEFINE B(S) == {x \in S : x.load >= Busy /\ x.channel # Air!NoChannel}
             Channels(S) == {<<x.band, x.channel>> : x \in B(S)}
             Worst(S, c) == Air!Max({x.load : x \in {x \in B(S) : <<x.band, x.channel>> = c}})
             Told(S, c) == [rule |-> "channel_congestion", about |-> <<"channel", c[1], c[2]>>,
                            severity |-> IF Worst(S, c) >= Air!Max({Busy + 25, 85}) THEN "medium" ELSE "low"]
  <2>1. \A x \in B(scan) : \E y \in B(twin) : y.band = x.band /\ y.channel = x.channel
    <3> SUFFICES ASSUME NEW x \in B(scan)
                 PROVE  \E y \in B(twin) : y.band = x.band /\ y.channel = x.channel
      OBVIOUS
    <3>1. PICK y \in twin : Alike(x, y) BY DEF Twins
    <3>2. y.band = x.band /\ y.channel = x.channel /\ y.load = x.load BY <3>1 DEF Alike
    <3>3. y \in B(twin) BY <3>2
    <3> QED BY <3>2, <3>3
  <2> HIDE DEF B
  <2>2. Channels(scan) \subseteq Channels(twin) BY <2>1
  <2>3. ASSUME NEW S PROVE Air!Congestion(S) = {Told(S, c) : c \in Channels(S)}
    BY DEF Air!Congestion, B
  <2>4. \A c : Told(scan, c).rule = Told(twin, c).rule /\ Told(scan, c).about = Told(twin, c).about
    OBVIOUS
  <2> HIDE DEF Told, Channels
  <2> QED BY <2>2, <2>3, <2>4 DEF Tells
<1> QED BY <1>1, <1>2, <1>3, <1>4, <1>5, <1>6, <1>7, <1>8, <1>9

\* A name that looks like a marked one: how loud it is has no part in it.
LEMMA LookalikeTold ==
  ASSUME NEW scan, NEW twin, Twins(scan, twin)
  PROVE  Tells(Air!Lookalike(scan), Air!Lookalike(twin))
<1> DEFINE Distance(x, n) ==
             IF Air!Skeleton(Text[x.name]) = Air!Skeleton(Text[n]) THEN 0
             ELSE Air!Levenshtein(Air!Skeleton(Text[x.name]), Air!Skeleton(Text[n]), Threshold)
           First(x) ==
             Air!SelectInSeq(order, LAMBDA n : n \in Air!Tracked /\ Distance(x, n) <= Threshold)
           Near(S) == {x \in S : /\ x.name \notin Air!Tracked \cup {Air!NoName}
                                 /\ ~Air!Matches("trusted", x)
                                 /\ Air!Skeleton(Text[x.name]) # <<>>
                                 /\ First(x) # 0}
           Same(S) == {x \in Near(S) : Distance(x, order[First(x)]) = 0}
<1>1. \A x \in scan : \E y \in twin :
        /\ y.bssid = x.bssid /\ (x \in Near(scan) => y \in Near(twin))
        /\ Distance(x, order[First(x)]) = Distance(y, order[First(y)])
  <2> SUFFICES ASSUME NEW x \in scan
               PROVE  \E y \in twin :
                        /\ y.bssid = x.bssid /\ (x \in Near(scan) => y \in Near(twin))
                        /\ Distance(x, order[First(x)]) = Distance(y, order[First(y)])
    OBVIOUS
  <2>1. PICK y \in twin : Alike(x, y) BY DEF Twins
  <2>2. y.bssid = x.bssid /\ y.name = x.name BY <2>1 DEF Alike
  <2>3. \A n : Distance(x, n) = Distance(y, n) BY <2>2
  <2>4. First(x) = First(y) BY <2>2
  <2>5. Air!Matches("trusted", x) <=> Air!Matches("trusted", y) BY <2>1, MatchesAlike
  <2> HIDE DEF Distance, First
  <2>6. x \in Near(scan) => y \in Near(twin) BY <2>2, <2>4, <2>5
  <2> QED BY <2>2, <2>3, <2>4, <2>6
<1>2. ASSUME NEW S
      PROVE  Air!Lookalike(S) = Air!About("lookalike_ssid", "critical", Same(S))
                                  \cup Air!About("lookalike_ssid", "high", Near(S) \ Same(S))
  BY DEF Air!Lookalike
<1> DEFINE Exact(x) == Distance(x, order[First(x)]) = 0
<1>3. \A S : Near(S) \subseteq S OBVIOUS
<1>4. \A S : Same(S) = {x \in Near(S) : Exact(x)} OBVIOUS
<1>5. \A x \in scan : \E y \in twin :
        y.bssid = x.bssid /\ (x \in Near(scan) => y \in Near(twin)) /\ (Exact(x) <=> Exact(y))
  BY <1>1
<1> HIDE DEF Distance, First, Exact, Near, Same
<1>6. \A x \in Same(scan) : \E y \in Same(twin) : y.bssid = x.bssid BY <1>3, <1>4, <1>5
<1>7. \A x \in Near(scan) \ Same(scan) : \E y \in Near(twin) \ Same(twin) : y.bssid = x.bssid
  BY <1>3, <1>4, <1>5
<1>8. Tells(Air!About("lookalike_ssid", "critical", Same(scan)),
            Air!About("lookalike_ssid", "critical", Same(twin)))
  BY <1>6, AboutTold
<1>9. Tells(Air!About("lookalike_ssid", "high", Near(scan) \ Same(scan)),
            Air!About("lookalike_ssid", "high", Near(twin) \ Same(twin)))
  BY <1>7, AboutTold
<1> QED BY <1>2, <1>8, <1>9, BothTold

\* All that is found of a scan, jumps of the level apart.
LEMMA FoundTold ==
  ASSUME NEW scan, NEW twin, Twins(scan, twin),
         NEW before, NEW times, NEW latest, NEW away, NEW list,
         NEW f \in Air!Found(scan, before, times, latest, away, list), f.rule # "rssi_anomaly"
  PROVE  \E g \in Air!Found(twin, before, times, latest, away, list) :
           g.rule = f.rule /\ g.about = f.about
<1>1. f \notin Air!RssiAnomaly(scan, before, times, latest)
  <2>1. ASSUME NEW H, NEW g \in Air!About("rssi_anomaly", "medium", H)
        PROVE  g.rule = "rssi_anomaly"
    BY DEF Air!About
  <2> QED BY <2>1 DEF Air!RssiAnomaly
<1>2. /\ Tells(Air!OpenNetwork(scan), Air!OpenNetwork(twin))
      /\ Tells(Air!Wpa3PmfOptional(scan), Air!Wpa3PmfOptional(twin))
      /\ Tells(Air!MixedScript(scan), Air!MixedScript(twin))
      /\ Tells(Air!Lure(scan), Air!Lure(twin))
      /\ Tells(Air!HiddenSsid(scan), Air!HiddenSsid(twin))
      /\ Tells(Air!Malformed(scan), Air!Malformed(twin))
      /\ Tells(Air!Wps(scan), Air!Wps(twin))
      /\ Tells(Air!PmfMissing(scan), Air!PmfMissing(twin))
      /\ Tells(Air!Disclosure(scan), Air!Disclosure(twin))
      /\ Tells(Air!Overlap(scan), Air!Overlap(twin))
  BY SameTold
<1>3. /\ Tells(Air!WeakCrypto(scan), Air!WeakCrypto(twin))
      /\ Tells(Air!Randomized(scan), Air!Randomized(twin))
      /\ Tells(Air!ChannelChange(scan, before), Air!ChannelChange(twin, before))
      /\ Tells(Air!FingerprintChange(scan, before), Air!FingerprintChange(twin, before))
      /\ Tells(Air!Beacon(scan, before), Air!Beacon(twin, before))
  BY GradedTold
<1>4. /\ Tells(Air!Downgrade(scan, before), Air!Downgrade(twin, before))
      /\ Tells(Air!NewBssid(scan, before), Air!NewBssid(twin, before))
      /\ Tells(Air!EnterpriseBait(scan), Air!EnterpriseBait(twin))
      /\ Tells(Air!WatchedMissing(scan, away), Air!WatchedMissing(twin, away))
      /\ Tells(Air!VendorMismatch(scan), Air!VendorMismatch(twin))
      /\ Tells(Air!MultiSsid(scan), Air!MultiSsid(twin))
      /\ Tells(Air!Conflicts(scan), Air!Conflicts(twin))
      /\ Tells(Air!CountryMismatch(scan, list), Air!CountryMismatch(twin, list))
      /\ Tells(Air!Congestion(scan), Air!Congestion(twin))
  BY ComparedTold
<1>5. Tells(Air!Lookalike(scan), Air!Lookalike(twin)) BY LookalikeTold
<1> QED BY <1>1, <1>2, <1>3, <1>4, <1>5 DEF Air!Found, Tells

\* Whatever the levels, what the rules find of the air goes by the same keys.
LEMMA KeysAreSame ==
  ASSUME Air!TypeOK, NEW l, NEW m
  PROVE  Air!KeysAt(l) = Air!KeysAt(m)
<1> DEFINE list == CHOOSE o \in Air!Orders(Air!Audible) : TRUE
           All(loud) == Air!Found(HeardAt(loud), rows, seen, recent, gone, list)
           Keys(loud) == {<<f.rule, f.about>> : f \in {f \in All(loud) : f.rule # "rssi_anomaly"}}
<1>0. ASSUME NEW a, NEW b, NEW f \in All(a), f.rule # "rssi_anomaly"
      PROVE  \E g \in All(b) : g.rule = f.rule /\ g.about = f.about
  <2> HIDE DEF list
  <2>1. Twins(HeardAt(a), HeardAt(b)) BY HeardAreTwins
  <2>2. f \in Air!Found(HeardAt(a), rows, seen, recent, gone, list) BY <1>0
  <2>3. f.rule # "rssi_anomaly" BY <1>0
  <2> HIDE DEF All, Keys
  <2>4. \E g \in Air!Found(HeardAt(b), rows, seen, recent, gone, list) :
          g.rule = f.rule /\ g.about = f.about
    BY <2>1, <2>2, <2>3, FoundTold
  <2> QED BY <2>4 DEF All
<1>1. ASSUME NEW a, NEW b PROVE Keys(a) \subseteq Keys(b)
  <2> HIDE DEF All
  <2> QED BY <1>0
<1>2. ASSUME NEW a PROVE Air!KeysAt(a) = Keys(a) BY DEF Air!KeysAt, HeardAt
<1> HIDE DEF Keys
<1> QED BY <1>1, <1>2

(***************************************************************************)
(* The whole                                                               *)
(***************************************************************************)

\* A step of the whole is one of the rules about what is missing, or about what is heard.
LEMMA RulesMove ==
  ASSUME [Next]_vars
  PROVE  /\ focus' = focus
         /\ focus = "quiet" => [Quiet!Next]_rulesVars
         /\ focus # "quiet" => [Air!Next]_rulesVars
<1>1. AirNext => Air!Next
  <2>1. Air!Scan("none") => \E n \in Names \cup {Air!NoName} : Air!Scan(n) BY DEF Air!NoName
  <2> QED BY <2>1 DEF AirNext, Air!Next
<1>2. CASE UNCHANGED vars BY <1>2 DEF vars
<1>3. CASE Next
  <2>1. focus' = focus BY <1>3 DEF Next
  <2>2. \/ focus = "air" /\ AirNext
        \/ focus = "quiet" /\ Quiet!Next
        \/ UNCHANGED rulesVars
    BY <1>3 DEF Next
  <2> QED BY <1>1, <2>1, <2>2
<1> QED BY <1>2, <1>3

\* What is inductive of the rules: the types of whichever of the two they are about.
RulesInv == IF focus = "quiet" THEN Quiet!TypeOK ELSE Air!TypeOK

\* It holds at the start,
LEMMA RulesInit == ASSUME Init PROVE RulesInv
BY QuietTypeInit, AirTypeInit DEF Init, RulesInv

\* and every step keeps it.
LEMMA RulesNext == ASSUME RulesInv, [Next]_vars PROVE RulesInv'
<1>1. CASE focus = "quiet"
  <2>1. Quiet!TypeOK /\ focus' = "quiet" /\ [Quiet!Next]_rulesVars
    BY <1>1, RulesMove DEF RulesInv
  <2> QED BY <2>1, QuietTypeNext DEF RulesInv
<1>2. CASE focus # "quiet"
  <2>1. Air!TypeOK /\ focus' # "quiet" /\ [Air!Next]_rulesVars
    BY <1>2, RulesMove DEF RulesInv
  <2> QED BY <2>1, AirTypeNext DEF RulesInv
<1> QED BY <1>1, <1>2

\* The levels of what is on the air change nothing about what the rules tell it by, and a
\* watched radio that falls silent is reported in the scan in which it is due (detections.py;
\* missing_scans_before_alert, finding keys).
THEOREM RulesTrue == Spec => RulesHold
<1>1. Init => RulesInv BY RulesInit
<1>2. RulesInv /\ [Next]_vars => RulesInv' BY RulesNext
<1>3. RulesInv /\ [Next]_vars
      => (focus = "air" => Air!DriftsQuietly) /\ (focus = "quiet" => Quiet!LossIsReported)
  <2> SUFFICES ASSUME RulesInv, [Next]_vars
               PROVE  /\ focus = "air" => Air!DriftsQuietly
                      /\ focus = "quiet" => Quiet!LossIsReported
    OBVIOUS
  <2>1. focus = "air" => Air!DriftsQuietly
    <3> SUFFICES ASSUME focus = "air" PROVE Air!DriftsQuietly OBVIOUS
    <3>1. Air!TypeOK BY DEF RulesInv
    <3> QED BY <3>1, KeysAreSame DEF Air!DriftsQuietly
  <2>2. focus = "quiet" => Quiet!LossIsReported
    <3> SUFFICES ASSUME focus = "quiet" PROVE Quiet!LossIsReported OBVIOUS
    <3>1. Quiet!TypeOK BY DEF RulesInv
    <3> QED BY <3>1, RulesMove, LossNext
  <2> QED BY <2>1, <2>2
<1> QED BY <1>1, <1>2, <1>3, PTL DEF Spec, RulesHold

\* What a survey, a diagnosis and a release report is true at every moment.
THEOREM ReportsTrue == Spec => []ReportsAgree
<1>1. Init => Survey!TypeOK BY SurveyInit DEF Init
<1>2. Survey!TypeOK /\ [Next]_vars => Survey!TypeOK' BY SurveyMove, SurveyNextType
<1>3. Survey!TypeOK => ReportsAgree
  <2>1. Survey!TypeOK => Survey!ReportsAgree
    BY ClearIsFirst, CoverageHolds, ComparisonHolds DEF Survey!ReportsAgree
  <2> QED BY <2>1, ReleasesOrdered, DiagnosesAgree DEF ReportsAgree
<1> QED BY <1>1, <1>2, <1>3, PTL DEF Spec

\* The types of all of Analysis.
THEOREM TypeCorrect == Spec => []TypeOK
<1> DEFINE Inv == /\ RulesInv /\ Survey!TypeOK
                  /\ Picture!TypeOK /\ RepairInv /\ Screens!TypeOK
<1>1. Init => Inv
  <2> SUFFICES ASSUME Init PROVE Inv OBVIOUS
  <2>1. Survey!Init /\ Picture!Init /\ Screens!Init BY DEF Init
  <2> QED BY <2>1, RulesInit, SurveyInit, PictureInit, ScreensTypeInit
<1>2. Inv /\ [Next]_vars => Inv'
  <2> SUFFICES ASSUME Inv, [Next]_vars PROVE Inv' OBVIOUS
  <2>1. RulesInv' BY RulesNext
  <2>2. Survey!TypeOK' BY SurveyMove, SurveyNextType
  <2>3. Picture!TypeOK' /\ RepairInv' BY PictureMove, PictureNext
  <2>4. Screens!TypeOK' BY ScreensMove, ScreensTypeNext
  <2> QED BY <2>1, <2>2, <2>3, <2>4
<1>3. Inv => TypeOK BY DEF RulesInv, TypeOK
<1> QED BY <1>1, <1>2, <1>3, PTL DEF Spec
=============================================================================
