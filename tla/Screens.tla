------------------------------- MODULE Screens -------------------------------
(***************************************************************************)
(* The screens of the desktop interface that show what is on record:       *)
(* app/ui/views/live.py, ssids.py, spectrum.py, findings.py and marks.py,  *)
(* over base.py and the window's part of main_window.py.  A screen asks    *)
(* for its contents in a worker and shows what comes back, whenever that   *)
(* is; how the workers take turns is in Bridge, and here any task may be   *)
(* answered next.  A filter is a choice of the person's, made on a screen  *)
(* that is showing.  A mark is added on the page of marks, which shows it, *)
(* or aside, from Live's menu or the drawer beside any page: then no page  *)
(* is told of it.                                                          *)
(***************************************************************************)
EXTENDS Listings

CONSTANTS
  First,     \* the radio on record at the start
  Pages,     \* the screens there are
  MarkPool,  \* what may be marked, [kind, type, value]
  Bands, Searches, \* what there is to choose from, "" for all
  MaxScans, MaxTurns, MaxLoads  \* bounds: scans, what is done or heard, tasks at once

\* What the constants have to be.
ScreensConstantsOK ==
  /\ Pages \subseteq {"live", "names", "spectrum", "findings", "marks"}
  /\ "" \in Bands \cap Searches /\ Bands \cup Searches \cup Rules \subseteq STRING
  /\ First \in Radios /\ MaxScans \in Nat \ {0} /\ MaxTurns \in Nat /\ MaxLoads \in Nat \ {0}

VARIABLES
  page,    \* the screen that is showing
  filter,  \* of each screen, what is chosen on it
  shown,   \* of each screen, the answer it last showed
  typing,  \* screens whose search is waiting for the typing to end
  tasks,   \* calls asked for and not yet shown, in the order they were asked
  heard,   \* finished scans the window has not been told of
  turns,   \* what the person did and the radio heard so far
  marks,   \* the marks table
  tangled  \* history: screens that asked while a call that touches them was out, one
           \* of whose calls failed, or that show marks, where one was added aside since

storeVars == <<now, rows, alerts, marks>>
vars == <<storeVars, page, filter, shown, typing, tasks, heard, turns, tangled>>

\* reload_on_scan: the screens that show what the radio just heard.
ReloadOnScan == Pages \cap {"live", "spectrum", "findings"}
Nothing == [nothing |-> TRUE]

\* _watched_bssids
WatchedBssids == {m.value : m \in {n \in marks : n.kind = "watch" /\ n.type = "bssid"}}

\* What a call returns when it is run, of each screen.
LiveListing(f) ==
  LET found == ListBss(f.window, f.search, f.band) IN
  [rows |-> [r \in found |-> rows[r]], flagged |-> FlaggedBssids, watched |-> WatchedBssids]

NamesListing(f) == [groups |-> Grouped(f.window, f.search, f.band)]

SpectrumListing(f) ==
  [blocks |-> Layout(f.window), usage |-> ChannelUsage(f.window), flagged |-> FlaggedBssids]

FindingsListing(f) ==
  [list |-> [i \in ListAlerts(f.severity, f.rule, f.only) |-> alerts[i]]]

MarksListing == [marks |-> marks]

Answer(p, f) ==
  CASE p = "live" -> LiveListing(f)
    [] p = "names" -> NamesListing(f)
    [] p = "spectrum" -> SpectrumListing(f)
    [] p = "findings" -> FindingsListing(f)
    [] p = "marks" -> MarksListing

\* What is on the screen: "Flagged only" and "Multi-band only" sift what is there.
LiveSifted(answer) ==
  IF filter["live"].only THEN DOMAIN answer.rows \cap answer.flagged ELSE DOMAIN answer.rows

NamesSifted(answer) ==
  IF filter["names"].only THEN {g \in answer.groups : MultiBand(g)} ELSE answer.groups

Visible(p, answer) ==
  IF answer = Nothing THEN {}
  ELSE CASE p = "live" -> LiveSifted(answer)
         [] p = "names" -> NamesSifted(answer)
         [] p = "spectrum" -> DOMAIN answer.usage
         [] p = "findings" -> DOMAIN answer.list
         [] p = "marks" -> answer.marks

\* What may be chosen on a screen.
Filters ==
  [window : Windows, search : Searches, band : Bands, severity : {"", "high"},
   rule : Rules \cup {""}, only : BOOLEAN]

\* A call; those that change the record are of the screens that list it, or of the
\* window itself.
TaskOK(t) ==
  /\ t = [page |-> t.page, does |-> t.does, with |-> t.with, got |-> t.got]
  /\ \/ t.does = "load" /\ t.page \in Pages /\ t.with \in Filters
     \/ t.does \in {"acknowledge", "reopen", "clear"} /\ t.page \in Pages \cap {"findings"}
     \/ t.does = "mark" /\ t.page \in Pages \cap {"marks"} /\ t.with \in MarkPool
     \/ t.does = "remove" /\ t.page \in Pages \cap {"marks"}
     \/ t.does = "aside" /\ t.page = "window" /\ t.with \in MarkPool

\* There is never more under way than the person and the scans asked for.
TypeOK ==
  /\ now \in 1..MaxScans /\ Known \subseteq Radios /\ marks \subseteq MarkPool
  /\ page \in Pages /\ filter \in [Pages -> Filters] /\ DOMAIN shown = Pages
  /\ {typing, tangled} \subseteq SUBSET Pages
  /\ Len(tasks) \in Nat /\ tasks = [k \in 1..Len(tasks) |-> tasks[k]]
  /\ \A k \in DOMAIN tasks : TaskOK(tasks[k])
  /\ heard \in 0..(now - 1) /\ Len(tasks) + heard < MaxLoads + now
  /\ turns \in 0..MaxTurns

NoFilter == [window |-> "recent", search |-> "", band |-> "", severity |-> "", rule |-> "",
             only |-> FALSE]

\* The window opens on a page.
Init ==
  /\ now = 1
  /\ rows = [r \in {First} |-> (CHOOSE l \in Looks : TRUE) @@ [first |-> 1, last |-> 1, id |-> 1]]
  /\ alerts = <<>> /\ marks = {}
  /\ page \in Pages
  /\ filter = [p \in Pages |-> [NoFilter EXCEPT !.only = p = "findings"]]
  /\ shown = [p \in Pages |-> Nothing]
  /\ typing = {} /\ tangled = {} /\ heard = 0 /\ turns = 0
  /\ tasks = <<[page |-> page, does |-> "load", with |-> filter[page], got |-> Nothing]>>

(***************************************************************************)
(* Asking and showing                                                      *)
(***************************************************************************)

Out(p) == \E k \in DOMAIN tasks : tasks[k].page = p

\* The screens that show marks: Live says which radios are watched.
ShowMarks == Pages \cap {"live", "marks"}

\* A call that may make what p shows next be out of date.
Touches(t, p) ==
  \/ t.page = p
  \/ t.does \notin {"load", "aside"}
  \/ t.does = "aside" /\ p \in ShowMarks

Crossing(calls, p) == \E k \in DOMAIN calls : Touches(calls[k], p)

\* View.run: the filter is read now, the record when a worker gets to it.
Ask(p, does, f) ==
  /\ tasks' = Append(tasks, [page |-> p, does |-> does, with |-> f, got |-> Nothing])
  /\ tangled' = IF Crossing(tasks, p) THEN tangled \cup {p} ELSE tangled \ {p}

Load(p, f) == Ask(p, "load", f)

Something == turns < MaxTurns /\ turns' = turns + 1

Turn(p) == page = p /\ Something /\ Len(tasks) < MaxLoads

\* What the calls change: those chosen, or, where none is, all of them.
AcknowledgeAlerts(ids) ==
  alerts' = [i \in DOMAIN alerts |->
    IF ids = {} \/ i \in ids THEN [alerts[i] EXCEPT !.open = FALSE] ELSE alerts[i]]

UnacknowledgeAlerts(ids, rule) ==
  alerts' = [i \in DOMAIN alerts |->
    IF IF ids # {} THEN i \in ids ELSE rule \in {"", alerts[i].rule}
    THEN [alerts[i] EXCEPT !.open = TRUE] ELSE alerts[i]]

\* Nothing is thirty days old in so few scans, which is what "older" deletes.
DeleteAlerts(scope, rule) ==
  alerts' = [i \in DOMAIN alerts |->
    [alerts[i] EXCEPT !.gone = \/ @ \/ scope = "all"
                               \/ scope = "acknowledged" /\ ~alerts[i].open
                               \/ scope = "rule" /\ alerts[i].rule = rule]]

\* A worker runs a call, which reads the record, or changes it; one that changes marks
\* reads them too (marks_service.add, remove).
RunTask(k) ==
  LET t == tasks[k] IN
  /\ t.got = Nothing
  /\ \/ t.does = "load" /\ UNCHANGED <<alerts, marks>>
     \/ t.does = "acknowledge" /\ AcknowledgeAlerts(t.with.ids) /\ UNCHANGED marks
     \/ t.does = "reopen" /\ UnacknowledgeAlerts(t.with.ids, t.with.rule) /\ UNCHANGED marks
     \/ t.does = "clear" /\ DeleteAlerts(t.with.scope, t.with.rule) /\ UNCHANGED marks
     \/ t.does \in {"mark", "aside"} /\ marks' = marks \cup {t.with} /\ UNCHANGED alerts
     \/ t.does = "remove" /\ marks' = marks \ {t.with} /\ UNCHANGED alerts
  /\ tasks' = [tasks EXCEPT ![k].got =
       IF t.does = "load" THEN Answer(t.page, t.with) ELSE [marks |-> marks']]
  /\ UNCHANGED <<now, rows, page, filter, shown, typing, heard, turns, tangled>>

\* The answer is shown, whatever else was shown since it was asked for; what changed
\* findings has them loaded again, with the filter of then; of a mark added aside only
\* a word is shown.
Apply(k) ==
  LET t == tasks[k]
      rest == RemoveAt(tasks, k)
  IN /\ t.got # Nothing
     /\ \/ /\ t.does = "load" \/ t.page = "marks"
           /\ shown' = [shown EXCEPT ![t.page] = t.got]
           /\ tasks' = rest /\ UNCHANGED tangled
        \/ /\ t.does = "aside"
           /\ tasks' = rest /\ UNCHANGED <<shown, tangled>>
        \/ /\ t.does # "load" /\ t.page = "findings"
           /\ tasks' = Append(rest, [page |-> t.page, does |-> "load",
                                     with |-> filter[t.page], got |-> Nothing])
           /\ tangled' = IF Crossing(rest, t.page) THEN tangled \cup {t.page} ELSE tangled \ {t.page}
           /\ UNCHANGED shown
     /\ UNCHANGED <<storeVars, page, filter, typing, heard, turns>>

\* _report_error: a word of it is shown, and what was on the screen stays.
Fail(k) ==
  /\ tasks[k].got = Nothing
  /\ tangled' = tangled \cup (Pages \cap {tasks[k].page})
  /\ tasks' = RemoveAt(tasks, k)
  /\ UNCHANGED <<storeVars, page, filter, shown, typing, heard, turns>>

(***************************************************************************)
(* What the person does                                                    *)
(***************************************************************************)

\* Every showing loads; so does choosing "/" or a digit for the page that is there.
ShowView(p) ==
  /\ Something /\ Len(tasks) < MaxLoads
  /\ page' = p /\ Load(p, filter[p])
  /\ UNCHANGED <<storeVars, filter, shown, typing, heard>>

Searchable == Pages \cap {"live", "names"}

\* The search is loaded when the typing has stopped for a while.
Type(p) ==
  /\ p \in Searchable /\ Turn(p)
  /\ \E s \in Searches \ {filter[p].search} : filter' = [filter EXCEPT ![p].search = s]
  /\ typing' = typing \cup {p}
  /\ UNCHANGED <<storeVars, page, shown, tasks, heard, tangled>>

Debounce(p) ==
  /\ p \in typing /\ Len(tasks) < MaxLoads
  /\ typing' = typing \ {p} /\ Load(p, filter[p])
  /\ UNCHANGED <<storeVars, page, filter, shown, heard, turns>>

SearchFilters(f) ==
  {[f EXCEPT !.band = b] : b \in Bands} \cup {[f EXCEPT !.window = w] : w \in Windows}

SpectrumFilters(f) == {[f EXCEPT !.window = w] : w \in Windows}

FindingsFilters(f) ==
  {[f EXCEPT !.severity = s] : s \in {"", "high"}}
  \cup {[f EXCEPT !.rule = r] : r \in Rules \cup {""}} \cup {[f EXCEPT !.only = ~@]}

Offered(p) ==
  CASE p \in Searchable -> SearchFilters(filter[p])
    [] p = "spectrum" -> SpectrumFilters(filter[p])
    [] p = "findings" -> FindingsFilters(filter[p])
    [] OTHER -> {}

Choose(p) ==
  /\ Turn(p)
  /\ \E f \in Offered(p) \ {filter[p]} : filter' = [filter EXCEPT ![p] = f]
  /\ Load(p, filter'[p])
  /\ UNCHANGED <<storeVars, page, shown, typing, heard>>

\* "Flagged only" and "Multi-band only" sift, and load nothing.
Sift(p) ==
  /\ p \in Searchable /\ Turn(p)
  /\ filter' = [filter EXCEPT ![p].only = ~@]
  /\ UNCHANGED <<storeVars, page, shown, typing, tasks, heard, tangled>>

\* Findings selected on the screen, or all; what is deleted is chosen by its kind.
Selected ==
  {{}} \cup {{i} : i \in Visible("findings", shown["findings"])}

ChangeFindings ==
  /\ "findings" \in Pages /\ Turn("findings")
  /\ LET rule == filter["findings"].rule IN
     \/ \E ids \in Selected, does \in {"acknowledge", "reopen"} :
          Ask("findings", does, [ids |-> ids, rule |-> rule])
     \/ \E scope \in {"acknowledged", "older", "all"} \cup (IF rule = "" THEN {} ELSE {"rule"}) :
          Ask("findings", "clear", [scope |-> scope, rule |-> rule])
  /\ UNCHANGED <<storeVars, page, filter, shown, typing, heard>>

AddMark ==
  /\ "marks" \in Pages /\ Turn("marks")
  /\ \E m \in MarkPool : Ask("marks", "mark", m)
  /\ UNCHANGED <<storeVars, page, filter, shown, typing, heard>>

\* _add_mark: a radio is marked from Live's menu or the drawer; no page is loaded again.
MarkAside ==
  /\ Something /\ Len(tasks) < MaxLoads
  /\ \E m \in MarkPool :
       /\ m.type = "bssid" /\ m.value \in Known
       /\ tasks' = Append(tasks, [page |-> "window", does |-> "aside", with |-> m, got |-> Nothing])
  /\ tangled' = tangled \cup ShowMarks
  /\ UNCHANGED <<storeVars, page, filter, shown, typing, heard>>

RemoveMark ==
  /\ "marks" \in Pages /\ Turn("marks")
  /\ \E m \in Visible("marks", shown["marks"]) : Ask("marks", "remove", m)
  /\ UNCHANGED <<storeVars, page, filter, shown, typing, heard>>

(***************************************************************************)
(* Scans                                                                   *)
(***************************************************************************)

\* A scan hears some radios, may find something, and is announced when it is filed.
Scan ==
  /\ now < MaxScans /\ Something /\ now' = now + 1 /\ heard' = heard + 1
  /\ \E r \in Radios, l \in Looks :
       rows' = [q \in Known \cup {r} |->
                  IF q # r THEN rows[q]
                  ELSE l @@ [first |-> IF r \in Known THEN rows[r].first ELSE now',
                             last |-> now',
                             id |-> IF r \in Known THEN rows[r].id ELSE Cardinality(Known) + 1]]
       /\ \/ UNCHANGED alerts
          \/ \E rule \in Rules, s \in {"high", "low"} :
               alerts' = Append(alerts, [radio |-> r, rule |-> rule, severity |-> s,
                                         open |-> TRUE, gone |-> FALSE])
  /\ UNCHANGED <<page, filter, shown, typing, tasks, marks, tangled>>

\* Faulty: the Findings page is not told.
OnScannedButFindings ==
  /\ heard > 0 /\ heard' = heard - 1
  /\ IF page \in ReloadOnScan \ {"findings"} THEN Load(page, filter[page])
     ELSE UNCHANGED <<tasks, tangled>>
  /\ UNCHANGED <<storeVars, page, filter, shown, typing, turns>>

\* on_scan_finished, of the page that is showing: of the stacked pages only that one is
\* visible, and the window has no other state than shown until it is closed.
OnScanned ==
  /\ heard > 0 /\ heard' = heard - 1
  /\ IF page \in ReloadOnScan THEN Load(page, filter[page]) ELSE UNCHANGED <<tasks, tangled>>
  /\ UNCHANGED <<storeVars, page, filter, shown, typing, turns>>

Next ==
  \/ \E k \in DOMAIN tasks : RunTask(k) \/ Apply(k) \/ Fail(k)
  \/ \E p \in Pages : ShowView(p) \/ Type(p) \/ Debounce(p) \/ Choose(p) \/ Sift(p)
  \/ ChangeFindings \/ AddMark \/ MarkAside \/ RemoveMark
  \/ Scan \/ OnScanned

Spec == Init /\ [][Next]_vars

(***************************************************************************)
(* Properties                                                              *)
(***************************************************************************)

Settled(p) == page = p /\ ~Out(p) /\ p \notin typing /\ heard = 0 /\ p \notin tangled

\* When nothing is on its way, and the page that is showing did not ask for its contents
\* while a call that touches it was out, and none of its calls failed, it shows what is
\* on record for what is chosen on it, whatever was chosen, found or acknowledged in the
\* meantime.  Two kinds of news do not reach a page: scans the page of names, and marks
\* added aside Live and the page of marks, which are held to the record again from their
\* next load on; the other pages are held to it through them (View.on_scan_finished, load
\* and _apply of each view, MainWindow._add_mark).
ScreenIsCurrent ==
  \A p \in Pages :
    Settled(p) /\ (p = "names" => shown[p] # Nothing /\ now = 1)
      => Visible(p, shown[p]) = Visible(p, Answer(p, filter[p]))
         /\ shown[p] = Answer(p, filter[p])

=============================================================================
