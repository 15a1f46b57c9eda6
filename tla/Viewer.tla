-------------------------------- MODULE Viewer --------------------------------
(***************************************************************************)
(* The report viewer end to end: the analyser (analytics/__main__.py) that *)
(* writes <recording>/dock_guard_report/report.json, the read-only server  *)
(* that lists the reports and passes them through (serve/scanner.py,       *)
(* serve/app.py), and the browser pages (static/app.js) that fetch, draw   *)
(* and follow the size of their window.                                    *)
(*                                                                         *)
(* Nothing is locked: a page may ask while the analyser is between opening *)
(* the file, which truncates it, and closing it.  The contents a file has  *)
(* had are kept as its versions; the last one is what is on disk.          *)
(***************************************************************************)
EXTENDS Panels, FiniteSets

CONSTANTS
    Recordings,  \* recording directories with a manifest, as numbers in name order
    Initial,     \* Initial[r]: contents report.json of r may have before the first run
    Reports,     \* reports the analyser may produce
    Tabs,        \* browser tabs
    WinSizes,    \* sizes a window may have
    Rerun,       \* bound: initial contents from which runs of the analyser are explored
    MaxRuns      \* bound: runs of the analyser

SCHEMA_OK == 3..7
Torn == [schema |-> 0]      \* a proper prefix of a report: not JSON
Whole(c) == c # Torn
Readable(c) == Whole(c) /\ c.schema \in SCHEMA_OK
Contents == (UNION {Initial[r] : r \in Recordings}) \cup Reports

ASSUME ViewerAssumption ==
    /\ Recordings \subseteq Nat /\ IsFiniteSet(Recordings)
    /\ \A c \in Contents : Whole(c)
    /\ \A c \in Reports : c.schema = 7
    /\ WinSizes # {} /\ None \notin WinSizes
    /\ MaxRuns \in Nat

Maybe(v, S) == v = None \/ v \in S
TimedList(s) == s \in Seq(ToSet(s)) /\ \A i \in DOMAIN s : s[i].rel_ms \in Int

\* What the collector lets into a report: it drops or nulls what is not a number,
\* batteries and wind directions out of range, and empty lists of distances; a list
\* that a report of an older schema lacks is empty for the pages.
Collected(rep) ==
    /\ TimedList(rep.battery) /\ TimedList(rep.flight) /\ TimedList(rep.hsi)
    /\ TimedList(rep.stick) /\ TimedList(rep.link) /\ TimedList(rep.hms)
    /\ \A s \in ToSet(rep.battery) : s.percent \in 0..100 /\ Maybe(s.wind_direction, 1..8)
    /\ \A s \in ToSet(rep.flight) : Maybe(s.latitude, Int) /\ Maybe(s.longitude, Int)
    /\ \A s \in ToSet(rep.hsi) :
         /\ Maybe(s.down_distance_mm, Int) /\ Maybe(s.up_distance_mm, Int) /\ Maybe(s.elevation_mm, Int)
         /\ Maybe(s.around_distances_mm, Seq(Int) \ {<<>>})
    /\ \A s \in ToSet(rep.stick) : \A key \in {"roll", "pitch", "yaw", "throttle"} : Maybe(s[key], Int)

\* What it does not check: models.py gives link qualities (0-5) and avoidance flags
\* (0/1) their ranges; wind speeds and distances are taken not to be negative.
DeviceInRange(rep) ==
    /\ \A s \in ToSet(rep.battery) : Maybe(s.wind_ms, Nat)
    /\ \A s \in ToSet(rep.hsi) : Maybe(s.up_distance_mm, Nat) /\ Maybe(s.around_distances_mm, Seq(Nat))
    /\ \A s \in ToSet(rep.link) : Maybe(s.sdr_quality, 0..5) /\ Maybe(s.fourg_quality, 0..5)
    /\ \A s \in ToSet(rep.flight) : \A key \in {"oa_down", "oa_horizon", "oa_up"} : Maybe(s[key], 0..1)

DevicePromise == \A c \in Contents : DeviceInRange(c)

ASSUME CollectorAssumption == \A c \in Contents : Collected(c)

\* Every official text is for a device and a code, in general or airborne.
ASSUME TextsAssumption ==
    \A key \in HMS_TEXT : key = <<key[1], key[2]>> \/ key = <<key[1], key[2], "in_the_sky">>

VARIABLES
    versions,  \* versions[r]: contents of report.json of r, newest last; <<>>: no such file
    cli,       \* the run of the analyser
    exit,      \* how the last run ended: its mode and exit code
    runs,      \* runs of the analyser so far
    tab,       \* tab[t]: the page of tab t and how far it got
    win,       \* win[t]: size of its window
    timer      \* timer[t]: _resizeTimer is pending

cliVars == <<versions, cli, exit, runs>>
tabVars == <<tab, win, timer>>
vars == <<cliVars, tabVars>>

OnDisk(r) == Len(versions[r]) > 0
Content(r) == Last(versions[r])

NoRun == [pc |-> "off", mode |-> "none", force |-> FALSE, todo |-> {}, report |-> None, failed |-> FALSE]

\* size: the charts the page has, each with the size it was drawn for.
Blank == [page |-> "none", rec |-> 0, pc |-> "idle", todo |-> {}, rows |-> <<>>,
          body |-> None, asked |-> 0, ver |-> 0, fail |-> "none", size |-> <<>>]

Init ==
    /\ versions \in {f \in [Recordings -> {<<>>} \cup {<<c>> : c \in Contents}] :
                       \A r \in Recordings : f[r] = <<>> \/ Head(f[r]) \in Initial[r]}
    /\ cli = NoRun /\ exit = [mode |-> "none", code |-> None] /\ runs = 0
    /\ tab = [t \in Tabs |-> Blank]
    /\ win \in [Tabs -> WinSizes]
    /\ timer = [t \in Tabs |-> FALSE]

-----------------------------------------------------------------------------
(* The analyser: one recording (_process_single) or all of them in name    *)
(* order (_process_batch).                                                 *)

Analyse(mode, recs, force) ==
    /\ cli.pc = "off" /\ runs < MaxRuns
    /\ \A r \in Recordings : OnDisk(r) => Head(versions[r]) \in Rerun
    /\ IF mode = "batch" THEN recs = Recordings ELSE Cardinality(recs) = 1
    /\ runs' = runs + 1
    /\ cli' = [NoRun EXCEPT !.pc = "next", !.mode = mode, !.force = force, !.todo = recs]
    /\ exit' = [mode |-> "none", code |-> None]
    /\ UNCHANGED <<versions, tabVars>>

Now(r) == cli.pc = "next" /\ r \in cli.todo /\ \A q \in cli.todo : r <= q

\* Fault: a report that does not parse is skipped like any other.
SkipFailsNever(r) == cli.failed

\* A batch reads what it skips, for its index.md; a single run does not look.
SkipFails(r) == cli.failed \/ (cli.mode = "batch" /\ ~Readable(Content(r)))

Skip(r) ==
    /\ Now(r) /\ OnDisk(r) /\ ~cli.force
    /\ cli' = [cli EXCEPT !.todo = @ \ {r}, !.failed = SkipFails(r)]
    /\ UNCHANGED <<versions, exit, runs, tabVars>>

\* collect() raises, or the manifest is unreadable: no file is touched.
CollectRaises(r) ==
    /\ Now(r) /\ (OnDisk(r) => cli.force)
    /\ cli' = [cli EXCEPT !.todo = @ \ {r}, !.failed = TRUE]
    /\ UNCHANGED <<versions, exit, runs, tabVars>>

\* collect() returned; write_text opens the file, which truncates it.
OpenReport(r, rep) ==
    /\ Now(r) /\ (OnDisk(r) => cli.force)
    /\ versions' = [versions EXCEPT ![r] = Append(@, Torn)]
    /\ cli' = [cli EXCEPT !.pc = "write", !.report = rep]
    /\ UNCHANGED <<exit, runs, tabVars>>

Writing(r) == cli.pc = "write" /\ r \in cli.todo /\ \A q \in cli.todo : r <= q

\* The text is written and the file closed.
CloseReport(r) ==
    /\ Writing(r)
    /\ versions' = [versions EXCEPT ![r] = Append(@, cli.report)]
    /\ cli' = [cli EXCEPT !.pc = "next", !.report = None, !.todo = @ \ {r}]
    /\ UNCHANGED <<exit, runs, tabVars>>

\* The write raises (a full disk): what was written stays.
WriteRaises(r) ==
    /\ Writing(r)
    /\ cli' = [cli EXCEPT !.pc = "next", !.report = None, !.todo = @ \ {r}, !.failed = TRUE]
    /\ UNCHANGED <<versions, exit, runs, tabVars>>

Return ==
    /\ cli.pc = "next" /\ cli.todo = {}
    /\ exit' = [mode |-> cli.mode, code |-> IF cli.failed THEN 1 ELSE 0]
    /\ cli' = NoRun
    /\ UNCHANGED <<versions, runs, tabVars>>

\* The process is killed; there is no exit code to trust.
Kill ==
    /\ cli.pc # "off"
    /\ cli' = NoRun
    /\ UNCHANGED <<versions, exit, runs, tabVars>>

Analyser ==
    \/ \E mode \in {"single", "batch"}, recs \in SUBSET Recordings, force \in BOOLEAN : Analyse(mode, recs, force)
    \/ \E r \in Recordings :
         \/ Skip(r) \/ CollectRaises(r) \/ CloseReport(r) \/ WriteRaises(r)
         \/ \E rep \in Reports : OpenReport(r, rep)
    \/ Return \/ Kill

-----------------------------------------------------------------------------
(* The pages.  Scripts run on one thread: what happens between two awaits  *)
(* of a page is one step, a resize event comes before or after it.         *)

\* The shell and its scripts are loaded; the script asks for the data.  The rows of
\* the last index page stay with the tab: its links are what the user follows.
Open(t, page, r) ==
    /\ tab[t].pc \in {"idle", "done"}
    /\ tab' = [tab EXCEPT ![t] =
          IF page = "index" THEN [Blank EXCEPT !.page = page, !.pc = "asked", !.todo = Recordings]
          ELSE [Blank EXCEPT !.page = page, !.pc = "asked", !.rec = r, !.rows = tab[t].rows,
                             !.asked = Len(versions[r])]]
    /\ timer' = [timer EXCEPT ![t] = FALSE]
    /\ UNCHANGED <<cliVars, win>>

Fail(t, why) == tab' = [tab EXCEPT ![t].pc = "done", ![t].fail = why, ![t].body = None]

\* The request or its answer is lost, or the file changed its length between
\* the server's stat and its read, which cuts the answer off.
NetFail(t) ==
    /\ tab[t].pc \in {"asked", "sent"}
    /\ Fail(t, "net")
    /\ UNCHANGED <<cliVars, win, timer>>

\* Fault: a file that exists is listed as a good report.
RowIsFile(r) ==
    [rec |-> r, ver |-> Len(versions[r]), ok |-> TRUE,
     cells |-> IF Whole(Content(r)) THEN Cells(Picked(Content(r))) ELSE None]

\* _summarize: the row of the index for one report, as renderIndex will write it.
Row(r) ==
    [rec |-> r, ver |-> Len(versions[r]), ok |-> Readable(Content(r)),
     cells |-> IF Readable(Content(r)) THEN Cells(Picked(Content(r))) ELSE None]

\* scan_reports looks at one recording after the other; the analyser goes on.
ScanReport(t, r) ==
    /\ tab[t].page = "index" /\ tab[t].pc = "asked"
    /\ r \in tab[t].todo /\ \A q \in tab[t].todo : r <= q
    /\ tab' = [tab EXCEPT ![t].todo = @ \ {r},
                          ![t].rows = IF OnDisk(r) THEN Append(@, Row(r)) ELSE @]
    /\ UNCHANGED <<cliVars, win, timer>>

\* The list arrives; renderIndex writes the table, or "no reports".
RenderIndex(t) ==
    /\ tab[t].page = "index" /\ tab[t].pc = "asked" /\ tab[t].todo = {}
    /\ tab' = [tab EXCEPT ![t].pc = "done"]
    /\ UNCHANGED <<cliVars, win, timer>>

ReportPage(t) == tab[t].page \in {"detail", "safety"}

\* Fault: the page throws outside its try, so that it says nothing.
NotFoundUncaught(t) ==
    /\ ReportPage(t) /\ tab[t].pc = "asked" /\ ~OnDisk(tab[t].rec)
    /\ tab' = [tab EXCEPT ![t].fail = "http"]
    /\ UNCHANGED <<cliVars, win, timer>>

\* resolve_report finds no file: 404, and the page throws on !resp.ok.
NotFound(t) ==
    /\ ReportPage(t) /\ tab[t].pc = "asked" /\ ~OnDisk(tab[t].rec)
    /\ Fail(t, "http")
    /\ UNCHANGED <<cliVars, win, timer>>

\* Fault: the server remembers the first content it sent.
SendFirst(t) ==
    /\ ReportPage(t) /\ tab[t].pc = "asked" /\ OnDisk(tab[t].rec)
    /\ tab' = [tab EXCEPT ![t].pc = "sent", ![t].ver = 1,
                          ![t].body = Head(versions[tab[t].rec])]
    /\ UNCHANGED <<cliVars, win, timer>>

\* FileResponse passes through what is on disk, whole or not.
Send(t) ==
    /\ ReportPage(t) /\ tab[t].pc = "asked" /\ OnDisk(tab[t].rec)
    /\ tab' = [tab EXCEPT ![t].pc = "sent", ![t].ver = Len(versions[tab[t].rec]),
                          ![t].body = Content(tab[t].rec)]
    /\ UNCHANGED <<cliVars, win, timer>>

\* resp.json() rejects a torn report.
ParseFails(t) ==
    /\ ReportPage(t) /\ tab[t].pc = "sent" /\ ~Whole(tab[t].body)
    /\ Fail(t, "parse")
    /\ UNCHANGED <<cliVars, win, timer>>

\* The safety page draws nothing for a report without flight samples, and says so.
Warned(rep) == rep.flight = <<>>
Panels(page, rep) ==
    IF page = "detail" THEN DetailPanels(rep)
    ELSE IF Warned(rep) THEN [id \in {} |-> NoData] ELSE SafetyPanels(rep)

\* Elements with a chart instance; the others are blank or say "no data".
Charts(panels) == {id \in DOMAIN panels : panels[id].shown}

\* renderDetail, renderSafety: echarts.init takes the element's size as it is.
Render(t) ==
    /\ ReportPage(t) /\ tab[t].pc = "sent" /\ Whole(tab[t].body)
    /\ \E panels \in {Panels(tab[t].page, tab[t].body)} :
           tab' = [tab EXCEPT ![t].pc = "done", ![t].size = [id \in Charts(panels) |-> win[t]]]
    /\ UNCHANGED <<cliVars, win, timer>>

\* The window's size changes: clearTimeout, setTimeout.
Resize(t, w) ==
    /\ tab[t].page # "none" /\ w # win[t]
    /\ win' = [win EXCEPT ![t] = w]
    /\ timer' = [timer EXCEPT ![t] = TRUE]
    /\ UNCHANGED <<cliVars, tab>>

\* Fault: only the panels of the detail page are looked for.
ResizedChartOnly(t) == IF tab[t].page = "detail" THEN DOMAIN tab[t].size ELSE {}

\* querySelectorAll(".chart, .panel") with an instance.
Resized(t) == DOMAIN tab[t].size

ResizeTimer(t) ==
    /\ timer[t]
    /\ timer' = [timer EXCEPT ![t] = FALSE]
    /\ tab' = [tab EXCEPT ![t].size = [id \in DOMAIN @ |-> IF id \in Resized(t) THEN win[t] ELSE @[id]]]
    /\ UNCHANGED <<cliVars, win>>

PageStep(t) ==
    \/ RenderIndex(t) \/ NotFound(t) \/ Send(t) \/ ParseFails(t) \/ Render(t)
    \/ \E r \in Recordings : ScanReport(t, r)

Next ==
    \/ Analyser
    \/ \E t \in Tabs :
         \/ \E page \in {"index", "detail", "safety"}, r \in Recordings : Open(t, page, r)
         \/ PageStep(t) \/ NetFail(t)
         \/ \E w \in WinSizes : Resize(t, w)
         \/ ResizeTimer(t)

Spec == Init /\ [][Next]_vars

\* The server answers and the browser runs the scripts it has; nothing makes a
\* user open a page or resize a window, or the analyser run.
FairSpec == Spec /\ \A t \in Tabs : WF_vars(PageStep(t)) /\ WF_vars(ResizeTimer(t))

-----------------------------------------------------------------------------
(* Properties.                                                             *)

Shown(t) == ReportPage(t) /\ tab[t].pc = "done" /\ tab[t].fail = "none"

\* A chart whose size is not that of its window has a resize coming, whenever it
\* was drawn: before the window changed, after, or while a timer ran.
StaleSizePending ==
    \A t \in Tabs : \A id \in DOMAIN tab[t].size : tab[t].size[id] # win[t] => timer[t]

\* A page shows a report that was complete on disk at some moment after it was
\* asked for: never a torn one, never an older one (app.py: passed through).
ShownWasOnDisk ==
    \A t \in Tabs : Shown(t) =>
        /\ Whole(tab[t].body)
        /\ \E v \in Greatest(1, tab[t].asked)..Len(versions[tab[t].rec]) :
               versions[tab[t].rec][v] = tab[t].body

\* A row the index calls good leads to a page that opens and tells the same, as
\* long as the file has not been touched since: the server picks the row, the index
\* page and both report pages format it, each for itself (scanner._summarize,
\* renderIndex, renderSummary, renderSafety).
RowHolds ==
    \A t \in Tabs : \A k \in DOMAIN tab[t].rows :
        LET row == tab[t].rows[k]
        IN  (/\ row.ok /\ ReportPage(t) /\ tab[t].pc = "done" /\ tab[t].fail # "net"
             /\ tab[t].rec = row.rec /\ tab[t].ver = row.ver)
            => /\ tab[t].fail = "none"
               /\ tab[t].page = "detail" => Summary(tab[t].body) = row.cells
               /\ tab[t].page = "safety" => SafetySummary(tab[t].body).duration = row.cells.duration

\* A batch that returned 0 left every recording with a report the viewer can read,
\* whatever earlier runs, killed in the middle of a write, had left there.
BatchZeroIsComplete ==
    (exit.mode = "batch" /\ exit.code = 0) => \A r \in Recordings : OnDisk(r) /\ Readable(Content(r))

\* A page that asked for its data ends with it or with an error message.
PageSettles == \A t \in Tabs : tab[t].pc = "asked" ~> tab[t].pc = "done"

PanelsOf(t) == Panels(tab[t].page, tab[t].body)

\* The list of the report a panel draws, by panel.
Samples(id, page, rep) ==
    IF page = "detail" THEN rep.battery
    ELSE IF id \in {"downdist", "downstate", "around"} THEN rep.hsi
    ELSE IF id = "stick" THEN rep.stick
    ELSE IF id = "link" THEN rep.link
    ELSE rep.flight

\* What the report says of field f at a sample, in the terms of the axis.
Truth(id, f, v) ==
    IF id = "winddir" THEN <<"N", "NE", "E", "SE", "S", "SW", "W", "NW">>[v]
    ELSE IF f \in {"is_fixed", "down_work"} THEN IF v THEN 1 ELSE 0
    ELSE IF id = "stick" /\ v \notin 364..1684 THEN IF v < 364 THEN -660 ELSE 660
    ELSE IF id = "stick" THEN v - 1024
    ELSE v
Recorded(f, v) == v # None /\ (f \in {"down_distance_mm", "up_distance_mm"} => v < 60000)

\* The fields of a sample that a panel draws as they are.
Fields ==
    [battery |-> {"percent"}, windspeed |-> {"wind_ms"}, winddir |-> {"wind_direction"},
     speed |-> {"horizontal_speed_ms", "vertical_speed_ms"}, height |-> {"height_m"},
     attitude |-> {"attitude_pitch", "attitude_roll", "attitude_head"},
     stick |-> {"roll", "pitch", "yaw", "throttle"}, rtk |-> {"gps_number", "rtk_number", "is_fixed"},
     drc |-> {"drc_state"}, downdist |-> {"down_distance_mm"}, downstate |-> {"down_work"},
     around |-> {"up_distance_mm"}, drift |-> {}, link |-> {"sdr_quality", "fourg_quality"},
     oa |-> {"oa_down", "oa_horizon", "oa_up"}, hms |-> {}]

\* Which one i is of those in S.
Place(i, S) == Cardinality({j \in S : j <= i})

FieldDrawn(id, f, panel, samples) ==
    LET held == {i \in DOMAIN samples : Recorded(f, samples[i][f])}
        line == IF f \in DOMAIN panel.lines THEN panel.lines[f] ELSE <<>>
    IN  /\ Len(line) = Cardinality(held)
        /\ \A i \in held :
             LET pt == line[Place(i, held)]
             IN  /\ pt[1] = samples[i].rel_ms
                 /\ Named(id, panel, pt[2]) = Truth(id, f, samples[i][f])

\* The text an event should have: an official one of its device before the supplement.
TextTold(e, text) ==
    LET official == {key \in HMS_TEXT :
                       key[1] = (IF e.device = "dock" THEN "dock_tip" ELSE "fpv_tip") /\ key[2] = e.code.hex}
    IN  IF official # {} THEN text \in official
        ELSE text = IF e.code.hex \in HMS_TEXT_EXTRA THEN <<e.code.hex>> ELSE None

HmsTold(panel, hms) ==
    \A lv \in 0..2 :
        LET held == {i \in DOMAIN hms : hms[i].level = lv}
            line == IF panel.shown THEN panel.lines[lv] ELSE <<>>
        IN  /\ Len(line) = Cardinality(held)
            /\ \A i \in held :
                 LET tip == HmsTip(line[Place(i, held)])
                 IN  /\ tip.level = <<"notice", "reminder", "warning">>[lv + 1]
                     /\ tip.device = "dock" <=> hms[i].device = "dock"
                     /\ tip.code = hms[i].code /\ tip.module = hms[i].module
                     /\ TextTold(hms[i], tip.text)
                     /\ (60 * tip.time.m + tip.time.s) * 1000 - hms[i].rel_ms \in -499..500

\* The line of a field has a point for every value of it the report holds, zeros
\* included, in the report's order, each at its own time and naming what was
\* recorded: nothing lost, nothing moved, nothing made up.  The HMS panel has a point
\* for every event of a known level, whose tooltip tells the event, its text and its
\* time to the nearest second (safPick, the index of DRC labels, wind labels, hmsText).
PointsTellReport ==
    \A t \in Tabs : Shown(t) =>
        LET panels == PanelsOf(t)
        IN  \A id \in DOMAIN panels :
              /\ \A f \in Fields[id] :
                    FieldDrawn(id, f, panels[id], Samples(id, tab[t].page, tab[t].body))
              /\ id = "hms" => HmsTold(panels[id], tab[t].body.hms)

Times(panel, f) == IF panel.shown THEN {pt[1] : pt \in ToSet(panel.lines[f])} ELSE {}

\* Panels that judge the same samples by conditions of their own agree: the distance
\* below has a point exactly where the state panel does not call it invalid, its
\* difference only where it has a point, and both drift lines start at the origin
\* and have the same times (safDownDist, safDownState, safDrift).
PanelsAgree ==
    \A t \in Tabs : (Shown(t) /\ tab[t].page = "safety" /\ ~Warned(tab[t].body)) =>
        LET p == PanelsOf(t)
        IN  /\ Times(p.downdist, "down_distance_mm") =
                 (IF p.downstate.shown THEN {pt[1] : pt \in {q \in ToSet(p.downstate.lines.na) : q[2] = 0}} ELSE {})
            /\ Times(p.downdist, "diff") \subseteq Times(p.downdist, "down_distance_mm")
            /\ Times(p.drift, "east") = Times(p.drift, "north")
            /\ p.drift.shown => p.drift.lines.east[1][2] = 0 /\ p.drift.lines.north[1][2] = 0

\* No drawn point lies outside the fixed ends of its axis, where ECharts would clip
\* it: what the collector and the drawing functions let through fits the axes.
PointsOnAxis ==
    \A t \in Tabs : Shown(t) =>
        LET panels == PanelsOf(t)
        IN  \A id \in DOMAIN panels : \A f \in DOMAIN panels[id].lines :
            \A pt \in ToSet(panels[id].lines[f]) :
              /\ panels[id].lo # None => pt[2] >= panels[id].lo
              /\ panels[id].hi # None => pt[2] <= panels[id].hi
=============================================================================
