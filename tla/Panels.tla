-------------------------------- MODULE Panels --------------------------------
(***************************************************************************)
(* What the report viewer's pages draw (serve/static/app.js): each panel   *)
(* of the detail page and of the safety page as a function of the report.  *)
(*                                                                         *)
(* A panel is its lines, each a sequence of points <<rel_ms, y, ...>>, its *)
(* marks, its category labels and the fixed ends of its y axis.  Lengths   *)
(* stay in millimetres, stick travel in 1/660 of the full way, positions   *)
(* in the unit of the report: the code's factors do not depend on the      *)
(* sample.  Colours, titles and zoom controls are left out.                *)
(***************************************************************************)
EXTENDS Integers, Sequences, SequencesExt

CONSTANTS
    None,          \* JSON null, or a key the report does not have
    HMS_TEXT,      \* keys of the official texts: <<prefix, code>> and <<prefix, code, "in_the_sky">>
    HMS_TEXT_EXTRA \* codes of the supplementary texts

Least(a, b) == IF a < b THEN a ELSE b
Greatest(a, b) == IF a < b THEN b ELSE a

\* "+Xs", "+Xm" or "+XmYs": the minutes and seconds it names.
FmtT(relMs) == LET s == (relMs + 500) \div 1000 IN [m |-> s \div 60, s |-> s % 60]

WIND_DIR_CN == <<"N", "NE", "E", "SE", "S", "SW", "W", "NW">>
LV == <<"notice", "reminder", "warning">>

\* (ms / 1000).toFixed(0), and toFixed(1) of a speed in hundredths; null stays "-".
Seconds(ms) == IF ms = None THEN None ELSE (ms + 500) \div 1000
Tenths(hundredths) == IF hundredths = None THEN None ELSE (hundredths + 5) \div 10

\* What scan_reports sends of a report it could read.
Picked(rep) ==
    [duration_ms |-> rep.duration_ms, min_battery_percent |-> rep.metrics.min_battery_percent,
     peak_wind_gust_30s |-> rep.metrics.peak_wind_gust_30s]

\* Fault: an empty battery counts as unknown.
CellsTruthy(row) ==
    [duration |-> Seconds(row.duration_ms), gust |-> Tenths(row.peak_wind_gust_30s),
     battery |-> IF row.min_battery_percent = 0 THEN None ELSE row.min_battery_percent]

\* The cells the index page writes for a row it was sent.
Cells(row) ==
    [duration |-> Seconds(row.duration_ms), gust |-> Tenths(row.peak_wind_gust_30s),
     battery |-> row.min_battery_percent]

\* The line above the charts of the detail page, read from the report itself.
Summary(rep) ==
    LET m == rep.metrics
    IN  [duration |-> Seconds(rep.duration_ms), gust |-> Tenths(m.peak_wind_gust_30s),
         battery |-> m.min_battery_percent]

\* The line above the panels of the safety page.
SafetySummary(rep) == [duration |-> Seconds(rep.duration_ms), samples |-> Len(rep.flight)]

-----------------------------------------------------------------------------
NoData == [shown |-> FALSE, lines |-> <<>>, marks |-> <<>>, labels |-> <<>>, lo |-> None, hi |-> None]

Chart(lines, lo, hi) ==
    [shown |-> TRUE, lines |-> lines, marks |-> <<>>, labels |-> <<>>, lo |-> lo, hi |-> hi]

\* noData when no line has a point.
Plot(lines, lo, hi) ==
    IF \A name \in DOMAIN lines : lines[name] = <<>> THEN NoData ELSE Chart(lines, lo, hi)

\* Array.filter: the elements of s at the places in keep, in their order.
Kept(s, keep) ==
    LET f[n \in 0..Len(s)] ==
            IF n = 0 THEN <<>> ELSE IF n \in keep THEN Append(f[n - 1], s[n]) ELSE f[n - 1]
    IN  f[Len(s)]

\* The places of the samples that have a value for the key.
Given(samples, key) == {i \in DOMAIN samples : samples[i][key] # None}

\* Fault: a truthiness test instead of != null loses the zeros.
SafPickTruthy(samples, key) ==
    LET kept == Kept(samples, {i \in Given(samples, key) : key # "drc_state" => samples[i][key] # 0})
    IN  [i \in DOMAIN kept |-> <<kept[i].rel_ms, kept[i][key]>>]

SafPick(samples, key) ==
    LET kept == Kept(samples, Given(samples, key))
    IN  [i \in DOMAIN kept |-> <<kept[i].rel_ms, kept[i][key]>>]

\* The same for a flag, drawn as 1 or 0.
PickFlag(samples, key) ==
    LET kept == Kept(samples, Given(samples, key))
    IN  [i \in DOMAIN kept |-> <<kept[i].rel_ms, IF kept[i][key] THEN 1 ELSE 0>>]

-----------------------------------------------------------------------------
(* Detail page: four charts over battery_samples.                          *)

DrawBattery(samples) == Plot([percent |-> SafPick(samples, "percent")], 0, 100)

DrawSpeed(samples) ==
    Plot([horizontal_speed_ms |-> SafPick(samples, "horizontal_speed_ms"),
          vertical_speed_ms |-> SafPick(samples, "vertical_speed_ms")], None, None)

DrawWindSpeed(samples) == Plot([wind_ms |-> SafPick(samples, "wind_ms")], 0, None)

\* Fault: the axis of the eight directions counts from 0.
DrawWindDirFromZero(samples) == Plot([wind_direction |-> SafPick(samples, "wind_direction")], 0, 7)

DrawWindDir(samples) == Plot([wind_direction |-> SafPick(samples, "wind_direction")], 1, 8)

DetailPanels(rep) ==
    [battery |-> DrawBattery(rep.battery), speed |-> DrawSpeed(rep.battery),
     windspeed |-> DrawWindSpeed(rep.battery), winddir |-> DrawWindDir(rep.battery)]

-----------------------------------------------------------------------------
(* Safety page: thirteen panels over the other lists.                      *)

\* Transfers are marked in the height panel, and only there.
SafHeight(fs, transfers) ==
    LET pts == SafPick(fs, "height_m")
    IN  IF pts = <<>> THEN NoData
        ELSE [Chart([height_m |-> pts], None, None) EXCEPT
                !.marks = [i \in DOMAIN transfers |->
                              <<transfers[i].rel_ms, transfers[i].type, transfers[i].target_height>>]]

SafSpeed(fs) ==
    Plot([horizontal_speed_ms |-> SafPick(fs, "horizontal_speed_ms"),
          vertical_speed_ms |-> SafPick(fs, "vertical_speed_ms")], None, None)

SafAttitude(fs) ==
    Plot([key \in {"attitude_pitch", "attitude_roll", "attitude_head"} |-> SafPick(fs, key)], None, None)

\* (v - 1024) / 660, clamped to the full way.
StickTravel(v) == Greatest(-660, Least(660, v - 1024))

SafStick(stick) ==
    LET norm(key) == LET pts == SafPick(stick, key)
                     IN  [i \in DOMAIN pts |-> <<pts[i][1], StickTravel(pts[i][2])>>]
    IN  Plot([key \in {"roll", "pitch", "yaw", "throttle"} |-> norm(key)], -660, 660)

SafRtk(fs) ==
    Plot([gps_number |-> SafPick(fs, "gps_number"), rtk_number |-> SafPick(fs, "rtk_number"),
          is_fixed |-> PickFlag(fs, "is_fixed")], None, None)

\* [...new Set(...)]: the values in the order of their first appearance.
Labels(pts) ==
    LET kept == Kept(pts, {i \in DOMAIN pts : \A j \in 1..(i - 1) : pts[j][2] # pts[i][2]})
    IN  [k \in DOMAIN kept |-> kept[k][2]]

\* The state is drawn as the index of its label, counted from 0.
SafDrc(fs) ==
    LET pts == SafPick(fs, "drc_state")
        labels == Labels(pts)
        idx(state) == SelectLastInSeq(labels, LAMBDA l : l = state) - 1
    IN  IF pts = <<>> THEN NoData
        ELSE [Chart([drc_state |-> [i \in DOMAIN pts |-> <<pts[i][1], idx(pts[i][2])>>]],
                    0, Greatest(1, Len(labels) - 1)) EXCEPT !.labels = labels]

HSI_NA == 60000

DistanceInvalid(mm) == mm = None \/ mm >= HSI_NA

\* The distance below, and its difference from the height above take-off.
SafDownDist(hsi) ==
    LET valid == Kept(hsi, {i \in Given(hsi, "down_distance_mm") : hsi[i].down_distance_mm < HSI_NA})
        both == Kept(valid, Given(valid, "elevation_mm"))
    IN  Plot([down_distance_mm |-> SafPick(valid, "down_distance_mm"),
              diff |-> [i \in DOMAIN both |->
                           <<both[i].rel_ms, both[i].down_distance_mm - both[i].elevation_mm>>]],
             None, None)

\* Fault: the limit itself counts as a distance.
SafDownStateLenient(hsi) ==
    Plot([down_work |-> PickFlag(hsi, "down_work"),
          na |-> [i \in DOMAIN hsi |->
                     LET mm == hsi[i].down_distance_mm
                     IN  <<hsi[i].rel_ms, IF mm = None \/ mm > HSI_NA THEN 1 ELSE 0>>]], 0, 1)

\* Whether the sensor works, and whether the distance it gave is invalid.
SafDownState(hsi) ==
    Plot([down_work |-> PickFlag(hsi, "down_work"),
          na |-> [i \in DOMAIN hsi |->
                     <<hsi[i].rel_ms, IF DistanceInvalid(hsi[i].down_distance_mm) THEN 1 ELSE 0>>]], 0, 1)

\* The distance above, and the least of those around, which is not filtered.
SafAround(hsi) ==
    LET above == Kept(hsi, {i \in DOMAIN hsi : ~DistanceInvalid(hsi[i].up_distance_mm)})
        round == Kept(hsi, Given(hsi, "around_distances_mm"))
    IN  Plot([up_distance_mm |-> SafPick(above, "up_distance_mm"),
              around |-> [i \in DOMAIN round |->
                             <<round[i].rel_ms, Min(ToSet(round[i].around_distances_mm))>>]], 0, None)

\* Displacement east and north of the first sample that has both coordinates.
SafDrift(fs) ==
    LET fixes == Kept(fs, Given(fs, "latitude") \cap Given(fs, "longitude"))
        line(key) == [i \in DOMAIN fixes |-> <<fixes[i].rel_ms, fixes[i][key] - fixes[1][key]>>]
    IN  Plot([east |-> line("longitude"), north |-> line("latitude")], None, None)

SafLink(link) ==
    Plot([sdr_quality |-> SafPick(link, "sdr_quality"), fourg_quality |-> SafPick(link, "fourg_quality")], 0, 5)

\* The official text for the device, in its general or its airborne form, before
\* the supplement; the code's spelling (case, 0x) does not matter.
HmsText(device, code) ==
    LET pre == IF device = "dock" THEN "dock_tip" ELSE "fpv_tip"
    IN  IF <<pre, code.hex>> \in HMS_TEXT THEN <<pre, code.hex>>
        ELSE IF <<pre, code.hex, "in_the_sky">> \in HMS_TEXT THEN <<pre, code.hex, "in_the_sky">>
        ELSE IF code.hex \in HMS_TEXT_EXTRA THEN <<code.hex>>
        ELSE None

\* One scatter line per level; an event of another level is on none of them.
SafHms(hms) ==
    LET at(lv) == LET kept == Kept(hms, {i \in DOMAIN hms : hms[i].level = lv})
                  IN  [i \in DOMAIN kept |-> <<kept[i].rel_ms, lv, kept[i].code, kept[i].module, kept[i].device>>]
    IN  IF hms = <<>> THEN NoData ELSE Chart([lv \in 0..2 |-> at(lv)], 0, 2)

SafOa(fs) == Plot([key \in {"oa_down", "oa_horizon", "oa_up"} |-> SafPick(fs, key)], 0, 1)

SafetyPanels(rep) ==
    [height |-> SafHeight(rep.flight, rep.transfers), downdist |-> SafDownDist(rep.hsi),
     speed |-> SafSpeed(rep.flight), attitude |-> SafAttitude(rep.flight), stick |-> SafStick(rep.stick),
     rtk |-> SafRtk(rep.flight), drc |-> SafDrc(rep.flight), downstate |-> SafDownState(rep.hsi),
     around |-> SafAround(rep.hsi), drift |-> SafDrift(rep.flight), link |-> SafLink(rep.link),
     hms |-> SafHms(rep.hms), oa |-> SafOa(rep.flight)]

-----------------------------------------------------------------------------
(* What the values of a line mean.                                         *)

\* A value as the labels of its axis name it; the others are drawn as numbers.
Named(id, panel, y) ==
    IF id = "winddir" THEN WIND_DIR_CN[y]
    ELSE IF id = "drc" THEN panel.labels[y + 1]
    ELSE y

\* The tooltip of one HMS event.
HmsTip(pt) ==
    [time |-> FmtT(pt[1]), level |-> LV[pt[2] + 1], device |-> IF pt[5] = "dock" THEN "dock" ELSE "drone",
     code |-> pt[3], module |-> pt[4], text |-> HmsText(pt[5], pt[3])]
=============================================================================
