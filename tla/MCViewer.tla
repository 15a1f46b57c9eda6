------------------------------- MODULE MCViewer -------------------------------
(***************************************************************************)
(* Reports whose lists show what the drawing functions tell apart: absent  *)
(* values, zeros, limits, repeated and changing labels, events of every    *)
(* level.  One list at a time varies; the others are short.                *)
(***************************************************************************)
EXTENDS Viewer

Times3 == <<0, 59500, 130499>>

Battery(p, v) == [percent |-> p, wind_ms |-> v, wind_direction |-> IF v = 0 THEN None ELSE v,
                  horizontal_speed_ms |-> v, vertical_speed_ms |-> IF v = 0 THEN None ELSE -v]
Flight(v, drc, lat, lon) ==
    [height_m |-> v, horizontal_speed_ms |-> v, vertical_speed_ms |-> v, attitude_pitch |-> v,
     attitude_roll |-> v, attitude_head |-> v, gps_number |-> v, rtk_number |-> v,
     is_fixed |-> IF v = None THEN None ELSE v = 1, drc_state |-> drc, latitude |-> lat, longitude |-> lon,
     oa_down |-> v, oa_horizon |-> v, oa_up |-> v]
Hsi(down, up, round, elev, work) ==
    [down_distance_mm |-> down, up_distance_mm |-> up, around_distances_mm |-> round,
     elevation_mm |-> elev, down_work |-> work]
Stick(a, b) == [roll |-> a, pitch |-> b, yaw |-> a, throttle |-> b]
Link(a, b) == [sdr_quality |-> a, fourg_quality |-> b]
Event(lv, dev, h) == [level |-> lv, module |-> 3, device |-> dev, code |-> [hex |-> h, upper |-> FALSE]]

Timed(seq) == [i \in DOMAIN seq |-> seq[i] @@ [rel_ms |-> Times3[i]]]

Batteries == {Battery(100, 0), Battery(0, 8), Battery(50, 1)}
Flights == {Flight(None, None, None, 5), Flight(0, "seized", 7, 0), Flight(1, "idle", 9, 3), Flight(1, "seized", None, None)}
Hsis == {Hsi(None, None, None, 100, None), Hsi(0, 0, <<60000, 300>>, None, TRUE), Hsi(59999, 60000, <<60000>>, 100, FALSE),
         Hsi(60000, 800, None, 100, TRUE)}
Sticks == {Stick(None, 1024), Stick(364, 1684), Stick(0, 2000)}
Links == {Link(0, None), Link(5, 3)}
Events == {Event(-1, "dock", "a"), Event(0, "dock", "b"), Event(1, "drone", "a"), Event(2, "drone", "b"), Event(2, "dock", "c")}

UpTo(S, n) == UNION {[1..k -> S] : k \in 0..n}

Metrics(battery, gust) == [min_battery_percent |-> battery, peak_wind_gust_30s |-> gust]
Plain == [schema |-> 7, duration_ms |-> 130499, metrics |-> Metrics(0, 1249),
          battery |-> <<>>, flight |-> Timed(<<Flight(1, "idle", 9, 3)>>), hsi |-> <<>>, stick |-> <<>>,
          link |-> <<>>, hms |-> <<>>, transfers |-> <<>>]
Empty == [Plain EXCEPT !.flight = <<>>]
Old == [Empty EXCEPT !.schema = 2, !.duration_ms = None]
Third == [Plain EXCEPT !.schema = 3, !.metrics = Metrics(None, None)]

FirstInitial ==
    {Old, Empty}
    \cup {[Third EXCEPT !.battery = Timed(s)] : s \in UpTo(Batteries, 3)}
    \cup {[Plain EXCEPT !.flight = Timed(s)] : s \in UpTo(Flights, 3)}
    \cup {[Plain EXCEPT !.hsi = Timed(s)] : s \in UpTo(Hsis, 2)}
    \cup {[Plain EXCEPT !.stick = Timed(s)] : s \in UpTo(Sticks, 2)}
    \cup {[Plain EXCEPT !.link = Timed(s)] : s \in UpTo(Links, 2)}
    \cup {[Plain EXCEPT !.hms = Timed(s)] : s \in UpTo(Events, 2)}
MCInitial == <<FirstInitial, {}>>
MCRerun == {Old}
MCReports == {[Plain EXCEPT !.metrics = Metrics(30, None)]}

MCHmsText == {<<"dock_tip", "a">>, <<"fpv_tip", "a", "in_the_sky">>, <<"dock_tip", "b">>}
MCHmsExtra == {"a", "c"}

\* The reports of this instance keep the promise PointsStayOnAxis is proved from.
ASSUME ReportsKeepPromise == DevicePromise
=============================================================================
