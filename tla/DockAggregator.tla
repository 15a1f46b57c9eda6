---------------------------- MODULE DockAggregator ----------------------------
(***************************************************************************)
(* DockAggregator.apply(): one envelope at a time is merged into the state *)
(* of the dock and its drone, the phase is resolved, a transition is       *)
(* queued when it changed, and the frame of facts is appended to the ring, *)
(* which refuses a frame older than its last one.  The live loop drains    *)
(* the transitions to the panel after every envelope.                      *)
(*                                                                         *)
(* Of the facts only those the phase, the staleness, the wind and the      *)
(* report of Collector depend on are kept; a frame's data is a partial     *)
(* function from fields to values.                                         *)
(* Wind is in units of 0.1 m/s, which is what the drone sends; the dock    *)
(* sends m/s.                                                              *)
(***************************************************************************)
EXTENDS PhaseMachine, Sequences, FiniteSetsExt

CONSTANTS
    DockData,   \* data objects a dock OSD may carry: fields fs, in_dock, wind
    DroneData,  \* data objects of a drone OSD: fields mc, height, vs, wind, batt
    SilenceMs,  \* runtime.dock_osd_silence_to_offline_ms
    WarmingMs,  \* runtime.warming_up_ms
    GustMs,     \* window of the gust maximum: 30000
    RingMax,    \* maxlen of the ring's deque
    MaxClock,   \* bound: last receive timestamp
    MaxFrames   \* bound: envelopes applied

ASSUME AggregatorAssumption ==
    /\ \A d \in DockData : DOMAIN d \subseteq {"fs", "in_dock", "wind"}
    /\ \A d \in DroneData : DOMAIN d \subseteq {"mc", "height", "vs", "wind", "batt"}
    /\ \A d \in DockData \cup DroneData : "wind" \in DOMAIN d => d.wind \in Int
    /\ SilenceMs \in Nat /\ WarmingMs \in Nat /\ GustMs \in Nat \ {0}
    /\ RingMax \in Nat \ {0} /\ MaxClock \in Nat /\ MaxFrames \in Nat

VARIABLES
    pc,          \* "idle", "drain" after an apply, "crashed" after its ValueError
    now,         \* _now_ms
    started,     \* _started_at_ms
    dock, drone, \* _dock_fields, _drone_fields
    osdTs,       \* _last_dock_osd_ts
    taskTs,      \* _last_flighttask_progress_ts
    online,      \* _sys_online
    gusts,       \* _wind_gust_max_30s: pairs of timestamp and wind
    phase, source, \* _current_phase, _current_phase_source
    pending,     \* _phase_transitions
    ring,        \* facts_ring: the frames
    published,   \* history: transitions handed to the panel
    winds,       \* history: every wind measured, with its timestamp
    osdHeard,    \* history: timestamps of the dock OSDs
    applied      \* history: envelopes applied

stateVars == <<now, started, phase, source, pending, ring, applied, pc>>
vars == <<stateVars, dock, drone, osdTs, taskTs, online, gusts,
          published, winds, osdHeard>>

Get(fields, k) == IF k \in DOMAIN fields THEN fields[k] ELSE Null
Merge(old, data) ==
    [k \in DOMAIN old \cup DOMAIN data |-> IF k \in DOMAIN data THEN data[k] ELSE old[k]]

Init ==
    /\ pc = "idle" /\ now = 0 /\ started = 0
    /\ dock = <<>> /\ drone = <<>>
    /\ osdTs = 0 /\ taskTs = 0 /\ online = TRUE
    /\ gusts = <<>>
    /\ phase = "OFFLINE" /\ source = "FALLBACK_IDLE"
    /\ pending = <<>> /\ ring = <<>>
    /\ published = <<>> /\ winds = {} /\ osdHeard = {} /\ applied = 0

\* popleft() while the head is before the window: the longest stale prefix goes.
DropStale(q, cutoff) ==
    LET stale == {i \in 1..Len(q) : \A j \in 1..i : q[j][1] < cutoff}
    IN  SubSeq(q, Cardinality(stale) + 1, Len(q))

\* Fault: stale points stay.
PushKeepsHead(q, t, w) ==
    IF q # <<>> /\ t < q[Len(q)][1] THEN q ELSE Append(q, <<t, w>>)

\* TimeBoundedDeque.push: an older point is dropped, stale heads are evicted.
Push(q, t, w) ==
    IF q # <<>> /\ t < q[Len(q)][1] THEN q
    ELSE DropStale(Append(q, <<t, w>>), t - GustMs)

PushWind(t, w) ==
    /\ gusts' = IF w = Null THEN gusts ELSE Push(gusts, t, w)
    /\ winds' = IF w = Null THEN winds ELSE winds \cup {<<t, w>>}

Gust(q) == IF q = <<>> THEN Null ELSE Max({q[i][2] : i \in 1..Len(q)})

\* Fault: silence is not noticed before the first dock OSD.
DockOsdStaleOnlyLater(t) == osdTs' > 0 /\ t - osdTs' > SilenceMs

DockOsdStale(t) == osdTs' = 0 \/ t - osdTs' > SilenceMs

Resolved(t) ==
    ResolvePhase(t, taskTs', online', DockOsdStale(t), Get(dock', "fs"), Get(drone', "mc"),
                 Get(dock', "in_dock"), Get(drone', "height"), Get(drone', "vs"))

Transition(t, p, s) == [ts |-> t, from |-> <<phase, source>>, to |-> <<p, s>>]

\* Fault: a change of the source alone is not recorded.
UpdatePhaseOnly(t) ==
    LET res == Resolved(t) IN
    /\ phase' = res.phase /\ source' = res.source
    /\ pending' = IF res.phase = phase THEN pending
                  ELSE Append(pending, Transition(t, res.phase, res.source))

UpdatePhase(t) ==
    LET res == Resolved(t) IN
    /\ phase' = res.phase /\ source' = res.source
    /\ pending' = IF res.phase = phase /\ res.source = source THEN pending
                  ELSE Append(pending, Transition(t, res.phase, res.source))

WarmingUp(start, t) == start = 0 \/ t - start < WarmingMs

Frame(t) == [ts |-> t, phase |-> phase', source |-> source', online |-> online',
             warming |-> WarmingUp(started', t), gust |-> Gust(gusts')]

\* FactsRing.append on a deque of bounded length; an older frame raises.
Snapshot(t) ==
    IF ring # <<>> /\ t < ring[Len(ring)].ts
    THEN pc' = "crashed" /\ ring' = ring
    ELSE /\ pc' = "drain"
         /\ LET r == Append(ring, Frame(t))
            IN  ring' = IF Len(r) > RingMax THEN Tail(r) ELSE r

Begin(t) ==
    /\ pc = "idle" /\ applied < MaxFrames
    /\ applied' = applied + 1
    /\ started' = IF started = 0 THEN t ELSE started
    /\ now' = t

\* apply(): dispatch by topic, then the phase, then the snapshot.
ApplyDockOsd(t, data) ==
    /\ Begin(t)
    /\ osdTs' = t /\ osdHeard' = osdHeard \cup {t}
    /\ dock' = Merge(dock, data)
    /\ PushWind(t, IF Get(data, "wind") = Null THEN Null ELSE 10 * data.wind)
    /\ UNCHANGED <<drone, taskTs, online, published>>
    /\ UpdatePhase(t) /\ Snapshot(t)

ApplyDroneOsd(t, data) ==
    /\ Begin(t)
    /\ drone' = Merge(drone, data)
    /\ PushWind(t, Get(data, "wind"))
    /\ UNCHANGED <<dock, osdTs, osdHeard, taskTs, online, published>>
    /\ UpdatePhase(t) /\ Snapshot(t)

\* sub_type 0 is online, any other value offline, none leaves it as it is.
ApplySysStatus(t, subType) ==
    /\ Begin(t)
    /\ online' = IF subType = Null THEN online ELSE subType = 0
    /\ UNCHANGED <<dock, drone, osdTs, osdHeard, taskTs, gusts, winds, published>>
    /\ UpdatePhase(t) /\ Snapshot(t)

\* A dock event: flighttask_progress, or another method.
ApplyDockEvent(t, progress) ==
    /\ Begin(t)
    /\ taskTs' = IF progress THEN t ELSE taskTs
    /\ UNCHANGED <<dock, drone, osdTs, osdHeard, online, gusts, winds, published>>
    /\ UpdatePhase(t) /\ Snapshot(t)

\* The live loop drains the transitions into the event bus.
Drain ==
    /\ pc = "drain"
    /\ pc' = "idle"
    /\ published' = published \o pending
    /\ pending' = <<>>
    /\ UNCHANGED <<now, started, phase, source, ring, applied, dock, drone, osdTs,
                   taskTs, online, gusts, winds, osdHeard>>

\* recv_ts_ms is the wall clock: it may be set back by a tick.
Clock == {t \in 1..MaxClock : t >= now - 1}

Apply ==
    \E t \in Clock :
        \/ \E data \in DockData : ApplyDockOsd(t, data)
        \/ \E data \in DroneData : ApplyDroneOsd(t, data)
        \/ \E s \in {Null, 0, 1} : ApplySysStatus(t, s)
        \/ \E p \in BOOLEAN : ApplyDockEvent(t, p)

Next == Apply \/ Drain

Spec == Init /\ [][Next]_vars

-----------------------------------------------------------------------------
(* Properties.                                                             *)

\* The transitions form one chain from (OFFLINE, FALLBACK_IDLE) to the phase and
\* source at hand, each a real change, in order of the frames: the panel can
\* replay them, and none is lost before the loop ends (drain_phase_transitions).
TransitionsChain ==
    LET log == published \o pending IN
    /\ \A i \in 1..Len(log) :
         /\ log[i].from = IF i = 1 THEN <<"OFFLINE", "FALLBACK_IDLE">> ELSE log[i - 1].to
         /\ log[i].from # log[i].to
    /\ <<phase, source>> = IF log = <<>> THEN <<"OFFLINE", "FALLBACK_IDLE">>
                           ELSE log[Len(log)].to

\* No frame claims a phase other than OFFLINE unless the dock was heard within
\* the silence limit and is not reported offline, whatever the drone says.
NeverBlind ==
    \A i \in 1..Len(ring) : ring[i].phase # "OFFLINE" =>
        /\ ring[i].online
        /\ \E h \in osdHeard : h <= ring[i].ts /\ ring[i].ts - h <= SilenceMs

LastFrame == ring[Len(ring)]
NewestWind == Max({w[1] : w \in winds})

\* wind_gust_max_30s is the strongest wind of dock and drone in the window that
\* ends at the newest measurement, in one unit (TimeBoundedDeque).
GustIsWindowMax ==
    pc # "crashed" /\ ring # <<>> =>
        LastFrame.gust = IF winds = {} THEN Null
                         ELSE Max({w[2] : w \in {v \in winds : v[1] >= NewestWind - GustMs}})

\* A drone whose mode code is of an airborne bucket is seen in the air while the
\* dock is heard: only a preparing or recovering task may say otherwise.
AirborneSeen ==
    LET mc == Get(drone, "mc") IN
    (/\ pc = "drain" /\ online
     /\ \E h \in osdHeard : now - h <= SilenceMs
     /\ mc \in AirborneSet /\ Known(mc) /\ BucketOf(mc) \in AirbornePhases
     /\ ~(taskTs > 0 /\ now - taskTs <= BareFlightMs /\ Get(dock, "fs") \in {0, 2}))
    => phase = BucketOf(mc)

\* An unknown mode code is treated as airborne (mode_code_map.yaml:45,
\* phase_machine.py:109) as long as the dock is heard, does not report the drone
\* inside, and no task has been reported.
UnknownModeAirborne ==
    LET mc == Get(drone, "mc") IN
    (/\ pc = "drain" /\ online
     /\ \E h \in osdHeard : now - h <= SilenceMs
     /\ mc # Null /\ ~Known(mc) /\ taskTs = 0
     /\ Get(dock, "in_dock") # 1)
    => phase \in AirbornePhases
=============================================================================
