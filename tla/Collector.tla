------------------------------- MODULE Collector -------------------------------
(***************************************************************************)
(* collector.py: the offline pass over a recording.  Every envelope goes   *)
(* through the aggregator, then the peaks, the samples and the phase       *)
(* transitions of the report are kept; after the last one the time in each *)
(* phase and the longest stretch offline are computed from the transitions.*)
(* A frame the ring refuses ends the pass without a report.                *)
(*                                                                         *)
(* `published' of DockAggregator is the list phase_transitions, `started'  *)
(* and `now' are first_ts and last_ts.  A battery sample is its rel_ms.    *)
(***************************************************************************)
EXTENDS DockAggregator, SequencesExt

CONSTANT SampleInterval  \* SAMPLE_INTERVAL_MS

ASSUME CollectorAssumption == SampleInterval \in Nat \ {0}

VARIABLES
    peak,     \* peak_wind and peak_wind_at
    lowest,   \* min_batt and min_batt_at
    samples,  \* battery_samples
    nextRel,  \* next_sample_rel_ms
    timeline  \* history: timestamp and phase of every frame

collected == <<peak, lowest, samples, nextRel, timeline>>
allVars == <<vars, collected>>

None == <<Null, Null>>

CollectorInit ==
    /\ Init
    /\ peak = None /\ lowest = None
    /\ samples = <<>> /\ nextRel = 0 /\ timeline = <<>>

ValidBatt(b) == b \in 0..100
Rel == now - started

\* Fault: an equal value later replaces the first one.
HigherOrEqual(w) == w # Null /\ (peak = None \/ w >= peak[1])

Higher(w) == w # Null /\ (peak = None \/ w > peak[1])
Lower(b) == ValidBatt(b) /\ (lowest = None \/ b < lowest[1])

SampleReady(frame) ==
    /\ ValidBatt(Get(drone, "batt")) /\ Get(drone, "height") # Null /\ frame.gust # Null

\* Fault: the grid does not move when a sample is taken.
SampleDueAlways(frame) == SampleReady(frame)

SampleDue(frame) == Rel >= nextRel /\ SampleReady(frame)

\* The rest of the loop's body, for the frame just applied.
Collect ==
    LET frame == ring[Len(ring)]
        w == frame.gust
        b == Get(drone, "batt")
    IN
    /\ Drain
    /\ peak' = IF Higher(w) THEN <<w, now>> ELSE peak
    /\ lowest' = IF Lower(b) THEN <<b, now>> ELSE lowest
    /\ samples' = IF SampleDue(frame) THEN Append(samples, Rel) ELSE samples
    /\ nextRel' = IF SampleDue(frame) THEN nextRel + SampleInterval ELSE nextRel
    /\ timeline' = Append(timeline, <<now, phase>>)

CollectorNext ==
    \/ Apply /\ UNCHANGED collected
    \/ Collect

CollectorSpec == CollectorInit /\ [][CollectorNext]_allVars

-----------------------------------------------------------------------------
(* What the report says when the recording ends here.                      *)

Segments == 0..Len(published)
SegmentPhase(i) == IF i = 0 THEN published[1].from[1] ELSE published[i].to[1]
SegmentStart(i) == IF i = 0 THEN started ELSE published[i].ts
SegmentEnd(i) == IF i = Len(published) THEN now ELSE published[i + 1].ts

\* Fault: the stretch after the last transition is forgotten.
PhaseDurationsOpen(p) ==
    IF published = <<>> THEN 0
    ELSE MapThenSumSet(LAMBDA i : SegmentEnd(i) - SegmentStart(i),
                       {i \in Segments \ {Len(published)} : SegmentPhase(i) = p})

\* _phase_durations: nothing at all without a transition.
PhaseDurations(p) ==
    IF published = <<>> THEN 0
    ELSE MapThenSumSet(LAMBDA i : SegmentEnd(i) - SegmentStart(i),
                       {i \in Segments : SegmentPhase(i) = p})

Longer(a, b) == IF a >= b THEN a ELSE b

\* Fault: the stretch is never closed.
OfflineStepOpen(acc, tr) ==
    IF tr.to[1] = "OFFLINE" /\ acc.start = Null THEN [acc EXCEPT !.start = tr.ts]
    ELSE IF tr.from[1] = "OFFLINE" /\ acc.start # Null
    THEN [acc EXCEPT !.longest = Longer(acc.longest, tr.ts - acc.start)]
    ELSE acc

\* _longest_offline: `start' is the transition a stretch is counted from.
OfflineStep(acc, tr) ==
    IF tr.to[1] = "OFFLINE" THEN [acc EXCEPT !.start = tr.ts]
    ELSE IF tr.from[1] = "OFFLINE" /\ acc.start # Null
    THEN [start |-> Null, longest |-> Longer(acc.longest, tr.ts - acc.start)]
    ELSE acc

LongestOffline ==
    LET first == IF SegmentPhase(0) = "OFFLINE" THEN started ELSE Null
        end == FoldLeft(OfflineStep, [start |-> first, longest |-> 0], published)
    IN
    IF published = <<>> THEN 0
    ELSE IF end.start = Null THEN end.longest
    ELSE Longer(end.longest, now - end.start)

-----------------------------------------------------------------------------
(* Properties.                                                             *)

FrameEnd(i) == IF i = Len(timeline) THEN now ELSE timeline[i + 1][1]
TimeIn(p) ==
    MapThenSumSet(LAMBDA i : FrameEnd(i) - timeline[i][1],
                  {i \in 1..Len(timeline) : timeline[i][2] = p})

\* The time the report gives each phase is the time the frames were in it, to the
\* last frame, whatever transitions there were and however often a phase came
\* back (collector.py:393-405).
DurationsTrue ==
    pc = "idle" /\ published # <<>> => \A p \in Phases : PhaseDurations(p) = TimeIn(p)

\* The longest unbroken stretch of OFFLINE frames.
LongestRun ==
    Max({0} \cup {FrameEnd(r[2]) - timeline[r[1]][1] :
                     r \in {q \in (1..Len(timeline)) \X (1..Len(timeline)) :
                               q[1] <= q[2] /\ \A i \in q[1]..q[2] : timeline[i][2] = "OFFLINE"}})

OfflineSplit ==
    \E i \in 1..Len(published) : published[i].from[1] = "OFFLINE" /\ published[i].to[1] = "OFFLINE"

\* The longest time offline is never overstated, and exact as long as the source
\* of OFFLINE did not change within a stretch, which starts it anew
\* (collector.py:408-425).
OfflineNotOverstated ==
    pc = "idle" /\ published # <<>> =>
        /\ LongestOffline <= LongestRun
        /\ ~OfflineSplit => LongestOffline = LongestRun

\* The peak of the gusts is the strongest wind measured in the whole recording,
\* though each frame sees a window of it, and stands at the first frame with it.
PeakIsStrongest ==
    pc = "idle" =>
        peak = IF winds = {} THEN None
               ELSE LET top == Max({w[2] : w \in winds}) IN
                    <<top, Min({w[1] : w \in {v \in winds : v[2] = top}})>>

\* Samples come in order, and however they cluster after a gap there are never
\* more than one per interval since the start, which is what turns their number
\* into seconds of wind (collector.py:149-173, 363-366).
SamplesPaced ==
    \A i \in 1..Len(samples) :
        /\ samples[i] >= (i - 1) * SampleInterval
        /\ i > 1 => samples[i] >= samples[i - 1]
=============================================================================
