----------------------------- MODULE PhaseMachine -----------------------------
(***************************************************************************)
(* phase_machine.py: how the phase of a flight is resolved from the dock's *)
(* task step code fs, the drone's mode code mc, drone_in_dock, and height  *)
(* and vertical speed in units of 0.1.  Null stands for None.  "warned"    *)
(* abstracts the tuple of warnings.                                        *)
(***************************************************************************)
EXTENDS Integers, FiniteSets

CONSTANTS
    BucketCodes,  \* mode_code_map.phase_bucket: [bucket |-> set of codes]
    AirborneSet,  \* mode_code_map.airborne_set
    BareFlightMs  \* runtime.bare_flight_threshold_ms

Null == -1000
Buckets == {"PREFLIGHT", "TAKEOFF", "CRUISE", "AVOIDANCE", "RTH", "LANDING",
            "OFFLINE", "UPGRADING", "IDLE"}
Phases == Buckets \cup {"POSTFLIGHT"}
Sources == {"FLIGHTTASK_STEP_CODE", "MODE_CODE", "FALLBACK_IDLE"}
AirbornePhases == {"TAKEOFF", "CRUISE", "AVOIDANCE", "RTH", "LANDING"}

ASSUME PhaseAssumption ==
    /\ BucketCodes \in [Buckets -> SUBSET Nat]
    /\ \A a, b \in Buckets : a # b => BucketCodes[a] \cap BucketCodes[b] = {}
    /\ AirborneSet \subseteq Nat
    /\ BareFlightMs \in Nat

NOT_CONNECTED == 14
VIRTUAL_STICK == 16
POST_OPERATION_RECOVERY == 2
AIRCRAFT_ABNORMAL == 255
OUTSIDE == 0

Resolve(p, s, w) == [phase |-> p, source |-> s, warned |-> w]

Known(mc) == \E b \in Buckets : mc \in BucketCodes[b]
BucketOf(mc) == CHOOSE b \in Buckets : mc \in BucketCodes[b]

\* Fault: every combination counts as listed.
InTableAlways(fs, b) == TRUE

\* _PHASE_TABLE: the combinations a task step allows, and what they mean.
InTable(fs, b) ==
    \/ b \in {"OFFLINE", "UPGRADING", "IDLE", "PREFLIGHT"} /\ fs \in 0..5
    \/ b = "TAKEOFF" /\ fs \in 0..2
    \/ b \in {"CRUISE", "AVOIDANCE", "RTH", "LANDING"} /\ fs \in 1..2

PhaseTable(fs, b) ==
    CASE b \in {"OFFLINE", "UPGRADING"} -> b
      [] fs = 0 /\ b \in {"PREFLIGHT", "TAKEOFF"} -> "PREFLIGHT"
      [] fs = 1 /\ b = "IDLE" -> "CRUISE"
      [] fs = 1 /\ b # "IDLE" -> b
      [] fs = 2 -> "POSTFLIGHT"
      [] OTHER -> "IDLE"

Still(x) == -5 < x /\ x < 5

\* derive_from_mode_code: what the drone says alone.
FromModeCode(mc, height, vs) ==
    IF mc = Null THEN Resolve("OFFLINE", "FALLBACK_IDLE", TRUE)
    ELSE IF mc = NOT_CONNECTED THEN Resolve("OFFLINE", "MODE_CODE", FALSE)
    ELSE IF mc = VIRTUAL_STICK THEN
         IF height # Null /\ Still(height) /\ (vs = Null \/ Still(vs))
         THEN Resolve("IDLE", "MODE_CODE", FALSE)
         ELSE Resolve("CRUISE", "MODE_CODE", FALSE)
    ELSE IF ~Known(mc) THEN Resolve("CRUISE", "MODE_CODE", TRUE)
    ELSE Resolve(BucketOf(mc), "MODE_CODE", FALSE)

\* derive_from_dock_task: the task step, checked against the drone's bucket.
FromDockTask(fs, mc, height, vs) ==
    LET task(p, w) == Resolve(p, "FLIGHTTASK_STEP_CODE", w) IN
    IF fs = Null THEN FromModeCode(mc, height, vs)
    ELSE IF fs = AIRCRAFT_ABNORMAL THEN task(FromModeCode(mc, height, vs).phase, TRUE)
    ELSE IF ~Known(mc) THEN
         IF fs = POST_OPERATION_RECOVERY THEN task("POSTFLIGHT", FALSE)
         ELSE IF fs \in 3..5 THEN task("IDLE", FALSE)
         ELSE task("CRUISE", TRUE)
    ELSE IF InTable(fs, BucketOf(mc)) THEN task(PhaseTable(fs, BucketOf(mc)), FALSE)
    ELSE task(BucketOf(mc), TRUE)

DroneAirborne(mc, inDock, height) ==
    mc \in AirborneSet \/ (inDock = OUTSIDE /\ height > 10)

TaskFresh(now, taskTs) == taskTs > 0 /\ now - taskTs <= BareFlightMs

\* resolve_phase: offline, a fresh task, a bare flight, or idle.
ResolvePhase(now, taskTs, online, osdStale, fs, mc, inDock, height, vs) ==
    IF ~online \/ osdStale THEN Resolve("OFFLINE", "FALLBACK_IDLE", FALSE)
    ELSE IF TaskFresh(now, taskTs) THEN FromDockTask(fs, mc, height, vs)
    ELSE IF DroneAirborne(mc, inDock, height) THEN FromModeCode(mc, height, vs)
    ELSE Resolve("IDLE", "FALLBACK_IDLE", FALSE)
=============================================================================
