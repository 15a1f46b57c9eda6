--------------------------- MODULE MCDockAggregator ---------------------------
(***************************************************************************)
(* The shipped mode code map, with dock and drone frames that reach every  *)
(* branch of the phase machine: tasks preparing, flying, recovering,       *)
(* updating and abnormal, a drone taking off, cruising, on virtual sticks, *)
(* disconnected and in a mode nobody knows; two of them with a battery.    *)
(***************************************************************************)
EXTENDS DockAggregator

MCBucketCodes ==
    [b \in Buckets |->
        CASE b = "PREFLIGHT" -> {0, 1, 2, 18, 19}
          [] b = "TAKEOFF" -> {4}
          [] b = "CRUISE" -> {3, 5, 6, 7, 15, 17, 20, 21}
          [] b = "AVOIDANCE" -> {8}
          [] b = "RTH" -> {9}
          [] b = "LANDING" -> {10, 11, 12}
          [] b = "OFFLINE" -> {14}
          [] b = "UPGRADING" -> {13}
          [] b = "IDLE" -> {16}]
MCAirborneSet == {3, 4, 5, 6, 7, 8, 9, 10, 11, 12, 15, 17, 18, 20, 21}

MCDockData ==
    {[in_dock |-> 1], [fs |-> 0, wind |-> 2], [fs |-> 1], [fs |-> 2, in_dock |-> 0],
     [fs |-> 3], [fs |-> 255, wind |-> 1]}
MCDroneData ==
    {[mc |-> 4], [mc |-> 5, height |-> 30, batt |-> 80], [mc |-> 16, height |-> 0, vs |-> 0],
     [mc |-> 16, height |-> 30], [mc |-> 14, wind |-> 5, batt |-> 70], [mc |-> 99, height |-> 30]}
=============================================================================
