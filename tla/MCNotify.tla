------------------------------- MODULE MCNotify -------------------------------
(***************************************************************************)
(* Two robots and three endpoints, of which one is strict, one excludes a  *)
(* code and has fewer pauses than attempts, and one has an address that    *)
(* does not parse and is reached by emergencies only.                      *)
(***************************************************************************)
EXTENDS Notify

All == {"*"}
MCRobots == <<"r1", "r2">>
MCEndpoints == <<"e1", "e2", "e3">>
MCFilter ==
    [t \in {"r1", "r2", "e1", "e2", "e3"} |->
        [min_severity |-> CASE t = "r1" -> 3 [] t \in {"e3"} -> 5 [] OTHER -> 1,
         include |-> IF t = "e1" THEN {} ELSE All,
         exclude |-> IF t = "e2" THEN {"noise"} ELSE {}]]
MCRetry == [e \in {"e1", "e2", "e3"} |->
               IF e = "e2" THEN [max_attempts |-> 3, pauses |-> 1]
               ELSE [max_attempts |-> 2, pauses |-> 2]]
MCAlerts == {[code |-> "wind", severity |-> 3], [code |-> "noise", severity |-> 2],
             [code |-> "crash", severity |-> 5], [code |-> "quiet", severity |-> 1]}
MCOverrides == [c \in {"quiet"} |-> <<"panel">>]
MCDefaults == [s \in 1..5 |-> <<"panel", "webhook", "dingtalk">>]
=============================================================================
