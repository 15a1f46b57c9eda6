-------------------------- MODULE MCAlertCoordinator --------------------------
(***************************************************************************)
(* Small instances of AlertCoordinator.  Rule 1 is an EMERGENCY; rules 2   *)
(* and 3 share the code 20 as the RULE_EVAL_FAILED verdicts of two rules   *)
(* do, and rule 2 overrides its cooldown.                                  *)
(***************************************************************************)
EXTENDS AlertCoordinator

MCRules == 1..3
MCLevel == <<5, 2, 2>>
MCCode == <<30, 20, 20>>
MCOverride == <<-1, 0, -1>>

NoRequests == {}
MCDockMuteRequests ==
    {[enabled |-> TRUE, min |-> 5, duration |-> 1],
     [enabled |-> TRUE, min |-> 5, duration |-> 0]}
MCGlobalMuteRequests ==
    {[enabled |-> TRUE, min |-> 5], [enabled |-> FALSE, min |-> 4]}

\* Two rules for the runs that interleave the admin thread.
TwoRules == 1..2
TwoLevel == <<5, 2>>
TwoCode == <<30, 20>>
TwoOverride == <<-1, 1>>
=============================================================================
