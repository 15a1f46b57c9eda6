----------------------------- MODULE MCRuleEngine -----------------------------
(***************************************************************************)
(* Three rules: 1 has a dwell of its own, 2 is a custom_fn on the default  *)
(* dwell, 3 is gated to one phase.  The second rule set lacks rule 1, the  *)
(* third has a longer default.                                             *)
(***************************************************************************)
EXTENDS RuleEngine

MCRuleIds == 1..3
MCCustomRules == {2}
MCPhases == {"PREFLIGHT", "CRUISE"}

MCGates == <<MCPhases, MCPhases, {"PREFLIGHT"}>>
MCDwell == <<2, 0, 0>>

MCFirstSet == [rules |-> 1..3, phases |-> MCGates, dwell |-> MCDwell, default |-> 0]
MCWithoutOne == [MCFirstSet EXCEPT !.rules = 2..3]
MCLongerDefault == [MCFirstSet EXCEPT !.default = 1]
MCRuleSets == {MCFirstSet, MCWithoutOne, MCLongerDefault}
=============================================================================
