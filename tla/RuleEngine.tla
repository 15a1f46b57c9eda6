------------------------------ MODULE RuleEngine ------------------------------
(***************************************************************************)
(* RuleEngine.evaluate(): one pass over the rules for every frame of       *)
(* facts, with the phase gate, the custom functions that may raise, the    *)
(* dwell clocks, and POST /admin/reload-rules, which swaps engine.rules    *)
(* from the thread pool while a pass may be under way.                     *)
(*                                                                         *)
(* A rule's condition is abstracted to the set of rules a frame matches.   *)
(* Rules are numbers in the order all_rules() yields them.                 *)
(***************************************************************************)
EXTENDS Integers, Sequences, FiniteSets

CONSTANTS
    RuleIds,     \* every rule id any rules.yaml may hold
    CustomRules, \* the rules evaluated by a custom_fn, which may raise
    Phases,      \* flight phases the gates tell apart
    RuleSets,    \* the rules.yaml contents a reload may load
    FirstSet,    \* the one the process starts with
    MaxClock,    \* bound: last timestamp of a frame
    MaxFrames    \* bound: frames evaluated

\* dwell[r] = 0 stands for an absent dwell_enter_ms and for 0: "or" merges them.
RuleSet == [rules : SUBSET RuleIds, phases : [RuleIds -> SUBSET Phases],
            dwell : [RuleIds -> Nat], default : Nat]

ASSUME RuleEngineAssumption ==
    /\ RuleIds \subseteq Nat
    /\ IsFiniteSet(RuleIds)
    /\ CustomRules \subseteq RuleIds
    /\ RuleSets \subseteq RuleSet
    /\ FirstSet \in RuleSets
    /\ MaxClock \in Nat /\ MaxFrames \in Nat

NoDwell == -1

VARIABLES
    rules,      \* engine.rules, swapped by a reload
    pc,         \* "idle", or "eval" while evaluate() runs
    iter,       \* the rule set whose all_rules() the pass iterates
    frame,      \* the frame in hand: its timestamp, phase, matches and raises
    todo,       \* rules of iter not judged yet
    dwell,      \* _dwell_state: matching_since_ms, or NoDwell
    verdicts,   \* rules that fired in this pass, in order
    failures,   \* _failures_this_tick
    failCount,  \* eval_failure_counts
    nFrames,    \* history: frames so far
    reported,   \* history: RULE_EVAL_FAILED verdicts handed to the coordinator
    since,      \* history: first frame of the unbroken run of matches of a rule
    installed   \* history: every rule set engine.rules has held

vars == <<rules, pc, iter, frame, todo, dwell, verdicts, failures, failCount,
          nFrames, reported, since, installed>>

Frames == [ts : 0..MaxClock, phase : Phases, matches : SUBSET RuleIds,
           raises : SUBSET CustomRules]

GateOpen(set, f, r) == r \in set.rules /\ f.phase \in set.phases[r]
Holds(set, f, r) == GateOpen(set, f, r) /\ r \in f.matches /\ r \notin f.raises

Init ==
    /\ rules = FirstSet /\ iter = FirstSet
    /\ pc = "idle"
    /\ frame \in [ts : {0}, phase : Phases, matches : {{}}, raises : {{}}]
    /\ todo = {}
    /\ dwell = [r \in RuleIds |-> NoDwell]
    /\ verdicts = <<>> /\ failures = <<>>
    /\ failCount = [r \in RuleIds |-> 0]
    /\ nFrames = 0
    /\ reported = [r \in RuleIds |-> 0]
    /\ since = [r \in RuleIds |-> NoDwell]
    /\ installed = {FirstSet}

\* A frame was applied: evaluate() starts a pass over the rules it finds now.
StartPass(f) ==
    /\ pc = "idle"
    /\ nFrames < MaxFrames
    /\ f.ts >= frame.ts
    /\ pc' = "eval"
    /\ frame' = f
    /\ iter' = rules
    /\ todo' = rules.rules
    /\ verdicts' = <<>> /\ failures' = <<>>
    /\ nFrames' = nFrames + 1
    /\ since' = [r \in RuleIds |->
                    IF ~Holds(rules, f, r) THEN NoDwell
                    ELSE IF since[r] = NoDwell THEN f.ts ELSE since[r]]
    /\ UNCHANGED <<rules, dwell, failCount, reported, installed>>

IsNext(r) == pc = "eval" /\ r \in todo /\ \A q \in todo : r <= q

\* The own dwell comes from the rule being iterated, the default from self.rules
\* as it is at this moment.
DwellOf(r) == IF iter.dwell[r] # 0 THEN iter.dwell[r] ELSE rules.default

\* The phase gate is shut: the dwell clock is dropped.
PhaseSkip(r) ==
    /\ IsNext(r)
    /\ ~GateOpen(iter, frame, r)
    /\ dwell' = [dwell EXCEPT ![r] = NoDwell]
    /\ todo' = todo \ {r}
    /\ UNCHANGED <<rules, pc, iter, frame, verdicts, failures, failCount,
                   nFrames, reported, since, installed>>

\* Fault: the exception ends the pass over the remaining rules.
CustomFnRaisesEndsPass(r) ==
    /\ IsNext(r)
    /\ GateOpen(iter, frame, r) /\ r \in frame.raises
    /\ failCount' = [failCount EXCEPT ![r] = @ + 1]
    /\ failures' = Append(failures, r)
    /\ dwell' = [dwell EXCEPT ![r] = NoDwell]
    /\ todo' = {}
    /\ UNCHANGED <<rules, pc, iter, frame, verdicts, nFrames, reported, since, installed>>

\* custom_fn raised: counted, reported as RULE_EVAL_FAILED, taken as no match.
CustomFnRaises(r) ==
    /\ IsNext(r)
    /\ GateOpen(iter, frame, r) /\ r \in frame.raises
    /\ failCount' = [failCount EXCEPT ![r] = @ + 1]
    /\ failures' = Append(failures, r)
    /\ dwell' = [dwell EXCEPT ![r] = NoDwell]
    /\ todo' = todo \ {r}
    /\ UNCHANGED <<rules, pc, iter, frame, verdicts, nFrames, reported, since, installed>>

\* Fault: a frame that does not match leaves the dwell clock running.
NoMatchKeepsDwell(r) ==
    /\ IsNext(r)
    /\ GateOpen(iter, frame, r) /\ r \notin frame.raises /\ r \notin frame.matches
    /\ todo' = todo \ {r}
    /\ UNCHANGED <<rules, pc, iter, frame, dwell, verdicts, failures, failCount,
                   nFrames, reported, since, installed>>

NoMatch(r) ==
    /\ IsNext(r)
    /\ GateOpen(iter, frame, r) /\ r \notin frame.raises /\ r \notin frame.matches
    /\ dwell' = [dwell EXCEPT ![r] = NoDwell]
    /\ todo' = todo \ {r}
    /\ UNCHANGED <<rules, pc, iter, frame, verdicts, failures, failCount,
                   nFrames, reported, since, installed>>

\* _dwell_passes: no dwell fires at once and drops the clock; the first match
\* starts the clock; later matches fire once it has run long enough.
NextDwell(r) ==
    IF DwellOf(r) = 0 THEN NoDwell
    ELSE IF dwell[r] = NoDwell THEN frame.ts
    ELSE dwell[r]

Fires(r) ==
    \/ DwellOf(r) = 0
    \/ dwell[r] # NoDwell /\ frame.ts - dwell[r] >= DwellOf(r)

Match(r) ==
    /\ IsNext(r)
    /\ Holds(iter, frame, r)
    /\ dwell' = [dwell EXCEPT ![r] = NextDwell(r)]
    /\ verdicts' = IF Fires(r) THEN Append(verdicts, r) ELSE verdicts
    /\ todo' = todo \ {r}
    /\ UNCHANGED <<rules, pc, iter, frame, failures, failCount,
                   nFrames, reported, since, installed>>

\* Fault: a pass without a firing rule returns nothing at all.
EndPassOnlyVerdicts ==
    /\ pc = "eval" /\ todo = {}
    /\ pc' = "idle"
    /\ reported' = IF verdicts = <<>> THEN reported
                   ELSE [r \in RuleIds |-> reported[r] + Cardinality({i \in 1..Len(failures) : failures[i] = r})]
    /\ verdicts' = <<>> /\ failures' = <<>>
    /\ UNCHANGED <<rules, iter, frame, todo, dwell, failCount, nFrames, since, installed>>

\* evaluate() returns the verdicts followed by this pass's RULE_EVAL_FAILED ones.
EndPass ==
    /\ pc = "eval" /\ todo = {}
    /\ pc' = "idle"
    /\ reported' = [r \in RuleIds |->
                       reported[r] + Cardinality({i \in 1..Len(failures) : failures[i] = r})]
    /\ verdicts' = <<>> /\ failures' = <<>>
    /\ UNCHANGED <<rules, iter, frame, todo, dwell, failCount, nFrames, since, installed>>

\* Fault: the pass under way goes on with the new rules.
ReloadIntoPass(set) ==
    /\ rules' = set /\ iter' = set
    /\ installed' = installed \cup {set}
    /\ UNCHANGED <<pc, frame, todo, dwell, verdicts, failures, failCount,
                   nFrames, reported, since>>

\* POST /admin/reload-rules: load_rules_yaml succeeded, engine.rules = new_rules.
\* The dwell clocks stay.  (A load that fails changes nothing.)
Reload(set) ==
    /\ rules' = set
    /\ installed' = installed \cup {set}
    /\ UNCHANGED <<pc, iter, frame, todo, dwell, verdicts, failures, failCount,
                   nFrames, reported, since>>

Next ==
    \/ \E f \in Frames : StartPass(f)
    \/ \E r \in RuleIds :
         PhaseSkip(r) \/ CustomFnRaises(r) \/ NoMatch(r) \/ Match(r)
    \/ EndPass
    \/ \E set \in RuleSets : Reload(set)

Spec == Init /\ [][Next]_vars

-----------------------------------------------------------------------------
(* Properties.                                                             *)

Fired(r) == \E i \in 1..Len(verdicts) : verdicts[i] = r
Failed(r) == \E i \in 1..Len(failures) : failures[i] = r
HeldFor(r, ms) == since[r] # NoDwell /\ frame.ts - since[r] >= ms
Effective(set, r) == IF set.dwell[r] # 0 THEN set.dwell[r] ELSE set.default

\* Present in every rule set the engine has held.
Persistent(r) == \A set \in installed : r \in set.rules

\* ... and with one and the same dwell in all of them.
Stable(r) ==
    /\ Persistent(r)
    /\ \A a, b \in installed :
         a.dwell[r] = b.dwell[r] /\ (a.dwell[r] # 0 \/ a.default = b.default)

\* A rule no reload ever removed fires only after its condition has held, in
\* phase and without a failure, on every frame for as long as one of the dwells
\* the engine has been given for it (RuleEngine._dwell_passes).
DwellHonoured ==
    \A r \in RuleIds : Fired(r) /\ Persistent(r) =>
        \E a, b \in installed : HeldFor(r, IF a.dwell[r] # 0 THEN a.dwell[r] ELSE b.default)

\* At the end of a pass a rule whose dwell no reload changed has fired exactly if
\* its condition has held for the dwell: no alert is early and none is missed,
\* whatever other rules raise and whichever reload runs during the pass.
DwellExact ==
    pc = "eval" /\ todo = {} =>
        \A r \in iter.rules : Stable(r) =>
            (Fired(r) <=> HeldFor(r, Effective(iter, r)))

\* Every exception of a custom_fn reaches the coordinator as one RULE_EVAL_FAILED
\* verdict: the counter and the verdicts never drift apart, over any number of
\* passes and reloads (eval_failure_counts / _failures_this_tick).
FailuresReported ==
    \A r \in RuleIds :
        failCount[r] = reported[r] + Cardinality({i \in 1..Len(failures) : failures[i] = r})

\* A pass ends with every rule of one rule set judged once: a rule fires, fails or
\* neither, never both and never twice, although engine.rules may have been
\* swapped meanwhile (the generator keeps the set it was made from).
JudgedOnce ==
    /\ \A i, j \in 1..Len(verdicts) : i < j => verdicts[i] < verdicts[j]
    /\ \A i, j \in 1..Len(failures) : i < j => failures[i] < failures[j]
    /\ \A r \in RuleIds : Fired(r) \/ Failed(r) => r \in iter.rules /\ ~(Fired(r) /\ Failed(r))
    /\ pc = "eval" /\ todo = {} =>
         \A r \in iter.rules : GateOpen(iter, frame, r) => (Failed(r) <=> r \in frame.raises)
=============================================================================
