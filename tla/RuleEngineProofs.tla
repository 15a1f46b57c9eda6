--------------------------- MODULE RuleEngineProofs ---------------------------
(***************************************************************************)
(* Proofs about RuleEngine for any rules, rule sets and frames, with a     *)
(* reload between any two steps of a pass.                                 *)
(***************************************************************************)
EXTENDS RuleEngine, FiniteSetTheorems, SequenceTheorems, TLAPS

(***************************************************************************)
(* What the sequences of a pass say after one more entry.                  *)
(***************************************************************************)

Listed(s, r) == \E i \in 1..Len(s) : s[i] = r
Rising(s) == \A i, j \in 1..Len(s) : i < j => s[i] < s[j]
Times(s, r) == Cardinality({i \in 1..Len(s) : s[i] = r})

LEMMA NothingListed ==
    /\ <<>> \in Seq(RuleIds)
    /\ \A r : ~Listed(<<>>, r)
    /\ Rising(<<>>)
    /\ \A r : Times(<<>>, r) = 0
<1>1. Len(<<>>) = 0 /\ <<>> \in Seq(RuleIds) /\ 1..0 = {}
  BY EmptySeq
<1>2. \A r : {i \in 1..Len(<<>>) : <<>>[i] = r} = {}
  BY <1>1
<1> QED BY <1>1, <1>2, FS_EmptySet DEF Listed, Rising, Times

\* A rule above all listed ones is added at the end.
LEMMA AddListed ==
    ASSUME NEW s \in Seq(RuleIds), NEW r \in RuleIds
    PROVE  /\ Append(s, r) \in Seq(RuleIds)
           /\ \A q : Listed(Append(s, r), q) <=> (Listed(s, q) \/ q = r)
           /\ Rising(s) /\ (\A q \in RuleIds : Listed(s, q) => q < r) => Rising(Append(s, r))
           /\ \A q : Times(Append(s, r), q) = Times(s, q) + (IF q = r THEN 1 ELSE 0)
<1> DEFINE t == Append(s, r)
           n == Len(s)
<1>1. /\ t \in Seq(RuleIds) /\ Len(t) = n + 1 /\ t[n + 1] = r
      /\ \A i \in 1..n : t[i] = s[i]
  BY AppendProperties
<1>2. n \in Nat /\ \A i \in 1..n : s[i] \in RuleIds
  BY LenProperties, ElementOfSeq
<1> HIDE DEF t, n
<1>3. /\ \A i \in 1..Len(t) : i \in 1..n \/ i = n + 1
      /\ \A i \in 1..n : i \in 1..Len(t) /\ i < n + 1 /\ i # n + 1
      /\ n + 1 \in 1..Len(t) /\ n + 1 \notin 1..n
  BY <1>1, <1>2
<1>4. \A q : Listed(t, q) <=> (Listed(s, q) \/ q = r)
  BY <1>1, <1>3 DEF Listed, n
<1>5. ASSUME Rising(s), \A q \in RuleIds : Listed(s, q) => q < r
      PROVE  Rising(t)
  <2> SUFFICES ASSUME NEW i \in 1..Len(t), NEW j \in 1..Len(t), i < j
               PROVE  t[i] < t[j]
    BY DEF Rising
  <2>1. i \in 1..n
    BY <1>1, <1>2, <1>3
  <2>2. CASE j \in 1..n
    BY <1>1, <1>5, <2>1, <2>2 DEF Rising, n
  <2>3. CASE j = n + 1
    BY <1>1, <1>2, <1>5, <2>1, <2>3 DEF Listed, n
  <2> QED BY <1>3, <2>2, <2>3
<1>6. ASSUME NEW q
      PROVE  Times(t, q) = Times(s, q) + (IF q = r THEN 1 ELSE 0)
  <2> DEFINE old == {i \in 1..n : s[i] = q}
             new == {i \in 1..Len(t) : t[i] = q}
  <2>1. IsFiniteSet(old) /\ Cardinality(old) \in Nat
    <3>1. IsFiniteSet(1..n)
      BY <1>2, FS_Interval
    <3> QED BY <3>1, FS_Subset, FS_CardinalityType
  <2>2. CASE q = r
    <3>1. new = old \cup {n + 1} /\ n + 1 \notin old
      BY <1>1, <1>3, <2>2
    <3>2. Cardinality(new) = Cardinality(old) + 1
      BY <2>1, <3>1, FS_AddElement
    <3>3. Times(t, q) = Times(s, q) + 1
      BY <3>2 DEF Times, n
    <3> QED BY <2>2, <3>3
  <2>3. CASE q # r
    <3>1. new = old
      BY <1>1, <1>3, <2>3
    <3>2. Times(t, q) = Times(s, q) /\ Times(s, q) \in Nat
      BY <2>1, <3>1 DEF Times, n
    <3> QED BY <2>3, <3>2
  <2> QED BY <2>2, <2>3
<1> QED BY <1>1, <1>4, <1>5, <1>6 DEF t

(***************************************************************************)
(* A pass judges each rule of one rule set once and reports each failure.  *)
(***************************************************************************)

PInv ==
    /\ installed \subseteq RuleSets
    /\ rules \in installed
    /\ iter \in installed
    /\ pc \in {"idle", "eval"}
    /\ frame \in Frames
    /\ todo \subseteq iter.rules
    /\ verdicts \in Seq(RuleIds)
    /\ failures \in Seq(RuleIds)
    /\ pc = "idle" => todo = {} /\ verdicts = <<>> /\ failures = <<>>

\* Listed rules are judged, and rules are judged in ascending order.
OInv ==
    /\ Rising(verdicts)
    /\ Rising(failures)
    /\ \A r \in RuleIds : Listed(verdicts, r) \/ Listed(failures, r) =>
           /\ r \in iter.rules /\ r \notin todo
           /\ \A q \in todo : r < q
    /\ \A r \in RuleIds : ~(Listed(verdicts, r) /\ Listed(failures, r))
    /\ \A r \in iter.rules \ todo : pc = "eval" /\ GateOpen(iter, frame, r) =>
           (Listed(failures, r) <=> r \in frame.raises)

\* The counter is ahead of the reports by the failures of the pass at hand.
NInv ==
    /\ failCount \in [RuleIds -> Nat]
    /\ reported \in [RuleIds -> Nat]
    /\ \A r \in RuleIds : Times(failures, r) \in Nat
    /\ \A r \in RuleIds : failCount[r] = reported[r] + Times(failures, r)

JInv == PInv /\ OInv /\ NInv

LEMMA RuleSetType ==
    ASSUME PInv
    PROVE  \A set \in installed :
             /\ set.rules \subseteq RuleIds
             /\ set.dwell \in [RuleIds -> Nat]
             /\ set.default \in Nat
BY RuleEngineAssumption DEF PInv, RuleSet

LEMMA InitJudges == Init => JInv
<1> SUFFICES ASSUME Init PROVE JInv
  OBVIOUS
<1>1. PInv
  BY RuleEngineAssumption, NothingListed DEF Init, PInv, Frames
<1>2. OInv
  BY NothingListed DEF Init, OInv
<1>3. NInv
  BY NothingListed DEF Init, NInv
<1> QED BY <1>1, <1>2, <1>3 DEF JInv

LEMMA StartPassJudges ==
    ASSUME JInv, NEW f \in Frames, StartPass(f)
    PROVE  JInv'
<1>1. /\ pc = "idle" /\ pc' = "eval" /\ frame' = f /\ iter' = rules /\ todo' = rules.rules
      /\ verdicts' = <<>> /\ failures' = <<>>
      /\ UNCHANGED <<rules, failCount, reported, installed>>
  BY DEF StartPass
<1>2. failures = <<>>
  BY <1>1 DEF JInv, PInv
<1>3. PInv'
  BY <1>1, NothingListed DEF JInv, PInv
<1>4. OInv'
  BY <1>1, NothingListed DEF OInv
<1>5. NInv'
  BY <1>1, <1>2 DEF JInv, NInv
<1> QED BY <1>3, <1>4, <1>5 DEF JInv

\* Rule r is judged without a failure; it may have fired.
LEMMA JudgeNoFailure ==
    ASSUME JInv, NEW r \in RuleIds, IsNext(r), todo' = todo \ {r},
           GateOpen(iter, frame, r) => r \notin frame.raises,
           verdicts' = verdicts \/ verdicts' = Append(verdicts, r),
           UNCHANGED <<rules, pc, iter, frame, failures, failCount, reported, installed>>
    PROVE  JInv'
<1>1. /\ pc = "eval" /\ r \in todo /\ r \in iter.rules
      /\ \A q \in todo : r <= q
  BY DEF IsNext, JInv, PInv
<1>2. verdicts \in Seq(RuleIds) /\ todo \subseteq RuleIds
  BY RuleSetType DEF JInv, PInv
<1>3. \A q \in RuleIds : Listed(verdicts, q) => q < r
  BY <1>1 DEF JInv, OInv
<1>4. /\ verdicts' \in Seq(RuleIds) /\ Rising(verdicts')
      /\ \A q : Listed(verdicts', q) => Listed(verdicts, q) \/ q = r
  <2>1. CASE verdicts' = verdicts
    BY <1>2, <2>1 DEF JInv, OInv
  <2>2. CASE verdicts' = Append(verdicts, r)
    <3>1. Rising(verdicts)
      BY DEF JInv, OInv
    <3> QED BY <1>2, <1>3, <2>2, <3>1, AddListed
  <2> QED BY <2>1, <2>2
<1>5. \A q \in todo' : r < q
  BY <1>1, <1>2, RuleEngineAssumption
<1>6. ~Listed(failures, r)
  BY <1>1 DEF JInv, OInv
<1>7. PInv'
  BY <1>1, <1>4 DEF JInv, PInv
<1>8. OInv'
  <2>1. \A q \in RuleIds : Listed(verdicts', q) \/ Listed(failures', q) =>
           /\ q \in iter'.rules /\ q \notin todo'
           /\ \A u \in todo' : q < u
    BY <1>1, <1>4, <1>5 DEF JInv, OInv
  <2>2. \A q \in RuleIds : ~(Listed(verdicts', q) /\ Listed(failures', q))
    BY <1>4, <1>6 DEF JInv, OInv
  <2>3. \A q \in iter'.rules \ todo' : pc' = "eval" /\ GateOpen(iter', frame', q) =>
           (Listed(failures', q) <=> q \in frame'.raises)
    BY <1>6 DEF JInv, OInv
  <2> QED BY <1>4, <2>1, <2>2, <2>3 DEF JInv, OInv, GateOpen
<1>9. NInv'
  BY DEF JInv, NInv
<1> QED BY <1>7, <1>8, <1>9 DEF JInv

LEMMA FailureJudges ==
    ASSUME JInv, NEW r \in RuleIds, CustomFnRaises(r)
    PROVE  JInv'
<1>1. /\ pc = "eval" /\ r \in todo /\ r \in iter.rules
      /\ \A q \in todo : r <= q
  BY DEF CustomFnRaises, IsNext, JInv, PInv
<1>2. /\ GateOpen(iter, frame, r) /\ r \in frame.raises /\ todo' = todo \ {r}
      /\ failures' = Append(failures, r)
      /\ failCount' = [failCount EXCEPT ![r] = @ + 1]
      /\ UNCHANGED <<rules, pc, iter, frame, verdicts, reported, installed>>
  BY DEF CustomFnRaises
<1>3. failures \in Seq(RuleIds) /\ todo \subseteq RuleIds
  BY RuleSetType DEF JInv, PInv
<1>4. \A q \in RuleIds : Listed(failures, q) => q < r
  BY <1>1 DEF JInv, OInv
<1>5. /\ failures' \in Seq(RuleIds) /\ Rising(failures')
      /\ \A q : Listed(failures', q) <=> Listed(failures, q) \/ q = r
  BY <1>2, <1>3, <1>4, AddListed DEF JInv, OInv
<1>6. \A q \in todo' : r < q
  BY <1>1, <1>2, <1>3, RuleEngineAssumption
<1>7. ~Listed(verdicts, r)
  BY <1>1 DEF JInv, OInv
<1>8. PInv'
  BY <1>1, <1>2, <1>5 DEF JInv, PInv
<1>9. OInv'
  <2>1. \A q \in RuleIds : Listed(verdicts', q) \/ Listed(failures', q) =>
           /\ q \in iter'.rules /\ q \notin todo'
           /\ \A u \in todo' : q < u
    BY <1>1, <1>2, <1>5, <1>6 DEF JInv, OInv
  <2>2. \A q \in RuleIds : ~(Listed(verdicts', q) /\ Listed(failures', q))
    BY <1>2, <1>5, <1>7 DEF JInv, OInv
  <2>3. \A q \in iter'.rules \ todo' : pc' = "eval" /\ GateOpen(iter', frame', q) =>
           (Listed(failures', q) <=> q \in frame'.raises)
    BY <1>2, <1>5 DEF JInv, OInv
  <2> QED BY <1>2, <1>5, <2>1, <2>2, <2>3 DEF JInv, OInv, GateOpen
<1>10. NInv'
  <2>1. \A q \in RuleIds : Times(failures', q) = Times(failures, q) + (IF q = r THEN 1 ELSE 0)
    BY <1>2, <1>3, AddListed
  <2>2. \A q \in RuleIds : failCount'[q] = failCount[q] + (IF q = r THEN 1 ELSE 0)
    BY <1>2 DEF JInv, NInv
  <2>3. failCount' \in [RuleIds -> Nat]
    BY <1>2 DEF JInv, NInv
  <2>4. ASSUME NEW q \in RuleIds
        PROVE  Times(failures', q) \in Nat /\ failCount'[q] = reported'[q] + Times(failures', q)
    <3>1. /\ failCount[q] = reported[q] + Times(failures, q)
          /\ reported[q] \in Nat /\ Times(failures, q) \in Nat /\ reported' = reported
      BY <1>2 DEF JInv, NInv
    <3>2. CASE q = r
      BY <2>1, <2>2, <3>1, <3>2
    <3>3. CASE q # r
      BY <2>1, <2>2, <3>1, <3>3
    <3> QED BY <3>2, <3>3
  <2> QED BY <1>2, <2>3, <2>4 DEF JInv, NInv
<1> QED BY <1>8, <1>9, <1>10 DEF JInv

LEMMA EndPassJudges ==
    ASSUME JInv, EndPass
    PROVE  JInv'
<1>1. /\ pc = "eval" /\ todo = {} /\ pc' = "idle" /\ verdicts' = <<>> /\ failures' = <<>>
      /\ reported' = [r \in RuleIds |-> reported[r] + Times(failures, r)]
      /\ UNCHANGED <<rules, iter, frame, todo, failCount, installed>>
  BY DEF EndPass, Times
<1>2. PInv'
  BY <1>1, NothingListed DEF JInv, PInv
<1>3. OInv'
  BY <1>1, NothingListed DEF OInv
<1>4. NInv'
  <2>1. \A r \in RuleIds : Times(failures', r) = 0
    BY <1>1, NothingListed
  <2> QED BY <1>1, <2>1 DEF JInv, NInv
<1> QED BY <1>2, <1>3, <1>4 DEF JInv

LEMMA NextJudges == JInv /\ [Next]_vars => JInv'
<1> SUFFICES ASSUME JInv, [Next]_vars PROVE JInv'
  OBVIOUS
<1>1. ASSUME NEW f \in Frames, StartPass(f) PROVE JInv'
  BY <1>1, StartPassJudges
<1>2. ASSUME NEW r \in RuleIds, PhaseSkip(r) PROVE JInv'
  BY <1>2, JudgeNoFailure DEF PhaseSkip
<1>3. ASSUME NEW r \in RuleIds, CustomFnRaises(r) PROVE JInv'
  BY <1>3, FailureJudges
<1>4. ASSUME NEW r \in RuleIds, NoMatch(r) PROVE JInv'
  BY <1>4, JudgeNoFailure DEF NoMatch
<1>5. ASSUME NEW r \in RuleIds, Match(r) PROVE JInv'
  BY <1>5, JudgeNoFailure DEF Match, Holds
<1>6. CASE EndPass
  BY <1>6, EndPassJudges
<1>7. ASSUME NEW set \in RuleSets, Reload(set) PROVE JInv'
  BY <1>7 DEF Reload, JInv, PInv, OInv, NInv
<1>8. CASE UNCHANGED vars
  BY <1>8 DEF vars, JInv, PInv, OInv, NInv
<1> QED BY <1>1, <1>2, <1>3, <1>4, <1>5, <1>6, <1>7, <1>8 DEF Next

\* Every rule of the set the pass began with is judged once, in order, and no
\* reload in the middle of the pass changes that.
THEOREM EachRuleJudgedOnce == Spec => []JudgedOnce
<1>1. JInv => JudgedOnce
  <2> SUFFICES ASSUME JInv PROVE JudgedOnce
    OBVIOUS
  <2>1. iter.rules \subseteq RuleIds
    BY RuleSetType DEF JInv, PInv
  <2> QED BY <2>1 DEF JInv, OInv, JudgedOnce, Fired, Failed, Listed, Rising
<1> QED BY <1>1, InitJudges, NextJudges, PTL DEF Spec

\* Every exception of a custom_fn is reported once, over any number of passes
\* and reloads.
THEOREM EveryFailureReported == Spec => []FailuresReported
<1>1. JInv => FailuresReported
  BY DEF JInv, NInv, FailuresReported, Times
<1> QED BY <1>1, InitJudges, NextJudges, PTL DEF Spec

(***************************************************************************)
(* The dwell clocks.                                                       *)
(***************************************************************************)

\* A run of matches is under way exactly if the frame at hand matches.
Running(r) ==
    /\ since[r] # NoDwell => since[r] <= frame.ts
    /\ since[r] # NoDwell <=> Holds(iter, frame, r)

\* A clock never shows more than the run of matches it belongs to, and a rule
\* judged without a match has none.
Behind(r) == Persistent(r) =>
    /\ dwell[r] # NoDwell /\ since[r] # NoDwell => since[r] <= dwell[r]
    /\ r \notin todo /\ dwell[r] # NoDwell => since[r] # NoDwell

\* With one dwell all along a judged rule's clock shows the run exactly, and so
\* will the others' once they are judged.
Exact(r) == Stable(r) =>
    /\ Effective(iter, r) = 0 => dwell[r] = NoDwell
    /\ Effective(iter, r) # 0 /\ r \notin todo => dwell[r] = since[r]
    /\ Effective(iter, r) # 0 /\ r \in todo /\ since[r] # NoDwell =>
           since[r] = IF dwell[r] = NoDwell THEN frame.ts ELSE dwell[r]

Earned(r) == \E a, b \in installed : HeldFor(r, IF a.dwell[r] # 0 THEN a.dwell[r] ELSE b.default)

Alarm(r) ==
    /\ Fired(r) /\ Persistent(r) => Earned(r)
    /\ Stable(r) /\ pc = "eval" /\ r \notin todo => (Fired(r) <=> HeldFor(r, Effective(iter, r)))

Clock(r) == Running(r) /\ Behind(r) /\ Exact(r) /\ Alarm(r)

WInv ==
    /\ since \in [RuleIds -> Nat \cup {NoDwell}]
    /\ dwell \in [RuleIds -> Nat \cup {NoDwell}]
    /\ \A r \in RuleIds : Clock(r)

LEMMA InitClocks == Init => WInv
<1> SUFFICES ASSUME Init PROVE WInv
  OBVIOUS
<1>1. \A r : ~Fired(r)
  BY NothingListed DEF Init, Listed, Fired
<1>2. \A r \in RuleIds : Running(r) /\ Behind(r) /\ Exact(r) /\ Alarm(r)
  BY <1>1 DEF Init, Running, Holds, Behind, Exact, Alarm
<1> QED BY <1>2 DEF Init, WInv, Clock

\* All rule sets a stable rule has seen give it one dwell.
LEMMA OneDwell ==
    ASSUME NEW r \in RuleIds, Stable(r), NEW a \in installed, NEW b \in installed
    PROVE  /\ Effective(a, r) = Effective(b, r)
           /\ Effective(a, r) = (IF a.dwell[r] # 0 THEN a.dwell[r] ELSE b.default)
BY DEF Stable, Effective

LEMMA EffectiveType ==
    ASSUME PInv, NEW r \in RuleIds, NEW a \in installed
    PROVE  Effective(a, r) \in Nat
BY RuleSetType DEF Effective

LEMMA StartPassClocks ==
    ASSUME PInv, WInv, NEW f \in Frames, StartPass(f)
    PROVE  WInv'
<1>1. /\ pc = "idle" /\ pc' = "eval" /\ frame' = f /\ iter' = rules /\ todo' = rules.rules
      /\ f.ts >= frame.ts /\ verdicts' = <<>> /\ UNCHANGED <<rules, dwell, installed>>
      /\ since' = [r \in RuleIds |->
                      IF ~Holds(rules, f, r) THEN NoDwell
                      ELSE IF since[r] = NoDwell THEN f.ts ELSE since[r]]
  BY DEF StartPass
<1>2. todo = {} /\ rules \in installed /\ iter \in installed /\ f.ts \in Nat /\ frame.ts \in Nat
  BY <1>1 DEF PInv, Frames
<1>3. \A r : ~Fired(r)'
  BY <1>1, NothingListed DEF Listed, Fired
<1>4. ASSUME NEW r \in RuleIds
      PROVE  Clock(r)' /\ since'[r] \in Nat \cup {NoDwell}
  <2>1. /\ since[r] \in Nat \cup {NoDwell} /\ dwell[r] \in Nat \cup {NoDwell}
        /\ Running(r) /\ Behind(r) /\ Exact(r)
    BY DEF WInv, Clock
  <2>2. since'[r] = IF ~Holds(rules, f, r) THEN NoDwell
                    ELSE IF since[r] = NoDwell THEN f.ts ELSE since[r]
    BY <1>1
  <2>3. (Persistent(r) <=> Persistent(r)') /\ (Stable(r) <=> Stable(r)')
    BY <1>1 DEF Persistent, Stable
  <2>4. Running(r)'
    BY <1>1, <1>2, <2>1, <2>2 DEF Running, NoDwell, Holds, GateOpen
  <2>5. Persistent(r) => r \in todo'
    BY <1>1, <1>2 DEF Persistent
  <2>6. Behind(r)'
    BY <1>1, <1>2, <2>1, <2>2, <2>3, <2>5 DEF Behind, NoDwell
  <2>7. Exact(r)'
    <3> SUFFICES ASSUME Stable(r)
                 PROVE  /\ Effective(rules, r) = 0 => dwell[r] = NoDwell
                        /\ Effective(rules, r) # 0 /\ since'[r] # NoDwell =>
                             since'[r] = IF dwell[r] = NoDwell THEN f.ts ELSE dwell[r]
      BY <1>1, <2>3, <2>5 DEF Exact, Stable, Effective
    <3>1. Effective(rules, r) = Effective(iter, r)
      BY <1>2, OneDwell
    <3> QED BY <1>2, <2>1, <2>2, <3>1 DEF Exact
  <2>8. Alarm(r)'
    <3>1. Stable(r)' => r \in todo'
      BY <2>3, <2>5 DEF Stable
    <3> QED BY <1>3, <3>1 DEF Alarm
  <2> QED BY <1>2, <2>1, <2>2, <2>4, <2>6, <2>7, <2>8 DEF Clock
<1>5. since' \in [RuleIds -> Nat \cup {NoDwell}]
  BY <1>1, <1>4
<1> QED BY <1>1, <1>4, <1>5 DEF WInv

\* Judging rule r leaves the clocks of the others alone.
LEMMA JudgeOthers ==
    ASSUME WInv, NEW r \in RuleIds, NEW q \in RuleIds, q # r,
           NEW x, dwell' = [dwell EXCEPT ![r] = x], todo' = todo \ {r},
           Fired(q)' <=> Fired(q),
           UNCHANGED <<rules, pc, iter, frame, since, installed>>
    PROVE  Clock(q)'
<1>1. dwell'[q] = dwell[q] /\ since'[q] = since[q] /\ (q \in todo' <=> q \in todo)
  BY DEF WInv
<1>2. Running(q)' /\ Behind(q)' /\ Exact(q)'
  BY <1>1 DEF WInv, Clock, Running, Holds, GateOpen, Behind, Persistent, Exact, Stable, Effective
<1>3. Alarm(q)'
  BY <1>1 DEF WInv, Clock, Alarm, Persistent, Stable, Earned, HeldFor, Effective
<1> QED BY <1>2, <1>3 DEF Clock

\* Phase gate shut, exception or no match: the run is over, the clock dropped.
LEMMA DropClock ==
    ASSUME JInv, WInv, NEW r \in RuleIds, IsNext(r), ~Holds(iter, frame, r),
           dwell' = [dwell EXCEPT ![r] = NoDwell], todo' = todo \ {r},
           UNCHANGED <<rules, pc, iter, frame, verdicts, since, installed>>
    PROVE  WInv'
<1>1. \A q : Fired(q)' <=> Fired(q)
  BY DEF Fired
<1>2. \A q \in RuleIds \ {r} : Clock(q)'
  BY <1>1, JudgeOthers
<1>3. ~Fired(r)'
  <2>1. r \in todo
    BY DEF IsNext
  <2> QED BY <1>1, <2>1 DEF JInv, OInv, Fired, Listed
<1>4. since'[r] = NoDwell /\ dwell'[r] = NoDwell
  BY DEF WInv, Clock, Running
<1>5. Running(r)'
  BY <1>4 DEF WInv, Clock, Running, Holds, GateOpen
<1>6. Behind(r)' /\ Exact(r)'
  BY <1>4 DEF Behind, Exact
<1>7. Alarm(r)'
  BY <1>3, <1>4 DEF Alarm, HeldFor
<1> QED BY <1>2, <1>5, <1>6, <1>7 DEF WInv, Clock

LEMMA MatchClocks ==
    ASSUME JInv, WInv, NEW r \in RuleIds, Match(r)
    PROVE  WInv'
<1>1. /\ IsNext(r) /\ Holds(iter, frame, r) /\ todo' = todo \ {r}
      /\ dwell' = [dwell EXCEPT ![r] = NextDwell(r)]
      /\ verdicts' = IF Fires(r) THEN Append(verdicts, r) ELSE verdicts
      /\ UNCHANGED <<rules, pc, iter, frame, since, installed>>
  BY DEF Match
<1>2. /\ verdicts \in Seq(RuleIds) /\ rules \in installed /\ iter \in installed
      /\ frame.ts \in Nat /\ r \in todo /\ pc = "eval"
  BY <1>1 DEF JInv, PInv, Frames, IsNext
<1>3. \A q : Fired(q)' <=> Fired(q) \/ (q = r /\ Fires(r))
  BY <1>1, <1>2, AddListed DEF Fired, Listed
<1>4. ~Fired(r)
  BY <1>2 DEF JInv, OInv, Fired, Listed
<1>5. \A q \in RuleIds \ {r} : Clock(q)'
  BY <1>1, <1>3, JudgeOthers
<1>6. /\ since'[r] = since[r] /\ since[r] \in Nat /\ since[r] <= frame.ts
      /\ dwell'[r] = NextDwell(r) /\ dwell[r] \in Nat \cup {NoDwell}
  BY <1>1 DEF WInv, Clock, Running
<1>7. DwellOf(r) \in Nat /\ NextDwell(r) \in Nat \cup {NoDwell}
  <2>1. iter.dwell[r] \in Nat /\ rules.default \in Nat
    BY <1>2, RuleSetType DEF JInv
  <2> QED BY <1>2, <1>6, <2>1 DEF DwellOf, NextDwell
<1>8. Running(r)'
  BY <1>1 DEF WInv, Clock, Running, Holds, GateOpen
<1>9. Behind(r)'
  <2>1. Behind(r) /\ since[r] # NoDwell
    BY <1>6 DEF WInv, Clock, NoDwell
  <2>2. Persistent(r)' <=> Persistent(r)
    BY <1>1 DEF Persistent
  <2> QED BY <1>2, <1>6, <1>7, <2>1, <2>2 DEF Behind, NextDwell
<1>10. ASSUME Stable(r)
       PROVE  /\ DwellOf(r) = Effective(iter, r)
              /\ Effective(iter, r) = 0 => dwell[r] = NoDwell
              /\ Effective(iter, r) # 0 => since[r] = IF dwell[r] = NoDwell THEN frame.ts ELSE dwell[r]
  <2>1. DwellOf(r) = Effective(iter, r)
    BY <1>2, <1>10, OneDwell DEF DwellOf
  <2>2. Exact(r) /\ since[r] # NoDwell
    BY <1>6 DEF WInv, Clock, NoDwell
  <2> QED BY <1>2, <1>10, <2>1, <2>2 DEF Exact
<1>11. Stable(r)' <=> Stable(r)
  BY <1>1 DEF Stable, Persistent
<1>12. Exact(r)'
  BY <1>1, <1>6, <1>10, <1>11 DEF Exact, Effective, NextDwell
<1>13. Alarm(r)'
  <2>1. Persistent(r) /\ Fires(r) => HeldFor(r, DwellOf(r))
    <3>1. Behind(r) /\ since[r] # NoDwell
      BY <1>6 DEF WInv, Clock, NoDwell
    <3> QED BY <1>2, <1>6, <1>7, <3>1 DEF Fires, HeldFor, Behind, NoDwell
  <2>2. HeldFor(r, DwellOf(r)) => Earned(r)
    BY <1>2 DEF DwellOf, Earned
  <2>3. Stable(r) => (Fires(r) <=> HeldFor(r, DwellOf(r)))
    <3> SUFFICES ASSUME Stable(r), HeldFor(r, DwellOf(r)) PROVE Fires(r)
      BY <2>1 DEF Stable
    <3> QED BY <1>2, <1>6, <1>7, <1>10 DEF Fires, HeldFor, NoDwell
  <2>4. /\ Persistent(r)' <=> Persistent(r)
        /\ Earned(r)' <=> Earned(r)
        /\ HeldFor(r, Effective(iter, r))' <=> HeldFor(r, Effective(iter, r))
    BY <1>1 DEF Persistent, Earned, HeldFor, Effective
  <2> QED BY <1>3, <1>4, <1>10, <1>11, <2>1, <2>2, <2>3, <2>4 DEF Alarm
<1>14. dwell' \in [RuleIds -> Nat \cup {NoDwell}] /\ since' \in [RuleIds -> Nat \cup {NoDwell}]
  BY <1>1, <1>7 DEF WInv
<1> QED BY <1>5, <1>8, <1>9, <1>12, <1>13, <1>14 DEF WInv, Clock

\* A reload changes no clock; what it installs only asks for less.
LEMMA ReloadClocks ==
    ASSUME WInv, NEW set \in RuleSets, Reload(set)
    PROVE  WInv'
<1>1. /\ installed' = installed \cup {set}
      /\ UNCHANGED <<pc, iter, frame, todo, dwell, verdicts, since>>
  BY DEF Reload
<1>2. ASSUME NEW r \in RuleIds
      PROVE  Clock(r)'
  <2>1. Running(r) /\ Behind(r) /\ Exact(r) /\ Alarm(r)
    BY DEF WInv, Clock
  <2>2. Persistent(r)' => Persistent(r)
    BY <1>1 DEF Persistent
  <2>3. Stable(r)' => Stable(r)
    BY <1>1, <2>2 DEF Stable
  <2>4. Fired(r)' <=> Fired(r)
    BY <1>1 DEF Fired
  <2>5. Earned(r) => Earned(r)'
    BY <1>1 DEF Earned, HeldFor
  <2>6. Running(r)' /\ Behind(r)'
    BY <1>1, <2>1, <2>2 DEF Running, Holds, GateOpen, Behind
  <2>7. Exact(r)'
    BY <1>1, <2>1, <2>3 DEF Exact, Effective
  <2>8. Alarm(r)'
    BY <1>1, <2>1, <2>2, <2>3, <2>4, <2>5 DEF Alarm, HeldFor, Effective
  <2> QED BY <2>6, <2>7, <2>8 DEF Clock
<1> QED BY <1>1, <1>2 DEF WInv

LEMMA EndPassClocks ==
    ASSUME PInv, WInv, EndPass
    PROVE  WInv'
<1>1. /\ pc' = "idle" /\ verdicts' = <<>>
      /\ UNCHANGED <<rules, iter, frame, todo, dwell, since, installed>>
  BY DEF EndPass
<1>2. \A r : ~Fired(r)'
  BY <1>1, NothingListed DEF Listed, Fired
<1>3. \A r \in RuleIds : Clock(r)'
  BY <1>1, <1>2 DEF WInv, Clock, Running, Holds, GateOpen, Behind, Persistent,
                    Exact, Stable, Effective, Alarm
<1> QED BY <1>1, <1>3 DEF WInv

LEMMA NextClocks == JInv /\ WInv /\ [Next]_vars => WInv'
<1> SUFFICES ASSUME JInv, WInv, [Next]_vars PROVE WInv'
  OBVIOUS
<1>1. ASSUME NEW f \in Frames, StartPass(f) PROVE WInv'
  BY <1>1, StartPassClocks DEF JInv
<1>2. ASSUME NEW r \in RuleIds, PhaseSkip(r) PROVE WInv'
  BY <1>2, DropClock DEF PhaseSkip, Holds
<1>3. ASSUME NEW r \in RuleIds, CustomFnRaises(r) PROVE WInv'
  BY <1>3, DropClock DEF CustomFnRaises, Holds
<1>4. ASSUME NEW r \in RuleIds, NoMatch(r) PROVE WInv'
  BY <1>4, DropClock DEF NoMatch, Holds
<1>5. ASSUME NEW r \in RuleIds, Match(r) PROVE WInv'
  BY <1>5, MatchClocks
<1>6. CASE EndPass
  BY <1>6, EndPassClocks DEF JInv
<1>7. ASSUME NEW set \in RuleSets, Reload(set) PROVE WInv'
  BY <1>7, ReloadClocks
<1>8. CASE UNCHANGED vars
  BY <1>8 DEF vars, WInv, Clock, Running, Holds, GateOpen, Behind, Persistent,
              Exact, Stable, Effective, Alarm, Fired, Earned, HeldFor
<1> QED BY <1>1, <1>2, <1>3, <1>4, <1>5, <1>6, <1>7, <1>8 DEF Next

LEMMA AlwaysClocks == Spec => [](JInv /\ WInv)
<1>1. Init => JInv /\ WInv
  BY InitJudges, InitClocks
<1>2. JInv /\ WInv /\ [Next]_vars => (JInv /\ WInv)'
  BY NextJudges, NextClocks
<1> QED BY <1>1, <1>2, PTL DEF Spec

\* A rule no reload removed never fires before its condition has held for a
\* dwell the engine was given for it, whichever reloads happen and when.
THEOREM DwellRespected == Spec => []DwellHonoured
<1>1. WInv => DwellHonoured
  BY DEF WInv, Clock, Alarm, Earned, DwellHonoured
<1> QED BY <1>1, AlwaysClocks, PTL

\* Under a dwell no reload changed, a rule has fired at the end of a pass exactly
\* if its condition has held that long: no alert is early, none is missed.
THEOREM DwellTaken == Spec => []DwellExact
<1>1. JInv /\ WInv => DwellExact
  <2> SUFFICES ASSUME JInv, WInv, pc = "eval", todo = {},
                      NEW r \in iter.rules, Stable(r)
               PROVE  Fired(r) <=> HeldFor(r, Effective(iter, r))
    BY DEF DwellExact
  <2>1. r \in RuleIds
    BY RuleSetType DEF JInv, PInv
  <2> QED BY <2>1 DEF WInv, Clock, Alarm
<1> QED BY <1>1, AlwaysClocks, PTL
=============================================================================
