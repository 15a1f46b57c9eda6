------------------------ MODULE AlertCoordinatorProofs ------------------------
(***************************************************************************)
(* Proofs about AlertCoordinator for every rule table, every cooldown and  *)
(* every interleaving of the loop, the admin thread, stops and restarts.   *)
(***************************************************************************)
EXTENDS AlertCoordinator, FiniteSetTheorems, SequenceTheorems, TLAPS

\* A cooldown is never negative, whichever of its three sources it comes from
\* (CooldownGate._cooldown_ms_for).
LEMMA CooldownIsNat ==
    ASSUME NEW r \in Rules
    PROVE  CooldownOf(r) \in Nat
BY RulesAssumption, ParamsAssumption DEF CooldownOf, NoOverride

\* Dropping the stale head of a window leaves a sequence of timestamps
\* (DedupGate: while hist and hist[0] < cutoff: popleft()).
LEMMA DropStaleType ==
    ASSUME NEW h \in Seq(Nat), NEW cutoff \in Int
    PROVE  DropStale(h, cutoff) \in Seq(Nat)
<1> DEFINE stale == {i \in 1..Len(h) : \A j \in 1..i : h[j] < cutoff}
<1>1. Len(h) \in Nat
  OBVIOUS
<1>2. IsFiniteSet(1..Len(h)) /\ Cardinality(1..Len(h)) = Len(h)
  <2>1. \A n \in Nat : IsFiniteSet(1..n) /\ Cardinality(1..n) = n
    BY FS_Interval
  <2> QED BY <1>1, <2>1
<1>3. stale \subseteq 1..Len(h)
  OBVIOUS
<1>4. IsFiniteSet(stale) /\ Cardinality(stale) <= Len(h)
  <2> HIDE DEF stale
  <2> QED BY <1>2, <1>3, FS_Subset
<1>5. Cardinality(stale) \in Nat
  BY <1>4, FS_CardinalityType
<1>6. Cardinality(stale) + 1 \in 1..(Len(h) + 1)
  <2> HIDE DEF stale
  <2> QED BY <1>1, <1>4, <1>5
<1>7. SubSeq(h, Cardinality(stale) + 1, Len(h)) \in Seq(Nat)
  <2> HIDE DEF stale
  <2> QED BY <1>1, <1>5, <1>6, SubSeqProperties
<1> QED
  BY <1>7 DEF DropStale

\* The dedup key of a verdict of the frame in hand is a key of the history.
LEMMA DedupKeyInDomain ==
    ASSUME NEW r \in Rules, ts \in 0..MaxClock
    PROVE  DedupKey(r) \in DedupKeys
<1>1. MaxClock \in Nat /\ SecondMs \in Nat \ {0}
  BY ParamsAssumption
<1>2. ts \div SecondMs \in 0..MaxClock
  BY <1>1
<1> QED
  BY <1>2 DEF DedupKey, DedupKeys

\* Every record written is an AlertRecord of the running process.
LEMMA RecordType ==
    ASSUME TypeOK, NEW r \in Rules, NEW gate \in Gates, NEW sent \in BOOLEAN
    PROVE  /\ Record(r, gate, sent) \in AlertRecord
           /\ Record(r, gate, sent).rule = r
           /\ Record(r, gate, sent).ts = ts
           /\ Record(r, gate, sent).boot = boot
           /\ Record(r, gate, sent).gate = gate
BY DEF Record, AlertRecord, TypeOK

\* Appending a record to a log gives a log.
LEMMA LogAppend ==
    \A log \in Seq(AlertRecord), rec \in AlertRecord : Append(log, rec) \in Seq(AlertRecord)
BY AppendProperties

\* The outcome of the gates is one of the five of AlertRecord.gates.
LEMMA GateType ==
    ASSUME NEW r \in Rules
    PROVE  GateOf(r) \in Gates /\ "pass" \in Gates
BY DEF GateOf, Gates

\* _run_gates leaves the cooldown table and the dedup history well formed.
LEMMA GatesKeepType ==
    ASSUME TypeOK, NEW r \in Rules, RecordCooldown(r), RecordDedup(r)
    PROVE  /\ lastFired' \in [Codes -> Nat \cup {NotFired}]
           /\ hist' \in [DedupKeys -> Seq(Nat)]
<1>1. ts \in Nat
  BY ParamsAssumption DEF TypeOK
<1>2. lastFired' \in [Codes -> Nat \cup {NotFired}]
  BY <1>1 DEF RecordCooldown, TypeOK
<1>3. BurstWith(r) \in Seq(Nat)
  <2>1. hist[DedupKey(r)] \in Seq(Nat)
    BY DedupKeyInDomain DEF TypeOK
  <2>2. ts - DedupWindow \in Int
    BY <1>1, ParamsAssumption
  <2>3. DropStale(hist[DedupKey(r)], ts - DedupWindow) \in Seq(Nat)
    BY <2>1, <2>2, DropStaleType
  <2> QED
    BY <1>1, <2>3, AppendProperties DEF BurstWith
<1>4. hist' \in [DedupKeys -> Seq(Nat)]
  BY <1>3 DEF RecordDedup, TypeOK
<1> QED
  BY <1>2, <1>4

LEMMA InitType == Init => TypeOK
BY ParamsAssumption, RulesAssumption
   DEF Init, TypeOK, NoMute, Mute, Severity, EMERGENCY, NotFired

LEMMA StepType == TypeOK /\ [Next]_vars => TypeOK'
<1> SUFFICES ASSUME TypeOK, [Next]_vars
             PROVE  TypeOK'
  OBVIOUS
<1> USE DEF TypeOK, loopVars, gateVars, muteVars, logVars
<1>1. CASE Tick
  BY <1>1, ParamsAssumption DEF Tick
<1>2. ASSUME NEW batch \in SUBSET Rules, StartBatch(batch)
      PROVE  TypeOK'
  <2>1. [batch |-> batch, boot |-> boot] \in Frame
    BY DEF Frame
  <2> QED BY <1>2, <2>1, ParamsAssumption DEF StartBatch
<1>3. ASSUME NEW r \in Rules, GateAndWrite(r)
      PROVE  TypeOK'
  <2>1. Record(r, GateOf(r), FALSE) \in AlertRecord
    BY GateType, RecordType
  <2>2. alerts' \in Seq(AlertRecord) /\ out' \in Seq(AlertRecord)
    BY <1>3, <2>1, LogAppend DEF GateAndWrite, WriteRecord
  <2>3. lastFired' \in [Codes -> Nat \cup {NotFired}] /\ hist' \in [DedupKeys -> Seq(Nat)]
    BY <1>3, GatesKeepType DEF GateAndWrite
  <2> QED BY <1>3, <2>2, <2>3 DEF GateAndWrite, WriteRecord
<1>4. ASSUME NEW r \in Rules, GatePass(r)
      PROVE  TypeOK'
  BY <1>4, GatesKeepType DEF GatePass
<1>5. ASSUME NEW r \in Rules, WriteDispatched(r)
      PROVE  TypeOK'
  <2>1. Record(r, "pass", WasSent(r)) \in AlertRecord
    BY GateType, RecordType DEF WasSent
  <2> QED BY <1>5, <2>1 DEF WriteDispatched, WriteRecord
<1>6. CASE PopExpired
  BY <1>6 DEF PopExpired, NoMute, Mute, Severity, EMERGENCY
<1>7. ASSUME NEW r \in Rules, NEW ok \in BOOLEAN, Deliver(r, ok)
      PROVE  TypeOK'
  <2>1. Record(r, "pass", TRUE) \in AlertRecord
    BY GateType, RecordType
  <2>2. delivered' \in Seq(AlertRecord)
    BY <1>7, <2>1, LogAppend DEF Deliver
  <2> QED BY <1>7, <2>2 DEF Deliver
<1>8. CASE EndBatch
  BY <1>8 DEF EndBatch
<1>9. ASSUME NEW req \in DockMuteRequests, SetDockMute(req)
      PROVE  TypeOK'
  <2>1. req \in DockMuteRequest
    BY ParamsAssumption
  <2> QED BY <1>9, <2>1 DEF SetDockMute, DockMuteRequest, Mute
<1>10. ASSUME NEW req \in GlobalMuteRequests, SetGlobalMute(req)
       PROVE  TypeOK'
  <2>1. req \in GlobalMuteRequest
    BY ParamsAssumption
  <2> QED BY <1>10, <2>1 DEF SetGlobalMute, GlobalMuteRequest, Mute
<1>11. CASE Stop
  BY <1>11 DEF Stop
<1>12. CASE Restart
  BY <1>12, ParamsAssumption DEF Restart, NoMute, Mute, Severity, EMERGENCY
<1>13. CASE UNCHANGED vars
  BY <1>13 DEF vars
<1> QED
  BY <1>1, <1>2, <1>3, <1>4, <1>5, <1>6, <1>7, <1>8, <1>9, <1>10, <1>11, <1>12, <1>13
     DEF Next, Loop, Admin

\* In every reachable state every variable has its type and a verdict is in
\* flight exactly while the loop pops, dispatches or writes.
THEOREM TypeCorrect == Spec => []TypeOK
BY InitType, StepType, PTL DEF Spec

-----------------------------------------------------------------------------
(* CooldownSpacing.  The log alone does not carry the argument: the gate   *)
(* reads the table _last_fired, so the invariant relates the two.          *)

\* Codes of the rules index the table.
LEMMA CodeInTable ==
    ASSUME TypeOK, NEW r \in Rules
    PROVE  /\ Code[r] \in Codes /\ lastFired[Code[r]] \in Nat \cup {NotFired}
           /\ ts \in Nat /\ boot \in Nat
<1>1. /\ lastFired \in [Codes -> Nat \cup {NotFired}]
      /\ ts \in 0..MaxClock /\ boot \in Nat \ {0}
  BY DEF TypeOK
<1>2. Code[r] \in Codes
  BY DEF Codes
<1>3. ts \in Nat /\ boot \in Nat
  BY <1>1, ParamsAssumption
<1> QED BY <1>1, <1>2, <1>3

LEMMA LogEntryType ==
    ASSUME TypeOK, NEW i \in 1..Len(alerts)
    PROVE  /\ alerts[i] \in AlertRecord
           /\ alerts[i].rule \in Rules /\ alerts[i].ts \in Nat /\ alerts[i].boot \in Nat
           /\ alerts[i].gate \in Gates
<1>1. \A s \in Seq(AlertRecord) : \A k \in 1..Len(s) : s[k] \in AlertRecord
  BY ElementOfSeq
<1>2. alerts[i] \in AlertRecord
  BY <1>1 DEF TypeOK
<1> QED
  BY <1>2 DEF AlertRecord

\* A verdict that passes the gate is spaced from every logged verdict of its
\* code, and moving the table to its timestamp keeps the table ahead of the log.
LEMMA PassIsSpaced ==
    ASSUME SpacingInv, NEW r \in Rules, ~CoolingDown(r),
           NEW i \in 1..Len(alerts), alerts[i].boot = boot,
           Code[alerts[i].rule] = Code[r], PassedCooldown(alerts[i])
    PROVE  ts - alerts[i].ts >= CooldownOf(r) /\ ts >= alerts[i].ts
<1>1. lastFired[Code[r]] # NotFired /\ lastFired[Code[r]] >= alerts[i].ts
  BY DEF SpacingInv, TableCoversLog
<1>2. ~(ts - lastFired[Code[r]] < CooldownOf(r))
  BY <1>1 DEF CoolingDown
<1>3. lastFired[Code[r]] \in Nat /\ ts \in Nat /\ alerts[i].ts \in Nat
  BY <1>1, CodeInTable, LogEntryType DEF SpacingInv
<1>4. CooldownOf(r) \in Nat
  BY CooldownIsNat
<1> HIDE DEF CooldownOf
<1> QED
  BY <1>1, <1>2, <1>3, <1>4

\* The table after the gates saw the verdict of r.
LEMMA TableMoves ==
    ASSUME SpacingInv, NEW r \in Rules, RecordCooldown(r)
    PROVE  /\ ~CoolingDown(r) => lastFired'[Code[r]] = ts
           /\ \A i \in 1..Len(alerts) :
                alerts[i].boot = boot /\ PassedCooldown(alerts[i]) =>
                    /\ lastFired'[Code[alerts[i].rule]] # NotFired
                    /\ lastFired'[Code[alerts[i].rule]] >= alerts[i].ts
<1>1. TypeOK
  BY DEF SpacingInv
<1>2. ~CoolingDown(r) => lastFired'[Code[r]] = ts
  BY <1>1, CodeInTable DEF RecordCooldown, TypeOK
<1>3. ASSUME NEW i \in 1..Len(alerts), alerts[i].boot = boot, PassedCooldown(alerts[i])
      PROVE  /\ lastFired'[Code[alerts[i].rule]] # NotFired
             /\ lastFired'[Code[alerts[i].rule]] >= alerts[i].ts
  <2>1. /\ lastFired[Code[alerts[i].rule]] # NotFired
        /\ lastFired[Code[alerts[i].rule]] >= alerts[i].ts
    BY <1>3 DEF SpacingInv, TableCoversLog
  <2>2. CASE CoolingDown(r)
    BY <2>1, <2>2 DEF RecordCooldown
  <2>3. CASE ~CoolingDown(r) /\ Code[alerts[i].rule] = Code[r]
    <3>1. ts >= alerts[i].ts
      BY <1>3, <2>3, PassIsSpaced
    <3> QED BY <1>1, <1>2, <2>3, <3>1, CodeInTable DEF NotFired
  <2>4. CASE ~CoolingDown(r) /\ Code[alerts[i].rule] # Code[r]
    <3>1. lastFired'[Code[alerts[i].rule]] = lastFired[Code[alerts[i].rule]]
      BY <1>1, <2>4, CodeInTable, LogEntryType DEF RecordCooldown, TypeOK
    <3> QED BY <2>1, <3>1
  <2> QED BY <2>2, <2>3, <2>4
<1> QED
  BY <1>2, <1>3

LEMMA InitSpacing == Init => SpacingInv
BY InitType DEF Init, SpacingInv, TableCoversLog, InFlightSpaced, CooldownSpacing

LEMMA ClockType == TypeOK => ts \in Nat /\ ts # NotFired
<1> SUFFICES ASSUME TypeOK PROVE ts \in Nat /\ ts # NotFired
  OBVIOUS
<1>1. ts \in 0..MaxClock /\ MaxClock \in Nat
  BY ParamsAssumption DEF TypeOK
<1> QED BY <1>1 DEF NotFired

\* Steps that leave the log and the table alone.
LEMMA SpacingFrame ==
    ASSUME SpacingInv, TypeOK', UNCHANGED <<alerts, lastFired, boot>>,
           \/ cur' = {}
           \/ UNCHANGED <<ts, cur>> /\ (pc = "stopped" => pc' = "stopped")
    PROVE  SpacingInv'
BY DEF SpacingInv, TableCoversLog, InFlightSpaced, CooldownSpacing, PassedCooldown, CooldownOf

\* The line appended for r keeps the invariant, provided the table was moved by r
\* when r passed the cooldown, and r is spaced from the log.
LEMMA AppendKeepsSpacing ==
    ASSUME SpacingInv, TypeOK', NEW r \in Rules, NEW rec \in AlertRecord,
           rec.rule = r, rec.ts = ts, rec.boot = boot,
           alerts' = Append(alerts, rec), boot' = boot, cur' = {},
           PassedCooldown(rec) =>
             /\ lastFired'[Code[r]] = ts
             /\ \A i \in 1..Len(alerts) :
                  (/\ alerts[i].boot = boot /\ Code[alerts[i].rule] = Code[r]
                   /\ PassedCooldown(alerts[i]))
                  => ts - alerts[i].ts >= CooldownOf(r),
           \A i \in 1..Len(alerts) :
             alerts[i].boot = boot /\ PassedCooldown(alerts[i]) =>
                 /\ lastFired'[Code[alerts[i].rule]] # NotFired
                 /\ lastFired'[Code[alerts[i].rule]] >= alerts[i].ts
    PROVE  SpacingInv'
<1> DEFINE n == Len(alerts)
<1>1. TypeOK /\ alerts \in Seq(AlertRecord) /\ ts \in Nat /\ boot \in Nat /\ ts # NotFired
  <2>1. TypeOK
    BY DEF SpacingInv
  <2>2. alerts \in Seq(AlertRecord) /\ boot \in Nat
    BY <2>1 DEF TypeOK
  <2>3. ts \in Nat /\ ts # NotFired
    BY <2>1, ClockType
  <2> QED BY <2>1, <2>2, <2>3
<1>2. /\ n \in Nat /\ Len(alerts') = n + 1 /\ alerts'[n + 1] = rec
      /\ \A i \in 1..n : alerts'[i] = alerts[i]
  BY <1>1, AppendProperties
<1>3. \A i \in 1..Len(alerts') : i \in 1..n \/ i = n + 1
  BY <1>2
<1>4. TableCoversLog'
  <2> SUFFICES ASSUME NEW i \in 1..Len(alerts')
               PROVE  /\ alerts'[i].boot <= boot
                      /\ alerts'[i].boot = boot /\ PassedCooldown(alerts'[i]) =>
                           /\ lastFired'[Code[alerts'[i].rule]] # NotFired
                           /\ lastFired'[Code[alerts'[i].rule]] >= alerts'[i].ts
    BY DEF TableCoversLog, PassedCooldown
  <2>1. CASE i \in 1..n
    BY <2>1, <1>2 DEF SpacingInv, TableCoversLog
  <2>2. CASE i = n + 1
    BY <2>2, <1>1, <1>2
  <2> QED BY <2>1, <2>2, <1>3
<1>5. InFlightSpaced'
  BY DEF InFlightSpaced
<1>6. CooldownSpacing'
  <2> SUFFICES ASSUME NEW i \in 1..Len(alerts'), NEW j \in 1..Len(alerts'),
                      i < j, alerts'[i].boot = alerts'[j].boot,
                      Code[alerts'[i].rule] = Code[alerts'[j].rule],
                      PassedCooldown(alerts'[i]), PassedCooldown(alerts'[j])
               PROVE  alerts'[j].ts - alerts'[i].ts >= CooldownOf(alerts'[j].rule)
    BY DEF CooldownSpacing, PassedCooldown, CooldownOf
  <2>1. i \in 1..n
    BY <1>2, <1>3
  <2>2. CASE j \in 1..n
    BY <2>1, <2>2, <1>2 DEF SpacingInv, CooldownSpacing
  <2>3. CASE j = n + 1
    BY <2>1, <2>3, <1>2
  <2> QED BY <2>2, <2>3, <1>3
<1> QED
  BY <1>4, <1>5, <1>6 DEF SpacingInv

LEMMA StepSpacing == SpacingInv /\ [Next]_vars => SpacingInv'
<1> SUFFICES ASSUME SpacingInv, [Next]_vars
             PROVE  SpacingInv'
  OBVIOUS
<1>0. TypeOK /\ TypeOK'
  BY StepType DEF SpacingInv
<1> USE DEF loopVars, gateVars, muteVars, logVars
<1>1. CASE Tick
  BY <1>0, <1>1, SpacingFrame DEF Tick
<1>2. ASSUME NEW batch \in SUBSET Rules, StartBatch(batch)
      PROVE  SpacingInv'
  BY <1>0, <1>2, SpacingFrame DEF StartBatch
<1>3. ASSUME NEW r \in Rules, GateAndWrite(r)
      PROVE  SpacingInv'
  <2> DEFINE rec == Record(r, GateOf(r), FALSE)
  <2>1. /\ rec \in AlertRecord /\ rec.rule = r /\ rec.ts = ts /\ rec.boot = boot
        /\ rec.gate = GateOf(r)
    BY <1>0, GateType, RecordType
  <2>2. /\ alerts' = Append(alerts, rec) /\ boot' = boot /\ RecordCooldown(r)
        /\ pc = "gates" /\ cur' = cur
    BY <1>3 DEF GateAndWrite, WriteRecord
  <2>3. cur' = {}
    BY <1>0, <2>2 DEF TypeOK
  <2>4. PassedCooldown(rec) => ~CoolingDown(r)
    BY <2>1 DEF PassedCooldown, GateOf
  <2> HIDE DEF rec
  <2>5. PassedCooldown(rec) => \A i \in 1..Len(alerts) :
          (/\ alerts[i].boot = boot /\ Code[alerts[i].rule] = Code[r]
           /\ PassedCooldown(alerts[i]))
          => ts - alerts[i].ts >= CooldownOf(r)
    BY <2>4, PassIsSpaced
  <2>6. PassedCooldown(rec) => lastFired'[Code[r]] = ts
    BY <2>2, <2>4, TableMoves
  <2> QED BY <1>0, <2>1, <2>2, <2>3, <2>5, <2>6, TableMoves, AppendKeepsSpacing
<1>4. ASSUME NEW r \in Rules, GatePass(r)
      PROVE  SpacingInv'
  <2>1. ~CoolingDown(r)
    BY <1>4 DEF GatePass, GateOf
  <2>2. /\ UNCHANGED <<alerts, boot, ts>> /\ cur' = {r} /\ RecordCooldown(r)
    BY <1>4 DEF GatePass
  <2>3. TableCoversLog'
    BY <2>2, TableMoves DEF TableCoversLog, PassedCooldown, SpacingInv
  <2>4. \A i \in 1..Len(alerts) :
          (/\ alerts[i].boot = boot /\ Code[alerts[i].rule] = Code[r]
           /\ PassedCooldown(alerts[i]))
          => ts - alerts[i].ts >= CooldownOf(r)
    BY <2>1, PassIsSpaced
  <2>5. InFlightSpaced'
    BY <2>1, <2>2, <2>4, TableMoves DEF InFlightSpaced, PassedCooldown, CooldownOf
  <2>6. CooldownSpacing'
    BY <2>2 DEF SpacingInv, CooldownSpacing, PassedCooldown, CooldownOf
  <2> QED BY <1>0, <2>3, <2>5, <2>6 DEF SpacingInv
<1>5. ASSUME NEW r \in Rules, WriteDispatched(r)
      PROVE  SpacingInv'
  <2> DEFINE rec == Record(r, "pass", WasSent(r))
  <2>1. rec \in AlertRecord /\ rec.rule = r /\ rec.ts = ts /\ rec.boot = boot
    BY <1>0, GateType, RecordType DEF WasSent
  <2>2. /\ alerts' = Append(alerts, rec) /\ UNCHANGED <<boot, ts, lastFired>> /\ cur' = {}
        /\ pc = "write" /\ r \in cur
    BY <1>5 DEF WriteDispatched, WriteRecord
  <2> HIDE DEF rec
  <2>3. /\ lastFired'[Code[r]] = ts
        /\ \A i \in 1..Len(alerts) :
             (/\ alerts[i].boot = boot /\ Code[alerts[i].rule] = Code[r]
              /\ PassedCooldown(alerts[i]))
             => ts - alerts[i].ts >= CooldownOf(r)
    BY <2>2 DEF SpacingInv, InFlightSpaced
  <2>4. \A i \in 1..Len(alerts) :
          alerts[i].boot = boot /\ PassedCooldown(alerts[i]) =>
              /\ lastFired'[Code[alerts[i].rule]] # NotFired
              /\ lastFired'[Code[alerts[i].rule]] >= alerts[i].ts
    BY <2>2 DEF SpacingInv, TableCoversLog
  <2> QED BY <1>0, <2>1, <2>2, <2>3, <2>4, AppendKeepsSpacing
<1>6. CASE PopExpired
  BY <1>0, <1>6, SpacingFrame DEF PopExpired
<1>7. ASSUME NEW r \in Rules, NEW ok \in BOOLEAN, Deliver(r, ok)
      PROVE  SpacingInv'
  BY <1>0, <1>7, SpacingFrame DEF Deliver
<1>8. CASE EndBatch
  BY <1>0, <1>8, SpacingFrame DEF EndBatch
<1>9. ASSUME NEW req \in DockMuteRequests, SetDockMute(req)
      PROVE  SpacingInv'
  BY <1>0, <1>9, SpacingFrame DEF SetDockMute
<1>10. ASSUME NEW req \in GlobalMuteRequests, SetGlobalMute(req)
       PROVE  SpacingInv'
  BY <1>0, <1>10, SpacingFrame DEF SetGlobalMute
<1>11. CASE Stop
  BY <1>0, <1>11, SpacingFrame DEF Stop
<1>12. CASE Restart
  <2>1. alerts' = alerts /\ boot' = boot + 1 /\ cur' = {}
    BY <1>12 DEF Restart
  <2>2. \A i \in 1..Len(alerts) : alerts[i].boot <= boot /\ alerts[i].boot \in Nat
    BY <1>0, LogEntryType DEF SpacingInv, TableCoversLog
  <2>3. boot \in Nat
    BY <1>0 DEF TypeOK
  <2>4. \A i \in 1..Len(alerts) : alerts[i].boot <= boot + 1 /\ alerts[i].boot # boot + 1
    BY <2>2, <2>3
  <2>5. TableCoversLog'
    BY <2>1, <2>4 DEF TableCoversLog
  <2>6. InFlightSpaced'
    BY <2>1 DEF InFlightSpaced
  <2>7. CooldownSpacing'
    BY <2>1 DEF SpacingInv, CooldownSpacing, PassedCooldown, CooldownOf
  <2> QED BY <1>0, <2>5, <2>6, <2>7 DEF SpacingInv
<1>13. CASE UNCHANGED vars
  BY <1>0, <1>13, SpacingFrame DEF vars
<1> QED
  BY <1>1, <1>2, <1>3, <1>4, <1>5, <1>6, <1>7, <1>8, <1>9, <1>10, <1>11, <1>12, <1>13
     DEF Next, Loop, Admin

\* Two alerts of one code that pass the cooldown gate in one process are at least
\* the later one's cooldown apart, for every rule table and every interleaving.
THEOREM CooldownRespected == Spec => []CooldownSpacing
<1>1. Spec => []SpacingInv
  BY InitSpacing, StepSpacing, PTL DEF Spec
<1>2. SpacingInv => CooldownSpacing
  BY DEF SpacingInv
<1> QED
  BY <1>1, <1>2, PTL
-----------------------------------------------------------------------------
(* The steps of the coordinator as the rest of the proofs see them: one of *)
(* the loop's writes, a restart, or a step that leaves gates and log alone.*)

\* Admin calls, ticks, stops, the pop of an expired mute and the two ends of a
\* batch leave the tables, the log and the verdict in hand as they are.
Quiet ==
    /\ UNCHANGED <<boot, cur, lastFired, hist, alerts, delivered>>
    /\ pc = "idle" \/ UNCHANGED <<ts, frames>>
    /\ pc = "stopped" => pc' = "stopped"
    /\ pc = "write" => pc' \in {"write", "stopped"}

LEMMA StepKinds ==
    ASSUME TypeOK, [Next]_vars
    PROVE  \/ \E r \in Rules : GateAndWrite(r) \/ GatePass(r) \/ WriteDispatched(r)
           \/ \E r \in Rules, ok \in BOOLEAN : Deliver(r, ok)
           \/ Restart
           \/ Quiet
<1> USE DEF loopVars, gateVars, muteVars, logVars, Quiet
<1>1. ASSUME NEW batch \in SUBSET Rules, StartBatch(batch)
      PROVE  Quiet
  <2>1. pc = "idle" /\ cur = {}
    BY <1>1 DEF StartBatch, TypeOK
  <2> QED BY <1>1, <2>1 DEF StartBatch
<1>2. CASE PopExpired \/ EndBatch
  BY <1>2 DEF PopExpired, EndBatch
<1>3. CASE Tick \/ Stop \/ UNCHANGED vars
  BY <1>3 DEF Tick, Stop, vars
<1>4. CASE Admin
  BY <1>4 DEF Admin, SetDockMute, SetGlobalMute
<1> QED
  BY <1>1, <1>2, <1>3, <1>4 DEF Next, Loop

\* A line that is written stays where it is (JsonlAlertSink appends).
LEMMA LogGrows ==
    ASSUME TypeOK, NEW rec \in AlertRecord, alerts' = Append(alerts, rec)
    PROVE  /\ Len(alerts) \in Nat /\ Len(alerts') = Len(alerts) + 1
           /\ alerts'[Len(alerts) + 1] = rec
           /\ \A i \in 1..Len(alerts) : alerts'[i] = alerts[i]
           /\ \A i \in 1..Len(alerts') : i \in 1..Len(alerts) \/ i = Len(alerts) + 1
<1>1. alerts \in Seq(AlertRecord) /\ Len(alerts) \in Nat
  BY DEF TypeOK
<1>2. /\ Len(alerts') = Len(alerts) + 1 /\ alerts'[Len(alerts) + 1] = rec
      /\ \A i \in 1..Len(alerts) : alerts'[i] = alerts[i]
  BY <1>1, AppendProperties
<1> QED
  BY <1>1, <1>2

\* What the two writing steps append.
LEMMA WhatIsWritten ==
    ASSUME TypeOK, NEW r \in Rules, GateAndWrite(r) \/ WriteDispatched(r)
    PROVE  \E gate \in Gates, sent \in BOOLEAN :
             /\ alerts' = Append(alerts, Record(r, gate, sent))
             /\ Record(r, gate, sent) \in AlertRecord
             /\ \/ GateAndWrite(r) /\ gate = GateOf(r) /\ sent = FALSE
                \/ WriteDispatched(r) /\ gate = "pass" /\ sent = WasSent(r)
<1>1. CASE GateAndWrite(r)
  <2>1. GateOf(r) \in Gates /\ Record(r, GateOf(r), FALSE) \in AlertRecord
    BY GateType, RecordType
  <2>2. alerts' = Append(alerts, Record(r, GateOf(r), FALSE))
    BY <1>1 DEF GateAndWrite, WriteRecord
  <2> QED BY <1>1, <2>1, <2>2
<1>2. CASE WriteDispatched(r)
  <2>1. "pass" \in Gates /\ WasSent(r) \in BOOLEAN
    BY DEF Gates, WasSent
  <2>2. Record(r, "pass", WasSent(r)) \in AlertRecord
    BY <2>1, RecordType
  <2>3. alerts' = Append(alerts, Record(r, "pass", WasSent(r)))
    BY <1>2 DEF WriteDispatched, WriteRecord
  <2> QED BY <1>2, <2>1, <2>2, <2>3
<1> QED BY <1>1, <1>2

-----------------------------------------------------------------------------
(* SuppressionHasCause.  An entry of _last_fired is put there by a verdict *)
(* that is in the log by the time the next one reaches the gates.          *)

InForce(c) ==
    \/ \E r \in cur : Code[r] = c /\ lastFired[c] = ts
    \/ \E i \in 1..Len(alerts) :
         /\ alerts[i].boot = boot /\ Code[alerts[i].rule] = c
         /\ PassedCooldown(alerts[i]) /\ alerts[i].ts = lastFired[c]

\* The strengthening: what the table holds, the log or the verdict in hand explains.
TableFromLog ==
    pc # "stopped" => \A c \in Codes : lastFired[c] # NotFired => InForce(c)

CauseInv == TypeOK /\ TableFromLog /\ SuppressionHasCause

\* Between two verdicts every entry of the table has its line.
LEMMA EntryHasLine ==
    ASSUME CauseInv, pc = "gates", NEW c \in Codes, lastFired[c] # NotFired
    PROVE  \E i \in 1..Len(alerts) :
             /\ alerts[i].boot = boot /\ Code[alerts[i].rule] = c
             /\ PassedCooldown(alerts[i]) /\ alerts[i].ts = lastFired[c]
<1>1. cur = {}
  BY DEF CauseInv, TypeOK
<1> QED BY <1>1 DEF CauseInv, TableFromLog, InForce

LEMMA StepCause == CauseInv /\ [Next]_vars => CauseInv'
<1> SUFFICES ASSUME CauseInv, [Next]_vars
             PROVE  CauseInv'
  OBVIOUS
<1>0. TypeOK /\ TypeOK'
  BY StepType DEF CauseInv
<1>1. ASSUME NEW r \in Rules, GateAndWrite(r) \/ WriteDispatched(r)
      PROVE  CauseInv'
  <2> DEFINE n == Len(alerts)
  <2>1. PICK gate \in Gates, sent \in BOOLEAN :
          /\ alerts' = Append(alerts, Record(r, gate, sent))
          /\ Record(r, gate, sent) \in AlertRecord
          /\ \/ GateAndWrite(r) /\ gate = GateOf(r) /\ sent = FALSE
             \/ WriteDispatched(r) /\ gate = "pass" /\ sent = WasSent(r)
    BY <1>0, <1>1, WhatIsWritten
  <2> DEFINE rec == Record(r, gate, sent)
  <2>2. /\ n \in Nat /\ Len(alerts') = n + 1 /\ alerts'[n + 1] = rec
        /\ \A i \in 1..n : alerts'[i] = alerts[i]
        /\ \A i \in 1..Len(alerts') : i \in 1..n \/ i = n + 1
    BY <1>0, <2>1, LogGrows
  <2>3. rec.rule = r /\ rec.ts = ts /\ rec.boot = boot /\ rec.gate = gate
    BY <1>0, <2>1, RecordType
  <2>4. boot' = boot /\ ts' = ts /\ pc # "stopped" /\ pc' # "stopped" /\ cur' = {}
    BY <1>0, <1>1 DEF GateAndWrite, WriteDispatched, TypeOK
  <2> HIDE DEF rec, n
  <2>5. gate = "suppressed_cooldown" =>
          \E i \in 1..n :
            /\ alerts[i].boot = boot /\ Code[alerts[i].rule] = Code[r]
            /\ PassedCooldown(alerts[i]) /\ ts - alerts[i].ts < CooldownOf(r)
    <3> SUFFICES ASSUME gate = "suppressed_cooldown"
                 PROVE  \E i \in 1..n :
                          /\ alerts[i].boot = boot /\ Code[alerts[i].rule] = Code[r]
                          /\ PassedCooldown(alerts[i]) /\ ts - alerts[i].ts < CooldownOf(r)
      OBVIOUS
    <3>1. pc = "gates" /\ CoolingDown(r)
      BY <2>1 DEF GateAndWrite, GateOf
    <3>2. PICK i \in 1..Len(alerts) :
            /\ alerts[i].boot = boot /\ Code[alerts[i].rule] = Code[r]
            /\ PassedCooldown(alerts[i]) /\ alerts[i].ts = lastFired[Code[r]]
      BY <1>0, <3>1, EntryHasLine, CodeInTable DEF CoolingDown
    <3>3. ts - alerts[i].ts < CooldownOf(r)
      BY <3>1, <3>2 DEF CoolingDown
    <3> QED BY <3>2, <3>3 DEF n
  <2>6. SuppressionHasCause'
    <3> SUFFICES ASSUME NEW j \in 1..Len(alerts'), alerts'[j].gate = "suppressed_cooldown"
                 PROVE  \E i \in 1..(j - 1) :
                          /\ alerts'[i].boot = alerts'[j].boot
                          /\ Code[alerts'[i].rule] = Code[alerts'[j].rule]
                          /\ PassedCooldown(alerts'[i])
                          /\ alerts'[j].ts - alerts'[i].ts < CooldownOf(alerts'[j].rule)
      BY DEF SuppressionHasCause, PassedCooldown, CooldownOf
    <3>1. CASE j \in 1..n
      <4>1. PICK i \in 1..(j - 1) :
              /\ alerts[i].boot = alerts[j].boot
              /\ Code[alerts[i].rule] = Code[alerts[j].rule]
              /\ PassedCooldown(alerts[i])
              /\ alerts[j].ts - alerts[i].ts < CooldownOf(alerts[j].rule)
        BY <2>2, <3>1 DEF CauseInv, SuppressionHasCause, n
      <4>2. alerts'[i] = alerts[i] /\ alerts'[j] = alerts[j]
        BY <2>2, <3>1
      <4> QED BY <4>1, <4>2
    <3>2. CASE j = n + 1
      <4>1. gate = "suppressed_cooldown"
        BY <2>2, <2>3, <3>2
      <4>2. PICK i \in 1..n :
              /\ alerts[i].boot = boot /\ Code[alerts[i].rule] = Code[r]
              /\ PassedCooldown(alerts[i]) /\ ts - alerts[i].ts < CooldownOf(r)
        BY <2>5, <4>1
      <4>3. i \in 1..(j - 1) /\ alerts'[i] = alerts[i] /\ alerts'[j] = rec
        BY <2>2, <3>2
      <4> QED BY <2>3, <4>2, <4>3
    <3> QED BY <2>2, <3>1, <3>2
  <2>7. TableFromLog'
    <3> SUFFICES ASSUME NEW c \in Codes, lastFired'[c] # NotFired
                 PROVE  \E i \in 1..Len(alerts') :
                          /\ alerts'[i].boot = boot /\ Code[alerts'[i].rule] = c
                          /\ PassedCooldown(alerts'[i]) /\ alerts'[i].ts = lastFired'[c]
      BY <2>4 DEF TableFromLog, InForce, PassedCooldown
    <3>1. CASE lastFired'[c] = lastFired[c] /\ ~(c = Code[r] /\ lastFired[c] = ts /\ gate = "pass")
      <4>1. PICK i \in 1..n :
              /\ alerts[i].boot = boot /\ Code[alerts[i].rule] = c
              /\ PassedCooldown(alerts[i]) /\ alerts[i].ts = lastFired[c]
        <5>1. InForce(c)
          BY <2>4, <3>1 DEF CauseInv, TableFromLog
        <5>2. ~\E q \in cur : Code[q] = c /\ lastFired[c] = ts
          <6>1. cur = {} \/ (cur = {r} /\ gate = "pass")
            BY <1>0, <2>1 DEF GateAndWrite, WriteDispatched, TypeOK
          <6> QED BY <3>1, <6>1
        <5> QED BY <5>1, <5>2 DEF InForce, n
      <4> QED BY <2>2, <3>1, <4>1
    <3>2. CASE c = Code[r] /\ lastFired'[c] = ts /\ gate # "suppressed_cooldown"
      BY <2>2, <2>3, <3>2 DEF PassedCooldown
    <3>3. \/ lastFired'[c] = lastFired[c]
          \/ c = Code[r] /\ lastFired'[c] = ts /\ gate # "suppressed_cooldown"
      <4>1. CASE WriteDispatched(r)
        BY <4>1 DEF WriteDispatched, gateVars
      <4>2. CASE GateAndWrite(r) /\ gate = GateOf(r)
        <5>1. RecordCooldown(r) /\ (gate = "suppressed_cooldown" <=> CoolingDown(r))
          BY <4>2 DEF GateAndWrite, GateOf
        <5> QED BY <1>0, <5>1, CodeInTable DEF RecordCooldown, TypeOK
      <4> QED BY <2>1, <4>1, <4>2
    <3> QED BY <3>1, <3>2, <3>3
  <2> QED BY <1>0, <2>6, <2>7 DEF CauseInv
<1>2. ASSUME NEW r \in Rules, GatePass(r)
      PROVE  CauseInv'
  <2>1. /\ UNCHANGED <<alerts, boot, ts>> /\ pc = "gates" /\ pc' # "stopped" /\ cur' = {r}
        /\ lastFired' = [lastFired EXCEPT ![Code[r]] = ts]
    BY <1>2 DEF GatePass, GateOf, RecordCooldown, logVars
  <2>2. TableFromLog'
    <3> SUFFICES ASSUME NEW c \in Codes, lastFired'[c] # NotFired
                 PROVE  InForce(c)'
      BY DEF TableFromLog
    <3>1. CASE c = Code[r]
      <4>1. lastFired'[c] = ts
        BY <1>0, <2>1, <3>1 DEF TypeOK
      <4> QED BY <2>1, <3>1, <4>1 DEF InForce
    <3>2. CASE c # Code[r]
      <4>1. lastFired'[c] = lastFired[c]
        BY <1>0, <2>1, <3>2 DEF TypeOK
      <4>2. PICK i \in 1..Len(alerts) :
              /\ alerts[i].boot = boot /\ Code[alerts[i].rule] = c
              /\ PassedCooldown(alerts[i]) /\ alerts[i].ts = lastFired[c]
        BY <2>1, <4>1, EntryHasLine
      <4> QED BY <2>1, <4>1, <4>2 DEF InForce, PassedCooldown
    <3> QED BY <3>1, <3>2
  <2>3. SuppressionHasCause'
    BY <2>1 DEF CauseInv, SuppressionHasCause, PassedCooldown, CooldownOf
  <2> QED BY <1>0, <2>2, <2>3 DEF CauseInv
<1>3. CASE Quiet \/ \E r \in Rules, ok \in BOOLEAN : Deliver(r, ok)
  <2>1. /\ UNCHANGED <<alerts, boot, cur, lastFired>>
        /\ ts' = ts \/ cur = {}
        /\ pc' # "stopped" => pc # "stopped"
    BY <1>0, <1>3 DEF Quiet, Deliver, gateVars, TypeOK
  <2>2. \A c \in Codes : InForce(c) => InForce(c)'
    BY <2>1 DEF InForce, PassedCooldown
  <2>3. TableFromLog'
    BY <2>1, <2>2 DEF CauseInv, TableFromLog
  <2>4. SuppressionHasCause'
    BY <2>1 DEF CauseInv, SuppressionHasCause, PassedCooldown, CooldownOf
  <2> QED BY <1>0, <2>3, <2>4 DEF CauseInv
<1>4. CASE Restart
  <2>1. alerts' = alerts /\ lastFired' = [c \in Codes |-> NotFired]
    BY <1>4 DEF Restart
  <2>2. TableFromLog'
    BY <2>1 DEF TableFromLog
  <2>3. SuppressionHasCause'
    BY <2>1 DEF CauseInv, SuppressionHasCause, PassedCooldown, CooldownOf
  <2> QED BY <1>0, <2>2, <2>3 DEF CauseInv
<1> QED
  BY <1>0, <1>1, <1>2, <1>3, <1>4, StepKinds

\* Whatever the rules, cooldowns and interleaving, a verdict the cooldown holds
\* back has a line of its code before it that passed the gate within its cooldown.
THEOREM SuppressionExplained == Spec => []SuppressionHasCause
<1>1. Init => CauseInv
  <2>1. Init => TableFromLog
    BY DEF Init, TableFromLog
  <2>2. Init => SuppressionHasCause
    BY DEF Init, SuppressionHasCause
  <2> QED BY <2>1, <2>2, InitType DEF CauseInv
<1>2. CauseInv => SuppressionHasCause
  BY DEF CauseInv
<1> QED
  BY <1>1, <1>2, StepCause, PTL DEF Spec

-----------------------------------------------------------------------------
(* EmergencyGetsThrough.                                                   *)

\* An EMERGENCY is held back by the cooldown only: it is never coalesced, and no
\* mute has a minimum above it.
LEMMA EmergencyOnlyCools ==
    ASSUME TypeOK, NEW r \in Rules, Level[r] = EMERGENCY
    PROVE  GateOf(r) \in {"pass", "suppressed_cooldown"}
<1>1. ~Coalesced(r)
  BY DEF Coalesced
<1>2. globalMute.min \in 1..5 /\ dockMute.min \in 1..5
  BY DEF TypeOK, Mute, Severity, EMERGENCY
<1>3. ~MutedGlobal(r) /\ ~MutedDock(r)
  BY <1>2 DEF MutedGlobal, MutedDock, EMERGENCY
<1> QED BY <1>1, <1>3 DEF GateOf

EmergencyOnlyCooled ==
    \A i \in 1..Len(alerts) : Level[alerts[i].rule] = EMERGENCY =>
        alerts[i].gate \in {"pass", "suppressed_cooldown"}

LEMMA StepEmergency == TypeOK /\ EmergencyOnlyCooled /\ [Next]_vars => EmergencyOnlyCooled'
<1> SUFFICES ASSUME TypeOK, EmergencyOnlyCooled, [Next]_vars
             PROVE  EmergencyOnlyCooled'
  OBVIOUS
<1>1. ASSUME NEW r \in Rules, GateAndWrite(r) \/ WriteDispatched(r)
      PROVE  EmergencyOnlyCooled'
  <2> DEFINE n == Len(alerts)
  <2>1. PICK gate \in Gates, sent \in BOOLEAN :
          /\ alerts' = Append(alerts, Record(r, gate, sent))
          /\ Record(r, gate, sent) \in AlertRecord
          /\ \/ GateAndWrite(r) /\ gate = GateOf(r) /\ sent = FALSE
             \/ WriteDispatched(r) /\ gate = "pass" /\ sent = WasSent(r)
    BY <1>1, WhatIsWritten
  <2> DEFINE rec == Record(r, gate, sent)
  <2>2. /\ n \in Nat /\ Len(alerts') = n + 1 /\ alerts'[n + 1] = rec
        /\ \A i \in 1..n : alerts'[i] = alerts[i]
        /\ \A i \in 1..Len(alerts') : i \in 1..n \/ i = n + 1
    BY <2>1, LogGrows
  <2>3. rec.rule = r /\ rec.gate = gate
    BY <2>1, RecordType
  <2>4. Level[r] = EMERGENCY => gate \in {"pass", "suppressed_cooldown"}
    BY <2>1, EmergencyOnlyCools
  <2> HIDE DEF rec, n
  <2> SUFFICES ASSUME NEW i \in 1..Len(alerts'), Level[alerts'[i].rule] = EMERGENCY
               PROVE  alerts'[i].gate \in {"pass", "suppressed_cooldown"}
    BY DEF EmergencyOnlyCooled
  <2>5. CASE i \in 1..n
    BY <2>2, <2>5 DEF EmergencyOnlyCooled, n
  <2>6. CASE i = n + 1
    BY <2>2, <2>3, <2>4, <2>6
  <2> QED BY <2>2, <2>5, <2>6
<1>2. CASE alerts' = alerts
  BY <1>2 DEF EmergencyOnlyCooled
<1>3. CASE Quiet \/ Restart \/ \E r \in Rules, ok \in BOOLEAN : GatePass(r) \/ Deliver(r, ok)
  BY <1>2, <1>3 DEF Quiet, Restart, GatePass, Deliver, logVars
<1> QED
  BY <1>1, <1>3, StepKinds

\* No code is used both by EMERGENCY rules and by lower ones.  The cooldown is per
\* code: a rule table that broke this could let a lower verdict silence the
\* EMERGENCY.  It is a matter of config/rules.yaml, where every code has one level.
CodesKeepLevel ==
    \A r, q \in Rules : Code[r] = Code[q] => (Level[r] = EMERGENCY <=> Level[q] = EMERGENCY)

\* With any mutes, requests, bursts and cooldowns: the record of an EMERGENCY says
\* it was let through, or an EMERGENCY of its code was within the floor before it.
THEOREM EmergencyHeard ==
    ASSUME CodesKeepLevel
    PROVE  Spec => []EmergencyGetsThrough
<1> DEFINE Inv == TypeOK /\ CauseInv /\ EmergencyOnlyCooled
<1>1. Init => Inv
  <2>1. Init => CauseInv
    BY InitType DEF Init, CauseInv, TableFromLog, SuppressionHasCause
  <2>2. Init => EmergencyOnlyCooled
    BY DEF Init, EmergencyOnlyCooled
  <2> QED BY <2>1, <2>2, InitType
<1>2. Inv /\ [Next]_vars => Inv'
  BY StepType, StepCause, StepEmergency
<1>3. Inv => EmergencyGetsThrough
  <2> SUFFICES ASSUME Inv, NEW j \in 1..Len(alerts), Level[alerts[j].rule] = EMERGENCY,
                      alerts[j].gate # "pass"
               PROVE  \E i \in 1..(j - 1) :
                        /\ alerts[i].boot = alerts[j].boot
                        /\ Code[alerts[i].rule] = Code[alerts[j].rule]
                        /\ alerts[i].gate = "pass"
                        /\ alerts[j].ts - alerts[i].ts < EmergencyFloor
    BY DEF EmergencyGetsThrough
  <2>1. alerts[j].gate = "suppressed_cooldown"
    BY DEF EmergencyOnlyCooled
  <2>2. PICK i \in 1..(j - 1) :
          /\ alerts[i].boot = alerts[j].boot
          /\ Code[alerts[i].rule] = Code[alerts[j].rule]
          /\ PassedCooldown(alerts[i])
          /\ alerts[j].ts - alerts[i].ts < CooldownOf(alerts[j].rule)
    BY <2>1 DEF CauseInv, SuppressionHasCause
  <2>3. i \in 1..Len(alerts)
    BY DEF TypeOK
  <2>4. Level[alerts[i].rule] = EMERGENCY
    BY <2>2, <2>3, LogEntryType DEF CodesKeepLevel
  <2>5. alerts[i].gate = "pass"
    BY <2>2, <2>3, <2>4 DEF EmergencyOnlyCooled, PassedCooldown
  <2> QED BY <2>2, <2>5 DEF CooldownOf
<1> QED
  BY <1>1, <1>2, <1>3, PTL DEF Spec

-----------------------------------------------------------------------------
(* DeliveredAudited.  The window between the channel's answer and the line *)
(* of the verdict is open for one verdict at a time, and closes with the   *)
(* step that leaves it.                                                    *)

InHand(d) == pc = "write" /\ d.rule \in cur /\ d.frame = Len(frames)

\* The strengthening: of the running process only the verdict in hand is accepted
\* and not yet written.
OpenDelivery ==
    \A i \in 1..Len(delivered) :
        /\ delivered[i].boot <= boot
        /\ delivered[i].boot = boot /\ Unaudited(delivered[i]) =>
             pc = "stopped" \/ InHand(delivered[i])

AuditInv == TypeOK /\ OpenDelivery /\ DeliveredAudited

\* A line that audits an alert does so for ever.
LEMMA AuditedForEver ==
    ASSUME TypeOK, NEW rec \in AlertRecord, alerts' = Append(alerts, rec), NEW d, Unaudited(d)'
    PROVE  Unaudited(d) /\ ~(rec.frame = d.frame /\ rec.rule = d.rule /\ rec.sent)
<1>1. /\ Len(alerts) \in Nat /\ Len(alerts') = Len(alerts) + 1
      /\ alerts'[Len(alerts) + 1] = rec
      /\ \A i \in 1..Len(alerts) : alerts'[i] = alerts[i]
  BY LogGrows
<1>2. Unaudited(d)
  BY <1>1 DEF Unaudited
<1>3. Len(alerts) + 1 \in 1..Len(alerts')
  BY <1>1
<1> QED
  BY <1>1, <1>2, <1>3 DEF Unaudited

LEMMA DeliveredType ==
    ASSUME TypeOK, NEW i \in 1..Len(delivered)
    PROVE  delivered[i].rule \in Rules /\ delivered[i].boot \in Nat /\ delivered[i].frame \in Nat
<1>1. \A s \in Seq(AlertRecord) : \A k \in 1..Len(s) : s[k] \in AlertRecord
  BY ElementOfSeq
<1>2. delivered[i] \in AlertRecord
  BY <1>1 DEF TypeOK
<1> QED BY <1>2 DEF AlertRecord

LEMMA StepAudit == AuditInv /\ [Next]_vars => AuditInv'
<1> SUFFICES ASSUME AuditInv, [Next]_vars
             PROVE  AuditInv'
  OBVIOUS
<1>0. TypeOK /\ TypeOK'
  BY StepType DEF AuditInv
<1>1. ASSUME delivered' = delivered, \A d : Unaudited(d)' => Unaudited(d)
      PROVE  DeliveredAudited'
  BY <1>1 DEF AuditInv, DeliveredAudited
<1>2. ASSUME NEW r \in Rules, GateAndWrite(r) \/ WriteDispatched(r)
      PROVE  AuditInv'
  <2>1. PICK gate \in Gates, sent \in BOOLEAN :
          /\ alerts' = Append(alerts, Record(r, gate, sent))
          /\ Record(r, gate, sent) \in AlertRecord
          /\ \/ GateAndWrite(r) /\ gate = GateOf(r) /\ sent = FALSE
             \/ WriteDispatched(r) /\ gate = "pass" /\ sent = WasSent(r)
    BY <1>0, <1>2, WhatIsWritten
  <2>2. UNCHANGED <<boot, delivered, frames>> /\ pc # "stopped"
    BY <1>2 DEF GateAndWrite, WriteDispatched, WriteRecord
  <2>3. ASSUME NEW d, Unaudited(d)'
        PROVE  Unaudited(d) /\ ~(Len(frames) = d.frame /\ r = d.rule /\ sent)
    <3>1. Record(r, gate, sent).frame = Len(frames) /\ Record(r, gate, sent).rule = r
          /\ Record(r, gate, sent).sent = sent
      BY DEF Record
    <3> QED BY <1>0, <2>1, <2>3, <3>1, AuditedForEver
  <2>4. OpenDelivery'
    <3> SUFFICES ASSUME NEW i \in 1..Len(delivered), NEW d, d = delivered[i],
                        d.boot = boot, Unaudited(d)'
                 PROVE  FALSE
      BY <2>2 DEF AuditInv, OpenDelivery, Unaudited
    <3>1. Unaudited(d) /\ ~(Len(frames) = d.frame /\ r = d.rule /\ sent)
      BY <2>3
    <3>2. InHand(d)
      BY <2>2, <3>1 DEF AuditInv, OpenDelivery
    <3>3. WriteDispatched(r) /\ sent = WasSent(r) /\ d.rule = r /\ d.frame = Len(frames)
      BY <1>0, <2>1, <3>2 DEF InHand, GateAndWrite, WriteDispatched, TypeOK
    <3>4. WasSent(r)
      BY <1>0, <3>3 DEF WasSent, TypeOK
    <3>5. sent
      BY <3>3, <3>4
    <3> QED BY <3>1, <3>3, <3>5
  <2> QED BY <1>0, <1>1, <2>2, <2>3, <2>4 DEF AuditInv
<1>3. ASSUME NEW r \in Rules, NEW ok \in BOOLEAN, Deliver(r, ok)
      PROVE  AuditInv'
  <2> DEFINE m == Len(delivered)
             new == Record(r, "pass", TRUE)
  <2>1. /\ pc = "dispatch" /\ pc' = "write" /\ r \in cur /\ cur' = cur
        /\ UNCHANGED <<boot, alerts, frames>>
        /\ delivered' = delivered \/ delivered' = Append(delivered, new)
    BY <1>3 DEF Deliver
  <2>2. ASSUME NEW i \in 1..m, delivered[i].boot = boot
        PROVE  ~Unaudited(delivered[i])
    BY <2>1, <2>2 DEF AuditInv, OpenDelivery, InHand
  <2>3. \A d : Unaudited(d)' = Unaudited(d)
    BY <2>1 DEF Unaudited
  <2>4. /\ new \in AlertRecord /\ new.boot = boot /\ new.rule = r /\ new.frame = Len(frames)
        /\ boot \in Nat
    <3>1. "pass" \in Gates
      BY DEF Gates
    <3> QED BY <1>0, <3>1, RecordType DEF Record, TypeOK
  <2> HIDE DEF new
  <2>5. CASE delivered' = delivered
    <3>1. OpenDelivery'
      BY <2>1, <2>2, <2>3, <2>5 DEF AuditInv, OpenDelivery
    <3> QED BY <1>0, <1>1, <2>3, <2>5, <3>1 DEF AuditInv
  <2>6. CASE delivered' = Append(delivered, new)
    <3>1. /\ m \in Nat /\ Len(delivered') = m + 1 /\ delivered'[m + 1] = new
          /\ \A i \in 1..m : delivered'[i] = delivered[i]
      <4>1. delivered \in Seq(AlertRecord)
        BY <1>0 DEF TypeOK
      <4> QED BY <2>4, <2>6, <4>1, AppendProperties
    <3>2. \A i \in 1..Len(delivered') : i \in 1..m \/ i = m + 1
      BY <3>1
    <3>3. OpenDelivery'
      <4> SUFFICES ASSUME NEW i \in 1..Len(delivered')
                   PROVE  /\ delivered'[i].boot <= boot
                          /\ delivered'[i].boot = boot /\ Unaudited(delivered'[i]) =>
                               r = delivered'[i].rule /\ delivered'[i].frame = Len(frames)
        BY <2>1, <2>3 DEF OpenDelivery, InHand
      <4>1. CASE i \in 1..m
        BY <2>2, <3>1, <4>1 DEF AuditInv, OpenDelivery
      <4>2. CASE i = m + 1
        BY <2>4, <3>1, <4>2
      <4> QED BY <3>2, <4>1, <4>2
    <3>4. DeliveredAudited'
      <4> SUFFICES ASSUME NEW i \in 1..Len(delivered'), NEW j \in 1..Len(delivered'),
                          Unaudited(delivered'[i]), Unaudited(delivered'[j]),
                          delivered'[i].boot = delivered'[j].boot
                   PROVE  i = j
        BY <2>3 DEF DeliveredAudited
      <4>1. CASE i \in 1..m /\ j \in 1..m
        BY <3>1, <4>1 DEF AuditInv, DeliveredAudited
      <4>2. ~(i \in 1..m /\ j = m + 1) /\ ~(j \in 1..m /\ i = m + 1)
        BY <2>2, <2>4, <3>1
      <4> QED BY <3>2, <4>1, <4>2
    <3> QED BY <1>0, <3>3, <3>4 DEF AuditInv
  <2> QED BY <2>1, <2>5, <2>6
<1>4. ASSUME NEW r \in Rules, GatePass(r)
      PROVE  AuditInv'
  <2>1. pc = "gates" /\ UNCHANGED <<boot, alerts, delivered>>
    BY <1>4 DEF GatePass, logVars
  <2>2. OpenDelivery'
    BY <2>1 DEF AuditInv, OpenDelivery, InHand, Unaudited
  <2>3. \A d : Unaudited(d)' = Unaudited(d)
    BY <2>1 DEF Unaudited
  <2> QED BY <1>0, <1>1, <2>1, <2>2, <2>3 DEF AuditInv
<1>5. CASE Quiet
  <2>1. \A d : Unaudited(d)' = Unaudited(d)
    BY <1>5 DEF Quiet, Unaudited
  <2>2. OpenDelivery'
    BY <1>5, <2>1 DEF AuditInv, OpenDelivery, InHand, Quiet
  <2> QED BY <1>0, <1>1, <1>5, <2>1, <2>2 DEF AuditInv, Quiet
<1>6. CASE Restart
  <2>1. UNCHANGED <<alerts, delivered>> /\ boot' = boot + 1
    BY <1>6 DEF Restart
  <2>2. \A d : Unaudited(d)' = Unaudited(d)
    BY <2>1 DEF Unaudited
  <2>3. boot \in Nat /\ \A i \in 1..Len(delivered) : delivered[i].boot \in Nat
    BY <1>0, DeliveredType DEF TypeOK
  <2>4. \A i \in 1..Len(delivered) : delivered[i].boot <= boot + 1 /\ delivered[i].boot # boot + 1
    BY <2>3 DEF AuditInv, OpenDelivery
  <2>5. OpenDelivery'
    BY <2>1, <2>4 DEF OpenDelivery
  <2> QED BY <1>0, <1>1, <2>1, <2>2, <2>5 DEF AuditInv
<1> QED
  BY <1>0, <1>2, <1>3, <1>4, <1>5, <1>6, StepKinds

\* However the awaits, stops and restarts fall, each process leaves at most one
\* accepted alert without its "sent" line.
THEOREM DeliveriesAudited == Spec => []DeliveredAudited
<1>1. Init => AuditInv
  BY InitType DEF Init, AuditInv, OpenDelivery, DeliveredAudited
<1>2. AuditInv => DeliveredAudited
  BY DEF AuditInv
<1> QED
  BY <1>1, <1>2, StepAudit, PTL DEF Spec

-----------------------------------------------------------------------------
(* BurstExact.  The window of a rule and a second holds one entry for      *)
(* every line of the log that passed the cooldown in them, and one for the *)
(* verdict in hand.                                                        *)

InFlight(r, s) == IF r \in cur /\ ts \div SecondMs = s THEN 1 ELSE 0

BootsNotAhead == \A i \in 1..Len(alerts) : alerts[i].boot <= boot

\* The key of a window names the second of everything in it ...
WindowOfSecond ==
    \A r \in Rules, s \in 0..MaxClock : \A k \in 1..Len(hist[<<r, s>>]) :
        hist[<<r, s>>][k] \div SecondMs = s

\* ... so nothing of it is dropped while it is used, and it counts exactly.
WindowExact ==
    pc # "stopped" => \A r \in Rules, s \in 0..MaxClock : Level[r] # EMERGENCY =>
        Len(hist[<<r, s>>]) = Cardinality(Counted(r, s, boot, Len(alerts))) + InFlight(r, s)

\* The verdict whose dispatch is awaited was within the threshold.
InFlightAllowed ==
    pc # "stopped" => \A r \in cur : Level[r] # EMERGENCY =>
        Len(hist[DedupKey(r)]) <= BurstThreshold

BurstInv ==
    /\ TypeOK
    /\ BootsNotAhead
    /\ WindowOfSecond
    /\ WindowExact
    /\ InFlightAllowed
    /\ BurstExact

\* Two times of one second are less than a second apart.
LEMMA SameSecond ==
    ASSUME NEW m \in Nat \ {0}, NEW x \in Nat, NEW y \in Nat, x \div m = y \div m
    PROVE  x - y < m
<1>1. x = m * (x \div m) + (x % m) /\ 0 <= x % m /\ x % m < m
  OBVIOUS
<1>2. y = m * (y \div m) + (y % m) /\ 0 <= y % m /\ y % m < m
  OBVIOUS
<1> QED BY <1>1, <1>2

\* With nothing before the cutoff the window stays whole.
LEMMA NothingStale ==
    ASSUME NEW h \in Seq(Nat), NEW cutoff \in Int, \A k \in 1..Len(h) : h[k] >= cutoff
    PROVE  DropStale(h, cutoff) = h
<1>1. {i \in 1..Len(h) : \A j \in 1..i : h[j] < cutoff} = {}
  BY ElementOfSeq
<1>2. Cardinality({}) + 1 = 1
  BY FS_EmptySet
<1>3. SubSeq(h, 1, Len(h)) = h
  BY SubSeqFull
<1> QED BY <1>1, <1>2, <1>3 DEF DropStale

LEMMA CountType ==
    ASSUME TypeOK, NEW r, NEW s, NEW b, NEW n \in Nat
    PROVE  /\ IsFiniteSet(Counted(r, s, b, n))
           /\ Cardinality(Counted(r, s, b, n)) \in Nat
<1>1. IsFiniteSet(1..n)
  BY FS_Interval
<1>2. Counted(r, s, b, n) \subseteq 1..n
  BY DEF Counted
<1>3. IsFiniteSet(Counted(r, s, b, n))
  BY <1>1, <1>2, FS_Subset
<1> QED BY <1>3, FS_CardinalityType

\* A line more leaves what the lines before it count alone.
LEMMA PastCounts ==
    ASSUME TypeOK, NEW rec \in AlertRecord, alerts' = Append(alerts, rec),
           NEW r, NEW s, NEW b, NEW n \in 0..Len(alerts)
    PROVE  Counted(r, s, b, n)' = Counted(r, s, b, n)
<1>1. \A i \in 1..n : alerts'[i] = alerts[i]
  BY LogGrows
<1> QED BY <1>1 DEF Counted, PassedCooldown

Counts(rec, r, s, b) ==
    /\ rec.boot = b /\ rec.rule = r /\ rec.ts \div SecondMs = s
    /\ PassedCooldown(rec)

\* A line more is one counted more, or none.
LEMMA CountGrows ==
    ASSUME TypeOK, NEW rec \in AlertRecord, alerts' = Append(alerts, rec),
           NEW r, NEW s, NEW b
    PROVE  Cardinality(Counted(r, s, b, Len(alerts))') =
             Cardinality(Counted(r, s, b, Len(alerts))) + (IF Counts(rec, r, s, b) THEN 1 ELSE 0)
<1> DEFINE n == Len(alerts)
           T == Counted(r, s, b, n)
<1>1. /\ n \in Nat /\ Len(alerts') = n + 1 /\ alerts'[n + 1] = rec
      /\ \A i \in 1..n : alerts'[i] = alerts[i]
      /\ \A i \in 1..Len(alerts') : i \in 1..n \/ i = n + 1
  BY LogGrows
<1>2. 1..Len(alerts') = (1..n) \cup {n + 1} /\ n + 1 \notin 1..n
  BY <1>1
<1>3. IsFiniteSet(T) /\ Cardinality(T) \in Nat
  BY <1>1, CountType
<1>4. CASE Counts(rec, r, s, b)
  <2>1. T' = T \cup {n + 1} /\ n + 1 \notin T
    BY <1>1, <1>2, <1>4 DEF Counted, Counts, PassedCooldown
  <2> HIDE DEF T
  <2>2. Cardinality(T \cup {n + 1}) = Cardinality(T) + 1
    BY <1>3, <2>1, FS_AddElement
  <2> QED BY <1>4, <2>1, <2>2 DEF T
<1>5. CASE ~Counts(rec, r, s, b)
  <2>1. T' = T
    BY <1>1, <1>2, <1>5 DEF Counted, Counts, PassedCooldown
  <2> QED BY <1>3, <1>5, <2>1
<1> QED BY <1>4, <1>5

\* The log stays exact when the line written is.
LEMMA ExactGrows ==
    ASSUME TypeOK, BurstExact, NEW r \in Rules, NEW gate \in Gates, NEW sent \in BOOLEAN,
           alerts' = Append(alerts, Record(r, gate, sent)),
           Level[r] # EMERGENCY /\ gate # "suppressed_cooldown" =>
             (gate = "coalesced" <=>
                Cardinality(Counted(r, ts \div SecondMs, boot, Len(alerts))) >= BurstThreshold)
    PROVE  BurstExact'
<1> DEFINE rec == Record(r, gate, sent)
<1>1. /\ rec \in AlertRecord
      /\ rec.rule = r /\ rec.ts = ts /\ rec.boot = boot /\ rec.gate = gate
  BY RecordType
<1> HIDE DEF rec
<1>2. /\ Len(alerts) \in Nat /\ Len(alerts') = Len(alerts) + 1
      /\ alerts'[Len(alerts) + 1] = rec
      /\ \A i \in 1..Len(alerts) : alerts'[i] = alerts[i]
      /\ \A i \in 1..Len(alerts') : i \in 1..Len(alerts) \/ i = Len(alerts) + 1
  BY <1>1, LogGrows DEF rec
<1>3. ASSUME NEW q, NEW s, NEW b, NEW n \in 0..Len(alerts)
      PROVE  Counted(q, s, b, n)' = Counted(q, s, b, n)
  BY <1>1, PastCounts DEF rec
<1> SUFFICES ASSUME NEW j \in 1..Len(alerts'),
                    Level[alerts'[j].rule] # EMERGENCY, PassedCooldown(alerts'[j])
             PROVE  alerts'[j].gate = "coalesced" <=>
                      Cardinality(Counted(alerts[j].rule, alerts[j].ts \div SecondMs,
                                          alerts[j].boot, j - 1)') >= BurstThreshold
  BY DEF BurstExact
<1>4. CASE j \in 1..Len(alerts)
  <2>1. alerts'[j] = alerts[j] /\ j - 1 \in 0..Len(alerts)
    BY <1>2, <1>4
  <2>2. Counted(alerts[j].rule, alerts[j].ts \div SecondMs, alerts[j].boot, j - 1)' =
        Counted(alerts[j].rule, alerts[j].ts \div SecondMs, alerts[j].boot, j - 1)
    <3>1. PICK q, s, b : /\ q = alerts[j].rule /\ s = alerts[j].ts \div SecondMs
                         /\ b = alerts[j].boot
      OBVIOUS
    <3>2. Counted(q, s, b, j - 1)' = Counted(q, s, b, j - 1)
      BY <1>3, <2>1
    <3> QED BY <2>1, <3>1, <3>2 DEF Counted
  <2> QED BY <1>4, <2>1, <2>2 DEF BurstExact
<1>5. CASE j = Len(alerts) + 1
  <2>1. alerts'[j] = rec /\ j - 1 = Len(alerts) /\ Len(alerts) \in 0..Len(alerts)
    BY <1>2, <1>5
  <2>2. Counted(alerts[j].rule, alerts[j].ts \div SecondMs, alerts[j].boot, j - 1)' =
        Counted(r, ts \div SecondMs, boot, Len(alerts))
    <3>0. PICK n \in 0..Len(alerts) : n = Len(alerts)
      BY <2>1
    <3>1. PICK q, s, b : q = r /\ s = ts \div SecondMs /\ b = boot
      OBVIOUS
    <3>2. Counted(q, s, b, n)' = Counted(q, s, b, n)
      BY <1>3
    <3>3. j - 1 = n
      BY <2>1, <3>0
    <3> QED BY <1>1, <2>1, <3>0, <3>1, <3>2, <3>3 DEF Counted
  <2> QED BY <1>1, <2>1, <2>2 DEF PassedCooldown
<1> QED BY <1>2, <1>4, <1>5

\* _run_gates lengthens the window of a verdict below EMERGENCY that is not held
\* by the cooldown by one, and no other.
LEMMA WindowGrows ==
    ASSUME BurstInv, NEW r \in Rules
    PROVE  BurstWith(r) = Append(hist[DedupKey(r)], ts)
<1>1. TypeOK /\ WindowOfSecond
  BY DEF BurstInv
<1>2. DedupKey(r) \in DedupKeys /\ ts \div SecondMs \in 0..MaxClock
  BY <1>1, DedupKeyInDomain DEF TypeOK, DedupKey, DedupKeys
<1>3. hist[DedupKey(r)] \in Seq(Nat) /\ ts \in Nat
  BY <1>1, <1>2, ClockType DEF TypeOK
<1> DEFINE h == hist[DedupKey(r)]
<1>4. ASSUME NEW k \in 1..Len(h)
      PROVE  h[k] >= ts - DedupWindow
  <2>1. h[k] \div SecondMs = ts \div SecondMs
    BY <1>1, <1>2 DEF WindowOfSecond, DedupKey
  <2>2. h[k] \in Nat
    BY <1>3, ElementOfSeq
  <2>3. ts - h[k] < SecondMs
    BY <1>3, <2>1, <2>2, ParamsAssumption, SameSecond
  <2> QED BY <1>3, <2>2, <2>3, ParamsAssumption
<1>5. DropStale(h, ts - DedupWindow) = h
  <2>1. ts - DedupWindow \in Int
    BY <1>3, ParamsAssumption
  <2> HIDE DEF h
  <2> QED BY <1>3, <1>4, <2>1, NothingStale DEF h
<1> QED BY <1>5 DEF BurstWith

\* What RecordDedup does to the windows: one entry more in that of the verdict,
\* unless the verdict has no window or does not reach it, and none elsewhere.
Recorded(r, q, s) ==
    IF q = r /\ s = ts \div SecondMs /\ ~CoolingDown(r) /\ Level[r] # EMERGENCY THEN 1 ELSE 0

LEMMA WindowMoves ==
    ASSUME BurstInv, NEW r \in Rules, RecordDedup(r), NEW q \in Rules, NEW s \in 0..MaxClock
    PROVE  /\ Len(hist[<<q, s>>]) \in Nat
           /\ Len(hist'[<<q, s>>]) = Len(hist[<<q, s>>]) + Recorded(r, q, s)
           /\ \A k \in 1..Len(hist'[<<q, s>>]) : hist'[<<q, s>>][k] \div SecondMs = s
<1>1. TypeOK /\ WindowOfSecond /\ ts \in Nat /\ hist \in [DedupKeys -> Seq(Nat)]
  BY ClockType DEF BurstInv, TypeOK
<1>2. DedupKey(r) \in DedupKeys /\ <<q, s>> \in DedupKeys
  BY <1>1, DedupKeyInDomain DEF TypeOK, DedupKey, DedupKeys
<1> DEFINE h == hist[<<q, s>>]
<1>3. /\ h \in Seq(Nat) /\ Len(h) \in Nat
      /\ Len(Append(h, ts)) = Len(h) + 1 /\ Append(h, ts)[Len(h) + 1] = ts
      /\ \A k \in 1..Len(h) : Append(h, ts)[k] = h[k]
  BY <1>1, <1>2, AppendProperties
<1>4. \A k \in 1..Len(h) : h[k] \div SecondMs = s
  BY <1>1 DEF WindowOfSecond
<1>5. <<q, s>> = DedupKey(r) <=> q = r /\ s = ts \div SecondMs
  BY DEF DedupKey
<1>6. CASE CoolingDown(r) \/ Level[r] = EMERGENCY
  <2>1. hist' = hist /\ Recorded(r, q, s) = 0
    BY <1>6 DEF RecordDedup, Recorded
  <2> QED BY <1>3, <1>4, <2>1
<1>7. CASE ~CoolingDown(r) /\ Level[r] # EMERGENCY
  <2>1. hist' = [hist EXCEPT ![DedupKey(r)] = Append(hist[DedupKey(r)], ts)]
    BY <1>7, WindowGrows DEF RecordDedup
  <2>2. CASE <<q, s>> # DedupKey(r)
    <3>1. hist'[<<q, s>>] = h /\ Recorded(r, q, s) = 0
      BY <1>1, <1>2, <1>5, <2>1, <2>2 DEF Recorded
    <3>2. Len(hist'[<<q, s>>]) = Len(h) + Recorded(r, q, s)
      BY <1>3, <3>1
    <3>3. \A k \in 1..Len(hist'[<<q, s>>]) : hist'[<<q, s>>][k] \div SecondMs = s
      BY <1>4, <3>1
    <3> QED BY <1>3, <3>2, <3>3
  <2>3. CASE <<q, s>> = DedupKey(r)
    <3>1. hist'[<<q, s>>] = Append(h, ts) /\ Recorded(r, q, s) = 1
      BY <1>1, <1>2, <1>5, <1>7, <2>1, <2>3 DEF Recorded
    <3>2. s = ts \div SecondMs
      BY <1>5, <2>3
    <3>3. ASSUME NEW k \in 1..Len(Append(h, ts))
          PROVE  Append(h, ts)[k] \div SecondMs = s
      <4> HIDE DEF h
      <4>1. k \in 1..Len(h) \/ k = Len(h) + 1
        BY <1>3
      <4> QED BY <1>3, <1>4, <3>2, <4>1
    <3>4. Len(hist'[<<q, s>>]) = Len(h) + Recorded(r, q, s)
      BY <1>3, <3>1
    <3>5. \A k \in 1..Len(hist'[<<q, s>>]) : hist'[<<q, s>>][k] \div SecondMs = s
      BY <3>1, <3>3
    <3> QED BY <1>3, <3>4, <3>5
  <2> QED BY <2>2, <2>3
<1> QED BY <1>6, <1>7

\* The log and the windows after a line of the running process.
LEMMA LineCounted ==
    ASSUME TypeOK, NEW r \in Rules, NEW gate \in Gates, NEW sent \in BOOLEAN,
           alerts' = Append(alerts, Record(r, gate, sent)), boot' = boot,
           NEW q \in Rules, NEW s \in 0..MaxClock
    PROVE  /\ Cardinality(Counted(q, s, boot, Len(alerts))) \in Nat
           /\ Cardinality(Counted(q, s, boot, Len(alerts))') =
                Cardinality(Counted(q, s, boot, Len(alerts))) +
                  (IF q = r /\ s = ts \div SecondMs /\ gate # "suppressed_cooldown" THEN 1 ELSE 0)
<1> DEFINE rec == Record(r, gate, sent)
<1>1. /\ rec \in AlertRecord
      /\ rec.rule = r /\ rec.ts = ts /\ rec.boot = boot /\ rec.gate = gate
  BY RecordType
<1>2. Len(alerts) \in Nat
  BY DEF TypeOK
<1> HIDE DEF rec
<1>3. ASSUME NEW b
      PROVE  Cardinality(Counted(q, s, b, Len(alerts))') =
               Cardinality(Counted(q, s, b, Len(alerts))) + (IF Counts(rec, q, s, b) THEN 1 ELSE 0)
  BY <1>1, CountGrows DEF rec
<1>4. Cardinality(Counted(q, s, boot, Len(alerts))') =
        Cardinality(Counted(q, s, boot, Len(alerts))) + (IF Counts(rec, q, s, boot) THEN 1 ELSE 0)
  <2>1. PICK b : b = boot
    OBVIOUS
  <2>2. Counted(q, s, boot, Len(alerts))' = Counted(q, s, b, Len(alerts))'
    BY <2>1 DEF Counted
  <2>3. Counted(q, s, boot, Len(alerts)) = Counted(q, s, b, Len(alerts))
    BY <2>1
  <2> QED BY <1>3, <2>1, <2>2, <2>3
<1>5. Counts(rec, q, s, boot) <=> q = r /\ s = ts \div SecondMs /\ gate # "suppressed_cooldown"
  BY <1>1 DEF Counts, PassedCooldown
<1> QED BY <1>2, <1>4, <1>5, CountType

LEMMA StepBurst == BurstInv /\ [Next]_vars => BurstInv'
<1> SUFFICES ASSUME BurstInv, [Next]_vars
             PROVE  BurstInv'
  OBVIOUS
<1>0. /\ TypeOK /\ TypeOK' /\ boot \in Nat /\ BurstThreshold \in Nat /\ Len(alerts) \in Nat
      /\ ts \div SecondMs \in 0..MaxClock /\ BurstExact
  <2>1. TypeOK /\ TypeOK' /\ BurstExact
    BY StepType DEF BurstInv
  <2>2. ts \div SecondMs \in 0..MaxClock
    <3>1. ts \in 0..MaxClock /\ MaxClock \in Nat /\ SecondMs \in Nat \ {0}
      BY <2>1, ParamsAssumption DEF TypeOK
    <3> QED BY <3>1
  <2> QED BY <2>1, <2>2, ParamsAssumption DEF TypeOK
<1>1. ASSUME NEW r \in Rules, GateAndWrite(r)
      PROVE  BurstInv'
  <2> DEFINE gate == GateOf(r)
             count == Cardinality(Counted(r, ts \div SecondMs, boot, Len(alerts)))
  <2>1. /\ alerts' = Append(alerts, Record(r, gate, FALSE)) /\ gate \in Gates
        /\ Record(r, gate, FALSE) \in AlertRecord /\ Record(r, gate, FALSE).boot = boot
        /\ RecordDedup(r) /\ UNCHANGED <<boot, pc, ts, cur>> /\ pc = "gates"
    BY <1>0, <1>1, GateType, RecordType DEF GateAndWrite, WriteRecord
  <2>2. cur = {} /\ cur' = {} /\ \A q, s : InFlight(q, s) = 0 /\ InFlight(q, s)' = 0
    BY <1>0, <2>1 DEF TypeOK, InFlight
  <2>3. /\ gate = "suppressed_cooldown" <=> CoolingDown(r)
        /\ ~CoolingDown(r) => (gate = "coalesced" <=> Coalesced(r))
    BY DEF GateOf
  <2>4. BootsNotAhead'
    <3> HIDE DEF gate
    <3>1. /\ Len(alerts') = Len(alerts) + 1 /\ alerts'[Len(alerts) + 1].boot = boot
          /\ \A i \in 1..Len(alerts) : alerts'[i] = alerts[i]
      BY <1>0, <2>1, LogGrows
    <3>2. ASSUME NEW i \in 1..Len(alerts')
          PROVE  alerts'[i].boot <= boot
      <4>1. i \in 1..Len(alerts) \/ i = Len(alerts) + 1
        BY <1>0, <3>1
      <4> QED BY <1>0, <3>1, <4>1 DEF BurstInv, BootsNotAhead
    <3> QED BY <2>1, <3>2 DEF BootsNotAhead
  <2>5. ASSUME Level[r] # EMERGENCY
        PROVE  Coalesced(r) <=> count >= BurstThreshold
    <3>1. BurstWith(r) = Append(hist[DedupKey(r)], ts)
      BY WindowGrows
    <3>2. hist[DedupKey(r)] \in Seq(Nat) /\ ts \in Nat
      BY <1>0, DedupKeyInDomain, ClockType DEF TypeOK
    <3>3. Len(BurstWith(r)) = Len(hist[DedupKey(r)]) + 1 /\ Len(hist[DedupKey(r)]) \in Nat
      BY <3>1, <3>2, AppendProperties
    <3>4. Len(hist[DedupKey(r)]) = count + InFlight(r, ts \div SecondMs)
      BY <1>0, <2>1, <2>5 DEF BurstInv, WindowExact, DedupKey
    <3>5. count \in Nat
      BY <1>0, CountType
    <3>6. Len(BurstWith(r)) = count + 1
      BY <2>2, <3>3, <3>4, <3>5
    <3> HIDE DEF count
    <3> QED BY <1>0, <2>5, <3>5, <3>6 DEF Coalesced
  <2>6. BurstExact'
    <3>1. Level[r] # EMERGENCY /\ gate # "suppressed_cooldown" =>
            (gate = "coalesced" <=> count >= BurstThreshold)
      BY <2>3, <2>5
    <3> HIDE DEF gate
    <3> QED BY <1>0, <2>1, <3>1, ExactGrows
  <2>7. ASSUME NEW q \in Rules, NEW s \in 0..MaxClock
        PROVE  /\ \A k \in 1..Len(hist'[<<q, s>>]) : hist'[<<q, s>>][k] \div SecondMs = s
               /\ Level[q] # EMERGENCY =>
                    Len(hist'[<<q, s>>]) = Cardinality(Counted(q, s, boot, Len(alerts))') + InFlight(q, s)'
    <3>1. /\ Len(hist[<<q, s>>]) \in Nat
          /\ Len(hist'[<<q, s>>]) = Len(hist[<<q, s>>]) + Recorded(r, q, s)
          /\ \A k \in 1..Len(hist'[<<q, s>>]) : hist'[<<q, s>>][k] \div SecondMs = s
      BY <2>1, WindowMoves
    <3>2. ASSUME Level[q] # EMERGENCY
          PROVE  Len(hist'[<<q, s>>]) = Cardinality(Counted(q, s, boot, Len(alerts))') + InFlight(q, s)'
      <4>1. Len(hist[<<q, s>>]) = Cardinality(Counted(q, s, boot, Len(alerts))) + InFlight(q, s)
        BY <2>1, <3>2 DEF BurstInv, WindowExact
      <4> HIDE DEF gate
      <4>2. /\ Cardinality(Counted(q, s, boot, Len(alerts))) \in Nat
            /\ Cardinality(Counted(q, s, boot, Len(alerts))') =
                 Cardinality(Counted(q, s, boot, Len(alerts))) +
                   (IF q = r /\ s = ts \div SecondMs /\ gate # "suppressed_cooldown" THEN 1 ELSE 0)
        BY <1>0, <2>1, LineCounted
      <4>3. Recorded(r, q, s) = IF q = r /\ s = ts \div SecondMs /\ gate # "suppressed_cooldown" THEN 1 ELSE 0
        BY <2>3, <3>2 DEF Recorded
      <4> QED BY <2>2, <3>1, <4>1, <4>2, <4>3
    <3> QED BY <3>1, <3>2
  <2>8. WindowOfSecond' /\ WindowExact' /\ InFlightAllowed'
    BY <2>2, <2>7 DEF WindowOfSecond, WindowExact, InFlightAllowed
  <2> QED BY <1>0, <2>4, <2>6, <2>8 DEF BurstInv
<1>2. ASSUME NEW r \in Rules, WriteDispatched(r)
      PROVE  BurstInv'
  <2> DEFINE count == Cardinality(Counted(r, ts \div SecondMs, boot, Len(alerts)))
  <2>1. PICK sent \in BOOLEAN :
          /\ alerts' = Append(alerts, Record(r, "pass", sent)) /\ "pass" \in Gates
          /\ Record(r, "pass", sent) \in AlertRecord /\ Record(r, "pass", sent).boot = boot
    <3>1. WasSent(r) \in BOOLEAN /\ "pass" \in Gates
      BY DEF WasSent, Gates
    <3> QED BY <1>0, <1>2, <3>1, RecordType DEF WriteDispatched, WriteRecord
  <2>2. /\ UNCHANGED <<boot, ts, hist>> /\ pc = "write" /\ cur = {r} /\ cur' = {}
    BY <1>0, <1>2 DEF WriteDispatched, gateVars, TypeOK
  <2>3. BootsNotAhead'
    BY <1>0, <2>1, <2>2, LogGrows DEF BurstInv, BootsNotAhead
  <2>4. ASSUME Level[r] # EMERGENCY
        PROVE  ~(count >= BurstThreshold)
    <3>1. Len(hist[DedupKey(r)]) = count + InFlight(r, ts \div SecondMs)
      BY <1>0, <2>2, <2>4 DEF BurstInv, WindowExact, DedupKey
    <3>2. Len(hist[DedupKey(r)]) <= BurstThreshold
      BY <2>2, <2>4 DEF BurstInv, InFlightAllowed
    <3>3. InFlight(r, ts \div SecondMs) = 1
      BY <2>2 DEF InFlight
    <3>4. count \in Nat
      BY <1>0, CountType
    <3> QED BY <1>0, <3>1, <3>2, <3>3, <3>4
  <2>5. BurstExact'
    BY <1>0, <2>1, <2>4, ExactGrows
  <2>6. ASSUME NEW q \in Rules, NEW s \in 0..MaxClock, Level[q] # EMERGENCY
        PROVE  Len(hist'[<<q, s>>]) = Cardinality(Counted(q, s, boot, Len(alerts))') + InFlight(q, s)'
    <3>1. Len(hist[<<q, s>>]) = Cardinality(Counted(q, s, boot, Len(alerts))) + InFlight(q, s)
      BY <2>2, <2>6 DEF BurstInv, WindowExact
    <3>2. /\ Cardinality(Counted(q, s, boot, Len(alerts))) \in Nat
          /\ Cardinality(Counted(q, s, boot, Len(alerts))') =
               Cardinality(Counted(q, s, boot, Len(alerts))) +
                 (IF q = r /\ s = ts \div SecondMs /\ "pass" # "suppressed_cooldown" THEN 1 ELSE 0)
      BY <1>0, <2>1, <2>2, LineCounted
    <3>3. InFlight(q, s) = (IF q = r /\ s = ts \div SecondMs THEN 1 ELSE 0) /\ InFlight(q, s)' = 0
      BY <2>2 DEF InFlight
    <3> QED BY <2>2, <3>1, <3>2, <3>3
  <2>7. WindowOfSecond' /\ WindowExact' /\ InFlightAllowed'
    BY <2>2, <2>6 DEF BurstInv, WindowOfSecond, WindowExact, InFlightAllowed
  <2> QED BY <1>0, <2>3, <2>5, <2>7 DEF BurstInv
<1>3. ASSUME NEW r \in Rules, GatePass(r)
      PROVE  BurstInv'
  <2>1. /\ UNCHANGED <<alerts, boot, ts>> /\ pc = "gates" /\ cur' = {r}
        /\ RecordDedup(r) /\ ~CoolingDown(r) /\ ~Coalesced(r)
    BY <1>3 DEF GatePass, GateOf, logVars
  <2>2. cur = {}
    BY <1>0, <2>1 DEF TypeOK
  <2>3. \A q, s, b, n : Counted(q, s, b, n)' = Counted(q, s, b, n)
    BY <2>1 DEF Counted
  <2>4. ASSUME NEW q \in Rules, NEW s \in 0..MaxClock
        PROVE  /\ \A k \in 1..Len(hist'[<<q, s>>]) : hist'[<<q, s>>][k] \div SecondMs = s
               /\ Level[q] # EMERGENCY =>
                    Len(hist'[<<q, s>>]) = Cardinality(Counted(q, s, boot, Len(alerts))) + InFlight(q, s)'
    <3>1. /\ Len(hist[<<q, s>>]) \in Nat
          /\ Len(hist'[<<q, s>>]) = Len(hist[<<q, s>>]) + Recorded(r, q, s)
          /\ \A k \in 1..Len(hist'[<<q, s>>]) : hist'[<<q, s>>][k] \div SecondMs = s
      BY <2>1, WindowMoves
    <3>2. ASSUME Level[q] # EMERGENCY
          PROVE  Len(hist'[<<q, s>>]) = Cardinality(Counted(q, s, boot, Len(alerts))) + InFlight(q, s)'
      <4>1. Len(hist[<<q, s>>]) = Cardinality(Counted(q, s, boot, Len(alerts))) + InFlight(q, s)
        BY <2>1, <3>2 DEF BurstInv, WindowExact
      <4>2. InFlight(q, s) = 0 /\ InFlight(q, s)' = Recorded(r, q, s)
        BY <2>1, <2>2, <3>2 DEF InFlight, Recorded
      <4>3. Cardinality(Counted(q, s, boot, Len(alerts))) \in Nat
        BY <1>0, CountType
      <4> QED BY <3>1, <4>1, <4>2, <4>3 DEF Recorded
    <3> QED BY <3>1, <3>2
  <2>5. InFlightAllowed'
    <3> SUFFICES ASSUME Level[r] # EMERGENCY
                 PROVE  Len(hist'[DedupKey(r)]) <= BurstThreshold
      BY <2>1 DEF InFlightAllowed, DedupKey
    <3>1. hist' = [hist EXCEPT ![DedupKey(r)] = BurstWith(r)]
      BY <2>1 DEF RecordDedup
    <3>2. hist'[DedupKey(r)] = BurstWith(r)
      BY <1>0, <3>1, DedupKeyInDomain DEF TypeOK
    <3>3. BurstWith(r) = Append(hist[DedupKey(r)], ts) /\ hist[DedupKey(r)] \in Seq(Nat) /\ ts \in Nat
      BY <1>0, WindowGrows, DedupKeyInDomain, ClockType DEF TypeOK
    <3>4. Len(BurstWith(r)) \in Nat
      BY <3>3, AppendProperties
    <3> QED BY <1>0, <2>1, <3>2, <3>4 DEF Coalesced
  <2>6. WindowExact' /\ WindowOfSecond'
    BY <2>1, <2>3, <2>4 DEF WindowExact, WindowOfSecond
  <2>7. BootsNotAhead' /\ BurstExact'
    BY <2>1, <2>3 DEF BurstInv, BootsNotAhead, BurstExact
  <2> QED BY <1>0, <2>5, <2>6, <2>7 DEF BurstInv
<1>4. CASE Quiet \/ \E r \in Rules, ok \in BOOLEAN : Deliver(r, ok)
  <2>1. /\ UNCHANGED <<alerts, boot, cur, hist>>
        /\ ts' = ts \/ cur = {}
        /\ pc' # "stopped" => pc # "stopped"
    BY <1>0, <1>4 DEF Quiet, Deliver, gateVars, TypeOK
  <2>2. \A q, s, b, n : Counted(q, s, b, n)' = Counted(q, s, b, n)
    BY <2>1 DEF Counted
  <2>3. \A q, s : InFlight(q, s)' = InFlight(q, s)
    BY <2>1 DEF InFlight
  <2>4. WindowExact'
    BY <2>1, <2>2, <2>3 DEF BurstInv, WindowExact
  <2>5. BurstExact' /\ WindowOfSecond' /\ BootsNotAhead'
    BY <2>1, <2>2 DEF BurstInv, BurstExact, WindowOfSecond, BootsNotAhead
  <2>6. InFlightAllowed'
    BY <2>1 DEF BurstInv, InFlightAllowed, DedupKey
  <2> QED BY <1>0, <2>4, <2>5, <2>6 DEF BurstInv
<1>5. CASE Restart
  <2>1. /\ alerts' = alerts /\ boot' = boot + 1 /\ cur' = {}
        /\ hist' = [k \in DedupKeys |-> <<>>]
    BY <1>5 DEF Restart
  <2>2. \A i \in 1..Len(alerts) : alerts[i].boot <= boot /\ alerts[i].boot \in Nat
    BY <1>0, LogEntryType DEF BurstInv, BootsNotAhead
  <2>3. BootsNotAhead' /\ InFlightAllowed'
    BY <1>0, <2>1, <2>2 DEF BootsNotAhead, InFlightAllowed
  <2>4. \A q \in Rules, s \in 0..MaxClock : hist'[<<q, s>>] = <<>>
    BY <2>1 DEF DedupKeys
  <2>5. WindowOfSecond'
    BY <2>4 DEF WindowOfSecond
  <2>6. BurstExact'
    BY <1>0, <2>1 DEF BurstExact, Counted
  <2>7. ASSUME NEW q \in Rules, NEW s \in 0..MaxClock
        PROVE  Len(hist'[<<q, s>>]) = Cardinality(Counted(q, s, boot, Len(alerts))') + InFlight(q, s)'
    <3>1. Counted(q, s, boot, Len(alerts))' = {} /\ InFlight(q, s)' = 0
      <4>1. Counted(q, s, boot + 1, Len(alerts)) = {}
        BY <1>0, <2>2 DEF Counted
      <4>2. Counted(q, s, boot, Len(alerts))' = Counted(q, s, boot + 1, Len(alerts))
        BY <2>1 DEF Counted
      <4> QED BY <2>1, <4>1, <4>2 DEF InFlight
    <3>2. Cardinality({}) = 0 /\ Len(<<>>) = 0
      BY FS_EmptySet
    <3> QED BY <2>4, <3>1, <3>2
  <2>8. WindowExact'
    BY <2>7 DEF WindowExact
  <2> QED BY <1>0, <2>3, <2>5, <2>6, <2>8 DEF BurstInv
<1> QED
  BY <1>0, <1>1, <1>2, <1>3, <1>4, <1>5, StepKinds

\* For every window of a second or more and every threshold: a verdict below
\* EMERGENCY that passed the cooldown is coalesced exactly if the threshold's number
\* of its rule passed before it in its process and second, over awaits, admin calls,
\* failed dispatches, stops and restarts (DedupGate.check_and_record).
THEOREM BurstsExact == Spec => []BurstExact
<1>1. Init => BurstInv
  <2> SUFFICES ASSUME Init
               PROVE  BurstInv
    OBVIOUS
  <2>1. TypeOK /\ BootsNotAhead /\ InFlightAllowed /\ BurstExact /\ alerts = <<>> /\ cur = {}
    BY InitType DEF Init, BootsNotAhead, InFlightAllowed, BurstExact
  <2>2. \A q \in Rules, s \in 0..MaxClock : hist[<<q, s>>] = <<>>
    BY DEF Init, DedupKeys
  <2>3. Cardinality({}) = 0 /\ Len(<<>>) = 0
    BY FS_EmptySet
  <2>4. ASSUME NEW q \in Rules, NEW s \in 0..MaxClock
        PROVE  Len(hist[<<q, s>>]) = Cardinality(Counted(q, s, boot, Len(alerts))) + InFlight(q, s)
    <3>1. Counted(q, s, boot, Len(alerts)) = {} /\ InFlight(q, s) = 0
      BY <2>1 DEF Counted, InFlight
    <3> QED BY <2>2, <2>3, <3>1
  <2>5. WindowOfSecond /\ WindowExact
    BY <2>2, <2>4 DEF WindowOfSecond, WindowExact
  <2> QED BY <2>1, <2>5 DEF BurstInv
<1>2. BurstInv => BurstExact
  BY DEF BurstInv
<1> QED
  BY <1>1, <1>2, StepBurst, PTL DEF Spec

-------------------------------------------------------------------------------
(* The coordinator implements AlertLog: every step is one of the log's or  *)
(* leaves it alone.                                                        *)

\* The verdict past the gates belongs before all that are left of its frame:
\* without this a verdict whose dispatch is awaited might be overtaken in the log.
InFlightFirst ==
    pc # "stopped" => \A r \in cur : r \notin todo /\ \A q \in todo : Before(r, q)

RefInv == TypeOK /\ InFlightFirst

LEMMA StepInFlight == RefInv /\ [Next]_vars => RefInv'
<1> SUFFICES ASSUME RefInv, [Next]_vars
             PROVE  RefInv'
  OBVIOUS
<1>0. TypeOK /\ TypeOK' /\ InFlightFirst
  BY StepType DEF RefInv
<1> USE DEF loopVars, gateVars, muteVars, logVars
<1>1. CASE /\ cur' = cur /\ todo' = todo
           /\ pc = "stopped" => pc' = "stopped"
  BY <1>0, <1>1 DEF RefInv, InFlightFirst, Before
<1>2. CASE cur' = {}
  BY <1>0, <1>2 DEF RefInv, InFlightFirst
<1>3. ASSUME NEW r \in Rules, GateAndWrite(r)
      PROVE  RefInv'
  <2>1. cur' = {}
    BY <1>0, <1>3 DEF GateAndWrite, TypeOK
  <2> QED BY <1>2, <2>1
<1>4. ASSUME NEW r \in Rules, GatePass(r)
      PROVE  RefInv'
  <2>1. cur' = {r} /\ todo' = todo \ {r} /\ \A q \in todo \ {r} : Before(r, q)
    BY <1>4 DEF GatePass, IsNext
  <2> QED BY <1>0, <2>1 DEF RefInv, InFlightFirst, Before
<1>5. ASSUME NEW batch \in SUBSET Rules, StartBatch(batch)
      PROVE  RefInv'
  BY <1>2, <1>5 DEF StartBatch
<1>6. ASSUME NEW r \in Rules, WriteDispatched(r)
      PROVE  RefInv'
  BY <1>2, <1>6 DEF WriteDispatched
<1>7. ASSUME NEW r \in Rules, NEW ok \in BOOLEAN, Deliver(r, ok)
      PROVE  RefInv'
  BY <1>1, <1>7 DEF Deliver
<1>8. ASSUME NEW req \in DockMuteRequests, SetDockMute(req)
      PROVE  RefInv'
  BY <1>1, <1>8 DEF SetDockMute
<1>9. ASSUME NEW req \in GlobalMuteRequests, SetGlobalMute(req)
      PROVE  RefInv'
  BY <1>1, <1>9 DEF SetGlobalMute
<1>10. CASE Tick \/ PopExpired \/ EndBatch \/ Stop \/ Restart \/ UNCHANGED vars
  BY <1>1, <1>2, <1>10 DEF Tick, PopExpired, EndBatch, Stop, Restart, vars
<1> QED
  BY <1>3, <1>4, <1>5, <1>6, <1>7, <1>8, <1>9, <1>10 DEF Next, Loop, Admin

\* The gates hold a verdict back for a reason the log allows.
LEMMA HeldAsPromised ==
    ASSUME TypeOK, NEW r \in Rules
    PROVE  GateOf(r) \in AuditLog!Holds(r) \cup {"pass"}
<1>1. CASE Level[r] # EMERGENCY
  BY <1>1 DEF GateOf, AuditLog!Holds, EMERGENCY, AuditLog!EMERGENCY
<1>2. CASE Level[r] = EMERGENCY
  BY <1>2, EmergencyOnlyCools DEF AuditLog!Holds
<1> QED BY <1>1, <1>2

\* The line the coordinator writes is the one the log is owed.
LEMMA RecordIsLine ==
    ASSUME RefInv, NEW r \in Rules, NEW gate \in Gates, NEW sent \in BOOLEAN,
           gate \in AuditLog!Holds(r) \cup {"pass"}, sent => gate = "pass",
           pc \notin {"idle", "stopped"}, pc' \notin {"idle", "stopped"},
           r \in todo \cup cur, \A q \in (todo \cup cur) \ {r} : Before(r, q),
           todo' \cup cur' = (todo \cup cur) \ {r},
           WriteRecord(Record(r, gate, sent)),
           UNCHANGED <<boot, ts, frames>>
    PROVE  AuditLog!Next
<1>1. AuditLog!Log(r, gate, sent)
  BY DEF AuditLog!Log, AuditLog!Before, Before, WriteRecord, Record
<1>2. gate \in AuditLog!Gates
  BY DEF Gates, AuditLog!Gates
<1> QED BY <1>1, <1>2 DEF AuditLog!Next

LEMMA StepImplements == RefInv /\ RefInv' /\ [Next]_vars => [AuditLog!Next]_AuditLog!vars
<1> SUFFICES ASSUME RefInv, RefInv', [Next]_vars
             PROVE  [AuditLog!Next]_AuditLog!vars
  OBVIOUS
<1>0. TypeOK /\ TypeOK' /\ InFlightFirst
  BY DEF RefInv
<1> USE DEF loopVars, gateVars, muteVars, logVars
<1>1. ASSUME UNCHANGED <<boot, ts, out, alerts, panel, frames>>,
             todo' \cup cur' = todo \cup cur,
             pc = "stopped" <=> pc' = "stopped", pc = "idle" <=> pc' = "idle"
      PROVE  UNCHANGED AuditLog!vars
  BY <1>1 DEF AuditLog!vars
<1>2. ASSUME NEW batch \in SUBSET Rules, StartBatch(batch)
      PROVE  AuditLog!Next
  <2>1. Len(frames') = Len(frames) + 1
    BY <1>0, <1>2, AppendProperties DEF StartBatch, TypeOK, Frame
  <2>2. ts' \in Nat
    BY <1>0, ParamsAssumption DEF TypeOK
  <2>3. AuditLog!Begin(batch)
    BY <1>2, <2>1, <2>2 DEF StartBatch, AuditLog!Begin
  <2> QED BY <2>3 DEF AuditLog!Next
<1>3. ASSUME NEW r \in Rules, GateAndWrite(r)
      PROVE  AuditLog!Next
  <2>1. /\ pc = "gates" /\ pc' = pc /\ cur' = cur /\ todo' = todo \ {r} /\ IsNext(r)
        /\ WriteRecord(Record(r, GateOf(r), FALSE)) /\ UNCHANGED <<boot, ts, frames>>
    BY <1>3 DEF GateAndWrite
  <2>2. cur = {}
    BY <1>0, <2>1 DEF TypeOK
  <2>3. GateOf(r) \in Gates /\ GateOf(r) \in AuditLog!Holds(r) \cup {"pass"}
    BY <1>0, GateType, HeldAsPromised
  <2> HIDE DEF WriteRecord, Record, Before
  <2>4. r \in todo \cup cur /\ \A q \in (todo \cup cur) \ {r} : Before(r, q)
    BY <2>1, <2>2 DEF IsNext
  <2>5. todo' \cup cur' = (todo \cup cur) \ {r}
    BY <2>1, <2>2
  <2> QED BY <2>1, <2>3, <2>4, <2>5, RecordIsLine
<1>4. ASSUME NEW r \in Rules, GatePass(r)
      PROVE  UNCHANGED AuditLog!vars
  <2>1. cur = {} /\ r \in todo
    BY <1>0, <1>4 DEF GatePass, IsNext, TypeOK
  <2>2. todo' \cup cur' = todo \cup cur
    BY <1>4, <2>1 DEF GatePass
  <2> QED BY <1>1, <1>4, <2>2 DEF GatePass
<1>5. ASSUME NEW r \in Rules, WriteDispatched(r)
      PROVE  AuditLog!Next
  <2>1. /\ pc = "write" /\ pc' = "gates" /\ cur' = {} /\ todo' = todo /\ r \in cur
        /\ WriteRecord(Record(r, "pass", WasSent(r))) /\ UNCHANGED <<boot, ts, frames>>
    BY <1>5 DEF WriteDispatched
  <2>2. cur = {r} /\ r \notin todo /\ \A q \in todo : Before(r, q)
    BY <1>0, <2>1 DEF TypeOK, InFlightFirst
  <2>3. "pass" \in Gates /\ WasSent(r) \in BOOLEAN
    BY DEF Gates, WasSent
  <2> DEFINE sent == WasSent(r)
  <2> HIDE DEF sent
  <2>4. WriteRecord(Record(r, "pass", sent)) /\ sent \in BOOLEAN
    BY <2>1, <2>3 DEF sent
  <2>5. todo' \cup cur' = (todo \cup cur) \ {r}
    BY <2>1, <2>2
  <2>6. r \in todo \cup cur /\ \A q \in (todo \cup cur) \ {r} : Before(r, q)
    BY <2>2
  <2> QED BY <2>1, <2>3, <2>4, <2>5, <2>6, RecordIsLine
<1>6. CASE PopExpired
  BY <1>1, <1>6 DEF PopExpired
<1>7. ASSUME NEW r \in Rules, NEW ok \in BOOLEAN, Deliver(r, ok)
      PROVE  UNCHANGED AuditLog!vars
  BY <1>1, <1>7 DEF Deliver
<1>8. CASE EndBatch
  <2>1. cur = {}
    BY <1>0, <1>8 DEF EndBatch, TypeOK
  <2>2. AuditLog!Publish
    BY <1>8, <2>1 DEF EndBatch, AuditLog!Publish
  <2> QED BY <2>2 DEF AuditLog!Next
<1>9. ASSUME NEW req \in DockMuteRequests, SetDockMute(req)
      PROVE  UNCHANGED AuditLog!vars
  BY <1>1, <1>9 DEF SetDockMute
<1>10. ASSUME NEW req \in GlobalMuteRequests, SetGlobalMute(req)
       PROVE  UNCHANGED AuditLog!vars
  BY <1>1, <1>10 DEF SetGlobalMute
<1>11. CASE Stop
  <2>1. AuditLog!Stop
    BY <1>11 DEF Stop, AuditLog!Stop
  <2> QED BY <2>1 DEF AuditLog!Next
<1>12. CASE Restart
  <2>1. AuditLog!Restart
    BY <1>12 DEF Restart, AuditLog!Restart
  <2> QED BY <2>1 DEF AuditLog!Next
<1>13. CASE Tick
  BY <1>1, <1>13 DEF Tick
<1>14. CASE UNCHANGED vars
  BY <1>1, <1>14 DEF vars
<1> QED
  BY <1>2, <1>3, <1>4, <1>5, <1>6, <1>7, <1>8, <1>9, <1>10, <1>11, <1>12, <1>13, <1>14
     DEF Next, Loop, Admin

\* alerts.jsonl and the panel keep the promise of AlertLog: one line per verdict,
\* the severest first, EMERGENCY never muted, a frame's lines published together.
THEOREM CoordinatorImplementsLog == Spec => ImplementsLog
<1>1. Init => RefInv /\ AuditLog!Init
  <2>1. Init => RefInv
    BY InitType DEF Init, RefInv, InFlightFirst
  <2>2. Init => AuditLog!Init
    BY DEF Init, AuditLog!Init
  <2> QED BY <2>1, <2>2
<1> QED
  BY <1>1, StepInFlight, StepImplements, PTL DEF Spec, ImplementsLog, AuditLog!Spec

Reader == INSTANCE AlertLogProofs WITH
    up <- pc # "stopped",
    busy <- pc \notin {"idle", "stopped"},
    frame <- Len(frames),
    now <- ts,
    owed <- todo \cup cur,
    lines <- alerts,
    fresh <- out,
    shown <- panel

\* The order of alerts.jsonl, carried over from AlertLog to the coordinator.
THEOREM AuditOrdered == Spec => []AuditLog!Ordered
<1>1. AuditLog!Init => Reader!Init
  BY DEF AuditLog!Init, Reader!Init
<1>2. [AuditLog!Next]_AuditLog!vars => [Reader!Next]_Reader!vars
  <2>1. AuditLog!Next => Reader!Next
    BY DEF AuditLog!Next, AuditLog!Begin, AuditLog!Log, AuditLog!Publish, AuditLog!Stop, AuditLog!Restart,
           AuditLog!Gates, AuditLog!Holds, AuditLog!Before, AuditLog!EMERGENCY,
           Reader!Next, Reader!Begin, Reader!Log, Reader!Publish, Reader!Stop, Reader!Restart,
           Reader!Gates, Reader!Holds, Reader!Before, Reader!EMERGENCY
  <2>2. UNCHANGED AuditLog!vars => UNCHANGED Reader!vars
    BY DEF AuditLog!vars, Reader!vars
  <2> QED BY <2>1, <2>2
<1>3. Reader!Ordered => AuditLog!Ordered
  BY DEF AuditLog!Ordered, Reader!Ordered, AuditLog!Before, Reader!Before
<1> QED
  BY <1>1, <1>2, <1>3, CoordinatorImplementsLog, Reader!LogOrdered, PTL
     DEF ImplementsLog, AuditLog!Spec, Reader!Spec
===============================================================================
