--------------------------- MODULE AlertCoordinator ---------------------------
(***************************************************************************)
(* AlertCoordinator: the three gates (cooldown, dedup, mute) every verdict *)
(* of a frame passes, the awaited dispatch of the ones that survive, the   *)
(* append-only audit log alerts.jsonl, and the admin thread that changes   *)
(* the mutes while a frame is being handled.                               *)
(*                                                                         *)
(* One coordinator serves one dock, so the (dock, code) key of the         *)
(* cooldown is the code.  Rules are numbers in the order evaluate() lists  *)
(* their verdicts; codes are numbers in lexicographic order; severities    *)
(* are the values of types.Severity.  Time is a clock in ticks.            *)
(***************************************************************************)
EXTENDS Integers, Sequences, FiniteSets

CONSTANTS
    Rules,            \* rule ids
    Level,            \* Level[r]: severity of the verdicts of rule r
    Code,             \* Code[r]: alert code of rule r; rules may share one
    Override,         \* Override[r]: rule.cooldown_ms, or NoOverride
    DefaultCooldown,  \* coordinator.default_cooldown_ms
    EmergencyFloor,   \* coordinator.emergency_floor_cooldown_ms
    DedupWindow,      \* coordinator.dedup_window_ms
    BurstThreshold,   \* coordinator.dedup_burst_threshold
    SecondMs,         \* ticks per second: dedup keys hold the second of the frame
    WithBus,          \* a NotificationBus is attached (live with DingTalk)
    DockMuteRequests, \* bodies POST /admin/mute/{dock_sn} may carry
    GlobalMuteRequests, \* bodies POST /admin/global_mute may carry
    MaxClock,         \* bound: last tick
    MaxFrames,        \* bound: frames whose evaluation yields verdicts
    MaxBoots          \* bound: starts of the process

EMERGENCY == 5
Severity == 1..EMERGENCY
NoOverride == -1
NotFired == -1
Codes == {Code[r] : r \in Rules}

DockMuteRequest == [enabled : BOOLEAN, min : Severity, duration : Nat]
GlobalMuteRequest == [enabled : BOOLEAN, min : Severity]

ASSUME RulesAssumption ==
    /\ Rules \subseteq Nat
    /\ IsFiniteSet(Rules)
    /\ Level \in [Rules -> Severity]
    /\ Code \in [Rules -> Nat]
    /\ Override \in [Rules -> Nat \cup {NoOverride}]

ASSUME ParamsAssumption ==
    /\ DefaultCooldown \in Nat
    /\ EmergencyFloor \in Nat
    /\ SecondMs \in Nat \ {0}
    /\ DedupWindow \in Nat
    /\ DedupWindow >= SecondMs      \* dedup_window_ms has ge=1000
    /\ BurstThreshold \in Nat \ {0}
    /\ WithBus \in BOOLEAN
    /\ DockMuteRequests \subseteq DockMuteRequest
    /\ GlobalMuteRequests \subseteq GlobalMuteRequest
    /\ MaxClock \in Nat \ {0} /\ MaxFrames \in Nat /\ MaxBoots \in Nat

VARIABLES
    clock,       \* time.time() in ticks
    boot,        \* number of the running (or last) process
    pc,          \* where the live loop stands
    ts,          \* recv_ts_ms of the frame in hand
    todo,        \* rules whose verdicts of this frame are not handled yet
    cur,         \* rule whose verdict is past the gates, {} when none
    out,         \* the list handle_batch_async builds for this frame
    lastFired,   \* CooldownGate._last_fired
    hist,        \* DedupGate._history
    dockMute,    \* MuteState._dock_mutes[dock_sn]
    globalMute,  \* MuteState._global_mute
    alerts,      \* lines of alerts.jsonl
    delivered,   \* alerts a channel accepted (outside the process)
    panel,       \* alerts published to the SSE panel
    frames       \* history: the verdict batch and the process of each frame

loopVars == <<pc, ts, todo, cur, out>>
gateVars == <<lastFired, hist>>
muteVars == <<dockMute, globalMute>>
logVars == <<alerts, delivered, panel>>
vars == <<clock, boot, loopVars, gateVars, muteVars, logVars, frames>>

-----------------------------------------------------------------------------
(* Gates.                                                                  *)

\* A verdict is identified by its rule and its frame.
DedupKeys == Rules \X (0..MaxClock)
DedupKey(r) == <<r, ts \div SecondMs>>

CooldownOf(r) ==
    IF Level[r] = EMERGENCY THEN EmergencyFloor
    ELSE IF Override[r] # NoOverride THEN Override[r]
    ELSE DefaultCooldown

\* Fault: a cooldown of 0 counts as none given.
CoolingDownZeroIsUnset(r) ==
    /\ lastFired[Code[r]] # NotFired
    /\ ts - lastFired[Code[r]] < IF CooldownOf(r) = 0 THEN DefaultCooldown ELSE CooldownOf(r)

CoolingDown(r) ==
    /\ lastFired[Code[r]] # NotFired
    /\ ts - lastFired[Code[r]] < CooldownOf(r)

\* popleft() while the head is before the window: the longest stale prefix goes.
DropStale(h, cutoff) ==
    LET stale == {i \in 1..Len(h) : \A j \in 1..i : h[j] < cutoff}
    IN  SubSeq(h, Cardinality(stale) + 1, Len(h))

BurstWith(r) == Append(DropStale(hist[DedupKey(r)], ts - DedupWindow), ts)
\* Fault: the alert that reaches the threshold is held back as well.
CoalescedEarly(r) == Level[r] # EMERGENCY /\ Len(BurstWith(r)) >= BurstThreshold

Coalesced(r) == Level[r] # EMERGENCY /\ Len(BurstWith(r)) > BurstThreshold

NoMute == [enabled |-> FALSE, min |-> 1, expires |-> 0, set |-> FALSE]
Mute == [enabled : BOOLEAN, min : Severity, expires : Nat, set : BOOLEAN]

\* Fault: the minimum severity is itself silenced.
MutedGlobalInclusive(r) == globalMute.set /\ globalMute.enabled /\ Level[r] <= globalMute.min

MutedGlobal(r) == globalMute.set /\ globalMute.enabled /\ Level[r] < globalMute.min
DockMuteExpired == dockMute.expires # 0 /\ ts >= dockMute.expires
DockMuteActive == dockMute.set /\ dockMute.enabled
MutedDock(r) == DockMuteActive /\ ~DockMuteExpired /\ Level[r] < dockMute.min

Gates == {"pass", "suppressed_cooldown", "coalesced", "muted_global", "muted_dock"}

\* The first gate that holds the verdict back.
GateOf(r) ==
    IF CoolingDown(r) THEN "suppressed_cooldown"
    ELSE IF Coalesced(r) THEN "coalesced"
    ELSE IF MutedGlobal(r) THEN "muted_global"
    ELSE IF MutedDock(r) THEN "muted_dock"
    ELSE "pass"

Record(r, gate, sent) ==
    [rule |-> r, ts |-> ts, frame |-> Len(frames), boot |-> boot,
     gate |-> gate, sent |-> sent]

AlertRecord ==
    [rule : Rules, ts : Nat, frame : Nat, boot : Nat, gate : Gates, sent : BOOLEAN]

\* sorted(key = (-level, code)), stable in the order the verdicts were listed.
Before(r, q) ==
    \/ Level[r] > Level[q]
    \/ Level[r] = Level[q] /\ Code[r] < Code[q]
    \/ Level[r] = Level[q] /\ Code[r] = Code[q] /\ r < q

IsNext(r) == r \in todo /\ \A q \in todo \ {r} : Before(r, q)

-----------------------------------------------------------------------------
Init ==
    /\ clock = 1 /\ boot = 1
    /\ pc = "idle" /\ ts = 0 /\ todo = {} /\ cur = {} /\ out = <<>>
    /\ lastFired = [c \in Codes |-> NotFired]
    /\ hist = [k \in DedupKeys |-> <<>>]
    /\ dockMute = NoMute /\ globalMute = NoMute
    /\ alerts = <<>> /\ delivered = <<>> /\ panel = <<>>
    /\ frames = <<>>

Tick ==
    /\ clock < MaxClock
    /\ clock' = clock + 1
    /\ UNCHANGED <<boot, loopVars, gateVars, muteVars, logVars, frames>>

\* A frame is evaluated and yields verdicts: handle_batch_async starts.
StartBatch(batch) ==
    /\ pc = "idle"
    /\ batch # {}
    /\ Len(frames) < MaxFrames
    /\ pc' = "gates"
    /\ ts' = clock
    /\ todo' = batch
    /\ cur' = {}
    /\ out' = <<>>
    /\ frames' = Append(frames, [batch |-> batch, boot |-> boot])
    /\ UNCHANGED <<clock, boot, gateVars, muteVars, logVars>>

WriteRecord(rec) ==
    /\ alerts' = Append(alerts, rec)
    /\ out' = Append(out, rec)
    /\ UNCHANGED <<delivered, panel>>

\* Fault: only the first firing of a code is remembered.
RecordCooldownOnce(r) ==
    lastFired' = IF lastFired[Code[r]] # NotFired THEN lastFired
                 ELSE [lastFired EXCEPT ![Code[r]] = ts]

RecordCooldown(r) ==
    lastFired' = IF CoolingDown(r) THEN lastFired ELSE [lastFired EXCEPT ![Code[r]] = ts]

RecordDedup(r) ==
    hist' = IF CoolingDown(r) \/ Level[r] = EMERGENCY THEN hist
            ELSE [hist EXCEPT ![DedupKey(r)] = BurstWith(r)]

\* _run_gates holds the verdict back, or lets it through with no bus attached:
\* the record is written in the same synchronous stretch.
GateAndWrite(r) ==
    /\ pc = "gates" /\ IsNext(r)
    /\ \/ GateOf(r) # "pass"
       \/ ~WithBus /\ ~(DockMuteActive /\ DockMuteExpired)
    /\ RecordCooldown(r) /\ RecordDedup(r)
    /\ todo' = todo \ {r}
    /\ WriteRecord(Record(r, GateOf(r), FALSE))
    /\ UNCHANGED <<clock, boot, pc, ts, cur, muteVars, frames>>

\* The verdict passes.  When the dock mute that was read has expired, it is
\* popped in a step of its own: the admin thread may run in between.
GatePass(r) ==
    /\ pc = "gates" /\ IsNext(r)
    /\ GateOf(r) = "pass"
    /\ WithBus \/ (DockMuteActive /\ DockMuteExpired)
    /\ RecordCooldown(r) /\ RecordDedup(r)
    /\ todo' = todo \ {r}
    /\ cur' = {r}
    /\ pc' = IF DockMuteActive /\ DockMuteExpired THEN "pop" ELSE "dispatch"
    /\ UNCHANGED <<clock, boot, ts, out, muteVars, logVars, frames>>

\* self._dock_mutes.pop(dock_sn, None): whatever entry is there goes.
PopExpired ==
    /\ pc = "pop"
    /\ dockMute' = NoMute
    /\ pc' = IF WithBus THEN "dispatch" ELSE "write"
    /\ UNCHANGED <<clock, boot, ts, todo, cur, out, gateVars, globalMute, logVars, frames>>

\* The awaited dispatch: a channel accepts the alert, or every channel fails.
Deliver(r, ok) ==
    /\ pc = "dispatch" /\ r \in cur
    /\ pc' = "write"
    /\ delivered' = IF ok THEN Append(delivered, Record(r, "pass", TRUE)) ELSE delivered
    /\ UNCHANGED <<clock, boot, ts, todo, cur, out, gateVars, muteVars, alerts, panel, frames>>

\* Fault: the channel result does not reach the record.
WasSentForgotten(r) == r \in {}

WasSent(r) == \E i \in DOMAIN delivered :
    delivered[i].rule = r /\ delivered[i].frame = Len(frames)

\* Fault: the verdict stays in hand after its record is written.
WriteDispatchedKeepsCur(r) ==
    /\ pc = "write" /\ r \in cur
    /\ pc' = "gates"
    /\ WriteRecord(Record(r, "pass", WasSent(r)))
    /\ UNCHANGED <<clock, boot, ts, todo, cur, gateVars, muteVars, frames>>

\* Fault: an alert no channel accepted leaves no line.
WriteDispatchedIfSent(r) ==
    /\ pc = "write" /\ r \in cur
    /\ pc' = "gates"
    /\ cur' = {}
    /\ IF WasSent(r) THEN WriteRecord(Record(r, "pass", TRUE))
       ELSE UNCHANGED <<alerts, out, delivered, panel>>
    /\ UNCHANGED <<clock, boot, ts, todo, gateVars, muteVars, frames>>

\* dispatch returned: sink.write(record), out.append(record), next verdict.
WriteDispatched(r) ==
    /\ pc = "write" /\ r \in cur
    /\ pc' = "gates"
    /\ cur' = {}
    /\ WriteRecord(Record(r, "pass", WasSent(r)))
    /\ UNCHANGED <<clock, boot, ts, todo, gateVars, muteVars, frames>>

\* Fault: the batch waits for every alert of it to have been accepted.
EndBatchAllSent ==
    /\ pc = "gates" /\ todo = {}
    /\ \A i \in 1..Len(out) : out[i].gate = "pass" => out[i].sent
    /\ pc' = "idle"
    /\ panel' = panel \o out
    /\ out' = <<>>
    /\ UNCHANGED <<clock, boot, ts, todo, cur, gateVars, muteVars, alerts, delivered, frames>>

\* handle_batch_async returned: the whole list goes to the SSE panel.
EndBatch ==
    /\ pc = "gates" /\ todo = {}
    /\ pc' = "idle"
    /\ panel' = panel \o out
    /\ out' = <<>>
    /\ UNCHANGED <<clock, boot, ts, todo, cur, gateVars, muteVars, alerts, delivered, frames>>

-----------------------------------------------------------------------------
(* The admin thread (sync endpoints run in the thread pool).               *)

SetDockMute(req) ==
    /\ pc # "stopped"
    /\ dockMute' = [enabled |-> req.enabled, min |-> req.min, set |-> TRUE,
                    expires |-> IF req.duration = 0 THEN 0 ELSE clock + req.duration]
    /\ UNCHANGED <<clock, boot, loopVars, gateVars, globalMute, logVars, frames>>

SetGlobalMute(req) ==
    /\ pc # "stopped"
    /\ globalMute' = [enabled |-> req.enabled, min |-> req.min, set |-> TRUE, expires |-> 0]
    /\ UNCHANGED <<clock, boot, loopVars, gateVars, dockMute, logVars, frames>>

-----------------------------------------------------------------------------
(* Process life: SIGTERM / Ctrl-C can end the loop at any point, an await  *)
(* included; the next process appends to the same alerts.jsonl.            *)

Stop ==
    /\ pc # "stopped"
    /\ pc' = "stopped"
    /\ UNCHANGED <<clock, boot, ts, todo, cur, out, gateVars, muteVars, logVars, frames>>

Restart ==
    /\ pc = "stopped"
    /\ boot < MaxBoots
    /\ boot' = boot + 1
    /\ pc' = "idle" /\ ts' = 0 /\ todo' = {} /\ cur' = {} /\ out' = <<>>
    /\ lastFired' = [c \in Codes |-> NotFired]
    /\ hist' = [k \in DedupKeys |-> <<>>]
    /\ dockMute' = NoMute /\ globalMute' = NoMute
    /\ panel' = <<>>
    /\ UNCHANGED <<clock, alerts, delivered, frames>>

Loop ==
    \/ \E r \in Rules : GateAndWrite(r) \/ GatePass(r) \/ WriteDispatched(r)
    \/ PopExpired
    \/ \E r \in Rules, ok \in BOOLEAN : Deliver(r, ok)
    \/ EndBatch

Admin ==
    \/ \E req \in DockMuteRequests : SetDockMute(req)
    \/ \E req \in GlobalMuteRequests : SetGlobalMute(req)

Next ==
    \/ Tick
    \/ \E batch \in SUBSET Rules : StartBatch(batch)
    \/ Loop
    \/ Admin
    \/ Stop
    \/ Restart

Spec == Init /\ [][Next]_vars

\* The loop keeps running until it is stopped: no handler step blocks but the
\* dispatch, and the channels' HTTP timeouts end that one.
FairSpec == Spec /\ WF_vars(Loop)

-----------------------------------------------------------------------------
(* Properties.                                                             *)

Frame == [batch : SUBSET Rules, boot : Nat]

\* Every variable holds a value of its type, and a verdict is in flight exactly
\* while the running process pops, dispatches or writes.
TypeOK ==
    /\ clock \in 1..MaxClock /\ boot \in Nat \ {0}
    /\ pc \in {"idle", "gates", "pop", "dispatch", "write", "stopped"}
    /\ ts \in 0..MaxClock
    /\ todo \subseteq Rules
    /\ cur \in {{}} \cup {{r} : r \in Rules}
    /\ pc # "stopped" => (cur # {} <=> pc \in {"pop", "dispatch", "write"})
    /\ out \in Seq(AlertRecord)
    /\ lastFired \in [Codes -> Nat \cup {NotFired}]
    /\ hist \in [DedupKeys -> Seq(Nat)]
    /\ dockMute \in Mute
    /\ globalMute \in Mute
    /\ alerts \in Seq(AlertRecord)
    /\ delivered \in Seq(AlertRecord)
    /\ panel \in Seq(AlertRecord)
    /\ frames \in Seq(Frame)

PassedCooldown(rec) == rec.gate # "suppressed_cooldown"

\* Two verdicts of one code that pass the cooldown gate in one process are at
\* least the cooldown of the later one apart, whatever their rules and levels,
\* however the awaits and the mutes interleave (CooldownGate.check_and_record).
CooldownSpacing ==
    \A i, j \in 1..Len(alerts) :
        (/\ i < j
         /\ alerts[i].boot = alerts[j].boot
         /\ Code[alerts[i].rule] = Code[alerts[j].rule]
         /\ PassedCooldown(alerts[i])
         /\ PassedCooldown(alerts[j]))
        => alerts[j].ts - alerts[i].ts >= CooldownOf(alerts[j].rule)

\* The inductive strengthening of CooldownSpacing: the table is never behind the
\* log of the running process, and the verdict in flight is the one that moved it.
TableCoversLog ==
    \A i \in 1..Len(alerts) :
        /\ alerts[i].boot <= boot
        /\ alerts[i].boot = boot /\ PassedCooldown(alerts[i]) =>
             /\ lastFired[Code[alerts[i].rule]] # NotFired
             /\ lastFired[Code[alerts[i].rule]] >= alerts[i].ts

InFlightSpaced ==
    pc # "stopped" => \A r \in cur :
        /\ lastFired[Code[r]] = ts
        /\ \A i \in 1..Len(alerts) :
             (/\ alerts[i].boot = boot
              /\ Code[alerts[i].rule] = Code[r]
              /\ PassedCooldown(alerts[i]))
             => ts - alerts[i].ts >= CooldownOf(r)

SpacingInv == TypeOK /\ TableCoversLog /\ InFlightSpaced /\ CooldownSpacing

\* A verdict held back by the cooldown has, in the log before it, a verdict of
\* its code that passed the gate within its cooldown: nothing is silenced by a
\* stale or foreign entry of _last_fired.
SuppressionHasCause ==
    \A j \in 1..Len(alerts) : alerts[j].gate = "suppressed_cooldown" =>
        \E i \in 1..(j - 1) :
            /\ alerts[i].boot = alerts[j].boot
            /\ Code[alerts[i].rule] = Code[alerts[j].rule]
            /\ PassedCooldown(alerts[i])
            /\ alerts[j].ts - alerts[i].ts < CooldownOf(alerts[j].rule)

\* Of the first n lines, those of one rule, second and process that passed the
\* cooldown gate.
Counted(r, s, b, n) ==
    {i \in 1..n :
        /\ alerts[i].boot = b /\ alerts[i].rule = r
        /\ alerts[i].ts \div SecondMs = s
        /\ PassedCooldown(alerts[i])}

\* A verdict below EMERGENCY that passed the cooldown is coalesced exactly if
\* BurstThreshold verdicts of its rule passed it before, in its process and in its
\* second: none more gets through, none fewer, none is forgotten or counted twice
\* over awaits and restarts, and the window drops nothing that still counts
\* (DedupGate.check_and_record with the key of engine.py:211, which ends in the
\* second).  alert_levels.yaml:27-28 describes another burst, of at least the threshold
\* in 60 s: README, section 4.
BurstExact ==
    \A j \in 1..Len(alerts) :
        Level[alerts[j].rule] # EMERGENCY /\ PassedCooldown(alerts[j]) =>
            (alerts[j].gate = "coalesced" <=>
               Cardinality(Counted(alerts[j].rule, alerts[j].ts \div SecondMs, alerts[j].boot, j - 1))
                 >= BurstThreshold)

Unaudited(d) ==
    ~\E i \in 1..Len(alerts) :
        alerts[i].frame = d.frame /\ alerts[i].rule = d.rule /\ alerts[i].sent

\* An alert a channel accepted is in alerts.jsonl as sent, except at most one per
\* process: the one whose record a stop cut off between the await and the write.
DeliveredAudited ==
    \A i, j \in 1..Len(delivered) :
        /\ Unaudited(delivered[i]) /\ Unaudited(delivered[j])
        /\ delivered[i].boot = delivered[j].boot
        => i = j

\* No mute, global or per dock, holds an EMERGENCY back: its record is held only
\* by the cooldown, and then an EMERGENCY of its code was let through within the
\* floor (config.py: emergency_floor_cooldown_ms).  Codes are not shared between
\* levels in the shipped rules.  admin.py:13-14 promises this of the default global
\* mute and the opposite of the default dock mute: README, section 4.
EmergencyGetsThrough ==
    \A j \in 1..Len(alerts) : Level[alerts[j].rule] = EMERGENCY =>
        \/ alerts[j].gate = "pass"
        \/ \E i \in 1..(j - 1) :
              /\ alerts[i].boot = alerts[j].boot
              /\ Code[alerts[i].rule] = Code[alerts[j].rule]
              /\ alerts[i].gate = "pass"
              /\ alerts[j].ts - alerts[i].ts < EmergencyFloor

\* The audit log and the panel keep the promise of AlertLog: a verdict in hand is
\* still owed its line, the list being built is what the panel lacks.
AuditLog == INSTANCE AlertLog WITH
    up <- pc # "stopped",
    busy <- pc \notin {"idle", "stopped"},
    frame <- Len(frames),
    now <- ts,
    owed <- todo \cup cur,
    lines <- alerts,
    fresh <- out,
    shown <- panel

\* Every verdict of a frame that no stop cuts short gets exactly one line, in
\* severity order, across awaits, admin calls, failed dispatches and restarts; a
\* line says "sent" only of a verdict that passed; EMERGENCY is neither coalesced
\* nor muted; and the panel gets the lines of a frame all at once, in their order
\* (handle_batch_async, JsonlAlertSink.write, _run_live).
ImplementsLog == AuditLog!Spec

\* A dock mute set without a duration stays until an admin replaces it or the
\* process ends (mute.py:19 "0 = permanent").
PermanentMuteStays ==
    [][(dockMute.set /\ dockMute.enabled /\ dockMute.expires = 0 /\ boot' = boot)
        => dockMute'.set]_vars

\* A frame whose handling has begun is handled to its end unless the process is
\* stopped: no gate, await or pop leaves the loop waiting for ever.
FrameCompletes == pc = "gates" ~> pc \in {"idle", "stopped"}
=============================================================================
