-------------------------------- MODULE AlertLog --------------------------------
(***************************************************************************)
(* What a reader of alerts.jsonl and of the alert panel is promised,       *)
(* whatever the gates decide, however long a dispatch takes and wherever   *)
(* the process is stopped: every verdict of a frame gets one line, the     *)
(* severest first, and the lines of a frame reach the panel together.      *)
(* AlertCoordinator implements this specification.                         *)
(***************************************************************************)
EXTENDS Integers, Sequences

CONSTANTS
    Rules, Level, Code   \* as in AlertCoordinator

EMERGENCY == 5

VARIABLES
    boot,   \* number of the running (or last) process
    up,     \* it runs
    busy,   \* it handles a frame
    frame,  \* number of the frame in hand, or of the last one
    now,    \* its timestamp
    owed,   \* rules whose verdicts of the frame have no line yet
    lines,  \* alerts.jsonl
    fresh,  \* lines of the frame that the panel does not have yet
    shown   \* alerts of the running process on the panel

vars == <<boot, up, busy, frame, now, owed, lines, fresh, shown>>

Before(r, q) ==
    \/ Level[r] > Level[q]
    \/ Level[r] = Level[q] /\ Code[r] < Code[q]
    \/ Level[r] = Level[q] /\ Code[r] = Code[q] /\ r < q

\* What may hold a verdict back: an EMERGENCY is never coalesced and never muted.
Holds(r) ==
    IF Level[r] = EMERGENCY THEN {"suppressed_cooldown"}
    ELSE {"suppressed_cooldown", "coalesced", "muted_global", "muted_dock"}

Init ==
    /\ boot = 1 /\ up = TRUE /\ busy = FALSE
    /\ frame = 0 /\ now = 0 /\ owed = {}
    /\ lines = <<>> /\ fresh = <<>> /\ shown = <<>>

\* A frame yields verdicts; the one before it is done with.
Begin(batch) ==
    /\ up /\ ~busy /\ batch # {}
    /\ busy' = TRUE
    /\ frame' = frame + 1
    /\ now' \in Nat
    /\ owed' = batch
    /\ fresh' = <<>>
    /\ UNCHANGED <<boot, up, lines, shown>>

\* The severest verdict that is owed gets its line: held back, or let through and
\* then sent or not.
Log(r, gate, sent) ==
    /\ up /\ busy
    /\ r \in owed /\ \A q \in owed \ {r} : Before(r, q)
    /\ gate \in Holds(r) \cup {"pass"}
    /\ sent => gate = "pass"
    /\ LET line == [rule |-> r, ts |-> now, frame |-> frame, boot |-> boot,
                    gate |-> gate, sent |-> sent]
       IN  lines' = Append(lines, line) /\ fresh' = Append(fresh, line)
    /\ owed' = owed \ {r}
    /\ UNCHANGED <<boot, up, busy, frame, now, shown>>

\* The frame is done with when nothing is owed, and not before.
Publish ==
    /\ up /\ busy /\ owed = {}
    /\ busy' = FALSE
    /\ shown' = shown \o fresh
    /\ fresh' = <<>>
    /\ UNCHANGED <<boot, up, frame, now, owed, lines>>

\* A stop forgives what is owed; the lines written stay.
Stop ==
    /\ up
    /\ up' = FALSE /\ busy' = FALSE
    /\ UNCHANGED <<boot, frame, now, owed, lines, fresh, shown>>

Restart ==
    /\ ~up
    /\ boot' = boot + 1
    /\ up' = TRUE /\ busy' = FALSE
    /\ now' = 0 /\ owed' = {} /\ fresh' = <<>> /\ shown' = <<>>
    /\ UNCHANGED <<frame, lines>>

Gates == {"pass", "suppressed_cooldown", "coalesced", "muted_global", "muted_dock"}

Next ==
    \/ \E batch \in SUBSET Rules : Begin(batch)
    \/ \E r \in Rules, gate \in Gates, sent \in BOOLEAN : Log(r, gate, sent)
    \/ Publish \/ Stop \/ Restart

Spec == Init /\ [][Next]_vars

-----------------------------------------------------------------------------
\* Read from top to bottom the lines go from frame to frame and, inside a frame,
\* from the severest verdict down, each verdict once.
Ordered ==
    \A i, j \in 1..Len(lines) : i < j =>
        \/ lines[i].frame < lines[j].frame
        \/ lines[i].frame = lines[j].frame /\ Before(lines[i].rule, lines[j].rule)
=============================================================================
