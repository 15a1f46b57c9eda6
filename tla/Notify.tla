-------------------------------- MODULE Notify --------------------------------
(***************************************************************************)
(* NotificationBus.dispatch() and the two channels behind it.  A dispatch  *)
(* routes one alert, starts one task per channel and awaits them in turn.  *)
(* A channel's task sends to its matching targets one after the other:     *)
(* DingTalk once per robot, the webhook with retries, pauses and, when     *)
(* every attempt failed, a dead letter.  The coordinator awaits the        *)
(* dispatch, so there is one at a time; when the loop's task is cancelled  *)
(* the awaited channel is, and the others run on until the bus is closed.  *)
(*                                                                         *)
(* Dispatches are numbered; a post is its dispatch's number and outcome:   *)
(*   "ok"       2xx, or errcode 0                                          *)
(*   "failed"   another status or errcode, or no answer: the target may or *)
(*              may not have taken it                                      *)
(*   "odd"      an exception send() does not catch: the target's URL       *)
(*              does not parse, or a robot answers JSON that is no object. *)
(***************************************************************************)
EXTENDS Integers, Sequences, FiniteSets, SequencesExt

CONSTANTS
    Robots,       \* dingtalk_robots.yaml: the robots in their order
    Endpoints,    \* webhooks.yaml: the endpoints in their order
    Filter,       \* of each target: min_severity, include, exclude
    Retry,        \* of each endpoint: max_attempts, pauses (length of backoff_ms)
    BadUrl,       \* targets whose URL httpx cannot parse
    Alerts,       \* what may be dispatched: code and severity
    Overrides,    \* notification_routing.yaml: the channels of a code
    Defaults,     \* level_routing_defaults: the channels of a severity
    Attached,     \* kinds the bus has a channel for
    MaxDispatches \* bound: dispatches

Kinds == {"panel", "webhook", "dingtalk"}
Targets == ToSet(Robots) \cup ToSet(Endpoints)
TargetsOf(k) == IF k = "dingtalk" THEN Robots ELSE Endpoints

\* The YAML schema, and that a channel or target is listed once.
ASSUME NotifyAssumption ==
    /\ Robots \in Seq(ToSet(Robots)) /\ IsInjective(Robots)
    /\ Endpoints \in Seq(ToSet(Endpoints)) /\ IsInjective(Endpoints)
    /\ ToSet(Robots) \cap ToSet(Endpoints) = {}
    /\ \A t \in Targets : Filter[t].min_severity \in 1..5
    /\ \A e \in ToSet(Endpoints) :
         Retry[e].max_attempts \in Nat \ {0} /\ Retry[e].pauses \in Nat
    /\ BadUrl \subseteq Targets
    /\ \A a \in Alerts : a.severity \in 1..5
    /\ \A c \in DOMAIN Overrides : Overrides[c] \in Seq(Kinds) /\ IsInjective(Overrides[c])
    /\ \A s \in 1..5 : Defaults[s] \in Seq(Kinds) /\ IsInjective(Defaults[s])
    /\ Attached \subseteq {"webhook", "dingtalk"}
    /\ MaxDispatches \in Nat

VARIABLES
    pc,          \* "idle", "dispatching", "closing" once cancelled, "closed"
    alert,       \* the alert being dispatched, or Null
    tasks,       \* dispatch(): the channels of the alert still to be awaited, by position
    results,     \* dispatch(): what the awaited ones gave
    chan,        \* chan[k]: the task of channel k
    deadLetters, \* DeadLetter.records: endpoint and dispatch
    posts,       \* history: posts[t], what was sent to target t
    returned     \* history: what dispatches returned, with their alerts

vars == <<pc, alert, tasks, results, chan, deadLetters, posts, returned>>

Null == [code |-> "none", severity |-> 0]
Number == Len(returned) + 1

\* A channel's task: todo are the positions of the targets left, the first of them
\* at work; sent and failed are the targets behind it.
Idle == [st |-> "idle", todo |-> {}, attempt |-> 1, sent |-> {}, failed |-> {}]

Init ==
    /\ pc = "idle" /\ alert = Null
    /\ tasks = {} /\ results = <<>>
    /\ chan = [k \in Attached |-> Idle]
    /\ deadLetters = <<>>
    /\ posts = [t \in Targets |-> <<>>] /\ returned = <<>>

\* Router.channels_for: an override by code goes before the severity's default.
ChannelsFor(a) ==
    IF a.code \in DOMAIN Overrides THEN Overrides[a.code] ELSE Defaults[a.severity]

\* _should_send, the same in both channels.
ShouldSend(t, a) ==
    LET f == Filter[t] IN
    /\ a.severity >= f.min_severity
    /\ a.code \notin f.exclude
    /\ f.include = {} \/ f.include \cap {"*", a.code} # {}

First(S, i) == i \in S /\ \A j \in S : i <= j

\* Positions of the targets alert a goes to.
Matching(k, a) == {j \in DOMAIN TargetsOf(k) : ShouldSend(TargetsOf(k)[j], a)}

\* A task on its way to the targets left, or done when there are none.
Send(c, left) ==
    [c EXCEPT !.st = IF left = {} THEN "done" ELSE "post", !.todo = left, !.attempt = 1]

\* dispatch() returns what its tasks gave for alert a.
Return(a, rs) ==
    /\ returned' = Append(returned, [alert |-> a, results |-> rs])
    /\ pc' = "idle" /\ alert' = Null /\ results' = <<>>

\* The channels of the alert that there are, by position.
Routed(a) == {i \in DOMAIN ChannelsFor(a) : ChannelsFor(a)[i] \in Attached}

\* dispatch(): route, then a task per channel there is; none: return at once.
Dispatch(a) ==
    /\ pc = "idle" /\ Len(returned) < MaxDispatches
    /\ tasks' = Routed(a)
    /\ chan' = [k \in Attached |->
                   IF k \in ToSet(ChannelsFor(a)) THEN Send(Idle, Matching(k, a)) ELSE Idle]
    /\ IF Routed(a) = {} THEN Return(a, <<>>)
       ELSE pc' = "dispatching" /\ alert' = a /\ UNCHANGED <<results, returned>>
    /\ UNCHANGED <<deadLetters, posts>>

\* Fault: one attempt more than the configuration allows.
MaxAttemptsPlus(k, t) == IF k = "webhook" THEN Retry[t].max_attempts + 1 ELSE 1

MaxAttempts(k, t) == IF k = "webhook" THEN Retry[t].max_attempts ELSE 1

Outcomes(k, t) ==
    IF t \in BadUrl THEN {"odd"}
    ELSE {"ok", "failed"} \cup (IF k = "dingtalk" THEN {"odd"} ELSE {})

\* The target at work is j, the next in the list.
Post(k, j, outcome) ==
    LET t == TargetsOf(k)[j] IN
    /\ chan[k].st = "post" /\ First(chan[k].todo, j)
    /\ outcome \in Outcomes(k, t)
    /\ posts' = [posts EXCEPT ![t] = Append(@, <<Number, outcome>>)]
    /\ UNCHANGED <<pc, alert, tasks, results, returned>>

\* The target took it: on to the next one.
PostOk(k, j) ==
    LET c == chan[k] IN
    /\ Post(k, j, "ok")
    /\ chan' = [chan EXCEPT ![k] =
                   Send([c EXCEPT !.sent = @ \cup {TargetsOf(k)[j]}], c.todo \ {j})]
    /\ UNCHANGED deadLetters

Again(c, pauses) ==
    IF c.attempt <= pauses THEN [c EXCEPT !.st = "sleep"] ELSE [c EXCEPT !.attempt = @ + 1]

\* An attempt failed and another one follows, after a pause if one is listed.
PostRetry(k, j) ==
    LET c == chan[k]
        t == TargetsOf(k)[j]
    IN
    /\ Post(k, j, "failed")
    /\ c.attempt < MaxAttempts(k, t)
    /\ chan' = [chan EXCEPT ![k] = Again(c, Retry[t].pauses)]
    /\ UNCHANGED deadLetters

\* asyncio.sleep(backoff) ends: the next attempt.
Wake(k) ==
    /\ chan[k].st = "sleep"
    /\ chan' = [chan EXCEPT ![k].st = "post", ![k].attempt = @ + 1]
    /\ UNCHANGED <<pc, alert, tasks, results, deadLetters, posts, returned>>

\* Fault: a dead letter only when no endpoint took the alert.
WithDeadLetterIfUnsent(k, t) ==
    IF k = "webhook" /\ chan[k].sent = {} THEN Append(deadLetters, <<t, Number>>)
    ELSE deadLetters

WithDeadLetter(k, t) ==
    IF k = "webhook" THEN Append(deadLetters, <<t, Number>>) ELSE deadLetters

\* The last attempt failed: a failure, for an endpoint with a dead letter.
PostGiveUp(k, j) ==
    LET c == chan[k]
        t == TargetsOf(k)[j]
    IN
    /\ Post(k, j, "failed")
    /\ c.attempt >= MaxAttempts(k, t)
    /\ chan' = [chan EXCEPT ![k] = Send([c EXCEPT !.failed = @ \cup {t}], c.todo \ {j})]
    /\ deadLetters' = WithDeadLetter(k, t)

\* The exception leaves send(): the targets after this one get nothing.
PostRaises(k, j) ==
    /\ Post(k, j, "odd")
    /\ chan' = [chan EXCEPT ![k].st = "raised"]
    /\ UNCHANGED deadLetters

\* Fault: sent whenever there was a target.
ResultOfAny(c) == [error |-> c.st = "raised",
                   sent |-> c.st = "done" /\ c.sent \cup c.failed # {},
                   ok |-> c.sent, failed |-> c.failed]

ResultOf(c) == [error |-> c.st = "raised",
                sent |-> c.st = "done" /\ c.sent # {},
                ok |-> c.sent, failed |-> c.failed]

\* Fault: a task that raised is waited for.
EndedDone(c) == c.st = "done"

Ended(c) == c.st \in {"done", "raised"}

\* The task of channel k, the next in the list, has ended: its result, or its
\* exception, is kept.
Await(i) ==
    LET k == ChannelsFor(alert)[i]
        rs == [q \in DOMAIN results \cup {k} |->
                  IF q = k THEN ResultOf(chan[k]) ELSE results[q]]
    IN
    /\ pc = "dispatching" /\ First(tasks, i) /\ Ended(chan[k])
    /\ tasks' = tasks \ {i}
    /\ chan' = [chan EXCEPT ![k] = Idle]
    /\ UNCHANGED <<deadLetters, posts>>
    /\ IF tasks = {i} THEN Return(alert, rs)
       ELSE results' = rs /\ UNCHANGED <<pc, alert, returned>>

Awaited(k) == \E i \in tasks : First(tasks, i) /\ ChannelsFor(alert)[i] = k
Interrupted(c) == IF Ended(c) THEN c ELSE [c EXCEPT !.st = "cancelled"]

\* The loop's task is cancelled: so is the awaited task, not the others.
Cancel ==
    /\ pc \in {"idle", "dispatching"}
    /\ pc' = "closing"
    /\ chan' = [k \in Attached |-> IF Awaited(k) THEN Interrupted(chan[k]) ELSE chan[k]]
    /\ UNCHANGED <<alert, tasks, results, deadLetters, posts, returned>>

\* close() of the bus and the end of the loop, which cancels what still runs.
Close ==
    /\ pc = "closing"
    /\ pc' = "closed"
    /\ chan' = [k \in Attached |->
                   IF chan[k].st = "idle" THEN chan[k] ELSE Interrupted(chan[k])]
    /\ UNCHANGED <<alert, tasks, results, deadLetters, posts, returned>>

Channel(k) ==
    \/ \E j \in chan[k].todo :
          PostOk(k, j) \/ PostRetry(k, j) \/ PostGiveUp(k, j) \/ PostRaises(k, j)
    \/ Wake(k)

Next ==
    \/ \E a \in Alerts : Dispatch(a)
    \/ \E k \in Attached : Channel(k)
    \/ \E i \in tasks : Await(i)
    \/ Cancel
    \/ Close

Spec == Init /\ [][Next]_vars

\* The HTTP client's timeouts end each post and the loop runs its tasks.
FairSpec == Spec /\ WF_vars(\E i \in tasks : Await(i)) /\ \A k \in Attached : WF_vars(Channel(k))

-----------------------------------------------------------------------------
(* Properties.                                                             *)

\* What target t was sent for dispatch i, by position in its posts.
PostsOf(t, i) == {n \in DOMAIN posts[t] : posts[t][n][1] = i}
Took(t, i) == \E n \in PostsOf(t, i) : posts[t][n][2] = "ok"
Raising(t, i) == \E n \in PostsOf(t, i) : posts[t][n][2] = "odd"

\* Result r of channel k for alert a, the i-th one, says what its targets did.
TellsTruth(k, a, r, i) ==
    LET want == {TargetsOf(k)[j] : j \in Matching(k, a)} IN
    /\ r.sent <=> ~r.error /\ \E t \in want : Took(t, i)
    /\ r.error <=> \E t \in want : Raising(t, i)
    /\ ~r.error => r.ok = {t \in want : Took(t, i)} /\ r.failed = want \ r.ok

\* A dispatch that returned reports every channel it was routed to, and each
\* report is the truth: every target whose filter admits the alert is listed
\* once, as sent exactly when it confirmed, whatever the other targets and the
\* other channel did.  Only an exception of a target of the same channel
\* excuses the ones after it (bus.py:36-46, webhook.py:68-84).
ReportTruthful ==
    \A i \in 1..Len(returned) :
        LET a == returned[i].alert
            rs == returned[i].results
        IN
        /\ DOMAIN rs = ToSet(ChannelsFor(a)) \cap Attached
        /\ \A k \in DOMAIN rs : TellsTruth(k, a, rs[k], i)

\* A target gets an alert at most as often as its configuration allows, nothing
\* after it confirmed, and the posts of an earlier alert before those of a later
\* one, so that a retry never overtakes (webhook.py:113-137).
RetryDiscipline ==
    \A t \in Targets :
        /\ \A m, n \in 1..Len(posts[t]) : m < n =>
             /\ posts[t][m][1] <= posts[t][n][1]
             /\ posts[t][m][1] = posts[t][n][1] => posts[t][m][2] \notin {"ok", "odd"}
        /\ \A i \in 1..Number :
             Cardinality(PostsOf(t, i)) <= IF t \in ToSet(Robots) THEN 1 ELSE Retry[t].max_attempts

\* An endpoint has one dead letter for an alert exactly when every attempt was
\* made and none was confirmed, also when the dispatch was cut short by a stop
\* (webhook.py:72-75).
DeadLetterIffExhausted ==
    /\ IsInjective(deadLetters)
    /\ \A e \in ToSet(Endpoints), i \in 1..Number :
         <<e, i>> \in ToSet(deadLetters) <=>
             /\ Cardinality(PostsOf(e, i)) = Retry[e].max_attempts
             /\ ~Took(e, i) /\ ~Raising(e, i)

\* The live loop gets its dispatch back, or was told to stop: no failing target,
\* pause or exception leaves it waiting (bus.py:36-46).
DispatchReturns == pc = "dispatching" ~> pc # "dispatching"
=============================================================================
