# TLA+ models of dock_guard

dock_guard watches a DJI dock and its drone over MQTT, resolves the phase of the
flight, evaluates alert rules on every frame of facts, passes the verdicts through
three gates and sends what is left to DingTalk and webhooks. Offline it turns a
recording into a report, which a small web server shows in the browser. This directory
holds TLA+ modules of both, TLC runs on small instances, and theorems checked by TLAPS.
Paths below are relative to `src/src/dock_guard/` unless they say otherwise.

## 1. Inventory

One process, one asyncio event loop, plus the thread pool in which FastAPI runs the
synchronous admin endpoints. `__main__._run_live` iterates the source and, for every
envelope, in this order: sets the readiness flags, applies it to the aggregator,
drains the phase transitions into the event bus, evaluates the rules, awaits
`handle_batch_async`, publishes the records to the event bus.

| component | state | operations | talks to |
|---|---|---|---|
| MQTT source (`ingest/mqtt_source.py`) | drone known per dock, stop flag, back-off, the session's subscriptions | connect, subscribe, receive, discover the drone, back off, close | broker; is iterated by the live loop |
| dock aggregator (`aggregator/dock_aggregator.py`) | latest OSD fields, timestamps, wind window, ring of frames, phase, pending transitions | `apply` (dock OSD, drone OSD, sys_status, dock event), `drain_phase_transitions` | called by the loop; read by the rule engine |
| phase machine (`aggregator/phase_machine.py`) | none | `resolve_phase` and its two derivations | called by the aggregator |
| rule engine (`rules/engine.py`) | rule set, dwell clocks, failure counters | `evaluate`; reload by the admin thread | reads the ring; its verdicts go to the coordinator |
| alert coordinator (`coordinator/`) | cooldown table, dedup histories, mutes, alerts.jsonl | `handle_batch(_async)`, `set_dock_mute`, `set_global_mute` | awaits the notification bus |
| notification bus and channels (`notify/`) | dead letters (in memory) | `dispatch`, retry | HTTP endpoints |
| event bus and SSE (`http/events.py`) | one bounded queue per browser | publish, subscribe, stream | browsers |
| admin and health (`http/admin.py`, `http/health.py`) | two latches | mutes, reload, `/readyz` | mutate the coordinator and the engine from the pool |
| replay source (`ingest/replay_source.py`) | position in a recording | iterate at a pace | the same pipeline, synchronous |
| collector (`analytics/collector.py`) | peaks, samples, transitions of one recording | `collect` | runs the same pipeline over a recording |
| analyser (`analytics/__main__.py`) | report.json of every recording, on disk | analyse one or all, skip, force, write | the collector; the file is read by the server |
| report server (`analytics/serve/`) | none | list the reports, pass one through | reads the files; serves the pages |
| pages (`analytics/serve/static/app.js`) | the charts of a tab and their sizes, one resize timer | open, fetch, render, resize | the server |

What is hard here:

- **Awaits inside a batch.** Between the gates of a verdict and its line in
  alerts.jsonl lies an awaited HTTP call. Mutes may change and the process may be
  stopped there. Correct: the log is complete and ordered, agrees with what was
  sent and with the panel, and the gates hold per process, across every await.
- **A second thread.** Mutes and the rule set are replaced from the pool without a
  lock, between any two bytecodes of the loop. Correct: no rule set is mixed, a mute
  that was accepted is in force.
- **Time carried between frames.** Dwell clocks, cooldowns, burst windows, staleness,
  the wind window. Correct: each fires exactly when the condition has held, or not
  held, long enough, whatever happened on the frames in between.
- **Reconnects.** Each session starts without subscriptions. Correct: what was
  subscribed is subscribed again, frames stay in order, back-off grows and is reset,
  and the source ends when told to.
- **Slow readers.** Correct: a slow browser costs only itself.
- **A wall clock** as the timestamp of frames, which may be set back.
- **A file shared without a lock.** The analyser truncates report.json and writes it in
  place, may be killed in between, and leaves a file that exists and does not parse; the
  server passes it through at any moment. Correct: a page shows a report that was whole
  on disk after it asked, the index and the page judge it alike, and a batch that ends
  well has left only reports that can be read.
- **Zeros, nulls and sentinels.** Every panel picks its points by conditions of its own.
  Correct: what is drawn is what the report holds, 0 included, null excluded, and
  panels of one sample agree.
- **A debounced resize.** Correct: a chart of the wrong size has a resize coming, however
  rendering, resizing and the timer interleave.

PROJECT.json lists each hazard at its line, with the property that covers it or why
none does.

## 2. Modules

### AlertCoordinator (`coordinator/`, part of `__main__.py`, `http/admin.py`)

Variables are the fields of the three gates (`lastFired`, `hist`, `dockMute`,
`globalMute`), the log `alerts`, and where the loop stands: `pc`, the frame's
timestamp `ts`, the verdicts `todo`, the one in flight `cur`, the list `out`.
`delivered` and `panel` stand for the outside world; `frames` is a history.
A verdict that a gate holds back is handled in one step, `GateAndWrite`, because the
code has no await there. One that passes is `GatePass`, then `Deliver` (the await; an
outcome is chosen), then `WriteDispatched`. When the mute that `MuteState.check` read
has expired, the pop (`mute.py:86`) is a step of its own, `PopExpired`: the admin
thread may run in between. `Stop` is possible at every step, `Restart` keeps
alerts.jsonl and nothing else. One coordinator serves one dock, so the cooldown's key
(dock, code) is the code.

### AlertLog

What a reader of alerts.jsonl and of the panel is promised: every verdict of a frame is
owed a line, the severest first; a line is let through or held back by a gate that may
hold that verdict (an EMERGENCY by the cooldown only); a frame's lines reach the panel
together, and only when nothing is owed; a stop forgives what is owed. No gate state, no
clock, no mute, no dispatch. AlertCoordinator instantiates it with `owed <- todo \cup cur`,
`lines <- alerts`, `fresh <- out`, `shown <- panel`: `GateAndWrite` and `WriteDispatched`
are its `Log`, `EndBatch` its `Publish`, and the gates, the pop, the dispatch and the
admin thread are stutters.

### RuleEngine (`rules/engine.py`, `rules/loader.py`, `admin.reload_rules`)

A pass is one action per rule: `PhaseSkip`, `CustomFnRaises`, `NoMatch`, `Match`.
`iter` is the rule set whose generator the pass iterates; `rules` is `engine.rules`,
which `Reload` may replace between any two rules. `DwellOf` therefore reads the rule's
own dwell from `iter` and the default from `rules`, as line 178 does. What facts a
condition compares is abstracted: a frame carries the set of rules it matches and the
set of custom functions that raise. `since` and `installed` are histories.

### MqttSource (`ingest/mqtt_source.py`)

`pc` is the line of `__aiter__` at which the task stands; each awaited call that can
fail is an action, and `MqttError` and `Cancel` are enabled at each of them. `subs` is
held by the broker and dies with the session (aiomqtt's default clean session). The
body of the consuming loop is one `yield` state.
`sent`, `out`, `lost` and `fails` are histories.

### EventBus (`http/events.py`)

`Publish` is one step over all subscribers, since it does not await. Each stream is
`Get`, `Timeout`, `Written`; a browser may `Leave` and the server then
may cancel the response.

### Notify (`notify/`)

`chan[k]` is the task of channel k: the positions of the targets it still has to send to
(the least of them is at work), the attempt, and the targets that confirmed and that
failed so far; `tasks` are the positions of the channels still to be awaited. `PostOk`, `PostRetry`, `PostGiveUp` and `PostRaises` are the
ways a post can end, `Wake` the end of a pause; the bus's `Dispatch` and `Await` are
the two loops of `dispatch()`. A DingTalk robot is a target with one attempt and
no dead letter. A post without a confirmation is one outcome: whether the target took
it is not known to the sender. `Cancel` hits the awaited task only; `Close` ends the others
(their clients are closed, then the loop cancels them). `posts` and `returned` are
histories. Dispatches do not overlap, because the coordinator awaits each;
AlertCoordinator's `Deliver` stands for one dispatch.

### PhaseMachine, DockAggregator, Collector (`aggregator/`, `analytics/collector.py`)

PhaseMachine is the pure part: the table and the derivations as operators over the
shipped mode code map. DockAggregator EXTENDS it; each of its four `Apply` actions is
a whole `apply()`: dispatch, phase update, snapshot, with the ring's exception for a
frame that is older than the last. `Next` is the live loop, which drains the transitions
after each frame. Collector EXTENDS it with the loop of the offline report: its `Collect`
drains and updates the peaks and samples, and what the report computes at the end
(`PhaseDurations`, `LongestOffline`) are operators over the transitions so far, because a
recording may end after any frame. `timeline` is a history of the frames.

### Panels, Viewer (`analytics/__main__.py`, `analytics/serve/`)

Panels is the pure part of `app.js`: each of the four charts of the detail page and the
thirteen panels of the safety page as an operator from the report to lines, marks, labels
and fixed axis ends. `Named` is a value as the labels of its axis name it, `HmsTip` the
tooltip of an HMS event. Each page that sums up a report reads its fields for
itself, and so here: `Picked` is what the server sends of it and `Cells` what the index page
writes of that, `Summary` is the detail page's, `SafetySummary` the safety page's. Units and the code's
constant factors are left out; `Kept` is the browser's `filter`, by the places it keeps.
`Collected` says what the collector lets into a report (numbers or nothing, batteries and
wind directions in range, no empty list of distances), `DeviceInRange` the ranges it leaves
to the device, and `TextsAssumption` the shape of the keys of hms_codes.js. Viewer EXTENDS it with who touches what: `versions[r]` are
the contents report.json of recording r has had, the last one being on disk; `cli` is a
run of the analyser (`Skip`, `CollectRaises`, `OpenReport`, which truncates, then the end of
the write, its failure or a kill); a tab opens a page, the server scans one recording after
the other (`ScanReport`) or sends what is on disk (`Send`), the page parses and draws
(`Render`, `ParseFails`, `NotFound`, `NetFail`), its window changes and the timer fires.

### MC modules

One per component: they give the constants small values and define nothing else;
MCViewer has TLC confirm that its reports keep `DevicePromise`.

## 3. Runs

| run | question | bounds |
|---|---|---|
| coordinator_gates | are verdicts let through and held back exactly as the tables justify? | 3 rules (two share a code, one has cooldown 0, one is an EMERGENCY), 5 ticks, 3 frames, 2 processes, no bus |
| coordinator_admin | do log, channels and panel agree, with mutes changing and stops at every await, and is AlertLog implemented? | 2 rules, 3 ticks, 2 frames, 2 processes, timed and permanent dock mutes, global mute on and off |
| coordinator_mute_lost (violation) | does a permanent mute stay? | as coordinator_admin, 1 process |
| rule_engine | does a rule fire exactly when it should? | 3 rules, 3 frames on ticks 0 to 2, 3 rule sets |
| mqtt_source | are subscriptions, order, back-off and recovery right? | 2 dock topics, 1 drone topic, 2 drones, 2 messages, 4 failures told apart, delays 1, 2, 3 |
| mqtt_drone_topics (violation) | are drone topics subscribed after a dock OSD? | same |
| event_bus | does each browser get an unbroken run, and in the end all that was queued for it? | 2 browsers, queues of 2, 5 events |
| event_bus_dropped (violation) | is a dropped browser disconnected? | same, 4 events |
| notify | do reports, retries and dead letters agree with what was posted? | 2 robots, 3 endpoints (2, 3 and 2 attempts; 2, 1 and 2 pauses; one with a bad URL), 4 alerts, 2 dispatches |
| flight_report | do phase, staleness, transitions and wind follow what was received, and the report the frames? | 4 envelopes on ticks 1 to 4, the clock may go back by 1, 6 dock and 6 drone payloads, samples every tick |
| viewer | do the pages draw what the report holds, whoever writes it meanwhile? | 1 tab, 2 recordings, 2 window sizes, 2 runs of the analyser (explored from an old report or none), reports whose lists vary one at a time: up to 3 samples of 3 batteries or 4 flights, up to 2 of the other lists |
| aggregator_unknown_mode (violation) | is an unknown mode treated as airborne? | same |

Why the bounds are enough. Gates compare two timestamps with a limit of at most two
ticks, so five ticks hold before, at and after every limit; three frames are the least
with which a third alert can meet a table moved by the second. One restart shows every
difference between state that survives and state that does not. A dwell of two ticks
and a default of 0 or 1 give each clock a start, a wait and a fire within three frames.
Three back-offs reach the cap, a fourth shows that it stays there. Queues of two fill
with five events to spare. Four envelopes let a state be set by one, aged by a second
and read by a third, with the ring (length 2) full. Two dispatches let one be cut after
another was reported; three attempts with one pause need both ways to the next attempt. Two runs
of the analyser are what it takes for one to meet what a killed one left; the second
recording, which starts without a report, shows that a batch goes on after one failed.
Tabs share nothing but the files, so one is enough. Two samples show order, three a
value that comes back between two others (a label seen before, a null between values); the payloads are the limits of each condition and their neighbours.

Deadlock is not checked: every model stops at its bounds, and a process may end.

Fairness. `AlertCoordinator!FairSpec` assumes the loop keeps running: its only wait is
the dispatch, which the channels' HTTP timeouts end. `MqttSource!FairSpec` assumes weak
fairness of the task's own steps (the event loop runs it, sleeps end) and strong
fairness of connect and subscribe: a broker tried for ever is not refused for ever.
`Notify!FairSpec` assumes that a
channel's task goes on (each post ends by its timeout, each pause ends) and that the
bus is resumed. `EventBus!FairSpec` assumes the loop resumes each generator and that each write ends.
`Viewer!FairSpec` assumes that the server answers, the browser runs the scripts it has
(`PageStep`) and its timers fire; a network failure (`NetFail`) may end a page sooner.
Nothing is assumed of browsers, admins, cancellations or messages.

## 4. Findings

Four disagreements between the code and what the repository says of it are shown by the
violation runs; PROJECT.json quotes the lines.

1. A permanent dock mute can be popped in place of the expired one it replaced.
2. After a reconnect the drone's topics are never subscribed again.
3. A browser dropped for being slow is not disconnected: the sentinel does not fit
   into its full queue.
4. An unknown mode code resolves to IDLE unless the drone is known to be outside and
   above one metre.

Two more are settled by properties that hold, and are theorems: each states what the code
does, where a comment says otherwise.

5. Bursts. `config/alert_levels.yaml:27-28` describes a window of 60 s and merging
   from 10 alerts on ("`>=10 次/60s → 合并 summary`"). In the code neither is so.
   - The history an alert is counted in is that of its `dedup_key`, which ends in the second
     of the frame (`rules/engine.py:211`: `f"{rule.id}#{frame.recv_ts_ms // 1000}"`). A window
     never holds alerts of two seconds, nothing in it is ever evicted (it spans a second or
     more), and the count starts again with every second. `tests/unit/test_dedup.py:43-53` tests a window of
     a minute, with a key that has no second.
   - `dedup.py:38` compares with `>` after appending: the 11th alert is the first to be merged,
     as `test_dedup.py:38-47` has it, not the 10th.

   `BurstExact` is the code's rule in both respects: merged exactly if as many as the threshold
   passed before, in the same second. With the shipped cooldown of 30 s a rule seldom
   reaches this gate twice in a second, so as shipped it merges next to nothing.
6. The default dock mute. `http/admin.py:13-14` says that the global mute's default, BLOCK,
   lets EMERGENCY through always, and that the dock mute's default, EMERGENCY, silences the
   whole dock ("`即整个 dock 全静`"). `mute.py:87` mutes what is below the minimum only, so
   under the default dock mute an EMERGENCY is sent all the same, and no level of the
   enumeration would silence it. `EmergencyGetsThrough` is the code's rule: no mute, of
   either kind and with any minimum, holds an EMERGENCY.

Read off the source while modelling, without a run of their own:

- A cancellation that falls into the back-off sleep is swallowed (`ingest/mqtt_source.py:87`):
  the source reconnects and goes on. MqttSource's `Cancel` models it.
- `/readyz` asks for a connection (`http/health.py:5`), but its latches are set by the first
  envelopes and never reset: it stays 200 after the connection is lost.
- The ring of frames refuses a frame that is older than its last one by raising, after
  `apply()` has changed the aggregator: a clock set back ends the live loop.
- `_longest_offline` starts a stretch anew when only the source of OFFLINE changed, and
  is 0 for a recording without a transition, which was offline throughout;
  `OfflineNotOverstated` states what is left.
- Samples of wind direction count ten seconds each, also those that follow each other
  frame by frame after a gap; `SamplesPaced` states what bounds them.
- `rate_limit_per_min`, `repeat_emergency` and `dingtalk_repeat` are read from the YAML and
  used nowhere, and a routing override's `dingtalk_robots` and `webhook_endpoints` reach
  two lookups that nobody calls: an alert goes to every robot whose filter admits it.
- A target that makes `send()` raise keeps the alert from the targets listed after it.
- A torn report left by a killed run is skipped by a later single run with exit code 0;
  only a batch, which reads what it skips, reports it (`BatchZeroIsComplete` is about
  batches for that reason).
- An HMS event of a level other than 0, 1 and 2 is on none of the lines of its panel.
- The safety page draws nothing when `flight_samples` is empty, whatever the other lists
  hold, and then asks for a report of version 7 or later, even of one that is.
- The distances around are not compared with the invalid value 60000 that the panels of
  the distances above and below filter; the nearest of them is usually a valid one.
- The tooltips of the battery, the wind and the DRC panels (`app.js:101`, `137`, `149`, `317`) tell the first
  of the points at a time only, so one of two samples with the same time. Eleven of the
  thirteen safety panels have no formatter of their own (`safBase`): ECharts' tooltip
  shows their times, not `fmtT`. No property speaks of either; `PointsTellReport` is about the
  points, and about the tooltip of the HMS panel, which is that of one point.
- The panel of RTK states draws `is_fixed` as 0 or 1 on a second axis from 0 to 1;
  `PointsOnAxis` is about the first axis of each panel.
- The index page does not look at the status of its answer: an error page that is JSON
  is read as a list.

## 5. Proofs

Eight modules prove what follows for every value of the constants, from the named
assumptions of the modules only; where a theorem needs more of a constant, it says so
(the shipped configuration has it, except for `DevicePromise`, which is up to the device).

### The coordinator (`AlertCoordinatorProofs`, `AlertLogProofs`)

- `TypeCorrect`: TypeOK is inductive as it stands, because it ties `cur` to `pc`.
- `CooldownRespected`: the property speaks of the log only, and nothing in it says that the
  next verdict is compared with the last one that passed. `SpacingInv` adds that the
  cooldown table is never behind the log of the running process (`TableCoversLog`), and
  that a verdict in flight, whose record is not yet written, is the one that moved the
  table and is already far enough from every logged one (`InFlightSpaced`). The clock
  never goes back, so a new entry is the greatest.
- `SuppressionExplained` needs the other direction: `CauseInv` says that every entry of the
  table goes back to a line that passed, or to the verdict in flight (`TableFromLog`).
- `EmergencyHeard` follows with `EmergencyOnlyCooled` (no other gate ever holds an
  EMERGENCY) under the hypothesis `CodesKeepLevel`: no code is shared by an EMERGENCY rule
  and a lower one, as in `config/rules.yaml`. The table is per code: without the hypothesis
  a lower verdict silences the EMERGENCY that follows it.
- `DeliveriesAudited`: `AuditInv` says that of what the running process had confirmed, only
  the verdict in flight lacks its line (`OpenDelivery`); a stop there makes it the one
  exception of that process, because no other verdict of it follows.
- `BurstsExact`: `BurstInv` relates the dedup histories to the log. What a window holds is of
  the second its key names (`WindowOfSecond`), so nothing in it is evicted while it is used;
  it therefore has exactly one entry for each logged verdict of that second that passed the
  cooldown, in the running process (`BootsNotAhead`), and one for the verdict in flight
  (`WindowExact`), which was let through because there was room for it (`InFlightAllowed`).
- `CoordinatorImplementsLog`: every step of the coordinator is a step of AlertLog or a
  stutter. The invariant `RefInv` it needs says that the verdict in flight belongs before
  all that are left, so that the line written after the await is still the one owed.
  `LogOrdered` proves the order of the lines on AlertLog, with the invariant that no line
  belongs after a verdict still owed, and `AuditOrdered` carries it over to alerts.jsonl
  by the refinement.

### Rule engine (`RuleEngineProofs`)

- `EachRuleJudgedOnce` and `EveryFailureReported` rest on `JInv`: what a pass has judged and
  what it has left are the set it began with, in ascending order, and the failure counter
  is ahead of the reports by the failures of the pass at hand.
- `DwellRespected` and `DwellTaken` rest on `WInv`: a clock never shows more than the run of
  matches it belongs to, and exactly that for a rule whose dwell no reload changed.

### Source and event bus (`MqttSourceProofs`, `EventBusProofs`)

- `EnvelopesComplete` from `EInv` (what was yielded, is in hand, is queued or was lost with
  a session is what was sent, in order), `AlwaysSubscribed` from `SInv` (the topics no
  longer to do are subscribed in the session at hand), `DockComesFirst` from `AInv` (a drone
  subscribed to, being subscribed to or with a message queued was announced by a frame
  yielded or in hand).
- `BackoffAsConfigured`: `BackoffInv` says that the delay is the one of the failure to come.
  The step of the loop multiplies a delay that may already be cut off, and `DelayGrows`
  shows that cutting off before or after the multiplication is the same. `Power` is a
  recursive function: that it is what its definition says (`PowerIs`) takes an induction,
  which `SetInduction` provides in a form that needs no operator as a parameter: over
  sets of numbers, from `WFMin` of the library.
- `NothingMissed`: what a browser got followed by what is in its queue is a run of numbers
  without a gap that ends at the last publication while it is subscribed; `BusTypeCorrect` from the
  same invariant.

### Aggregator and collector (`CollectorProofs`)

- `TransitionsAreChain`: published and queued transitions together lead from the start to
  the phase at hand. `SilenceMeansOffline`: with the invariant that the last dock OSD is no
  newer than the last frame of the ring, which only a frame the ring refused may break, and
  after that there is no other frame (`FrameInv`, `HeardUpTo`).
- `AirborneIsSeen`: `HeardUpTo` says that the newest dock OSD heard is the one remembered, so a
  dock that was heard in time is not taken for silent; `AirborneResolved` goes through the
  branches of `resolve_phase`. Hypothesis `SpecialModesNotAirborne`: 14 (not connected) and 16
  (virtual stick), which the derivation treats before its map, are not in `airborne_set`, as
  in `config/mode_code_map.yaml`.
- `GustsAreWindowMax`: `GustInv` says that the window holds every measurement that is not yet
  too old for the newest one and nothing older. The clock may step back: the ring then ends
  the process, which is why the order of the window needs `FrameInv`.
- `CollectorRunsAggregator`: CollectorSpec implements Spec (a `Collect` is a `Drain`), so the
  theorems above hold under the report. `PeaksAreStrongest` from `PeakInv` (before
  a `Collect` the peak lacks at most winds of this very instant, and the gust of the frame
  at hand covers those); `SamplesArePaced` from `SampleInv` (the grid is one interval per sample ahead).
- `DurationsAreTrue`: `DurationInv` says that up to the last frame collected (`Seen`) the lengths
  of the frames of a phase and the lengths of the segments between the transitions add up
  to the same, whatever the phase. A frame adds the same time to both sums (`FrameAdded`,
  `TimePasses`), a transition adds none, being of the instant of its frame
  (`TransitionAdded`); `PassInv` has what that takes: the frames are in order, and of the
  transitions at most the one of the frame at hand is still queued.
- `OfflineIsNotOverstated`: `OfflineInv` says of the scan of the transitions so far that
  the stretch at hand began with a frame since which all were OFFLINE, and that the longest one
  closed is a run of frames (`ScanOK`); and, as long as no stretch was split, that
  every OFFLINE frame is in the stretch at hand or in runs that are closed and counted
  (`ScanExact`). `ScanMoves` and `ExactMoves` are the step of one frame, `CountedIs` the end.
- Both speak of folds. What a fold of a community module computes is a function over the
  subsets of the set it folds (`Folded`); there is one (`FoldExists`), it is the same for
  sets with the same elements in the same order (`FoldUnique`), and so a sum splits at any
  element (`TotalSplit`) and a scan goes on from where it was (`ScanAppend`).
  `SubsetInduction` provides the induction without an operator as a parameter.

### Notification bus (`NotifyProofs`)

`RetriesDisciplined`, `DeadLettersExact` and `ReportsTruthful` share one invariant, `NotifyInv`:

- `PostsOK`: no post is ahead of the dispatch under way, so what one dispatch adds leaves
  the accounts of the others alone (`PostEffect`).
- `ChanOK`: where a task stands accounts for every target of its channel (`TaskOK`,
  `TargetOK`): those it is through with are reported as sent or failed as their posts went,
  the one at work has as many posts as the attempt says, those behind it have none.
- `FlowOK`: the tasks are awaited in order, each once, and exactly those still awaited are
  not idle; `DeadOK`: the dead letters are those of the endpoints given up.

### Pages (`ViewerProofs`)

- `ChartsFollowWindow` and `NothingTornShown` from a claim about each tab that steps of other
  tabs and of the analyser keep: the versions of a file are only ever added to, so what a
  page was sent stays among them. `RowsAreTrue` extends it (`AllPagesOK`, `PageOK`) by what a
  row of the index and the answer in hand say of the version they were read from
  (`DiskRows`); that the index page and the report pages then tell the same is an equality
  of readings which the code, and the model, make separately.
- `BatchesAreComplete`: `BatchInv` says that of a batch in which nothing failed so far every
  recording it is through with has a readable report.

What the charts show is proved for every report, not only for lists of three:

- All three theorems speak of the page's own copy of a report. `ShownIsReport` says that it
  is one the analyser wrote or found, never a torn one, so `CollectorAssumption` holds of it.
- `PointsAreTrue` is about places: a value recorded at place i of a list is drawn as the point
  whose number is that of the recorded places up to i (`Place`). `Draws` says this of any line, and
  `KeptIs` proves it of `Kept`, a recursive function, by `SetInduction` over the length of
  what is filtered; filtering twice (`PickKeptDraws`) and mapping what is left (`DrawsMap`)
  keep it. `DrawnIs` turns it into time and value of the point. States need that the label a
  point indexes is that of its own state (`LabelFound`), the tooltip of an event that the text
  looked up is one of its device and code (`TextIs`) and how times are rounded (`SampleTime`).
- `PanelsDoAgree`: both panels draw places of the same list (`TimesOf`), so the
  times are those of the samples each condition lets through (`DownPanelsAgree`), and the
  drift is measured from the first fix it draws (`DriftLinesAgree`).
- `PointsStayOnAxis`: the points of a line are values of the field (`PickedIn`) or what a
  panel computes of them: the travel of a stick is cut off (`StickTravelIs`), the nearest
  distance is one of the distances (`AroundOnAxis`). The collector checks batteries
  and wind directions only. That link qualities are 0 to 5 and avoidance flags 0 or 1
  is a comment in `models.py`, and that winds and distances are not negative is said nowhere:
  `DevicePromise`, the hypothesis of the theorem, names what the axes rely on.

### Only model-checked

The liveness properties: `FrameCompletes`, `Resubscribes`, `Handed`, `DispatchReturns` and
`PageSettles`. Fairness and ENABLED are out of the prover's reach. Every safety invariant
and action property that a passing run checks, the refinement included, is a theorem; the
four violated ones are not true.

## 6. Not modelled

The replay source merges the files of a recording by receive time and sleeps between
frames: one reader, no shared state, the same pipeline. Readiness is two latches. The
analyzers are statistics over floating-point numbers. The configuration loader's bounds
are the modules' assumptions. Wiring of FastAPI and uvicorn, the token comparison and
shell scripts have no behaviour of their own.
The live loop attaches the DingTalk channel only; Notify also
models the webhook channel, as the tests use it. A channel or target that is listed twice
in the YAML, which nothing forbids, is excluded by `NotifyAssumption`.
Within the modelled parts: which facts a rule's condition compares, facts that
the aggregator only copies, samples the collector only copies, the Markdown report and
index.md, the texts of alerts and HMS codes (a code has a text or has none), styling and
zoom of the charts, the TLS context, wording and logging. The alert gates
assume a clock that does not go back between frames; what a step back does to frames is
modelled in DockAggregator, where the ring refuses them and the process ends.
Covered by no property, because they are what the code means to do or grow too slowly for
a bounded model: the dedup histories and, without a panel, the transitions, which nothing
removes; staleness, which is judged when an envelope arrives and not by a timer; the
failures of all rules, which share one code and so one cooldown; the first drone of a
dock, which is kept for the life of the process.

## 7. What could follow

1. `Pipeline`: source, aggregator, engine, coordinator and panel composed in the order
   of `_run_live`, for properties that relate an envelope to an alert.
2. `Deliver` of AlertCoordinator as what Notify implements.
3. `Replay`: the merge of a recording's files and its pacing.
