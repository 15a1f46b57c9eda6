------------------------------ MODULE MqttSource ------------------------------
(***************************************************************************)
(* MqttSource.__aiter__(): the reconnect loop around one aiomqtt client,   *)
(* the subscriptions, the discovery of the drone from the dock's OSD, the  *)
(* back-off and the cancellation of the task that iterates it.             *)
(*                                                                         *)
(* One dock.  Topics are numbers in the order of the topic map.  The       *)
(* broker starts every session without subscriptions (aiomqtt's default).  *)
(***************************************************************************)
EXTENDS Integers, Sequences, FiniteSets, SequencesExt

CONSTANTS
    DockTopics,   \* enabled topics under the dock's serial number
    DroneTopics,  \* enabled topics under the drone's serial number
    DockOsd,      \* the topic whose frames announce the drone
    Drones,       \* serial numbers a dock OSD may carry
    InitialDelay, Factor, MaxDelay,  \* runtime.mqtt.reconnect
    MaxMsgs,      \* bound: messages the broker delivers
    MaxFails      \* bound: failures in a row told apart

NoDrone == "none"
Topics == DockTopics \cup DroneTopics

ASSUME SourceAssumption ==
    /\ DockTopics \subseteq Nat /\ IsFiniteSet(DockTopics)
    /\ DroneTopics \subseteq Nat /\ IsFiniteSet(DroneTopics)
    /\ DockTopics \cap DroneTopics = {}
    /\ DockOsd \notin DroneTopics
    /\ NoDrone \notin Drones
    /\ InitialDelay \in Nat /\ MaxDelay \in Nat \ {0} /\ Factor \in Nat \ {0}
    /\ MaxMsgs \in Nat /\ MaxFails \in Nat \ {0}

VARIABLES
    pc,        \* where __aiter__ stands
    delay,     \* local variable delay
    subTodo,   \* topics still to subscribe to in the loop at hand
    subs,      \* subscriptions of the session, held by the broker
    queue,     \* messages the client holds for client.messages
    env,       \* sequence of at most one message in hand
    known,     \* _drone_sn_by_dock[dock_sn], or NoDrone
    stop,      \* _stop_event
    cancelled, \* the iterating task was cancelled (once)
    sent,      \* history: messages delivered to the client
    out,       \* history: indices in sent of the envelopes yielded
    lost,      \* history: indices in sent that died with their session
    fails      \* history: failures since the last full subscription, up to MaxFails

sessionVars == <<subTodo, subs, queue, env>>
histVars == <<sent, out, lost, fails>>
vars == <<pc, delay, sessionVars, known, stop, cancelled, histVars>>

\* sn: sub_device.device_sn of a dock OSD, the serial number of a drone topic.
Message == [topic : Topics, sn : Drones \cup {NoDrone}, json : BOOLEAN]

InSession == pc \in {"subscribe", "receive", "discover", "yield"}

Smaller(a, b) == IF a < b THEN a ELSE b

Init ==
    /\ pc = "loop" /\ delay = InitialDelay
    /\ subTodo = {} /\ subs = {} /\ queue = <<>> /\ env = <<>>
    /\ known = NoDrone
    /\ stop = FALSE /\ cancelled = FALSE
    /\ sent = <<>> /\ out = <<>> /\ lost = {} /\ fails = 0

\* while not self._stop_event.is_set()
LoopTop ==
    /\ pc = "loop"
    /\ pc' = IF stop THEN "done" ELSE "connect"
    /\ UNCHANGED <<delay, sessionVars, known, stop, cancelled, histVars>>

\* Fault: subscribed once, at the first connect.
ConnectOkSubscribesOnce ==
    /\ pc = "connect"
    /\ pc' = "subscribe"
    /\ subTodo' = IF sent = <<>> THEN DockTopics ELSE {}
    /\ UNCHANGED <<delay, subs, queue, env, known, stop, cancelled, histVars>>

\* async with client entered: the broker accepted the connection.
ConnectOk ==
    /\ pc = "connect"
    /\ pc' = "subscribe"
    /\ subTodo' = DockTopics
    /\ UNCHANGED <<delay, subs, queue, env, known, stop, cancelled, histVars>>

\* One awaited client.subscribe of _subscribe_dock_topics, in map order.
SubscribeOk(t) ==
    /\ pc = "subscribe" /\ t \in subTodo /\ \A u \in subTodo : t <= u
    /\ subTodo' = subTodo \ {t}
    /\ subs' = subs \cup {<<t, NoDrone>>}
    /\ UNCHANGED <<pc, delay, queue, env, known, stop, cancelled, histVars>>

\* Fault: the back-off is never reset.
StartReceivingKeepsDelay ==
    /\ pc = "subscribe" /\ subTodo = {}
    /\ pc' = "receive"
    /\ fails' = 0
    /\ UNCHANGED <<delay, sessionVars, known, stop, cancelled, sent, out, lost>>

\* Every dock topic is subscribed: delay = reconnect.initial_delay_s.
StartReceiving ==
    /\ pc = "subscribe" /\ subTodo = {}
    /\ pc' = "receive"
    /\ delay' = InitialDelay
    /\ fails' = 0
    /\ UNCHANGED <<sessionVars, known, stop, cancelled, sent, out, lost>>

\* The client disconnects; what it still held is gone.
EndSession ==
    /\ subTodo' = {} /\ subs' = {} /\ queue' = <<>> /\ env' = <<>>
    /\ lost' = lost \cup ToSet(queue) \cup ToSet(env)

\* yield env to the iterating loop.
Yield(i) ==
    /\ pc' = "yield"
    /\ out' = Append(out, i)

\* async for msg: the stop flag, an undecodable payload, a dock OSD that
\* announces the drone for the first time, or an envelope to yield.
Announces(m) == m.topic = DockOsd /\ m.sn # NoDrone /\ known = NoDrone

ReceiveStop ==
    /\ pc = "receive" /\ queue # <<>> /\ stop
    /\ pc' = "loop"
    /\ EndSession
    /\ UNCHANGED <<delay, known, stop, cancelled, sent, out, fails>>

\* Fault: an undecodable payload ends the session's iteration.
ReceiveUndecodableClears ==
    /\ pc = "receive" /\ queue # <<>> /\ ~stop
    /\ ~sent[Head(queue)].json
    /\ queue' = <<>>
    /\ UNCHANGED <<pc, delay, subTodo, subs, env, known, stop, cancelled, histVars>>

ReceiveUndecodable ==
    /\ pc = "receive" /\ queue # <<>> /\ ~stop
    /\ ~sent[Head(queue)].json
    /\ queue' = Tail(queue)
    /\ UNCHANGED <<pc, delay, subTodo, subs, env, known, stop, cancelled, histVars>>

ReceiveAnnouncement ==
    /\ pc = "receive" /\ queue # <<>> /\ ~stop
    /\ sent[Head(queue)].json /\ Announces(sent[Head(queue)])
    /\ known' = sent[Head(queue)].sn
    /\ subTodo' = DroneTopics
    /\ pc' = "discover"
    /\ env' = <<Head(queue)>>
    /\ queue' = Tail(queue)
    /\ UNCHANGED <<delay, subs, stop, cancelled, histVars>>

Receive ==
    /\ pc = "receive" /\ queue # <<>> /\ ~stop
    /\ sent[Head(queue)].json /\ ~Announces(sent[Head(queue)])
    /\ Yield(Head(queue))
    /\ queue' = Tail(queue)
    /\ UNCHANGED <<delay, subTodo, subs, env, known, stop, cancelled, sent, lost, fails>>

\* One awaited client.subscribe of _maybe_discover_drone_sn (a frozenset: any order).
DiscoverOk(t) ==
    /\ pc = "discover" /\ t \in subTodo
    /\ subTodo' = subTodo \ {t}
    /\ subs' = subs \cup {<<t, known>>}
    /\ UNCHANGED <<pc, delay, queue, env, known, stop, cancelled, histVars>>

\* Fault: the frame that announced the drone is not yielded.
DiscoveredSkipsFrame ==
    /\ pc = "discover" /\ subTodo = {}
    /\ pc' = "receive"
    /\ env' = <<>>
    /\ UNCHANGED <<delay, subTodo, subs, queue, known, stop, cancelled, histVars>>

\* The discovery returned: the dock OSD itself is yielded.
Discovered ==
    /\ pc = "discover" /\ subTodo = {}
    /\ Yield(Head(env))
    /\ env' = <<>>
    /\ UNCHANGED <<delay, subTodo, subs, queue, known, stop, cancelled, sent, lost, fails>>

\* The iterating loop has handled the envelope and asks for the next one.
Consume ==
    /\ pc = "yield"
    /\ pc' = "receive"
    /\ UNCHANGED <<delay, sessionVars, known, stop, cancelled, histVars>>

\* The source waits for the broker: in the connect, a subscribe or the iterator.
AwaitsBroker ==
    \/ pc \in {"connect", "receive"}
    \/ pc \in {"subscribe", "discover"} /\ subTodo # {}

\* aiomqtt.MqttError out of any of them.
MqttError ==
    /\ AwaitsBroker
    /\ pc' = IF stop THEN "done" ELSE "sleep"
    /\ EndSession
    /\ fails' = Smaller(fails + 1, MaxFails)
    /\ UNCHANGED <<delay, known, stop, cancelled, sent, out>>

NextDelay == Smaller(delay * Factor, MaxDelay)

\* Fault: the source sleeps on instead of trying again.
WakeSleepsOn ==
    /\ pc = "sleep"
    /\ delay' = NextDelay
    /\ UNCHANGED <<pc, sessionVars, known, stop, cancelled, histVars>>

\* asyncio.sleep(delay) is over.
Wake ==
    /\ pc = "sleep"
    /\ pc' = "loop"
    /\ delay' = NextDelay
    /\ UNCHANGED <<sessionVars, known, stop, cancelled, histVars>>

\* The task is cancelled (Ctrl-C, SIGTERM).  The generator returns, or the body
\* of the loop ends and closes the source; a sleeping one swallows it and goes on.
Cancel ==
    /\ ~cancelled
    /\ AwaitsBroker \/ pc \in {"yield", "sleep"}
    /\ cancelled' = TRUE
    /\ pc' = IF pc = "sleep" THEN "loop" ELSE "done"
    /\ delay' = IF pc = "sleep" THEN NextDelay ELSE delay
    /\ stop' = (stop \/ pc # "sleep")
    /\ EndSession
    /\ UNCHANGED <<known, sent, out, fails>>

\* The body raises: its finally clause closes the source.
ConsumerRaises ==
    /\ pc = "yield"
    /\ pc' = "done"
    /\ stop' = TRUE
    /\ EndSession
    /\ UNCHANGED <<delay, known, cancelled, sent, out, fails>>

\* close() by another task.
Close ==
    /\ stop' = TRUE
    /\ UNCHANGED <<pc, delay, sessionVars, known, cancelled, histVars>>

\* The broker delivers a message of a subscription it holds.
Deliver(m) ==
    /\ InSession
    /\ Len(sent) < MaxMsgs
    /\ <<m.topic, IF m.topic \in DroneTopics THEN m.sn ELSE NoDrone>> \in subs
    /\ m.topic \in DroneTopics => m.sn # NoDrone
    /\ m.topic \in DockTopics \ {DockOsd} => m.sn = NoDrone
    /\ sent' = Append(sent, m)
    /\ queue' = Append(queue, Len(sent'))
    /\ UNCHANGED <<pc, delay, subTodo, subs, env, known, stop, cancelled, out, lost, fails>>

\* What the task does by itself once it is not waiting for the broker.
Step ==
    \/ LoopTop \/ StartReceiving \/ Discovered \/ Consume \/ Wake
    \/ ReceiveStop \/ ReceiveUndecodable \/ ReceiveAnnouncement \/ Receive

Next ==
    \/ Step
    \/ ConnectOk \/ MqttError \/ Cancel \/ ConsumerRaises \/ Close
    \/ \E t \in DockTopics : SubscribeOk(t)
    \/ \E t \in DroneTopics : DiscoverOk(t)
    \/ \E m \in Message : Deliver(m)

Spec == Init /\ [][Next]_vars

\* The event loop runs the task, sleeps end, and the broker is not away for ever:
\* tried again and again, a connect and a subscribe succeed at some point.
FairSpec ==
    /\ Spec
    /\ WF_vars(Step)
    /\ SF_vars(ConnectOk)
    /\ \A t \in DockTopics : SF_vars(SubscribeOk(t))
    /\ \A t \in DroneTopics : WF_vars(DiscoverOk(t))

-----------------------------------------------------------------------------
(* Properties.                                                             *)

Indices == 1..Len(sent)
InHand == ToSet(queue) \cup ToSet(env)

\* While messages are awaited every dock topic is subscribed in the session at
\* hand, whichever reconnects came before (_subscribe_dock_topics).
DockSubscribed ==
    pc \in {"receive", "discover", "yield"} =>
        \A t \in DockTopics : <<t, NoDrone>> \in subs

\* Envelopes are yielded in the order of delivery, each once, and a decodable
\* message is skipped only if its session ended before its turn.
NothingSkipped ==
    /\ \A i, j \in 1..Len(out) : i < j => out[i] < out[j]
    /\ \A i \in Indices : sent[i].json => i \in ToSet(out) \cup InHand \cup lost
    /\ ToSet(out) \cap (InHand \cup lost) = {}

\* Every drone envelope comes after a dock OSD that announced this very drone:
\* downstream never sees a drone whose dock it has not heard of.
DroneAfterDock ==
    \A j \in 1..Len(out) : sent[out[j]].topic \in DroneTopics =>
        \E i \in 1..(j - 1) :
            sent[out[i]].topic = DockOsd /\ sent[out[i]].sn = sent[out[j]].sn

Power[n \in Nat] == IF n = 0 THEN 1 ELSE Factor * Power[n - 1]

\* The sleep after the k-th failure in a row lasts initial * factor^(k-1) seconds,
\* at most max_delay_s; only a full subscription starts the count again.
BackoffFollowsFailures ==
    pc = "sleep" /\ fails < MaxFails =>
        delay = IF fails = 1 THEN InitialDelay
                ELSE Smaller(InitialDelay * Power[fails - 1], MaxDelay)

\* After a failure the source gets back to receiving unless it is stopped.
Resubscribes == pc = "sleep" ~> pc \in {"receive", "done"}

\* The dock's OSD triggers the subscription of the drone topics (mqtt_source.py:6):
\* once an OSD with a drone is handed on, they are subscribed.
DroneTopicsFollowOsd ==
    (/\ pc = "yield"
     /\ sent[Last(out)].topic = DockOsd
     /\ sent[Last(out)].sn # NoDrone)
    => \A t \in DroneTopics : \E d \in Drones : <<t, d>> \in subs
=============================================================================
