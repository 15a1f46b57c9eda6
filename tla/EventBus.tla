------------------------------- MODULE EventBus -------------------------------
(***************************************************************************)
(* EventBus and the SSE generators of GET /events: the live loop publishes *)
(* without blocking into one bounded queue per client, each generator      *)
(* takes from its queue, writes to its client, sends keep-alives when      *)
(* nothing comes, and ends when it finds the sentinel, the client gone, or *)
(* its task cancelled.                                                     *)
(*                                                                         *)
(* Events are numbered in the order of their publication.  All of it runs  *)
(* on one event loop: a publish is one step.                               *)
(***************************************************************************)
EXTENDS Integers, Sequences, FiniteSets, SequencesExt

CONSTANTS
    Clients,     \* browsers that may open /events
    QueueMax,    \* _QUEUE_MAXSIZE
    MaxEvents    \* bound: events published

Sentinel == 0

ASSUME BusAssumption ==
    /\ IsFiniteSet(Clients)
    /\ QueueMax \in Nat \ {0}
    /\ MaxEvents \in Nat

VARIABLES
    subscribers, \* _subscribers, as the set of their clients
    queue,       \* queue[c]: event numbers and sentinels waiting for client c
    pc,          \* pc[c]: where the generator of client c stands
    gone,        \* clients that closed their connection
    published,   \* events published so far
    first,       \* history: first[c], the first event after c subscribed
    got          \* history: got[c], events the generator took for client c

vars == <<subscribers, queue, pc, gone, published, first, got>>

Init ==
    /\ subscribers = {}
    /\ queue = [c \in Clients |-> <<>>]
    /\ pc = [c \in Clients |-> "off"]
    /\ gone = {}
    /\ published = 0
    /\ first = [c \in Clients |-> 1]
    /\ got = [c \in Clients |-> <<>>]

\* GET /events: the generator enters bus.subscribe().
Subscribe(c) ==
    /\ pc[c] = "off"
    /\ pc' = [pc EXCEPT ![c] = "get"]
    /\ subscribers' = subscribers \cup {c}
    /\ first' = [first EXCEPT ![c] = published + 1]
    /\ UNCHANGED <<queue, gone, published, got>>

\* put_nowait: nothing happens to a full queue (QueueFull is caught).
PutNowait(q, item) == IF Len(q) < QueueMax THEN Append(q, item) ELSE q

Full == {c \in subscribers : Len(queue[c]) >= QueueMax}

\* Fault: one full queue ends the publication to the others.
PublishStopsAtFull ==
    /\ published < MaxEvents
    /\ published' = published + 1
    /\ subscribers' = subscribers \ Full
    /\ queue' = [c \in Clients |->
                    IF c \in subscribers /\ Full = {} THEN PutNowait(queue[c], published')
                    ELSE queue[c]]
    /\ UNCHANGED <<pc, gone, first, got>>

\* Fault: a full queue loses the event, its subscriber stays.
PublishKeepsFull ==
    /\ published < MaxEvents
    /\ published' = published + 1
    /\ queue' = [c \in Clients |->
                    IF c \in subscribers THEN PutNowait(queue[c], published') ELSE queue[c]]
    /\ UNCHANGED <<subscribers, pc, gone, first, got>>

\* publish(): into every subscriber's queue; the full ones are unsubscribed and
\* then sent the sentinel.
Publish ==
    /\ published < MaxEvents
    /\ published' = published + 1
    /\ subscribers' = subscribers \ Full
    /\ queue' = [c \in Clients |->
                    IF c \in Full THEN PutNowait(queue[c], Sentinel)
                    ELSE IF c \in subscribers THEN PutNowait(queue[c], published')
                    ELSE queue[c]]
    /\ UNCHANGED <<pc, gone, first, got>>

\* Leaving bus.subscribe(): the finally clause unsubscribes the queue.
EndStream(c) ==
    /\ pc' = [pc EXCEPT ![c] = "ended"]
    /\ subscribers' = subscribers \ {c}
    /\ queue' = [queue EXCEPT ![c] = <<>>]

\* queue.get() returned: the sentinel ends the stream, the frame of an event is
\* yielded to the response.  (publish() puts the sentinel only where it cannot fit.)
Get(c) ==
    /\ pc[c] = "get" /\ queue[c] # <<>>
    /\ IF Head(queue[c]) = Sentinel THEN EndStream(c) /\ got' = got
       ELSE /\ got' = [got EXCEPT ![c] = Append(@, Head(queue[c]))]
            /\ queue' = [queue EXCEPT ![c] = Tail(@)]
            /\ pc' = [pc EXCEPT ![c] = "write"]
            /\ UNCHANGED subscribers
    /\ UNCHANGED <<gone, published, first>>

\* Nothing for 15 seconds: a keep-alive is written, or the client is found gone.
Timeout(c) ==
    /\ pc[c] = "get" /\ queue[c] = <<>>
    /\ IF c \in gone THEN EndStream(c)
       ELSE /\ pc' = [pc EXCEPT ![c] = "write"]
            /\ UNCHANGED <<subscribers, queue>>
    /\ UNCHANGED <<gone, published, first, got>>

\* The response has taken the chunk; the generator is resumed.
Written(c) ==
    /\ pc[c] = "write"
    /\ pc' = [pc EXCEPT ![c] = "get"]
    /\ UNCHANGED <<subscribers, queue, gone, published, first, got>>

\* The browser closes its connection, for good.
Leave(c) ==
    /\ pc[c] \in {"get", "write"} /\ c \notin gone
    /\ gone' = gone \cup {c}
    /\ UNCHANGED <<subscribers, queue, pc, published, first, got>>

\* The server cancels the response of a client that is gone.
Cancelled(c) ==
    /\ pc[c] \in {"get", "write"} /\ c \in gone
    /\ EndStream(c)
    /\ UNCHANGED <<gone, published, first, got>>

Next ==
    \/ Publish
    \/ \E c \in Clients :
         \/ Subscribe(c) \/ Get(c) \/ Timeout(c) \/ Written(c)
         \/ Leave(c) \/ Cancelled(c)

Spec == Init /\ [][Next]_vars

\* The event loop resumes every generator and every write ends, however slowly;
\* nothing makes a browser come or leave, or the live loop publish.
FairSpec ==
    /\ Spec
    /\ \A c \in Clients : WF_vars(Get(c) \/ Timeout(c) \/ Written(c))

-----------------------------------------------------------------------------
(* Properties.                                                             *)

Open(c) == pc[c] \in {"get", "write"}

\* Every variable holds a value of its type, no queue exceeds its size, and only
\* open streams are subscribed.
TypeOK ==
    /\ subscribers \subseteq {c \in Clients : Open(c)}
    /\ queue \in [Clients -> Seq(0..published)]
    /\ \A c \in Clients : Len(queue[c]) <= QueueMax
    /\ pc \in [Clients -> {"off", "get", "write", "ended"}]
    /\ gone \subseteq Clients
    /\ published \in 0..MaxEvents
    /\ first \in [Clients -> 1..(MaxEvents + 1)]
    /\ got \in [Clients -> Seq(1..MaxEvents)]

\* s holds the events from number n on, in order and without a gap.
Run(s, n) == \A i \in 1..Len(s) : s[i] = n + i - 1

\* What a client was handed and what waits for it are the events since it
\* subscribed, without a gap, a repetition or a reordering, up to the newest as long
\* as it is subscribed; no sentinel ever waits (publish, _sse_stream).
NoGap ==
    \A c \in Clients :
        /\ Run(got[c], first[c])
        /\ Run(queue[c], first[c] + Len(got[c]))
        /\ c \in subscribers => Len(got[c]) + Len(queue[c]) = published + 1 - first[c]

\* An event published while a client is subscribed is handed to it or its stream
\* ends, however slow the others are.
Handed ==
    \A c \in Clients, e \in 1..MaxEvents :
        (c \in subscribers /\ e <= published /\ e >= first[c])
            ~> (\E i \in 1..Len(got[c]) : got[c][i] = e) \/ pc[c] = "ended"

\* A slow client, once dropped, is disconnected so that the browser reconnects
\* (events.py:13): its stream comes to an end.
DroppedIsDisconnected ==
    \A c \in Clients : (Open(c) /\ c \notin subscribers) ~> pc[c] = "ended"
=============================================================================
