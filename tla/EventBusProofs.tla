----------------------------- MODULE EventBusProofs -----------------------------
(***************************************************************************)
(* The event bus for any number of browsers and any size of the queues: no *)
(* client misses an event in the middle, however slow it or the others are.*)
(***************************************************************************)
EXTENDS EventBus, SequenceTheorems, TLAPS

\* Before it subscribes a client has nothing, and its first event is counted from
\* what was published.
Fresh ==
    \A c \in Clients : pc[c] = "off" => queue[c] = <<>> /\ got[c] = <<>>

BusInv == TypeOK /\ Fresh /\ NoGap

\* The next number at the end of a run makes a longer run.
LEMMA RunAppend ==
    ASSUME NEW m \in Nat, NEW s \in Seq(0..m), NEW n \in Nat, Run(s, n), n + Len(s) \in 0..m
    PROVE  /\ Append(s, n + Len(s)) \in Seq(0..m)
           /\ Len(Append(s, n + Len(s))) = Len(s) + 1 /\ Len(s) \in Nat
           /\ Run(Append(s, n + Len(s)), n)
<1> DEFINE t == Append(s, n + Len(s))
<1>1. /\ t \in Seq(0..m) /\ Len(t) = Len(s) + 1 /\ t[Len(s) + 1] = n + Len(s)
      /\ \A i \in 1..Len(s) : t[i] = s[i]
  BY AppendProperties
<1>2. Len(s) \in Nat
  BY LenProperties
<1> HIDE DEF t
<1>3. \A i \in 1..Len(t) : i \in 1..Len(s) \/ i = Len(s) + 1
  BY <1>1, <1>2
<1>4. \A i \in 1..Len(s) : s[i] = n + i - 1
  BY DEF Run
<1>5. \A i \in 1..Len(t) : t[i] = n + i - 1
  <2> SUFFICES ASSUME NEW i \in 1..Len(t) PROVE t[i] = n + i - 1
    OBVIOUS
  <2>1. CASE i \in 1..Len(s)
    BY <1>1, <1>4, <2>1
  <2>2. CASE i = Len(s) + 1
    BY <1>1, <1>2, <2>2
  <2> QED BY <1>3, <2>1, <2>2
<1> QED
  BY <1>1, <1>2, <1>5 DEF Run, t

\* A run starts with its first number, and the rest runs on from there.
LEMMA RunTail ==
    ASSUME NEW m \in Nat, NEW s \in Seq(0..m), NEW n \in Nat, Run(s, n), s # <<>>
    PROVE  /\ Head(s) = n /\ n \in 0..m /\ Len(s) \in Nat \ {0}
           /\ Tail(s) \in Seq(0..m) /\ Len(Tail(s)) = Len(s) - 1
           /\ Run(Tail(s), n + 1)
<1>1. Len(s) \in Nat \ {0}
  BY EmptySeq
<1>2. /\ Tail(s) \in Seq(0..m) /\ Len(Tail(s)) = Len(s) - 1 /\ Head(s) \in 0..m
      /\ \A i \in 1..Len(Tail(s)) : Tail(s)[i] = s[i + 1]
  BY HeadTailProperties
<1>3. Head(s) = s[1]
  OBVIOUS
<1>4. \A i \in 1..Len(s) : s[i] = n + i - 1
  BY DEF Run
<1>5. Head(s) = n
  BY <1>1, <1>3, <1>4
<1>6. \A i \in 1..Len(Tail(s)) : Tail(s)[i] = (n + 1) + i - 1
  BY <1>1, <1>2, <1>4
<1> QED
  BY <1>1, <1>2, <1>5, <1>6 DEF Run

\* The part of BusInv that is about one client.
ClientOK(c) ==
    /\ queue[c] \in Seq(0..published) /\ Len(queue[c]) <= QueueMax
    /\ pc[c] \in {"off", "get", "write", "ended"}
    /\ first[c] \in 1..(MaxEvents + 1)
    /\ got[c] \in Seq(1..MaxEvents)
    /\ c \in subscribers => Open(c)
    /\ pc[c] = "off" => queue[c] = <<>> /\ got[c] = <<>>
    /\ Run(got[c], first[c])
    /\ Run(queue[c], first[c] + Len(got[c]))
    /\ c \in subscribers => Len(got[c]) + Len(queue[c]) = published + 1 - first[c]

Tables ==
    /\ subscribers \subseteq Clients /\ gone \subseteq Clients
    /\ published \in 0..MaxEvents
    /\ DOMAIN queue = Clients /\ DOMAIN pc = Clients /\ DOMAIN first = Clients /\ DOMAIN got = Clients
    /\ queue = [c \in Clients |-> queue[c]] /\ pc = [c \in Clients |-> pc[c]]
    /\ first = [c \in Clients |-> first[c]] /\ got = [c \in Clients |-> got[c]]

AllOK == Tables /\ \A c \in Clients : ClientOK(c)

LEMMA InvByClient == BusInv <=> AllOK
<1> USE DEF AllOK
<1>1. BusInv => AllOK
  BY DEF BusInv, Tables, ClientOK, TypeOK, Fresh, NoGap
<1>2. AllOK => BusInv
  <2> SUFFICES ASSUME Tables, \A c \in Clients : ClientOK(c)
               PROVE  BusInv
    OBVIOUS
  <2>1. TypeOK
    BY DEF Tables, ClientOK, TypeOK
  <2>2. Fresh /\ NoGap
    BY DEF ClientOK, Fresh, NoGap
  <2> QED BY <2>1, <2>2 DEF BusInv
<1> QED BY <1>1, <1>2

\* A client nothing happened to stays as it should be.
LEMMA ClientUntouched ==
    ASSUME NEW c \in Clients, ClientOK(c), published' = published,
           queue'[c] = queue[c], first'[c] = first[c], got'[c] = got[c],
           pc'[c] = pc[c] \/ (pc[c] # "off" /\ pc'[c] \in {"get", "write"}),
           c \in subscribers' <=> c \in subscribers
    PROVE  ClientOK(c)'
BY DEF ClientOK, Open, Run

\* The stream of a client ends: its queue is dropped, what it got stays.
LEMMA EndStreamKeeps ==
    ASSUME Tables, NEW c \in Clients, ClientOK(c), EndStream(c),
           UNCHANGED <<gone, published, first, got>>
    PROVE  Tables' /\ ClientOK(c)'
<1>1. Tables'
  BY DEF Tables, EndStream
<1>2. queue'[c] = <<>> /\ pc'[c] = "ended" /\ c \notin subscribers' /\ QueueMax \in Nat
  BY BusAssumption DEF Tables, EndStream
<1>3. <<>> \in Seq(0..published) /\ Len(<<>>) = 0 /\ Run(<<>>, first[c] + Len(got[c]))
  BY EmptySeq DEF Run
<1>4. /\ first'[c] = first[c] /\ got'[c] = got[c] /\ published' = published
      /\ first[c] \in 1..(MaxEvents + 1) /\ got[c] \in Seq(1..MaxEvents) /\ Run(got[c], first[c])
  BY DEF ClientOK
<1>5. (Run(got[c], first[c]) /\ Run(queue[c], first[c] + Len(got[c])))'
  BY <1>2, <1>3, <1>4 DEF Run
<1> QED BY <1>1, <1>2, <1>3, <1>4, <1>5 DEF ClientOK, Open

LEMMA SubscribeKeeps ==
    ASSUME Tables, NEW c \in Clients, ClientOK(c), Subscribe(c)
    PROVE  Tables' /\ ClientOK(c)'
<1>1. Tables'
  BY DEF Tables, Subscribe
<1>2. /\ pc'[c] = "get" /\ first'[c] = published + 1 /\ c \in subscribers'
      /\ queue'[c] = <<>> /\ got'[c] = <<>> /\ published' = published
  BY DEF Tables, ClientOK, Subscribe
<1>3. published \in 0..MaxEvents /\ MaxEvents \in Nat /\ QueueMax \in Nat
  BY BusAssumption DEF Tables
<1>4. <<>> \in Seq(0..published) /\ <<>> \in Seq(1..MaxEvents) /\ Len(<<>>) = 0
  BY EmptySeq
<1>5. (Run(got[c], first[c]) /\ Run(queue[c], first[c] + Len(got[c])))'
  BY <1>2, <1>4 DEF Run
<1> QED BY <1>1, <1>2, <1>3, <1>4, <1>5 DEF ClientOK, Open

\* What a well-formed client looks like, in terms of sequences alone.
LEMMA ClientFacts ==
    ASSUME Tables, NEW c \in Clients, ClientOK(c)
    PROVE  /\ published \in Nat /\ published <= MaxEvents /\ MaxEvents \in Nat /\ QueueMax \in Nat
           /\ first[c] \in Nat /\ first[c] >= 1 /\ first[c] <= MaxEvents + 1
           /\ got[c] \in Seq(0..MaxEvents) /\ Len(got[c]) \in Nat
           /\ queue[c] \in Seq(0..published) /\ Len(queue[c]) \in Nat /\ Len(queue[c]) <= QueueMax
           /\ first[c] + Len(got[c]) \in Nat
<1>1. published \in 0..MaxEvents /\ MaxEvents \in Nat /\ QueueMax \in Nat
  BY BusAssumption DEF Tables
<1>2. \A s \in Seq(1..MaxEvents) : s \in Seq(0..MaxEvents)
  BY <1>1
<1>3. /\ first[c] \in 1..(MaxEvents + 1) /\ got[c] \in Seq(0..MaxEvents)
      /\ queue[c] \in Seq(0..published) /\ Len(queue[c]) <= QueueMax
  BY <1>2 DEF ClientOK
<1>4. Len(got[c]) \in Nat /\ Len(queue[c]) \in Nat
  BY <1>3, LenProperties
<1> QED BY <1>1, <1>3, <1>4

LEMMA GetKeeps ==
    ASSUME Tables, NEW c \in Clients, ClientOK(c), Get(c)
    PROVE  Tables' /\ ClientOK(c)'
<1>1. CASE Head(queue[c]) = Sentinel
  <2>1. EndStream(c) /\ UNCHANGED <<gone, published, first, got>>
    BY <1>1 DEF Get
  <2> QED BY <2>1, EndStreamKeeps
<1>2. CASE Head(queue[c]) # Sentinel
  <2>1. /\ got' = [got EXCEPT ![c] = Append(@, Head(queue[c]))] /\ queue' = [queue EXCEPT ![c] = Tail(@)]
        /\ pc' = [pc EXCEPT ![c] = "write"] /\ UNCHANGED <<subscribers, gone, published, first>>
        /\ pc[c] = "get" /\ queue[c] # <<>>
    BY <1>2 DEF Get
  <2>2. Tables'
    BY <2>1 DEF Tables
  <2> DEFINE g == got[c]
             q == queue[c]
             f == first[c]
  <2>3. /\ got'[c] = Append(g, Head(q)) /\ queue'[c] = Tail(q) /\ pc'[c] = "write" /\ first'[c] = f
    BY <2>1 DEF Tables
  <2>4. /\ published \in Nat /\ published <= MaxEvents /\ MaxEvents \in Nat /\ QueueMax \in Nat
        /\ f \in Nat /\ f >= 1 /\ f <= MaxEvents + 1 /\ g \in Seq(0..MaxEvents) /\ Len(g) \in Nat
        /\ q \in Seq(0..published) /\ Len(q) \in Nat /\ Len(q) <= QueueMax /\ f + Len(g) \in Nat
    BY ClientFacts
  <2>5. /\ Run(g, f) /\ Run(q, f + Len(g)) /\ g \in Seq(1..MaxEvents)
        /\ c \in subscribers => Len(g) + Len(q) = published + 1 - f
    BY DEF ClientOK
  <2>6. q # <<>>
    BY <2>1
  <2> HIDE DEF g, q, f
  <2>7. /\ Head(q) = f + Len(g) /\ f + Len(g) \in 0..published
        /\ Tail(q) \in Seq(0..published) /\ Len(Tail(q)) = Len(q) - 1
        /\ Run(Tail(q), (f + Len(g)) + 1)
    BY <2>4, <2>5, <2>6, RunTail
  <2>8. f + Len(g) \in 0..MaxEvents /\ f + Len(g) \in 1..MaxEvents
    BY <2>4, <2>7
  <2>9. Len(Append(g, f + Len(g))) = Len(g) + 1 /\ Run(Append(g, f + Len(g)), f)
    BY <2>4, <2>5, <2>8, RunAppend
  <2>10. Append(g, f + Len(g)) \in Seq(1..MaxEvents)
    BY <2>5, <2>8, AppendProperties
  <2>11. /\ Len(queue'[c]) <= QueueMax /\ f + Len(got'[c]) = (f + Len(g)) + 1
         /\ c \in subscribers => Len(got'[c]) + Len(queue'[c]) = published + 1 - f
    <3>1. Len(got'[c]) = Len(g) + 1 /\ Len(queue'[c]) = Len(q) - 1
      BY <2>3, <2>7, <2>9
    <3>2. /\ Len(q) \in Nat /\ Len(g) \in Nat /\ f \in Nat /\ published \in Nat /\ QueueMax \in Nat
          /\ Len(q) <= QueueMax
          /\ c \in subscribers => Len(g) + Len(q) = published + 1 - f
      BY <2>4, <2>5
    <3> QED BY <3>1, <3>2
  <2>12. (Run(got[c], first[c]) /\ Run(queue[c], first[c] + Len(got[c])))'
    <3>1. Run(got'[c], f) /\ Run(queue'[c], f + Len(got'[c]))
      BY <2>3, <2>7, <2>9, <2>11
    <3> QED BY <2>3, <3>1 DEF Run
  <2>13. /\ queue'[c] \in Seq(0..published') /\ first'[c] \in 1..(MaxEvents + 1) /\ published' = published
         /\ got'[c] \in Seq(1..MaxEvents) /\ subscribers' = subscribers
    <3>1. published' = published /\ subscribers' = subscribers
      BY <2>1
    <3>2. f \in 1..(MaxEvents + 1)
      BY <2>4
    <3>3. queue'[c] \in Seq(0..published) /\ got'[c] \in Seq(1..MaxEvents)
      BY <2>3, <2>7, <2>10
    <3> QED BY <2>3, <3>1, <3>2, <3>3
  <2> QED
    BY <2>2, <2>3, <2>11, <2>12, <2>13 DEF ClientOK, Open
<1> QED BY <1>1, <1>2

LEMMA PublishKeeps ==
    ASSUME Tables, NEW c \in Clients, ClientOK(c), Publish
    PROVE  ClientOK(c)'
<1> DEFINE g == got[c]
           q == queue[c]
           f == first[c]
<1>1. /\ published' = published + 1 /\ published < MaxEvents
      /\ pc'[c] = pc[c] /\ got'[c] = g /\ first'[c] = f /\ subscribers' = subscribers \ Full
      /\ queue'[c] = IF c \in Full THEN PutNowait(q, Sentinel)
                     ELSE IF c \in subscribers THEN PutNowait(q, published') ELSE q
  BY DEF Publish
<1>2. /\ published \in Nat /\ published <= MaxEvents /\ MaxEvents \in Nat /\ QueueMax \in Nat
      /\ f \in Nat /\ f >= 1 /\ f <= MaxEvents + 1 /\ g \in Seq(0..MaxEvents) /\ Len(g) \in Nat
      /\ q \in Seq(0..published) /\ Len(q) \in Nat /\ Len(q) <= QueueMax /\ f + Len(g) \in Nat
  BY ClientFacts
<1>3. /\ Run(g, f) /\ Run(q, f + Len(g)) /\ g \in Seq(1..MaxEvents)
      /\ c \in subscribers => Len(g) + Len(q) = published + 1 - f
      /\ pc[c] \in {"off", "get", "write", "ended"} /\ (c \in subscribers => Open(c))
      /\ pc[c] = "off" => q = <<>> /\ g = <<>>
  BY DEF ClientOK
<1>4. c \in Full <=> c \in subscribers /\ Len(q) >= QueueMax
  BY DEF Full
<1>5. f \in 1..(MaxEvents + 1)
  BY <1>2
<1> HIDE DEF g, q, f
<1>6. \A s \in Seq(0..published) : s \in Seq(0..published')
  BY <1>1, <1>2
<1>7. CASE c \notin subscribers \ Full
  <2>1. queue'[c] = q
    BY <1>1, <1>2, <1>4, <1>7 DEF PutNowait
  <2>2. (Run(got[c], first[c]) /\ Run(queue[c], first[c] + Len(got[c])))'
    BY <1>1, <1>3, <2>1 DEF Run
  <2> QED BY <1>1, <1>2, <1>3, <1>5, <1>6, <1>7, <2>1, <2>2 DEF ClientOK, Open
<1>8. CASE c \in subscribers \ Full
  <2>1. queue'[c] = Append(q, published') /\ Len(q) < QueueMax
    BY <1>1, <1>2, <1>4, <1>8 DEF PutNowait
  <2>2. published' = (f + Len(g)) + Len(q) /\ published' \in Nat /\ published' \in 0..published'
    <3>1. published' = published + 1 /\ Len(g) + Len(q) = published + 1 - f
      BY <1>1, <1>3, <1>8
    <3>2. published \in Nat /\ Len(g) \in Nat /\ Len(q) \in Nat /\ f \in Nat
      BY <1>2
    <3> QED BY <3>1, <3>2
  <2>3. q \in Seq(0..published')
    BY <1>2, <1>6
  <2>4. /\ queue'[c] \in Seq(0..published') /\ Len(queue'[c]) = Len(q) + 1
        /\ Run(queue'[c], f + Len(g))
    BY <1>2, <1>3, <2>1, <2>2, <2>3, RunAppend
  <2>5. /\ Len(queue'[c]) <= QueueMax
        /\ Len(got'[c]) + Len(queue'[c]) = published' + 1 - first'[c]
    <3>1. Len(queue'[c]) = Len(q) + 1 /\ Len(q) < QueueMax
      BY <2>1, <2>4
    <3>2. got'[c] = g /\ first'[c] = f /\ published' = published + 1
      BY <1>1
    <3>3. Len(g) + Len(q) = published + 1 - f
      BY <1>3, <1>8
    <3>4. /\ published \in Nat /\ QueueMax \in Nat /\ f \in Nat
          /\ Len(g) \in Nat /\ Len(q) \in Nat
      BY <1>2
    <3> QED BY <3>1, <3>2, <3>3, <3>4
  <2>6. (Run(got[c], first[c]) /\ Run(queue[c], first[c] + Len(got[c])))'
    BY <1>1, <1>3, <2>4 DEF Run
  <2>7. pc[c] # "off"
    BY <1>3, <1>8 DEF Open
  <2> QED BY <1>1, <1>3, <1>5, <2>4, <2>5, <2>6, <2>7 DEF ClientOK, Open
<1> QED BY <1>7, <1>8

\* The steps of one client leave the other clients alone.
LEMMA OthersUntouched ==
    ASSUME Tables, NEW c \in Clients, NEW d \in Clients, c # d, ClientOK(d),
           Subscribe(c) \/ Get(c) \/ Timeout(c) \/ Written(c) \/ Leave(c) \/ Cancelled(c)
    PROVE  ClientOK(d)'
<1>1. /\ published' = published /\ queue'[d] = queue[d] /\ first'[d] = first[d] /\ got'[d] = got[d]
      /\ pc'[d] = pc[d] /\ (d \in subscribers' <=> d \in subscribers)
  BY DEF Tables, Subscribe, Get, Timeout, Written, Leave, Cancelled, EndStream
<1> QED BY <1>1, ClientUntouched

LEMMA ClientStepKeeps ==
    ASSUME Tables, NEW c \in Clients, ClientOK(c),
           Subscribe(c) \/ Get(c) \/ Timeout(c) \/ Written(c) \/ Leave(c) \/ Cancelled(c)
    PROVE  Tables' /\ ClientOK(c)'
<1>1. CASE Subscribe(c)
  BY <1>1, SubscribeKeeps
<1>2. CASE Get(c)
  BY <1>2, GetKeeps
<1>3. CASE Timeout(c) /\ c \in gone
  BY <1>3, EndStreamKeeps DEF Timeout
<1>4. CASE Cancelled(c)
  BY <1>4, EndStreamKeeps DEF Cancelled
<1>5. CASE (Timeout(c) /\ c \notin gone) \/ Written(c) \/ Leave(c)
  <2>1. Tables'
    BY <1>5 DEF Tables, Timeout, Written, Leave
  <2>2. /\ published' = published /\ queue'[c] = queue[c] /\ first'[c] = first[c] /\ got'[c] = got[c]
        /\ pc'[c] = pc[c] \/ (pc[c] # "off" /\ pc'[c] \in {"get", "write"})
        /\ subscribers' = subscribers
    BY <1>5 DEF Tables, Timeout, Written, Leave
  <2> QED BY <2>1, <2>2, ClientUntouched
<1> QED BY <1>1, <1>2, <1>3, <1>4, <1>5

LEMMA StepKeepsBus == AllOK /\ [Next]_vars => AllOK'
<1> SUFFICES ASSUME Tables, \A c \in Clients : ClientOK(c), [Next]_vars
             PROVE  Tables' /\ \A c \in Clients : ClientOK(c)'
  BY DEF AllOK
<1>1. CASE Publish
  <2>1. Tables'
    BY <1>1, BusAssumption DEF Tables, Publish
  <2> QED BY <1>1, <2>1, PublishKeeps
<1>2. ASSUME NEW c \in Clients,
             Subscribe(c) \/ Get(c) \/ Timeout(c) \/ Written(c) \/ Leave(c) \/ Cancelled(c)
      PROVE  Tables' /\ \A d \in Clients : ClientOK(d)'
  <2>1. Tables' /\ ClientOK(c)'
    BY <1>2, ClientStepKeeps
  <2>2. \A d \in Clients \ {c} : ClientOK(d)'
    BY <1>2, OthersUntouched
  <2> QED BY <2>1, <2>2
<1>3. CASE UNCHANGED vars
  <2>1. Tables'
    BY <1>3 DEF Tables, vars
  <2>2. \A c \in Clients : ClientOK(c)'
    BY <1>3, ClientUntouched DEF vars
  <2> QED BY <2>1, <2>2
<1> QED BY <1>1, <1>2, <1>3 DEF Next

LEMMA InitBus == Init => AllOK
<1> SUFFICES ASSUME Init PROVE BusInv
  BY InvByClient
<1>1. MaxEvents \in Nat /\ QueueMax \in Nat
  BY BusAssumption
<1>2. TypeOK
  BY <1>1 DEF Init, TypeOK, Open
<1>3. Fresh /\ NoGap
  BY DEF Init, Fresh, NoGap, Run
<1> QED BY <1>2, <1>3 DEF BusInv

\* Queues stay within their size and only open streams are subscribed (publish,
\* subscribe, _sse_stream).
THEOREM BusTypeCorrect == Spec => []TypeOK
<1>1. AllOK => TypeOK
  BY InvByClient DEF BusInv
<1> QED BY <1>1, InitBus, StepKeepsBus, PTL DEF Spec

\* No client misses an event in the middle, for any number of clients, any size of
\* the queues and any interleaving of publications, reads, drops and departures.
THEOREM NothingMissed == Spec => []NoGap
<1>1. AllOK => NoGap
  BY InvByClient DEF BusInv
<1> QED BY <1>1, InitBus, StepKeepsBus, PTL DEF Spec
=============================================================================
