---------------------------- MODULE MqttSourceProofs ----------------------------
(***************************************************************************)
(* Proofs about MqttSource for any topics and drones, any number of        *)
(* messages and failures and every place a failure may strike.             *)
(***************************************************************************)
EXTENDS MqttSource, SequenceTheorems, WellFoundedInduction, TLAPS

Increasing(s) == \A i, j \in 1..Len(s) : i < j => s[i] < s[j]

\* The first of a queue of increasing numbers is the least, the rest increases on.
LEMMA TakeFirst ==
    ASSUME NEW n \in Nat, NEW s \in Seq(1..n), s # <<>>
    PROVE  /\ Head(s) \in 1..n /\ Tail(s) \in Seq(1..n)
           /\ ToSet(s) = {Head(s)} \cup ToSet(Tail(s))
           /\ Increasing(s) => /\ Increasing(Tail(s))
                               /\ \A b \in ToSet(Tail(s)) : Head(s) < b
<1>1. Len(s) \in Nat \ {0}
  BY EmptySeq
<1>2. /\ Head(s) \in 1..n /\ Tail(s) \in Seq(1..n) /\ Len(Tail(s)) = Len(s) - 1
      /\ \A i \in 1..Len(Tail(s)) : Tail(s)[i] = s[i + 1]
  BY HeadTailProperties
<1>3. Head(s) = s[1] /\ DOMAIN s = 1..Len(s) /\ DOMAIN Tail(s) = 1..Len(Tail(s))
  BY <1>2, LenProperties
<1>4. ToSet(s) = {Head(s)} \cup ToSet(Tail(s))
  <2>1. ASSUME NEW b \in ToSet(s) PROVE b \in {Head(s)} \cup ToSet(Tail(s))
    <3>1. PICK i \in 1..Len(s) : b = s[i]
      BY <1>3, <2>1 DEF ToSet
    <3>2. CASE i = 1
      BY <1>3, <3>1, <3>2
    <3>3. CASE i # 1
      <4>1. i - 1 \in 1..Len(Tail(s)) /\ (i - 1) + 1 = i
        BY <1>1, <1>2, <3>3
      <4>2. b = Tail(s)[i - 1]
        BY <1>2, <3>1, <4>1
      <4> QED BY <1>3, <4>1, <4>2 DEF ToSet
    <3> QED BY <3>2, <3>3
  <2>2. ASSUME NEW b \in ToSet(Tail(s)) PROVE b \in ToSet(s)
    <3>1. PICK i \in 1..Len(Tail(s)) : b = Tail(s)[i]
      BY <1>3, <2>2 DEF ToSet
    <3>2. i + 1 \in 1..Len(s) /\ b = s[i + 1]
      BY <1>1, <1>2, <3>1
    <3> QED BY <1>3, <3>2 DEF ToSet
  <2>3. Head(s) \in ToSet(s)
    <3>1. 1 \in DOMAIN s
      BY <1>1, <1>3
    <3> QED BY <1>3, <3>1 DEF ToSet
  <2> QED BY <2>1, <2>2, <2>3
<1>5. ASSUME Increasing(s)
      PROVE  Increasing(Tail(s)) /\ \A b \in ToSet(Tail(s)) : Head(s) < b
  <2>1. \A i \in 1..Len(Tail(s)) : i + 1 \in 1..Len(s) /\ Tail(s)[i] = s[i + 1] /\ 1 < i + 1
    BY <1>1, <1>2
  <2>2. \A i, j \in 1..Len(Tail(s)) : i < j => i + 1 < j + 1
    OBVIOUS
  <2>3. Increasing(Tail(s))
    BY <1>5, <2>1, <2>2 DEF Increasing
  <2>4. 1 \in 1..Len(s)
    BY <1>1
  <2>5. \A i \in 1..Len(Tail(s)) : Head(s) < Tail(s)[i]
    BY <1>3, <1>5, <2>1, <2>4 DEF Increasing
  <2> QED BY <1>3, <2>3, <2>5 DEF ToSet
<1> QED BY <1>2, <1>4, <1>5

\* A number above all others may be put at the end.
LEMMA PutLast ==
    ASSUME NEW n \in Nat, NEW s \in Seq(1..n), NEW e \in 1..n
    PROVE  /\ Append(s, e) \in Seq(1..n)
           /\ ToSet(Append(s, e)) = ToSet(s) \cup {e}
           /\ Increasing(s) /\ (\A b \in ToSet(s) : b < e) => Increasing(Append(s, e))
<1> DEFINE t == Append(s, e)
<1>1. /\ t \in Seq(1..n) /\ Len(t) = Len(s) + 1 /\ t[Len(s) + 1] = e
      /\ \A i \in 1..Len(s) : t[i] = s[i]
  BY AppendProperties
<1>2. Len(s) \in Nat
  BY LenProperties
<1>3. DOMAIN s = 1..Len(s) /\ DOMAIN t = 1..Len(t)
  BY <1>1, LenProperties
<1> HIDE DEF t
<1>4. \A i \in 1..Len(t) : i \in 1..Len(s) \/ i = Len(s) + 1
  BY <1>1, <1>2
<1>5. ToSet(t) = ToSet(s) \cup {e}
  <2>1. \A i \in 1..Len(s) : i \in 1..Len(t)
    BY <1>1, <1>2
  <2>2. Len(s) + 1 \in 1..Len(t)
    BY <1>1, <1>2
  <2>3. ToSet(t) \subseteq ToSet(s) \cup {e}
    BY <1>1, <1>3, <1>4 DEF ToSet
  <2>4. ToSet(s) \cup {e} \subseteq ToSet(t)
    BY <1>1, <1>3, <2>1, <2>2 DEF ToSet
  <2> QED BY <2>3, <2>4
<1>6. ASSUME Increasing(s), \A b \in ToSet(s) : b < e
      PROVE  Increasing(t)
  <2> SUFFICES ASSUME NEW i \in 1..Len(t), NEW j \in 1..Len(t), i < j
               PROVE  t[i] < t[j]
    BY DEF Increasing
  <2>1. i \in 1..Len(s)
    BY <1>1, <1>2, <1>4
  <2>2. CASE j \in 1..Len(s)
    BY <1>1, <1>6, <2>1, <2>2 DEF Increasing
  <2>3. CASE j = Len(s) + 1
    <3>1. s[i] \in ToSet(s)
      BY <1>3, <2>1 DEF ToSet
    <3> QED BY <1>1, <1>6, <2>1, <2>3, <3>1
  <2> QED BY <1>4, <2>2, <2>3
<1> QED BY <1>1, <1>5, <1>6 DEF t

LEMMA NoneAndOne ==
    ASSUME NEW n \in Nat
    PROVE  /\ <<>> \in Seq(1..n) /\ ToSet(<<>>) = {} /\ Increasing(<<>>)
           /\ \A e \in 1..n : <<e>> \in Seq(1..n) /\ ToSet(<<e>>) = {e} /\ Head(<<e>>) = e
<1>1. <<>> \in Seq(1..n) /\ Len(<<>>) = 0 /\ DOMAIN <<>> = {}
  BY EmptySeq
<1>2. ASSUME NEW e \in 1..n PROVE <<e>> \in Seq(1..n) /\ ToSet(<<e>>) = {e} /\ Head(<<e>>) = e
  <2>1. DOMAIN <<e>> = {1} /\ <<e>>[1] = e /\ <<e>> \in Seq(1..n)
    OBVIOUS
  <2> QED BY <2>1 DEF ToSet
<1> QED BY <1>1, <1>2 DEF ToSet, Increasing

(***************************************************************************)
(* The envelopes.                                                          *)
(***************************************************************************)

\* Indices that are history, in hand and lost are indices of messages sent.
Typed ==
    /\ sent \in Seq(Message)
    /\ out \in Seq(1..Len(sent))
    /\ queue \in Seq(1..Len(sent))
    /\ env \in Seq(1..Len(sent))
    /\ lost \subseteq 1..Len(sent)

\* What was yielded came before what is in hand, and the frame that announced
\* a drone before what queued up behind it.
InOrder ==
    /\ Increasing(out)
    /\ Increasing(queue)
    /\ \A a \in ToSet(out), b \in InHand : a < b
    /\ \A a \in ToSet(env), b \in ToSet(queue) : a < b

Apart == lost \cap (ToSet(out) \cup InHand) = {}

Covered == \A i \in 1..Len(sent) : sent[i].json => i \in ToSet(out) \cup InHand \cup lost

\* A frame is in hand during a discovery and at no other time.
Discovery ==
    /\ pc = "discover" => \E i \in 1..Len(sent) : env = <<i>>
    /\ pc # "discover" => env = <<>>

EInv == Typed /\ InOrder /\ Apart /\ Covered /\ Discovery

LEMMA InitEnvelopes == Init => EInv
<1> SUFFICES ASSUME Init PROVE EInv
  OBVIOUS
<1>1. /\ sent = <<>> /\ out = <<>> /\ queue = <<>> /\ env = <<>> /\ lost = {} /\ pc = "loop"
  BY DEF Init
<1>2. Len(sent) = 0 /\ sent \in Seq(Message) /\ 1..Len(sent) = {}
  BY <1>1, EmptySeq
<1>3. ToSet(<<>>) = {} /\ Increasing(<<>>) /\ <<>> \in Seq(1..Len(sent))
  BY <1>2, NoneAndOne
<1> QED BY <1>1, <1>2, <1>3 DEF EInv, Typed, InOrder, Apart, Covered, Discovery, InHand

\* A step that touches none of the messages.
LEMMA IdleEnvelopes ==
    ASSUME EInv, UNCHANGED <<sent, out, queue, env, lost>>,
           (pc = "discover") <=> (pc' = "discover")
    PROVE  EInv'
BY DEF EInv, Typed, InOrder, Apart, Covered, Discovery, InHand

\* The end of a session loses what was in hand and nothing else.
LEMMA EndSessionEnvelopes ==
    ASSUME EInv, EndSession, UNCHANGED <<sent, out>>, pc' # "discover"
    PROVE  EInv'
<1>1. /\ queue' = <<>> /\ env' = <<>> /\ sent' = sent /\ out' = out
      /\ lost' = lost \cup ToSet(queue) \cup ToSet(env)
  BY DEF EndSession
<1>2. Len(sent) \in Nat
  BY LenProperties DEF EInv, Typed
<1>3. ToSet(<<>>) = {} /\ Increasing(<<>>) /\ <<>> \in Seq(1..Len(sent))
  BY <1>2, NoneAndOne
<1>4. ToSet(queue) \subseteq 1..Len(sent) /\ ToSet(env) \subseteq 1..Len(sent)
  <2>1. \A s \in Seq(1..Len(sent)) : ToSet(s) \subseteq 1..Len(sent)
    BY LenProperties, ElementOfSeq DEF ToSet
  <2> QED BY <2>1 DEF EInv, Typed
<1>5. ToSet(out) \cap InHand = {}
  <2>1. ToSet(out) \subseteq 1..Len(sent)
    BY LenProperties, ElementOfSeq DEF ToSet, EInv, Typed
  <2> QED BY <1>2, <2>1 DEF EInv, InOrder
<1>6. Typed'
  BY <1>1, <1>3, <1>4 DEF EInv, Typed
<1>7. InHand' = {}
  BY <1>1, <1>3 DEF InHand
<1>8. InOrder'
  BY <1>1, <1>3, <1>7 DEF EInv, InOrder
<1>9. Apart'
  BY <1>1, <1>5, <1>7 DEF EInv, Apart, InHand
<1>10. Covered'
  BY <1>1, <1>7 DEF EInv, Covered, InHand
<1>11. Discovery'
  BY <1>1 DEF Discovery
<1> QED BY <1>6, <1>8, <1>9, <1>10, <1>11 DEF EInv

\* The numbers of a sequence of message numbers are message numbers.
LEMMA NumbersAreNat ==
    ASSUME NEW n \in Nat, NEW s \in Seq(1..n)
    PROVE  ToSet(s) \subseteq 1..n
BY LenProperties, ElementOfSeq DEF ToSet

\* Taking the head of the queue: facts shared by the three kinds of frame.
LEMMA HeadOfQueue ==
    ASSUME EInv, queue # <<>>
    PROVE  /\ Head(queue) \in 1..Len(sent)
           /\ Tail(queue) \in Seq(1..Len(sent))
           /\ ToSet(queue) = {Head(queue)} \cup ToSet(Tail(queue))
           /\ Increasing(Tail(queue))
           /\ \A b \in ToSet(Tail(queue)) : Head(queue) < b
           /\ \A a \in ToSet(out) : a < Head(queue)
           /\ Head(queue) \notin lost
           /\ Head(queue) \notin ToSet(Tail(queue))
<1>1. Len(sent) \in Nat /\ queue \in Seq(1..Len(sent)) /\ Increasing(queue)
  BY LenProperties DEF EInv, Typed, InOrder
<1>2. /\ Head(queue) \in 1..Len(sent)
      /\ Tail(queue) \in Seq(1..Len(sent))
      /\ ToSet(queue) = {Head(queue)} \cup ToSet(Tail(queue))
      /\ Increasing(Tail(queue))
      /\ \A b \in ToSet(Tail(queue)) : Head(queue) < b
  BY <1>1, TakeFirst
<1>3. Head(queue) \in InHand
  BY <1>2 DEF InHand
<1>4. \A a \in ToSet(out) : a < Head(queue)
  BY <1>3 DEF EInv, InOrder
<1>5. Head(queue) \notin lost
  BY <1>3 DEF EInv, Apart
<1>6. Head(queue) \notin ToSet(Tail(queue))
  BY <1>2
<1> QED BY <1>2, <1>4, <1>5, <1>6

\* Only the discovery has a frame in hand.
LEMMA NoFrameInHand ==
    ASSUME EInv, pc # "discover"
    PROVE  env = <<>> /\ ToSet(env) = {} /\ InHand = ToSet(queue)
BY LenProperties, NoneAndOne DEF EInv, Discovery, InHand, Typed

LEMMA UndecodableEnvelopes ==
    ASSUME EInv, ReceiveUndecodable
    PROVE  EInv'
<1>1. /\ pc = "receive" /\ pc' = "receive" /\ queue # <<>> /\ ~sent[Head(queue)].json
      /\ queue' = Tail(queue) /\ sent' = sent /\ out' = out /\ env' = env /\ lost' = lost
  BY DEF ReceiveUndecodable, histVars
<1>2. /\ Head(queue) \in 1..Len(sent) /\ Tail(queue) \in Seq(1..Len(sent))
      /\ ToSet(queue) = {Head(queue)} \cup ToSet(Tail(queue))
      /\ Increasing(Tail(queue))
  BY <1>1, HeadOfQueue
<1>3. env = <<>> /\ ToSet(env) = {} /\ InHand = ToSet(queue) /\ InHand' = ToSet(Tail(queue))
  BY <1>1, NoFrameInHand DEF InHand
<1>4. Typed'
  BY <1>1, <1>2 DEF EInv, Typed
<1>5. InOrder'
  BY <1>1, <1>2, <1>3 DEF EInv, InOrder
<1>6. Apart'
  BY <1>1, <1>2, <1>3 DEF EInv, Apart
<1>7. Covered'
  BY <1>1, <1>2, <1>3 DEF EInv, Covered
<1>8. Discovery'
  BY <1>1, <1>3 DEF Discovery
<1> QED BY <1>4, <1>5, <1>6, <1>7, <1>8 DEF EInv

LEMMA AnnouncementEnvelopes ==
    ASSUME EInv, ReceiveAnnouncement
    PROVE  EInv'
<1>1. /\ pc = "receive" /\ pc' = "discover" /\ queue # <<>> /\ env' = <<Head(queue)>>
      /\ queue' = Tail(queue) /\ sent' = sent /\ out' = out /\ lost' = lost
  BY DEF ReceiveAnnouncement, histVars
<1>2. /\ Head(queue) \in 1..Len(sent) /\ Tail(queue) \in Seq(1..Len(sent))
      /\ ToSet(queue) = {Head(queue)} \cup ToSet(Tail(queue))
      /\ Increasing(Tail(queue))
      /\ \A b \in ToSet(Tail(queue)) : Head(queue) < b
  BY <1>1, HeadOfQueue
<1>3. InHand = ToSet(queue)
  BY <1>1, NoFrameInHand
<1>4. Len(sent) \in Nat
  BY LenProperties DEF EInv, Typed
<1>5. env' \in Seq(1..Len(sent)) /\ ToSet(env') = {Head(queue)}
  BY <1>1, <1>2, <1>4, NoneAndOne
<1>6. InHand' = InHand
  BY <1>1, <1>2, <1>3, <1>5 DEF InHand
<1>7. Typed'
  BY <1>1, <1>2, <1>5 DEF EInv, Typed
<1>8. InOrder'
  <2>1. \A a \in ToSet(env'), b \in ToSet(queue') : a < b
    BY <1>1, <1>2, <1>5
  <2> QED BY <1>1, <1>2, <1>6, <2>1 DEF EInv, InOrder
<1>9. Apart' /\ Covered'
  BY <1>1, <1>6 DEF EInv, Apart, Covered
<1>10. Discovery'
  BY <1>1, <1>2 DEF Discovery
<1> QED BY <1>7, <1>8, <1>9, <1>10 DEF EInv

\* Yielding a number that follows all that was yielded and precedes all that
\* stays in hand.
LEMMA YieldEnvelopes ==
    ASSUME EInv, NEW e \in InHand, Yield(e), UNCHANGED <<sent, lost>>,
           queue' \in Seq(1..Len(sent)), Increasing(queue'), env' = <<>>,
           ToSet(queue') = InHand \ {e},
           \A b \in ToSet(queue') : e < b
    PROVE  EInv'
<1>1. pc' = "yield" /\ out' = Append(out, e) /\ sent' = sent /\ lost' = lost
  BY DEF Yield
<1>2. Len(sent) \in Nat /\ out \in Seq(1..Len(sent)) /\ Increasing(out)
  BY LenProperties DEF EInv, Typed, InOrder
<1>3. InHand \subseteq 1..Len(sent)
  BY <1>2, NumbersAreNat DEF EInv, Typed, InHand
<1>4. \A a \in ToSet(out) : a < e
  BY DEF EInv, InOrder
<1>5. /\ out' \in Seq(1..Len(sent)) /\ ToSet(out') = ToSet(out) \cup {e} /\ Increasing(out')
  <2>1. e \in 1..Len(sent)
    BY <1>3
  <2> QED BY <1>1, <1>2, <1>4, <2>1, PutLast
<1>6. env' \in Seq(1..Len(sent)) /\ ToSet(env') = {}
  BY <1>2, NoneAndOne
<1>7. InHand' = InHand \ {e}
  BY <1>6 DEF InHand
<1>8. Typed'
  BY <1>1, <1>5, <1>6 DEF EInv, Typed
<1>9. InOrder'
  <2>1. \A a \in ToSet(out'), b \in InHand' : a < b
    <3> SUFFICES ASSUME NEW a \in ToSet(out'), NEW b \in InHand' PROVE a < b
      OBVIOUS
    <3>1. CASE a \in ToSet(out)
      BY <1>7, <3>1 DEF EInv, InOrder
    <3>2. CASE a = e
      BY <1>7, <3>2
    <3> QED BY <1>5, <3>1, <3>2
  <2> QED BY <1>5, <1>6, <2>1 DEF InOrder
<1>10. Apart'
  BY <1>1, <1>5, <1>7 DEF EInv, Apart
<1>11. Covered'
  BY <1>1, <1>5, <1>7 DEF EInv, Covered
<1>12. Discovery'
  BY <1>1 DEF Discovery
<1> QED BY <1>8, <1>9, <1>10, <1>11, <1>12 DEF EInv

LEMMA ReceiveEnvelopes ==
    ASSUME EInv, Receive
    PROVE  EInv'
<1>1. /\ pc = "receive" /\ queue # <<>> /\ Yield(Head(queue)) /\ queue' = Tail(queue)
      /\ env' = env /\ sent' = sent /\ lost' = lost
  BY DEF Receive
<1>2. env = <<>> /\ InHand = ToSet(queue)
  BY <1>1, NoFrameInHand
<1>3. /\ Tail(queue) \in Seq(1..Len(sent)) /\ Increasing(Tail(queue))
      /\ ToSet(queue) = {Head(queue)} \cup ToSet(Tail(queue))
      /\ \A b \in ToSet(Tail(queue)) : Head(queue) < b
      /\ Head(queue) \notin ToSet(Tail(queue))
  BY <1>1, HeadOfQueue
<1>4. Head(queue) \in InHand /\ ToSet(queue') = InHand \ {Head(queue)}
  BY <1>1, <1>2, <1>3
<1> QED BY <1>1, <1>2, <1>3, <1>4, YieldEnvelopes

LEMMA DiscoveredEnvelopes ==
    ASSUME EInv, Discovered
    PROVE  EInv'
<1>1. /\ pc = "discover" /\ Yield(Head(env)) /\ env' = <<>>
      /\ queue' = queue /\ sent' = sent /\ lost' = lost
  BY DEF Discovered
<1>2. Len(sent) \in Nat
  BY LenProperties DEF EInv, Typed
<1>3. PICK i \in 1..Len(sent) : env = <<i>>
  BY <1>1 DEF EInv, Discovery
<1>4. Head(env) = i /\ ToSet(env) = {i}
  BY <1>2, <1>3, NoneAndOne
<1>5. i \in InHand /\ \A b \in ToSet(queue) : i < b
  BY <1>4 DEF EInv, InOrder, InHand
<1>6. ToSet(queue) \subseteq 1..Len(sent)
  BY <1>2, NumbersAreNat DEF EInv, Typed
<1>7. i \notin ToSet(queue)
  BY <1>5, <1>2
<1>8. ToSet(queue') = InHand \ {i}
  BY <1>1, <1>4, <1>7 DEF InHand
<1>9. queue' \in Seq(1..Len(sent)) /\ Increasing(queue')
  BY <1>1 DEF EInv, Typed, InOrder
<1> QED BY <1>1, <1>4, <1>5, <1>8, <1>9, YieldEnvelopes

LEMMA DeliverEnvelopes ==
    ASSUME EInv, NEW m \in Message, Deliver(m)
    PROVE  EInv'
<1> DEFINE n == Len(sent)
<1>1. /\ sent' = Append(sent, m) /\ queue' = Append(queue, Len(sent'))
      /\ pc' = pc /\ out' = out /\ env' = env /\ lost' = lost
  BY DEF Deliver
<1>2. n \in Nat /\ sent \in Seq(Message)
  BY LenProperties DEF EInv, Typed
<1>3. sent' \in Seq(Message) /\ Len(sent') = n + 1 /\ \A i \in 1..n : sent'[i] = sent[i]
  BY <1>1, <1>2, AppendProperties
<1>4. ToSet(out) \subseteq 1..n /\ ToSet(queue) \subseteq 1..n /\ ToSet(env) \subseteq 1..n /\ lost \subseteq 1..n
  BY <1>2, NumbersAreNat DEF EInv, Typed
<1> HIDE DEF n
<1>5. \A i \in 1..n : i < n + 1 /\ i \in 1..(n + 1)
  BY <1>2
<1>6. \A s \in Seq(1..n) : s \in Seq(1..(n + 1))
  <2>1. 1..n \subseteq 1..(n + 1)
    BY <1>5
  <2> QED BY <2>1, LenProperties, ElementOfSeq, IsASeq DEF n
<1>7. n + 1 \in 1..(n + 1) /\ n + 1 \in Nat
  BY <1>2
<1>8. /\ queue' \in Seq(1..(n + 1)) /\ ToSet(queue') = ToSet(queue) \cup {n + 1}
      /\ Increasing(queue')
  <2>1. queue \in Seq(1..(n + 1)) /\ Increasing(queue) /\ queue' = Append(queue, n + 1)
    BY <1>1, <1>3, <1>6 DEF EInv, Typed, InOrder, n
  <2>2. \A b \in ToSet(queue) : b < n + 1
    BY <1>4, <1>5
  <2> QED BY <1>7, <2>1, <2>2, PutLast
<1>9. InHand' = InHand \cup {n + 1}
  BY <1>1, <1>8 DEF InHand
<1>10. Typed'
  <2>1. out \in Seq(1..(n + 1)) /\ env \in Seq(1..(n + 1)) /\ lost \subseteq 1..(n + 1)
    BY <1>4, <1>5, <1>6 DEF EInv, Typed, n
  <2> QED BY <1>1, <1>3, <1>8, <2>1 DEF Typed
<1>11. InOrder'
  <2>1. \A a \in ToSet(out), b \in InHand' : a < b
    BY <1>4, <1>5, <1>9 DEF EInv, InOrder
  <2>2. \A a \in ToSet(env), b \in ToSet(queue') : a < b
    BY <1>4, <1>5, <1>8 DEF EInv, InOrder
  <2> QED BY <1>1, <1>8, <2>1, <2>2 DEF EInv, InOrder
<1>12. Apart'
  <2>1. n + 1 \notin lost
    BY <1>2, <1>4
  <2> QED BY <1>1, <1>9, <2>1 DEF EInv, Apart
<1>13. Covered'
  <2> SUFFICES ASSUME NEW i \in 1..(n + 1), sent'[i].json
               PROVE  i \in ToSet(out) \cup InHand' \cup lost
    BY <1>1, <1>3 DEF Covered
  <2>1. CASE i \in 1..n
    BY <1>3, <1>9, <2>1 DEF EInv, Covered, n
  <2>2. CASE i = n + 1
    BY <1>9, <2>2
  <2> QED BY <1>2, <2>1, <2>2
<1>14. Discovery'
  BY <1>1, <1>3, <1>5 DEF EInv, Discovery, n
<1> QED BY <1>10, <1>11, <1>12, <1>13, <1>14 DEF EInv

LEMMA NextEnvelopes == EInv /\ [Next]_vars => EInv'
<1> SUFFICES ASSUME EInv, [Next]_vars PROVE EInv'
  OBVIOUS
<1> USE IdleEnvelopes DEF sessionVars, histVars
<1>1. CASE LoopTop
  BY <1>1 DEF LoopTop
<1>2. CASE StartReceiving
  BY <1>2 DEF StartReceiving
<1>3. CASE Discovered
  BY <1>3, DiscoveredEnvelopes
<1>4. CASE Consume
  BY <1>4 DEF Consume
<1>5. CASE Wake
  BY <1>5 DEF Wake
<1>6. CASE ReceiveStop
  BY <1>6, EndSessionEnvelopes DEF ReceiveStop
<1>7. CASE ReceiveUndecodable
  BY <1>7, UndecodableEnvelopes
<1>8. CASE ReceiveAnnouncement
  BY <1>8, AnnouncementEnvelopes
<1>9. CASE Receive
  BY <1>9, ReceiveEnvelopes
<1>10. CASE ConnectOk
  BY <1>10 DEF ConnectOk
<1>11. CASE MqttError
  <2>1. pc' # "discover"
    BY <1>11 DEF MqttError
  <2> QED BY <1>11, <2>1, EndSessionEnvelopes DEF MqttError
<1>12. CASE Cancel
  <2>1. pc' # "discover"
    BY <1>12 DEF Cancel
  <2> QED BY <1>12, <2>1, EndSessionEnvelopes DEF Cancel
<1>13. CASE ConsumerRaises
  BY <1>13, EndSessionEnvelopes DEF ConsumerRaises
<1>14. CASE Close
  BY <1>14 DEF Close
<1>15. ASSUME NEW t \in DockTopics, SubscribeOk(t) PROVE EInv'
  BY <1>15 DEF SubscribeOk
<1>16. ASSUME NEW t \in DroneTopics, DiscoverOk(t) PROVE EInv'
  BY <1>16 DEF DiscoverOk
<1>17. ASSUME NEW m \in Message, Deliver(m) PROVE EInv'
  BY <1>17, DeliverEnvelopes
<1>18. CASE UNCHANGED vars
  BY <1>18 DEF vars
<1> QED
  BY <1>1, <1>2, <1>3, <1>4, <1>5, <1>6, <1>7, <1>8, <1>9, <1>10, <1>11, <1>12,
     <1>13, <1>14, <1>15, <1>16, <1>17, <1>18 DEF Next, Step

\* Envelopes are yielded in the order of delivery, each once, and no decodable
\* message of a living session is skipped, wherever errors strike.
THEOREM EnvelopesComplete == Spec => []NothingSkipped
<1>1. EInv => NothingSkipped
  <2> SUFFICES ASSUME EInv PROVE NothingSkipped
    OBVIOUS
  <2>1. ToSet(out) \subseteq 1..Len(sent) /\ Len(sent) \in Nat
    BY LenProperties, NumbersAreNat DEF EInv, Typed
  <2>2. ToSet(out) \cap InHand = {}
    BY <2>1 DEF EInv, InOrder
  <2> QED BY <2>2 DEF EInv, InOrder, Apart, Covered, NothingSkipped, Increasing, Indices
<1> QED BY <1>1, InitEnvelopes, NextEnvelopes, PTL DEF Spec

(***************************************************************************)
(* The subscriptions.                                                      *)
(***************************************************************************)

\* The topics that are no longer to do are subscribed in the session at hand.
SInv ==
    /\ pc = "subscribe" => \A t \in DockTopics \ subTodo : <<t, NoDrone>> \in subs
    /\ DockSubscribed

\* Every dock topic is subscribed whenever the source waits for messages, after
\* any number of failures at any of its awaits.
THEOREM AlwaysSubscribed == Spec => []DockSubscribed
<1>1. Init => SInv
  BY DEF Init, SInv, DockSubscribed
<1>2. SInv /\ [Next]_vars => SInv'
  <2> SUFFICES ASSUME SInv, [Next]_vars PROVE SInv'
    OBVIOUS
  <2> USE DEF SInv, DockSubscribed, sessionVars, histVars
  <2>1. CASE LoopTop
    BY <2>1 DEF LoopTop
  <2>2. CASE StartReceiving
    BY <2>2 DEF StartReceiving
  <2>3. CASE Discovered
    BY <2>3 DEF Discovered, Yield
  <2>4. CASE Consume
    BY <2>4 DEF Consume
  <2>5. CASE Wake
    BY <2>5 DEF Wake
  <2>6. CASE ReceiveStop
    BY <2>6 DEF ReceiveStop
  <2>7. CASE ReceiveUndecodable
    BY <2>7 DEF ReceiveUndecodable
  <2>8. CASE ReceiveAnnouncement
    BY <2>8 DEF ReceiveAnnouncement
  <2>9. CASE Receive
    BY <2>9 DEF Receive, Yield
  <2>10. CASE ConnectOk
    BY <2>10 DEF ConnectOk
  <2>11. CASE MqttError
    BY <2>11 DEF MqttError
  <2>12. CASE Cancel
    BY <2>12 DEF Cancel
  <2>13. CASE ConsumerRaises
    BY <2>13 DEF ConsumerRaises
  <2>14. CASE Close
    BY <2>14 DEF Close
  <2>15. ASSUME NEW t \in DockTopics, SubscribeOk(t) PROVE SInv'
    BY <2>15 DEF SubscribeOk
  <2>16. ASSUME NEW t \in DroneTopics, DiscoverOk(t) PROVE SInv'
    BY <2>16 DEF DiscoverOk
  <2>17. ASSUME NEW m \in Message, Deliver(m) PROVE SInv'
    BY <2>17 DEF Deliver
  <2>18. CASE UNCHANGED vars
    BY <2>18 DEF vars
  <2> QED
    BY <2>1, <2>2, <2>3, <2>4, <2>5, <2>6, <2>7, <2>8, <2>9, <2>10, <2>11, <2>12,
       <2>13, <2>14, <2>15, <2>16, <2>17, <2>18 DEF Next, Step
<1>3. SInv => DockSubscribed
  BY DEF SInv
<1> QED BY <1>1, <1>2, <1>3, PTL DEF Spec

(***************************************************************************)
(* The drone and its dock.                                                 *)
(***************************************************************************)

\* Message i is a dock OSD that announces drone d.
Tells(i, d) == sent[i].topic = DockOsd /\ sent[i].sn = d

Heard == ToSet(out) \cup ToSet(env)

\* A drone subscribed to, a drone being subscribed to and a drone whose message
\* is queued were announced by a frame yielded or in hand.
AInv ==
    /\ \A t \in DroneTopics, d \in Drones : <<t, d>> \in subs => \E i \in Heard : Tells(i, d)
    /\ pc = "discover" => \E i \in ToSet(env) : Tells(i, known)
    /\ \A k \in ToSet(queue) : sent[k].topic \in DroneTopics =>
           \E i \in Heard : Tells(i, sent[k].sn)
    /\ \A k \in ToSet(env) : sent[k].topic = DockOsd
    /\ \A k \in ToSet(out) : sent[k].topic \in DroneTopics =>
           \E i \in ToSet(out) : i < k /\ Tells(i, sent[k].sn)

LEMMA IdleDrone ==
    ASSUME AInv, UNCHANGED <<sent, out, queue, env, subs, known>>,
           (pc = "discover") <=> (pc' = "discover")
    PROVE  AInv'
BY DEF AInv, Heard, Tells

LEMMA EndSessionDrone ==
    ASSUME AInv, EndSession, UNCHANGED <<sent, out>>, pc' # "discover"
    PROVE  AInv'
<1>1. ToSet(<<>>) = {}
  BY NoneAndOne
<1> QED BY <1>1 DEF AInv, Heard, Tells, EndSession

LEMMA AnnouncementDrone ==
    ASSUME EInv, AInv, ReceiveAnnouncement
    PROVE  AInv'
<1>1. /\ pc = "receive" /\ queue # <<>> /\ env' = <<Head(queue)>> /\ queue' = Tail(queue)
      /\ sent' = sent /\ out' = out /\ subs' = subs
      /\ known' = sent[Head(queue)].sn /\ sent[Head(queue)].topic = DockOsd
  BY DEF ReceiveAnnouncement, histVars, Announces
<1>2. Head(queue) \in 1..Len(sent) /\ ToSet(Tail(queue)) \subseteq ToSet(queue)
  BY <1>1, HeadOfQueue
<1>3. ToSet(env) = {} /\ Len(sent) \in Nat
  BY <1>1, NoFrameInHand, LenProperties DEF EInv, Typed
<1>4. ToSet(env') = {Head(queue)}
  BY <1>1, <1>2, <1>3, NoneAndOne
<1>5. Heard \subseteq Heard'
  BY <1>1, <1>3 DEF Heard
<1>6. \A i, d : Tells(i, d) <=> Tells(i, d)'
  BY <1>1 DEF Tells
<1>7. sent'[Head(queue)].topic = DockOsd /\ sent'[Head(queue)].sn = known'
  BY <1>1
<1>8. pc' = "discover" => \E i \in ToSet(env') : Tells(i, known)'
  BY <1>4, <1>7 DEF Tells
<1>9. \A t \in DroneTopics, d \in Drones : <<t, d>> \in subs' => \E i \in Heard' : Tells(i, d)'
  BY <1>1, <1>5, <1>6 DEF AInv
<1>10. \A k \in ToSet(queue') : sent'[k].topic \in DroneTopics =>
           \E i \in Heard' : Tells(i, sent[k].sn)'
  BY <1>1, <1>2, <1>5 DEF AInv, Tells
<1>11. \A k \in ToSet(env') : sent'[k].topic = DockOsd
  BY <1>1, <1>4
<1>12. \A k \in ToSet(out') : sent'[k].topic \in DroneTopics =>
           \E i \in ToSet(out') : i < k /\ Tells(i, sent[k].sn)'
  BY <1>1 DEF AInv, Tells
<1> QED BY <1>8, <1>9, <1>10, <1>11, <1>12 DEF AInv

\* A frame that is yielded: the drone it belongs to was announced before it.
LEMMA YieldDrone ==
    ASSUME EInv, AInv, NEW e \in InHand, Yield(e), UNCHANGED <<sent, subs>>,
           env' = <<>>, ToSet(queue') \subseteq ToSet(queue),
           ToSet(env) \subseteq {e},
           e \in ToSet(queue) => ToSet(env) = {}
    PROVE  AInv'
<1>1. pc' = "yield" /\ out' = Append(out, e) /\ sent' = sent /\ subs' = subs
  BY DEF Yield
<1>2. Len(sent) \in Nat /\ out \in Seq(1..Len(sent)) /\ InHand \subseteq 1..Len(sent)
  BY LenProperties, NumbersAreNat DEF EInv, Typed, InHand
<1>3. ToSet(out') = ToSet(out) \cup {e} /\ ToSet(env') = {}
  <2>1. e \in 1..Len(sent)
    BY <1>2
  <2>2. ToSet(out') = ToSet(out) \cup {e}
    BY <1>1, <1>2, <2>1, PutLast
  <2> QED BY <2>2, NoneAndOne
<1>4. Heard \subseteq Heard' /\ Heard' = ToSet(out')
  BY <1>3 DEF Heard
<1>5. \A i, d : Tells(i, d) <=> Tells(i, d)'
  BY <1>1 DEF Tells
<1>6. \A t \in DroneTopics, d \in Drones : <<t, d>> \in subs' => \E i \in Heard' : Tells(i, d)'
  BY <1>1, <1>4, <1>5 DEF AInv
<1>7. \A k \in ToSet(queue') : sent'[k].topic \in DroneTopics =>
           \E i \in Heard' : Tells(i, sent[k].sn)'
  BY <1>1, <1>4 DEF AInv, Tells
<1>8. \A k \in ToSet(out') : sent'[k].topic \in DroneTopics =>
           \E i \in ToSet(out') : i < k /\ Tells(i, sent[k].sn)'
  <2> SUFFICES ASSUME NEW k \in ToSet(out'), sent[k].topic \in DroneTopics
               PROVE  \E i \in ToSet(out') : i < k /\ Tells(i, sent[k].sn)
    BY <1>1 DEF Tells
  <2>1. CASE k \in ToSet(out)
    BY <1>3, <2>1 DEF AInv
  <2>2. CASE k = e
    <3>1. e \notin ToSet(env)
      BY <2>2, SourceAssumption DEF AInv
    <3>2. e \in ToSet(queue) /\ ToSet(env) = {}
      BY <3>1 DEF InHand
    <3>3. PICK i \in ToSet(out) : Tells(i, sent[k].sn)
      BY <2>2, <3>2 DEF AInv, Heard
    <3>4. i < k
      BY <2>2, <3>3 DEF EInv, InOrder
    <3> QED BY <1>3, <3>3, <3>4
  <2> QED BY <1>3, <2>1, <2>2
<1> QED BY <1>1, <1>3, <1>6, <1>7, <1>8 DEF AInv

LEMMA ReceiveDrone ==
    ASSUME EInv, AInv, Receive
    PROVE  AInv'
<1>1. /\ pc = "receive" /\ queue # <<>> /\ Yield(Head(queue)) /\ queue' = Tail(queue)
      /\ env' = env /\ UNCHANGED <<sent, subs>>
  BY DEF Receive
<1>2. env = <<>> /\ ToSet(env) = {} /\ InHand = ToSet(queue)
  BY <1>1, NoFrameInHand
<1>3. ToSet(queue) = {Head(queue)} \cup ToSet(Tail(queue))
  BY <1>1, HeadOfQueue
<1> QED BY <1>1, <1>2, <1>3, YieldDrone

LEMMA DiscoveredDrone ==
    ASSUME EInv, AInv, Discovered
    PROVE  AInv'
<1>1. /\ pc = "discover" /\ Yield(Head(env)) /\ env' = <<>>
      /\ queue' = queue /\ UNCHANGED <<sent, subs>>
  BY DEF Discovered
<1>2. Len(sent) \in Nat
  BY LenProperties DEF EInv, Typed
<1>3. PICK i \in 1..Len(sent) : env = <<i>>
  BY <1>1 DEF EInv, Discovery
<1>4. Head(env) = i /\ ToSet(env) = {i}
  BY <1>2, <1>3, NoneAndOne
<1>5. i \in InHand /\ i \notin ToSet(queue)
  <2>1. \A b \in ToSet(queue) : i < b
    BY <1>4 DEF EInv, InOrder
  <2> QED BY <1>2, <1>4, <2>1 DEF InHand
<1> QED BY <1>1, <1>4, <1>5, YieldDrone

LEMMA DeliverDrone ==
    ASSUME EInv, AInv, NEW m \in Message, Deliver(m)
    PROVE  AInv'
<1> DEFINE n == Len(sent)
<1>1. /\ sent' = Append(sent, m) /\ queue' = Append(queue, Len(sent'))
      /\ pc' = pc /\ out' = out /\ env' = env /\ subs' = subs /\ known' = known
  BY DEF Deliver
<1>2. n \in Nat /\ sent \in Seq(Message)
  BY LenProperties DEF EInv, Typed
<1>3. Len(sent') = n + 1 /\ sent'[n + 1] = m /\ \A i \in 1..n : sent'[i] = sent[i]
  BY <1>1, <1>2, AppendProperties
<1>4. ToSet(out) \subseteq 1..n /\ ToSet(queue) \subseteq 1..n /\ ToSet(env) \subseteq 1..n
  BY <1>2, NumbersAreNat DEF EInv, Typed
<1>5. ToSet(queue') = ToSet(queue) \cup {n + 1}
  <2>1. queue \in Seq(1..(n + 1))
    <3>1. 1..n \subseteq 1..(n + 1)
      BY <1>2
    <3> QED BY <3>1, LenProperties, ElementOfSeq, IsASeq DEF EInv, Typed
  <2>2. n + 1 \in 1..(n + 1) /\ n + 1 \in Nat
    BY <1>2
  <2> HIDE DEF n
  <2> QED BY <1>1, <1>3, <2>1, <2>2, PutLast
<1> HIDE DEF n
<1>6. Heard' = Heard /\ Heard \subseteq 1..n
  BY <1>1, <1>4 DEF Heard
<1>7. \A i \in 1..n : \A d : Tells(i, d) <=> Tells(i, d)'
  BY <1>3 DEF Tells
<1>8. m.topic \in DroneTopics => \E i \in Heard : Tells(i, m.sn)
  <2> SUFFICES ASSUME m.topic \in DroneTopics PROVE \E i \in Heard : Tells(i, m.sn)
    OBVIOUS
  <2>1. <<m.topic, m.sn>> \in subs /\ m.sn # NoDrone
    BY DEF Deliver
  <2>2. m.sn \in Drones
    BY <2>1 DEF Message
  <2> QED BY <2>1, <2>2 DEF AInv
<1>9. \A t \in DroneTopics, d \in Drones : <<t, d>> \in subs' => \E i \in Heard' : Tells(i, d)'
  BY <1>1, <1>6, <1>7 DEF AInv
<1>10. pc' = "discover" => \E i \in ToSet(env') : Tells(i, known)'
  BY <1>1, <1>3, <1>4 DEF AInv, Tells
<1>11. \A k \in ToSet(queue') : sent'[k].topic \in DroneTopics =>
           \E i \in Heard' : Tells(i, sent[k].sn)'
  <2> SUFFICES ASSUME NEW k \in ToSet(queue'), sent'[k].topic \in DroneTopics
               PROVE  \E i \in Heard : Tells(i, sent[k].sn)'
    BY <1>6
  <2>1. CASE k \in ToSet(queue)
    BY <1>3, <1>4, <1>6, <2>1 DEF AInv, Tells
  <2>2. CASE k = n + 1
    BY <1>3, <1>6, <1>8, <2>2 DEF Tells
  <2> QED BY <1>5, <2>1, <2>2
<1>12. \A k \in ToSet(env') : sent'[k].topic = DockOsd
  BY <1>1, <1>3, <1>4 DEF AInv
<1>13. \A k \in ToSet(out') : sent'[k].topic \in DroneTopics =>
           \E i \in ToSet(out') : i < k /\ Tells(i, sent[k].sn)'
  <2> SUFFICES ASSUME NEW k \in ToSet(out), sent[k].topic \in DroneTopics
               PROVE  \E i \in ToSet(out) : i < k /\ Tells(i, sent[k].sn)'
    BY <1>1, <1>3, <1>4
  <2>1. PICK i \in ToSet(out) : i < k /\ Tells(i, sent[k].sn)
    BY DEF AInv
  <2>2. sent'[i] = sent[i] /\ sent'[k] = sent[k]
    BY <1>3, <1>4
  <2> QED BY <2>1, <2>2 DEF Tells
<1> QED BY <1>9, <1>10, <1>11, <1>12, <1>13 DEF AInv

LEMMA InitDrone == Init => AInv
<1> SUFFICES ASSUME Init PROVE AInv
  OBVIOUS
<1>1. ToSet(<<>>) = {}
  BY NoneAndOne
<1> QED BY <1>1 DEF Init, AInv

LEMMA NextDrone == EInv /\ AInv /\ [Next]_vars => AInv'
<1> SUFFICES ASSUME EInv, AInv, [Next]_vars PROVE AInv'
  OBVIOUS
<1> USE IdleDrone DEF sessionVars, histVars
<1>1. CASE LoopTop
  BY <1>1 DEF LoopTop
<1>2. CASE StartReceiving
  BY <1>2 DEF StartReceiving
<1>3. CASE Discovered
  BY <1>3, DiscoveredDrone
<1>4. CASE Consume
  BY <1>4 DEF Consume
<1>5. CASE Wake
  BY <1>5 DEF Wake
<1>6. CASE ReceiveStop
  BY <1>6, EndSessionDrone DEF ReceiveStop
<1>7. CASE ReceiveUndecodable
  <2>1. /\ pc = "receive" /\ pc' = "receive" /\ queue # <<>>
        /\ queue' = Tail(queue) /\ UNCHANGED <<sent, out, env, subs, known>>
    BY <1>7 DEF ReceiveUndecodable
  <2>2. ToSet(queue') \subseteq ToSet(queue)
    BY <2>1, HeadOfQueue
  <2> QED BY <2>1, <2>2 DEF AInv, Heard, Tells
<1>8. CASE ReceiveAnnouncement
  BY <1>8, AnnouncementDrone
<1>9. CASE Receive
  BY <1>9, ReceiveDrone
<1>10. CASE ConnectOk
  BY <1>10 DEF ConnectOk
<1>11. CASE MqttError
  <2>1. pc' # "discover"
    BY <1>11 DEF MqttError
  <2> QED BY <1>11, <2>1, EndSessionDrone DEF MqttError
<1>12. CASE Cancel
  <2>1. pc' # "discover"
    BY <1>12 DEF Cancel
  <2> QED BY <1>12, <2>1, EndSessionDrone DEF Cancel
<1>13. CASE ConsumerRaises
  BY <1>13, EndSessionDrone DEF ConsumerRaises
<1>14. CASE Close
  BY <1>14 DEF Close
<1>15. ASSUME NEW t \in DockTopics, SubscribeOk(t) PROVE AInv'
  <2>1. /\ pc = "subscribe" /\ subs' = subs \cup {<<t, NoDrone>>}
        /\ UNCHANGED <<pc, sent, out, queue, env, known>>
    BY <1>15 DEF SubscribeOk
  <2>2. \A u \in DroneTopics, d \in Drones : <<u, d>> \in subs' => <<u, d>> \in subs
    BY <2>1, SourceAssumption
  <2> QED BY <2>1, <2>2 DEF AInv, Heard, Tells
<1>16. ASSUME NEW t \in DroneTopics, DiscoverOk(t) PROVE AInv'
  <2>1. /\ pc = "discover" /\ subs' = subs \cup {<<t, known>>}
        /\ UNCHANGED <<pc, sent, out, queue, env, known>>
    BY <1>16 DEF DiscoverOk
  <2>2. \E i \in Heard : Tells(i, known)
    BY <2>1 DEF AInv, Heard
  <2>3. \A u \in DroneTopics, d \in Drones : <<u, d>> \in subs' => <<u, d>> \in subs \/ d = known
    BY <2>1
  <2>4. \A u \in DroneTopics, d \in Drones : <<u, d>> \in subs' => \E i \in Heard : Tells(i, d)
    BY <2>2, <2>3 DEF AInv
  <2> QED BY <2>1, <2>4 DEF AInv, Heard, Tells
<1>17. ASSUME NEW m \in Message, Deliver(m) PROVE AInv'
  BY <1>17, DeliverDrone
<1>18. CASE UNCHANGED vars
  BY <1>18 DEF vars
<1> QED
  BY <1>1, <1>2, <1>3, <1>4, <1>5, <1>6, <1>7, <1>8, <1>9, <1>10, <1>11, <1>12,
     <1>13, <1>14, <1>15, <1>16, <1>17, <1>18 DEF Next, Step

\* Downstream never sees an envelope of a drone before the dock frame that
\* announced this very drone, whichever failures strike the discovery.
THEOREM DockComesFirst == Spec => []DroneAfterDock
<1>1. EInv /\ AInv => DroneAfterDock
  <2> SUFFICES ASSUME EInv, AInv, NEW j \in 1..Len(out), sent[out[j]].topic \in DroneTopics
               PROVE  \E i \in 1..(j - 1) :
                          sent[out[i]].topic = DockOsd /\ sent[out[i]].sn = sent[out[j]].sn
    BY DEF DroneAfterDock
  <2>1. /\ Len(sent) \in Nat /\ out \in Seq(1..Len(sent))
        /\ DOMAIN out = 1..Len(out) /\ Len(out) \in Nat
    BY LenProperties DEF EInv, Typed
  <2>2. \A i \in 1..Len(out) : out[i] \in 1..Len(sent)
    BY <2>1, ElementOfSeq
  <2>3. out[j] \in ToSet(out)
    BY <2>1 DEF ToSet
  <2>4. PICK a \in ToSet(out) : a < out[j] /\ Tells(a, sent[out[j]].sn)
    BY <2>3 DEF AInv
  <2>5. PICK i \in 1..Len(out) : a = out[i]
    BY <2>1 DEF ToSet
  <2>6. ~(j < i) /\ i # j
    <3>1. j < i => out[j] < out[i]
      BY DEF EInv, InOrder, Increasing
    <3> QED BY <2>2, <2>4, <2>5, <3>1
  <2>7. i \in 1..(j - 1)
    BY <2>1, <2>6
  <2> QED BY <2>4, <2>5, <2>7 DEF Tells
<1> QED
  <2>1. Init => EInv /\ AInv
    BY InitEnvelopes, InitDrone
  <2>2. EInv /\ AInv /\ [Next]_vars => (EInv /\ AInv)'
    BY NextEnvelopes, NextDrone
  <2> QED BY <1>1, <2>1, <2>2, PTL DEF Spec

-----------------------------------------------------------------------------
(* The back-off.  The property compares the delay with a power, which is a *)
(* recursive function: what it computes is proved by induction over sets.  *)

\* Induction over a set of numbers: its least missing one has no predecessor in it.
LEMMA SetInduction ==
    ASSUME NEW T \in SUBSET Nat, 0 \in T, \A n \in T : n + 1 \in T
    PROVE  T = Nat
<1> DEFINE R == {p \in Nat \X Nat : p[1] < p[2]}
           Rest == Nat \ T
<1>1. IsWellFoundedOn(R, Nat)
  BY NatLessThanWellFounded, SMT DEF OpToRel
<1>2. ASSUME Rest # {}
      PROVE  FALSE
  <2> HIDE DEF R, Rest
  <2>1. Rest \subseteq Nat
    BY DEF Rest
  <2>2. PICK x \in Rest : \A y \in Rest : <<y, x>> \notin R
    BY <1>1, <1>2, <2>1, WFMin
  <2>3. x \in Nat \ {0}
    BY DEF Rest
  <2>4. x - 1 \in Nat /\ x - 1 < x /\ x = (x - 1) + 1
    BY <2>3
  <2>5. x - 1 \notin T
    BY <2>2, <2>4 DEF Rest
  <2>6. <<x - 1, x>> \in R
    BY <2>3, <2>4 DEF R
  <2> QED BY <2>2, <2>4, <2>5, <2>6 DEF Rest
<1> QED BY <1>2

\* The values of a recursive definition up to n.
UpTo(g, n, c, G) == g[0] = c /\ \A i \in 1..n : g[i] = G[g[i - 1]]

\* f is what the recursion from c by G defines.
Follows(f, S, c, G) ==
    f \in [Nat -> S] /\ f[0] = c /\ \A n \in Nat \ {0} : f[n] = G[f[n - 1]]

LEMMA RecursionExists ==
    ASSUME NEW S, NEW c \in S, NEW G \in [S -> S]
    PROVE  \E f : Follows(f, S, c, G)
<1>1. ASSUME NEW n \in Nat
      PROVE  \E g \in [0..n -> S] : UpTo(g, n, c, G)
  <2> DEFINE T == {m \in Nat : \E g \in [0..m -> S] : UpTo(g, m, c, G)}
  <2>1. 0 \in T
    <3> DEFINE g == [i \in 0..0 |-> c]
    <3>1. g \in [0..0 -> S] /\ UpTo(g, 0, c, G)
      BY DEF UpTo
    <3> QED BY <3>1
  <2>2. ASSUME NEW m \in T
        PROVE  m + 1 \in T
    <3>1. PICK g \in [0..m -> S] : UpTo(g, m, c, G)
      OBVIOUS
    <3> DEFINE h == [i \in 0..(m + 1) |-> IF i = m + 1 THEN G[g[m]] ELSE g[i]]
    <3>2. m \in Nat /\ g[m] \in S
      OBVIOUS
    <3>3. h \in [0..(m + 1) -> S]
      BY <3>2
    <3>4. \A i \in 0..m : h[i] = g[i]
      BY <3>2
    <3>5. h[m + 1] = G[g[m]]
      BY <3>2
    <3> HIDE DEF h
    <3>6. ASSUME NEW i \in 1..(m + 1)
          PROVE  h[i] = G[h[i - 1]]
      <4>1. CASE i = m + 1
        BY <3>2, <3>4, <3>5, <4>1
      <4>2. CASE i \in 1..m
        <5>1. i \in 0..m /\ i - 1 \in 0..m
          BY <3>2, <4>2
        <5> QED BY <3>1, <3>4, <4>2, <5>1 DEF UpTo
      <4> QED BY <3>2, <4>1, <4>2
    <3>7. h[0] = c
      BY <3>1, <3>2, <3>4 DEF UpTo
    <3> QED BY <3>2, <3>3, <3>6, <3>7 DEF UpTo
  <2> HIDE DEF T
  <2>3. T = Nat
    <3>1. T \in SUBSET Nat
      BY DEF T
    <3> QED BY <2>1, <2>2, <3>1, SetInduction
  <2> QED BY <2>3 DEF T
<1>2. ASSUME NEW n \in Nat, NEW m \in Nat, NEW g \in [0..n -> S], NEW h \in [0..m -> S],
             UpTo(g, n, c, G), UpTo(h, m, c, G)
      PROVE  \A i \in Nat : i <= n /\ i <= m => g[i] = h[i]
  <2> DEFINE T == {i \in Nat : i <= n /\ i <= m => g[i] = h[i]}
  <2>1. 0 \in T
    BY <1>2 DEF UpTo
  <2>2. ASSUME NEW i \in T
        PROVE  i + 1 \in T
    <3>1. CASE i + 1 <= n /\ i + 1 <= m
      <4>1. i + 1 \in 1..n /\ i + 1 \in 1..m /\ (i + 1) - 1 = i /\ g[i] = h[i]
        BY <3>1
      <4> QED BY <1>2, <4>1 DEF UpTo
    <3> QED BY <3>1
  <2> HIDE DEF T
  <2>3. T = Nat
    <3>1. T \in SUBSET Nat
      BY DEF T
    <3> QED BY <2>1, <2>2, <3>1, SetInduction
  <2> QED BY <2>3 DEF T
<1> DEFINE A(n) == CHOOSE g \in [0..n -> S] : UpTo(g, n, c, G)
           f == [n \in Nat |-> A(n)[n]]
<1>3. ASSUME NEW n \in Nat
      PROVE  A(n) \in [0..n -> S] /\ UpTo(A(n), n, c, G)
  BY <1>1
<1>4. ASSUME NEW n \in Nat
      PROVE  f[n] = A(n)[n] /\ f[n] \in S
  BY <1>3
<1> HIDE DEF A, f
<1>5. f \in [Nat -> S]
  BY <1>4 DEF f
<1>6. f[0] = c
  BY <1>3, <1>4 DEF UpTo
<1>7. ASSUME NEW n \in Nat \ {0}
      PROVE  f[n] = G[f[n - 1]]
  <2>1. n - 1 \in Nat /\ n \in 1..n /\ n - 1 <= n
    OBVIOUS
  <2>2. A(n)[n] = G[A(n)[n - 1]]
    BY <1>3, <2>1 DEF UpTo
  <2>3. A(n)[n - 1] = A(n - 1)[n - 1]
    BY <1>2, <1>3, <2>1
  <2> QED BY <1>4, <2>1, <2>2, <2>3
<1> QED BY <1>5, <1>6, <1>7 DEF Follows

\* The powers of the back-off factor.
LEMMA PowerIs ==
    /\ Power[0] = 1
    /\ \A n \in Nat : Power[n] \in Nat /\ Power[n + 1] = Factor * Power[n]
<1> DEFINE times == [x \in Nat |-> Factor * x]
           Rec(f) == [n \in Nat |-> IF n = 0 THEN 1 ELSE Factor * f[n - 1]]
<1>1. times \in [Nat -> Nat] /\ \A x \in Nat : times[x] = Factor * x
  BY SourceAssumption
<1> HIDE DEF times
<1>2. PICK f : Follows(f, Nat, 1, times)
  BY <1>1, RecursionExists
<1>3. ASSUME NEW n \in Nat \ {0}
      PROVE  f[n] = Factor * f[n - 1]
  <2>1. n - 1 \in Nat
    OBVIOUS
  <2>2. f[n - 1] \in Nat /\ f[n] = times[f[n - 1]]
    BY <1>2, <2>1 DEF Follows
  <2> QED BY <1>1, <2>2
<1>4. f = Rec(f)
  BY <1>2, <1>3 DEF Follows
<1>5. Power = Rec(Power)
  BY <1>4 DEF Power
<1>6. Power[0] = 1 /\ \A n \in Nat : Power[n + 1] = Factor * Power[n]
  BY <1>5
<1> DEFINE T == {n \in Nat : Power[n] \in Nat}
<1>7. 0 \in T /\ \A n \in T : n + 1 \in T
  BY <1>6, SourceAssumption
<1> HIDE DEF T
<1>8. T = Nat
  <2>1. T \in SUBSET Nat
    BY DEF T
  <2> QED BY <1>7, <2>1, SetInduction
<1> QED BY <1>6, <1>8 DEF T

\* The back-off of the k-th failure in a row.
DelayOf(k) ==
    IF k = 1 THEN InitialDelay ELSE Smaller(InitialDelay * Power[k - 1], MaxDelay)

LEMMA SmallerTimes ==
    ASSUME NEW m \in Nat, NEW k \in Nat \ {0}, NEW p \in Nat, NEW q \in Nat,
           q = p * k
    PROVE  Smaller(Smaller(p, m) * k, m) = Smaller(q, m)
<1>1. CASE p < m
  BY <1>1 DEF Smaller
<1>2. CASE ~(p < m)
  <2>1. /\ p >= m
        /\ \A a \in Nat : \A c \in Nat \ {0} : a <= a * c
        /\ \A a \in Nat : \A e \in Nat : a >= e => \A c \in Nat : a * c >= e * c
    BY <1>2
  <2>2. m * k >= m /\ q >= m * k /\ m * k \in Nat
    BY <2>1
  <2> QED BY <1>2, <2>2 DEF Smaller
<1> QED BY <1>1, <1>2

\* One more failure multiplies the delay, up to the greatest one.
LEMMA DelayGrows ==
    ASSUME NEW k \in Nat \ {0}
    PROVE  Smaller(DelayOf(k) * Factor, MaxDelay) = DelayOf(k + 1) /\ DelayOf(k) \in Nat
<1>1. InitialDelay \in Nat /\ MaxDelay \in Nat /\ Factor \in Nat \ {0}
  BY SourceAssumption
<1>2. CASE k = 1
  <2>1. Power[1] = Factor
    <3>1. Power[0 + 1] = Factor * Power[0] /\ Power[0] = 1
      BY PowerIs
    <3> QED BY <1>1, <3>1
  <2>2. DelayOf(k + 1) = Smaller(InitialDelay * Factor, MaxDelay)
    BY <1>2, <2>1 DEF DelayOf
  <2> QED BY <1>1, <1>2, <2>2 DEF DelayOf
<1>3. CASE k # 1
  <2> PICK p, q : p = InitialDelay * Power[k - 1] /\ q = InitialDelay * Power[k]
    OBVIOUS
  <2>1. Power[k - 1] \in Nat /\ Power[k] \in Nat /\ Power[k] = Factor * Power[k - 1]
    <3>1. k - 1 \in Nat /\ (k - 1) + 1 = k
      OBVIOUS
    <3>2. Power[(k - 1) + 1] = Factor * Power[k - 1]
      BY <3>1, PowerIs
    <3> QED BY <3>1, <3>2, PowerIs
  <2>2. \A x, y, z \in Nat : x * (y * z) = (x * z) * y /\ x * y \in Nat
    OBVIOUS
  <2>3. p \in Nat /\ q \in Nat /\ q = p * Factor
    BY <1>1, <2>1, <2>2
  <2>4. DelayOf(k) = Smaller(p, MaxDelay) /\ DelayOf(k + 1) = Smaller(q, MaxDelay)
    BY <1>3 DEF DelayOf
  <2>5. Smaller(Smaller(p, MaxDelay) * Factor, MaxDelay) = Smaller(q, MaxDelay)
    <3> PICK m, g : m = MaxDelay /\ g = Factor
      OBVIOUS
    <3>1. m \in Nat /\ g \in Nat \ {0} /\ p \in Nat /\ q \in Nat /\ q = p * g
      BY <1>1, <2>3
    <3>2. Smaller(Smaller(p, m) * g, m) = Smaller(q, m)
      BY ONLY <3>1, SmallerTimes
    <3> QED BY <3>2
  <2>6. Smaller(p, MaxDelay) \in Nat
    BY <1>1, <2>3 DEF Smaller
  <2> QED BY <2>4, <2>5, <2>6
<1> QED BY <1>2, <1>3

\* While it tries, the source holds the delay of the failure to come.
BackoffInv ==
    /\ fails \in 0..MaxFails
    /\ pc = "sleep" => fails # 0
    /\ fails < MaxFails /\ pc # "done" =>
         delay = DelayOf(IF pc = "sleep" THEN fails ELSE fails + 1)

LEMMA StepBackoff == BackoffInv /\ [Next]_vars => BackoffInv'
<1> SUFFICES ASSUME BackoffInv, [Next]_vars
             PROVE  BackoffInv'
  OBVIOUS
<1> USE DEF histVars, sessionVars
<1>0. MaxFails \in Nat \ {0} /\ fails \in Nat /\ DelayOf(0 + 1) = InitialDelay
  BY SourceAssumption DEF BackoffInv, DelayOf
<1>1. CASE /\ delay' = delay /\ fails' = fails
           /\ pc' # "done" => pc # "done" /\ (pc' = "sleep" <=> pc = "sleep")
           /\ pc' = "done" => TRUE
  BY <1>1 DEF BackoffInv
<1>2. CASE pc = "sleep" /\ pc' = "loop" /\ delay' = NextDelay /\ fails' = fails
  <2>1. CASE fails < MaxFails
    <3>1. delay = DelayOf(fails) /\ fails \in Nat \ {0}
      BY <1>0, <1>2, <2>1 DEF BackoffInv
    <3>2. delay' = DelayOf(fails + 1)
      BY <1>2, <3>1, DelayGrows DEF NextDelay
    <3> QED BY <1>0, <1>2, <3>2 DEF BackoffInv
  <2>2. CASE ~(fails < MaxFails)
    BY <1>2, <2>2 DEF BackoffInv
  <2> QED BY <2>1, <2>2
<1>3. CASE StartReceiving
  <2>1. pc' = "receive" /\ delay' = InitialDelay /\ fails' = 0
    BY <1>3 DEF StartReceiving
  <2> QED BY <1>0, <2>1 DEF BackoffInv
<1>4. CASE MqttError
  <2>1. /\ pc \notin {"sleep", "done"} /\ pc' \in {"sleep", "done"} /\ delay' = delay
        /\ fails' = Smaller(fails + 1, MaxFails)
    BY <1>4 DEF MqttError, AwaitsBroker
  <2>2. CASE fails + 1 < MaxFails
    BY <1>0, <2>1, <2>2 DEF BackoffInv, Smaller
  <2>3. CASE ~(fails + 1 < MaxFails)
    <3>1. fails' = MaxFails
      BY <2>1, <2>3 DEF Smaller
    <3> QED BY <1>0, <2>1, <3>1 DEF BackoffInv
  <2> QED BY <2>2, <2>3
<1>5. CASE Wake
  BY <1>2, <1>5 DEF Wake
<1>6. CASE Cancel
  <2>1. CASE pc = "sleep"
    BY <1>2, <1>6, <2>1 DEF Cancel
  <2>2. CASE pc # "sleep"
    BY <1>1, <1>6, <2>2 DEF Cancel
  <2> QED BY <2>1, <2>2
<1>7. CASE LoopTop \/ Discovered \/ Consume \/ ReceiveStop \/ ReceiveUndecodable
           \/ ReceiveAnnouncement \/ Receive
  BY <1>1, <1>7 DEF LoopTop, Discovered, Consume, ReceiveStop, ReceiveUndecodable,
                    ReceiveAnnouncement, Receive, Yield, EndSession
<1>8. CASE ConnectOk \/ ConsumerRaises \/ Close
  BY <1>1, <1>8 DEF ConnectOk, ConsumerRaises, Close, EndSession
<1>9. ASSUME NEW t, SubscribeOk(t) \/ DiscoverOk(t)
      PROVE  BackoffInv'
  BY <1>1, <1>9 DEF SubscribeOk, DiscoverOk
<1>10. ASSUME NEW m, Deliver(m)
       PROVE  BackoffInv'
  BY <1>1, <1>10 DEF Deliver
<1>11. CASE UNCHANGED vars
  BY <1>1, <1>11 DEF vars
<1> QED
  BY <1>3, <1>4, <1>5, <1>6, <1>7, <1>8, <1>9, <1>10, <1>11 DEF Next, Step

\* The k-th failure in a row is followed by a pause of initial * factor^(k-1), at
\* most the greatest delay; only a full subscription starts the count again, and
\* a cancellation that the pause swallows counts as its end.
THEOREM BackoffAsConfigured == Spec => []BackoffFollowsFailures
<1>1. Init => BackoffInv
  BY SourceAssumption DEF Init, BackoffInv, DelayOf
<1>2. BackoffInv => BackoffFollowsFailures
  BY DEF BackoffInv, BackoffFollowsFailures, DelayOf
<1> QED BY <1>1, <1>2, StepBackoff, PTL DEF Spec
=============================================================================
