---------------------------- MODULE CollectorProofs ----------------------------
(***************************************************************************)
(* The aggregator and the offline pass over a recording, for every phase   *)
(* table, every payload and every way the wall clock may jump.  Everything *)
(* is proved of DockAggregator's Spec and carried over to CollectorSpec,   *)
(* whose steps on the aggregator's variables are steps of it.              *)
(***************************************************************************)
EXTENDS Collector, SequenceTheorems, FiniteSetTheorems, TLAPS

Elements(s) == {s[i] : i \in 1..Len(s)}
IsSeq(s) == s \in Seq(Elements(s))

LEMMA SeqIsSeq ==
    ASSUME NEW S, NEW s \in Seq(S)
    PROVE  IsSeq(s)
<1>1. Len(s) \in Nat /\ s \in [1..Len(s) -> S]
  OBVIOUS
<1>2. \A i \in 1..Len(s) : s[i] \in Elements(s)
  BY DEF Elements
<1>3. s \in [1..Len(s) -> Elements(s)]
  BY <1>1, <1>2
<1> QED BY <1>1, <1>3 DEF IsSeq

LEMMA AppendSeq ==
    ASSUME NEW s, IsSeq(s), NEW e
    PROVE  /\ IsSeq(Append(s, e)) /\ Len(s) \in Nat
           /\ Len(Append(s, e)) = Len(s) + 1
           /\ \A i \in 1..Len(s) : Append(s, e)[i] = s[i]
           /\ Append(s, e)[Len(s) + 1] = e
<1> DEFINE S == Elements(s) \cup {e}
<1>1. s \in Seq(S) /\ e \in S /\ Len(s) \in Nat
  <2>1. s \in Seq(Elements(s))
    BY DEF IsSeq
  <2>2. Len(s) \in Nat /\ s \in [1..Len(s) -> Elements(s)]
    BY <2>1
  <2> QED BY <2>2
<1> HIDE DEF S
<1>2. /\ Append(s, e) \in Seq(S) /\ Len(Append(s, e)) = Len(s) + 1
      /\ \A i \in 1..Len(s) : Append(s, e)[i] = s[i]
      /\ Append(s, e)[Len(s) + 1] = e
  BY <1>1, AppendProperties
<1>3. IsSeq(Append(s, e))
  BY <1>2, SeqIsSeq
<1> QED BY <1>1, <1>2, <1>3

LEMMA TailSeq ==
    ASSUME NEW s, IsSeq(s), s # <<>>
    PROVE  /\ IsSeq(Tail(s)) /\ Len(s) \in Nat \ {0}
           /\ Len(Tail(s)) = Len(s) - 1
           /\ \A i \in 1..(Len(s) - 1) : Tail(s)[i] = s[i + 1]
<1>1. s \in Seq(Elements(s))
  BY DEF IsSeq
<1>2. /\ Len(s) \in Nat \ {0} /\ Tail(s) \in Seq(Elements(s))
      /\ Len(Tail(s)) = Len(s) - 1
      /\ \A i \in 1..(Len(s) - 1) : Tail(s)[i] = s[i + 1]
  BY <1>1, EmptySeq, HeadTailProperties
<1>3. IsSeq(Tail(s))
  BY <1>2, SeqIsSeq
<1> QED BY <1>2, <1>3

-----------------------------------------------------------------------------
(* The chain of transitions.                                               *)

Start == <<"OFFLINE", "FALLBACK_IDLE">>

\* log leads from the start to the state at, each transition a real change.
Leads(log, at) ==
    /\ \A i \in 1..Len(log) :
         /\ log[i].from = IF i = 1 THEN Start ELSE log[i - 1].to
         /\ log[i].from # log[i].to
    /\ at = IF log = <<>> THEN Start ELSE log[Len(log)].to

ChainInv ==
    /\ IsSeq(published) /\ IsSeq(pending) /\ IsSeq(published \o pending)
    /\ Leads(published \o pending, <<phase, source>>)

LEMMA LeadsOn ==
    ASSUME NEW log, IsSeq(log), NEW at, Leads(log, at),
           NEW tr, tr.from = at, tr.from # tr.to
    PROVE  Leads(Append(log, tr), tr.to)
<1> DEFINE longer == Append(log, tr)
<1>1. /\ Len(log) \in Nat /\ Len(longer) = Len(log) + 1
      /\ \A i \in 1..Len(log) : longer[i] = log[i]
      /\ longer[Len(log) + 1] = tr
  BY AppendSeq
<1>2. log = <<>> <=> Len(log) = 0
  BY EmptySeq DEF IsSeq
<1>3. longer # <<>>
  BY <1>1, EmptySeq
<1> HIDE DEF longer
<1>4. ASSUME NEW i \in 1..Len(longer)
      PROVE  /\ longer[i].from = IF i = 1 THEN Start ELSE longer[i - 1].to
             /\ longer[i].from # longer[i].to
  <2>1. CASE i \in 1..Len(log)
    <3>1. longer[i] = log[i] /\ (i # 1 => longer[i - 1] = log[i - 1])
      BY <1>1, <2>1
    <3> QED BY <2>1, <3>1 DEF Leads
  <2>2. CASE i = Len(log) + 1
    <3>1. longer[i] = tr /\ (i # 1 => longer[i - 1] = log[Len(log)])
      BY <1>1, <2>2
    <3>2. i = 1 <=> log = <<>>
      BY <1>1, <1>2, <2>2
    <3> QED BY <3>1, <3>2 DEF Leads
  <2> QED BY <1>1, <2>1, <2>2
<1>5. longer[Len(longer)] = tr
  BY <1>1
<1> QED BY <1>3, <1>4, <1>5 DEF Leads, longer

\* published \o Append(pending, tr) is the whole log with tr at its end.
LEMMA LogAppend ==
    ASSUME NEW a, NEW b, IsSeq(a), IsSeq(b), NEW e
    PROVE  a \o Append(b, e) = Append(a \o b, e)
<1> DEFINE S == Elements(a) \cup Elements(b) \cup {e}
<1>1. a \in Seq(S) /\ b \in Seq(S) /\ e \in S
  <2>1. a \in Seq(Elements(a)) /\ b \in Seq(Elements(b))
    BY DEF IsSeq
  <2>2. a \in [1..Len(a) -> Elements(a)] /\ b \in [1..Len(b) -> Elements(b)] /\ Len(a) \in Nat /\ Len(b) \in Nat
    BY <2>1
  <2>3. a \in [1..Len(a) -> S] /\ b \in [1..Len(b) -> S]
    BY <2>2
  <2> QED BY <2>2, <2>3
<1> HIDE DEF S
<1> QED BY <1>1

LEMMA UpdateKeepsChain ==
    ASSUME ChainInv, NEW t, UpdatePhase(t), published' = published
    PROVE  ChainInv'
<1> DEFINE res == Resolved(t)
           tr == Transition(t, res.phase, res.source)
           log == published \o pending
<1>1. phase' = res.phase /\ source' = res.source
  BY DEF UpdatePhase
<1>2. CASE pending' = pending /\ res.phase = phase /\ res.source = source
  BY <1>1, <1>2 DEF ChainInv
<1>3. CASE pending' = Append(pending, tr) /\ ~(res.phase = phase /\ res.source = source)
  <2>1. tr.from = <<phase, source>> /\ tr.to = <<res.phase, res.source>>
    BY DEF Transition
  <2>2. tr.from # tr.to
    BY <1>3, <2>1
  <2> HIDE DEF tr, res
  <2>3. IsSeq(pending') /\ IsSeq(Append(log, tr)) /\ published' \o pending' = Append(log, tr)
    BY <1>3, AppendSeq, LogAppend DEF ChainInv
  <2>4. Leads(Append(log, tr), tr.to)
    BY <2>1, <2>2, LeadsOn DEF ChainInv
  <2> QED BY <1>1, <2>1, <2>3, <2>4 DEF ChainInv
<1> QED BY <1>2, <1>3 DEF UpdatePhase

LEMMA StepKeepsChain == ChainInv /\ [Next]_vars => ChainInv'
<1> SUFFICES ASSUME ChainInv, [Next]_vars
             PROVE  ChainInv'
  OBVIOUS
<1>1. ASSUME NEW t \in Clock, NEW data \in DockData, ApplyDockOsd(t, data)
      PROVE  ChainInv'
  BY <1>1, UpdateKeepsChain DEF ApplyDockOsd
<1>2. ASSUME NEW t \in Clock, NEW data \in DroneData, ApplyDroneOsd(t, data)
      PROVE  ChainInv'
  BY <1>2, UpdateKeepsChain DEF ApplyDroneOsd
<1>3. ASSUME NEW t \in Clock, NEW s \in {Null, 0, 1}, ApplySysStatus(t, s)
      PROVE  ChainInv'
  BY <1>3, UpdateKeepsChain DEF ApplySysStatus
<1>4. ASSUME NEW t \in Clock, NEW p \in BOOLEAN, ApplyDockEvent(t, p)
      PROVE  ChainInv'
  BY <1>4, UpdateKeepsChain DEF ApplyDockEvent
<1>5. CASE Drain
  <2> DEFINE log == published \o pending
  <2>1. published' = log /\ pending' = <<>> /\ IsSeq(log)
    BY <1>5 DEF Drain, ChainInv
  <2>2. log \o <<>> = log
    BY <2>1, ConcatEmptySeq DEF IsSeq
  <2>3. IsSeq(<<>>)
    BY DEF IsSeq
  <2> QED BY <1>5, <2>1, <2>2, <2>3 DEF Drain, ChainInv
<1>6. CASE UNCHANGED vars
  BY <1>6 DEF vars, stateVars, ChainInv
<1> QED BY <1>1, <1>2, <1>3, <1>4, <1>5, <1>6 DEF Next, Apply

\* The transitions the panel was handed and those still queued are one chain from
\* OFFLINE to the phase and source at hand, after any number of frames and drains.
THEOREM TransitionsAreChain == Spec => []TransitionsChain
<1>1. Init => ChainInv
  <2>1. <<>> \o <<>> = <<>> /\ IsSeq(<<>>) /\ Len(<<>>) = 0
    BY DEF IsSeq
  <2> QED BY <2>1 DEF Init, ChainInv, Leads, Start
<1>2. ChainInv => TransitionsChain
  BY DEF ChainInv, Leads, Start, TransitionsChain
<1> QED BY <1>1, <1>2, StepKeepsChain, PTL DEF Spec

-----------------------------------------------------------------------------
(* Silence of the dock.                                                    *)

\* The last dock OSD was heard, and the ring has a frame at least as new as it;
\* only an apply that raised may have left the two apart.
HeardInv ==
    /\ osdTs \in Nat /\ (osdTs # 0 => osdTs \in osdHeard)
    /\ IsSeq(ring) /\ \A i \in 1..Len(ring) : ring[i].ts \in Nat
    /\ pc # "crashed" => IF ring = <<>> THEN osdTs = 0 ELSE osdTs <= ring[Len(ring)].ts

BlindInv == HeardInv /\ NeverBlind

LEMMA NotMore ==
    ASSUME NEW m \in Int, NEW n \in Nat, ~(m > n)
    PROVE  m <= n
OBVIOUS

LEMMA ResolvedPhase ==
    ASSUME NEW t, UpdatePhase(t), phase' # "OFFLINE"
    PROVE  online' /\ ~(osdTs' = 0 \/ t - osdTs' > SilenceMs)
BY DEF UpdatePhase, Resolved, ResolvePhase, Resolve, DockOsdStale

\* The new frame is at the end of the ring, the others were there before.
LEMMA RingAfter ==
    ASSUME IsSeq(ring), NEW t, Snapshot(t), pc' # "crashed"
    PROVE  /\ IsSeq(ring') /\ Len(ring') \in Nat \ {0} /\ ring' # <<>>
           /\ ring'[Len(ring')] = Frame(t)
           /\ \A i \in 1..(Len(ring') - 1) : \E j \in 1..Len(ring) : ring'[i] = ring[j]
           /\ ring = <<>> \/ ~(t < ring[Len(ring)].ts)
<1> DEFINE r == Append(ring, Frame(t))
<1>1. ring' = IF Len(r) > RingMax THEN Tail(r) ELSE r
  BY DEF Snapshot
<1>2. /\ IsSeq(r) /\ Len(ring) \in Nat /\ Len(r) = Len(ring) + 1
      /\ \A i \in 1..Len(ring) : r[i] = ring[i]
      /\ r[Len(ring) + 1] = Frame(t)
  BY AppendSeq
<1>3. ring = <<>> \/ ~(t < ring[Len(ring)].ts)
  BY DEF Snapshot
<1> HIDE DEF r
<1>4. r # <<>>
  BY <1>2, EmptySeq
<1>5. CASE Len(r) > RingMax
  <2>1. Len(r) >= 2
    BY <1>2, <1>5, AggregatorAssumption
  <2>2. /\ IsSeq(ring') /\ Len(ring') = Len(ring)
        /\ \A i \in 1..Len(ring) : ring'[i] = r[i + 1]
    BY <1>1, <1>2, <1>4, <1>5, TailSeq
  <2>3. ring' # <<>>
    BY <1>2, <2>1, <2>2, EmptySeq
  <2>4. ring'[Len(ring')] = Frame(t)
    BY <1>2, <2>1, <2>2
  <2>5. \A i \in 1..(Len(ring') - 1) : i + 1 \in 1..Len(ring) /\ ring'[i] = ring[i + 1]
    BY <1>2, <2>2
  <2> QED BY <1>2, <1>3, <2>1, <2>2, <2>3, <2>4, <2>5
<1>6. CASE ~(Len(r) > RingMax)
  BY <1>1, <1>2, <1>3, <1>4, <1>6
<1> QED BY <1>5, <1>6

LEMMA ApplyKeepsSight ==
    ASSUME BlindInv, NEW t \in Nat, pc # "crashed", UpdatePhase(t), Snapshot(t),
           osdTs' = osdTs \/ osdTs' = t,
           osdHeard \subseteq osdHeard', osdTs' # 0 => osdTs' \in osdHeard'
    PROVE  BlindInv'
<1>1. CASE pc' = "crashed"
  <2>1. ring' = ring
    BY <1>1 DEF Snapshot
  <2> QED BY <1>1, <2>1 DEF BlindInv, HeardInv, NeverBlind
<1>2. CASE pc' # "crashed"
  <2>1. /\ IsSeq(ring') /\ Len(ring') \in Nat \ {0} /\ ring' # <<>>
        /\ ring'[Len(ring')] = Frame(t)
        /\ \A i \in 1..(Len(ring') - 1) : \E j \in 1..Len(ring) : ring'[i] = ring[j]
        /\ ring = <<>> \/ ~(t < ring[Len(ring)].ts)
    BY <1>2, RingAfter DEF BlindInv, HeardInv
  <2>2. Frame(t).ts = t /\ Frame(t).phase = phase' /\ Frame(t).online = online'
    BY DEF Frame
  <2>3. osdTs \in Nat /\ osdTs' \in Nat /\ \A i \in 1..Len(ring) : ring[i].ts \in Nat
    BY DEF BlindInv, HeardInv
  <2>4. osdTs' <= t
    <3>1. CASE ring = <<>>
      BY <2>3, <3>1 DEF BlindInv, HeardInv
    <3>2. CASE ring # <<>>
      <4>1. Len(ring) \in 1..Len(ring)
        BY <3>2, EmptySeq DEF BlindInv, HeardInv, IsSeq
      <4> QED BY <2>1, <2>3, <3>2, <4>1 DEF BlindInv, HeardInv
    <3> QED BY <3>1, <3>2
  <2>5. phase' # "OFFLINE" => online' /\ osdTs' # 0 /\ t - osdTs' <= SilenceMs
    <3>1. SilenceMs \in Nat
      BY AggregatorAssumption
    <3> SUFFICES ASSUME phase' # "OFFLINE"
                 PROVE  online' /\ osdTs' # 0 /\ t - osdTs' <= SilenceMs
      OBVIOUS
    <3>2. online' /\ osdTs' # 0 /\ ~(t - osdTs' > SilenceMs)
      BY ResolvedPhase, Zenon
    <3>3. t - osdTs' \in Int
      BY <2>3
    <3>4. t - osdTs' <= SilenceMs
      BY <3>1, <3>2, <3>3, NotMore, Zenon
    <3> QED BY <3>2, <3>4, Zenon
  <2>6. HeardInv'
    <3>1. \A i \in 1..Len(ring') : ring'[i].ts \in Nat
      <4> SUFFICES ASSUME NEW i \in 1..Len(ring')
                   PROVE  ring'[i].ts \in Nat
        OBVIOUS
      <4>1. CASE i = Len(ring')
        BY <2>1, <2>2, <4>1
      <4>2. CASE i \in 1..(Len(ring') - 1)
        BY <2>1, <2>3, <4>2
      <4> QED BY <2>1, <4>1, <4>2
    <3> QED BY <2>1, <2>2, <2>3, <2>4, <3>1 DEF HeardInv
  <2>7. NeverBlind'
    <3> SUFFICES ASSUME NEW i \in 1..Len(ring'), ring'[i].phase # "OFFLINE"
                 PROVE  /\ ring'[i].online
                        /\ \E h \in osdHeard' : h <= ring'[i].ts /\ ring'[i].ts - h <= SilenceMs
      BY DEF NeverBlind
    <3>1. CASE i = Len(ring')
      <4>1. ring'[i] = Frame(t)
        BY <2>1, <3>1
      <4> QED BY <2>2, <2>4, <2>5, <4>1
    <3>2. CASE i \in 1..(Len(ring') - 1)
      <4>1. PICK j \in 1..Len(ring) : ring'[i] = ring[j]
        BY <2>1, <3>2
      <4> QED BY <4>1 DEF BlindInv, NeverBlind
    <3> QED BY <2>1, <3>1, <3>2
  <2> QED BY <2>6, <2>7 DEF BlindInv
<1> QED BY <1>1, <1>2

LEMMA StepKeepsSight == BlindInv /\ [Next]_vars => BlindInv'
<1> SUFFICES ASSUME BlindInv, [Next]_vars
             PROVE  BlindInv'
  OBVIOUS
<1>0. osdTs # 0 => osdTs \in osdHeard
  BY DEF BlindInv, HeardInv
<1>1. \A t \in Clock : t \in Nat
  BY AggregatorAssumption DEF Clock
<1>2. ASSUME NEW t \in Clock, NEW data \in DockData, ApplyDockOsd(t, data)
      PROVE  BlindInv'
  BY <1>1, <1>2, ApplyKeepsSight DEF ApplyDockOsd, Begin
<1>3. ASSUME NEW t \in Clock, NEW data \in DroneData, ApplyDroneOsd(t, data)
      PROVE  BlindInv'
  BY <1>0, <1>1, <1>3, ApplyKeepsSight DEF ApplyDroneOsd, Begin
<1>4. ASSUME NEW t \in Clock, NEW s \in {Null, 0, 1}, ApplySysStatus(t, s)
      PROVE  BlindInv'
  BY <1>0, <1>1, <1>4, ApplyKeepsSight DEF ApplySysStatus, Begin
<1>5. ASSUME NEW t \in Clock, NEW p \in BOOLEAN, ApplyDockEvent(t, p)
      PROVE  BlindInv'
  BY <1>0, <1>1, <1>5, ApplyKeepsSight DEF ApplyDockEvent, Begin
<1>6. CASE Drain
  BY <1>6 DEF Drain, BlindInv, HeardInv, NeverBlind
<1>7. CASE UNCHANGED vars
  BY <1>7 DEF vars, stateVars, BlindInv, HeardInv, NeverBlind
<1> QED BY <1>2, <1>3, <1>4, <1>5, <1>6, <1>7 DEF Next, Apply

\* Whatever the drone reports and however the clock jumps, no frame claims a phase
\* unless the dock was heard within the silence limit before it.
THEOREM SilenceMeansOffline == Spec => []NeverBlind
<1>1. Init => BlindInv
  <2>1. IsSeq(<<>>) /\ Len(<<>>) = 0
    BY DEF IsSeq
  <2> QED BY <2>1 DEF Init, BlindInv, HeardInv, NeverBlind
<1>2. BlindInv => NeverBlind
  BY DEF BlindInv
<1> QED BY <1>1, <1>2, StepKeepsSight, PTL DEF Spec

-----------------------------------------------------------------------------
(* What every envelope does, whatever it carries.                          *)

Applied(t) ==
    /\ Begin(t) /\ UpdatePhase(t) /\ Snapshot(t)
    /\ \E w \in Int : PushWind(t, w)
    /\ \/ osdTs' = osdTs /\ osdHeard' = osdHeard
       \/ osdTs' = t /\ osdHeard' = osdHeard \cup {t}

LEMMA ApplyIsApplied == Apply => \E t \in Nat \ {0} : Applied(t)
<1> SUFFICES ASSUME Apply
             PROVE  \E t \in Nat \ {0} : Applied(t)
  OBVIOUS
<1>1. \A t \in Clock : t \in Nat \ {0}
  BY AggregatorAssumption DEF Clock
<1>2. Null \in Int
  BY DEF Null
<1>3. \A t : gusts' = gusts /\ winds' = winds => PushWind(t, Null)
  BY DEF PushWind
<1>4. ASSUME NEW t \in Clock, NEW data \in DockData, ApplyDockOsd(t, data)
      PROVE  Applied(t)
  <2> DEFINE w == IF Get(data, "wind") = Null THEN Null ELSE 10 * data.wind
  <2>1. PushWind(t, w)
    BY <1>4 DEF ApplyDockOsd
  <2>2. w \in Int
    <3>1. CASE "wind" \in DOMAIN data
      BY <1>2, <3>1, AggregatorAssumption
    <3>2. CASE "wind" \notin DOMAIN data
      BY <1>2, <3>2 DEF Get
    <3> QED BY <3>1, <3>2
  <2> HIDE DEF w
  <2>3. \E v \in Int : PushWind(t, v)
    BY <2>1, <2>2
  <2> QED BY <1>4, <2>3 DEF Applied, ApplyDockOsd
<1>5. ASSUME NEW t \in Clock, NEW data \in DroneData, ApplyDroneOsd(t, data)
      PROVE  Applied(t)
  <2> DEFINE w == Get(data, "wind")
  <2>1. PushWind(t, w)
    BY <1>5 DEF ApplyDroneOsd
  <2>2. w \in Int
    BY <1>2, AggregatorAssumption DEF Get
  <2> HIDE DEF w
  <2>3. \E v \in Int : PushWind(t, v)
    BY <2>1, <2>2
  <2> QED BY <1>5, <2>3 DEF Applied, ApplyDroneOsd
<1>6. ASSUME NEW t \in Clock, NEW v \in {Null, 0, 1}, ApplySysStatus(t, v)
      PROVE  Applied(t)
  <2>1. PushWind(t, Null)
    BY <1>3, <1>6 DEF ApplySysStatus
  <2> QED BY <1>2, <1>6, <2>1 DEF Applied, ApplySysStatus
<1>7. ASSUME NEW t \in Clock, NEW p \in BOOLEAN, ApplyDockEvent(t, p)
      PROVE  Applied(t)
  <2>1. PushWind(t, Null)
    BY <1>3, <1>7 DEF ApplyDockEvent
  <2> QED BY <1>2, <1>7, <2>1 DEF Applied, ApplyDockEvent
<1> QED BY <1>1, <1>4, <1>5, <1>6, <1>7 DEF Apply

\* Until an apply raises, time only goes forward and the ring ends with now.
FrameInv ==
    /\ now \in Nat /\ started \in Nat /\ IsSeq(ring)
    /\ pc # "crashed" => IF ring = <<>> THEN now = 0 /\ started = 0
                         ELSE LastFrame.ts = now /\ started # 0
    /\ pc = "drain" => ring # <<>>

LEMMA FrameTaken ==
    ASSUME FrameInv, NEW t \in Nat \ {0}, Applied(t)
    PROVE  /\ FrameInv' /\ pc = "idle" /\ pc' \in {"drain", "crashed"} /\ now' = t
           /\ started' = IF started = 0 THEN t ELSE started
           /\ pc' # "crashed" => /\ t >= now /\ ring' # <<>>
                                 /\ LastFrame' = Frame(t) /\ Frame(t).ts = t
                                 /\ Frame(t).gust = Gust(gusts')
<1>1. /\ pc = "idle" /\ now' = t /\ started' = (IF started = 0 THEN t ELSE started)
      /\ Snapshot(t)
  BY DEF Applied, Begin
<1>2. pc' \in {"drain", "crashed"} /\ (pc' = "crashed" => ring' = ring)
  BY <1>1 DEF Snapshot
<1>3. CASE pc' = "crashed"
  BY <1>1, <1>2, <1>3 DEF FrameInv
<1>4. CASE pc' # "crashed"
  <2>1. /\ IsSeq(ring') /\ ring' # <<>> /\ ring'[Len(ring')] = Frame(t)
        /\ ring = <<>> \/ ~(t < ring[Len(ring)].ts)
    BY <1>1, <1>4, RingAfter DEF FrameInv
  <2>2. Frame(t).ts = t /\ Frame(t).gust = Gust(gusts')
    BY DEF Frame
  <2>3. t >= now
    BY <1>1, <2>1 DEF FrameInv, LastFrame
  <2>4. LastFrame' = Frame(t)
    BY <2>1 DEF LastFrame
  <2> QED BY <1>1, <1>2, <1>4, <2>1, <2>2, <2>3, <2>4 DEF FrameInv
<1> QED BY <1>2, <1>3, <1>4

LEMMA StepFrame == FrameInv /\ [Next]_vars => FrameInv'
<1> SUFFICES ASSUME FrameInv, [Next]_vars
             PROVE  FrameInv'
  OBVIOUS
<1>1. CASE Apply
  BY <1>1, ApplyIsApplied, FrameTaken
<1>2. CASE Drain
  BY <1>2 DEF Drain, FrameInv, LastFrame
<1>3. CASE UNCHANGED vars
  BY <1>3 DEF vars, stateVars, FrameInv, LastFrame
<1> QED BY <1>1, <1>2, <1>3 DEF Next

LEMMA InitFrame == Init => FrameInv
<1>1. IsSeq(<<>>)
  BY DEF IsSeq
<1> QED BY <1>1 DEF Init, FrameInv

-----------------------------------------------------------------------------
(* AirborneSeen.                                                           *)

\* "Not connected" and "virtual stick" are no airborne modes: phase_machine.py
\* treats them apart, and the airborne_set of mode_code_map.yaml has neither.
SpecialModesNotAirborne == NOT_CONNECTED \notin AirborneSet /\ VIRTUAL_STICK \notin AirborneSet

\* The phase of a drone in an airborne mode: every branch of resolve_phase agrees
\* with the mode, but for a task preparing or recovering.
LEMMA AirborneResolved ==
    ASSUME SpecialModesNotAirborne, NEW n, NEW tts, NEW fs, NEW mc, NEW in, NEW h, NEW vs,
           mc \in AirborneSet, Known(mc), BucketOf(mc) \in AirbornePhases,
           ~(TaskFresh(n, tts) /\ fs \in {0, 2})
    PROVE  ResolvePhase(n, tts, TRUE, FALSE, fs, mc, in, h, vs).phase = BucketOf(mc)
<1> DEFINE b == BucketOf(mc)
<1>1. mc # Null /\ mc # NOT_CONNECTED /\ mc # VIRTUAL_STICK
  <2>1. mc \in Nat
    BY PhaseAssumption
  <2> QED BY <2>1 DEF SpecialModesNotAirborne, Null
<1>2. FromModeCode(mc, h, vs).phase = b
  BY <1>1 DEF FromModeCode, Resolve
<1>3. fs \notin {0, 2} => FromDockTask(fs, mc, h, vs).phase = b
  <2> HIDE DEF b
  <2>1. fs = AIRCRAFT_ABNORMAL => FromDockTask(fs, mc, h, vs).phase = b
    BY <1>2 DEF FromDockTask, Resolve, AIRCRAFT_ABNORMAL, Null
  <2>2. fs = Null => FromDockTask(fs, mc, h, vs).phase = b
    BY <1>2 DEF FromDockTask
  <2>3. ASSUME fs \notin {0, 2}, InTable(fs, b)
        PROVE  PhaseTable(fs, b) = b
    <3>1. b \in {"TAKEOFF", "CRUISE", "AVOIDANCE", "RTH", "LANDING"}
      BY DEF b, AirbornePhases
    <3>2. fs = 1
      BY <2>3, <3>1 DEF InTable
    <3> QED BY <3>1, <3>2 DEF PhaseTable
  <2>4. ASSUME fs \notin {0, 2}, fs # AIRCRAFT_ABNORMAL, fs # Null
        PROVE  FromDockTask(fs, mc, h, vs).phase = b
    BY <2>3, <2>4 DEF FromDockTask, Resolve, b
  <2> QED BY <2>1, <2>2, <2>4
<1>4. DroneAirborne(mc, in, h)
  BY DEF DroneAirborne
<1> HIDE DEF b
<1> QED BY <1>2, <1>3, <1>4 DEF ResolvePhase, b

\* What was heard later was heard no longer ago.
LEMMA LaterIsFresher ==
    ASSUME NEW t \in Nat, NEW h \in Nat, NEW o \in Nat, NEW m \in Nat, t - h <= m, h <= o
    PROVE  ~(t - o > m)
OBVIOUS

\* The last dock OSD is the newest one heard, until an apply raises.
HeardUpTo ==
    /\ osdTs \in Nat /\ osdHeard \subseteq Nat /\ (osdHeard # {} => osdTs # 0)
    /\ pc # "crashed" => osdTs <= now /\ \A h \in osdHeard : h <= osdTs

AirborneInv == FrameInv /\ HeardUpTo /\ AirborneSeen

LEMMA StepAirborne ==
    ASSUME SpecialModesNotAirborne, AirborneInv, [Next]_vars
    PROVE  AirborneInv'
<1>0. FrameInv /\ FrameInv'
  BY StepFrame DEF AirborneInv
<1>1. ASSUME NEW t \in Nat \ {0}, Applied(t)
      PROVE  AirborneInv'
  <2>1. pc = "idle" /\ now' = t /\ (pc' # "crashed" => t >= now) /\ now \in Nat
    BY <1>0, <1>1, FrameTaken DEF FrameInv
  <2>2. HeardUpTo'
    <3>1. CASE osdTs' = osdTs /\ osdHeard' = osdHeard
      BY <2>1, <3>1 DEF AirborneInv, HeardUpTo
    <3>2. CASE osdTs' = t /\ osdHeard' = osdHeard \cup {t}
      BY <2>1, <3>2 DEF AirborneInv, HeardUpTo
    <3> QED BY <1>1, <3>1, <3>2 DEF Applied
  <2>3. AirborneSeen'
    <3> DEFINE mc == Get(drone', "mc")
               fs == Get(dock', "fs")
    <3> SUFFICES ASSUME pc' = "drain", online',
                        NEW h \in osdHeard', now' - h <= SilenceMs,
                        mc \in AirborneSet, Known(mc), BucketOf(mc) \in AirbornePhases,
                        ~(taskTs' > 0 /\ now' - taskTs' <= BareFlightMs /\ fs \in {0, 2})
                 PROVE  phase' = BucketOf(mc)
      BY DEF AirborneSeen
    <3>1. ~DockOsdStale(t)
      <4>1. osdTs' \in Nat /\ osdTs' # 0 /\ h \in Nat /\ h <= osdTs'
        BY <2>2 DEF HeardUpTo
      <4>2. t - h <= SilenceMs /\ SilenceMs \in Nat /\ t \in Nat
        BY <2>1, AggregatorAssumption
      <4>3. ~(t - osdTs' > SilenceMs)
        BY <4>1, <4>2, LaterIsFresher, Zenon
      <4> QED BY <4>1, <4>3, Zenon DEF DockOsdStale
    <3>2. ~(TaskFresh(t, taskTs') /\ fs \in {0, 2})
      BY <2>1 DEF TaskFresh
    <3> HIDE DEF mc, fs
    <3>3. Resolved(t).phase = BucketOf(mc)
      <4>1. ResolvePhase(t, taskTs', TRUE, FALSE, fs, mc, Get(dock', "in_dock"),
                         Get(drone', "height"), Get(drone', "vs")).phase = BucketOf(mc)
        BY <3>2, AirborneResolved
      <4>2. Resolved(t) = ResolvePhase(t, taskTs', TRUE, FALSE, fs, mc, Get(dock', "in_dock"),
                                       Get(drone', "height"), Get(drone', "vs"))
        BY <3>1 DEF Resolved, ResolvePhase, mc, fs
      <4> QED BY <4>1, <4>2
    <3> QED BY <1>1, <3>3 DEF Applied, UpdatePhase
  <2> QED BY <1>0, <2>2, <2>3 DEF AirborneInv
<1>2. CASE Drain
  BY <1>0, <1>2 DEF Drain, AirborneInv, HeardUpTo, AirborneSeen
<1>3. CASE UNCHANGED vars
  BY <1>0, <1>3 DEF vars, stateVars, AirborneInv, HeardUpTo, AirborneSeen
<1> QED BY <1>1, <1>2, <1>3, ApplyIsApplied DEF Next

\* Whatever dock, drone and clock report: while the dock is heard, a drone in an
\* airborne mode is given the phase of that mode, unless a task prepares or recovers.
THEOREM AirborneIsSeen ==
    ASSUME SpecialModesNotAirborne
    PROVE  Spec => []AirborneSeen
<1>1. Init => AirborneInv
  BY InitFrame DEF Init, AirborneInv, HeardUpTo, AirborneSeen
<1>2. AirborneInv => AirborneSeen
  BY DEF AirborneInv
<1>3. AirborneInv /\ [Next]_vars => AirborneInv'
  BY StepAirborne
<1> QED BY <1>1, <1>2, <1>3, PTL DEF Spec

-----------------------------------------------------------------------------
(* GustIsWindowMax.                                                        *)

LEMMA MaxIs ==
    ASSUME NEW S \in SUBSET Int, NEW m \in S, \A x \in S : x <= m
    PROVE  Max(S) = m
<1>1. \A x \in S : m >= x
  OBVIOUS
<1>2. /\ Max(S) \in S /\ \A y \in S : Max(S) >= y
  BY <1>1 DEF Max
<1>3. Max(S) \in Int /\ m \in Int /\ Max(S) >= m /\ Max(S) <= m
  BY <1>2
<1> QED BY <1>3

LEMMA MinIs ==
    ASSUME NEW S \in SUBSET Int, NEW m \in S, \A x \in S : m <= x
    PROVE  Min(S) = m
<1>1. /\ Min(S) \in S /\ \A y \in S : Min(S) =< y
  BY DEF Min
<1>2. Min(S) \in Int /\ m \in Int /\ Min(S) <= m /\ m <= Min(S)
  BY <1>1
<1> QED BY <1>2

\* A measurement: PushWind takes a null wind for none.
Points == Nat \X (Int \ {Null})

InOrder(q) == \A i, j \in 1..Len(q) : i <= j => q[i][1] <= q[j][1]

\* From every point on there is a strongest one: a maximum survives any eviction.
HasPeaks(q) ==
    \A i \in 1..Len(q) : \E k \in i..Len(q) : \A j \in i..Len(q) : q[j][2] <= q[k][2]

\* The evictions leave exactly the points that are not before the cutoff.
LEMMA EvictedPrefix ==
    ASSUME NEW q \in Seq(Points), NEW cutoff \in Int, InOrder(q)
    PROVE  \E d \in 0..Len(q) :
             /\ DropStale(q, cutoff) = SubSeq(q, d + 1, Len(q))
             /\ \A i \in 1..Len(q) : q[i][1] < cutoff <=> i <= d
<1> DEFINE n == Len(q)
           stale == {i \in 1..n : \A j \in 1..i : q[j][1] < cutoff}
           d == Cardinality(stale)
<1>1. n \in Nat /\ \A i \in 1..n : q[i] \in Points /\ q[i][1] \in Nat
  BY ElementOfSeq DEF Points
<1>2. \A k \in Nat : IsFiniteSet(1..k) /\ Cardinality(1..k) = k
  BY FS_Interval
<1>3. IsFiniteSet(stale) /\ d <= n /\ d \in Nat
  <2>1. stale \subseteq 1..n
    OBVIOUS
  <2> HIDE DEF stale
  <2>2. IsFiniteSet(1..n) /\ Cardinality(1..n) = n
    BY <1>1, <1>2
  <2>3. IsFiniteSet(stale) /\ Cardinality(stale) <= n
    BY <2>1, <2>2, FS_Subset
  <2> QED BY <2>3, FS_CardinalityType
<1>4. ASSUME NEW i \in 1..n
      PROVE  q[i][1] < cutoff <=> i \in stale
  <2>1. \A j \in 1..i : j \in 1..n /\ q[j][1] <= q[i][1]
    BY <1>1 DEF InOrder
  <2>2. q[i][1] < cutoff => \A j \in 1..i : q[j][1] < cutoff
    BY <1>1, <2>1
  <2> QED BY <2>2
<1>5. ASSUME NEW i \in stale
      PROVE  i <= d
  <2>1. 1..i \subseteq stale /\ i \in Nat
    BY <1>1
  <2> HIDE DEF stale
  <2>2. Cardinality(1..i) <= d
    BY <1>3, <2>1, FS_Subset
  <2> QED BY <1>2, <2>1, <2>2
<1>6. ASSUME NEW i \in (1..n) \ stale
      PROVE  d < i
  <2>1. stale \subseteq 1..(i - 1) /\ i - 1 \in Nat
    <3>1. \A j \in stale : j < i
      <4> SUFFICES ASSUME NEW j \in stale, i <= j
                   PROVE  FALSE
        BY <1>1
      <4>1. q[j][1] < cutoff /\ j \in 1..n
        OBVIOUS
      <4>2. q[i][1] <= q[j][1]
        BY <4>1 DEF InOrder
      <4>3. q[i][1] < cutoff
        BY <1>1, <4>1, <4>2
      <4> QED BY <1>4, <4>3
    <3> QED BY <1>1, <3>1
  <2> HIDE DEF stale
  <2>2. d <= Cardinality(1..(i - 1))
    BY <1>2, <2>1, FS_Subset
  <2> QED BY <1>1, <1>2, <1>3, <2>1, <2>2
<1>7. DropStale(q, cutoff) = SubSeq(q, d + 1, Len(q))
  BY DEF DropStale
<1> HIDE DEF d, stale
<1>8. d \in 0..Len(q)
  BY <1>1, <1>3
<1>9. \A i \in 1..Len(q) : q[i][1] < cutoff <=> i <= d
  <2> SUFFICES ASSUME NEW i \in 1..n
               PROVE  q[i][1] < cutoff <=> i <= d
    OBVIOUS
  <2>1. CASE i \in stale
    BY <1>4, <1>5, <2>1
  <2>2. CASE i \notin stale
    BY <1>1, <1>3, <1>4, <1>6, <2>2
  <2> QED BY <2>1, <2>2
<1> QED BY <1>7, <1>8, <1>9

\* A point no older than the last makes a window that ends with it and holds what
\* of the old window is in it.
LEMMA PushedWindow ==
    ASSUME NEW q \in Seq(Points), InOrder(q), HasPeaks(q), NEW t \in Nat, NEW w \in Int \ {Null},
           q # <<>> => q[Len(q)][1] <= t
    PROVE  /\ Push(q, t, w) \in Seq(Points) /\ Push(q, t, w) # <<>>
           /\ Push(q, t, w)[Len(Push(q, t, w))] = <<t, w>>
           /\ InOrder(Push(q, t, w)) /\ HasPeaks(Push(q, t, w))
           /\ \A e : (\E i \in 1..Len(Push(q, t, w)) : Push(q, t, w)[i] = e) <=>
                     /\ e[1] >= t - GustMs
                     /\ e = <<t, w>> \/ \E i \in 1..Len(q) : q[i] = e
<1> DEFINE a == Append(q, <<t, w>>)
           p == Push(q, t, w)
           n == Len(q)
<1>1. /\ a \in Seq(Points) /\ n \in Nat /\ Len(a) = n + 1 /\ a[n + 1] = <<t, w>>
      /\ \A i \in 1..n : a[i] = q[i] /\ q[i] \in Points /\ q[i][1] \in Nat /\ q[i][2] \in Int
      /\ \A i \in 1..(n + 1) : i \in 1..n \/ i = n + 1
  <2>1. <<t, w>> \in Points
    BY DEF Points
  <2>2. \A i \in 1..n : q[i] \in Points /\ q[i][1] \in Nat /\ q[i][2] \in Int
    BY ElementOfSeq DEF Points
  <2> QED BY <2>1, <2>2, AppendProperties
<1>2. n # 0 => q[n][1] <= t /\ n \in 1..n
  BY <1>1, EmptySeq
<1>3. p = DropStale(a, t - GustMs)
  <2>1. ~(q # <<>> /\ t < q[Len(q)][1])
    BY <1>1, <1>2, EmptySeq
  <2> QED BY <2>1 DEF Push
<1>4. \A i \in 1..(n + 1) : a[i][1] \in Nat /\ a[i][2] \in Int /\ a[i][1] <= t
  <2> SUFFICES ASSUME NEW i \in 1..(n + 1)
               PROVE  a[i][1] \in Nat /\ a[i][2] \in Int /\ a[i][1] <= t
    OBVIOUS
  <2>1. CASE i \in 1..n
    <3>1. q[i][1] <= q[n][1] /\ q[n][1] <= t /\ n \in 1..n
      BY <1>1, <1>2, <2>1 DEF InOrder
    <3> QED BY <1>1, <2>1, <3>1
  <2>2. CASE i = n + 1
    BY <1>1, <2>2
  <2> QED BY <1>1, <2>1, <2>2
<1> HIDE DEF a, p
<1>5. InOrder(a)
  <2> SUFFICES ASSUME NEW i \in 1..(n + 1), NEW j \in 1..(n + 1), i <= j
               PROVE  a[i][1] <= a[j][1]
    BY <1>1 DEF InOrder
  <2>1. CASE j = n + 1
    BY <1>1, <1>4, <2>1
  <2>2. CASE j \in 1..n
    <3>1. i \in 1..n
      BY <2>2
    <3> QED BY <1>1, <2>2, <3>1 DEF InOrder
  <2> QED BY <1>1, <2>1, <2>2
<1>6. HasPeaks(a)
  <2> SUFFICES ASSUME NEW i \in 1..(n + 1)
               PROVE  \E k \in i..(n + 1) : \A j \in i..(n + 1) : a[j][2] <= a[k][2]
    BY <1>1 DEF HasPeaks
  <2>1. CASE i = n + 1
    BY <1>1, <1>4, <2>1
  <2>2. CASE i \in 1..n
    <3>1. PICK k \in i..n : \A j \in i..n : q[j][2] <= q[k][2]
      BY <2>2 DEF HasPeaks
    <3>2. k \in 1..n /\ \A j \in i..n : j \in 1..n /\ a[j][2] <= a[k][2]
      BY <1>1, <2>2, <3>1
    <3>3. CASE a[k][2] >= w
      <4>1. a[n + 1][2] <= a[k][2]
        BY <1>1, <3>3
      <4>2. k \in i..(n + 1) /\ \A j \in i..(n + 1) : j \in i..n \/ j = n + 1
        BY <1>1, <3>1
      <4> QED BY <3>2, <4>1, <4>2
    <3>4. CASE ~(a[k][2] >= w)
      <4>1. \A j \in i..n : a[j][2] <= w
        <5> SUFFICES ASSUME NEW j \in i..n
                     PROVE  a[j][2] <= w
          OBVIOUS
        <5>1. a[j][2] \in Int /\ a[k][2] \in Int /\ a[j][2] <= a[k][2]
          BY <1>1, <3>2
        <5> QED BY <3>4, <5>1
      <4>2. n + 1 \in i..(n + 1) /\ \A j \in i..(n + 1) : j \in i..n \/ j = n + 1
        BY <1>1, <2>2
      <4>3. \A j \in i..(n + 1) : a[j][2] <= a[n + 1][2]
        BY <1>1, <4>1, <4>2
      <4> QED BY <4>2, <4>3
    <3> QED BY <3>3, <3>4
  <2> QED BY <1>1, <2>1, <2>2
<1>7. PICK d \in 0..(n + 1) :
        /\ p = SubSeq(a, d + 1, n + 1)
        /\ \A i \in 1..(n + 1) : a[i][1] < t - GustMs <=> i <= d
  <2>1. t - GustMs \in Int
    BY AggregatorAssumption
  <2> QED BY <1>1, <1>3, <1>5, <2>1, EvictedPrefix
<1>8. d <= n
  <2>1. ~(t < t - GustMs)
    BY AggregatorAssumption
  <2>2. ~(n + 1 <= d)
    BY <1>1, <1>7, <2>1
  <2> QED BY <1>1, <2>2
<1>9. /\ p \in Seq(Points) /\ Len(p) = n + 1 - d
      /\ \A i \in 1..(n + 1 - d) : p[i] = a[i + d]
  <2>1. d + 1 \in 1..(Len(a) + 1) /\ n + 1 \in 0..Len(a)
    BY <1>1, <1>8
  <2>2. /\ p \in Seq(Points)
        /\ Len(p) = (IF d + 1 <= n + 1 THEN n + 1 - (d + 1) + 1 ELSE 0)
        /\ \A i \in 1..(n + 1 - (d + 1) + 1) : p[i] = a[d + 1 + i - 1]
    BY <1>1, <1>7, <2>1, SubSeqProperties
  <2>3. n + 1 - (d + 1) + 1 = n + 1 - d /\ d + 1 <= n + 1
    BY <1>1, <1>8
  <2>4. \A i \in 1..(n + 1 - d) : d + 1 + i - 1 = i + d
    BY <1>1, <1>8
  <2> QED BY <2>2, <2>3, <2>4
<1>10. Len(p) \in Nat \ {0} /\ p # <<>> /\ p[Len(p)] = <<t, w>>
  BY <1>1, <1>8, <1>9, EmptySeq
<1>11. \A i \in 1..Len(p) : i + d \in 1..(n + 1) /\ p[i] = a[i + d]
  BY <1>1, <1>8, <1>9
<1>12. InOrder(p)
  BY <1>1, <1>5, <1>8, <1>11 DEF InOrder
<1>13. HasPeaks(p)
  <2> SUFFICES ASSUME NEW i \in 1..Len(p)
               PROVE  \E k \in i..Len(p) : \A j \in i..Len(p) : p[j][2] <= p[k][2]
    BY DEF HasPeaks
  <2>1. PICK k \in (i + d)..(n + 1) : \A j \in (i + d)..(n + 1) : a[j][2] <= a[k][2]
    BY <1>1, <1>6, <1>11 DEF HasPeaks
  <2>2. k - d \in i..Len(p) /\ p[k - d] = a[k]
    BY <1>1, <1>8, <1>9, <1>11
  <2>3. \A j \in i..Len(p) : j + d \in (i + d)..(n + 1) /\ p[j] = a[j + d]
    BY <1>1, <1>8, <1>9, <1>11
  <2> QED BY <2>1, <2>2, <2>3
<1>14. ASSUME NEW e
       PROVE  (\E i \in 1..Len(p) : p[i] = e) <=>
                 e[1] >= t - GustMs /\ (e = <<t, w>> \/ \E i \in 1..n : q[i] = e)
  <2>1. ASSUME NEW i \in 1..Len(p), p[i] = e
        PROVE  e[1] >= t - GustMs /\ (e = <<t, w>> \/ \E j \in 1..n : q[j] = e)
    <3>1. i + d \in 1..(n + 1) /\ e = a[i + d] /\ ~(i + d <= d)
      BY <1>8, <1>11, <2>1
    <3>2. ~(e[1] < t - GustMs) /\ e[1] \in Nat
      BY <1>4, <1>7, <3>1
    <3>3. e[1] >= t - GustMs
      BY <3>2, AggregatorAssumption
    <3> QED BY <1>1, <3>1, <3>3
  <2>2. ASSUME NEW j \in 1..(n + 1), a[j] = e, e[1] >= t - GustMs
        PROVE  \E i \in 1..Len(p) : p[i] = e
    <3>1. ~(a[j][1] < t - GustMs)
      BY <1>4, <2>2, AggregatorAssumption
    <3>2. ~(j <= d)
      BY <1>7, <3>1
    <3>3. j - d \in 1..Len(p) /\ (j - d) + d = j
      BY <1>1, <1>8, <1>9, <3>2
    <3> QED BY <1>11, <2>2, <3>3
  <2>3. e = <<t, w>> => a[n + 1] = e /\ n + 1 \in 1..(n + 1)
    BY <1>1
  <2>4. \A j \in 1..n : q[j] = e => a[j] = e /\ j \in 1..(n + 1)
    BY <1>1
  <2> QED BY <2>1, <2>2, <2>3, <2>4
<1> QED BY <1>9, <1>10, <1>12, <1>13, <1>14 DEF p

\* The window q of the winds in S at time n.
Window(q, S, n) ==
    /\ q \in Seq(Points) /\ InOrder(q) /\ HasPeaks(q) /\ S \subseteq Points
    /\ S = {} <=> q = <<>>
    /\ q # <<>> =>
         /\ q[Len(q)][1] <= n
         /\ \A w \in S : w[1] <= q[Len(q)][1]
         /\ \A e : (\E i \in 1..Len(q) : q[i] = e) <=> e \in S /\ e[1] >= q[Len(q)][1] - GustMs

LEMMA WindowMoves ==
    ASSUME NEW q, NEW S, NEW n \in Nat, Window(q, S, n), NEW t \in Nat, n <= t,
           NEW w \in Int \ {Null}
    PROVE  Window(Push(q, t, w), S \cup {<<t, w>>}, t)
<1> DEFINE p == Push(q, t, w)
           new == <<t, w>>
<1>1. q \in Seq(Points) /\ InOrder(q) /\ HasPeaks(q) /\ S \subseteq Points
  BY DEF Window
<1>2. new \in Points /\ new[1] = t /\ GustMs \in Nat /\ t >= t - GustMs
  BY AggregatorAssumption DEF Points
<1>3. q # <<>> => Len(q) \in 1..Len(q) /\ q[Len(q)][1] \in Nat /\ q[Len(q)][1] <= t
  <2> SUFFICES ASSUME q # <<>>
               PROVE  Len(q) \in 1..Len(q) /\ q[Len(q)][1] \in Nat /\ q[Len(q)][1] <= t
    OBVIOUS
  <2>1. Len(q) \in 1..Len(q)
    BY <1>1, EmptySeq
  <2>2. q[Len(q)] \in Points
    BY <1>1, <2>1, ElementOfSeq
  <2>3. q[Len(q)][1] \in Nat /\ q[Len(q)][1] <= n
    BY <2>2 DEF Window, Points
  <2> QED BY <2>1, <2>3
<1>4. /\ p \in Seq(Points) /\ p # <<>> /\ p[Len(p)] = new
      /\ InOrder(p) /\ HasPeaks(p)
      /\ \A e : (\E i \in 1..Len(p) : p[i] = e) <=>
                 e[1] >= t - GustMs /\ (e = new \/ \E i \in 1..Len(q) : q[i] = e)
  BY <1>1, <1>3, PushedWindow
<1> HIDE DEF p, new
<1>5. \A v \in S \cup {new} : v \in Points /\ v[1] <= t
  <2> SUFFICES ASSUME NEW v \in S
               PROVE  v[1] <= t
    BY <1>1, <1>2
  <2>1. q # <<>> /\ v[1] \in Nat
    BY <1>1 DEF Window, Points
  <2>2. v[1] <= q[Len(q)][1]
    BY <2>1 DEF Window
  <2> QED BY <1>3, <2>1, <2>2
<1>6. ASSUME NEW e
      PROVE  (\E i \in 1..Len(p) : p[i] = e) <=> e \in S \cup {new} /\ e[1] >= t - GustMs
  <2>1. ASSUME e[1] >= t - GustMs
        PROVE  (\E i \in 1..Len(q) : q[i] = e) <=> e \in S
    <3>1. CASE q = <<>>
      BY <3>1 DEF Window
    <3>2. CASE q # <<>>
      <4>1. ASSUME e \in S
            PROVE  e[1] >= q[Len(q)][1] - GustMs
        <5>1. e[1] \in Nat
          BY <1>1, <4>1 DEF Points
        <5> QED BY <1>2, <1>3, <2>1, <3>2, <5>1
      <4> QED BY <3>2, <4>1 DEF Window
    <3> QED BY <3>1, <3>2
  <2> QED BY <1>4, <2>1
<1>7. Window(p, S \cup {new}, t)
  BY <1>2, <1>4, <1>5, <1>6 DEF Window
<1> QED BY <1>7 DEF p, new

LEMMA WindowAges ==
    ASSUME NEW q, NEW S, NEW n \in Nat, Window(q, S, n), NEW t \in Nat, n <= t
    PROVE  Window(q, S, t)
<1>1. q # <<>> => q[Len(q)][1] <= t
  <2> SUFFICES ASSUME q # <<>>
               PROVE  q[Len(q)][1] <= t
    OBVIOUS
  <2>1. q \in Seq(Points) /\ Len(q) \in 1..Len(q)
    BY EmptySeq DEF Window
  <2>2. q[Len(q)] \in Points
    BY <2>1, ElementOfSeq
  <2>3. q[Len(q)][1] \in Nat /\ q[Len(q)][1] <= n
    BY <2>2 DEF Window, Points
  <2> QED BY <2>3
<1> QED BY <1>1 DEF Window

\* The gust of a window is one of its winds and none is stronger.
LEMMA GustIsTop ==
    ASSUME NEW q, NEW S, NEW n \in Nat, Window(q, S, n), q # <<>>
    PROVE  /\ Gust(q) \in Int \ {Null}
           /\ \E e \in S : e[1] >= q[Len(q)][1] - GustMs /\ e[2] = Gust(q)
           /\ \A e \in S : e[1] >= q[Len(q)][1] - GustMs => e[2] <= Gust(q)
<1> DEFINE V == {q[i][2] : i \in 1..Len(q)}
<1>1. q \in Seq(Points) /\ HasPeaks(q) /\ Len(q) \in Nat \ {0}
  BY EmptySeq DEF Window
<1>2. \A i \in 1..Len(q) : q[i] \in Points /\ q[i][2] \in Int \ {Null}
  BY <1>1, ElementOfSeq DEF Points
<1>3. PICK k \in 1..Len(q) : \A j \in 1..Len(q) : q[j][2] <= q[k][2]
  BY <1>1 DEF HasPeaks
<1>4. V \in SUBSET Int /\ q[k][2] \in V /\ \A x \in V : x <= q[k][2]
  BY <1>2, <1>3
<1>5. Max(V) = q[k][2]
  <2> HIDE DEF V
  <2> QED BY <1>4, MaxIs
<1>6. Gust(q) = q[k][2]
  BY <1>5 DEF Gust
<1>7. \A e : (\E i \in 1..Len(q) : q[i] = e) <=> e \in S /\ e[1] >= q[Len(q)][1] - GustMs
  BY DEF Window
<1>8. q[k] \in S /\ q[k][1] >= q[Len(q)][1] - GustMs
  BY <1>7
<1>9. \A e \in S : e[1] >= q[Len(q)][1] - GustMs => e[2] <= q[k][2]
  BY <1>3, <1>7
<1> QED BY <1>2, <1>6, <1>8, <1>9

\* The aggregator keeps a window of all winds, and the newest frame shows its gust.
GustInv ==
    /\ FrameInv
    /\ pc # "crashed" => /\ Window(gusts, winds, now)
                         /\ ring # <<>> => LastFrame.gust = Gust(gusts)
                         /\ ring = <<>> => winds = {}

LEMMA InitGust == Init => GustInv
<1> SUFFICES ASSUME Init
             PROVE  GustInv
  OBVIOUS
<1>1. FrameInv
  BY InitFrame
<1>2. <<>> \in Seq(Points) /\ InOrder(<<>>) /\ HasPeaks(<<>>)
  BY DEF InOrder, HasPeaks
<1>3. Window(<<>>, {}, 0)
  BY <1>2 DEF Window
<1> QED BY <1>1, <1>3 DEF Init, GustInv

LEMMA StepGust ==
    ASSUME GustInv, [Next]_vars
    PROVE  GustInv'
<1>0. FrameInv /\ FrameInv'
  BY StepFrame DEF GustInv
<1>1. ASSUME NEW t \in Nat \ {0}, Applied(t), pc' # "crashed"
      PROVE  GustInv'
  <2>1. /\ pc = "idle" /\ now' = t /\ t >= now /\ now \in Nat /\ ring' # <<>>
        /\ LastFrame'.gust = Gust(gusts')
    BY <1>0, <1>1, FrameTaken DEF FrameInv
  <2>2. Window(gusts, winds, now) /\ now <= t
    BY <2>1 DEF GustInv
  <2>3. PICK w \in Int : PushWind(t, w)
    BY <1>1 DEF Applied
  <2>4. CASE w = Null
    <3>1. gusts' = gusts /\ winds' = winds
      BY <2>3, <2>4 DEF PushWind
    <3>2. Window(gusts, winds, t)
      BY <2>1, <2>2, WindowAges
    <3>3. Window(gusts', winds', now')
      BY <2>1, <3>1, <3>2
    <3> QED BY <1>0, <2>1, <3>3 DEF GustInv
  <2>5. CASE w # Null
    <3>1. gusts' = Push(gusts, t, w) /\ winds' = winds \cup {<<t, w>>}
      BY <2>3, <2>5 DEF PushWind
    <3>2. Window(Push(gusts, t, w), winds \cup {<<t, w>>}, t)
      BY <2>1, <2>2, <2>5, WindowMoves
    <3>3. Window(gusts', winds', now')
      BY <2>1, <3>1, <3>2
    <3> QED BY <1>0, <2>1, <3>3 DEF GustInv
  <2> QED BY <2>4, <2>5
<1>2. CASE pc' = "crashed"
  BY <1>0, <1>2 DEF GustInv
<1>3. CASE Drain \/ UNCHANGED vars
  <2>1. UNCHANGED <<gusts, winds, now, ring>> /\ (pc' # "crashed" => pc # "crashed")
    BY <1>3 DEF Drain, vars, stateVars
  <2> QED BY <1>0, <2>1 DEF GustInv, LastFrame
<1> QED BY <1>1, <1>2, <1>3, ApplyIsApplied DEF Next

\* After any measurements of dock and drone and any jumps of the clock, the gust of
\* the newest frame is the strongest wind of the window before the newest one.
THEOREM GustsAreWindowMax == Spec => []GustIsWindowMax
<1>1. GustInv => GustIsWindowMax
  <2> SUFFICES ASSUME GustInv, pc # "crashed", ring # <<>>
               PROVE  LastFrame.gust = IF winds = {} THEN Null
                        ELSE Max({w[2] : w \in {v \in winds : v[1] >= NewestWind - GustMs}})
    BY DEF GustIsWindowMax
  <2>1. /\ Window(gusts, winds, now) /\ now \in Nat
        /\ LastFrame.gust = Gust(gusts)
    BY DEF GustInv, FrameInv
  <2>2. CASE winds = {}
    <3>1. gusts = <<>>
      BY <2>1, <2>2 DEF Window
    <3> QED BY <2>1, <2>2, <3>1 DEF Gust
  <2>3. CASE winds # {}
    <3> DEFINE top == gusts[Len(gusts)][1]
               T == {w[1] : w \in winds}
    <3>1. gusts # <<>> /\ gusts \in Seq(Points) /\ winds \subseteq Points
      BY <2>1, <2>3 DEF Window
    <3>2. Len(gusts) \in 1..Len(gusts)
      BY <3>1, EmptySeq
    <3>3. gusts[Len(gusts)] \in winds
      BY <2>1, <3>1, <3>2 DEF Window
    <3>4. T \in SUBSET Int /\ top \in T /\ \A x \in T : x <= top
      BY <2>1, <3>1, <3>3 DEF Window, Points
    <3>5. NewestWind = top
      <4>1. Max(T) = top
        <5> HIDE DEF T, top
        <5> QED BY <3>4, MaxIs
      <4> QED BY <4>1 DEF NewestWind
    <3> DEFINE W == {w[2] : w \in {v \in winds : v[1] >= top - GustMs}}
    <3>6. Gust(gusts) \in W /\ \A x \in W : x <= Gust(gusts)
      BY <2>1, <3>1, GustIsTop
    <3>7. W \in SUBSET Int
      BY <3>1 DEF Points
    <3>8. Max(W) = Gust(gusts)
      <4> HIDE DEF W
      <4> QED BY <3>6, <3>7, MaxIs
    <3> QED BY <2>1, <2>3, <3>5, <3>8
  <2> QED BY <2>2, <2>3
<1>2. GustInv /\ [Next]_vars => GustInv'
  BY StepGust
<1> QED BY <1>1, <1>2, InitGust, PTL DEF Spec

-----------------------------------------------------------------------------
(* The offline pass.                                                       *)

\* On the aggregator's variables the pass takes the aggregator's own steps.
LEMMA CollectorStep ==
    /\ CollectorInit => Init
    /\ [CollectorNext]_allVars => [Next]_vars
<1>1. CollectorInit => Init
  BY DEF CollectorInit
<1>2. ASSUME CollectorNext
      PROVE  Next
  BY <1>2 DEF CollectorNext, Collect, Next
<1>3. ASSUME UNCHANGED allVars
      PROVE  UNCHANGED vars
  BY <1>3 DEF allVars
<1> QED BY <1>1, <1>2, <1>3

\* The pass runs the aggregator, so what holds of every run of it holds of every
\* pass over a recording: collector.py feeds the class the live loop feeds.
THEOREM CollectorRunsAggregator == CollectorSpec => Spec
BY CollectorStep, PTL DEF CollectorSpec, Spec

\* peak is the strongest wind of S and when it was first measured.
PeakOf(p, S) ==
    IF S = {} THEN p = None
    ELSE /\ \E w \in S : p = <<w[2], w[1]>>
         /\ \A w \in S : w[2] <= p[1] /\ (w[2] = p[1] => p[2] <= w[1])

\* Between an apply and its collect the winds not yet looked at are of this instant.
PeakInv ==
    /\ GustInv
    /\ pc = "idle" => PeakOf(peak, winds)
    /\ pc = "drain" => \E S \in SUBSET winds :
                          PeakOf(peak, S) /\ \A w \in winds \ S : w[1] = now

\* The gust of the newest frame is enough to move the peak on to all winds.
LEMMA PeakMoves ==
    ASSUME PeakInv, Collect
    PROVE  PeakOf(peak', winds)
<1> DEFINE g == LastFrame.gust
<1>1. /\ pc = "drain" /\ now \in Nat /\ Window(gusts, winds, now) /\ g = Gust(gusts)
      /\ peak' = IF Higher(g) THEN <<g, now>> ELSE peak
  BY DEF Collect, Drain, PeakInv, GustInv, FrameInv, LastFrame
<1>2. PICK S \in SUBSET winds : PeakOf(peak, S) /\ \A w \in winds \ S : w[1] = now
  BY <1>1 DEF PeakInv
<1> HIDE DEF g
<1>3. CASE winds = {}
  <2>1. g = Null
    BY <1>1, <1>3 DEF Window, Gust
  <2>2. S = {}
    BY <1>3
  <2> QED BY <1>1, <1>2, <1>3, <2>1, <2>2 DEF Higher, PeakOf
<1>4. CASE winds # {}
  <2>1. gusts # <<>> /\ winds \subseteq Points /\ GustMs \in Nat
    BY <1>1, <1>4, AggregatorAssumption DEF Window
  <2> DEFINE top == gusts[Len(gusts)][1]
  <2>2. top \in Nat /\ top <= now
    <3>1. gusts \in Seq(Points) /\ Len(gusts) \in 1..Len(gusts)
      BY <1>1, <2>1, EmptySeq DEF Window
    <3>2. gusts[Len(gusts)] \in Points
      BY <3>1, ElementOfSeq
    <3> QED BY <1>1, <2>1, <3>2 DEF Window, Points
  <2>3. /\ g \in Int \ {Null}
        /\ \E e \in winds : e[1] >= top - GustMs /\ e[2] = g
        /\ \A e \in winds : e[1] >= top - GustMs => e[2] <= g
    BY <1>1, <2>1, GustIsTop
  <2> HIDE DEF top
  <2>4. PICK e \in winds : e[2] = g
    BY <2>3
  <2>5. \A w \in winds : w[1] \in Nat /\ w[2] \in Int \ {Null}
    BY <2>1 DEF Points
  <2>6. \A w \in winds \ S : w[1] = now /\ w[2] <= g
    BY <1>1, <1>2, <2>1, <2>2, <2>3
  <2>7. S # {} => \E v \in S : peak = <<v[2], v[1]>> /\ peak # None
    BY <1>2, <2>5 DEF PeakOf, None
  <2>8. CASE Higher(g)
    <3>1. peak' = <<g, now>>
      BY <1>1, <2>8
    <3>2. \A w \in S : w[2] < g
      <4> SUFFICES ASSUME NEW w \in S
                   PROVE  w[2] < g
        OBVIOUS
      <4>1. g > peak[1] /\ peak[1] \in Int
        BY <2>5, <2>7, <2>8 DEF Higher
      <4>2. w[2] <= peak[1] /\ w[2] \in Int
        BY <1>2, <2>5 DEF PeakOf
      <4> QED BY <2>3, <4>1, <4>2
    <3>3. e \notin S
      BY <2>3, <2>4, <3>2
    <3>4. peak' = <<e[2], e[1]>>
      BY <2>4, <2>6, <3>1, <3>3
    <3>5. \A w \in winds : w[2] <= g /\ (w[2] = g => now <= w[1])
      <4> SUFFICES ASSUME NEW w \in winds
                   PROVE  w[2] <= g /\ (w[2] = g => now <= w[1])
        OBVIOUS
      <4>1. CASE w \in S
        BY <2>3, <2>5, <3>2, <4>1
      <4>2. CASE w \notin S
        BY <1>1, <2>6, <4>2
      <4> QED BY <4>1, <4>2
    <3> QED BY <1>4, <3>1, <3>4, <3>5 DEF PeakOf
  <2>9. CASE ~Higher(g)
    <3>1. peak' = peak
      BY <1>1, <2>9
    <3>2. peak # None /\ ~(g > peak[1])
      BY <2>3, <2>9 DEF Higher
    <3>3. S # {}
      BY <1>2, <3>2 DEF PeakOf
    <3>4. PICK v \in S : peak = <<v[2], v[1]>>
      BY <2>7, <3>3
    <3>5. v \in winds /\ peak[1] \in Int /\ peak[2] \in Nat /\ g <= peak[1] /\ peak[2] <= now
      <4>1. v[1] <= now
        <5>1. v[1] <= top
          BY <1>1, <2>1, <3>4 DEF Window, top
        <5> QED BY <1>1, <2>2, <2>5, <3>4, <5>1
      <4> QED BY <2>3, <2>5, <3>2, <3>4, <4>1
    <3>6. \A w \in winds : w[2] <= peak[1] /\ (w[2] = peak[1] => peak[2] <= w[1])
      <4> SUFFICES ASSUME NEW w \in winds
                   PROVE  w[2] <= peak[1] /\ (w[2] = peak[1] => peak[2] <= w[1])
        OBVIOUS
      <4>1. CASE w \in S
        BY <1>2, <4>1 DEF PeakOf
      <4>2. CASE w \notin S
        BY <1>1, <2>3, <2>5, <2>6, <3>5, <4>2
      <4> QED BY <4>1, <4>2
    <3> QED BY <1>4, <3>1, <3>4, <3>5, <3>6 DEF PeakOf
  <2> QED BY <2>8, <2>9
<1> QED BY <1>3, <1>4

LEMMA StepPeak ==
    ASSUME PeakInv, [CollectorNext]_allVars
    PROVE  PeakInv'
<1>0. GustInv'
  BY CollectorStep, StepGust DEF PeakInv
<1>1. ASSUME Apply, UNCHANGED collected
      PROVE  PeakInv'
  <2>1. PICK t \in Nat \ {0} : Applied(t)
    BY <1>1, ApplyIsApplied
  <2>2. pc = "idle" /\ pc' \in {"drain", "crashed"} /\ now' = t /\ peak' = peak
    BY <1>1, <2>1, FrameTaken DEF PeakInv, GustInv, collected
  <2>3. PeakOf(peak, winds)
    BY <2>2 DEF PeakInv
  <2>4. winds \subseteq winds' /\ \A w \in winds' \ winds : w[1] = t
    BY <2>1 DEF Applied, PushWind
  <2>5. pc' = "drain" => \E S \in SUBSET winds' :
                            PeakOf(peak', S) /\ \A w \in winds' \ S : w[1] = now'
    BY <2>2, <2>3, <2>4
  <2> QED BY <1>0, <2>2, <2>5 DEF PeakInv
<1>2. CASE Collect
  <2>1. PeakOf(peak', winds)
    BY <1>2, PeakMoves
  <2>2. pc' = "idle" /\ winds' = winds
    BY <1>2 DEF Collect, Drain
  <2> QED BY <1>0, <2>1, <2>2 DEF PeakInv
<1>3. CASE UNCHANGED allVars
  <2>1. UNCHANGED <<pc, now, winds, peak>>
    BY <1>3 DEF allVars, vars, stateVars, collected
  <2> QED BY <1>0, <2>1 DEF PeakInv
<1> QED BY <1>1, <1>2, <1>3 DEF CollectorNext

\* However gusts and lulls follow each other and whatever each frame's window had
\* already lost, the report's peak is the strongest wind of the whole recording.
THEOREM PeaksAreStrongest == CollectorSpec => []PeakIsStrongest
<1>1. CollectorInit => PeakInv
  <2> SUFFICES ASSUME CollectorInit
               PROVE  PeakInv
    OBVIOUS
  <2>1. GustInv
    BY CollectorStep, InitGust
  <2>2. winds = {} /\ peak = None /\ pc = "idle"
    BY DEF CollectorInit, Init
  <2> QED BY <2>1, <2>2 DEF PeakInv, PeakOf
<1>2. PeakInv => PeakIsStrongest
  <2> SUFFICES ASSUME PeakInv, pc = "idle"
               PROVE  PeakIsStrongest
    BY DEF PeakIsStrongest
  <2>1. PeakOf(peak, winds) /\ winds \subseteq Points
    BY DEF PeakInv, GustInv, Window
  <2>2. CASE winds = {}
    BY <2>1, <2>2 DEF PeakOf, PeakIsStrongest
  <2>3. CASE winds # {}
    <3>1. PICK w \in winds : peak = <<w[2], w[1]>>
      BY <2>1, <2>3 DEF PeakOf
    <3> DEFINE T == {v[2] : v \in winds}
    <3>2. T \in SUBSET Int /\ peak[1] \in T /\ \A x \in T : x <= peak[1]
      BY <2>1, <2>3, <3>1 DEF PeakOf, Points
    <3>3. Max(T) = peak[1]
      <4> HIDE DEF T
      <4> QED BY <3>2, MaxIs
    <3> DEFINE F == {v[1] : v \in {u \in winds : u[2] = peak[1]}}
    <3>4. F \in SUBSET Int /\ peak[2] \in F /\ \A x \in F : peak[2] <= x
      BY <2>1, <2>3, <3>1 DEF PeakOf, Points
    <3>5. Min(F) = peak[2]
      <4> HIDE DEF F
      <4> QED BY <3>4, MinIs
    <3>6. peak = <<peak[1], peak[2]>>
      BY <3>1
    <3> QED BY <2>3, <3>3, <3>5, <3>6 DEF PeakIsStrongest
  <2> QED BY <2>2, <2>3
<1>3. PeakInv /\ [CollectorNext]_allVars => PeakInv'
  BY StepPeak
<1> QED BY <1>1, <1>2, <1>3, PTL DEF CollectorSpec

-----------------------------------------------------------------------------
(* SamplesPaced.                                                           *)

\* As many intervals have passed as samples were taken, and none is of the future.
SampleInv ==
    /\ FrameInv
    /\ samples \in Seq(Int) /\ nextRel = Len(samples) * SampleInterval
    /\ SamplesPaced
    /\ started = 0 => samples = <<>>
    /\ pc # "crashed" => \A i \in 1..Len(samples) : samples[i] <= Rel

LEMMA NextInterval ==
    ASSUME NEW n \in Nat, NEW k \in Nat
    PROVE  n * k \in Nat /\ (n + 1) * k = n * k + k /\ (n + 1 - 1) * k = n * k
OBVIOUS

LEMMA SampleTaken ==
    ASSUME SampleInv, pc = "drain", Rel >= nextRel
    PROVE  LET more == Append(samples, Rel) IN
           /\ more \in Seq(Int) /\ nextRel + SampleInterval = Len(more) * SampleInterval
           /\ \A i \in 1..Len(more) :
                /\ more[i] >= (i - 1) * SampleInterval
                /\ i > 1 => more[i] >= more[i - 1]
                /\ more[i] <= Rel
<1> DEFINE more == Append(samples, Rel)
           n == Len(samples)
<1>1. /\ Rel \in Int /\ samples \in Seq(Int) /\ n \in Nat /\ SampleInterval \in Nat
      /\ nextRel = n * SampleInterval
      /\ \A i \in 1..n : samples[i] \in Int /\ samples[i] <= Rel
  <2>1. Rel \in Int
    BY DEF SampleInv, FrameInv, Rel
  <2>2. samples \in Seq(Int) /\ SampleInterval \in Nat
    BY CollectorAssumption DEF SampleInv
  <2> QED BY <2>1, <2>2, ElementOfSeq DEF SampleInv
<1>2. /\ more \in Seq(Int) /\ Len(more) = n + 1 /\ more[n + 1] = Rel
      /\ \A i \in 1..n : more[i] = samples[i]
  BY <1>1, AppendProperties
<1> HIDE DEF more, n
<1>3. nextRel + SampleInterval = Len(more) * SampleInterval
  BY <1>1, <1>2, NextInterval
<1>4. ASSUME NEW i \in 1..Len(more)
      PROVE  /\ more[i] >= (i - 1) * SampleInterval
             /\ i > 1 => more[i] >= more[i - 1]
             /\ more[i] <= Rel
  <2>1. CASE i \in 1..n
    <3>1. more[i] = samples[i] /\ (i > 1 => more[i - 1] = samples[i - 1])
      BY <1>1, <1>2, <2>1
    <3> QED BY <1>1, <2>1, <3>1 DEF SampleInv, SamplesPaced, n
  <2>2. CASE i = n + 1
    <3>1. more[i] = Rel /\ Rel >= (i - 1) * SampleInterval
      BY <1>1, <1>2, <2>2, NextInterval
    <3>2. i > 1 => i - 1 \in 1..n /\ more[i - 1] = samples[i - 1]
      BY <1>1, <1>2, <2>2
    <3> QED BY <1>1, <3>1, <3>2
  <2> QED BY <1>1, <1>2, <2>1, <2>2
<1> QED BY <1>2, <1>3, <1>4 DEF more

LEMMA StepSample ==
    ASSUME SampleInv, [CollectorNext]_allVars
    PROVE  SampleInv'
<1>0. FrameInv /\ FrameInv'
  BY CollectorStep, StepFrame DEF SampleInv
<1>1. ASSUME Apply, UNCHANGED collected
      PROVE  SampleInv'
  <2>1. PICK t \in Nat \ {0} : Applied(t)
    BY <1>1, ApplyIsApplied
  <2>2. /\ pc = "idle" /\ now' = t /\ started' = (IF started = 0 THEN t ELSE started)
        /\ pc' # "crashed" => t >= now
        /\ samples' = samples /\ nextRel' = nextRel
    BY <1>0, <1>1, <2>1, FrameTaken DEF collected
  <2>3. started' # 0
    BY <2>2
  <2>4. pc' # "crashed" => \A i \in 1..Len(samples) : samples[i] <= Rel'
    <3>1. CASE started = 0
      <4>1. samples = <<>>
        BY <3>1 DEF SampleInv
      <4> QED BY <4>1
    <3>2. CASE started # 0
      <4>1. started' = started /\ now \in Nat /\ started \in Nat /\ pc # "crashed"
        BY <1>0, <2>2, <3>2 DEF FrameInv
      <4>2. \A i \in 1..Len(samples) : samples[i] \in Int /\ samples[i] <= now - started
        BY <4>1, ElementOfSeq DEF SampleInv, Rel
      <4> QED BY <2>2, <4>1, <4>2 DEF Rel
    <3> QED BY <3>1, <3>2
  <2> QED BY <1>0, <2>2, <2>3, <2>4 DEF SampleInv, SamplesPaced
<1>2. CASE Collect
  <2>1. pc = "drain" /\ pc' = "idle" /\ now' = now /\ started' = started /\ Rel' = Rel
    BY <1>2 DEF Collect, Drain, Rel
  <2>2. started # 0
    BY <1>0, <2>1 DEF FrameInv
  <2>3. CASE samples' = samples /\ nextRel' = nextRel
    BY <1>0, <2>1, <2>3 DEF SampleInv, SamplesPaced
  <2>4. CASE /\ samples' = Append(samples, Rel) /\ nextRel' = nextRel + SampleInterval
             /\ Rel >= nextRel
    <3> DEFINE more == Append(samples, Rel)
    <3>1. /\ more \in Seq(Int) /\ nextRel' = Len(more) * SampleInterval
          /\ \A i \in 1..Len(more) :
                /\ more[i] >= (i - 1) * SampleInterval
                /\ i > 1 => more[i] >= more[i - 1]
                /\ more[i] <= Rel
      BY <2>1, <2>4, SampleTaken
    <3>2. samples' = more
      BY <2>4
    <3> HIDE DEF more
    <3>3. SamplesPaced'
      BY <3>1, <3>2 DEF SamplesPaced
    <3> QED BY <1>0, <2>1, <2>2, <3>1, <3>2, <3>3 DEF SampleInv
  <2>5. ASSUME NEW frame, SampleDue(frame)
        PROVE  Rel >= nextRel
    BY <2>5 DEF SampleDue
  <2> QED BY <1>2, <2>3, <2>4, <2>5 DEF Collect
<1>3. CASE UNCHANGED allVars
  <2>1. UNCHANGED <<pc, now, started, samples, nextRel>>
    BY <1>3 DEF allVars, vars, stateVars, collected
  <2> QED BY <1>0, <2>1 DEF SampleInv, SamplesPaced, Rel
<1> QED BY <1>1, <1>2, <1>3 DEF CollectorNext

\* Whatever gaps a recording has, its samples are in order and never more than one
\* per interval since its start.
THEOREM SamplesArePaced == CollectorSpec => []SamplesPaced
<1>1. CollectorInit => SampleInv
  <2> SUFFICES ASSUME CollectorInit
               PROVE  SampleInv
    OBVIOUS
  <2>1. FrameInv
    BY CollectorStep, InitFrame
  <2>2. samples = <<>> /\ nextRel = 0 /\ Len(<<>>) = 0 /\ SampleInterval \in Nat
    BY CollectorAssumption DEF CollectorInit
  <2>3. <<>> \in Seq(Int) /\ 0 * SampleInterval = 0
    BY <2>2
  <2> QED BY <2>1, <2>2, <2>3 DEF SampleInv, SamplesPaced
<1>2. SampleInv => SamplesPaced
  BY DEF SampleInv
<1>3. SampleInv /\ [CollectorNext]_allVars => SampleInv'
  BY StepSample
<1> QED BY <1>1, <1>2, <1>3, PTL DEF CollectorSpec

-----------------------------------------------------------------------------
(* Folds.                                                                  *)

\* Induction over the subsets of a finite set: a least one missing in T has all
\* its own subsets in T.
LEMMA SubsetInduction ==
    ASSUME NEW S, IsFiniteSet(S), NEW T \in SUBSET SUBSET S,
           \A s \in SUBSET S : (\A u \in SUBSET s : u # s => u \in T) => s \in T
    PROVE  T = SUBSET S
<1> DEFINE Rest == (SUBSET S) \ T
           R == StrictSubsetOrdering(S)
<1>1. ASSUME Rest # {}
      PROVE  FALSE
  <2>1. IsWellFoundedOn(R, FiniteSubsetsOf(S)) /\ Rest \subseteq FiniteSubsetsOf(S)
    BY FS_StrictSubsetOrderingWellFounded, FS_Subset DEF FiniteSubsetsOf
  <2> HIDE DEF R, Rest
  <2>2. PICK s \in Rest : \A u \in Rest : <<u, s>> \notin R
    BY <1>1, <2>1, WFMin
  <2>3. \A u \in SUBSET s : u # s => u \in T
    BY <2>2 DEF Rest, R, StrictSubsetOrdering
  <2> QED BY <2>2, <2>3 DEF Rest
<1> QED BY <1>1

\* h computes on every subset of S what is left when G takes the elements in one
\* after the other, the one that c chooses last.
Folded(h, S, X, b, c, G) ==
    /\ h \in [SUBSET S -> X]
    /\ \A s \in SUBSET S : h[s] = IF s = {} THEN b ELSE G[<<h[s \ {c[s]}], c[s]>>]

LEMMA FoldUnique ==
    ASSUME NEW S, IsFiniteSet(S), NEW T, S \subseteq T, NEW X, NEW b, NEW c, NEW G, NEW F,
           NEW h, NEW g, Folded(h, S, X, b, c, G), Folded(g, T, X, b, c, F),
           \A s \in SUBSET S : s # {} => c[s] \in s,
           \A x \in X, i \in S : G[<<x, i>>] = F[<<x, i>>]
    PROVE  \A s \in SUBSET S : h[s] = g[s]
<1> DEFINE A == {s \in SUBSET S : h[s] = g[s]}
<1>1. ASSUME NEW s \in SUBSET S, \A u \in SUBSET s : u # s => u \in A
      PROVE  s \in A
  <2>1. CASE s = {}
    BY <2>1 DEF Folded
  <2>2. CASE s # {}
    <3>1. c[s] \in s /\ s \ {c[s]} \in SUBSET s /\ s \ {c[s]} # s /\ s \ {c[s]} \in SUBSET S
      BY <2>2
    <3>2. h[s \ {c[s]}] = g[s \ {c[s]}] /\ h[s \ {c[s]}] \in X
      BY <1>1, <3>1 DEF Folded
    <3>3. h[s] = G[<<h[s \ {c[s]}], c[s]>>] /\ g[s] = F[<<g[s \ {c[s]}], c[s]>>]
      BY <2>2 DEF Folded
    <3> QED BY <3>1, <3>2, <3>3
  <2> QED BY <2>1, <2>2
<1> HIDE DEF A
<1>2. A = SUBSET S
  <2>1. A \in SUBSET SUBSET S
    BY DEF A
  <2> QED BY <1>1, <2>1, SubsetInduction
<1> QED BY <1>2 DEF A

LEMMA FoldExists ==
    ASSUME NEW S, IsFiniteSet(S), NEW X, NEW b \in X, NEW c,
           \A s \in SUBSET S : s # {} => c[s] \in s,
           NEW G, \A x \in X, i \in S : G[<<x, i>>] \in X
    PROVE  \E h : Folded(h, S, X, b, c, G)
<1> DEFINE A == {s \in SUBSET S : \E h : Folded(h, s, X, b, c, G)}
           F(s) == CHOOSE h : Folded(h, s, X, b, c, G)
<1>1. ASSUME NEW s \in SUBSET S, \A u \in SUBSET s : u # s => u \in A
      PROVE  s \in A
  <2> DEFINE less(v) == v \ {c[v]}
             val(v) == F(v)[v]
             h == [v \in SUBSET s |-> IF v = {} THEN b ELSE G[<<val(less(v)), c[v]>>]]
  <2>1. ASSUME NEW v \in SUBSET s, v # {}
        PROVE  /\ c[v] \in S /\ less(v) \in SUBSET s /\ less(v) \in SUBSET v
               /\ Folded(F(less(v)), less(v), X, b, c, G)
    <3>1. c[v] \in v /\ less(v) \in SUBSET s /\ less(v) # s
      BY <2>1
    <3>2. less(v) \in A
      BY <1>1, <3>1
    <3> QED BY <3>1, <3>2
  <2> HIDE DEF F
  <2>2. ASSUME NEW v \in SUBSET s, v # {}
        PROVE  val(less(v)) \in X
    <3> DEFINE u == less(v)
    <3>1. Folded(F(u), u, X, b, c, G)
      BY <2>1, <2>2
    <3> HIDE DEF u
    <3> QED BY <3>1 DEF Folded, u
  <2>3. h \in [SUBSET s -> X]
    BY <2>1, <2>2
  <2>4. ASSUME NEW v \in SUBSET s, v # {}
        PROVE  h[less(v)] = val(less(v))
    <3> DEFINE u == less(v)
    <3>1. u \in SUBSET s /\ Folded(F(u), u, X, b, c, G)
      BY <2>1, <2>4
    <3>2. CASE u = {}
      BY <3>1, <3>2 DEF Folded
    <3>3. CASE u # {}
      <4>1. /\ less(u) \in SUBSET u /\ less(u) \subseteq u /\ less(u) \in SUBSET S
            /\ Folded(F(less(u)), less(u), X, b, c, G)
        BY <2>1, <3>1, <3>3
      <4>2. IsFiniteSet(less(u))
        BY <4>1, FS_Subset
      <4>3. \A t \in SUBSET less(u) : t # {} => c[t] \in t
        BY <4>1
      <4> HIDE DEF u, less
      <4>4. \A t \in SUBSET less(u) : F(less(u))[t] = F(u)[t]
        BY <3>1, <4>1, <4>2, <4>3, FoldUnique
      <4>5. F(less(u))[less(u)] = F(u)[less(u)]
        BY <4>4
      <4>6. F(u)[u] = G[<<F(u)[less(u)], c[u]>>]
        BY <3>1, <3>3 DEF Folded, less
      <4>7. h[u] = G[<<val(less(u)), c[u]>>]
        BY <3>1, <3>3
      <4> QED BY <4>5, <4>6, <4>7 DEF u
    <3> QED BY <3>2, <3>3
  <2>5. \A v \in SUBSET s : h[v] = IF v = {} THEN b ELSE G[<<h[v \ {c[v]}], c[v]>>]
    <3> HIDE DEF val
    <3>1. \A v \in SUBSET s : v # {} => h[v] = G[<<val(less(v)), c[v]>>]
      OBVIOUS
    <3>2. \A v \in SUBSET s : v = {} => h[v] = b
      OBVIOUS
    <3> HIDE DEF h
    <3> QED BY <2>4, <3>1, <3>2
  <2> HIDE DEF h
  <2> QED BY <2>3, <2>5 DEF Folded
<1> HIDE DEF A
<1>2. A = SUBSET S
  <2>1. A \in SUBSET SUBSET S
    BY DEF A
  <2> QED BY <1>1, <2>1, SubsetInduction
<1> QED BY <1>2 DEF A

-----------------------------------------------------------------------------
(* Sums over finite sets of numbers.                                       *)

Pick == [s \in SUBSET Nat |-> CHOOSE x \in s : TRUE]
Adds(f, S) == [p \in Int \X S |-> f[p[2]] + p[1]]
Adding(h, f, S) == Folded(h, S, Int, 0, Pick, Adds(f, S))
Sums(f, S) == CHOOSE h : Adding(h, f, S)
Total(f, S) == Sums(f, S)[S]

Summable(f, S) == S \subseteq Nat /\ IsFiniteSet(S) /\ \A i \in S : f[i] \in Int

LEMMA Picks ==
    ASSUME NEW S, S \subseteq Nat
    PROVE  \A s \in SUBSET S : s # {} => Pick[s] \in s
<1> TAKE s \in SUBSET S
<1>1. s \in SUBSET Nat
  OBVIOUS
<1> QED BY <1>1 DEF Pick

LEMMA SumsExist ==
    ASSUME NEW f, NEW S, Summable(f, S)
    PROVE  /\ Adding(Sums(f, S), f, S)
           /\ Total(f, S) \in Int
           /\ \A x \in Int, i \in S : Adds(f, S)[<<x, i>>] = f[i] + x
<1>1. \A x \in Int, i \in S : Adds(f, S)[<<x, i>>] = f[i] + x
  BY DEF Adds
<1>2. \A x \in Int, i \in S : Adds(f, S)[<<x, i>>] \in Int
  <2> SUFFICES ASSUME NEW x \in Int, NEW i \in S
               PROVE  Adds(f, S)[<<x, i>>] \in Int
    OBVIOUS
  <2>1. f[i] \in Int /\ Adds(f, S)[<<x, i>>] = f[i] + x
    BY <1>1 DEF Summable
  <2> QED BY <2>1
<1>3. \E h : Adding(h, f, S)
  <2>1. IsFiniteSet(S) /\ \A s \in SUBSET S : s # {} => Pick[s] \in s
    BY Picks DEF Summable
  <2>2. \E h : Folded(h, S, Int, 0, Pick, Adds(f, S))
    <3> DEFINE G == Adds(f, S)
    <3>1. \A x \in Int, i \in S : G[<<x, i>>] \in Int
      BY <1>2
    <3> HIDE DEF G
    <3>2. 0 \in Int
      OBVIOUS
    <3>3. \E h : Folded(h, S, Int, 0, Pick, G)
      BY <2>1, <3>1, <3>2, FoldExists
    <3> QED BY <3>3 DEF G
  <2> QED BY <2>2 DEF Adding
<1>4. Adding(Sums(f, S), f, S)
  BY <1>3 DEF Sums
<1>5. Total(f, S) \in Int
  BY <1>4 DEF Adding, Folded, Total
<1> QED BY <1>1, <1>4, <1>5

\* Any function that adds up f has the total of f, over the set and its subsets.
LEMMA TotalIs ==
    ASSUME NEW f, NEW g, NEW S, Summable(f, S), NEW T \in SUBSET S, \A i \in T : f[i] = g[i],
           NEW h, Adding(h, f, S)
    PROVE  Total(g, T) = h[T] /\ Summable(g, T)
<1>1. Summable(g, T)
  BY FS_Subset DEF Summable
<1>2. \A x \in Int, i \in T : Adds(g, T)[<<x, i>>] = Adds(f, S)[<<x, i>>]
  <2> SUFFICES ASSUME NEW x \in Int, NEW i \in T
               PROVE  Adds(g, T)[<<x, i>>] = Adds(f, S)[<<x, i>>]
    OBVIOUS
  <2>1. i \in S /\ Adds(f, S)[<<x, i>>] = f[i] + x /\ Adds(g, T)[<<x, i>>] = g[i] + x
    BY <1>1, SumsExist
  <2> QED BY <2>1
<1>3. \A s \in SUBSET T : Sums(g, T)[s] = h[s]
  <2>1. /\ Folded(Sums(g, T), T, Int, 0, Pick, Adds(g, T))
        /\ Folded(h, S, Int, 0, Pick, Adds(f, S))
    BY <1>1, SumsExist DEF Adding
  <2>2. IsFiniteSet(T) /\ T \subseteq S /\ \A s \in SUBSET T : s # {} => Pick[s] \in s
    BY <1>1, Picks DEF Summable
  <2> QED BY <1>2, <2>1, <2>2, FoldUnique
<1> QED BY <1>1, <1>3 DEF Total

LEMMA TotalSame ==
    ASSUME NEW f, NEW g, NEW S, Summable(f, S), \A i \in S : f[i] = g[i]
    PROVE  Total(f, S) = Total(g, S)
BY SumsExist, TotalIs DEF Total

LEMMA TotalEmpty == ASSUME NEW f PROVE Total(f, {}) = 0
<1>1. Summable(f, {})
  BY FS_EmptySet DEF Summable
<1> QED BY <1>1, SumsExist DEF Adding, Folded, Total

\* One element can be taken out of a sum, whichever it is.
LEMMA TotalSplit ==
    ASSUME NEW f, NEW S, Summable(f, S), NEW x \in S
    PROVE  Total(f, S) = f[x] + Total(f, S \ {x})
<1> DEFINE A == {s \in SUBSET S : \A y \in s : Total(f, s) = f[y] + Total(f, s \ {y})}
<1>1. \A s \in SUBSET S : Summable(f, s) /\ Total(f, s) \in Int
  BY FS_Subset, SumsExist DEF Summable
<1>2. ASSUME NEW s \in SUBSET S, s # {}
      PROVE  Pick[s] \in s /\ Total(f, s) = f[Pick[s]] + Total(f, s \ {Pick[s]})
  <2>1. Pick[s] \in s /\ Summable(f, s)
    BY <1>1, <1>2, Picks DEF Summable
  <2> DEFINE u == s \ {Pick[s]}
  <2>2. Adding(Sums(f, s), f, s) /\ \A a \in Int, i \in s : Adds(f, s)[<<a, i>>] = f[i] + a
    BY <2>1, SumsExist
  <2>3. Sums(f, s)[u] \in Int /\ Sums(f, s)[s] = Adds(f, s)[<<Sums(f, s)[u], Pick[s]>>]
    BY <1>2, <2>2 DEF Adding, Folded
  <2>4. Total(f, u) = Sums(f, s)[u]
    BY <2>1, <2>2, TotalIs
  <2> QED BY <2>1, <2>2, <2>3, <2>4 DEF Total
<1>3. ASSUME NEW s \in SUBSET S, \A u \in SUBSET s : u # s => u \in A
      PROVE  s \in A
  <2>1. ASSUME NEW y \in s
        PROVE  Total(f, s) = f[y] + Total(f, s \ {y})
    <3> DEFINE p == Pick[s]
               u == s \ {p}
               v == s \ {y}
    <3>1. p \in s /\ Total(f, s) = f[p] + Total(f, u)
      BY <1>2
    <3> HIDE DEF p
    <3>2. CASE p = y
      BY <3>1, <3>2
    <3>3. CASE p # y
      <4>1. u \in A /\ v \in A /\ y \in u /\ p \in v /\ u \ {y} = v \ {p}
        BY <1>3, <3>1, <3>3
      <4>2. Total(f, u) = f[y] + Total(f, u \ {y}) /\ Total(f, v) = f[p] + Total(f, v \ {p})
        BY <4>1
      <4>3. /\ f[y] \in Int /\ f[p] \in Int /\ Total(f, u \ {y}) \in Int
            /\ Total(f, v \ {p}) = Total(f, u \ {y})
        BY <1>1, <3>1, <4>1 DEF Summable
      <4> QED BY <3>1, <4>2, <4>3
    <3> QED BY <3>2, <3>3
  <2> QED BY <2>1
<1> HIDE DEF A
<1>4. A = SUBSET S
  <2>1. A \in SUBSET SUBSET S
    BY DEF A
  <2> QED BY <1>3, <2>1, SubsetInduction DEF Summable
<1> QED BY <1>4 DEF A

LEMMA TotalShift ==
    ASSUME NEW f, NEW g, NEW S, Summable(f, S), NEW x, NEW d \in Int,
           x \in S => g[x] = f[x] + d, \A i \in S \ {x} : g[i] = f[i]
    PROVE  Total(g, S) = Total(f, S) + (IF x \in S THEN d ELSE 0)
<1>1. CASE x \notin S
  <2>1. S \ {x} = S
    BY <1>1
  <2> QED BY <1>1, <2>1, SumsExist, TotalSame
<1>2. CASE x \in S
  <2>1. Summable(f, S \ {x}) /\ f[x] \in Int
    BY <1>2, FS_Subset DEF Summable
  <2>2. Summable(g, S)
    <3>1. \A i \in S : g[i] \in Int
      BY <1>2, <2>1 DEF Summable
    <3> QED BY <3>1 DEF Summable
  <2>3. Total(g, S \ {x}) = Total(f, S \ {x}) /\ Total(f, S \ {x}) \in Int
    BY <2>1, SumsExist, TotalSame
  <2>4. Total(f, S) = f[x] + Total(f, S \ {x}) /\ Total(g, S) = g[x] + Total(g, S \ {x})
    BY <1>2, <2>2, TotalSplit
  <2> QED BY <1>2, <2>1, <2>3, <2>4
<1> QED BY <1>1, <1>2

\* The recursion that a sum is written as: there is one, and it computes the total.
Summed(h, f, S) ==
    [s \in SUBSET S |-> IF s = {} THEN 0 ELSE f[Pick[s]] + h[s \ {Pick[s]}]]

LEMMA TotalOfFold ==
    ASSUME NEW f, NEW S, Summable(f, S)
    PROVE  /\ \E h : h = Summed(h, f, S)
           /\ \A h : h = Summed(h, f, S) => h[S] = Total(f, S)
<1> DEFINE g == Sums(f, S)
<1>1. /\ Folded(g, S, Int, 0, Pick, Adds(f, S))
      /\ \A x \in Int, i \in S : Adds(f, S)[<<x, i>>] = f[i] + x
  BY SumsExist DEF Adding
<1> HIDE DEF g
<1>2. ASSUME NEW s \in SUBSET S, s # {}
      PROVE  Pick[s] \in s /\ g[s] = f[Pick[s]] + g[s \ {Pick[s]}]
  <2>1. Pick[s] \in s /\ g[s \ {Pick[s]}] \in Int
    BY <1>1, <1>2, Picks DEF Folded, Summable
  <2>2. g[s] = Adds(f, S)[<<g[s \ {Pick[s]}], Pick[s]>>]
    BY <1>1, <1>2 DEF Folded
  <2> QED BY <1>1, <2>1, <2>2
<1>3. g[{}] = 0 /\ g \in [SUBSET S -> Int]
  BY <1>1 DEF Folded
<1>4. g = Summed(g, f, S)
  BY <1>2, <1>3 DEF Summed
<1>5. ASSUME NEW h, h = Summed(h, f, S)
      PROVE  h[S] = g[S]
  <2> DEFINE A == {s \in SUBSET S : h[s] = g[s]}
  <2>1. ASSUME NEW s \in SUBSET S, \A u \in SUBSET s : u # s => u \in A
        PROVE  s \in A
    <3>1. h[s] = IF s = {} THEN 0 ELSE f[Pick[s]] + h[s \ {Pick[s]}]
      BY <1>5 DEF Summed
    <3>2. CASE s = {}
      BY <1>3, <3>1, <3>2
    <3>3. CASE s # {}
      <4>1. s \ {Pick[s]} \in A
        BY <1>2, <2>1, <3>3
      <4> QED BY <1>2, <3>1, <3>3, <4>1
    <3> QED BY <3>2, <3>3
  <2> HIDE DEF A
  <2>2. A = SUBSET S
    <3>1. A \in SUBSET SUBSET S
      BY DEF A
    <3> QED BY <2>1, <3>1, SubsetInduction DEF Summable
  <2> QED BY <2>2 DEF A
<1> QED BY <1>4, <1>5 DEF Total, g

-----------------------------------------------------------------------------
(* The time in a phase, by the frames and by the transitions.              *)

\* Of the frames tl, the last one ending at n, those of phase p and their lengths.
FrameLengths(tl, n) ==
    [i \in 1..Len(tl) |-> (IF i = Len(tl) THEN n ELSE tl[i + 1][1]) - tl[i][1]]
PhaseFrames(tl, p) == {i \in 1..Len(tl) : tl[i][2] = p}

\* Of the segments between the transitions log of a recording from m to n.
EndPhase(log) == IF log = <<>> THEN "OFFLINE" ELSE log[Len(log)].to[1]
SegmentLengths(log, m, n) ==
    [i \in 0..Len(log) |-> (IF i = Len(log) THEN n ELSE log[i + 1].ts)
                             - (IF i = 0 THEN m ELSE log[i].ts)]
PhaseSegments(log, p) == {i \in 0..Len(log) : (IF i = 0 THEN "OFFLINE" ELSE log[i].to[1]) = p}

FrameTime(tl, n, p) == Total(FrameLengths(tl, n), PhaseFrames(tl, p))
SegmentTime(log, m, n, p) == Total(SegmentLengths(log, m, n), PhaseSegments(log, p))

LEMMA FramesSum ==
    ASSUME NEW tl, IsSeq(tl), \A i \in 1..Len(tl) : tl[i][1] \in Nat, NEW n \in Nat, NEW p
    PROVE  /\ Summable(FrameLengths(tl, n), PhaseFrames(tl, p))
           /\ FrameTime(tl, n, p) \in Int
<1>1. Len(tl) \in Nat
  BY DEF IsSeq
<1>2. IsFiniteSet(1..Len(tl)) /\ PhaseFrames(tl, p) \subseteq 1..Len(tl)
  BY <1>1, FS_Interval DEF PhaseFrames
<1>3. \A i \in 1..Len(tl) : FrameLengths(tl, n)[i] \in Int
  BY <1>1 DEF FrameLengths
<1>4. Summable(FrameLengths(tl, n), PhaseFrames(tl, p))
  <2>1. 1..Len(tl) \subseteq Nat
    BY <1>1
  <2> QED BY <1>2, <1>3, <2>1, FS_Subset DEF Summable
<1> QED BY <1>4, SumsExist DEF FrameTime

LEMMA SegmentsSum ==
    ASSUME NEW log, IsSeq(log), \A i \in 1..Len(log) : log[i].ts \in Nat,
           NEW m \in Nat, NEW n \in Nat, NEW p
    PROVE  /\ Summable(SegmentLengths(log, m, n), PhaseSegments(log, p))
           /\ SegmentTime(log, m, n, p) \in Int
<1>1. Len(log) \in Nat
  BY DEF IsSeq
<1>2. IsFiniteSet(0..Len(log)) /\ PhaseSegments(log, p) \subseteq 0..Len(log)
  BY <1>1, FS_Interval DEF PhaseSegments
<1>3. \A i \in 0..Len(log) : SegmentLengths(log, m, n)[i] \in Int
  <2> SUFFICES ASSUME NEW i \in 0..Len(log)
               PROVE  SegmentLengths(log, m, n)[i] \in Int
    OBVIOUS
  <2>1. /\ i # Len(log) => i + 1 \in 1..Len(log)
        /\ i # 0 => i \in 1..Len(log)
    BY <1>1
  <2> QED BY <2>1 DEF SegmentLengths
<1>4. Summable(SegmentLengths(log, m, n), PhaseSegments(log, p))
  <2>1. 0..Len(log) \subseteq Nat
    BY <1>1
  <2> QED BY <1>2, <1>3, <2>1, FS_Subset DEF Summable
<1> QED BY <1>4, SumsExist DEF SegmentTime

\* A frame taken at m ends the one before it and begins at no length itself.
LEMMA FrameAdded ==
    ASSUME NEW tl, IsSeq(tl), \A i \in 1..Len(tl) : tl[i][1] \in Nat, NEW n \in Nat, NEW m \in Nat,
           tl = <<>> => n = m, NEW q, NEW p
    PROVE  FrameTime(Append(tl, <<m, q>>), m, p) =
             FrameTime(tl, n, p) + (IF tl # <<>> /\ tl[Len(tl)][2] = p THEN m - n ELSE 0)
<1> DEFINE k == Len(tl)
           e == <<m, q>>
           more == Append(tl, e)
           f == FrameLengths(tl, n)
           g == FrameLengths(more, m)
           S == PhaseFrames(tl, p)
           T == PhaseFrames(more, p)
<1>1. /\ IsSeq(more) /\ k \in Nat /\ Len(more) = k + 1
      /\ \A i \in 1..k : more[i] = tl[i]
      /\ more[k + 1] = e
  BY AppendSeq
<1>2. e[1] = m /\ tl = <<>> <=> k = 0
  BY <1>1, EmptySeq DEF IsSeq
<1> HIDE DEF more, k
<1>3. \A i \in 1..Len(more) : more[i][1] \in Nat
  <2>1. \A i \in 1..Len(more) : i \in 1..k \/ i = k + 1
    BY <1>1
  <2> QED BY <1>1, <1>2, <2>1 DEF k
<1>4. Summable(g, T) /\ Summable(f, S) /\ Total(f, S) \in Int
  BY <1>1, <1>3, FramesSum DEF FrameTime
<1>5. T \ {k + 1} = S /\ k + 1 \notin S /\ S \subseteq 1..k
  BY <1>1 DEF PhaseFrames, k
<1>6. g[k + 1] = 0 /\ \A i \in 1..k : g[i] = (IF i = k THEN m ELSE tl[i + 1][1]) - tl[i][1]
  <2>1. g[k + 1] = m - m
    BY <1>1 DEF FrameLengths
  <2>2. ASSUME NEW i \in 1..k
        PROVE  g[i] = (IF i = k THEN m ELSE tl[i + 1][1]) - tl[i][1]
    <3>1. i \in 1..Len(more) /\ i # Len(more)
      BY <1>1
    <3>2. g[i] = more[i + 1][1] - more[i][1]
      BY <3>1 DEF FrameLengths
    <3>3. i # k => i + 1 \in 1..k
      BY <1>1
    <3> QED BY <1>1, <3>2, <3>3
  <2> QED BY <2>1, <2>2
<1>7. \A i \in 1..k : f[i] = (IF i = k THEN n ELSE tl[i + 1][1]) - tl[i][1]
  BY <1>1 DEF FrameLengths, k
<1> HIDE DEF f, g, S, T
<1>8. Total(g, T) = Total(g, S)
  <2>1. CASE k + 1 \in T
    <3>1. Total(g, T) = g[k + 1] + Total(g, S)
      BY <1>4, <1>5, <2>1, TotalSplit
    <3>2. Total(g, S) \in Int
      BY <1>4, <1>5, FS_Subset, SumsExist DEF Summable
    <3> QED BY <1>6, <3>1, <3>2
  <2>2. CASE k + 1 \notin T
    BY <1>5, <2>2
  <2> QED BY <2>1, <2>2
<1>9. k \in S <=> tl # <<>> /\ tl[k][2] = p
  BY <1>1, <1>2 DEF S, PhaseFrames, k
<1>10. Total(g, S) = Total(f, S) + (IF k \in S THEN m - n ELSE 0)
  <2>1. k \in S => g[k] = f[k] + (m - n)
    <3>1. k \in S => tl[k][1] \in Nat /\ g[k] = m - tl[k][1] /\ f[k] = n - tl[k][1]
      BY <1>5, <1>6, <1>7 DEF k
    <3> HIDE DEF k
    <3> QED BY <3>1
  <2>2. \A i \in S \ {k} : g[i] = f[i]
    BY <1>5, <1>6, <1>7
  <2>3. m - n \in Int
    OBVIOUS
  <2>4. Summable(f, S)
    BY <1>4
  <2> QED BY <2>1, <2>2, <2>3, <2>4, TotalShift
<1> QED BY <1>8, <1>9, <1>10 DEF FrameTime, f, g, S, T, k, more

\* Time that passes belongs to the last segment, and a transition at n ends it
\* and begins one of no length.
LEMMA TimePasses ==
    ASSUME NEW log, IsSeq(log), \A i \in 1..Len(log) : log[i].ts \in Nat,
           NEW s \in Nat, NEW n \in Nat, NEW m \in Nat, NEW p
    PROVE  SegmentTime(log, s, m, p) =
             SegmentTime(log, s, n, p) + (IF EndPhase(log) = p THEN m - n ELSE 0)
<1> DEFINE k == Len(log)
           f == SegmentLengths(log, s, n)
           g == SegmentLengths(log, s, m)
           S == PhaseSegments(log, p)
<1>1. k \in Nat /\ (log = <<>> <=> k = 0)
  BY EmptySeq DEF IsSeq
<1>2. Summable(f, S)
  BY SegmentsSum
<1>3. S \subseteq 0..k /\ (k \in S <=> EndPhase(log) = p)
  BY <1>1 DEF PhaseSegments, EndPhase
<1>4. g[k] = f[k] + (m - n)
  <2> PICK a : a = IF k = 0 THEN s ELSE log[k].ts
    OBVIOUS
  <2>1. f[k] = n - a /\ g[k] = m - a
    BY <1>1 DEF SegmentLengths
  <2>2. a \in Nat
    BY <1>1
  <2> QED BY <2>1, <2>2
<1>5. \A i \in S \ {k} : g[i] = f[i]
  BY <1>3 DEF SegmentLengths
<1> HIDE DEF f, g, S, k
<1>6. m - n \in Int
  OBVIOUS
<1>7. Total(g, S) = Total(f, S) + (IF k \in S THEN m - n ELSE 0)
  BY <1>2, <1>4, <1>5, <1>6, TotalShift
<1> QED BY <1>3, <1>7 DEF SegmentTime, f, g, S, k

LEMMA TransitionAdded ==
    ASSUME NEW log, IsSeq(log), \A i \in 1..Len(log) : log[i].ts \in Nat,
           NEW s \in Nat, NEW n \in Nat, NEW tr, tr.ts = n, NEW p
    PROVE  SegmentTime(Append(log, tr), s, n, p) = SegmentTime(log, s, n, p)
<1> DEFINE k == Len(log)
           more == Append(log, tr)
           f == SegmentLengths(log, s, n)
           g == SegmentLengths(more, s, n)
           S == PhaseSegments(log, p)
           T == PhaseSegments(more, p)
<1>1. /\ IsSeq(more) /\ k \in Nat /\ Len(more) = k + 1
      /\ \A i \in 1..k : more[i] = log[i]
      /\ more[k + 1] = tr
  BY AppendSeq
<1> HIDE DEF more
<1>2. \A i \in 1..Len(more) : more[i].ts \in Nat
  BY <1>1
<1>3. Summable(g, T) /\ Summable(f, S)
  BY <1>1, <1>2, SegmentsSum
<1>4. T \ {k + 1} = S /\ S \subseteq 0..k
  <2>1. \A i \in 0..k : i \in T <=> i \in S
    BY <1>1 DEF PhaseSegments
  <2> QED BY <1>1, <2>1 DEF PhaseSegments
<1>5. g[k + 1] = 0
  BY <1>1 DEF SegmentLengths
<1>6. \A i \in S : g[i] = f[i]
  <2> SUFFICES ASSUME NEW i \in 0..k
               PROVE  g[i] = f[i]
    BY <1>4
  <2>1. i \in 0..(k + 1) /\ i # k + 1 /\ (i # 0 => i \in 1..k) /\ (i # k => i + 1 \in 1..k)
    BY <1>1
  <2>2. g[i] = more[i + 1].ts - (IF i = 0 THEN s ELSE more[i].ts)
    BY <1>1, <2>1 DEF SegmentLengths
  <2>3. f[i] = (IF i = k THEN n ELSE log[i + 1].ts) - (IF i = 0 THEN s ELSE log[i].ts)
    BY <2>1 DEF SegmentLengths
  <2> QED BY <1>1, <2>1, <2>2, <2>3
<1> HIDE DEF f, g, S, T, k
<1>7. Total(g, S) = Total(f, S) /\ Total(g, S) \in Int
  BY <1>3, <1>6, TotalSame, SumsExist
<1>8. Total(g, T) = Total(g, S)
  <2>1. CASE k + 1 \in T
    BY <1>3, <1>4, <1>5, <1>7, <2>1, TotalSplit
  <2>2. CASE k + 1 \notin T
    BY <1>4, <2>2
  <2> QED BY <2>1, <2>2
<1> QED BY <1>7, <1>8 DEF SegmentTime, f, g, S, T, more

LEMMA NoTime ==
    ASSUME NEW n \in Nat, NEW m \in Nat, NEW p
    PROVE  FrameTime(<<>>, m, p) = 0 /\ SegmentTime(<<>>, n, n, p) = 0
<1>1. PhaseFrames(<<>>, p) = {} /\ Len(<<>>) = 0 /\ IsSeq(<<>>)
  BY DEF PhaseFrames, IsSeq
<1> DEFINE f == SegmentLengths(<<>>, n, n)
           S == PhaseSegments(<<>>, p)
<1>2. f[0] = 0 /\ S \subseteq {0}
  BY <1>1 DEF SegmentLengths, PhaseSegments
<1>3. Summable(f, S)
  BY <1>1, SegmentsSum
<1> HIDE DEF f, S
<1>4. Total(f, S) = 0
  <2>1. Total(f, {}) = 0
    BY TotalEmpty
  <2>2. CASE S = {0}
    <3>1. S \ {0} = {} /\ 0 \in S
      BY <2>2
    <3>2. Total(f, S) = f[0] + Total(f, {})
      BY <1>3, <3>1, TotalSplit
    <3> QED BY <1>2, <2>1, <3>2
  <2>3. CASE S = {}
    BY <2>1, <2>3
  <2> QED BY <1>2, <2>2, <2>3
<1> QED BY <1>1, <1>4, TotalEmpty DEF FrameTime, SegmentTime, f, S

-----------------------------------------------------------------------------
(* What a pass has collected.                                              *)

\* The last frame the pass has collected began at Seen.
Seen == IF timeline = <<>> THEN started ELSE timeline[Len(timeline)][1]

\* What a pass has collected is as old as Seen: the frames are in order, and of the
\* transitions at most the one of the frame at hand is still to come.
PassInv ==
    /\ FrameInv /\ ChainInv /\ IsSeq(timeline)
    /\ \A i \in 1..Len(timeline) : timeline[i][1] \in Nat
    /\ \A i, j \in 1..Len(timeline) : i <= j => timeline[i][1] <= timeline[j][1]
    /\ \A i \in 1..Len(published) : published[i].ts \in Nat
    /\ timeline = <<>> => published = <<>>
    /\ timeline # <<>> => timeline[Len(timeline)][2] = EndPhase(published)
    /\ pc = "idle" => pending = <<>> /\ (timeline = <<>> <=> ring = <<>>) /\ Seen = now
    /\ pc = "drain" => /\ pending = <<>> \/ \E tr : pending = <<tr>> /\ tr.ts = now
                       /\ timeline = <<>> => Seen = now
                       /\ timeline # <<>> => Seen <= now

LEMMA ChainEnd ==
    ASSUME NEW log, NEW p, NEW s, Leads(log, <<p, s>>)
    PROVE  EndPhase(log) = p
BY DEF Leads, EndPhase, Start

LEMMA PassApplies ==
    ASSUME PassInv, Apply, UNCHANGED collected
    PROVE  /\ PassInv' /\ pc = "idle" /\ published' = published
           /\ timeline = <<>> => Seen' = started' /\ started' \in Nat
           /\ timeline # <<>> => Seen' = Seen /\ started' = started
<1>1. PICK t \in Nat \ {0} : Applied(t)
  BY ApplyIsApplied
<1>2. /\ FrameInv' /\ pc = "idle" /\ pc' \in {"drain", "crashed"} /\ now' = t
      /\ started' = IF started = 0 THEN t ELSE started
      /\ pc' # "crashed" => t >= now
  BY <1>1, FrameTaken DEF PassInv
<1>3. published' = published /\ timeline' = timeline
  BY DEF Apply, ApplyDockOsd, ApplyDroneOsd, ApplySysStatus, ApplyDockEvent, collected
<1>4. ChainInv'
  BY CollectorStep, StepKeepsChain DEF PassInv, Next
<1>5. pending' = <<>> \/ \E tr : pending' = <<tr>> /\ tr.ts = t
  <2>1. pending = <<>> /\ UpdatePhase(t)
    BY <1>1, <1>2 DEF PassInv, Applied
  <2> DEFINE tr == Transition(t, Resolved(t).phase, Resolved(t).source)
  <2>2. tr.ts = t
    BY DEF Transition
  <2>3. pending' = <<>> \/ pending' = Append(<<>>, tr)
    BY <2>1 DEF UpdatePhase
  <2> HIDE DEF tr
  <2>4. Append(<<>>, tr) = <<tr>>
    OBVIOUS
  <2> QED BY <2>2, <2>3, <2>4
<1>6. started \in Nat /\ now \in Nat /\ (timeline = <<>> => started = 0)
  BY <1>2 DEF PassInv, FrameInv
<1>7. (timeline # <<>> => started # 0) /\ Seen = now
  BY <1>2 DEF PassInv, FrameInv
<1>8. /\ timeline = <<>> => Seen' = started' /\ started' = t
      /\ timeline # <<>> => Seen' = Seen /\ started' = started
  BY <1>2, <1>3, <1>6, <1>7 DEF Seen
<1>9. pc' = "drain" => (timeline = <<>> => Seen' = now') /\ (timeline # <<>> => Seen' <= now')
  BY <1>2, <1>7, <1>8
<1>10. PassInv'
  BY <1>2, <1>3, <1>4, <1>5, <1>9 DEF PassInv
<1> QED BY <1>1, <1>2, <1>3, <1>8, <1>10

LEMMA PassCollects ==
    ASSUME PassInv, Collect
    PROVE  /\ PassInv' /\ pc = "drain" /\ now' = now /\ started' = started
           /\ timeline' = Append(timeline, <<now, phase>>) /\ Seen' = now
           /\ \/ published' = published
              \/ \E tr : published' = Append(published, tr) /\ tr.ts = now
           /\ EndPhase(published') = phase
           /\ Seen \in Nat /\ Seen <= now /\ now \in Nat /\ started \in Nat
<1>1. /\ pc = "drain" /\ pc' = "idle" /\ pending' = <<>>
      /\ published' = published \o pending
      /\ now' = now /\ started' = started /\ phase' = phase /\ source' = source /\ ring' = ring
      /\ timeline' = Append(timeline, <<now, phase>>)
  BY DEF Collect, Drain
<1>2. FrameInv' /\ ChainInv'
  BY CollectorStep, StepFrame, StepKeepsChain DEF PassInv, Collect, Next
<1>3. now \in Nat /\ started \in Nat /\ ring # <<>>
  BY <1>1 DEF PassInv, FrameInv
<1>4. Seen \in Nat /\ Seen <= now
  <2>1. CASE timeline = <<>>
    BY <1>1, <1>3, <2>1 DEF PassInv
  <2>2. CASE timeline # <<>>
    <3>1. Len(timeline) \in 1..Len(timeline)
      BY <2>2, EmptySeq DEF PassInv, IsSeq
    <3> QED BY <1>1, <2>2, <3>1 DEF PassInv, Seen
  <2> QED BY <2>1, <2>2
<1>5. \/ published' = published
      \/ \E tr : published' = Append(published, tr) /\ tr.ts = now
  <2>1. IsSeq(published) /\ \A tr : published \o <<tr>> = Append(published, tr)
    <3>1. IsSeq(published)
      BY DEF PassInv, ChainInv
    <3>2. IsSeq(<<>>) /\ \A tr : Append(<<>>, tr) = <<tr>>
      BY DEF IsSeq
    <3>3. published \o <<>> = published
      BY <3>1, ConcatEmptySeq DEF IsSeq
    <3> QED BY <3>1, <3>2, <3>3, LogAppend
  <2>2. published \o <<>> = published
    BY <2>1, ConcatEmptySeq DEF IsSeq
  <2> QED BY <1>1, <2>1, <2>2 DEF PassInv
<1>6. EndPhase(published') = phase
  <2>1. Leads(published' \o pending', <<phase, source>>) /\ published' \o <<>> = published'
    BY <1>1, <1>2, ConcatEmptySeq DEF ChainInv, IsSeq
  <2> QED BY <1>1, <2>1, ChainEnd
<1>7. \A i \in 1..Len(published') : published'[i].ts \in Nat
  <2>1. CASE published' = published
    BY <2>1 DEF PassInv
  <2>2. ASSUME NEW tr, published' = Append(published, tr), tr.ts = now
        PROVE  \A i \in 1..Len(published') : published'[i].ts \in Nat
    <3>1. IsSeq(published)
      BY DEF PassInv, ChainInv
    <3>2. /\ Len(published) \in Nat /\ Len(published') = Len(published) + 1
          /\ \A i \in 1..Len(published) : published'[i] = published[i]
          /\ published'[Len(published) + 1] = tr
      BY <2>2, <3>1, AppendSeq
    <3>3. \A i \in 1..Len(published') : i \in 1..Len(published) \/ i = Len(published) + 1
      BY <3>2
    <3> QED BY <1>3, <2>2, <3>2, <3>3 DEF PassInv
  <2> QED BY <1>5, <2>1, <2>2
<1> DEFINE k == Len(timeline)
<1>8. /\ IsSeq(timeline') /\ k \in Nat /\ Len(timeline') = k + 1 /\ timeline' # <<>>
      /\ \A i \in 1..k : timeline'[i] = timeline[i]
      /\ timeline'[k + 1] = <<now, phase>>
  <2>1. IsSeq(timeline)
    BY DEF PassInv
  <2>2. /\ IsSeq(timeline') /\ k \in Nat /\ Len(timeline') = k + 1
        /\ \A i \in 1..k : timeline'[i] = timeline[i]
        /\ timeline'[k + 1] = <<now, phase>>
    BY <1>1, <2>1, AppendSeq
  <2> QED BY <2>2, EmptySeq
<1>9. Seen' = now
  BY <1>8 DEF Seen
<1>10. \A i \in 1..(k + 1) : i \in 1..k \/ i = k + 1
  BY <1>8
<1>11. \A i \in 1..k : timeline[i][1] \in Nat /\ timeline[i][1] <= now
  <2> SUFFICES ASSUME NEW i \in 1..k
               PROVE  timeline[i][1] \in Nat /\ timeline[i][1] <= now
    OBVIOUS
  <2>1. k \in 1..k /\ i <= k /\ timeline # <<>>
    BY <1>8, EmptySeq
  <2>2. Seen = timeline[k][1] /\ timeline[i][1] <= timeline[k][1] /\ timeline[i][1] \in Nat
    BY <2>1 DEF PassInv, Seen
  <2> QED BY <1>3, <1>4, <2>2
<1>12. /\ \A i \in 1..Len(timeline') : timeline'[i][1] \in Nat
       /\ \A i, j \in 1..Len(timeline') : i <= j => timeline'[i][1] <= timeline'[j][1]
  <2> HIDE DEF k
  <2>1. /\ \A i \in 1..k : timeline'[i][1] \in Nat /\ timeline'[i][1] <= now
        /\ timeline'[k + 1][1] = now
    BY <1>8, <1>11
  <2>2. \A i, j \in 1..k : i <= j => timeline'[i][1] <= timeline'[j][1]
    BY <1>8 DEF PassInv, k
  <2>3. \A i \in 1..(k + 1) : timeline'[i][1] \in Nat
    BY <1>3, <1>10, <2>1
  <2>4. \A i, j \in 1..(k + 1) : i <= j => timeline'[i][1] <= timeline'[j][1]
    <3> SUFFICES ASSUME NEW i \in 1..(k + 1), NEW j \in 1..(k + 1), i <= j
                 PROVE  timeline'[i][1] <= timeline'[j][1]
      OBVIOUS
    <3>1. CASE j = k + 1
      BY <1>3, <1>10, <2>1, <3>1
    <3>2. CASE j \in 1..k
      <4>1. i \in 1..k
        BY <1>8, <3>2
      <4> QED BY <2>2, <3>2, <4>1
    <3> QED BY <1>10, <3>1, <3>2
  <2> QED BY <1>8, <2>3, <2>4
<1>13. timeline'[Len(timeline')][2] = EndPhase(published')
  BY <1>6, <1>8
<1>14. PassInv'
  BY <1>1, <1>2, <1>3, <1>7, <1>8, <1>9, <1>12, <1>13 DEF PassInv
<1> QED BY <1>1, <1>3, <1>4, <1>5, <1>6, <1>9, <1>14

LEMMA StepPass == PassInv /\ [CollectorNext]_allVars => PassInv'
<1>1. ASSUME PassInv, UNCHANGED allVars
      PROVE  PassInv'
  <2>1. FrameInv' /\ ChainInv'
    BY <1>1, CollectorStep, StepFrame, StepKeepsChain DEF PassInv
  <2>2. UNCHANGED <<pc, now, started, ring, pending, published, timeline>>
    BY <1>1 DEF allVars, vars, stateVars, collected
  <2> QED BY <1>1, <2>1, <2>2 DEF PassInv, Seen
<1> QED BY <1>1, PassApplies, PassCollects DEF CollectorNext

LEMMA InitPass == CollectorInit => PassInv
<1> SUFFICES ASSUME CollectorInit
             PROVE  PassInv
  OBVIOUS
<1>1. FrameInv
  BY CollectorStep, InitFrame
<1>2. ChainInv
  <2>1. <<>> \o <<>> = <<>> /\ IsSeq(<<>>) /\ Len(<<>>) = 0
    BY DEF IsSeq
  <2> QED BY <2>1, CollectorStep DEF Init, ChainInv, Leads, Start
<1>3. /\ timeline = <<>> /\ published = <<>> /\ pending = <<>> /\ ring = <<>> /\ pc = "idle"
      /\ now = 0 /\ started = 0 /\ Len(<<>>) = 0 /\ IsSeq(<<>>)
  BY CollectorStep DEF CollectorInit, Init, IsSeq
<1> QED BY <1>1, <1>2, <1>3 DEF PassInv, Seen

-----------------------------------------------------------------------------
(* DurationsTrue.                                                          *)

\* The two ways to add up the time in a phase agree up to the last frame collected.
DurationInv ==
    /\ PassInv
    /\ pc # "crashed" => \A p \in Phases :
         FrameTime(timeline, Seen, p) = SegmentTime(published, started, Seen, p)

LEMMA StepDuration ==
    ASSUME DurationInv, [CollectorNext]_allVars
    PROVE  DurationInv'
<1>1. CASE Apply /\ UNCHANGED collected
  <2>1. /\ PassInv' /\ pc = "idle" /\ published' = published /\ timeline' = timeline
        /\ timeline = <<>> => Seen' = started' /\ started' \in Nat /\ published = <<>>
        /\ timeline # <<>> => Seen' = Seen /\ started' = started
    BY <1>1, PassApplies DEF DurationInv, PassInv, collected
  <2>2. ASSUME NEW p \in Phases
        PROVE  FrameTime(timeline, Seen', p) = SegmentTime(published, started', Seen', p)
    BY <2>1, NoTime DEF DurationInv
  <2>3. (\A p \in Phases : FrameTime(timeline, Seen, p) = SegmentTime(published, started, Seen, p))'
    <3> PICK n : n = Seen'
      OBVIOUS
    <3>1. \A p \in Phases : FrameTime(timeline', n, p) = SegmentTime(published', started', n, p)
      BY <2>1, <2>2
    <3> QED BY <3>1
  <2> QED BY <2>1, <2>3 DEF DurationInv
<1>2. CASE Collect
  <2>1. /\ PassInv' /\ pc = "drain" /\ now' = now /\ started' = started
        /\ timeline' = Append(timeline, <<now, phase>>) /\ Seen' = now
        /\ \/ published' = published
           \/ \E tr : published' = Append(published, tr) /\ tr.ts = now
        /\ Seen \in Nat /\ Seen <= now /\ now \in Nat /\ started \in Nat
    BY <1>2, PassCollects DEF DurationInv
  <2>2. /\ IsSeq(timeline) /\ IsSeq(published)
        /\ \A i \in 1..Len(timeline) : timeline[i][1] \in Nat
        /\ \A i \in 1..Len(published) : published[i].ts \in Nat
        /\ timeline = <<>> => Seen = now /\ published = <<>>
        /\ timeline # <<>> => timeline[Len(timeline)][2] = EndPhase(published)
    BY <2>1 DEF DurationInv, PassInv, ChainInv
  <2>3. ASSUME NEW p \in Phases
        PROVE  FrameTime(Append(timeline, <<now, phase>>), now, p) =
                 SegmentTime(published', started, now, p)
    <3> PICK n : n = Seen
      OBVIOUS
    <3>1. n \in Nat /\ (timeline = <<>> => n = now)
      BY <2>1, <2>2
    <3>2. FrameTime(timeline, n, p) = SegmentTime(published, started, n, p)
      BY <2>1 DEF DurationInv
    <3>3. FrameTime(Append(timeline, <<now, phase>>), now, p) = FrameTime(timeline, n, p)
            + (IF timeline # <<>> /\ timeline[Len(timeline)][2] = p THEN now - n ELSE 0)
      <4> PICK tl, m, q : tl = timeline /\ m = now /\ q = phase
        OBVIOUS
      <4>1. /\ IsSeq(tl) /\ m \in Nat /\ (tl = <<>> => n = m)
            /\ \A i \in 1..Len(tl) : tl[i][1] \in Nat
        BY <2>1, <2>2, <3>1
      <4>2. FrameTime(Append(tl, <<m, q>>), m, p) = FrameTime(tl, n, p)
              + (IF tl # <<>> /\ tl[Len(tl)][2] = p THEN m - n ELSE 0)
        BY <3>1, <4>1, FrameAdded
      <4> QED BY <4>2
    <3>4. SegmentTime(published, started, now, p) = SegmentTime(published, started, n, p)
            + (IF EndPhase(published) = p THEN now - n ELSE 0)
      BY <2>1, <2>2, <3>1, TimePasses
    <3>5. SegmentTime(published', started, now, p) = SegmentTime(published, started, now, p)
      <4>1. ASSUME NEW tr, published' = Append(published, tr), tr.ts = now
            PROVE  SegmentTime(published', started, now, p) = SegmentTime(published, started, now, p)
        BY <2>1, <2>2, <4>1, TransitionAdded
      <4> QED BY <2>1, <4>1
    <3>6. SegmentTime(published, started, n, p) \in Int
      BY <2>1, <2>2, <3>1, SegmentsSum
    <3>7. CASE timeline = <<>>
      BY <3>1, <3>2, <3>3, <3>4, <3>5, <3>6, <3>7
    <3>8. CASE timeline # <<>>
      BY <2>2, <3>2, <3>3, <3>4, <3>5, <3>8
    <3> QED BY <3>7, <3>8
  <2>4. (\A p \in Phases : FrameTime(timeline, Seen, p) = SegmentTime(published, started, Seen, p))'
    <3> PICK n : n = Seen'
      OBVIOUS
    <3>1. \A p \in Phases : FrameTime(timeline', n, p) = SegmentTime(published', started', n, p)
      BY <2>1, <2>3
    <3> QED BY <3>1
  <2> QED BY <2>1, <2>4 DEF DurationInv
<1>3. CASE UNCHANGED allVars
  <2>1. PassInv'
    BY <1>3, StepPass DEF DurationInv
  <2>2. UNCHANGED <<pc, started, published, timeline>>
    BY <1>3 DEF allVars, vars, stateVars, collected
  <2> QED BY <2>1, <2>2 DEF DurationInv, Seen
<1> QED BY <1>1, <1>2, <1>3 DEF CollectorNext

\* The sums of the report and of the property are such totals.
LEMMA TimeInIs ==
    ASSUME NEW p, Summable(FrameLengths(timeline, now), PhaseFrames(timeline, p))
    PROVE  TimeIn(p) = FrameTime(timeline, now, p)
<1> DEFINE f == FrameLengths(timeline, now)
           S == PhaseFrames(timeline, p)
           Len0(i) == FrameEnd(i) - timeline[i][1]
           Rec(h) == [s \in SUBSET S |-> IF s = {} THEN 0
                        ELSE Len0(CHOOSE x \in s : TRUE) + h[s \ {CHOOSE x \in s : TRUE}]]
           fold == CHOOSE h : h = Rec(h)
<1>1. TimeIn(p) = fold[S]
  BY DEF TimeIn, MapThenSumSet, MapThenFoldSet, PhaseFrames
<1>2. \A i \in S : f[i] = Len0(i)
  BY DEF FrameLengths, FrameEnd, PhaseFrames
<1>3. \A h : Summed(h, f, S) = Rec(h)
  <2>1. ASSUME NEW s \in SUBSET S, s # {}
        PROVE  Pick[s] = (CHOOSE x \in s : TRUE) /\ f[Pick[s]] = Len0(Pick[s])
    <3>1. s \in SUBSET Nat /\ Pick[s] \in S
      BY <2>1, Picks DEF Summable
    <3> QED BY <1>2, <3>1 DEF Pick
  <2> HIDE DEF f, Len0
  <2> QED BY <2>1 DEF Summed
<1>4. fold = Summed(fold, f, S)
  <2>1. \E h : h = Summed(h, f, S)
    BY TotalOfFold
  <2> HIDE DEF Rec
  <2> QED BY <1>3, <2>1
<1> HIDE DEF fold
<1> QED BY <1>1, <1>4, TotalOfFold DEF FrameTime

LEMMA PhaseDurationIs ==
    ASSUME NEW p, published # <<>>, published[1].from[1] = "OFFLINE",
           Summable(SegmentLengths(published, started, now), PhaseSegments(published, p))
    PROVE  PhaseDurations(p) = SegmentTime(published, started, now, p)
<1> DEFINE f == SegmentLengths(published, started, now)
           S == PhaseSegments(published, p)
           Len0(i) == SegmentEnd(i) - SegmentStart(i)
           Rec(h) == [s \in SUBSET S |-> IF s = {} THEN 0
                        ELSE Len0(CHOOSE x \in s : TRUE) + h[s \ {CHOOSE x \in s : TRUE}]]
           fold == CHOOSE h : h = Rec(h)
<1>0. S = {i \in Segments : SegmentPhase(i) = p}
  BY DEF PhaseSegments, Segments, SegmentPhase
<1>1. PhaseDurations(p) = fold[S]
  <2> HIDE DEF S
  <2> QED BY <1>0 DEF PhaseDurations, MapThenSumSet, MapThenFoldSet
<1>2. \A i \in S : f[i] = Len0(i)
  BY DEF SegmentLengths, SegmentEnd, SegmentStart, PhaseSegments
<1>3. \A h : Summed(h, f, S) = Rec(h)
  <2>1. ASSUME NEW s \in SUBSET S, s # {}
        PROVE  Pick[s] = (CHOOSE x \in s : TRUE) /\ f[Pick[s]] = Len0(Pick[s])
    <3>1. s \in SUBSET Nat /\ Pick[s] \in S
      BY <2>1, Picks DEF Summable
    <3> QED BY <1>2, <3>1 DEF Pick
  <2> HIDE DEF f, Len0
  <2> QED BY <2>1 DEF Summed
<1>4. fold = Summed(fold, f, S)
  <2>1. \E h : h = Summed(h, f, S)
    BY TotalOfFold
  <2> HIDE DEF Rec
  <2> QED BY <1>3, <2>1
<1> HIDE DEF fold
<1> QED BY <1>1, <1>4, TotalOfFold DEF SegmentTime

\* Whatever the transitions of a recording and wherever it ends, the time in each
\* phase that the report adds up from them is the time its frames were in that phase.
THEOREM DurationsAreTrue == CollectorSpec => []DurationsTrue
<1>1. CollectorInit => DurationInv
  <2> SUFFICES ASSUME CollectorInit
               PROVE  DurationInv
    OBVIOUS
  <2>1. PassInv /\ timeline = <<>> /\ published = <<>> /\ started = 0 /\ Seen = 0
    BY InitPass, CollectorStep DEF CollectorInit, Init, Seen
  <2>2. \A p \in Phases : FrameTime(<<>>, 0, p) = SegmentTime(<<>>, 0, 0, p)
    BY NoTime
  <2> QED BY <2>1, <2>2 DEF DurationInv
<1>2. DurationInv => DurationsTrue
  <2> SUFFICES ASSUME DurationInv, pc = "idle", published # <<>>, NEW p \in Phases
               PROVE  PhaseDurations(p) = TimeIn(p)
    BY DEF DurationsTrue
  <2>1. /\ IsSeq(timeline) /\ IsSeq(published) /\ Seen = now /\ pending = <<>>
        /\ now \in Nat /\ started \in Nat
        /\ \A i \in 1..Len(timeline) : timeline[i][1] \in Nat
        /\ \A i \in 1..Len(published) : published[i].ts \in Nat
        /\ FrameTime(timeline, now, p) = SegmentTime(published, started, now, p)
    BY DEF DurationInv, PassInv, ChainInv, FrameInv
  <2>2. published[1].from[1] = "OFFLINE"
    <3>1. published \o <<>> = published /\ 1 \in 1..Len(published)
      BY <2>1, EmptySeq, ConcatEmptySeq DEF IsSeq
    <3>2. Leads(published, <<phase, source>>)
      BY <2>1, <3>1 DEF DurationInv, PassInv, ChainInv
    <3> QED BY <3>1, <3>2 DEF Leads, Start
  <2>3. TimeIn(p) = FrameTime(timeline, now, p)
    BY <2>1, FramesSum, TimeInIs
  <2>4. PhaseDurations(p) = SegmentTime(published, started, now, p)
    BY <2>1, <2>2, SegmentsSum, PhaseDurationIs
  <2> QED BY <2>1, <2>3, <2>4
<1>3. DurationInv /\ [CollectorNext]_allVars => DurationInv'
  BY StepDuration
<1> QED BY <1>1, <1>2, <1>3, PTL DEF CollectorSpec

-----------------------------------------------------------------------------
(* OfflineNotOverstated.                                                   *)

Accs == [start : Int, longest : Nat]

Offline(tl, i) == tl[i][2] = "OFFLINE"
IsRun(tl, a, b) ==
    a \in 1..Len(tl) /\ b \in 1..Len(tl) /\ a <= b /\ \A i \in a..b : Offline(tl, i)

\* The stretch at hand began with a frame since which all were OFFLINE, and the
\* longest one closed is a run of frames, or nothing.
ScanOK(acc, tl) ==
    /\ acc \in Accs
    /\ acc.start # Null <=> tl = <<>> \/ Offline(tl, Len(tl))
    /\ acc.longest = 0 \/ \E a, b \in 1..Len(tl) :
         IsRun(tl, a, b) /\ b < Len(tl) /\ acc.longest = tl[b + 1][1] - tl[a][1]
    /\ acc.start # Null /\ tl # <<>> => \E a \in 1..Len(tl) :
         IsRun(tl, a, Len(tl)) /\ tl[a][1] = acc.start

\* An OFFLINE frame belongs to the stretch at hand, or to runs that are closed and
\* counted.
ScanExact(acc, tl) ==
    \A a \in 1..Len(tl) : Offline(tl, a) =>
        \/ acc.start # Null /\ acc.start <= tl[a][1]
        \/ \A b \in 1..Len(tl) : IsRun(tl, a, b) =>
             b < Len(tl) /\ tl[b + 1][1] - tl[a][1] <= acc.longest

\* What a frame at m of phase q does to the scan: it changes nothing, begins a
\* stretch, or ends one.
Moves(acc, new, e, q, m) ==
    \/ new = acc /\ (e = "OFFLINE" <=> q = "OFFLINE")
    \/ new = [acc EXCEPT !.start = m] /\ q = "OFFLINE"
    \/ /\ new = [start |-> Null, longest |-> Longer(acc.longest, m - acc.start)]
       /\ e = "OFFLINE" /\ q # "OFFLINE"

LEMMA StepMoves ==
    ASSUME NEW acc \in Accs, NEW tr, tr.ts \in Nat, tr.from[1] = "OFFLINE" => acc.start # Null
    PROVE  Moves(acc, OfflineStep(acc, tr), tr.from[1], tr.to[1], tr.ts)
BY DEF Moves, OfflineStep

LEMMA ScanMoves ==
    ASSUME NEW tl, IsSeq(tl), \A i \in 1..Len(tl) : tl[i][1] \in Nat, NEW m \in Nat,
           \A i \in 1..Len(tl) : tl[i][1] <= m, NEW q,
           NEW acc, ScanOK(acc, tl), tl = <<>> => acc.start = m,
           NEW new, Moves(acc, new, IF tl = <<>> THEN "OFFLINE" ELSE tl[Len(tl)][2], q, m)
    PROVE  ScanOK(new, Append(tl, <<m, q>>))
<1> DEFINE k == Len(tl)
           more == Append(tl, <<m, q>>)
           e == IF tl = <<>> THEN "OFFLINE" ELSE tl[k][2]
<1>1. /\ IsSeq(more) /\ k \in Nat /\ Len(more) = k + 1 /\ more # <<>>
      /\ \A i \in 1..k : more[i] = tl[i]
      /\ more[k + 1] = <<m, q>> /\ (tl = <<>> <=> k = 0)
  <2>1. /\ IsSeq(more) /\ k \in Nat /\ Len(more) = k + 1
        /\ \A i \in 1..k : more[i] = tl[i]
        /\ more[k + 1] = <<m, q>>
    BY AppendSeq
  <2> QED BY <2>1, EmptySeq DEF IsSeq
<1>2. more[k + 1][1] = m /\ (Offline(more, k + 1) <=> q = "OFFLINE")
  BY <1>1 DEF Offline
<1> HIDE DEF more
<1> SUFFICES ScanOK(new, more)
  BY DEF more
<1>3. /\ acc \in Accs /\ Null \in Int /\ m # Null
      /\ acc.start # Null <=> e = "OFFLINE"
  BY <1>1 DEF ScanOK, Offline, Null
<1>4. \A a, b \in 1..k : IsRun(tl, a, b) => IsRun(more, a, b)
  BY <1>1 DEF IsRun, Offline
<1>5. acc.longest = 0 \/ \E a, b \in 1..(k + 1) :
        IsRun(more, a, b) /\ b < k + 1 /\ acc.longest = more[b + 1][1] - more[a][1]
  <2> SUFFICES ASSUME NEW a \in 1..k, NEW b \in 1..k, IsRun(tl, a, b), b < k,
                      acc.longest = tl[b + 1][1] - tl[a][1]
               PROVE  /\ a \in 1..(k + 1) /\ b \in 1..(k + 1) /\ IsRun(more, a, b) /\ b < k + 1
                      /\ acc.longest = more[b + 1][1] - more[a][1]
    BY DEF ScanOK
  <2>1. b + 1 \in 1..k
    BY <1>1
  <2> QED BY <1>1, <1>4, <2>1
<1>6. q = "OFFLINE" => IsRun(more, k + 1, k + 1)
  BY <1>1, <1>2 DEF IsRun
<1>7. acc.start # Null => \/ tl = <<>> /\ acc.start = m
                          \/ \E a \in 1..k : IsRun(tl, a, k) /\ tl[a][1] = acc.start
  BY DEF ScanOK
<1>8. CASE new = acc /\ (e = "OFFLINE" <=> q = "OFFLINE")
  <2>1. acc.start # Null => \E a \in 1..(k + 1) : IsRun(more, a, k + 1) /\ more[a][1] = acc.start
    <3> SUFFICES ASSUME acc.start # Null
                 PROVE  \E a \in 1..(k + 1) : IsRun(more, a, k + 1) /\ more[a][1] = acc.start
      OBVIOUS
    <3>1. q = "OFFLINE" /\ k + 1 \in 1..(k + 1)
      BY <1>1, <1>3, <1>8
    <3>2. CASE tl = <<>> /\ acc.start = m
      BY <1>2, <1>6, <3>1, <3>2
    <3>3. ASSUME NEW a \in 1..k, IsRun(tl, a, k), tl[a][1] = acc.start
          PROVE  a \in 1..(k + 1) /\ IsRun(more, a, k + 1) /\ more[a][1] = acc.start
      <4>1. \A i \in a..(k + 1) : i \in a..k \/ i = k + 1
        BY <1>1
      <4>2. \A i \in a..k : i \in 1..k
        BY <1>1
      <4> QED BY <1>1, <1>2, <3>1, <3>3, <4>1, <4>2 DEF IsRun, Offline
    <3> QED BY <1>7, <3>2, <3>3
  <2> QED BY <1>1, <1>2, <1>3, <1>5, <1>8, <2>1 DEF ScanOK
<1>9. CASE new = [acc EXCEPT !.start = m] /\ q = "OFFLINE"
  <2>1. new \in Accs /\ new.start = m /\ new.longest = acc.longest
    BY <1>3, <1>9 DEF Accs
  <2>2. k + 1 \in 1..(k + 1) /\ IsRun(more, k + 1, k + 1) /\ more[k + 1][1] = new.start
    BY <1>1, <1>2, <1>6, <1>9, <2>1
  <2> QED BY <1>1, <1>2, <1>3, <1>5, <1>9, <2>1, <2>2 DEF ScanOK
<1>10. CASE /\ new = [start |-> Null, longest |-> Longer(acc.longest, m - acc.start)]
            /\ e = "OFFLINE" /\ q # "OFFLINE"
  <2>1. acc.start # Null /\ acc.start \in Int /\ acc.longest \in Nat
    BY <1>3, <1>10 DEF Accs
  <2>2. acc.start <= m /\ (m = acc.start \/ \E a \in 1..k : IsRun(tl, a, k) /\ tl[a][1] = acc.start)
    BY <1>7, <2>1
  <2>3. /\ new.start = Null /\ new.longest = Longer(acc.longest, m - acc.start)
        /\ new \in Accs
    BY <1>3, <1>10, <2>1, <2>2 DEF Accs, Longer
  <2>4. new.longest = 0 \/ \E a, b \in 1..(k + 1) :
          IsRun(more, a, b) /\ b < k + 1 /\ new.longest = more[b + 1][1] - more[a][1]
    <3>1. CASE new.longest = acc.longest
      BY <1>5, <3>1
    <3>2. CASE new.longest = m - acc.start
      <4>1. CASE m = acc.start
        BY <2>1, <3>2, <4>1
      <4>2. ASSUME NEW a \in 1..k, IsRun(tl, a, k), tl[a][1] = acc.start
            PROVE  /\ a \in 1..(k + 1) /\ k \in 1..(k + 1) /\ IsRun(more, a, k) /\ k < k + 1
                   /\ new.longest = more[k + 1][1] - more[a][1]
        <5>1. k \in 1..k
          BY <1>1
        <5> QED BY <1>1, <1>2, <1>4, <3>2, <4>2, <5>1
      <4> QED BY <2>2, <4>1, <4>2
    <3> QED BY <2>3, <3>1, <3>2 DEF Longer
  <2> QED BY <1>1, <1>2, <1>10, <2>3, <2>4 DEF ScanOK
<1> QED BY <1>8, <1>9, <1>10 DEF Moves

LEMMA ExactMoves ==
    ASSUME NEW tl, IsSeq(tl), \A i \in 1..Len(tl) : tl[i][1] \in Nat, NEW m \in Nat,
           \A i \in 1..Len(tl) : tl[i][1] <= m, NEW q,
           NEW acc, ScanOK(acc, tl), ScanExact(acc, tl), tl = <<>> => acc.start = m,
           NEW e, e = IF tl = <<>> THEN "OFFLINE" ELSE tl[Len(tl)][2],
           NEW new, Moves(acc, new, e, q, m), ~(new # acc /\ e = "OFFLINE" /\ q = "OFFLINE")
    PROVE  ScanExact(new, Append(tl, <<m, q>>))
<1> DEFINE k == Len(tl)
           more == Append(tl, <<m, q>>)
<1>1. /\ k \in Nat /\ Len(more) = k + 1
      /\ \A i \in 1..k : more[i] = tl[i]
      /\ more[k + 1] = <<m, q>> /\ (tl = <<>> <=> k = 0)
  <2>1. /\ k \in Nat /\ Len(more) = k + 1
        /\ \A i \in 1..k : more[i] = tl[i]
        /\ more[k + 1] = <<m, q>>
    BY AppendSeq
  <2> QED BY <2>1, EmptySeq DEF IsSeq
<1>2. more[k + 1][1] = m /\ (Offline(more, k + 1) <=> q = "OFFLINE")
  BY <1>1 DEF Offline
<1> HIDE DEF more
<1>3. /\ acc \in Accs /\ Null \in Int /\ m # Null
      /\ acc.start # Null <=> e = "OFFLINE"
      /\ acc.start \in Int /\ acc.longest \in Nat
      /\ acc.start # Null => acc.start <= m
  <2>1. /\ acc \in Accs /\ Null \in Int /\ m # Null
        /\ acc.start # Null <=> e = "OFFLINE"
    BY <1>1 DEF ScanOK, Offline, Null
  <2>2. acc.start \in Int /\ acc.longest \in Nat
    BY <2>1 DEF Accs
  <2>3. acc.start # Null => acc.start <= m
    BY DEF ScanOK
  <2> QED BY <2>1, <2>2, <2>3
<1>4. /\ new.longest >= acc.longest
      /\ q = "OFFLINE" => new.start # Null /\ new.start <= m
      /\ new.start # Null /\ e = "OFFLINE" => new = acc
      /\ new.start = Null /\ e = "OFFLINE" => new.longest >= m - acc.start
  <2>1. CASE new = acc /\ (e = "OFFLINE" <=> q = "OFFLINE")
    BY <1>3, <2>1
  <2>2. CASE new = [acc EXCEPT !.start = m] /\ q = "OFFLINE"
    <3>1. new.start = m /\ new.longest = acc.longest
      BY <1>3, <2>2 DEF Accs
    <3> QED BY <1>3, <2>2, <3>1
  <2>3. CASE /\ new = [start |-> Null, longest |-> Longer(acc.longest, m - acc.start)]
             /\ e = "OFFLINE" /\ q # "OFFLINE"
    <3>1. new.start = Null /\ new.longest = Longer(acc.longest, m - acc.start)
      BY <2>3
    <3> QED BY <1>3, <2>3, <3>1 DEF Longer
  <2> QED BY <2>1, <2>2, <2>3 DEF Moves
<1>5. ASSUME NEW a \in 1..(k + 1), Offline(more, a)
      PROVE  \/ new.start # Null /\ new.start <= more[a][1]
             \/ \A b \in 1..(k + 1) : IsRun(more, a, b) =>
                  b < k + 1 /\ more[b + 1][1] - more[a][1] <= new.longest
  <2>1. CASE a = k + 1
    BY <1>2, <1>4, <1>5, <2>1
  <2>2. CASE a \in 1..k
    <3>1. more[a] = tl[a] /\ Offline(tl, a) /\ tl[a][1] \in Nat
      BY <1>1, <1>5, <2>2 DEF Offline
    <3>2. ASSUME NEW b \in 1..k, IsRun(more, a, b)
          PROVE  IsRun(tl, a, b)
      BY <1>1, <2>2, <3>2 DEF IsRun, Offline
    <3>3. CASE acc.start # Null /\ acc.start <= tl[a][1]
      <4>1. e = "OFFLINE"
        BY <1>3, <3>3
      <4>2. CASE new.start # Null
        BY <1>4, <3>1, <3>3, <4>1, <4>2
      <4>3. CASE new.start = Null
        <5> SUFFICES ASSUME NEW b \in 1..(k + 1), IsRun(more, a, b)
                     PROVE  b < k + 1 /\ more[b + 1][1] - more[a][1] <= new.longest
          OBVIOUS
        <5>1. b # k + 1
          <6>1. b = k + 1 => Offline(more, k + 1)
            BY <1>1, <2>2 DEF IsRun
          <6> QED BY <1>2, <1>4, <4>3, <6>1
        <5>2. b \in 1..k
          BY <1>1, <5>1
        <5>3. more[b + 1][1] <= m /\ more[b + 1][1] \in Nat
          <6>1. CASE b = k
            BY <1>2, <6>1
          <6>2. CASE b # k
            <7>1. b + 1 \in 1..k
              BY <1>1, <5>2, <6>2
            <7> QED BY <1>1, <7>1
          <6> QED BY <6>1, <6>2
        <5>4. new.longest >= m - acc.start
          BY <1>4, <4>1, <4>3
        <5>5. new.longest \in Int
          BY <1>3, <4>1, <4>3 DEF Moves, Longer
        <5>6. more[b + 1][1] - more[a][1] <= new.longest
          <6> PICK x, y, z, w : /\ x = more[b + 1][1] /\ y = more[a][1]
                                /\ z = new.longest /\ w = acc.start
            OBVIOUS
          <6>1. x \in Nat /\ y \in Nat /\ z \in Int /\ w \in Int
            BY <1>3, <3>1, <5>3, <5>5
          <6>2. x <= m /\ w <= y /\ z >= m - w
            BY <3>1, <3>3, <5>3, <5>4
          <6>3. x - y <= z
            BY <6>1, <6>2
          <6> QED BY <6>3
        <5>7. b < k + 1
          BY <1>1, <5>2
        <5> QED BY <5>6, <5>7
      <4> QED BY <4>2, <4>3
    <3>4. CASE \A b \in 1..k : IsRun(tl, a, b) => b < k /\ tl[b + 1][1] - tl[a][1] <= acc.longest
      <4> SUFFICES ASSUME NEW b \in 1..(k + 1), IsRun(more, a, b)
                   PROVE  b < k + 1 /\ more[b + 1][1] - more[a][1] <= new.longest
        OBVIOUS
      <4>1. b # k + 1
        <5>1. b = k + 1 => IsRun(more, a, k) /\ k \in 1..k
          BY <1>1, <2>2 DEF IsRun
        <5> QED BY <1>1, <3>2, <3>4, <5>1
      <4>2. b \in 1..k
        BY <1>1, <4>1
      <4>3. b < k /\ tl[b + 1][1] - tl[a][1] <= acc.longest
        BY <3>2, <3>4, <4>2
      <4>4. b + 1 \in 1..k /\ more[b + 1] = tl[b + 1] /\ tl[b + 1][1] \in Nat
        BY <1>1, <4>2, <4>3
      <4>5. new.longest \in Int
        BY <1>3 DEF Moves, Longer, Accs
      <4>6. /\ acc.longest \in Int /\ new.longest >= acc.longest
            /\ more[b + 1][1] - more[a][1] \in Int /\ more[b + 1][1] - more[a][1] <= acc.longest
        BY <1>3, <1>4, <3>1, <4>3, <4>4
      <4>7. more[b + 1][1] - more[a][1] <= new.longest
        BY <4>5, <4>6
      <4>8. b < k + 1
        BY <1>1, <4>2
      <4> QED BY <4>7, <4>8
    <3> QED BY <2>2, <3>1, <3>3, <3>4 DEF ScanExact
  <2> QED BY <1>1, <2>1, <2>2
<1> QED BY <1>1, <1>5 DEF ScanExact, more

\* The scan of a recording from m over the transitions log.
Top == [s \in SUBSET Nat |-> Max(s)]
From(m) == [start |-> m, longest |-> 0]
StepOf(log) == [p \in Accs \X (1..Len(log)) |-> OfflineStep(p[1], log[p[2]])]
Scanning(h, m, log) == Folded(h, 1..Len(log), Accs, From(m), Top, StepOf(log))
Scans(m, log) == CHOOSE h : Scanning(h, m, log)
Scan(m, log) == Scans(m, log)[1..Len(log)]

Timed(log) == IsSeq(log) /\ \A i \in 1..Len(log) : log[i].ts \in Nat

LEMMA Greatest ==
    ASSUME NEW S \in SUBSET Int, IsFiniteSet(S)
    PROVE  \A s \in SUBSET S : s # {} => Max(s) \in s /\ \A x \in s : x <= Max(s)
<1> DEFINE A == {s \in SUBSET S : s # {} => \E x \in s : \A y \in s : y <= x}
<1>1. ASSUME NEW s \in SUBSET S, \A u \in SUBSET s : u # s => u \in A
      PROVE  s \in A
  <2> SUFFICES ASSUME NEW a \in s
               PROVE  \E x \in s : \A y \in s : y <= x
    OBVIOUS
  <2>1. s \subseteq Int
    OBVIOUS
  <2>2. CASE s = {a}
    BY <2>1, <2>2
  <2>3. CASE s # {a}
    <3>1. s \ {a} \in A /\ s \ {a} # {}
      BY <1>1, <2>3
    <3>2. PICK x \in s \ {a} : \A y \in s \ {a} : y <= x
      BY <3>1
    <3>3. CASE a <= x
      BY <3>2, <3>3
    <3>4. CASE x <= a
      <4>1. \A y \in s : y <= a
        BY <2>1, <3>2, <3>4
      <4> QED BY <4>1
    <3> QED BY <2>1, <3>3, <3>4
  <2> QED BY <2>2, <2>3
<1> HIDE DEF A
<1>2. A = SUBSET S
  <2>1. A \in SUBSET SUBSET S
    BY DEF A
  <2> QED BY <1>1, <2>1, SubsetInduction
<1>3. ASSUME NEW s \in SUBSET S, s # {}
      PROVE  Max(s) \in s /\ \A x \in s : x <= Max(s)
  <2>1. PICK x \in s : \A y \in s : y <= x
    BY <1>2, <1>3 DEF A
  <2>2. Max(s) = x
    BY <2>1, MaxIs
  <2> QED BY <2>1, <2>2
<1> QED BY <1>3

LEMMA TopIs ==
    ASSUME NEW n \in Nat
    PROVE  /\ \A s \in SUBSET (1..n) : s # {} => Top[s] = Max(s) /\ Top[s] \in s
           /\ Top[1..(n + 1)] = n + 1
<1>1. \A s \in SUBSET Nat : Top[s] = Max(s)
  BY DEF Top
<1>2. ASSUME NEW s \in SUBSET (1..n), s # {}
      PROVE  Top[s] = Max(s) /\ Top[s] \in s
  <2> DEFINE S == 1..n
  <2>1. S \in SUBSET Int /\ IsFiniteSet(S) /\ s \in SUBSET Nat
    BY FS_Interval
  <2>2. Max(s) \in s
    <3>1. s \in SUBSET S
      OBVIOUS
    <3> HIDE DEF S
    <3> QED BY <1>2, <2>1, <3>1, Greatest
  <2> QED BY <1>1, <2>1, <2>2
<1>3. Top[1..(n + 1)] = n + 1
  <2> PICK s : s = 1..(n + 1)
    OBVIOUS
  <2>1. s \in SUBSET Int /\ s \in SUBSET Nat /\ n + 1 \in s /\ \A x \in s : x <= n + 1
    OBVIOUS
  <2>2. Max(s) = n + 1
    BY <2>1, MaxIs
  <2> QED BY <1>1, <2>1, <2>2
<1> QED BY <1>2, <1>3

LEMMA ScanExists ==
    ASSUME NEW m \in Nat, NEW log, Timed(log)
    PROVE  /\ Scanning(Scans(m, log), m, log) /\ Scan(m, log) \in Accs /\ From(m) \in Accs
           /\ \A a \in Accs, i \in 1..Len(log) :
                StepOf(log)[<<a, i>>] = OfflineStep(a, log[i]) /\ OfflineStep(a, log[i]) \in Accs
<1>1. Len(log) \in Nat /\ From(m) \in Accs
  BY DEF Timed, IsSeq, From, Accs
<1>2. \A a \in Accs, i \in 1..Len(log) : StepOf(log)[<<a, i>>] = OfflineStep(a, log[i])
  BY DEF StepOf
<1>3. ASSUME NEW a \in Accs, NEW i \in 1..Len(log)
      PROVE  OfflineStep(a, log[i]) \in Accs
  <2> PICK t : t = log[i].ts
    OBVIOUS
  <2>1. t \in Nat /\ a.start \in Int /\ a.longest \in Nat /\ Null \in Int
    BY DEF Timed, Accs, Null
  <2>2. [a EXCEPT !.start = t] \in Accs
    BY <2>1 DEF Accs
  <2>3. [start |-> Null, longest |-> Longer(a.longest, t - a.start)] \in Accs
    BY <2>1 DEF Accs, Longer
  <2> QED BY <2>2, <2>3 DEF OfflineStep
<1>4. \E h : Scanning(h, m, log)
  <2> DEFINE S == 1..Len(log)
             G == StepOf(log)
  <2> PICK n \in Nat : n = Len(log)
    BY <1>1
  <2>0. IsFiniteSet(1..n)
    BY FS_Interval
  <2>1. IsFiniteSet(S) /\ \A s \in SUBSET S : s # {} => Top[s] \in s
    <3>1. \A s \in SUBSET (1..n) : s # {} => Top[s] \in s
      BY TopIs
    <3> QED BY <2>0, <3>1
  <2>2. \A a \in Accs, i \in S : G[<<a, i>>] \in Accs
    BY <1>2, <1>3
  <2> HIDE DEF S, G
  <2>3. \E h : Folded(h, S, Accs, From(m), Top, G)
    BY <1>1, <2>1, <2>2, FoldExists
  <2> QED BY <2>3 DEF Scanning, S, G
<1>5. Scanning(Scans(m, log), m, log)
  BY <1>4 DEF Scans
<1>6. Scan(m, log) \in Accs
  BY <1>5 DEF Scanning, Folded, Scan
<1> QED BY <1>1, <1>2, <1>3, <1>5, <1>6

LEMMA ScanNone == ASSUME NEW m \in Nat PROVE Scan(m, <<>>) = From(m)
<1>1. Timed(<<>>) /\ 1..Len(<<>>) = {}
  BY DEF Timed, IsSeq
<1>2. Scanning(Scans(m, <<>>), m, <<>>)
  BY <1>1, ScanExists
<1> QED BY <1>1, <1>2 DEF Scanning, Folded, Scan

LEMMA ScanAppend ==
    ASSUME NEW m \in Nat, NEW log, Timed(log), NEW tr, tr.ts \in Nat
    PROVE  Scan(m, Append(log, tr)) = OfflineStep(Scan(m, log), tr)
<1> DEFINE k == Len(log)
           more == Append(log, tr)
           S == 1..k
           T == 1..(k + 1)
           h == Scans(m, log)
           g == Scans(m, more)
<1>1. /\ IsSeq(more) /\ k \in Nat /\ Len(more) = k + 1
      /\ \A i \in 1..k : more[i] = log[i]
      /\ more[k + 1] = tr
  BY AppendSeq DEF Timed
<1> HIDE DEF more
<1>2. Timed(more)
  <2>1. \A i \in 1..Len(more) : i \in 1..k \/ i = k + 1
    BY <1>1
  <2> QED BY <1>1, <2>1 DEF Timed
<1>3. /\ Folded(h, S, Accs, From(m), Top, StepOf(log))
      /\ Folded(g, T, Accs, From(m), Top, StepOf(more))
      /\ \A a \in Accs, i \in S : StepOf(log)[<<a, i>>] = OfflineStep(a, log[i])
      /\ \A a \in Accs, i \in T : StepOf(more)[<<a, i>>] = OfflineStep(a, more[i])
  BY <1>1, <1>2, ScanExists DEF Scanning
<1>4. /\ S \subseteq T /\ k + 1 \in T /\ T \ {k + 1} = S /\ T # {} /\ IsFiniteSet(S)
      /\ \A s \in SUBSET S : s # {} => Top[s] \in s
      /\ Top[T] = k + 1
  <2> PICK n \in Nat : n = k
    BY <1>1
  <2>1. IsFiniteSet(1..n)
    BY FS_Interval
  <2>2. /\ \A s \in SUBSET (1..n) : s # {} => Top[s] \in s
        /\ Top[1..(n + 1)] = n + 1
    BY TopIs
  <2>3. /\ 1..n \subseteq 1..(n + 1) /\ n + 1 \in 1..(n + 1)
        /\ (1..(n + 1)) \ {n + 1} = 1..n
    OBVIOUS
  <2> HIDE DEF k
  <2> QED BY <2>1, <2>2, <2>3
<1>5. \A a \in Accs, i \in S : StepOf(log)[<<a, i>>] = StepOf(more)[<<a, i>>]
  <2> SUFFICES ASSUME NEW a \in Accs, NEW i \in S
               PROVE  StepOf(log)[<<a, i>>] = StepOf(more)[<<a, i>>]
    OBVIOUS
  <2>1. i \in T /\ more[i] = log[i]
    BY <1>1, <1>4
  <2>2. StepOf(log)[<<a, i>>] = OfflineStep(a, log[i])
    BY <1>3
  <2>3. StepOf(more)[<<a, i>>] = OfflineStep(a, more[i])
    BY <1>3, <2>1
  <2> QED BY <2>1, <2>2, <2>3
<1> HIDE DEF h, g, S, T
<1>6. \A s \in SUBSET S : h[s] = g[s]
  BY <1>3, <1>4, <1>5, FoldUnique
<1>7. g[T] = StepOf(more)[<<g[S], k + 1>>] /\ g[S] \in Accs
  BY <1>3, <1>4 DEF Folded
<1>8. g[T] = OfflineStep(h[S], tr)
  BY <1>1, <1>3, <1>4, <1>6, <1>7
<1> QED BY <1>1, <1>8 DEF Scan, h, g, S, T, more

\* The fold of collector.py's loop is that scan.
LEMMA ScanIs ==
    ASSUME NEW m \in Nat, NEW log, Timed(log)
    PROVE  FoldLeft(OfflineStep, From(m), log) = Scan(m, log)
<1> DEFINE S == 1..Len(log)
           Rec(h) == [s \in SUBSET S |-> IF s = {} THEN From(m)
                        ELSE OfflineStep(h[s \ {Max(s)}], log[Max(s)])]
           fold == CHOOSE h : h = Rec(h)
           g == Scans(m, log)
<1>1. DOMAIN log = S /\ Len(log) \in Nat
  BY DEF Timed, IsSeq
<1>2. FoldLeft(OfflineStep, From(m), log) = fold[S]
  BY <1>1 DEF FoldLeft, MapThenFoldSet
<1>3. /\ g \in [SUBSET S -> Accs] /\ g[{}] = From(m)
      /\ \A s \in SUBSET S : s # {} =>
           /\ Max(s) \in s
           /\ g[s] = OfflineStep(g[s \ {Max(s)}], log[Max(s)])
  <2>1. /\ Folded(g, S, Accs, From(m), Top, StepOf(log))
        /\ \A a \in Accs, i \in S : StepOf(log)[<<a, i>>] = OfflineStep(a, log[i])
    BY ScanExists DEF Scanning
  <2>2. \A s \in SUBSET S : s # {} => Top[s] = Max(s) /\ Top[s] \in s
    BY <1>1, TopIs
  <2> HIDE DEF g, S
  <2>3. g \in [SUBSET S -> Accs] /\ g[{}] = From(m)
    BY <2>1 DEF Folded
  <2>4. ASSUME NEW s \in SUBSET S, s # {}
        PROVE  Max(s) \in s /\ g[s] = OfflineStep(g[s \ {Max(s)}], log[Max(s)])
    <3>1. Top[s] = Max(s) /\ Max(s) \in s
      BY <2>2, <2>4
    <3>2. g[s] = StepOf(log)[<<g[s \ {Max(s)}], Max(s)>>] /\ g[s \ {Max(s)}] \in Accs
      BY <2>1, <2>4, <3>1 DEF Folded
    <3> QED BY <2>1, <3>1, <3>2
  <2> QED BY <2>3, <2>4
<1> HIDE DEF g
<1>4. g = Rec(g)
  BY <1>3
<1>5. fold = Rec(fold)
  <2> HIDE DEF Rec
  <2> QED BY <1>4
<1> HIDE DEF fold
<1>6. fold[S] = g[S]
  <2> DEFINE A == {s \in SUBSET S : fold[s] = g[s]}
  <2>1. ASSUME NEW s \in SUBSET S, \A u \in SUBSET s : u # s => u \in A
        PROVE  s \in A
    <3>1. fold[s] = IF s = {} THEN From(m) ELSE OfflineStep(fold[s \ {Max(s)}], log[Max(s)])
      BY <1>5
    <3>2. CASE s = {}
      BY <1>3, <3>1, <3>2
    <3>3. CASE s # {}
      <4>1. s \ {Max(s)} \in A
        BY <1>3, <2>1, <3>3
      <4> QED BY <1>3, <3>1, <3>3, <4>1
    <3> QED BY <3>2, <3>3
  <2>2. IsFiniteSet(S)
    BY <1>1, FS_Interval
  <2> HIDE DEF A, S
  <2>3. A = SUBSET S
    <3>1. A \in SUBSET SUBSET S
      BY DEF A
    <3> QED BY <2>1, <2>2, <3>1, SubsetInduction
  <2> QED BY <2>3 DEF A
<1> QED BY <1>2, <1>6 DEF Scan, g

\* The scan of the transitions so far tells of the frames so far.
OfflineInv ==
    /\ PassInv
    /\ pc # "crashed" =>
         /\ ScanOK(Scan(started, published), timeline)
         /\ ~OfflineSplit => ScanExact(Scan(started, published), timeline)

Splits(log) ==
    \E i \in 1..Len(log) : log[i].from[1] = "OFFLINE" /\ log[i].to[1] = "OFFLINE"

LEMMA ScanStarts ==
    ASSUME NEW m \in Nat
    PROVE  ScanOK(Scan(m, <<>>), <<>>) /\ ScanExact(Scan(m, <<>>), <<>>)
<1>1. Scan(m, <<>>) = [start |-> m, longest |-> 0] /\ m # Null /\ Len(<<>>) = 0
  BY ScanNone DEF From, Null
<1> QED BY <1>1 DEF ScanOK, ScanExact, Accs

\* A frame at m of phase q, with the transition it made, if any, keeps that so.
LEMMA ScanCollects ==
    ASSUME NEW tl, IsSeq(tl), \A i \in 1..Len(tl) : tl[i][1] \in Nat, NEW m \in Nat,
           \A i \in 1..Len(tl) : tl[i][1] <= m, NEW q,
           NEW log, Timed(log), NEW s \in Nat,
           tl = <<>> => s = m /\ log = <<>>, tl # <<>> => tl[Len(tl)][2] = EndPhase(log),
           ScanOK(Scan(s, log), tl), ~Splits(log) => ScanExact(Scan(s, log), tl),
           NEW more,
           \/ more = log
           \/ \E tr : more = Append(log, tr) /\ tr.ts = m /\ tr.from[1] = EndPhase(log),
           EndPhase(more) = q
    PROVE  /\ ScanOK(Scan(s, more), Append(tl, <<m, q>>))
           /\ ~Splits(more) => ScanExact(Scan(s, more), Append(tl, <<m, q>>))
<1> DEFINE e == IF tl = <<>> THEN "OFFLINE" ELSE tl[Len(tl)][2]
           acc == Scan(s, log)
           new == Scan(s, more)
<1>1. e = EndPhase(log)
  BY DEF EndPhase
<1>2. tl = <<>> => acc.start = m
  BY ScanNone DEF From
<1>3. acc \in Accs
  BY DEF ScanOK
<1>4. Moves(acc, new, e, q, m) /\ (Splits(log) => Splits(more))
      /\ (new # acc /\ e = "OFFLINE" /\ q = "OFFLINE" => Splits(more))
  <2>1. CASE more = log
    BY <1>1, <2>1 DEF Moves
  <2>2. ASSUME NEW tr, more = Append(log, tr), tr.ts = m, tr.from[1] = EndPhase(log)
        PROVE  Moves(acc, new, e, q, m) /\ (Splits(log) => Splits(more))
               /\ (new # acc /\ e = "OFFLINE" /\ q = "OFFLINE" => Splits(more))
    <3>1. /\ Len(log) \in Nat /\ Len(more) = Len(log) + 1
          /\ \A i \in 1..Len(log) : more[i] = log[i]
          /\ more[Len(log) + 1] = tr
      BY <2>2, AppendSeq DEF Timed
    <3>2. new = OfflineStep(acc, tr)
      BY <2>2, ScanAppend
    <3>3. tr.to[1] = q
      <4>1. more # <<>>
        BY <3>1
      <4> QED BY <3>1, <4>1 DEF EndPhase
    <3>4. e = "OFFLINE" => acc.start # Null
      BY DEF ScanOK, Offline
    <3>5. Moves(acc, new, e, q, m)
      <4> HIDE DEF acc, e
      <4>1. Moves(acc, OfflineStep(acc, tr), tr.from[1], tr.to[1], tr.ts)
        BY <1>1, <1>3, <2>2, <3>4, StepMoves
      <4> QED BY <1>1, <2>2, <3>2, <3>3, <4>1
    <3>6. Len(log) + 1 \in 1..Len(more) /\ \A i \in 1..Len(log) : i \in 1..Len(more)
      BY <3>1
    <3>7. Splits(log) => Splits(more)
      BY <3>1, <3>6 DEF Splits
    <3>8. e = "OFFLINE" /\ q = "OFFLINE" => Splits(more)
      BY <1>1, <2>2, <3>1, <3>3, <3>6 DEF Splits
    <3> QED BY <3>5, <3>7, <3>8
  <2> QED BY <2>1, <2>2
<1>5. ScanOK(acc, tl) /\ (~Splits(log) => ScanExact(acc, tl))
  OBVIOUS
<1> HIDE DEF acc, new
<1>6. ScanOK(new, Append(tl, <<m, q>>))
  BY <1>2, <1>4, <1>5, ScanMoves
<1>7. ASSUME ~Splits(more)
      PROVE  ScanExact(new, Append(tl, <<m, q>>))
  <2> PICK v : v = e
    OBVIOUS
  <2> HIDE DEF e
  <2>1. /\ ScanExact(acc, tl) /\ Moves(acc, new, v, q, m)
        /\ ~(new # acc /\ v = "OFFLINE" /\ q = "OFFLINE")
    BY <1>4, <1>5, <1>7
  <2>2. v = IF tl = <<>> THEN "OFFLINE" ELSE tl[Len(tl)][2]
    BY DEF e
  <2> QED BY <1>2, <1>5, <2>1, <2>2, ExactMoves
<1> QED BY <1>6, <1>7 DEF new

LEMMA StepOffline ==
    ASSUME OfflineInv, [CollectorNext]_allVars
    PROVE  OfflineInv'
<1>1. OfflineSplit <=> Splits(published)
  BY DEF OfflineSplit, Splits
<1>2. OfflineSplit' <=> Splits(published')
  BY DEF OfflineSplit, Splits
<1>3. CASE Apply /\ UNCHANGED collected
  <2>1. /\ PassInv' /\ pc = "idle" /\ published' = published /\ timeline' = timeline
        /\ timeline = <<>> => started' \in Nat /\ published = <<>>
        /\ timeline # <<>> => started' = started
    BY <1>3, PassApplies DEF OfflineInv, PassInv, collected
  <2> PICK n : n = started'
    OBVIOUS
  <2>2. /\ ScanOK(Scan(n, published), timeline)
        /\ ~Splits(published) => ScanExact(Scan(n, published), timeline)
    <3>1. CASE timeline = <<>>
      BY <2>1, <3>1, ScanStarts
    <3>2. CASE timeline # <<>>
      BY <1>1, <2>1, <3>2 DEF OfflineInv
    <3> QED BY <3>1, <3>2
  <2>3. /\ ScanOK(Scan(started, published), timeline)'
        /\ (~OfflineSplit => ScanExact(Scan(started, published), timeline))'
    BY <1>2, <2>1, <2>2
  <2> QED BY <2>1, <2>3 DEF OfflineInv
<1>4. CASE Collect
  <2>1. /\ PassInv' /\ pc = "drain" /\ now' = now /\ started' = started
        /\ timeline' = Append(timeline, <<now, phase>>)
        /\ \/ published' = published
           \/ \E tr : published' = Append(published, tr) /\ tr.ts = now
        /\ EndPhase(published') = phase
        /\ Seen \in Nat /\ Seen <= now /\ now \in Nat /\ started \in Nat
    BY <1>4, PassCollects DEF OfflineInv
  <2>2. /\ IsSeq(timeline) /\ Timed(published)
        /\ \A i \in 1..Len(timeline) : timeline[i][1] \in Nat
        /\ timeline = <<>> => started = now /\ published = <<>>
        /\ timeline # <<>> => timeline[Len(timeline)][2] = EndPhase(published)
    BY <2>1 DEF OfflineInv, PassInv, ChainInv, Timed, Seen
  <2>3. \A i \in 1..Len(timeline) : timeline[i][1] <= now
    <3> SUFFICES ASSUME NEW i \in 1..Len(timeline)
                 PROVE  timeline[i][1] <= now
      OBVIOUS
    <3> PICK k \in Nat : k = Len(timeline)
      BY <2>2 DEF IsSeq
    <3>1. k \in 1..k /\ i <= k /\ timeline # <<>>
      BY <2>2, EmptySeq
    <3>2. Seen = timeline[k][1] /\ timeline[i][1] <= timeline[k][1]
      BY <3>1 DEF OfflineInv, PassInv, Seen
    <3> PICK x, y : x = timeline[i][1] /\ y = Seen
      OBVIOUS
    <3>3. x \in Nat /\ x <= y /\ y \in Nat /\ y <= now /\ now \in Nat
      BY <2>1, <2>2, <3>2
    <3> QED BY <3>3
  <2>4. ASSUME NEW tr, published' = Append(published, tr)
        PROVE  tr.from[1] = EndPhase(published)
    <3>1. /\ Len(published) \in Nat /\ Len(published') = Len(published) + 1
          /\ \A i \in 1..Len(published) : published'[i] = published[i]
          /\ published'[Len(published) + 1] = tr
      BY <2>2, <2>4, AppendSeq DEF Timed
    <3>2. Leads(published', <<phase, source>>')
      <4>1. published' \o pending' = published' /\ ChainInv'
        <5>1. ChainInv' /\ pending' = <<>>
          BY <1>4, <2>1 DEF PassInv, Collect, Drain
        <5> QED BY <5>1, ConcatEmptySeq DEF ChainInv, IsSeq
      <4> QED BY <4>1 DEF ChainInv
    <3> PICK k \in Nat : k = Len(published)
      BY <3>1
    <3>3. tr.from = IF k + 1 = 1 THEN Start ELSE published'[k].to
      <4>1. k + 1 \in 1..Len(published') /\ k + 1 - 1 = k
        BY <3>1
      <4> QED BY <3>1, <3>2, <4>1 DEF Leads
    <3>4. published = <<>> <=> k = 0
      BY <2>2, EmptySeq DEF Timed, IsSeq
    <3>5. CASE k = 0
      BY <3>3, <3>4, <3>5 DEF EndPhase, Start
    <3>6. CASE k # 0
      <4>1. k \in 1..k
        BY <3>6
      <4> QED BY <3>1, <3>3, <3>4, <3>6, <4>1 DEF EndPhase
    <3> QED BY <3>5, <3>6
  <2>5. /\ ScanOK(Scan(started, published), timeline)
        /\ ~Splits(published) => ScanExact(Scan(started, published), timeline)
    BY <1>1, <2>1 DEF OfflineInv
  <2>6. /\ ScanOK(Scan(started, published'), Append(timeline, <<now, phase>>))
        /\ ~Splits(published') => ScanExact(Scan(started, published'), Append(timeline, <<now, phase>>))
    <3> PICK tl, m, q, log, s, more : /\ tl = timeline /\ m = now /\ q = phase /\ log = published
                                      /\ s = started /\ more = published'
      OBVIOUS
    <3>1. /\ IsSeq(tl) /\ \A i \in 1..Len(tl) : tl[i][1] \in Nat
          /\ m \in Nat /\ \A i \in 1..Len(tl) : tl[i][1] <= m
          /\ Timed(log) /\ s \in Nat
          /\ tl = <<>> => s = m /\ log = <<>>
          /\ tl # <<>> => tl[Len(tl)][2] = EndPhase(log)
          /\ ScanOK(Scan(s, log), tl) /\ (~Splits(log) => ScanExact(Scan(s, log), tl))
          /\ EndPhase(more) = q
      BY <2>1, <2>2, <2>3, <2>5
    <3>2. \/ more = log
          \/ \E tr : more = Append(log, tr) /\ tr.ts = m /\ tr.from[1] = EndPhase(log)
      BY <2>1, <2>4
    <3>3. /\ ScanOK(Scan(s, more), Append(tl, <<m, q>>))
          /\ ~Splits(more) => ScanExact(Scan(s, more), Append(tl, <<m, q>>))
      BY <3>1, <3>2, ScanCollects
    <3> QED BY <3>3
  <2>7. /\ ScanOK(Scan(started, published), timeline)'
        /\ (~OfflineSplit => ScanExact(Scan(started, published), timeline))'
    <3> PICK n : n = started'
      OBVIOUS
    <3>1. n = started
      BY <2>1
    <3>2. /\ ScanOK(Scan(n, published'), timeline')
          /\ ~Splits(published') => ScanExact(Scan(n, published'), timeline')
      BY <2>1, <2>6, <3>1
    <3> QED BY <1>2, <3>2
  <2> QED BY <2>1, <2>7 DEF OfflineInv
<1>5. CASE UNCHANGED allVars
  <2>1. PassInv'
    BY <1>5, StepPass DEF OfflineInv
  <2>2. UNCHANGED <<pc, started, published, timeline>>
    BY <1>5 DEF allVars, vars, stateVars, collected
  <2>3. OfflineSplit' <=> OfflineSplit
    BY <1>1, <1>2, <2>2
  <2> QED BY <2>1, <2>2, <2>3 DEF OfflineInv
<1> QED BY <1>3, <1>4, <1>5 DEF CollectorNext

\* The lengths of the runs of OFFLINE frames, the last frame lasting to n.
RunEnd(tl, b, n) == IF b = Len(tl) THEN n ELSE tl[b + 1][1]
Runs(tl, n) ==
    {0} \cup {RunEnd(tl, r[2], n) - tl[r[1]][1] :
                 r \in {q \in (1..Len(tl)) \X (1..Len(tl)) : IsRun(tl, q[1], q[2])}}

\* What is counted when the recording ends at n.
Counted(acc, n) == IF acc.start = Null THEN acc.longest ELSE Longer(acc.longest, n - acc.start)

LEMMA CountedIs ==
    ASSUME NEW tl, IsSeq(tl), \A i \in 1..Len(tl) : tl[i][1] \in Nat, NEW n \in Nat,
           \A i, j \in 1..Len(tl) : i <= j => tl[i][1] <= tl[j][1],
           \A i \in 1..Len(tl) : tl[i][1] <= n, tl # <<>>,
           NEW acc, ScanOK(acc, tl)
    PROVE  /\ Counted(acc, n) <= Max(Runs(tl, n))
           /\ ScanExact(acc, tl) => Counted(acc, n) = Max(Runs(tl, n))
<1> DEFINE k == Len(tl)
           R == Runs(tl, n)
           v == Counted(acc, n)
<1>1. k \in Nat /\ k \in 1..k
  BY EmptySeq DEF IsSeq
<1>2. /\ acc \in Accs /\ acc.longest \in Nat /\ acc.start \in Int
  BY DEF ScanOK, Accs
<1>3. 0 \in R /\ \A a, b \in 1..k : IsRun(tl, a, b) => RunEnd(tl, b, n) - tl[a][1] \in R
  <2> SUFFICES ASSUME NEW a \in 1..k, NEW b \in 1..k, IsRun(tl, a, b)
               PROVE  RunEnd(tl, b, n) - tl[a][1] \in R
    BY DEF Runs
  <2> DEFINE r == <<a, b>>
  <2>1. r \in {q \in (1..k) \X (1..k) : IsRun(tl, q[1], q[2])} /\ r[1] = a /\ r[2] = b
    OBVIOUS
  <2> HIDE DEF r
  <2> QED BY <2>1 DEF Runs
<1>4. \A x \in R : x = 0 \/ \E a, b \in 1..k : IsRun(tl, a, b) /\ x = RunEnd(tl, b, n) - tl[a][1]
  BY DEF Runs
<1>5. ASSUME NEW a \in 1..k, NEW b \in 1..k, IsRun(tl, a, b)
      PROVE  RunEnd(tl, b, n) \in Nat /\ RunEnd(tl, b, n) - tl[a][1] \in 0..n
  <2> PICK x, y : x = RunEnd(tl, b, n) /\ y = tl[a][1]
    OBVIOUS
  <2>1. x \in Nat /\ y \in Nat /\ y <= x /\ x <= n
    <3>1. CASE b = k
      BY <3>1 DEF RunEnd
    <3>2. CASE b # k
      <4>1. b + 1 \in 1..k /\ a <= b + 1
        BY <1>1, <1>5, <3>2 DEF IsRun
      <4> QED BY <3>2, <4>1 DEF RunEnd
    <3> QED BY <3>1, <3>2
  <2>2. x - y \in 0..n
    BY <2>1
  <2> QED BY <2>1, <2>2
<1> HIDE DEF R
<1>6. R \in SUBSET (0..n) /\ R # {} /\ R \in SUBSET Int
  BY <1>3, <1>4, <1>5
<1>7. acc.longest \in R
  <2> SUFFICES ASSUME NEW a \in 1..k, NEW b \in 1..k, IsRun(tl, a, b), b < k,
                      acc.longest = tl[b + 1][1] - tl[a][1]
               PROVE  acc.longest \in R
    BY <1>3 DEF ScanOK
  <2>1. b # k
    BY <1>1
  <2> QED BY <1>3, <2>1 DEF RunEnd
<1>8. acc.start # Null => n - acc.start \in R /\ n - acc.start >= 0
  <2> SUFFICES ASSUME NEW a \in 1..k, IsRun(tl, a, k), tl[a][1] = acc.start
               PROVE  n - acc.start \in R /\ n - acc.start >= 0
    BY DEF ScanOK
  <2>1. RunEnd(tl, k, n) = n
    BY DEF RunEnd
  <2> QED BY <1>1, <1>2, <1>3, <2>1
<1>9. v \in R /\ v \in Int
  BY <1>6, <1>7, <1>8 DEF Counted, Longer
<1>10. v <= Max(R)
  <2> DEFINE S == 0..n
  <2>1. IsFiniteSet(S)
    BY FS_Interval
  <2>2. S \in SUBSET Int /\ R \in SUBSET S
    BY <1>6
  <2> HIDE DEF S
  <2>3. \A x \in R : x <= Max(R)
    BY <1>6, <2>1, <2>2, Greatest
  <2> QED BY <1>9, <2>3
<1>11. ASSUME ScanExact(acc, tl)
       PROVE  v = Max(R)
  <2>1. acc.longest <= v /\ (acc.start # Null => n - acc.start <= v)
    BY <1>2 DEF Counted, Longer
  <2>2. ASSUME NEW a \in 1..k, NEW b \in 1..k, IsRun(tl, a, b)
        PROVE  RunEnd(tl, b, n) - tl[a][1] <= v
    <3>1. Offline(tl, a)
      BY <1>1, <2>2 DEF IsRun
    <3>2. CASE acc.start # Null /\ acc.start <= tl[a][1]
      <4>1. RunEnd(tl, b, n) <= n /\ RunEnd(tl, b, n) \in Nat
        <5>1. CASE b = k
          BY <5>1 DEF RunEnd
        <5>2. CASE b # k
          <6>1. b + 1 \in 1..k
            BY <1>1, <5>2
          <6> QED BY <5>2, <6>1 DEF RunEnd
        <5> QED BY <5>1, <5>2
      <4> PICK x, y, z, w : /\ x = RunEnd(tl, b, n) /\ y = tl[a][1]
                            /\ z = v /\ w = acc.start
        OBVIOUS
      <4>2. x \in Nat /\ y \in Nat /\ z \in Int /\ w \in Int
        BY <1>2, <1>9, <4>1
      <4>3. x <= n /\ w <= y /\ n - w <= z
        BY <2>1, <3>2, <4>1
      <4>4. x - y <= z
        BY <4>2, <4>3
      <4> QED BY <4>4
    <3>3. CASE \A c \in 1..k : IsRun(tl, a, c) => c < k /\ tl[c + 1][1] - tl[a][1] <= acc.longest
      <4>1. b < k /\ tl[b + 1][1] - tl[a][1] <= acc.longest
        BY <2>2, <3>3
      <4>2. b + 1 \in 1..k /\ RunEnd(tl, b, n) = tl[b + 1][1]
        BY <1>1, <4>1 DEF RunEnd
      <4> PICK x, y, z, w : /\ x = RunEnd(tl, b, n) /\ y = tl[a][1]
                            /\ z = v /\ w = acc.longest
        OBVIOUS
      <4>3. x \in Nat /\ y \in Nat /\ z \in Int /\ w \in Int
        BY <1>2, <1>9, <4>2
      <4>4. x - y <= w /\ w <= z
        BY <2>1, <4>1, <4>2
      <4>5. x - y <= z
        BY <4>3, <4>4
      <4> QED BY <4>5
    <3> QED BY <1>11, <3>1, <3>2, <3>3 DEF ScanExact
  <2>3. 0 <= v
    BY <1>6, <1>9
  <2>4. \A x \in R : x <= v
    BY <1>4, <2>2, <2>3
  <2> HIDE DEF v
  <2> QED BY <1>6, <1>9, <2>4, MaxIs
<1> QED BY <1>10, <1>11 DEF R

\* Whatever the recording: the longest time offline that the report gives is never
\* more than the longest run of OFFLINE frames, and is that run's length unless a
\* change of the source of OFFLINE split it.
THEOREM OfflineIsNotOverstated == CollectorSpec => []OfflineNotOverstated
<1>1. CollectorInit => OfflineInv
  <2> SUFFICES ASSUME CollectorInit
               PROVE  OfflineInv
    OBVIOUS
  <2>1. PassInv /\ timeline = <<>> /\ published = <<>> /\ started = 0
    BY InitPass, CollectorStep DEF CollectorInit, Init
  <2> QED BY <2>1, ScanStarts DEF OfflineInv
<1>2. OfflineInv => OfflineNotOverstated
  <2> SUFFICES ASSUME OfflineInv, pc = "idle", published # <<>>
               PROVE  LongestOffline <= LongestRun /\ (~OfflineSplit => LongestOffline = LongestRun)
    BY DEF OfflineNotOverstated
  <2>1. /\ IsSeq(timeline) /\ Timed(published) /\ timeline # <<>> /\ pending = <<>>
        /\ now \in Nat /\ started \in Nat /\ timeline[Len(timeline)][1] = now
        /\ \A i \in 1..Len(timeline) : timeline[i][1] \in Nat
        /\ \A i, j \in 1..Len(timeline) : i <= j => timeline[i][1] <= timeline[j][1]
    BY DEF OfflineInv, PassInv, ChainInv, FrameInv, Timed, Seen
  <2>2. \A i \in 1..Len(timeline) : timeline[i][1] <= now
    <3>1. Len(timeline) \in 1..Len(timeline) /\ \A i \in 1..Len(timeline) : i <= Len(timeline)
      BY <2>1, EmptySeq DEF IsSeq
    <3> QED BY <2>1, <3>1
  <2>3. SegmentPhase(0) = "OFFLINE"
    <3>1. published \o <<>> = published /\ 1 \in 1..Len(published)
      BY <2>1, EmptySeq, ConcatEmptySeq DEF IsSeq, Timed
    <3>2. Leads(published, <<phase, source>>)
      BY <2>1, <3>1 DEF OfflineInv, PassInv, ChainInv
    <3> QED BY <3>1, <3>2 DEF Leads, Start, SegmentPhase
  <2>4. LongestOffline = Counted(Scan(started, published), now)
    <3>1. FoldLeft(OfflineStep, From(started), published) = Scan(started, published)
      BY <2>1, ScanIs
    <3> QED BY <2>3, <3>1 DEF LongestOffline, Counted, From
  <2>5. LongestRun = Max(Runs(timeline, now))
    <3>1. \A q \in (1..Len(timeline)) \X (1..Len(timeline)) :
            IsRun(timeline, q[1], q[2]) <=>
              q[1] <= q[2] /\ \A i \in q[1]..q[2] : timeline[i][2] = "OFFLINE"
      BY DEF IsRun, Offline
    <3>2. \A i : RunEnd(timeline, i, now) = FrameEnd(i)
      BY DEF RunEnd, FrameEnd
    <3> QED BY <3>1, <3>2 DEF LongestRun, Runs
  <2>6. /\ ScanOK(Scan(started, published), timeline)
        /\ ~OfflineSplit => ScanExact(Scan(started, published), timeline)
    BY DEF OfflineInv
  <2> PICK tl, n, acc : tl = timeline /\ n = now /\ acc = Scan(started, published)
    OBVIOUS
  <2>7. /\ IsSeq(tl) /\ \A i \in 1..Len(tl) : tl[i][1] \in Nat
        /\ n \in Nat
        /\ \A i, j \in 1..Len(tl) : i <= j => tl[i][1] <= tl[j][1]
        /\ \A i \in 1..Len(tl) : tl[i][1] <= n
        /\ tl # <<>> /\ ScanOK(acc, tl) /\ (~OfflineSplit => ScanExact(acc, tl))
    BY <2>1, <2>2, <2>6
  <2>8. /\ Counted(acc, n) <= Max(Runs(tl, n))
        /\ ScanExact(acc, tl) => Counted(acc, n) = Max(Runs(tl, n))
    BY <2>7, CountedIs
  <2> QED BY <2>4, <2>5, <2>7, <2>8
<1>3. OfflineInv /\ [CollectorNext]_allVars => OfflineInv'
  BY StepOffline
<1> QED BY <1>1, <1>2, <1>3, PTL DEF CollectorSpec
=============================================================================
