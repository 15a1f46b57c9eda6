----------------------------- MODULE AlertLogProofs -----------------------------
(***************************************************************************)
(* What follows from AlertLog alone, for every rule table: the order of    *)
(* the lines.  AlertCoordinatorProofs carries it over to the coordinator.  *)
(***************************************************************************)
EXTENDS AlertLog, SequenceTheorems, TLAPS

Line == [rule : Rules, ts : Nat, frame : Nat, boot : Nat, gate : Gates, sent : BOOLEAN]

LogType ==
    /\ frame \in Nat /\ now \in Nat /\ boot \in Nat
    /\ owed \subseteq Rules
    /\ lines \in Seq(Line)

\* No line belongs to a later frame, and none of the frame in hand belongs after a
\* verdict that is still owed.
OwedComeAfter ==
    \A i \in 1..Len(lines) :
        /\ lines[i].frame <= frame
        /\ busy /\ lines[i].frame = frame => \A q \in owed : Before(lines[i].rule, q)

OrderInv == LogType /\ OwedComeAfter /\ Ordered

LEMMA LineType ==
    ASSUME LogType, NEW i \in 1..Len(lines)
    PROVE  lines[i].frame \in Nat /\ lines[i].rule \in Rules
<1>1. \A s \in Seq(Line) : \A k \in 1..Len(s) : s[k] \in Line
  BY ElementOfSeq
<1>2. lines[i] \in Line
  BY <1>1 DEF LogType
<1> QED BY <1>2 DEF Line

\* Steps that append no line: the frame stays and nothing new is owed, or no frame
\* is in hand afterwards.
LEMMA NoLineKeepsOrder ==
    ASSUME OrderInv, LogType', lines' = lines,
           \/ frame' = frame /\ owed' \subseteq owed /\ (busy' => busy)
           \/ frame' = frame /\ ~busy'
           \/ frame' = frame + 1
    PROVE  OrderInv'
<1>1. Ordered'
  BY DEF OrderInv, Ordered, Before
<1>2. ASSUME NEW i \in 1..Len(lines')
      PROVE  /\ lines'[i].frame <= frame'
             /\ busy' /\ lines'[i].frame = frame' => \A q \in owed' : Before(lines[i].rule, q)
  <2>1. lines[i].frame \in Nat /\ frame \in Nat /\ lines[i].frame <= frame
    BY LineType DEF OrderInv, LogType, OwedComeAfter
  <2>2. busy /\ lines[i].frame = frame => \A q \in owed : Before(lines[i].rule, q)
    BY DEF OrderInv, OwedComeAfter
  <2> HIDE DEF Before
  <2> QED BY <2>1, <2>2
<1>3. OwedComeAfter'
  BY <1>2 DEF OwedComeAfter, Before
<1> QED BY <1>1, <1>3 DEF OrderInv

LEMMA LogKeepsOrder ==
    ASSUME OrderInv, NEW r \in Rules, NEW gate \in Gates, NEW sent \in BOOLEAN, Log(r, gate, sent)
    PROVE  OrderInv'
<1> DEFINE line == [rule |-> r, ts |-> now, frame |-> frame, boot |-> boot, gate |-> gate, sent |-> sent]
<1> DEFINE n == Len(lines)
<1>1. LogType
  BY DEF OrderInv
<1>2. line \in Line /\ line.rule = r /\ line.frame = frame
  BY <1>1 DEF Line, LogType
<1>3. /\ lines' = Append(lines, line) /\ frame' = frame /\ busy /\ busy' = busy /\ owed' = owed \ {r}
      /\ r \in owed /\ \A q \in owed \ {r} : Before(r, q)
  BY DEF Log
<1> HIDE DEF line
<1>4. /\ n \in Nat /\ Len(lines') = n + 1 /\ lines'[n + 1] = line
      /\ \A i \in 1..n : lines'[i] = lines[i]
      /\ lines' \in Seq(Line)
  BY <1>1, <1>2, <1>3, AppendProperties DEF LogType
<1>5. \A i \in 1..Len(lines') : i \in 1..n \/ i = n + 1
  BY <1>4
<1>6. LogType'
  BY <1>1, <1>3, <1>4 DEF LogType, Log
<1>7. OwedComeAfter'
  <2> SUFFICES ASSUME NEW i \in 1..Len(lines')
               PROVE  /\ lines'[i].frame <= frame
                      /\ lines'[i].frame = frame => \A q \in owed' : Before(lines'[i].rule, q)
    BY <1>3 DEF OwedComeAfter, Before
  <2>1. CASE i \in 1..n
    BY <1>3, <1>4, <2>1 DEF OrderInv, OwedComeAfter
  <2>2. CASE i = n + 1
    BY <1>1, <1>2, <1>3, <1>4, <2>2 DEF LogType
  <2> QED BY <1>5, <2>1, <2>2
<1>8. Ordered'
  <2> SUFFICES ASSUME NEW i \in 1..Len(lines'), NEW j \in 1..Len(lines'), i < j
               PROVE  \/ lines'[i].frame < lines'[j].frame
                      \/ lines'[i].frame = lines'[j].frame /\ Before(lines'[i].rule, lines'[j].rule)
    BY DEF Ordered, Before
  <2>1. i \in 1..n
    BY <1>4, <1>5
  <2>2. CASE j \in 1..n
    BY <1>4, <2>1, <2>2 DEF OrderInv, Ordered
  <2>3. CASE j = n + 1
    <3>1. lines[i].frame \in Nat /\ frame \in Nat /\ lines[i].frame <= frame
      BY <1>1, <2>1, LineType DEF OrderInv, OwedComeAfter, LogType
    <3>2. lines[i].frame = frame => Before(lines[i].rule, r)
      BY <1>3, <2>1 DEF OrderInv, OwedComeAfter
    <3> HIDE DEF Before
    <3> QED BY <1>2, <1>4, <2>1, <2>3, <3>1, <3>2
  <2> QED BY <1>5, <2>2, <2>3
<1> QED BY <1>6, <1>7, <1>8 DEF OrderInv

\* Read from top to bottom, alerts.jsonl goes from frame to frame and inside a
\* frame from the severest verdict down, each verdict once.
THEOREM LogOrdered == Spec => []Ordered
<1>1. Init => OrderInv
  BY DEF Init, OrderInv, LogType, OwedComeAfter, Ordered
<1>2. OrderInv /\ [Next]_vars => OrderInv'
  <2> SUFFICES ASSUME OrderInv, [Next]_vars
               PROVE  OrderInv'
    OBVIOUS
  <2> USE DEF OrderInv, LogType
  <2>1. ASSUME NEW batch \in SUBSET Rules, Begin(batch)
        PROVE  OrderInv'
    <3>1. LogType' /\ lines' = lines /\ frame' = frame + 1
      BY <2>1 DEF Begin
    <3> QED BY <3>1, NoLineKeepsOrder
  <2>2. ASSUME NEW r \in Rules, NEW gate \in Gates, NEW sent \in BOOLEAN, Log(r, gate, sent)
        PROVE  OrderInv'
    BY <2>2, LogKeepsOrder
  <2>3. CASE Publish
    <3>1. LogType' /\ lines' = lines /\ frame' = frame /\ ~busy'
      BY <2>3 DEF Publish
    <3> QED BY <3>1, NoLineKeepsOrder
  <2>4. CASE Stop
    <3>1. LogType' /\ lines' = lines /\ frame' = frame /\ ~busy'
      BY <2>4 DEF Stop
    <3> QED BY <3>1, NoLineKeepsOrder
  <2>5. CASE Restart
    <3>1. LogType' /\ lines' = lines /\ frame' = frame /\ ~busy'
      BY <2>5 DEF Restart
    <3> QED BY <3>1, NoLineKeepsOrder
  <2>6. CASE UNCHANGED vars
    <3>1. LogType' /\ lines' = lines /\ frame' = frame /\ owed' = owed /\ busy' = busy
      BY <2>6 DEF vars
    <3> QED BY <3>1, NoLineKeepsOrder
  <2> QED
    BY <2>1, <2>2, <2>3, <2>4, <2>5, <2>6 DEF Next
<1>3. OrderInv => Ordered
  BY DEF OrderInv
<1> QED
  BY <1>1, <1>2, <1>3, PTL DEF Spec
=============================================================================
