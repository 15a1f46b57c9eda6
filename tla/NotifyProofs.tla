----------------------------- MODULE NotifyProofs -----------------------------
(***************************************************************************)
(* Proofs about Notify for any robots, endpoints, filters, retries and     *)
(* routing, any number of dispatches, and every interleaving of the two    *)
(* channels, the dispatch and a stop.                                      *)
(***************************************************************************)
EXTENDS Notify, SequenceTheorems, FiniteSetTheorems, TLAPS

At(k, j) == TargetsOf(k)[j]
Limit(t) == IF t \in ToSet(Robots) THEN 1 ELSE Retry[t].max_attempts
Count(t, i) == Cardinality(PostsOf(t, i))

\* Nothing was sent to t for the dispatch under way.
Untouched(t) == PostsOf(t, Number) = {}

-----------------------------------------------------------------------------
(* The configuration.                                                      *)

LEMMA Positions ==
    ASSUME NEW k \in Attached, NEW j \in DOMAIN TargetsOf(k)
    PROVE  /\ j \in Nat /\ At(k, j) \in Targets
           /\ At(k, j) \in ToSet(Endpoints) <=> k = "webhook"
           /\ At(k, j) \in ToSet(Robots) <=> k = "dingtalk"
           /\ MaxAttempts(k, At(k, j)) = Limit(At(k, j)) /\ Limit(At(k, j)) \in Nat \ {0}
           /\ \A q \in Attached : \A i \in DOMAIN TargetsOf(q) :
                 At(q, i) = At(k, j) => q = k /\ i = j
<1>1. /\ Robots \in Seq(ToSet(Robots)) /\ IsInjective(Robots)
      /\ Endpoints \in Seq(ToSet(Endpoints)) /\ IsInjective(Endpoints)
      /\ ToSet(Robots) \cap ToSet(Endpoints) = {} /\ Attached \subseteq {"webhook", "dingtalk"}
      /\ \A e \in ToSet(Endpoints) : Retry[e].max_attempts \in Nat \ {0}
  BY NotifyAssumption
<1>2. /\ \A i \in DOMAIN Robots : i \in Nat /\ Robots[i] \in ToSet(Robots)
      /\ \A i \in DOMAIN Endpoints : i \in Nat /\ Endpoints[i] \in ToSet(Endpoints)
  <2>1. \A S : \A s \in Seq(S) : \A i \in DOMAIN s : i \in Nat
    OBVIOUS
  <2> QED BY <1>1, <2>1 DEF ToSet
<1>3. \A q \in Attached : \/ q = "webhook" /\ TargetsOf(q) = Endpoints
                          \/ q = "dingtalk" /\ TargetsOf(q) = Robots
  BY <1>1 DEF TargetsOf
<1> HIDE DEF TargetsOf
<1>4. \/ k = "webhook" /\ j \in Nat /\ At(k, j) \in ToSet(Endpoints) /\ At(k, j) \notin ToSet(Robots)
      \/ k = "dingtalk" /\ j \in Nat /\ At(k, j) \in ToSet(Robots) /\ At(k, j) \notin ToSet(Endpoints)
  BY <1>1, <1>2, <1>3 DEF At
<1>5. At(k, j) \in Targets
  BY <1>4 DEF Targets
<1>6. MaxAttempts(k, At(k, j)) = Limit(At(k, j)) /\ Limit(At(k, j)) \in Nat \ {0}
  BY <1>1, <1>4 DEF MaxAttempts, Limit
<1>7. ASSUME NEW q \in Attached, NEW i \in DOMAIN TargetsOf(q), At(q, i) = At(k, j)
      PROVE  q = k /\ i = j
  <2>1. q = k
    BY <1>1, <1>2, <1>3, <1>4, <1>7 DEF At
  <2> QED BY <1>1, <1>3, <1>7, <2>1 DEF At, IsInjective
<1> QED BY <1>4, <1>5, <1>6, <1>7

LEMMA Channels ==
    ASSUME NEW a \in Alerts
    PROVE  ChannelsFor(a) \in Seq(Kinds) /\ IsInjective(ChannelsFor(a))
BY NotifyAssumption DEF ChannelsFor

-----------------------------------------------------------------------------
(* What a post changes.                                                    *)

IsSeq(s) == s \in Seq(ToSet(s))
Outcome == {"ok", "failed", "odd"}

\* No post is ahead of the dispatch under way.
PostsOK ==
    /\ IsSeq(returned)
    /\ posts \in [Targets -> Seq(Nat \X Outcome)]
    /\ \A t \in Targets : \A n \in DOMAIN posts[t] : posts[t][n][1] <= Number

LEMMA NumberType ==
    ASSUME IsSeq(returned)
    PROVE  Number \in Nat \ {0} /\ Len(returned) \in Nat /\ Number = Len(returned) + 1
BY DEF IsSeq, Number

LEMMA PostsFinite ==
    ASSUME PostsOK, NEW t \in Targets, NEW i
    PROVE  /\ IsFiniteSet(PostsOf(t, i)) /\ Count(t, i) \in Nat
           /\ Count(t, i) = 0 <=> PostsOf(t, i) = {}
<1>1. posts[t] \in Seq(Nat \X Outcome)
  BY DEF PostsOK
<1>2. Len(posts[t]) \in Nat /\ DOMAIN posts[t] = 1..Len(posts[t])
  BY <1>1
<1>3. IsFiniteSet(1..Len(posts[t])) /\ PostsOf(t, i) \subseteq 1..Len(posts[t])
  BY <1>2, FS_Interval DEF PostsOf
<1>4. IsFiniteSet(PostsOf(t, i))
  BY <1>3, FS_Subset
<1> QED BY <1>4, FS_CardinalityType, FS_EmptySet DEF Count

LEMMA PostEffect ==
    ASSUME PostsOK, NEW i, i = Number, NEW t \in Targets, NEW o \in Outcome,
           posts' = [posts EXCEPT ![t] = Append(@, <<i, o>>)]
    PROVE  /\ posts' \in [Targets -> Seq(Nat \X Outcome)]
           /\ Len(posts[t]) \in Nat /\ DOMAIN posts[t] = 1..Len(posts[t])
           /\ DOMAIN posts'[t] = 1..(Len(posts[t]) + 1)
           /\ \A n \in DOMAIN posts[t] : posts'[t][n] = posts[t][n]
           /\ posts'[t][Len(posts[t]) + 1] = <<i, o>>
           /\ \A u \in Targets : u # t => posts'[u] = posts[u]
           /\ \A u \in Targets : \A n : u # t \/ n # i =>
                 /\ PostsOf(u, n)' = PostsOf(u, n)
                 /\ Took(u, n)' <=> Took(u, n)
                 /\ Raising(u, n)' <=> Raising(u, n)
           /\ Count(t, i)' = Count(t, i) + 1
           /\ Took(t, i)' <=> Took(t, i) \/ o = "ok"
           /\ Raising(t, i)' <=> Raising(t, i) \/ o = "odd"
<1> DEFINE q == posts[t]
           new == Len(q) + 1
<1>1. q \in Seq(Nat \X Outcome) /\ i \in Nat /\ <<i, o>> \in Nat \X Outcome
  BY NumberType DEF PostsOK
<1>2. /\ Len(q) \in Nat /\ DOMAIN q = 1..Len(q)
      /\ Append(q, <<i, o>>) \in Seq(Nat \X Outcome) /\ Len(Append(q, <<i, o>>)) = new
      /\ DOMAIN Append(q, <<i, o>>) = 1..new
      /\ \A n \in 1..Len(q) : Append(q, <<i, o>>)[n] = q[n]
      /\ Append(q, <<i, o>>)[new] = <<i, o>>
  <2>1. /\ Append(q, <<i, o>>) \in Seq(Nat \X Outcome) /\ Len(Append(q, <<i, o>>)) = Len(q) + 1
        /\ \A n \in 1..Len(q) : Append(q, <<i, o>>)[n] = q[n]
        /\ Append(q, <<i, o>>)[Len(q) + 1] = <<i, o>>
    BY <1>1, AppendProperties
  <2>2. \A s \in Seq(Nat \X Outcome) : Len(s) \in Nat /\ DOMAIN s = 1..Len(s)
    OBVIOUS
  <2> QED BY <1>1, <2>1, <2>2
<1>3. posts'[t] = Append(q, <<i, o>>) /\ \A u \in Targets : u # t => posts'[u] = posts[u]
  BY DEF PostsOK
<1>4. posts' \in [Targets -> Seq(Nat \X Outcome)]
  BY <1>2, <1>3 DEF PostsOK
<1>5. /\ DOMAIN posts'[t] = 1..new /\ posts'[t][new] = <<i, o>>
      /\ \A n \in 1..Len(q) : posts'[t][n] = q[n]
      /\ \A n \in 1..new : n \in 1..Len(q) \/ n = new
      /\ new \notin 1..Len(q) /\ new \in 1..new
      /\ \A n \in 1..Len(q) : n \in 1..new
  BY <1>2, <1>3
<1> HIDE DEF new
<1>6. \A n : n # i => PostsOf(t, n)' = PostsOf(t, n)
  BY <1>2, <1>5 DEF PostsOf
<1>7. PostsOf(t, i)' = PostsOf(t, i) \cup {new} /\ new \notin PostsOf(t, i)
  BY <1>2, <1>5 DEF PostsOf
<1>8. \A n : PostsOf(t, n) \subseteq 1..Len(q)
  BY <1>2 DEF PostsOf
<1>9. \A n : n # i => (Took(t, n)' <=> Took(t, n)) /\ (Raising(t, n)' <=> Raising(t, n))
  BY <1>5, <1>6, <1>8 DEF Took, Raising
<1>10. Took(t, i)' <=> Took(t, i) \/ o = "ok"
  BY <1>5, <1>7, <1>8 DEF Took
<1>11. Raising(t, i)' <=> Raising(t, i) \/ o = "odd"
  BY <1>5, <1>7, <1>8 DEF Raising
<1>12. Count(t, i)' = Count(t, i) + 1
  BY <1>7, PostsFinite, FS_AddElement DEF Count
<1>13. \A u \in Targets : \A n : u # t =>
          /\ PostsOf(u, n)' = PostsOf(u, n)
          /\ Took(u, n)' <=> Took(u, n)
          /\ Raising(u, n)' <=> Raising(u, n)
  BY <1>3 DEF PostsOf, Took, Raising
<1> QED BY <1>2, <1>3, <1>4, <1>5, <1>6, <1>9, <1>10, <1>11, <1>12, <1>13 DEF new

-----------------------------------------------------------------------------
(* The inductive invariant.                                                *)

TaskType == [st : {"idle", "post", "sleep", "done", "raised", "cancelled"},
             todo : SUBSET Nat, attempt : Nat, sent : SUBSET Targets, failed : SUBSET Targets]

\* What is known of the target at position j, by where the task of channel k is.
TargetOK(k, j) ==
    LET c == chan[k]
        t == At(k, j)
    IN
    /\ ~(j \in Matching(k, alert)) => Untouched(t)
    /\ j \in Matching(k, alert) \ c.todo =>
         /\ ~Raising(t, Number)
         /\ t \in c.sent <=> Took(t, Number)
         /\ t \in c.failed <=> ~Took(t, Number)
    /\ j \in c.todo =>
         /\ ~Took(t, Number)
         /\ Raising(t, Number) => c.st = "raised"
         /\ First(c.todo, j) \/ Untouched(t)
    /\ First(c.todo, j) =>
         /\ c.st = "post" => Count(t, Number) = c.attempt - 1 /\ c.attempt \in 1..Limit(t)
         /\ c.st = "sleep" => Count(t, Number) = c.attempt /\ c.attempt \in 1..(Limit(t) - 1)
         /\ c.st = "cancelled" => Count(t, Number) < Limit(t)

\* A task that is not at work was not started, or its result was taken; one that
\* is accounts for every target of its channel.
TaskOK(k) ==
    LET c == chan[k] IN
    /\ c.st = "idle" =>
         IF k \in DOMAIN results THEN TellsTruth(k, alert, results[k], Number)
         ELSE \A j \in DOMAIN TargetsOf(k) : Untouched(At(k, j))
    /\ c.st # "idle" =>
         /\ k \notin DOMAIN results
         /\ c.todo \subseteq Matching(k, alert)
         /\ c.sent \cup c.failed \subseteq {At(k, j) : j \in Matching(k, alert) \ c.todo}
         /\ c.st = "done" <=> c.todo = {}
         /\ c.st = "raised" => \E j \in c.todo : Raising(At(k, j), Number)
         /\ \A j \in DOMAIN TargetsOf(k) : TargetOK(k, j)

\* The dispatch awaits its tasks in order, each once.
FlowOK ==
    /\ pc \in {"idle", "dispatching", "closing", "closed"}
    /\ pc = "idle" => tasks = {} /\ results = <<>> /\ \A k \in Attached : chan[k].st = "idle"
    /\ pc = "dispatching" =>
         /\ alert \in Alerts /\ tasks # {} /\ tasks \subseteq Routed(alert)
         /\ DOMAIN results = {ChannelsFor(alert)[i] : i \in Routed(alert) \ tasks}
         /\ \A k \in Attached : chan[k].st # "idle" <=> \E i \in tasks : ChannelsFor(alert)[i] = k

DeadOK ==
    /\ deadLetters \in Seq(Targets \X Nat)
    /\ \A d \in ToSet(deadLetters) : d[1] \in ToSet(Endpoints) /\ d[2] <= Number
    /\ DeadLetterIffExhausted

ChanOK == chan \in [Attached -> TaskType] /\ \A k \in Attached : TaskOK(k)

NotifyInv == PostsOK /\ ChanOK /\ FlowOK /\ DeadOK /\ RetryDiscipline /\ ReportTruthful

LEMMA InitNotify == Init => NotifyInv
<1> SUFFICES ASSUME Init PROVE NotifyInv
  OBVIOUS
<1>1. /\ <<>> \in Seq(Nat \X Outcome) /\ <<>> \in Seq(Targets \X Nat) /\ IsSeq(<<>>)
      /\ DOMAIN <<>> = {} /\ Len(<<>>) = 0 /\ ToSet(<<>>) = {}
  BY EmptySeq DEF IsSeq, ToSet
<1>2. Number = 1 /\ \A t \in Targets : DOMAIN posts[t] = {} /\ Len(posts[t]) = 0
  BY <1>1 DEF Init, Number
<1>3. \A t \in Targets : \A i : PostsOf(t, i) = {} /\ Count(t, i) = 0
  BY <1>2, FS_EmptySet DEF PostsOf, Count
<1>4. PostsOK
  BY <1>1, <1>2 DEF Init, PostsOK
<1>5. ChanOK
  <2>1. Idle \in TaskType /\ Idle.st = "idle"
    BY DEF Idle, TaskType
  <2>2. \A k \in Attached : TaskOK(k)
    BY <1>1, <1>3, <2>1, Positions DEF Init, TaskOK, Untouched
  <2> QED BY <2>1, <2>2 DEF Init, ChanOK
<1>6. FlowOK
  BY DEF Init, FlowOK, Idle
<1>7. RetryDiscipline
  <2>1. \A t \in Targets : 0 <= (IF t \in ToSet(Robots) THEN 1 ELSE Retry[t].max_attempts)
    BY NotifyAssumption DEF Targets
  <2> QED BY <1>2, <1>3, <2>1 DEF RetryDiscipline, Count
<1>8. DeadOK
  <2>1. ASSUME NEW e \in ToSet(Endpoints), NEW i
        PROVE  Cardinality(PostsOf(e, i)) # Retry[e].max_attempts
    BY <1>3, NotifyAssumption DEF Count, Targets
  <2> QED BY <1>1, <2>1 DEF Init, DeadOK, DeadLetterIffExhausted, IsInjective
<1>9. ReportTruthful
  BY <1>1 DEF Init, ReportTruthful
<1> QED BY <1>4, <1>5, <1>6, <1>7, <1>8, <1>9 DEF NotifyInv

-----------------------------------------------------------------------------
(* The steps of a channel.                                                 *)

LEMMA TruthStays ==
    ASSUME NEW k, NEW a, NEW r, NEW i,
           \A j \in DOMAIN TargetsOf(k) : /\ Took(At(k, j), i)' <=> Took(At(k, j), i)
                                          /\ Raising(At(k, j), i)' <=> Raising(At(k, j), i)
    PROVE  TellsTruth(k, a, r, i)' <=> TellsTruth(k, a, r, i)
<1> DEFINE want == {TargetsOf(k)[j] : j \in Matching(k, a)}
<1>1. \A t \in want : (Took(t, i)' <=> Took(t, i)) /\ (Raising(t, i)' <=> Raising(t, i))
  BY DEF Matching, At
<1> HIDE DEF want
<1>2. /\ (\E t \in want : Took(t, i)') <=> \E t \in want : Took(t, i)
      /\ (\E t \in want : Raising(t, i)') <=> \E t \in want : Raising(t, i)
      /\ {t \in want : Took(t, i)'} = {t \in want : Took(t, i)}
  BY <1>1
<1> QED BY <1>2, Zenon DEF TellsTruth, want

\* The target a channel posts to, as it is before the post.
LEMMA AtWork ==
    ASSUME NotifyInv, NEW k \in Attached, NEW j \in chan[k].todo, NEW o, Post(k, j, o)
    PROVE  LET t == At(k, j)
               c == chan[k]
           IN
           /\ c \in TaskType /\ c.st = "post" /\ First(c.todo, j)
           /\ j \in DOMAIN TargetsOf(k) /\ j \in Matching(k, alert) /\ j \in Nat
           /\ t \in Targets /\ o \in Outcome /\ k \notin DOMAIN results
           /\ Count(t, Number) = c.attempt - 1 /\ c.attempt \in 1..Limit(t)
           /\ ~Took(t, Number) /\ ~Raising(t, Number)
           /\ posts' = [posts EXCEPT ![t] = Append(@, <<Number, o>>)]
           /\ UNCHANGED <<pc, alert, tasks, results, returned>>
<1>1. chan[k] \in TaskType /\ TaskOK(k) /\ chan[k].st = "post" /\ First(chan[k].todo, j)
  BY DEF NotifyInv, ChanOK, Post
<1>2. j \in Matching(k, alert) /\ k \notin DOMAIN results
  BY <1>1 DEF TaskOK
<1>3. j \in DOMAIN TargetsOf(k) /\ TargetOK(k, j)
  BY <1>1, <1>2 DEF TaskOK, Matching
<1>4. j \in Nat /\ At(k, j) \in Targets
  BY <1>3, Positions
<1>5. o \in Outcome
  BY DEF Post, Outcomes, Outcome
<1>6. /\ Count(At(k, j), Number) = chan[k].attempt - 1 /\ chan[k].attempt \in 1..Limit(At(k, j))
      /\ ~Took(At(k, j), Number) /\ ~Raising(At(k, j), Number)
  BY <1>1, <1>3 DEF TargetOK
<1> QED BY <1>1, <1>2, <1>3, <1>4, <1>5, <1>6 DEF Post, At

LEMMA PostKeepsHistory ==
    ASSUME NotifyInv, NEW k \in Attached, NEW j \in chan[k].todo, NEW o, Post(k, j, o)
    PROVE  PostsOK' /\ RetryDiscipline' /\ ReportTruthful'
<1> DEFINE t == At(k, j)
<1>1. /\ t \in Targets /\ o \in Outcome /\ returned' = returned /\ PostsOK
      /\ Count(t, Number) = chan[k].attempt - 1 /\ chan[k].attempt \in 1..Limit(t)
      /\ ~Took(t, Number) /\ ~Raising(t, Number)
      /\ j \in DOMAIN TargetsOf(k)
  BY AtWork DEF NotifyInv
<1> PICK b : b = Number
  OBVIOUS
<1>2. posts' = [posts EXCEPT ![t] = Append(@, <<b, o>>)] /\ Number' = b /\ b \in Nat \ {0}
  BY <1>1, AtWork, NumberType DEF Number, PostsOK
<1> HIDE DEF t
<1>3. /\ posts' \in [Targets -> Seq(Nat \X Outcome)]
      /\ Len(posts[t]) \in Nat /\ DOMAIN posts[t] = 1..Len(posts[t])
      /\ DOMAIN posts'[t] = 1..(Len(posts[t]) + 1)
      /\ \A n \in DOMAIN posts[t] : posts'[t][n] = posts[t][n]
      /\ posts'[t][Len(posts[t]) + 1] = <<b, o>>
      /\ \A u \in Targets : u # t => posts'[u] = posts[u]
      /\ \A u \in Targets : \A n : u # t \/ n # b =>
            /\ PostsOf(u, n)' = PostsOf(u, n)
            /\ Took(u, n)' <=> Took(u, n)
            /\ Raising(u, n)' <=> Raising(u, n)
      /\ Count(t, b)' = Count(t, b) + 1
  BY <1>1, <1>2, PostEffect
<1>4. PostsOK'
  <2>1. \A u \in Targets : \A n \in DOMAIN posts'[u] : posts'[u][n][1] <= b
    <3> SUFFICES ASSUME NEW u \in Targets, NEW n \in DOMAIN posts'[u]
                 PROVE  posts'[u][n][1] <= b
      OBVIOUS
    <3>1. CASE u # t
      BY <1>1, <1>3, <3>1 DEF PostsOK
    <3>2. CASE u = t /\ n \in DOMAIN posts[t]
      BY <1>1, <1>3, <3>2 DEF PostsOK
    <3>3. CASE u = t /\ n = Len(posts[t]) + 1
      BY <1>2, <1>3, <3>3
    <3> QED BY <1>3, <3>1, <3>2, <3>3
  <2> QED BY <1>1, <1>2, <1>3, <2>1 DEF PostsOK
<1>5. RetryDiscipline'
  <2>1. ASSUME NEW u \in Targets, NEW m \in 1..Len(posts'[u]), NEW n \in 1..Len(posts'[u]), m < n
        PROVE  /\ posts'[u][m][1] <= posts'[u][n][1]
               /\ posts'[u][m][1] = posts'[u][n][1] => posts'[u][m][2] \notin {"ok", "odd"}
    <3>1. CASE u # t
      BY <1>3, <2>1, <3>1 DEF NotifyInv, RetryDiscipline
    <3>2. CASE u = t
      <4>1. Len(posts'[t]) = Len(posts[t]) + 1
        BY <1>1, <1>3
      <4>2. CASE n <= Len(posts[t])
        <5>1. m \in DOMAIN posts[t] /\ n \in DOMAIN posts[t]
          BY <1>3, <2>1, <3>2, <4>1, <4>2
        <5>2. posts'[u][m] = posts[t][m] /\ posts'[u][n] = posts[t][n]
          BY <1>3, <3>2, <5>1
        <5>3. /\ posts[t][m][1] <= posts[t][n][1]
              /\ posts[t][m][1] = posts[t][n][1] => posts[t][m][2] \notin {"ok", "odd"}
          BY <1>1, <1>3, <2>1, <5>1 DEF NotifyInv, RetryDiscipline
        <5> QED BY <5>2, <5>3, Zenon
      <4>3. CASE n = Len(posts[t]) + 1
        <5>1. m \in DOMAIN posts[t] /\ posts'[u][m] = posts[t][m] /\ posts'[u][n] = <<b, o>>
          BY <1>3, <2>1, <3>2, <4>1, <4>3
        <5>2. posts[t][m][1] <= b
          BY <1>1, <5>1 DEF PostsOK
        <5>3. posts[t][m][1] = b => posts[t][m][2] \notin {"ok", "odd"}
          BY <1>1, <5>1 DEF Took, Raising, PostsOf
        <5>4. posts'[u][n][1] = b
          BY <5>1
        <5> QED BY <5>1, <5>2, <5>3, <5>4, Zenon
      <4> QED BY <1>3, <2>1, <3>2, <4>1, <4>2, <4>3
    <3> QED BY <3>1, <3>2
  <2>2. ASSUME NEW u \in Targets, NEW i \in 1..b
        PROVE  Count(u, i)' <= Limit(u)
    <3>1. CASE u # t \/ i # b
      BY <1>1, <1>3, <3>1 DEF NotifyInv, RetryDiscipline, Count, Limit
    <3>2. CASE u = t /\ i = b
      <4>1. Limit(t) \in Nat
        BY <1>1, Positions DEF t
      <4> QED BY <1>1, <1>3, <3>2, <4>1
    <3> QED BY <3>1, <3>2
  <2> QED BY <1>2, <2>1, <2>2 DEF RetryDiscipline, Count, Limit
<1>6. ReportTruthful'
  <2> SUFFICES ASSUME NEW i \in 1..Len(returned)
               PROVE  /\ DOMAIN returned[i].results = ToSet(ChannelsFor(returned[i].alert)) \cap Attached
                      /\ \A q \in DOMAIN returned[i].results :
                            TellsTruth(q, returned[i].alert, returned[i].results[q], i)'
    BY <1>1 DEF ReportTruthful
  <2>1. i # b
    BY <1>1, NumberType DEF PostsOK
  <2> PICK a, rs : a = returned[i].alert /\ rs = returned[i].results
    OBVIOUS
  <2>2. DOMAIN rs = ToSet(ChannelsFor(a)) \cap Attached /\ \A q \in DOMAIN rs : TellsTruth(q, a, rs[q], i)
    BY DEF NotifyInv, ReportTruthful
  <2>3. ASSUME NEW q \in Attached, NEW n \in DOMAIN TargetsOf(q)
        PROVE  /\ Took(At(q, n), i)' <=> Took(At(q, n), i)
               /\ Raising(At(q, n), i)' <=> Raising(At(q, n), i)
    BY <1>3, <2>1, Positions
  <2>4. ASSUME NEW q \in DOMAIN rs
        PROVE  TellsTruth(q, a, rs[q], i)'
    <3> PICK r : r = rs[q]
      OBVIOUS
    <3>1. TellsTruth(q, a, r, i)' <=> TellsTruth(q, a, r, i)
      BY <2>2, <2>3, TruthStays
    <3>2. TellsTruth(q, a, r, i)'
      BY <2>2, <3>1
    <3> QED BY <1>1, <3>2 DEF TellsTruth
  <2> QED BY <1>1, <2>2, <2>4 DEF TellsTruth
<1> QED BY <1>4, <1>5, <1>6

\* Nothing was sent to the target at position n, for the dispatch b under way.
SamePosts(k, n, b) ==
    LET t == At(k, n) IN
    /\ PostsOf(t, b)' = PostsOf(t, b)
    /\ Took(t, b)' <=> Took(t, b)
    /\ Raising(t, b)' <=> Raising(t, b)

LEMMA TargetStays ==
    ASSUME NEW k, NEW n, NEW b, b = Number, Number' = b,
           chan'[k] = chan[k], alert' = alert, SamePosts(k, n, b)
    PROVE  TargetOK(k, n)' <=> TargetOK(k, n)
<1>1. Count(At(k, n), b)' = Count(At(k, n), b)
  BY DEF SamePosts, Count
<1>2. /\ (Untouched(At(k, n)) <=> PostsOf(At(k, n), b) = {})
      /\ (Untouched(At(k, n))' <=> PostsOf(At(k, n), b)' = {})
  BY DEF Untouched, PostsOf
<1>3. (Untouched(At(k, n))' <=> Untouched(At(k, n))) /\ Matching(k, alert)' = Matching(k, alert)
  BY <1>2 DEF SamePosts, Matching
<1>4. /\ Took(At(k, n), Number)' <=> Took(At(k, n), b)
      /\ Raising(At(k, n), Number)' <=> Raising(At(k, n), b)
      /\ Count(At(k, n), Number)' = Count(At(k, n), b)
  BY <1>1 DEF SamePosts, Took, Raising, Count, PostsOf
<1> HIDE DEF Number
<1> QED BY <1>3, <1>4 DEF TargetOK

\* A task nothing happened to, whose channel sent nothing.
LEMMA TaskStays ==
    ASSUME NEW k, TaskOK(k), NEW b, b = Number, Number' = b,
           chan'[k] = chan[k], alert' = alert,
           k \in DOMAIN results' <=> k \in DOMAIN results, results'[k] = results[k],
           \A n \in DOMAIN TargetsOf(k) : SamePosts(k, n, b)
    PROVE  TaskOK(k)'
<1>1. CASE chan[k].st = "idle"
  <2>1. ASSUME k \in DOMAIN results
        PROVE  TellsTruth(k, alert, results[k], Number)'
    <3> PICK a, r : a = alert /\ r = results[k]
      OBVIOUS
    <3>1. TellsTruth(k, a, r, b)
      BY <1>1, <2>1 DEF TaskOK
    <3>2. TellsTruth(k, a, r, b)'
      BY <3>1, TruthStays DEF SamePosts
    <3> QED BY <3>2 DEF TellsTruth, Took, Raising, PostsOf, Matching
  <2>2. ASSUME k \notin DOMAIN results
        PROVE  \A n \in DOMAIN TargetsOf(k) : Untouched(At(k, n))'
    BY <1>1, <2>2 DEF TaskOK, SamePosts, Untouched, PostsOf
  <2> QED BY <1>1, <2>1, <2>2 DEF TaskOK
<1>2. CASE chan[k].st # "idle"
  <2>1. \A n \in DOMAIN TargetsOf(k) : TargetOK(k, n)'
    BY <1>2, TargetStays DEF TaskOK
  <2>2. \A n \in DOMAIN TargetsOf(k) :
            Raising(At(k, n), Number)' <=> Raising(At(k, n), Number)
    BY DEF SamePosts, Raising, PostsOf
  <2>3. Matching(k, alert)' = Matching(k, alert) /\ Matching(k, alert) \subseteq DOMAIN TargetsOf(k)
    BY DEF Matching
  <2>4. /\ k \notin DOMAIN results
        /\ chan[k].todo \subseteq Matching(k, alert)
        /\ chan[k].sent \cup chan[k].failed \subseteq {At(k, j) : j \in Matching(k, alert) \ chan[k].todo}
        /\ chan[k].st = "done" <=> chan[k].todo = {}
        /\ chan[k].st = "raised" => \E j \in chan[k].todo : Raising(At(k, j), Number)
    BY <1>2 DEF TaskOK
  <2>5. chan[k].st = "raised" => \E j \in chan[k].todo : Raising(At(k, j), Number)'
    BY <2>2, <2>3, <2>4
  <2> QED BY <1>2, <2>1, <2>3, <2>4, <2>5 DEF TaskOK, At
<1> QED BY <1>1, <1>2

\* A post is seen by its own target only.
LEMMA PostIsOwn ==
    ASSUME NotifyInv, NEW k \in Attached, NEW j \in chan[k].todo, NEW o, Post(k, j, o),
           NEW b, b = Number
    PROVE  /\ Number' = b /\ alert' = alert /\ results' = results
           /\ \A q \in Attached : \A n \in DOMAIN TargetsOf(q) :
                 q # k \/ n # j => SamePosts(q, n, b)
           /\ Count(At(k, j), b)' = Count(At(k, j), b) + 1
           /\ Took(At(k, j), b)' <=> o = "ok"
           /\ Raising(At(k, j), b)' <=> o = "odd"
<1> DEFINE t == At(k, j)
<1>1. /\ t \in Targets /\ o \in Outcome /\ PostsOK /\ j \in DOMAIN TargetsOf(k)
      /\ ~Took(t, b) /\ ~Raising(t, b)
      /\ posts' = [posts EXCEPT ![t] = Append(@, <<b, o>>)]
      /\ UNCHANGED <<pc, alert, tasks, results, returned>>
  BY AtWork DEF NotifyInv
<1>2. \A q \in Attached : \A n \in DOMAIN TargetsOf(q) :
         At(q, n) \in Targets /\ (q # k \/ n # j => At(q, n) # t)
  BY <1>1, Positions
<1> HIDE DEF t
<1>3. /\ \A u \in Targets : u # t =>
            /\ PostsOf(u, b)' = PostsOf(u, b)
            /\ Took(u, b)' <=> Took(u, b)
            /\ Raising(u, b)' <=> Raising(u, b)
      /\ Count(t, b)' = Count(t, b) + 1
      /\ Took(t, b)' <=> o = "ok"
      /\ Raising(t, b)' <=> o = "odd"
  BY <1>1, PostEffect
<1>4. Number' = b
  BY <1>1 DEF Number
<1>5. \A q \in Attached : \A n \in DOMAIN TargetsOf(q) :
         q # k \/ n # j => SamePosts(q, n, b)
  BY <1>2, <1>3 DEF SamePosts
<1> QED BY <1>1, <1>3, <1>4, <1>5 DEF t

LEMMA FirstIsOne ==
    ASSUME NEW S \in SUBSET Nat, NEW i \in S, NEW j \in S, First(S, i), First(S, j)
    PROVE  i = j
BY DEF First

LEMMA UntouchedIs ==
    ASSUME PostsOK, NEW t \in Targets, NEW b, b = Number
    PROVE  /\ Untouched(t) <=> PostsOf(t, b) = {}
           /\ Untouched(t) => ~Took(t, b) /\ ~Raising(t, b) /\ Count(t, b) = 0
BY PostsFinite DEF Untouched, Took, Raising

\* The target answered for good: the task is at the next one, or done.
LEMMA MovesOn ==
    ASSUME NotifyInv, NEW k \in Attached, NEW j \in chan[k].todo, NEW o \in {"ok", "failed"},
           Post(k, j, o),
           NEW c, c = chan[k], NEW c2, chan'[k] = c2,
           c2.todo = c.todo \ {j}, c2.st = IF c2.todo = {} THEN "done" ELSE "post",
           c2.attempt = 1,
           c2.sent = IF o = "ok" THEN c.sent \cup {At(k, j)} ELSE c.sent,
           c2.failed = IF o = "failed" THEN c.failed \cup {At(k, j)} ELSE c.failed
    PROVE  TaskOK(k)'
<1> DEFINE t == At(k, j)
<1> PICK b, a : b = Number /\ a = alert
  OBVIOUS
<1>1. /\ c \in TaskType /\ c.st = "post" /\ First(c.todo, j) /\ c.todo \in SUBSET Nat
      /\ j \in DOMAIN TargetsOf(k) /\ j \in Matching(k, a) /\ j \in Nat /\ t \in Targets
      /\ k \notin DOMAIN results /\ PostsOK /\ Limit(t) \in Nat \ {0}
  BY AtWork, Positions DEF TaskType, NotifyInv
<1>2. /\ Number' = b /\ alert' = a /\ results' = results
      /\ \A n \in DOMAIN TargetsOf(k) : n # j => SamePosts(k, n, b)
      /\ Took(t, b)' <=> o = "ok"
      /\ ~Raising(t, b)'
  BY PostIsOwn
<1>3. /\ c.todo \subseteq Matching(k, a)
      /\ c.sent \cup c.failed \subseteq {At(k, n) : n \in Matching(k, a) \ c.todo}
      /\ \A n \in DOMAIN TargetsOf(k) : TargetOK(k, n)
  BY <1>1 DEF NotifyInv, ChanOK, TaskOK
<1>4. \A n \in DOMAIN TargetsOf(k) : n # j => At(k, n) # t /\ At(k, n) \in Targets /\ Limit(At(k, n)) \in Nat \ {0}
  BY <1>1, Positions
<1>5. t \notin c.sent \cup c.failed /\ Matching(k, a) \subseteq DOMAIN TargetsOf(k)
  BY <1>1, <1>3, <1>4 DEF Matching
<1> HIDE DEF t
<1>6. ASSUME NEW n \in DOMAIN TargetsOf(k)
      PROVE  TargetOK(k, n)'
  <2> DEFINE u == At(k, n)
  <2>1. /\ Took(u, Number)' <=> Took(u, b)'
        /\ Raising(u, Number)' <=> Raising(u, b)'
        /\ Count(u, Number)' = Count(u, b)'
        /\ Untouched(u)' <=> PostsOf(u, b)' = {}
        /\ Matching(k, alert)' = Matching(k, a)
    BY <1>2 DEF Took, Raising, Count, Untouched, PostsOf, Matching
  <2>2. CASE n = j
    <3>1. n \notin c2.todo /\ ~First(c2.todo, n) /\ n \in Matching(k, a) /\ u = t
      BY <1>1, <2>2 DEF First, t
    <3>2. (t \in c2.sent <=> Took(t, b)') /\ (t \in c2.failed <=> ~Took(t, b)')
      BY <1>2, <1>5 DEF t
    <3> QED BY <1>2, <2>1, <3>1, <3>2 DEF TargetOK
  <2>3. CASE n # j /\ n \notin c.todo
    <3>1. SamePosts(k, n, b) /\ u # t
      BY <1>2, <1>4, <2>3
    <3>2. n \notin c2.todo /\ ~First(c2.todo, n)
      BY <2>3 DEF First
    <3>3. u \in c2.sent <=> u \in c.sent
      BY <3>1 DEF t
    <3>4. u \in c2.failed <=> u \in c.failed
      BY <3>1 DEF t
    <3>5. /\ n \notin Matching(k, a) => PostsOf(u, b) = {}
          /\ n \in Matching(k, a) => /\ ~Raising(u, b)
                                     /\ u \in c.sent <=> Took(u, b)
                                     /\ u \in c.failed <=> ~Took(u, b)
      BY <1>3, <2>3 DEF TargetOK, Untouched
    <3> HIDE DEF u
    <3> QED BY <2>1, <3>1, <3>2, <3>3, <3>4, <3>5 DEF TargetOK, SamePosts, u
  <2>4. CASE n # j /\ n \in c.todo
    <3>1. SamePosts(k, n, b) /\ n \in c2.todo
      BY <1>2, <2>4
    <3>2. ~First(c.todo, n)
      BY <1>1, <2>4, FirstIsOne
    <3>3. Untouched(u)
      BY <1>3, <2>4, <3>2 DEF TargetOK
    <3>4. PostsOf(u, b) = {} /\ ~Took(u, b) /\ ~Raising(u, b) /\ Count(u, b) = 0 /\ Limit(u) \in Nat \ {0}
      BY <1>1, <1>4, <2>4, <3>3, UntouchedIs
    <3>5. PostsOf(u, b)' = {} /\ ~Took(u, b)' /\ ~Raising(u, b)' /\ Count(u, b)' = 0
      BY <3>1, <3>4 DEF SamePosts, Count
    <3>6. c2.st = "post" /\ n \in Matching(k, a) /\ c2.attempt - 1 = 0 /\ c2.attempt \in 1..Limit(u)
      BY <1>3, <2>4, <3>1, <3>4
    <3> HIDE DEF u
    <3> QED BY <2>1, <3>1, <3>5, <3>6 DEF TargetOK, u
  <2> QED BY <2>2, <2>3, <2>4
<1>7. c2.todo \subseteq Matching(k, a)
  BY <1>3
<1>8. c2.sent \cup c2.failed \subseteq {At(k, n) : n \in Matching(k, a) \ c2.todo}
  <2>1. t \in {At(k, n) : n \in Matching(k, a) \ c2.todo}
    BY <1>1 DEF t
  <2>2. c.sent \cup c.failed \subseteq {At(k, n) : n \in Matching(k, a) \ c2.todo}
    BY <1>3
  <2>3. c2.sent \cup c2.failed \subseteq c.sent \cup c.failed \cup {t}
    BY DEF t
  <2> QED BY <2>1, <2>2, <2>3
<1>9. c2.st \in {"done", "post"} /\ (c2.st = "done" <=> c2.todo = {})
  OBVIOUS
<1>10. Matching(k, alert)' = Matching(k, a) /\ DOMAIN results' = DOMAIN results
  BY <1>2 DEF Matching
<1> QED BY <1>1, <1>2, <1>6, <1>7, <1>8, <1>9, <1>10 DEF TaskOK, At

\* A task at work that keeps its list of targets: only the one at work matters.
LEMMA StaysPut ==
    ASSUME NotifyInv, NEW k \in Attached, NEW b, b = Number, Number' = b,
           alert' = alert, results' = results,
           NEW c, c = chan[k], c.st # "idle",
           NEW c2, chan'[k] = c2, c2.st # "idle", c2.st = "done" <=> c.st = "done",
           c2.todo = c.todo, c2.sent = c.sent, c2.failed = c.failed,
           \A n \in DOMAIN TargetsOf(k) : ~First(c.todo, n) => SamePosts(k, n, b),
           \A n \in c.todo : First(c.todo, n) =>
              LET t == At(k, n) IN
              /\ ~Took(t, b)'
              /\ Raising(t, b)' => c2.st = "raised"
              /\ c2.st = "post" => Count(t, b)' = c2.attempt - 1 /\ c2.attempt \in 1..Limit(t)
              /\ c2.st = "sleep" => Count(t, b)' = c2.attempt /\ c2.attempt \in 1..(Limit(t) - 1)
              /\ c2.st = "cancelled" => Count(t, b)' < Limit(t),
           c2.st = "raised" => \E n \in c.todo : Raising(At(k, n), b)'
    PROVE  TaskOK(k)'
<1> PICK a : a = alert
  OBVIOUS
<1>1. /\ k \notin DOMAIN results /\ PostsOK
      /\ c.todo \subseteq Matching(k, a) /\ Matching(k, a) \subseteq DOMAIN TargetsOf(k)
      /\ c.sent \cup c.failed \subseteq {At(k, n) : n \in Matching(k, a) \ c.todo}
      /\ c.st = "done" <=> c.todo = {}
      /\ \A n \in DOMAIN TargetsOf(k) : TargetOK(k, n)
  BY DEF NotifyInv, ChanOK, TaskOK, Matching
<1>2. Matching(k, alert)' = Matching(k, a) /\ DOMAIN results' = DOMAIN results
  BY DEF Matching
<1>3. ASSUME NEW n \in DOMAIN TargetsOf(k)
      PROVE  TargetOK(k, n)'
  <2> DEFINE u == At(k, n)
  <2>1. /\ Took(u, Number)' <=> Took(u, b)'
        /\ Raising(u, Number)' <=> Raising(u, b)'
        /\ Count(u, Number)' = Count(u, b)'
        /\ Untouched(u)' <=> PostsOf(u, b)' = {}
    BY DEF Took, Raising, Count, Untouched, PostsOf
  <2>2. u \in Targets
    BY Positions
  <2> HIDE DEF u
  <2>3. CASE n \notin c.todo
    <3>1. ~First(c.todo, n) /\ SamePosts(k, n, b)
      BY <2>3 DEF First
    <3>2. /\ n \notin Matching(k, a) => PostsOf(u, b) = {}
          /\ n \in Matching(k, a) => /\ ~Raising(u, b)
                                     /\ u \in c.sent <=> Took(u, b)
                                     /\ u \in c.failed <=> ~Took(u, b)
      BY <1>1, <2>3 DEF TargetOK, Untouched, u
    <3> QED BY <1>2, <2>1, <2>3, <3>1, <3>2 DEF TargetOK, SamePosts, u
  <2>4. CASE n \in c.todo /\ ~First(c.todo, n)
    <3>1. PostsOf(u, b) = {} /\ ~Took(u, b) /\ ~Raising(u, b)
      BY <1>1, <2>2, <2>4, UntouchedIs DEF TargetOK, u
    <3>2. PostsOf(u, b)' = {} /\ ~Took(u, b)' /\ ~Raising(u, b)'
      BY <2>4, <3>1 DEF SamePosts, u
    <3> QED BY <1>1, <1>2, <2>1, <2>4, <3>2 DEF TargetOK, u
  <2>5. CASE n \in c.todo /\ First(c.todo, n)
    <3>1. /\ ~Took(u, b)'
          /\ Raising(u, b)' => c2.st = "raised"
          /\ c2.st = "post" => Count(u, b)' = c2.attempt - 1 /\ c2.attempt \in 1..Limit(u)
          /\ c2.st = "sleep" => Count(u, b)' = c2.attempt /\ c2.attempt \in 1..(Limit(u) - 1)
          /\ c2.st = "cancelled" => Count(u, b)' < Limit(u)
      BY <2>5 DEF u
    <3> QED BY <1>1, <1>2, <2>1, <2>5, <3>1 DEF TargetOK, u
  <2> QED BY <2>3, <2>4, <2>5
<1>4. c2.st = "raised" => \E n \in c.todo : Raising(At(k, n), Number)'
  BY DEF Raising, PostsOf
<1> QED BY <1>1, <1>2, <1>3, <1>4 DEF TaskOK, At

LEMMA RetryKeeps ==
    ASSUME NotifyInv, NEW k \in Attached, NEW j \in chan[k].todo, PostRetry(k, j)
    PROVE  TaskOK(k)' /\ chan' \in [Attached -> TaskType]
<1> DEFINE c == chan[k]
           t == At(k, j)
           c2 == Again(c, Retry[t].pauses)
<1> PICK b : b = Number
  OBVIOUS
<1>1. /\ Post(k, j, "failed") /\ c.attempt < MaxAttempts(k, t) /\ chan' = [chan EXCEPT ![k] = c2]
      /\ chan \in [Attached -> TaskType]
  BY DEF PostRetry, At, NotifyInv, ChanOK
<1>2. /\ c \in TaskType /\ c.st = "post" /\ First(c.todo, j) /\ c.todo \in SUBSET Nat
      /\ j \in DOMAIN TargetsOf(k) /\ PostsOK
      /\ Count(t, b) = c.attempt - 1 /\ c.attempt \in 1..Limit(t)
  BY <1>1, AtWork DEF TaskType, NotifyInv
<1>3. /\ MaxAttempts(k, t) = Limit(t) /\ Limit(t) \in Nat \ {0}
  BY <1>2, Positions
<1>4. /\ Number' = b /\ alert' = alert /\ results' = results
      /\ \A n \in DOMAIN TargetsOf(k) : n # j => SamePosts(k, n, b)
      /\ Count(t, b)' = Count(t, b) + 1
      /\ ~Took(t, b)' /\ ~Raising(t, b)'
  BY <1>1, PostIsOwn
<1> HIDE DEF t
<1>5. /\ c2.todo = c.todo /\ c2.sent = c.sent /\ c2.failed = c.failed /\ c2 \in TaskType
      /\ \/ c2.st = "sleep" /\ c2.attempt = c.attempt
         \/ c2.st = "post" /\ c2.attempt = c.attempt + 1
  BY <1>2 DEF Again, TaskType
<1>6. chan'[k] = c2 /\ chan' \in [Attached -> TaskType]
  BY <1>1, <1>5
<1> HIDE DEF c2
<1>7. \A n \in c.todo : First(c.todo, n) => n = j
  BY <1>2, FirstIsOne
<1>8. /\ c2.st = "post" => Count(t, b)' = c2.attempt - 1 /\ c2.attempt \in 1..Limit(t)
      /\ c2.st = "sleep" => Count(t, b)' = c2.attempt /\ c2.attempt \in 1..(Limit(t) - 1)
  BY <1>1, <1>2, <1>3, <1>4, <1>5
<1>9. c2.st \notin {"idle", "done", "raised", "cancelled"}
  BY <1>5
<1>10. \A n \in DOMAIN TargetsOf(k) : ~First(c.todo, n) => SamePosts(k, n, b)
  BY <1>2, <1>4
<1>11. TaskOK(k)'
  BY <1>2, <1>4, <1>5, <1>6, <1>7, <1>8, <1>9, <1>10, StaysPut DEF t
<1> QED BY <1>6, <1>11

LEMMA RaiseKeeps ==
    ASSUME NotifyInv, NEW k \in Attached, NEW j \in chan[k].todo, PostRaises(k, j)
    PROVE  TaskOK(k)' /\ chan' \in [Attached -> TaskType]
<1> DEFINE c == chan[k]
           t == At(k, j)
           c2 == [c EXCEPT !.st = "raised"]
<1> PICK b : b = Number
  OBVIOUS
<1>1. /\ Post(k, j, "odd") /\ chan' = [chan EXCEPT ![k] = c2]
      /\ chan \in [Attached -> TaskType]
  BY DEF PostRaises, NotifyInv, ChanOK
<1>2. /\ c \in TaskType /\ c.st = "post" /\ First(c.todo, j) /\ c.todo \in SUBSET Nat
  BY <1>1, AtWork DEF TaskType
<1>3. /\ Number' = b /\ alert' = alert /\ results' = results
      /\ \A n \in DOMAIN TargetsOf(k) : n # j => SamePosts(k, n, b)
      /\ ~Took(t, b)' /\ Raising(t, b)'
  BY <1>1, PostIsOwn
<1> HIDE DEF t
<1>4. /\ c2.todo = c.todo /\ c2.sent = c.sent /\ c2.failed = c.failed /\ c2 \in TaskType
      /\ c2.st = "raised"
  BY <1>2 DEF TaskType
<1>5. chan'[k] = c2 /\ chan' \in [Attached -> TaskType]
  BY <1>1, <1>4
<1> HIDE DEF c2
<1>6. \A n \in c.todo : First(c.todo, n) => n = j
  BY <1>2, FirstIsOne
<1>7. \A n \in DOMAIN TargetsOf(k) : ~First(c.todo, n) => SamePosts(k, n, b)
  BY <1>2, <1>3
<1>8. TaskOK(k)'
  BY <1>2, <1>3, <1>4, <1>5, <1>6, <1>7, StaysPut DEF t
<1> QED BY <1>5, <1>8

\* Nothing was sent.
LEMMA QuietPosts ==
    ASSUME UNCHANGED <<posts, returned>>, NEW b, b = Number
    PROVE  /\ Number' = b
           /\ \A k : \A n : SamePosts(k, n, b) /\ Count(At(k, n), b)' = Count(At(k, n), b)
BY DEF Number, SamePosts, PostsOf, Took, Raising, Count

LEMMA WakeKeeps ==
    ASSUME NotifyInv, NEW k \in Attached, Wake(k)
    PROVE  TaskOK(k)' /\ chan' \in [Attached -> TaskType]
<1> DEFINE c == chan[k]
           c2 == [c EXCEPT !.st = "post", !.attempt = @ + 1]
<1> PICK b : b = Number
  OBVIOUS
<1>1. /\ c.st = "sleep" /\ chan' = [chan EXCEPT ![k] = c2] /\ chan \in [Attached -> TaskType]
      /\ UNCHANGED <<pc, alert, tasks, results, deadLetters, posts, returned>>
  BY DEF Wake, NotifyInv, ChanOK
<1>2. c \in TaskType /\ c.todo \in SUBSET Nat /\ c.attempt \in Nat /\ TaskOK(k)
  BY <1>1 DEF TaskType, NotifyInv, ChanOK
<1>3. /\ c2.todo = c.todo /\ c2.sent = c.sent /\ c2.failed = c.failed /\ c2 \in TaskType
      /\ c2.st = "post" /\ c2.attempt = c.attempt + 1
  <2> DEFINE c1 == [c EXCEPT !.st = "post"]
  <2>1. /\ c1 \in TaskType /\ c1.st = "post" /\ c1.todo = c.todo /\ c1.sent = c.sent
        /\ c1.failed = c.failed /\ c1.attempt = c.attempt
    BY <1>2 DEF TaskType
  <2>2. c2 = [c1 EXCEPT !.attempt = c.attempt + 1]
    BY <1>2 DEF TaskType
  <2> HIDE DEF c1
  <2> QED BY <1>2, <2>1, <2>2 DEF TaskType
<1>4. chan'[k] = c2 /\ chan' \in [Attached -> TaskType]
  BY <1>1, <1>3
<1>5. /\ Number' = b
      /\ \A n : SamePosts(k, n, b) /\ Count(At(k, n), b)' = Count(At(k, n), b)
  BY <1>1, QuietPosts
<1> HIDE DEF c2
<1>6. ASSUME NEW n \in c.todo, First(c.todo, n)
      PROVE  /\ ~Took(At(k, n), b)' /\ ~Raising(At(k, n), b)'
             /\ Count(At(k, n), b)' = c2.attempt - 1 /\ c2.attempt \in 1..Limit(At(k, n))
  <2>1. n \in DOMAIN TargetsOf(k) /\ TargetOK(k, n)
    BY <1>1, <1>2 DEF TaskOK, Matching
  <2>2. /\ ~Took(At(k, n), b) /\ ~Raising(At(k, n), b) /\ Count(At(k, n), b) = c.attempt
        /\ c.attempt \in 1..(Limit(At(k, n)) - 1)
    BY <1>1, <1>6, <2>1 DEF TargetOK
  <2>3. Limit(At(k, n)) \in Nat
    BY <2>1, Positions
  <2>4. c2.attempt \in 1..Limit(At(k, n)) /\ Count(At(k, n), b)' = c2.attempt - 1
    BY <1>2, <1>3, <1>5, <2>2, <2>3
  <2> QED BY <1>5, <2>2, <2>4 DEF SamePosts
<1>7. TaskOK(k)'
  BY <1>1, <1>3, <1>4, <1>5, <1>6, StaysPut
<1> QED BY <1>4, <1>7

LEMMA InterruptKeeps ==
    ASSUME NotifyInv, NEW k \in Attached, chan[k].st # "idle",
           chan'[k] = Interrupted(chan[k]), UNCHANGED <<alert, results, posts, returned>>
    PROVE  TaskOK(k)' /\ chan'[k] \in TaskType
<1> DEFINE c == chan[k]
           c2 == Interrupted(c)
<1> PICK b : b = Number
  OBVIOUS
<1>1. c \in TaskType /\ c.todo \in SUBSET Nat /\ c.attempt \in Nat /\ TaskOK(k)
  BY DEF TaskType, NotifyInv, ChanOK
<1>2. /\ Number' = b
      /\ \A n : SamePosts(k, n, b) /\ Count(At(k, n), b)' = Count(At(k, n), b)
  BY QuietPosts
<1>3. CASE Ended(c)
  <2>1. chan'[k] = c
    BY <1>3 DEF Interrupted
  <2> QED BY <1>1, <1>2, <2>1, TaskStays
<1>4. CASE ~Ended(c)
  <2>1. /\ c2.todo = c.todo /\ c2.sent = c.sent /\ c2.failed = c.failed /\ c2 \in TaskType
        /\ c2.st = "cancelled" /\ c.st \in {"post", "sleep", "cancelled"}
    BY <1>1, <1>4 DEF TaskType, Interrupted, Ended
  <2>2. ASSUME NEW n \in c.todo, First(c.todo, n)
        PROVE  /\ ~Took(At(k, n), b)' /\ ~Raising(At(k, n), b)'
               /\ Count(At(k, n), b)' < Limit(At(k, n))
    <3>1. n \in DOMAIN TargetsOf(k) /\ TargetOK(k, n)
      BY <1>1, <2>1 DEF TaskOK, Matching
    <3>2. /\ ~Took(At(k, n), b) /\ ~Raising(At(k, n), b)
          /\ c.st = "post" => Count(At(k, n), b) = c.attempt - 1 /\ c.attempt \in 1..Limit(At(k, n))
          /\ c.st = "sleep" => Count(At(k, n), b) = c.attempt /\ c.attempt \in 1..(Limit(At(k, n)) - 1)
          /\ c.st = "cancelled" => Count(At(k, n), b) < Limit(At(k, n))
      BY <2>1, <2>2, <3>1 DEF TargetOK
    <3>3. Limit(At(k, n)) \in Nat
      BY <3>1, Positions
    <3>4. Count(At(k, n), b) < Limit(At(k, n))
      BY <1>1, <2>1, <3>2, <3>3
    <3> QED BY <1>2, <3>2, <3>4 DEF SamePosts
  <2>3. chan'[k] = c2
    OBVIOUS
  <2> HIDE DEF c2
  <2>4. TaskOK(k)'
    BY <1>2, <2>1, <2>2, <2>3, StaysPut
  <2> QED BY <2>1, <2>3, <2>4
<1> QED BY <1>3, <1>4

-----------------------------------------------------------------------------
(* The dead letters.                                                       *)

\* Endpoint e got every attempt of dispatch i and confirmed none.
Exhausted(e, i) ==
    Count(e, i) = Retry[e].max_attempts /\ ~Took(e, i) /\ ~Raising(e, i)

LEMMA DeadIs ==
    DeadLetterIffExhausted <=>
        /\ IsInjective(deadLetters)
        /\ \A e \in ToSet(Endpoints), i \in 1..Number :
              <<e, i>> \in ToSet(deadLetters) <=> Exhausted(e, i)
BY DEF DeadLetterIffExhausted, Exhausted, Count

LEMMA DeadStays ==
    ASSUME DeadOK, deadLetters' = deadLetters, Number' = Number,
           \A e \in ToSet(Endpoints) : \A i : Exhausted(e, i)' <=> Exhausted(e, i)
    PROVE  DeadOK'
<1>1. DeadLetterIffExhausted'
  BY DeadIs DEF DeadOK, DeadLetterIffExhausted, Exhausted, Count
<1> QED BY <1>1 DEF DeadOK

LEMMA AppendNew ==
    ASSUME NEW S, NEW s \in Seq(S), NEW e \in S, IsInjective(s), e \notin ToSet(s)
    PROVE  /\ Append(s, e) \in Seq(S) /\ IsInjective(Append(s, e))
           /\ ToSet(Append(s, e)) = ToSet(s) \cup {e}
<1>1. /\ Append(s, e) \in Seq(S) /\ Len(s) \in Nat /\ Len(Append(s, e)) = Len(s) + 1
      /\ \A n \in 1..Len(s) : Append(s, e)[n] = s[n]
      /\ Append(s, e)[Len(s) + 1] = e
  BY AppendProperties
<1>2. DOMAIN s = 1..Len(s) /\ DOMAIN Append(s, e) = 1..(Len(s) + 1)
  BY <1>1
<1>3. \A n \in DOMAIN s : s[n] # e
  BY DEF ToSet
<1> QED BY <1>1, <1>2, <1>3 DEF IsInjective, ToSet

LEMMA PostKeepsDead ==
    ASSUME NotifyInv, NEW k \in Attached, NEW j \in chan[k].todo, NEW o, Post(k, j, o),
           deadLetters' = deadLetters,
           o = "failed" /\ k = "webhook" => chan[k].attempt < Limit(At(k, j))
    PROVE  DeadOK'
<1> DEFINE t == At(k, j)
<1> PICK b : b = Number
  OBVIOUS
<1>1. /\ t \in Targets /\ o \in Outcome /\ PostsOK /\ j \in DOMAIN TargetsOf(k)
      /\ Count(t, b) = chan[k].attempt - 1 /\ chan[k].attempt \in 1..Limit(t)
      /\ posts' = [posts EXCEPT ![t] = Append(@, <<b, o>>)]
      /\ ~Took(t, b) /\ ~Raising(t, b)
  BY AtWork DEF NotifyInv
<1>2. t \in ToSet(Endpoints) => k = "webhook" /\ t \notin ToSet(Robots)
  BY <1>1, Positions, NotifyAssumption
<1>3. Number' = b
  BY PostIsOwn
<1> HIDE DEF t
<1>4. /\ \A u \in Targets : \A n : u # t \/ n # b =>
            /\ PostsOf(u, n)' = PostsOf(u, n)
            /\ Took(u, n)' <=> Took(u, n)
            /\ Raising(u, n)' <=> Raising(u, n)
      /\ Count(t, b)' = Count(t, b) + 1
      /\ Took(t, b)' <=> o = "ok"
      /\ Raising(t, b)' <=> o = "odd"
  BY <1>1, PostEffect
<1>5. ASSUME NEW e \in ToSet(Endpoints), NEW i
      PROVE  Exhausted(e, i)' <=> Exhausted(e, i)
  <2>1. CASE e # t \/ i # b
    <3>1. e \in Targets
      BY DEF Targets
    <3>2. /\ Count(e, i)' = Count(e, i)
          /\ Took(e, i)' <=> Took(e, i)
          /\ Raising(e, i)' <=> Raising(e, i)
      BY <1>4, <2>1, <3>1 DEF Count
    <3> QED BY <3>2 DEF Exhausted
  <2>2. CASE e = t /\ i = b
    <3>1. /\ Limit(t) = Retry[t].max_attempts /\ k = "webhook"
          /\ o = "failed" => chan[k].attempt < Limit(t)
          /\ Limit(t) \in Nat
      BY <1>1, <1>2, <2>2, Positions DEF Limit, t
    <3>2. Count(t, b) # Retry[t].max_attempts
      BY <1>1, <3>1
    <3>3. o = "failed" => Count(t, b)' # Retry[t].max_attempts
      BY <1>1, <1>4, <3>1
    <3>4. o \in {"ok", "failed", "odd"}
      BY <1>1 DEF Outcome
    <3>5. ~Exhausted(t, b)
      BY <3>2 DEF Exhausted
    <3>6. ~Exhausted(t, b)'
      BY <1>4, <3>3, <3>4 DEF Exhausted
    <3> QED BY <2>2, <3>5, <3>6
  <2> QED BY <2>1, <2>2
<1> QED BY <1>3, <1>5, DeadStays DEF NotifyInv

LEMMA PostAddsDead ==
    ASSUME NotifyInv, NEW j \in chan["webhook"].todo, "webhook" \in Attached,
           Post("webhook", j, "failed"),
           chan["webhook"].attempt >= Limit(At("webhook", j)),
           deadLetters' = Append(deadLetters, <<At("webhook", j), Number>>)
    PROVE  DeadOK'
<1> DEFINE t == At("webhook", j)
<1> PICK b : b = Number
  OBVIOUS
<1>1. /\ t \in Targets /\ PostsOK /\ j \in DOMAIN TargetsOf("webhook") /\ b \in Nat \ {0}
      /\ Count(t, b) = chan["webhook"].attempt - 1 /\ chan["webhook"].attempt \in 1..Limit(t)
      /\ posts' = [posts EXCEPT ![t] = Append(@, <<b, "failed">>)]
      /\ ~Took(t, b) /\ ~Raising(t, b)
  BY AtWork, NumberType DEF NotifyInv, PostsOK
<1>2. /\ t \in ToSet(Endpoints) /\ t \notin ToSet(Robots) /\ Limit(t) = Retry[t].max_attempts
      /\ Limit(t) \in Nat
  BY <1>1, Positions, NotifyAssumption DEF Limit
<1>3. Number' = b /\ deadLetters' = Append(deadLetters, <<t, b>>)
  BY PostIsOwn
<1>4. chan["webhook"].attempt >= Limit(t)
  OBVIOUS
<1> HIDE DEF t
<1>5. /\ \A u \in Targets : \A n : u # t \/ n # b =>
            /\ PostsOf(u, n)' = PostsOf(u, n)
            /\ Took(u, n)' <=> Took(u, n)
            /\ Raising(u, n)' <=> Raising(u, n)
      /\ Count(t, b)' = Count(t, b) + 1
      /\ ~Took(t, b)'
      /\ ~Raising(t, b)'
  BY <1>1, PostEffect DEF Outcome
<1>6. /\ deadLetters \in Seq(Targets \X Nat) /\ IsInjective(deadLetters)
      /\ \A e \in ToSet(Endpoints), i \in 1..b : <<e, i>> \in ToSet(deadLetters) <=> Exhausted(e, i)
      /\ \A d \in ToSet(deadLetters) : d[1] \in ToSet(Endpoints) /\ d[2] <= b
  BY DeadIs DEF NotifyInv, DeadOK
<1>7. Count(t, b) # Retry[t].max_attempts /\ Count(t, b)' = Retry[t].max_attempts
  BY <1>1, <1>2, <1>4, <1>5
<1>8. ~Exhausted(t, b) /\ Exhausted(t, b)'
  <2>1. ~Exhausted(t, b)
    BY <1>7 DEF Exhausted
  <2>2. Exhausted(t, b)'
    BY <1>5, <1>7 DEF Exhausted
  <2> QED BY <2>1, <2>2
<1>9. ASSUME NEW e \in ToSet(Endpoints), NEW i, e # t \/ i # b
      PROVE  Exhausted(e, i)' <=> Exhausted(e, i)
  <2>1. e \in Targets
    BY DEF Targets
  <2>2. /\ Count(e, i)' = Count(e, i)
        /\ Took(e, i)' <=> Took(e, i)
        /\ Raising(e, i)' <=> Raising(e, i)
    BY <1>5, <1>9, <2>1 DEF Count
  <2> QED BY <2>2 DEF Exhausted
<1>10. /\ deadLetters' \in Seq(Targets \X Nat) /\ IsInjective(deadLetters')
       /\ ToSet(deadLetters') = ToSet(deadLetters) \cup {<<t, b>>}
  <2>1. <<t, b>> \notin ToSet(deadLetters) /\ <<t, b>> \in Targets \X Nat
    BY <1>1, <1>2, <1>6, <1>8
  <2> QED BY <1>3, <1>6, <2>1, AppendNew
<1>11. \A e \in ToSet(Endpoints), i \in 1..b : <<e, i>> \in ToSet(deadLetters') <=> Exhausted(e, i)'
  <2> SUFFICES ASSUME NEW e \in ToSet(Endpoints), NEW i \in 1..b
               PROVE  <<e, i>> \in ToSet(deadLetters') <=> Exhausted(e, i)'
    OBVIOUS
  <2>1. CASE e = t /\ i = b
    BY <1>8, <1>10, <2>1
  <2>2. CASE e # t \/ i # b
    BY <1>6, <1>9, <1>10, <2>2
  <2> QED BY <2>1, <2>2
<1>12. DeadLetterIffExhausted'
  BY <1>3, <1>10, <1>11 DEF DeadLetterIffExhausted, Exhausted, Count
<1>13. ASSUME NEW d \in ToSet(deadLetters')
       PROVE  d[1] \in ToSet(Endpoints) /\ d[2] <= b
  <2>1. CASE d \in ToSet(deadLetters)
    BY <1>6, <2>1
  <2>2. CASE d = <<t, b>>
    <3>1. d[1] = t /\ d[2] = b
      BY <2>2
    <3> QED BY <1>1, <1>2, <3>1
  <2> QED BY <1>10, <2>1, <2>2
<1> QED BY <1>3, <1>10, <1>12, <1>13 DEF DeadOK

-----------------------------------------------------------------------------
(* The steps of a channel keep the invariant.                              *)

LEMMA FlowStays ==
    ASSUME FlowOK, UNCHANGED <<pc, alert, tasks, results>>,
           \A k \in Attached : chan'[k].st = "idle" <=> chan[k].st = "idle"
    PROVE  FlowOK'
BY DEF FlowOK, Routed, ChannelsFor

LEMMA QuietHistory ==
    ASSUME NotifyInv, UNCHANGED <<posts, returned, deadLetters>>
    PROVE  PostsOK' /\ DeadOK' /\ RetryDiscipline' /\ ReportTruthful'
<1>1. PostsOK'
  BY DEF NotifyInv, PostsOK, Number
<1>2. RetryDiscipline'
  BY DEF NotifyInv, RetryDiscipline, Number, PostsOf
<1>3. ReportTruthful'
  BY DEF NotifyInv, ReportTruthful, TellsTruth, Matching, Took, Raising, PostsOf
<1>4. DeadOK'
  BY DEF NotifyInv, DeadOK, DeadLetterIffExhausted, Number, PostsOf, Took, Raising
<1> QED BY <1>1, <1>2, <1>3, <1>4

\* A post by channel k of which the rest is known.
LEMMA PostKeeps ==
    ASSUME NotifyInv, NEW k \in Attached, NEW j \in chan[k].todo, NEW o, Post(k, j, o),
           NEW c2 \in TaskType, c2.st # "idle", chan' = [chan EXCEPT ![k] = c2],
           TaskOK(k)', DeadOK'
    PROVE  NotifyInv'
<1> PICK b : b = Number
  OBVIOUS
<1>1. /\ Number' = b /\ alert' = alert /\ results' = results
      /\ \A q \in Attached : q # k => \A n \in DOMAIN TargetsOf(q) : SamePosts(q, n, b)
      /\ UNCHANGED <<pc, alert, tasks, results>> /\ chan[k].st = "post"
  BY PostIsOwn, AtWork
<1>2. chan \in [Attached -> TaskType] /\ FlowOK /\ \A q \in Attached : TaskOK(q)
  BY DEF NotifyInv, ChanOK
<1>3. \A q \in Attached : q # k => TaskOK(q)'
  <2> SUFFICES ASSUME NEW q \in Attached, q # k
               PROVE  TaskOK(q)'
    OBVIOUS
  <2>1. chan'[q] = chan[q]
    BY <1>2
  <2> QED BY <1>1, <1>2, <2>1, TaskStays
<1>4. ChanOK'
  BY <1>2, <1>3 DEF ChanOK
<1>5. FlowOK'
  BY <1>1, <1>2, FlowStays
<1> QED BY <1>4, <1>5, PostKeepsHistory DEF NotifyInv

LEMMA SendType ==
    ASSUME NEW c \in TaskType, NEW left \in SUBSET Nat
    PROVE  /\ Send(c, left) \in TaskType /\ Send(c, left).todo = left
           /\ Send(c, left).st = IF left = {} THEN "done" ELSE "post"
           /\ Send(c, left).attempt = 1
           /\ Send(c, left).sent = c.sent /\ Send(c, left).failed = c.failed
BY DEF Send, TaskType

LEMMA OkKeeps ==
    ASSUME NotifyInv, NEW k \in Attached, NEW j \in chan[k].todo, PostOk(k, j)
    PROVE  NotifyInv'
<1> DEFINE c == chan[k]
           c1 == [c EXCEPT !.sent = @ \cup {At(k, j)}]
           c2 == Send(c1, c.todo \ {j})
<1>1. /\ Post(k, j, "ok") /\ chan' = [chan EXCEPT ![k] = c2] /\ deadLetters' = deadLetters
      /\ chan \in [Attached -> TaskType]
  BY DEF PostOk, At, NotifyInv, ChanOK
<1>2. c \in TaskType /\ At(k, j) \in Targets
  BY <1>1, AtWork
<1>3. /\ c1 \in TaskType /\ c.todo \ {j} \in SUBSET Nat
      /\ c1.sent = c.sent \cup {At(k, j)} /\ c1.failed = c.failed
  BY <1>2 DEF TaskType
<1>4. /\ c2 \in TaskType /\ c2.todo = c.todo \ {j} /\ c2.attempt = 1
      /\ c2.st = IF c2.todo = {} THEN "done" ELSE "post"
      /\ c2.sent = c.sent \cup {At(k, j)} /\ c2.failed = c.failed
  <2> DEFINE left == c.todo \ {j}
  <2> HIDE DEF c1, left
  <2>1. left \in SUBSET Nat
    BY <1>3 DEF left
  <2>2. /\ Send(c1, left) \in TaskType /\ Send(c1, left).todo = left
        /\ Send(c1, left).st = IF left = {} THEN "done" ELSE "post"
        /\ Send(c1, left).attempt = 1
        /\ Send(c1, left).sent = c1.sent /\ Send(c1, left).failed = c1.failed
    BY <1>3, <2>1, SendType
  <2>3. c2 = Send(c1, left)
    BY DEF left
  <2> HIDE DEF c2
  <2> QED BY <1>3, <2>2, <2>3 DEF left
<1> HIDE DEF c1, c2
<1>5. chan'[k] = c2
  BY <1>1
<1>6. TaskOK(k)'
  BY <1>1, <1>4, <1>5, MovesOn
<1>7. DeadOK'
  BY <1>1, PostKeepsDead
<1>8. c2.st # "idle"
  BY <1>4
<1> QED BY <1>1, <1>4, <1>6, <1>7, <1>8, PostKeeps

LEMMA GiveUpKeeps ==
    ASSUME NotifyInv, NEW k \in Attached, NEW j \in chan[k].todo, PostGiveUp(k, j)
    PROVE  NotifyInv'
<1> DEFINE c == chan[k]
           t == At(k, j)
           c1 == [c EXCEPT !.failed = @ \cup {t}]
           c2 == Send(c1, c.todo \ {j})
<1>1. /\ Post(k, j, "failed") /\ chan' = [chan EXCEPT ![k] = c2]
      /\ c.attempt >= MaxAttempts(k, t) /\ deadLetters' = WithDeadLetter(k, t)
      /\ chan \in [Attached -> TaskType]
  BY DEF PostGiveUp, At, NotifyInv, ChanOK
<1>2. c \in TaskType /\ t \in Targets /\ j \in DOMAIN TargetsOf(k)
  BY <1>1, AtWork
<1>3. /\ c1 \in TaskType /\ c.todo \ {j} \in SUBSET Nat
      /\ c1.failed = c.failed \cup {t} /\ c1.sent = c.sent
  BY <1>2 DEF TaskType
<1>4. /\ c2 \in TaskType /\ c2.todo = c.todo \ {j} /\ c2.attempt = 1
      /\ c2.st = IF c2.todo = {} THEN "done" ELSE "post"
      /\ c2.failed = c.failed \cup {t} /\ c2.sent = c.sent
  <2> DEFINE left == c.todo \ {j}
  <2> HIDE DEF c1, left
  <2>1. left \in SUBSET Nat
    BY <1>3 DEF left
  <2>2. /\ Send(c1, left) \in TaskType /\ Send(c1, left).todo = left
        /\ Send(c1, left).st = IF left = {} THEN "done" ELSE "post"
        /\ Send(c1, left).attempt = 1
        /\ Send(c1, left).sent = c1.sent /\ Send(c1, left).failed = c1.failed
    BY <1>3, <2>1, SendType
  <2>3. c2 = Send(c1, left)
    BY DEF left
  <2> HIDE DEF c2
  <2> QED BY <1>3, <2>2, <2>3 DEF left
<1>5. chan'[k] = c2
  BY <1>1
<1>6. MaxAttempts(k, t) = Limit(t)
  BY <1>2, Positions
<1> HIDE DEF c1, c2
<1>7. TaskOK(k)'
  BY <1>1, <1>4, <1>5, MovesOn
<1>8. DeadOK'
  <2>1. CASE k = "webhook"
    <3>1. deadLetters' = Append(deadLetters, <<t, Number>>)
      BY <1>1, <2>1 DEF WithDeadLetter
    <3> QED BY <1>1, <1>6, <2>1, <3>1, PostAddsDead
  <2>2. CASE k # "webhook"
    <3>1. deadLetters' = deadLetters
      BY <1>1, <2>2 DEF WithDeadLetter
    <3> QED BY <1>1, <2>2, <3>1, PostKeepsDead
  <2> QED BY <2>1, <2>2
<1>9. c2.st # "idle"
  BY <1>4
<1> QED BY <1>1, <1>4, <1>7, <1>8, <1>9, PostKeeps

LEMMA ChannelKeeps ==
    ASSUME NotifyInv, NEW k \in Attached, Channel(k)
    PROVE  NotifyInv'
<1> DEFINE c == chan[k]
<1>1. c \in TaskType /\ chan \in [Attached -> TaskType] /\ \A q \in Attached : TaskOK(q)
  BY DEF NotifyInv, ChanOK
<1>2. CASE \E j \in c.todo : PostOk(k, j)
  BY <1>2, OkKeeps
<1>3. CASE \E j \in c.todo : PostGiveUp(k, j)
  BY <1>3, GiveUpKeeps
<1>4. ASSUME NEW j \in c.todo, PostRetry(k, j)
      PROVE  NotifyInv'
  <2> DEFINE c2 == Again(c, Retry[At(k, j)].pauses)
  <2>1. /\ Post(k, j, "failed") /\ chan' = [chan EXCEPT ![k] = c2] /\ deadLetters' = deadLetters
        /\ c.attempt < MaxAttempts(k, At(k, j))
    BY <1>4 DEF PostRetry, At
  <2>2. /\ j \in DOMAIN TargetsOf(k) /\ c.st = "post"
    BY <2>1, AtWork
  <2>3. MaxAttempts(k, At(k, j)) = Limit(At(k, j))
    BY <2>2, Positions
  <2>4. DeadOK'
    BY <2>1, <2>3, PostKeepsDead
  <2>5. TaskOK(k)' /\ chan' \in [Attached -> TaskType]
    BY <1>4, RetryKeeps
  <2>6. chan'[k] = c2
    BY <1>1, <2>1
  <2>7. c2 \in TaskType
    BY <2>5, <2>6
  <2>8. c2.st # "idle"
    BY <1>1, <2>2 DEF Again, TaskType
  <2> HIDE DEF c2
  <2> QED BY <2>1, <2>4, <2>5, <2>7, <2>8, PostKeeps
<1>5. ASSUME NEW j \in c.todo, PostRaises(k, j)
      PROVE  NotifyInv'
  <2> DEFINE c2 == [c EXCEPT !.st = "raised"]
  <2>1. Post(k, j, "odd") /\ chan' = [chan EXCEPT ![k] = c2] /\ deadLetters' = deadLetters
    BY <1>5 DEF PostRaises
  <2>2. DeadOK'
    BY <2>1, PostKeepsDead
  <2>3. TaskOK(k)' /\ c2 \in TaskType /\ c2.st # "idle"
    BY <1>1, <1>5, RaiseKeeps DEF TaskType
  <2> HIDE DEF c2
  <2> QED BY <2>1, <2>2, <2>3, PostKeeps
<1>6. CASE Wake(k)
  <2>1. /\ UNCHANGED <<pc, alert, tasks, results, deadLetters, posts, returned>> /\ c.st = "sleep"
        /\ chan' = [chan EXCEPT ![k] = [c EXCEPT !.st = "post", !.attempt = @ + 1]]
    BY <1>6 DEF Wake
  <2>2. TaskOK(k)' /\ chan' \in [Attached -> TaskType]
    BY <1>6, WakeKeeps
  <2>3. ASSUME NEW q \in Attached, q # k
        PROVE  TaskOK(q)' /\ chan'[q] = chan[q]
    <3> PICK b : b = Number
      OBVIOUS
    <3>1. chan'[q] = chan[q]
      BY <1>1, <2>1, <2>3
    <3>2. Number' = b /\ \A n : SamePosts(q, n, b)
      BY <2>1, QuietPosts
    <3> QED BY <1>1, <2>1, <3>1, <3>2, TaskStays
  <2>4. ChanOK'
    BY <2>2, <2>3 DEF ChanOK
  <2>5. chan'[k].st = "post"
    BY <1>1, <2>1 DEF TaskType
  <2>6. FlowOK'
    BY <2>1, <2>3, <2>5, FlowStays DEF NotifyInv
  <2> QED BY <2>1, <2>4, <2>6, QuietHistory DEF NotifyInv
<1> QED BY <1>2, <1>3, <1>4, <1>5, <1>6 DEF Channel

-----------------------------------------------------------------------------
(* The steps of a dispatch.                                                *)

LEMMA SeqIsSeq ==
    ASSUME NEW S, NEW s \in Seq(S)
    PROVE  IsSeq(s)
<1>1. DOMAIN s = 1..Len(s) /\ Len(s) \in Nat /\ s = [n \in 1..Len(s) |-> s[n]]
  OBVIOUS
<1>2. \A n \in 1..Len(s) : s[n] \in ToSet(s)
  BY <1>1 DEF ToSet
<1> QED BY <1>1, <1>2, SeqDef DEF IsSeq

\* A dispatch that returns the truth closes its number; nothing carries the next one.
LEMMA ReturnKeeps ==
    ASSUME NotifyInv, NEW a, NEW rs, Return(a, rs), UNCHANGED <<posts, deadLetters>>,
           DOMAIN rs = ToSet(ChannelsFor(a)) \cap Attached,
           \A k \in DOMAIN rs : TellsTruth(k, a, rs[k], Number)
    PROVE  /\ PostsOK' /\ DeadOK' /\ RetryDiscipline' /\ ReportTruthful'
           /\ \A t \in Targets : Untouched(t)'
<1> PICK b : b = Number
  OBVIOUS
<1> DEFINE r == [alert |-> a, results |-> rs]
<1>1. /\ PostsOK /\ returned' = Append(returned, r) /\ posts' = posts /\ deadLetters' = deadLetters
      /\ b \in Nat \ {0} /\ b = Len(returned) + 1 /\ Len(returned) \in Nat
      /\ r.alert = a /\ r.results = rs
  BY NumberType DEF Return, NotifyInv, PostsOK
<1> HIDE DEF r
<1>2. /\ IsSeq(returned') /\ Len(returned') = b /\ returned'[b] = r
      /\ \A i \in 1..Len(returned) : returned'[i] = returned[i]
  <2>1. returned \in Seq(ToSet(returned) \cup {r})
    BY <1>1 DEF PostsOK, IsSeq
  <2>2. /\ Append(returned, r) \in Seq(ToSet(returned) \cup {r})
        /\ Len(Append(returned, r)) = Len(returned) + 1
        /\ \A i \in 1..Len(returned) : Append(returned, r)[i] = returned[i]
        /\ Append(returned, r)[Len(returned) + 1] = r
    BY <2>1, AppendProperties
  <2>3. IsSeq(Append(returned, r))
    BY <2>2, SeqIsSeq
  <2> QED BY <1>1, <2>2, <2>3 DEF IsSeq
<1>3. Number' = b + 1
  BY <1>1, <1>2 DEF Number
<1>4. \A t \in Targets : \A n \in DOMAIN posts[t] : posts[t][n][1] <= b /\ posts[t][n][1] \in Nat
  BY <1>1 DEF PostsOK
<1>5. PostsOK'
  <2>1. \A t \in Targets : \A n \in DOMAIN posts[t] : posts[t][n][1] <= b + 1
    BY <1>1, <1>4
  <2> QED BY <1>1, <1>2, <1>3, <2>1 DEF PostsOK
<1>6. \A t \in Targets : PostsOf(t, b + 1) = {}
  BY <1>1, <1>4 DEF PostsOf
<1>7. \A t \in Targets : Untouched(t)'
  BY <1>1, <1>3, <1>6 DEF Untouched, PostsOf
<1>8. \A t \in Targets : \A i : /\ PostsOf(t, i)' = PostsOf(t, i)
                                /\ Took(t, i)' <=> Took(t, i)
                                /\ Raising(t, i)' <=> Raising(t, i)
  BY <1>1 DEF PostsOf, Took, Raising
<1>9. \A t \in Targets : Count(t, b + 1) = 0
  BY <1>6, FS_EmptySet DEF Count
<1>10. RetryDiscipline'
  <2>1. ASSUME NEW t \in Targets, NEW i \in 1..(b + 1)
        PROVE  Cardinality(PostsOf(t, i)) <= IF t \in ToSet(Robots) THEN 1 ELSE Retry[t].max_attempts
    <3>1. CASE i \in 1..b
      BY <3>1 DEF NotifyInv, RetryDiscipline
    <3>2. CASE i = b + 1
      <4>1. 0 <= (IF t \in ToSet(Robots) THEN 1 ELSE Retry[t].max_attempts)
        BY NotifyAssumption DEF Targets
      <4> QED BY <1>9, <3>2, <4>1 DEF Count
    <3> QED BY <1>1, <2>1, <3>1, <3>2
  <2>2. ASSUME NEW t \in Targets, NEW i \in 1..(b + 1)
        PROVE  Cardinality(PostsOf(t, i)') <= IF t \in ToSet(Robots) THEN 1 ELSE Retry[t].max_attempts
    BY <1>8, <2>1
  <2> QED BY <1>1, <1>3, <2>2 DEF NotifyInv, RetryDiscipline
<1>11. DeadOK'
  <2>1. /\ deadLetters \in Seq(Targets \X Nat)
        /\ \A d \in ToSet(deadLetters) : d[1] \in ToSet(Endpoints) /\ d[2] <= b
        /\ IsInjective(deadLetters)
        /\ \A e \in ToSet(Endpoints), i \in 1..b : <<e, i>> \in ToSet(deadLetters) <=> Exhausted(e, i)
    BY DeadIs DEF NotifyInv, DeadOK
  <2>2. \A d \in ToSet(deadLetters) : d[2] <= b + 1
    <3>1. \A d \in ToSet(deadLetters) : d \in Targets \X Nat
      BY <2>1 DEF ToSet
    <3> QED BY <1>1, <2>1, <3>1
  <2>3. ASSUME NEW e \in ToSet(Endpoints)
        PROVE  <<e, b + 1>> \notin ToSet(deadLetters) /\ ~Exhausted(e, b + 1)
    <3>1. <<e, b + 1>> \notin ToSet(deadLetters)
      BY <1>1, <2>1
    <3>2. Count(e, b + 1) # Retry[e].max_attempts
      BY <1>9, NotifyAssumption DEF Targets
    <3> QED BY <3>1, <3>2 DEF Exhausted
  <2>4. \A e \in ToSet(Endpoints), i \in 1..(b + 1) : <<e, i>> \in ToSet(deadLetters) <=> Exhausted(e, i)
    <3>1. \A i \in 1..(b + 1) : i \in 1..b \/ i = b + 1
      BY <1>1
    <3> QED BY <2>1, <2>3, <3>1
  <2>5. \A e \in ToSet(Endpoints) : \A i : Exhausted(e, i)' <=> Exhausted(e, i)
    BY <1>8 DEF Exhausted, Count, Targets
  <2>6. DeadLetterIffExhausted'
    BY <1>1, <1>3, <2>1, <2>4, <2>5 DEF DeadLetterIffExhausted, Exhausted, Count
  <2> QED BY <1>1, <1>3, <2>1, <2>2, <2>6 DEF DeadOK
<1>12. ReportTruthful'
  <2>1. ASSUME NEW i \in 1..b, NEW q, q = returned'[i]
        PROVE  /\ DOMAIN q.results = ToSet(ChannelsFor(q.alert)) \cap Attached
               /\ \A k \in DOMAIN q.results : TellsTruth(k, q.alert, q.results[k], i)
    <3>1. CASE i \in 1..Len(returned)
      BY <1>2, <2>1, <3>1 DEF NotifyInv, ReportTruthful
    <3>2. CASE i = b
      BY <1>1, <1>2, <2>1, <3>2
    <3> QED BY <1>1, <3>1, <3>2
  <2>2. ASSUME NEW k, NEW al, NEW re, NEW i
        PROVE  TellsTruth(k, al, re, i)' <=> TellsTruth(k, al, re, i)
    BY <1>1 DEF TellsTruth, Matching, Took, Raising, PostsOf
  <2>3. ASSUME NEW i \in 1..b, NEW q, q = returned'[i]
        PROVE  /\ DOMAIN q.results = ToSet(ChannelsFor(q.alert)) \cap Attached
               /\ \A k \in DOMAIN q.results : TellsTruth(k, q.alert, q.results[k], i)'
    BY <2>1, <2>2, <2>3
  <2> QED BY <1>2, <2>3 DEF ReportTruthful, TellsTruth, Matching, Took, Raising, PostsOf
<1> QED BY <1>5, <1>7, <1>10, <1>11, <1>12

LEMMA RoutedAll ==
    ASSUME NEW a \in Alerts
    PROVE  {ChannelsFor(a)[i] : i \in Routed(a)} = ToSet(ChannelsFor(a)) \cap Attached
BY Channels DEF Routed, ToSet

\* All channels idle, and nothing sent.
LEMMA FreshTasks ==
    ASSUME NEW k \in Attached, chan'[k].st = "idle", k \notin DOMAIN results',
           \A t \in Targets : Untouched(t)'
    PROVE  TaskOK(k)'
BY Positions DEF TaskOK

LEMMA DispatchKeeps ==
    ASSUME NotifyInv, NEW a \in Alerts, Dispatch(a)
    PROVE  NotifyInv'
<1>1. /\ pc = "idle" /\ results = <<>> /\ tasks' = Routed(a) /\ UNCHANGED <<posts, deadLetters>>
      /\ chan' = [k \in Attached |->
                     IF k \in ToSet(ChannelsFor(a)) THEN Send(Idle, Matching(k, a)) ELSE Idle]
      /\ \A k \in Attached : chan[k].st = "idle" /\ TaskOK(k)
      /\ PostsOK
  BY DEF Dispatch, NotifyInv, FlowOK, ChanOK
<1>2. DOMAIN <<>> = {} /\ Idle \in TaskType /\ Idle.st = "idle" /\ Idle.sent = {} /\ Idle.failed = {}
  BY DEF Idle, TaskType
<1>3. {ChannelsFor(a)[i] : i \in Routed(a)} = ToSet(ChannelsFor(a)) \cap Attached
  BY RoutedAll
<1>4. CASE Routed(a) = {}
  <2>1. Return(a, <<>>)
    BY <1>4 DEF Dispatch
  <2>2. DOMAIN <<>> = ToSet(ChannelsFor(a)) \cap Attached
    BY <1>2, <1>3, <1>4
  <2>3. /\ PostsOK' /\ DeadOK' /\ RetryDiscipline' /\ ReportTruthful'
        /\ \A t \in Targets : Untouched(t)'
    BY <1>1, <1>2, <2>1, <2>2, ReturnKeeps
  <2>4. /\ pc' = "idle" /\ results' = <<>> /\ tasks' = {}
        /\ \A k \in Attached : chan'[k] = Idle
    BY <1>1, <1>2, <1>4, <2>1, <2>2 DEF Return
  <2>5. ChanOK'
    BY <1>1, <1>2, <2>3, <2>4, FreshTasks DEF ChanOK
  <2>6. FlowOK'
    BY <1>2, <2>4 DEF FlowOK
  <2> QED BY <2>3, <2>5, <2>6 DEF NotifyInv
<1>5. CASE Routed(a) # {}
  <2>1. /\ pc' = "dispatching" /\ alert' = a /\ results' = <<>> /\ returned' = returned
    BY <1>1, <1>5 DEF Dispatch
  <2>2. PostsOK' /\ DeadOK' /\ RetryDiscipline' /\ ReportTruthful'
    BY <1>1, <2>1, QuietHistory
  <2> PICK b : b = Number
    OBVIOUS
  <2>3. Number' = b /\ \A k : \A n : SamePosts(k, n, b) /\ Count(At(k, n), b)' = Count(At(k, n), b)
    BY <1>1, <2>1, QuietPosts
  <2>4. ASSUME NEW k \in Attached, NEW n \in DOMAIN TargetsOf(k)
        PROVE  /\ Untouched(At(k, n))' /\ ~Took(At(k, n), Number)' /\ ~Raising(At(k, n), Number)'
               /\ Count(At(k, n), Number)' = 0
    <3>1. Untouched(At(k, n)) /\ At(k, n) \in Targets
      BY <1>1, <1>2, <2>4, Positions DEF TaskOK
    <3>2. PostsOf(At(k, n), b) = {} /\ Count(At(k, n), b) = 0
      BY <1>1, <3>1, UntouchedIs
    <3>3. PostsOf(At(k, n), b)' = {} /\ Count(At(k, n), b)' = 0
      BY <2>3, <3>2 DEF SamePosts
    <3> QED BY <2>3, <3>3 DEF Untouched, Took, Raising, Count, PostsOf
  <2>5. ASSUME NEW k \in Attached
        PROVE  chan'[k] \in TaskType /\ TaskOK(k)'
    <3> DEFINE M == Matching(k, a)
    <3>1. M \subseteq DOMAIN TargetsOf(k) /\ M \in SUBSET Nat /\ Matching(k, alert)' = M
      BY <2>1, Positions DEF Matching
    <3>2. CASE k \notin ToSet(ChannelsFor(a))
      <4>1. chan'[k] = Idle
        BY <1>1, <3>2
      <4> QED BY <1>2, <2>1, <2>4, <4>1 DEF TaskOK
    <3>3. CASE k \in ToSet(ChannelsFor(a))
      <4> PICK c2 : c2 = Send(Idle, M)
        OBVIOUS
      <4> HIDE DEF M
      <4>1. /\ c2 \in TaskType /\ c2.todo = M /\ c2.attempt = 1 /\ c2.sent = {} /\ c2.failed = {}
            /\ c2.st = IF M = {} THEN "done" ELSE "post"
        BY <1>2, <3>1, SendType
      <4>2. chan'[k] = c2
        BY <1>1, <3>3 DEF M
      <4>3. ASSUME NEW n \in DOMAIN TargetsOf(k)
            PROVE  TargetOK(k, n)'
        <5>1. c2.attempt \in 1..Limit(At(k, n)) /\ c2.attempt - 1 = 0
          BY <4>1, Positions
        <5>2. c2.st \notin {"sleep", "cancelled", "raised"} /\ M \ c2.todo = {}
          BY <4>1
        <5> QED BY <2>4, <3>1, <4>1, <4>2, <5>1, <5>2 DEF TargetOK
      <4>4. c2.st \notin {"idle", "raised"} /\ (c2.st = "done" <=> M = {})
        BY <4>1
      <4>5. chan'[k].sent \cup chan'[k].failed = {} /\ k \notin DOMAIN results'
        BY <1>2, <2>1, <4>1, <4>2
      <4> QED BY <3>1, <4>1, <4>2, <4>3, <4>4, <4>5 DEF TaskOK
    <3> QED BY <3>2, <3>3
  <2>6. ChanOK'
    BY <1>1, <2>5 DEF ChanOK
  <2>7. ASSUME NEW k \in Attached
        PROVE  chan'[k].st # "idle" <=> k \in ToSet(ChannelsFor(a))
    <3>1. Matching(k, a) \in SUBSET Nat
      BY Positions DEF Matching
    <3>2. Send(Idle, Matching(k, a)).st # "idle"
      BY <1>2, <3>1, SendType
    <3> QED BY <1>1, <1>2, <3>2
  <2>8. FlowOK'
    BY <1>1, <1>2, <1>3, <1>5, <2>1, <2>7 DEF FlowOK
  <2> QED BY <2>2, <2>6, <2>8 DEF NotifyInv
<1> QED BY <1>4, <1>5

\* A task that ended by itself has the truth to tell.
LEMMA ResultIsTruth ==
    ASSUME NEW k, TaskOK(k), Ended(chan[k])
    PROVE  TellsTruth(k, alert, ResultOf(chan[k]), Number)
<1> DEFINE c == chan[k]
           M == Matching(k, alert)
           want == {At(k, n) : n \in M}
           r == ResultOf(c)
<1>1. /\ c.todo \subseteq M /\ M \subseteq DOMAIN TargetsOf(k)
      /\ c.sent \cup c.failed \subseteq {At(k, n) : n \in M \ c.todo}
      /\ c.st = "done" <=> c.todo = {}
      /\ c.st = "raised" => \E n \in c.todo : Raising(At(k, n), Number)
      /\ \A n \in DOMAIN TargetsOf(k) : TargetOK(k, n)
      /\ c.st \in {"done", "raised"}
  BY DEF TaskOK, Ended, Matching
<1>2. r.error = (c.st = "raised") /\ r.sent = (c.st = "done" /\ c.sent # {}) /\ r.ok = c.sent /\ r.failed = c.failed
  BY DEF ResultOf
<1> HIDE DEF r
<1>3. CASE c.st = "raised"
  <2>1. \E t \in want : Raising(t, Number)
    BY <1>1, <1>3
  <2> HIDE DEF want
  <2>2. r.error /\ ~r.sent
    BY <1>2, <1>3
  <2> QED BY <2>1, <2>2, Zenon DEF TellsTruth, r, want, At
<1>4. CASE c.st = "done"
  <2>1. ASSUME NEW t \in want
        PROVE  ~Raising(t, Number) /\ (t \in c.sent <=> Took(t, Number)) /\ (t \in c.failed <=> ~Took(t, Number))
    BY <1>1, <1>4 DEF TargetOK
  <2>2. c.sent \subseteq want /\ c.failed \subseteq want
    BY <1>1
  <2> HIDE DEF want
  <2>3. /\ (c.sent # {}) <=> \E t \in want : Took(t, Number)
        /\ ~\E t \in want : Raising(t, Number)
        /\ c.sent = {t \in want : Took(t, Number)} /\ c.failed = want \ c.sent
    BY <2>1, <2>2
  <2>4. ~r.error /\ (r.sent <=> c.sent # {})
    BY <1>2, <1>4
  <2>5. r.ok = {t \in want : Took(t, Number)} /\ r.failed = want \ r.ok
    BY <1>2, <2>3
  <2> QED BY <2>3, <2>4, <2>5, Zenon DEF TellsTruth, r, want, At
<1> QED BY <1>1, <1>3, <1>4

LEMMA AwaitKeeps ==
    ASSUME NotifyInv, NEW i \in tasks, Await(i)
    PROVE  NotifyInv'
<1> PICK a, k, b : a = alert /\ k = ChannelsFor(a)[i] /\ b = Number
  OBVIOUS
<1> PICK rs : rs = [q \in DOMAIN results \cup {k} |->
                       IF q = k THEN ResultOf(chan[k]) ELSE results[q]]
  OBVIOUS
<1>1. /\ pc = "dispatching" /\ Ended(chan[k]) /\ tasks' = tasks \ {i}
      /\ chan' = [chan EXCEPT ![k] = Idle] /\ UNCHANGED <<posts, deadLetters>>
      /\ IF tasks = {i} THEN Return(a, rs)
         ELSE results' = rs /\ UNCHANGED <<pc, alert, returned>>
  BY DEF Await
<1>2. /\ a \in Alerts /\ tasks \subseteq Routed(a)
      /\ DOMAIN results = {ChannelsFor(a)[n] : n \in Routed(a) \ tasks}
      /\ \A q \in Attached : chan[q].st # "idle" <=> \E n \in tasks : ChannelsFor(a)[n] = q
      /\ chan \in [Attached -> TaskType] /\ \A q \in Attached : TaskOK(q)
  BY <1>1 DEF NotifyInv, FlowOK, ChanOK
<1>3. /\ k \in Attached /\ Routed(a) \subseteq DOMAIN ChannelsFor(a)
      /\ \A n \in Routed(a) : n # i => ChannelsFor(a)[n] # k
      /\ k \notin DOMAIN results
  BY <1>2, Channels DEF Routed, IsInjective
<1>4. TellsTruth(k, a, ResultOf(chan[k]), b)
  BY <1>1, <1>2, <1>3, ResultIsTruth
<1>5. /\ DOMAIN rs = DOMAIN results \cup {k} /\ rs[k] = ResultOf(chan[k])
      /\ \A q \in DOMAIN results : rs[q] = results[q]
  BY <1>3
<1>6. Idle \in TaskType /\ Idle.st = "idle"
  BY DEF Idle, TaskType
<1>7. chan' \in [Attached -> TaskType] /\ chan'[k] = Idle /\ \A q \in Attached : q # k => chan'[q] = chan[q]
  BY <1>1, <1>2, <1>3, <1>6
<1>8. DOMAIN rs = {ChannelsFor(a)[n] : n \in Routed(a) \ (tasks \ {i})}
  BY <1>2, <1>5
<1>9. \A q \in Attached : chan'[q].st # "idle" <=> \E n \in tasks \ {i} : ChannelsFor(a)[n] = q
  BY <1>2, <1>3, <1>6, <1>7
<1>10. CASE tasks = {i}
  <2>1. Return(a, rs) /\ tasks' = {}
    BY <1>1, <1>10
  <2>2. DOMAIN rs = ToSet(ChannelsFor(a)) \cap Attached
    BY <1>2, <1>8, <1>10, RoutedAll
  <2>3. ASSUME NEW q \in DOMAIN results
        PROVE  TellsTruth(q, a, results[q], b)
    <3>1. q \in Attached /\ chan[q].st = "idle"
      BY <1>2, <1>3, <1>10 DEF Routed
    <3> QED BY <1>2, <2>3, <3>1 DEF TaskOK
  <2>4. \A q \in DOMAIN rs : TellsTruth(q, a, rs[q], Number)
    BY <1>4, <1>5, <2>3
  <2>5. /\ PostsOK' /\ DeadOK' /\ RetryDiscipline' /\ ReportTruthful'
        /\ \A t \in Targets : Untouched(t)'
    BY <1>1, <2>1, <2>2, <2>4, ReturnKeeps
  <2>6. /\ pc' = "idle" /\ results' = <<>> /\ \A q \in Attached : chan'[q].st = "idle"
    BY <1>9, <1>10, <2>1 DEF Return
  <2>7. ChanOK'
    BY <1>7, <2>5, <2>6, FreshTasks DEF ChanOK
  <2>8. FlowOK'
    BY <2>1, <2>6 DEF FlowOK
  <2> QED BY <2>5, <2>7, <2>8 DEF NotifyInv
<1>11. CASE tasks # {i}
  <2>1. results' = rs /\ pc' = "dispatching" /\ alert' = a /\ returned' = returned
    BY <1>1, <1>11
  <2>2. PostsOK' /\ DeadOK' /\ RetryDiscipline' /\ ReportTruthful'
    BY <1>1, <2>1, QuietHistory
  <2>3. Number' = b /\ \A q : \A n : SamePosts(q, n, b)
    BY <1>1, <2>1, QuietPosts
  <2>4. \A q \in Attached : q # k => TaskOK(q)'
    <3> SUFFICES ASSUME NEW q \in Attached, q # k
                 PROVE  TaskOK(q)'
      OBVIOUS
    <3>1. TaskOK(q) /\ chan'[q] = chan[q] /\ (q \in DOMAIN results' <=> q \in DOMAIN results)
      BY <1>2, <1>5, <1>7, <2>1
    <3>2. CASE q \in DOMAIN results
      <4>1. results'[q] = results[q]
        BY <1>5, <2>1, <3>2
      <4> QED BY <2>1, <2>3, <3>1, <4>1, TaskStays
    <3>3. CASE q \notin DOMAIN results
      <4>1. CASE chan[q].st = "idle"
        <5>1. \A n \in DOMAIN TargetsOf(q) : Untouched(At(q, n))'
          BY <2>3, <3>1, <3>3, <4>1 DEF TaskOK, SamePosts, Untouched, PostsOf
        <5> QED BY <3>1, <3>3, <4>1, <5>1 DEF TaskOK
      <4>2. CASE chan[q].st # "idle"
        <5>1. \A n \in DOMAIN TargetsOf(q) : TargetOK(q, n)'
          BY <2>1, <2>3, <3>1, <4>2, TargetStays DEF TaskOK
        <5>2. \A n : Raising(At(q, n), Number)' <=> Raising(At(q, n), Number)
          BY <2>3 DEF SamePosts, Raising, PostsOf
        <5>3. Matching(q, alert)' = Matching(q, alert)
          BY <2>1 DEF Matching
        <5>4. /\ chan[q].todo \subseteq Matching(q, alert)
              /\ chan[q].sent \cup chan[q].failed \subseteq {At(q, j) : j \in Matching(q, alert) \ chan[q].todo}
              /\ chan[q].st = "done" <=> chan[q].todo = {}
              /\ chan[q].st = "raised" => \E j \in chan[q].todo : Raising(At(q, j), Number)'
          BY <3>1, <4>2, <5>2 DEF TaskOK
        <5> QED BY <3>1, <3>3, <4>2, <5>1, <5>3, <5>4 DEF TaskOK, At
      <4> QED BY <4>1, <4>2
    <3> QED BY <3>2, <3>3
  <2>5. TaskOK(k)'
    <3> PICK r : r = ResultOf(chan[k])
      OBVIOUS
    <3>1. TellsTruth(k, a, r, b)'
      BY <1>4, <2>3, TruthStays DEF SamePosts
    <3>2. TellsTruth(k, alert, results[k], Number)'
      BY <1>5, <2>1, <2>3, <3>1 DEF TellsTruth, Took, Raising, PostsOf, Matching
    <3> QED BY <1>5, <1>6, <1>7, <2>1, <3>2 DEF TaskOK
  <2>6. ChanOK'
    BY <1>7, <2>4, <2>5 DEF ChanOK
  <2>7. FlowOK'
    <3>1. tasks' # {} /\ tasks' \subseteq Routed(a)
      BY <1>1, <1>2, <1>11
    <3>2. DOMAIN results' = {ChannelsFor(a)[n] : n \in Routed(a) \ tasks'}
      BY <1>1, <1>8, <2>1
    <3>3. \A q \in Attached : chan'[q].st # "idle" <=> \E n \in tasks' : ChannelsFor(a)[n] = q
      BY <1>1, <1>9
    <3>4. alert' \in Alerts /\ tasks' \subseteq Routed(alert')
      BY <1>2, <2>1, <3>1
    <3>5. DOMAIN results' = {ChannelsFor(alert')[n] : n \in Routed(alert') \ tasks'}
      BY <2>1, <3>2, Zenon
    <3>6. \A q \in Attached :
             chan'[q].st # "idle" <=> \E n \in tasks' : ChannelsFor(alert')[n] = q
      BY <2>1, <3>3, Zenon
    <3> QED BY <2>1, <3>1, <3>4, <3>5, <3>6 DEF FlowOK
  <2> QED BY <2>2, <2>6, <2>7 DEF NotifyInv
<1> QED BY <1>10, <1>11

\* A stop, of the awaited task or of whatever still runs.
LEMMA StopKeeps ==
    ASSUME NotifyInv, UNCHANGED <<alert, tasks, results, deadLetters, posts, returned>>,
           pc' \in {"closing", "closed"}, chan' = [k \in Attached |-> chan'[k]],
           \A k \in Attached : \/ chan'[k] = chan[k]
                               \/ chan[k].st # "idle" /\ chan'[k] = Interrupted(chan[k])
    PROVE  NotifyInv'
<1> PICK b : b = Number
  OBVIOUS
<1>1. Number' = b /\ \A q : \A n : SamePosts(q, n, b)
  BY QuietPosts
<1>2. \A k \in Attached : TaskOK(k) /\ chan[k] \in TaskType
  BY DEF NotifyInv, ChanOK
<1>3. ASSUME NEW k \in Attached
      PROVE  TaskOK(k)' /\ chan'[k] \in TaskType
  <2>1. CASE chan'[k] = chan[k]
    BY <1>1, <1>2, <2>1, TaskStays
  <2>2. CASE chan[k].st # "idle" /\ chan'[k] = Interrupted(chan[k])
    BY <2>2, InterruptKeeps
  <2> QED BY <2>1, <2>2
<1>4. ChanOK'
  BY <1>3 DEF ChanOK
<1>5. FlowOK'
  BY DEF FlowOK
<1> QED BY <1>4, <1>5, QuietHistory DEF NotifyInv

LEMMA CancelKeeps ==
    ASSUME NotifyInv, Cancel
    PROVE  NotifyInv'
<1>1. ASSUME NEW k \in Attached, Awaited(k)
      PROVE  chan[k].st # "idle"
  <2>1. pc \in {"idle", "dispatching"} /\ FlowOK
    BY DEF Cancel, NotifyInv
  <2> QED BY <1>1, <2>1 DEF Awaited, FlowOK
<1>2. \A k \in Attached : chan'[k] = IF Awaited(k) THEN Interrupted(chan[k]) ELSE chan[k]
  BY DEF Cancel
<1>3. /\ UNCHANGED <<alert, tasks, results, deadLetters, posts, returned>>
      /\ pc' \in {"closing", "closed"} /\ chan' = [k \in Attached |-> chan'[k]]
  BY DEF Cancel
<1> QED BY <1>1, <1>2, <1>3, StopKeeps

LEMMA CloseKeeps ==
    ASSUME NotifyInv, Close
    PROVE  NotifyInv'
<1>1. \A k \in Attached : chan'[k] = IF chan[k].st = "idle" THEN chan[k] ELSE Interrupted(chan[k])
  BY DEF Close
<1>2. /\ UNCHANGED <<alert, tasks, results, deadLetters, posts, returned>>
      /\ pc' \in {"closing", "closed"} /\ chan' = [k \in Attached |-> chan'[k]]
  BY DEF Close
<1> QED BY <1>1, <1>2, StopKeeps

LEMMA StepNotify == NotifyInv /\ [Next]_vars => NotifyInv'
<1> SUFFICES ASSUME NotifyInv, [Next]_vars
             PROVE  NotifyInv'
  OBVIOUS
<1>1. ASSUME NEW a \in Alerts, Dispatch(a)
      PROVE  NotifyInv'
  BY <1>1, DispatchKeeps
<1>2. ASSUME NEW k \in Attached, Channel(k)
      PROVE  NotifyInv'
  BY <1>2, ChannelKeeps
<1>3. ASSUME NEW i \in tasks, Await(i)
      PROVE  NotifyInv'
  BY <1>3, AwaitKeeps
<1>4. CASE Cancel
  BY <1>4, CancelKeeps
<1>5. CASE Close
  BY <1>5, CloseKeeps
<1>6. CASE UNCHANGED vars
  <2>1. /\ UNCHANGED <<pc, alert, tasks, results, deadLetters, posts, returned>> /\ chan' = chan
    BY <1>6 DEF vars
  <2> PICK b : b = Number
    OBVIOUS
  <2>2. Number' = b /\ \A q : \A n : SamePosts(q, n, b)
    BY <2>1, QuietPosts
  <2>3. \A k \in Attached : TaskOK(k)'
    BY <2>1, <2>2, TaskStays DEF NotifyInv, ChanOK
  <2>4. ChanOK'
    BY <2>1, <2>3 DEF NotifyInv, ChanOK
  <2>5. FlowOK'
    BY <2>1, FlowStays DEF NotifyInv
  <2> QED BY <2>1, <2>4, <2>5, QuietHistory DEF NotifyInv
<1> QED BY <1>1, <1>2, <1>3, <1>4, <1>5, <1>6 DEF Next

LEMMA NotifySafe == Spec => []NotifyInv
BY InitNotify, StepNotify, PTL DEF Spec

\* No target is tried more often than configured, none after it confirmed or its
\* send raised, and no retry overtakes a later alert's posts: the loops of
\* WebhookChannel.send and _attempt_with_retry, and DingTalk's single attempt.
THEOREM RetriesDisciplined == Spec => []RetryDiscipline
<1>1. NotifyInv => RetryDiscipline
  BY DEF NotifyInv
<1> QED BY <1>1, NotifySafe, PTL

\* A dead letter for exactly the endpoints that got every attempt in vain, one
\* each, however often the bus was interrupted: WebhookChannel.send's
\* dead_letter.record.
THEOREM DeadLettersExact == Spec => []DeadLetterIffExhausted
<1>1. NotifyInv => DeadLetterIffExhausted
  BY DEF NotifyInv, DeadOK
<1> QED BY <1>1, NotifySafe, PTL

\* What dispatch() returned of each channel is what its targets answered, with
\* the other channel running beside it: NotificationBus.dispatch and both send().
THEOREM ReportsTruthful == Spec => []ReportTruthful
<1>1. NotifyInv => ReportTruthful
  BY DEF NotifyInv
<1> QED BY <1>1, NotifySafe, PTL
=============================================================================
