------------------------ MODULE ActionExecutorProofs ------------------------
(***************************************************************************)
(* Theorems about ActionExecutor, for any set of submissions, any channel  *)
(* capacities and any number of attempts.                                  *)
(***************************************************************************)
EXTENDS ActionExecutor, SequenceTheorems, FiniteSetTheorems, TLAPS

(***************************************************************************)
(* Channels                                                                *)
(***************************************************************************)

\* Sending puts the value, and nothing else, in the channel.
LEMMA RangeOfAppend ==
    ASSUME NEW S, NEW q \in Seq(S), NEW x \in S
    PROVE  Range(Append(q, x)) = Range(q) \cup {x}
<1>1. Append(q, x) \in Seq(S) /\ Len(Append(q, x)) = Len(q) + 1
  BY AppendProperties
<1>2. /\ \A i \in 1..Len(q) : Append(q, x)[i] = q[i]
      /\ Append(q, x)[Len(q) + 1] = x
  BY AppendProperties
<1>3. Len(q) \in Nat
  BY LenProperties
<1>4. /\ Range(q) = {q[i] : i \in 1..Len(q)}
      /\ Range(Append(q, x)) = {Append(q, x)[i] : i \in 1..(Len(q) + 1)}
  BY <1>1, RangeEquality
<1>5. 1..(Len(q) + 1) = (1..Len(q)) \cup {Len(q) + 1}
  BY <1>3
<1> QED
  BY <1>2, <1>4, <1>5

\* Sending a value that is not in the channel repeats none.
LEMMA NoRepeatsAppend ==
    ASSUME NEW S, NEW q \in Seq(S), NEW x \in S,
           NoRepeats(q), x \notin Range(q)
    PROVE  NoRepeats(Append(q, x))
<1>1. /\ DOMAIN q = 1..Len(q) /\ Len(q) \in Nat
      /\ DOMAIN Append(q, x) = 1..(Len(q) + 1)
  BY AppendProperties, LenProperties
<1>2. /\ \A i \in 1..Len(q) : Append(q, x)[i] = q[i]
      /\ Append(q, x)[Len(q) + 1] = x
  BY AppendProperties
<1>3. \A i \in 1..Len(q) : q[i] # x
  BY <1>1 DEF Range
<1>4. SUFFICES ASSUME NEW i \in 1..(Len(q) + 1), NEW j \in 1..(Len(q) + 1),
                      Append(q, x)[i] = Append(q, x)[j]
               PROVE  i = j
  BY <1>1 DEF NoRepeats
<1>5. CASE i \in 1..Len(q) /\ j \in 1..Len(q)
  BY <1>1, <1>2, <1>4, <1>5 DEF NoRepeats
<1>6. CASE i = Len(q) + 1 /\ j \in 1..Len(q)
  BY <1>2, <1>3, <1>4, <1>6
<1>7. CASE i \in 1..Len(q) /\ j = Len(q) + 1
  BY <1>2, <1>3, <1>4, <1>7
<1> QED
  BY <1>1, <1>5, <1>6, <1>7

\* Receiving from a channel without repetitions takes its head out of it.
LEMMA Received ==
    ASSUME NEW S, NEW q \in Seq(S), q # <<>>, NoRepeats(q)
    PROVE  /\ NoRepeats(Tail(q))
           /\ Range(Tail(q)) = Range(q) \ {Head(q)}
           /\ Head(q) \in Range(q)
<1>1. /\ Tail(q) \in Seq(S) /\ Len(Tail(q)) = Len(q) - 1
      /\ \A i \in 1..(Len(q) - 1) : Tail(q)[i] = q[i + 1]
  BY HeadTailProperties
<1>2. /\ Len(q) \in Nat \ {0} /\ DOMAIN q = 1..Len(q)
      /\ DOMAIN Tail(q) = 1..(Len(q) - 1)
  BY <1>1, LenProperties, EmptySeq
<1>3. Head(q) = q[1]
  BY <1>2
<1>4. \A i, j \in 1..Len(q) : q[i] = q[j] => i = j
  BY <1>2 DEF NoRepeats
<1>5. NoRepeats(Tail(q))
  <2> SUFFICES ASSUME NEW i \in 1..(Len(q) - 1), NEW j \in 1..(Len(q) - 1),
                      Tail(q)[i] = Tail(q)[j]
               PROVE  i = j
    BY <1>2 DEF NoRepeats
  <2>1. q[i + 1] = q[j + 1] /\ i + 1 \in 1..Len(q) /\ j + 1 \in 1..Len(q)
    BY <1>1, <1>2
  <2> QED
    BY <2>1, <1>2, <1>4
<1>6. /\ Range(q) = {q[i] : i \in 1..Len(q)}
      /\ Range(Tail(q)) = {Tail(q)[i] : i \in 1..(Len(q) - 1)}
  BY <1>2 DEF Range
<1>7. Range(Tail(q)) \subseteq Range(q) \ {Head(q)}
  <2> SUFFICES ASSUME NEW i \in 1..(Len(q) - 1)
               PROVE  Tail(q)[i] \in Range(q) \ {Head(q)}
    BY <1>6
  <2>1. Tail(q)[i] = q[i + 1] /\ i + 1 \in 1..Len(q) /\ i + 1 # 1
    BY <1>1, <1>2
  <2>2. 1 \in 1..Len(q)
    BY <1>2
  <2> QED
    BY <2>1, <2>2, <1>3, <1>4, <1>6
<1>8. Range(q) \ {Head(q)} \subseteq Range(Tail(q))
  <2> SUFFICES ASSUME NEW i \in 1..Len(q), q[i] # q[1]
               PROVE  q[i] \in Range(Tail(q))
    BY <1>3, <1>6
  <2>1. i - 1 \in 1..(Len(q) - 1) /\ (i - 1) + 1 = i
    BY <1>2
  <2>2. Tail(q)[i - 1] = q[i]
    BY <2>1, <1>1
  <2> QED
    BY <2>1, <2>2, <1>6
<1>9. Head(q) \in Range(q)
  BY <1>2, <1>3, <1>6
<1> QED
  BY <1>5, <1>7, <1>8, <1>9

\* A channel holds no more values than its length.
LEMMA RangeCardinality ==
    ASSUME NEW S, NEW q \in Seq(S)
    PROVE  /\ IsFiniteSet(Range(q))
           /\ Cardinality(Range(q)) \in Nat
           /\ Cardinality(Range(q)) <= Len(q)
<1>1. Len(q) \in Nat /\ DOMAIN q = 1..Len(q) /\ q \in [1..Len(q) -> S]
  BY LenProperties
<1>2. q \in Surjection(1..Len(q), Range(q))
  BY <1>1 DEF Surjection, Range
<1>3. IsFiniteSet(1..Len(q)) /\ Cardinality(1..Len(q)) = Len(q)
  BY <1>1, FS_Interval
<1>4. IsFiniteSet(Range(q)) /\ Cardinality(Range(q)) <= Cardinality(1..Len(q))
  BY <1>2, <1>3, FS_Surjection
<1> QED
  BY <1>3, <1>4, FS_CardinalityType

(***************************************************************************)
(* Types                                                                   *)
(***************************************************************************)

LEMMA MaxAttemptsPositive == MaxAttempts \in Nat \ {0}
BY AttemptsAssumption DEF MaxAttempts

\* The counters wrap inside their range.
LEMMA CounterSteps ==
    ASSUME NEW n \in 0..(CounterMod - 1)
    PROVE  (n + 1) % CounterMod \in 0..(CounterMod - 1)
BY CounterAssumption

\* execute's return keeps the types of what it writes.
LEMMA FinishTypes ==
    ASSUME TypeOK, FinishOK \/ FinishError
    PROVE  /\ pc' \in Places /\ cur' \in Actions \cup {NoAction}
           /\ attempt' \in Nat /\ refreshing' \in BOOLEAN
           /\ okCount' \in 0..(CounterMod - 1)
           /\ errCount' \in 0..(CounterMod - 1)
           /\ calls' \in Nat
<1>1. /\ pc' = "sleep" /\ cur' = NoAction /\ attempt' = 0
      /\ refreshing' = FALSE /\ calls' = 0
  BY DEF FinishOK, FinishError, Finish
<1>2. okCount' \in 0..(CounterMod - 1) /\ errCount' \in 0..(CounterMod - 1)
  BY CounterSteps DEF FinishOK, FinishError, TypeOK
<1> QED
  BY <1>1, <1>2 DEF Places

\* So does a failed attempt, whatever comes after it.
LEMMA AfterErrorTypes ==
    ASSUME TypeOK, NEW kind, AfterError(kind)
    PROVE  /\ pc' \in Places /\ cur' \in Actions \cup {NoAction}
           /\ attempt' \in Nat /\ refreshing' \in BOOLEAN
           /\ cooling' \in BOOLEAN
           /\ okCount' \in 0..(CounterMod - 1)
           /\ errCount' \in 0..(CounterMod - 1)
           /\ calls' \in Nat
<1>1. CASE FinishError /\ UNCHANGED cooling
  BY <1>1, FinishTypes DEF TypeOK
<1>2. CASE /\ pc' = "backoff"
           /\ UNCHANGED <<cur, attempt, refreshing, cooling, counts, calls>>
  BY <1>2 DEF TypeOK, counts, Places
<1>3. CASE /\ pc' = "try" /\ refreshing' = TRUE /\ cooling' = TRUE
           /\ UNCHANGED <<cur, attempt, counts, calls>>
  BY <1>3 DEF TypeOK, counts, Places
<1> QED
  BY <1>1, <1>2, <1>3 DEF AfterError, GiveUp

\* A send to a channel that has room does not exceed its capacity.
LEMMA SendTypes ==
    ASSUME NEW q \in Seq(Actions), NEW a \in Actions, NEW cap \in Nat,
           Len(q) < cap
    PROVE  Append(q, a) \in Seq(Actions) /\ Len(Append(q, a)) <= cap
BY AppendProperties, LenProperties

\* An offer to the normal channel never exceeds its capacity.
LEMMA OfferTypes ==
    ASSUME TypeOK, NEW a \in Actions, OfferNormal(a)
    PROVE  queue' \in Seq(Actions) /\ Len(queue') <= QueueCap
<1>1. CASE Len(queue) < QueueCap
  BY <1>1, CapsAssumption, SendTypes DEF OfferNormal, TypeOK
<1>2. CASE ~(Len(queue) < QueueCap)
  BY <1>2 DEF OfferNormal, TypeOK
<1> QED
  BY <1>1, <1>2

\* TypeOK is preserved by every action: the channels stay within their
\* capacities and the counters within their width.
THEOREM TypeCorrect == Spec => []TypeOK
<1>1. Init => TypeOK
  <2>1. <<>> \in Seq(Actions) /\ Len(<<>>) = 0
    BY EmptySeq
  <2>2. 0 \in 0..(CounterMod - 1) /\ 0 <= HighCap /\ 0 <= QueueCap
    BY CounterAssumption, CapsAssumption
  <2>3. SUFFICES ASSUME Init PROVE TypeOK
    OBVIOUS
  <2>4. /\ highQ \in Seq(Actions) /\ Len(highQ) <= HighCap
        /\ queue \in Seq(Actions) /\ Len(queue) <= QueueCap
    BY <2>1, <2>2, <2>3 DEF Init
  <2>5. ctxDone \in BOOLEAN /\ refreshing \in BOOLEAN /\ cooling \in BOOLEAN
    BY <2>3 DEF Init
  <2>6. pc \in Places /\ attempt \in Nat /\ calls \in Nat /\ lateCalls \in Nat
    BY <2>3 DEF Init, Places
  <2> QED
    BY <2>2, <2>3, <2>4, <2>5, <2>6 DEF Init, TypeOK
<1>2. TypeOK /\ [Next]_vars => TypeOK'
  <2> SUFFICES ASSUME TypeOK, [Next]_vars PROVE TypeOK'
    OBVIOUS
  <2>1. CASE UNCHANGED vars
    BY <2>1 DEF vars, queues, counts, TypeOK
  <2>2. CASE \E a \in Actions : Submit(a)
    <3> PICK a \in Actions : Submit(a)
      BY <2>2
    <3>1. CASE SubmitHigh(a)
      <4>1. highQ' \in Seq(Actions) /\ Len(highQ') <= HighCap
        <5>1. CASE Len(highQ) < HighCap
          BY <3>1, <5>1, CapsAssumption, SendTypes DEF SubmitHigh, TypeOK
        <5>2. CASE ~(Len(highQ) < HighCap)
          BY <3>1, <5>2 DEF SubmitHigh, TypeOK
        <5> QED
          BY <5>1, <5>2
      <4>2. /\ queue' = queue
            /\ overflow' \in Actions \cup {NoAction}
        BY <3>1 DEF SubmitHigh, TypeOK
      <4> QED
        BY <3>1, <4>1, <4>2 DEF SubmitHigh, TypeOK, counts
    <3>2. CASE SubmitNormal(a)
      BY <3>2, OfferTypes DEF SubmitNormal, TypeOK, counts
    <3> QED
      BY <3>1, <3>2 DEF Submit
  <2>3. CASE Cancel \/ CooldownExpires
    BY <2>3 DEF Cancel, CooldownExpires, TypeOK, queues, counts
  <2>4. CASE SpillHigh
    <3>1. overflow \in Actions
      BY <2>4 DEF SpillHigh, TypeOK
    <3> QED
      BY <2>4, <3>1, OfferTypes DEF SpillHigh, TypeOK, counts
  <2>5. CASE LoopTop \/ SelectDone \/ SleepOver
    BY <2>5 DEF LoopTop, SelectDone, SleepOver, TypeOK, queues, counts, Places
  <2>6. CASE TakeHigh
    <3>1. Head(highQ) \in Actions /\ Tail(highQ) \in Seq(Actions)
          /\ Len(Tail(highQ)) <= HighCap
      BY <2>6, HeadTailProperties, LenProperties, CapsAssumption
      DEF TakeHigh, TypeOK
    <3> QED
      BY <2>6, <3>1
      DEF TakeHigh, Execute, TypeOK, counts, Places
  <2>7. CASE TakeNormal
    <3>1. Head(queue) \in Actions /\ Tail(queue) \in Seq(Actions)
          /\ Len(Tail(queue)) <= QueueCap
      BY <2>7, HeadTailProperties, LenProperties, CapsAssumption
      DEF TakeNormal, TypeOK
    <3> QED
      BY <2>7, <3>1
      DEF TakeNormal, Execute, TypeOK, counts, Places
  <2>8. CASE BeginCall
    <3>1. CASE FinishError
      BY <2>8, <3>1, FinishTypes DEF BeginCall, TypeOK, queues
    <3>2. CASE /\ pc' = "wait"
               /\ UNCHANGED <<cur, attempt, refreshing, counts, calls>>
      BY <2>8, <3>2 DEF BeginCall, TypeOK, queues, counts, Places
    <3> QED
      BY <2>8, <3>1, <3>2 DEF BeginCall
  <2>9. CASE LimiterGrant
    BY <2>9 DEF LimiterGrant, TypeOK, queues, counts, Places
  <2>10. CASE LimiterCancelled \/ BackoffCancelled
    BY <2>10, FinishTypes
    DEF LimiterCancelled, BackoffCancelled, TypeOK, queues
  <2>11. CASE Refuse \/ NotFound \/ ReplyError
    <3>1. /\ \E kind : AfterError(kind)
          /\ UNCHANGED <<queues, ctxDone, lateCalls>>
      BY <2>11 DEF Refuse, NotFound, ReplyError
    <3> QED
      BY <3>1, AfterErrorTypes DEF TypeOK, queues
  <2>12. CASE ReplyOK
    <3>1. /\ FinishOK \/ FinishError
          /\ UNCHANGED <<queues, ctxDone, cooling, lateCalls>>
      BY <2>12 DEF ReplyOK
    <3> QED
      BY <3>1, FinishTypes DEF TypeOK, queues
  <2>13. CASE BackoffOver
    BY <2>13 DEF BackoffOver, TypeOK, queues, counts, Places
  <2> QED
    BY <2>1, <2>2, <2>3, <2>4, <2>5, <2>6, <2>7, <2>8, <2>9, <2>10, <2>11,
       <2>12, <2>13
    DEF Next, Environment, Looping, Executing
<1> QED
  BY <1>1, <1>2, PTL DEF Spec

(***************************************************************************)
(* Attempts and calls                                                      *)
(***************************************************************************)

\* A failed attempt leaves the shape of the execution intact.
LEMMA AfterErrorShape ==
    ASSUME TypeOK, ExecutionShape, NEW kind, AfterError(kind),
           pc \in {"try", "wait", "call"}
    PROVE  ExecutionShape'
<1>1. /\ cur # NoAction /\ attempt \in 1..MaxAttempts
      /\ calls <= (IF refreshing THEN attempt + 1 ELSE attempt)
      /\ attempt \in Nat /\ calls \in Nat /\ MaxAttempts \in Nat
  BY MaxAttemptsPositive DEF ExecutionShape, TypeOK
<1>2. CASE FinishError
  BY <1>2 DEF FinishError, Finish, ExecutionShape
<1>3. CASE /\ ~refreshing /\ attempt < MaxAttempts /\ pc' = "backoff"
           /\ UNCHANGED <<cur, attempt, refreshing, cooling, counts, calls>>
  BY <1>1, <1>3 DEF ExecutionShape
<1>4. CASE /\ ~refreshing /\ ~(attempt < MaxAttempts) /\ cur \in Clicks
           /\ pc' = "try" /\ refreshing' = TRUE
           /\ UNCHANGED <<cur, attempt, counts, calls>>
  BY <1>1, <1>4 DEF ExecutionShape
<1> QED
  BY <1>2, <1>3, <1>4 DEF AfterError, GiveUp

\* Every action preserves the relation between the executor's place, the
\* attempt and the number of requests.
LEMMA ExecutionShapeStep ==
    TypeOK /\ ExecutionShape /\ [Next]_vars => ExecutionShape'
<1> SUFFICES ASSUME TypeOK, ExecutionShape, [Next]_vars PROVE ExecutionShape'
  OBVIOUS
<1>1. MaxAttempts \in Nat \ {0} /\ attempt \in Nat /\ calls \in Nat
  BY MaxAttemptsPositive DEF TypeOK
<1>2. CASE UNCHANGED <<pc, cur, attempt, refreshing, calls>>
  BY <1>2 DEF ExecutionShape
<1>3. CASE LoopTop \/ SelectDone \/ SleepOver
  BY <1>3 DEF LoopTop, SelectDone, SleepOver, ExecutionShape
<1>4. CASE TakeHigh \/ TakeNormal
  <2>1. PICK a \in Actions : Execute(a) /\ pc = "select"
    BY <1>4, HeadTailProperties DEF TakeHigh, TakeNormal, TypeOK
  <2>2. a # NoAction
    BY ActionsAssumption
  <2>3. cur = NoAction /\ attempt = 0 /\ calls = 0 /\ ~refreshing
    BY <2>1 DEF ExecutionShape
  <2>4. CASE pc' = "sleep" /\ UNCHANGED <<cur, attempt>>
    BY <2>1, <2>3, <2>4 DEF Execute, ExecutionShape
  <2>5. CASE pc' = "try" /\ cur' = a /\ attempt' = 1
    BY <1>1, <2>1, <2>2, <2>3, <2>5 DEF Execute, ExecutionShape
  <2> QED
    BY <2>1, <2>4, <2>5 DEF Execute
<1>5. CASE FinishError \/ FinishOK
  BY <1>5 DEF FinishError, FinishOK, Finish, ExecutionShape
<1>6. CASE BeginCall
  <2>1. CASE /\ pc = "try" /\ pc' = "wait"
             /\ UNCHANGED <<cur, attempt, refreshing, counts, calls>>
    BY <2>1 DEF ExecutionShape
  <2> QED
    BY <1>5, <1>6, <2>1 DEF BeginCall
<1>7. CASE LimiterGrant
  BY <1>1, <1>7 DEF LimiterGrant, ExecutionShape
<1>8. CASE Refuse \/ NotFound \/ ReplyError
  BY <1>8, AfterErrorShape DEF Refuse, NotFound, ReplyError
<1>9. CASE BackoffOver
  BY <1>1, <1>9 DEF BackoffOver, ExecutionShape
<1>10. CASE SpillHigh \/ Environment
  BY <1>2, <1>10
  DEF SpillHigh, Environment, Submit, SubmitHigh, SubmitNormal, Cancel,
      CooldownExpires
<1>11. CASE UNCHANGED vars
  BY <1>2, <1>11 DEF vars
<1> QED
  BY <1>3, <1>4, <1>5, <1>6, <1>7, <1>8, <1>9, <1>10, <1>11
  DEF Next, Looping, Executing, LimiterCancelled, BackoffCancelled, ReplyOK

LEMMA ShapeCorrect == Spec => []ExecutionShape
<1>1. Init => ExecutionShape
  BY DEF Init, ExecutionShape
<1> QED
  BY <1>1, ExecutionShapeStep, TypeCorrect, PTL DEF Spec

\* One submission costs at most MaxAttempts requests and, for a click whose
\* last attempt was refused with DATA_INVALID, one "/start".
THEOREM CallsBoundedCorrect == Spec => []CallsBounded
<1>1. TypeOK /\ ExecutionShape => CallsBounded
  <2> SUFFICES ASSUME TypeOK, ExecutionShape PROVE CallsBounded
    OBVIOUS
  <2>1. MaxAttempts \in Nat \ {0} /\ attempt \in Nat /\ calls \in Nat
    BY MaxAttemptsPositive DEF TypeOK
  <2>2. CASE cur = NoAction
    BY <2>1, <2>2 DEF ExecutionShape, CallsBounded
  <2>3. CASE cur # NoAction
    <3>1. pc \in {"try", "wait", "call", "backoff"}
      BY <2>3 DEF ExecutionShape, TypeOK, Places
    <3>2. attempt <= MaxAttempts
      BY <2>1, <2>3 DEF ExecutionShape
    <3>3. calls <= (IF refreshing THEN attempt + 1 ELSE attempt)
      BY <2>1, <3>1 DEF ExecutionShape
    <3> QED
      BY <2>1, <3>2, <3>3 DEF ExecutionShape, CallsBounded
  <2> QED
    BY <2>2, <2>3
<1> QED
  BY <1>1, TypeCorrect, ShapeCorrect, PTL

(***************************************************************************)
(* The call that outlives the cancellation                                 *)
(***************************************************************************)

\* Whatever the interleaving of the cancellation with the executor, at most
\* one request is issued after it.
THEOREM LateCallBoundCorrect == Spec => []LateCallBound
<1>1. Init => LateShape
  BY DEF Init, LateShape
<1>2. TypeOK /\ LateShape /\ [Next]_vars => LateShape'
  <2> SUFFICES ASSUME TypeOK, LateShape, [Next]_vars PROVE LateShape'
    OBVIOUS
  <2>1. CASE lateCalls' = lateCalls /\ (pc' = "wait" => pc = "wait")
             /\ (ctxDone' = FALSE => ctxDone = FALSE)
    BY <2>1 DEF LateShape
  <2>2. CASE BeginCall
    <3>1. CASE ctxDone
      BY <2>1, <2>2, <3>1 DEF BeginCall, FinishError, Finish
    <3>2. CASE ~ctxDone
      BY <2>2, <3>2 DEF BeginCall, LateShape
    <3> QED
      BY <3>1, <3>2
  <2>3. CASE LimiterGrant
    BY <2>3 DEF LimiterGrant, LateShape
  <2>4. CASE LimiterCancelled \/ BackoffCancelled \/ BackoffOver \/ ReplyOK
    BY <2>1, <2>4
    DEF LimiterCancelled, BackoffCancelled, BackoffOver, ReplyOK,
        FinishError, FinishOK, Finish
  <2>5. CASE Refuse \/ NotFound \/ ReplyError
    <3>1. PICK kind : AfterError(kind) /\ UNCHANGED <<ctxDone, lateCalls>>
      BY <2>5 DEF Refuse, NotFound, ReplyError
    <3>2. pc' # "wait"
      BY <3>1 DEF AfterError, GiveUp, FinishError, Finish
    <3> QED
      BY <2>1, <3>1, <3>2
  <2>6. CASE Looping
    BY <2>1, <2>6
    DEF Looping, LoopTop, SelectDone, SleepOver, TakeHigh, TakeNormal, Execute
  <2>7. CASE SpillHigh \/ Environment
    BY <2>1, <2>7
    DEF SpillHigh, Environment, Submit, SubmitHigh, SubmitNormal, Cancel,
        CooldownExpires
  <2>8. CASE UNCHANGED vars
    BY <2>1, <2>8 DEF vars
  <2> QED
    BY <2>2, <2>3, <2>4, <2>5, <2>6, <2>7, <2>8 DEF Next, Executing
<1>3. LateShape => LateCallBound
  BY DEF LateShape, LateCallBound
<1> QED
  BY <1>1, <1>2, <1>3, TypeCorrect, PTL DEF Spec

(***************************************************************************)
(* One place for each submission                                           *)
(***************************************************************************)

\* A channel never holds NoAction.
LEMMA NoActionNotQueued ==
    ASSUME TypeOK
    PROVE  NoAction \notin Range(highQ) \cup Range(queue)
<1>1. Range(highQ) \subseteq Actions /\ Range(queue) \subseteq Actions
  BY RangeOfSeq DEF TypeOK
<1> QED
  BY <1>1, ActionsAssumption

\* An offer to the normal channel of a value that is in neither channel, and
\* that the executor does not hold, leaves every value in one place.
LEMMA OfferKeepsPlaces ==
    ASSUME TypeOK, OnePlace, NEW a \in Actions, OfferNormal(a),
           a \notin Range(highQ) \cup Range(queue) \cup {cur}
    PROVE  /\ NoRepeats(queue')
           /\ Range(highQ) \cap Range(queue') = {}
           /\ Range(queue') \subseteq Range(queue) \cup {a}
           /\ cur \notin Range(queue')
<1>1. CASE queue' = Append(queue, a)
  <2>1. Range(queue') = Range(queue) \cup {a} /\ NoRepeats(queue')
    BY <1>1, RangeOfAppend, NoRepeatsAppend DEF TypeOK, OnePlace
  <2> QED
    BY <2>1 DEF OnePlace
<1>2. CASE queue' = queue
  BY <1>2 DEF OnePlace
<1> QED
  BY <1>1, <1>2 DEF OfferNormal

\* The start of execute puts the value it received in the executor's hand,
\* or nowhere.
LEMMA ExecuteHolds ==
    ASSUME NEW a, Execute(a)
    PROVE  cur' \in {cur, a} /\ overflow' = overflow
BY DEF Execute

\* No interleaving of the engine's two selects, the workers' sends and the
\* executor duplicates a submission: each is in at most one channel, once,
\* and is not there while it is executed.
THEOREM OnePlaceCorrect == Spec => []OnePlace
<1>1. Init => OnePlace
  <2>1. Range(<<>>) = {} /\ NoRepeats(<<>>)
    BY DEF Range, NoRepeats
  <2> QED
    BY <2>1 DEF Init, OnePlace
<1>2. TypeOK /\ ExecutionShape /\ OnePlace /\ [Next]_vars => OnePlace'
  <2> SUFFICES ASSUME TypeOK, ExecutionShape, OnePlace, [Next]_vars
               PROVE  OnePlace'
    OBVIOUS
  <2> DEFINE Queued == Range(highQ) \cup Range(queue)
  <2>0. NoAction \notin Queued
    BY NoActionNotQueued
  <2>1. CASE UNCHANGED <<queues, cur>>
    BY <2>1 DEF queues, OnePlace
  <2>2. CASE UNCHANGED queues /\ cur' = NoAction
    BY <2>0, <2>2 DEF queues, OnePlace
  <2>3. CASE \E a \in Actions : Submit(a)
    <3> PICK a \in Actions : Submit(a)
      BY <2>3
    <3>1. a \notin Queued /\ a # overflow /\ a # cur
      BY DEF Submit, Fresh, InSystem
    <3>2. CASE SubmitNormal(a)
      <4>1. UNCHANGED <<highQ, overflow, cur>> /\ OfferNormal(a)
        BY <3>2 DEF SubmitNormal
      <4> QED
        BY <3>1, <4>1, OfferKeepsPlaces DEF OnePlace
    <3>3. CASE /\ highQ' = Append(highQ, a)
               /\ UNCHANGED <<queue, overflow, cur>>
      <4>1. Range(highQ') = Range(highQ) \cup {a} /\ NoRepeats(highQ')
        BY <3>1, <3>3, RangeOfAppend, NoRepeatsAppend DEF TypeOK, OnePlace
      <4> QED
        BY <3>1, <3>3, <4>1 DEF OnePlace
    <3>4. CASE UNCHANGED <<highQ, queue, cur>> /\ overflow' = a
      BY <3>1, <3>4 DEF OnePlace
    <3> QED
      BY <3>2, <3>3, <3>4 DEF Submit, SubmitHigh
  <2>4. CASE SpillHigh
    <3>1. /\ overflow \in Actions /\ overflow # cur
          /\ overflow \notin Queued
      BY <2>4 DEF SpillHigh, TypeOK, OnePlace
    <3>2. /\ OfferNormal(overflow) /\ overflow' = NoAction
          /\ UNCHANGED <<highQ, cur>>
      BY <2>4 DEF SpillHigh
    <3>3. NoAction \notin Range(queue) \cup {overflow}
      BY <2>0, <3>1, ActionsAssumption
    <3> QED
      BY <2>0, <3>1, <3>2, <3>3, OfferKeepsPlaces DEF OnePlace
  <2>5. CASE TakeHigh
    <3>1. /\ highQ # <<>> /\ highQ' = Tail(highQ) /\ queue' = queue
          /\ cur' \in {cur, Head(highQ)} /\ overflow' = overflow
      BY <2>5, ExecuteHolds DEF TakeHigh
    <3>2. /\ NoRepeats(highQ') /\ Range(highQ') = Range(highQ) \ {Head(highQ)}
          /\ Head(highQ) \in Range(highQ)
      BY <3>1, Received DEF TypeOK, OnePlace
    <3> QED
      BY <3>1, <3>2 DEF OnePlace
  <2>6. CASE TakeNormal
    <3>1. /\ queue # <<>> /\ queue' = Tail(queue) /\ highQ' = highQ
          /\ cur' \in {cur, Head(queue)} /\ overflow' = overflow
      BY <2>6, ExecuteHolds DEF TakeNormal
    <3>2. /\ NoRepeats(queue') /\ Range(queue') = Range(queue) \ {Head(queue)}
          /\ Head(queue) \in Range(queue)
      BY <3>1, Received DEF TypeOK, OnePlace
    <3> QED
      BY <3>1, <3>2 DEF OnePlace
  <2>7. CASE LoopTop \/ SelectDone \/ SleepOver \/ Cancel \/ CooldownExpires
    BY <2>1, <2>7
    DEF LoopTop, SelectDone, SleepOver, Cancel, CooldownExpires
  <2>8. CASE Executing
    BY <2>1, <2>2, <2>8
    DEF Executing, BeginCall, Refuse, LimiterGrant, LimiterCancelled,
        NotFound, ReplyOK, ReplyError, BackoffOver, BackoffCancelled, AfterError,
        GiveUp, FinishOK, FinishError, Finish
  <2>9. CASE UNCHANGED vars
    BY <2>1, <2>9 DEF vars
  <2> QED
    BY <2>3, <2>4, <2>5, <2>6, <2>7, <2>8, <2>9
    DEF Next, Environment, Looping
<1> QED
  BY <1>1, <1>2, TypeCorrect, ShapeCorrect, PTL DEF Spec

(***************************************************************************)
(* The executor implements a dispatcher                                    *)
(***************************************************************************)

DV == DispatcherView!vars
DNext == DispatcherView!Next

\* While a channel has room fewer actions wait than the two can hold.
LEMMA RoomToAccept ==
    ASSUME TypeOK, Len(highQ) < HighCap \/ Len(queue) < QueueCap
    PROVE  Cardinality(Range(highQ) \cup Range(queue)) < HighCap + QueueCap
<1>1. /\ IsFiniteSet(Range(highQ)) /\ IsFiniteSet(Range(queue))
      /\ Cardinality(Range(highQ)) \in Nat /\ Cardinality(Range(queue)) \in Nat
      /\ Cardinality(Range(highQ)) <= Len(highQ)
      /\ Cardinality(Range(queue)) <= Len(queue)
  BY RangeCardinality DEF TypeOK
<1>2. /\ Cardinality(Range(highQ) \cup Range(queue)) =
             Cardinality(Range(highQ)) + Cardinality(Range(queue))
                 - Cardinality(Range(highQ) \cap Range(queue))
  BY <1>1, FS_Union
<1>3. Cardinality(Range(highQ) \cap Range(queue)) \in Nat
  <2>1. IsFiniteSet(Range(highQ) \cap Range(queue))
    BY <1>1, FS_Subset
  <2> QED
    BY <2>1, FS_CardinalityType
<1>4. /\ Len(highQ) \in Nat /\ Len(highQ) <= HighCap
      /\ Len(queue) \in Nat /\ Len(queue) <= QueueCap
      /\ HighCap \in Nat /\ QueueCap \in Nat
  BY CapsAssumption, LenProperties DEF TypeOK
<1> QED
  BY <1>1, <1>2, <1>3, <1>4

\* A step that changes neither what waits, nor what runs, nor the counters,
\* nor whether the goroutine has returned, is a stutter of the dispatcher.
LEMMA Stutters ==
    ASSUME UNCHANGED <<highQ, queue, cur, counts>>,
           pc' = "returned" <=> pc = "returned"
    PROVE  UNCHANGED DV
<1>1. (pc = "returned")' = (pc = "returned")
  OBVIOUS
<1> QED
  BY <1>1 DEF DV, DispatcherView!vars, counts

\* A value sent to a channel is accepted by the dispatcher.
LEMMA SendIsAccept ==
    ASSUME TypeOK, NEW a \in Actions,
           a \notin Range(highQ) \cup Range(queue) \cup {cur},
           UNCHANGED <<cur, counts, pc>>,
           \/ Len(highQ) < HighCap /\ highQ' = Append(highQ, a) /\ queue' = queue
           \/ Len(queue) < QueueCap /\ queue' = Append(queue, a) /\ highQ' = highQ
    PROVE  DispatcherView!Accept(a)
<1>1. Cardinality(Range(highQ) \cup Range(queue)) < HighCap + QueueCap
  BY RoomToAccept
<1>2. Range(highQ') \cup Range(queue') = (Range(highQ) \cup Range(queue)) \cup {a}
  <2>1. CASE highQ' = Append(highQ, a) /\ queue' = queue
    <3>1. Range(highQ') = Range(highQ) \cup {a}
      BY <2>1, RangeOfAppend DEF TypeOK
    <3> QED
      BY <2>1, <3>1
  <2>2. CASE queue' = Append(queue, a) /\ highQ' = highQ
    <3>1. Range(queue') = Range(queue) \cup {a}
      BY <2>2, RangeOfAppend DEF TypeOK
    <3> QED
      BY <2>2, <3>1
  <2> QED
    BY <2>1, <2>2
<1>3. Cardinality(Range(highQ) \cup Range(queue)) =
          DispatcherView!Cardinality(Range(highQ) \cup Range(queue))
  BY DEF Cardinality, DispatcherView!Cardinality
<1> QED
  BY <1>1, <1>2, <1>3 DEF DispatcherView!Accept, counts

\* A value received from a channel is begun, or discarded without a peer.
LEMMA ReceiveIsBegin ==
    ASSUME TypeOK, ExecutionShape, NEW a \in Range(highQ) \cup Range(queue),
           pc = "select", Execute(a),
           Range(highQ') \cup Range(queue') =
               (Range(highQ) \cup Range(queue)) \ {a}
    PROVE  DispatcherView!Begin(a) \/ DispatcherView!Discard(a)
<1>1. cur = NoAction /\ UNCHANGED counts /\ pc' # "returned"
  BY DEF ExecutionShape, Execute
<1>2. (pc' = "returned") = (pc = "returned") /\ ~(pc = "returned")
  BY <1>1
<1>3. CASE a \in Peerless
  BY <1>1, <1>2, <1>3 DEF Execute, DispatcherView!Discard, counts
<1>4. CASE a \notin Peerless
  BY <1>1, <1>2, <1>4 DEF Execute, DispatcherView!Begin, counts
<1> QED
  BY <1>3, <1>4

\* execute's return is the dispatcher's completion: one counter, once.
LEMMA FinishIsComplete ==
    ASSUME cur # NoAction, pc # "returned", FinishOK \/ FinishError,
           UNCHANGED queues
    PROVE  DispatcherView!Complete
<1>1. (pc' = "returned") = (pc = "returned")
  BY DEF FinishOK, FinishError, Finish
<1> QED
  BY <1>1 DEF FinishOK, FinishError, Finish, queues, DispatcherView!Complete

\* Seen from its producers the executor is a dispatcher: nothing it accepted
\* is begun twice, one action runs at a time, each run is counted exactly
\* once, and after it has returned nothing begins.
THEOREM Refinement == Spec => IsDispatcher
<1>1. Init => DispatcherView!Init
  <2>1. Range(<<>>) = {}
    BY DEF Range
  <2> QED
    BY <2>1 DEF Init, DispatcherView!Init
<1>2. TypeOK /\ ExecutionShape /\ OnePlace /\ [Next]_vars => [DNext]_DV
  <2> SUFFICES ASSUME TypeOK, ExecutionShape, OnePlace, [Next]_vars
               PROVE  DNext \/ UNCHANGED DV
    OBVIOUS
  <2>1. CASE \E a \in Actions : Submit(a)
    <3> PICK a \in Actions : Submit(a)
      BY <2>1
    <3>1. a \notin Range(highQ) \cup Range(queue) \cup {cur}
      BY DEF Submit, Fresh, InSystem
    <3>2. UNCHANGED <<cur, counts, pc>>
      BY DEF Submit, SubmitHigh, SubmitNormal
    <3>3. \/ Len(highQ) < HighCap /\ highQ' = Append(highQ, a) /\ queue' = queue
          \/ Len(queue) < QueueCap /\ queue' = Append(queue, a) /\ highQ' = highQ
          \/ UNCHANGED <<highQ, queue>>
      BY DEF Submit, SubmitHigh, SubmitNormal, OfferNormal
    <3>4. DispatcherView!Accept(a) \/ UNCHANGED DV
      BY <3>1, <3>2, <3>3, SendIsAccept, Stutters
    <3> QED
      BY <3>4 DEF DNext, DispatcherView!Next
  <2>2. CASE SpillHigh
    <3>1. /\ overflow \in Actions
          /\ overflow \notin Range(highQ) \cup Range(queue) \cup {cur}
      BY <2>2 DEF SpillHigh, TypeOK, OnePlace
    <3>2. UNCHANGED <<cur, counts, pc>>
      BY <2>2 DEF SpillHigh
    <3>3. \/ /\ Len(queue) < QueueCap /\ queue' = Append(queue, overflow)
             /\ highQ' = highQ
          \/ UNCHANGED <<highQ, queue>>
      BY <2>2 DEF SpillHigh, OfferNormal
    <3>4. DispatcherView!Accept(overflow) \/ UNCHANGED DV
      BY <3>1, <3>2, <3>3, SendIsAccept, Stutters
    <3> QED
      BY <3>1, <3>4 DEF DNext, DispatcherView!Next
  <2>3. CASE TakeHigh
    <3> DEFINE a == Head(highQ)
    <3>1. highQ # <<>> /\ highQ' = Tail(highQ) /\ queue' = queue
          /\ pc = "select" /\ Execute(a)
      BY <2>3 DEF TakeHigh
    <3>2. Range(highQ') = Range(highQ) \ {a} /\ a \in Range(highQ)
      BY <3>1, Received DEF TypeOK, OnePlace
    <3>3. a \in Actions
      BY <3>1, HeadTailProperties DEF TypeOK
    <3>4. Range(highQ') \cup Range(queue') =
              (Range(highQ) \cup Range(queue)) \ {a}
      BY <3>1, <3>2 DEF OnePlace
    <3> QED
      BY <3>1, <3>2, <3>3, <3>4, ReceiveIsBegin DEF DNext, DispatcherView!Next
  <2>4. CASE TakeNormal
    <3> DEFINE a == Head(queue)
    <3>1. queue # <<>> /\ queue' = Tail(queue) /\ highQ' = highQ
          /\ pc = "select" /\ Execute(a)
      BY <2>4 DEF TakeNormal
    <3>2. Range(queue') = Range(queue) \ {a} /\ a \in Range(queue)
      BY <3>1, Received DEF TypeOK, OnePlace
    <3>3. a \in Actions
      BY <3>1, HeadTailProperties DEF TypeOK
    <3>4. Range(highQ') \cup Range(queue') =
              (Range(highQ) \cup Range(queue)) \ {a}
      BY <3>1, <3>2 DEF OnePlace
    <3> QED
      BY <3>1, <3>2, <3>3, <3>4, ReceiveIsBegin DEF DNext, DispatcherView!Next
  <2>5. CASE (LoopTop \/ SelectDone) /\ pc' = "returned"
    <3>1. cur = NoAction /\ pc # "returned"
      BY <2>5 DEF LoopTop, SelectDone, ExecutionShape
    <3>2. UNCHANGED <<highQ, queue, cur, counts>>
      BY <2>5 DEF LoopTop, SelectDone, queues
    <3>3. ~(pc = "returned") /\ (pc' = "returned") = TRUE
      BY <2>5, <3>1
    <3>4. DispatcherView!Stop
      BY <3>1, <3>2, <3>3 DEF DispatcherView!Stop, counts
    <3> QED
      BY <3>4 DEF DNext, DispatcherView!Next
  <2>6. CASE (LoopTop \/ SelectDone \/ SleepOver) /\ pc' # "returned"
    BY <2>6, Stutters DEF LoopTop, SelectDone, SleepOver, queues
  <2>7. CASE SleepOver
    BY <2>6, <2>7 DEF SleepOver
  <2>8. CASE Cancel \/ CooldownExpires
    BY <2>8, Stutters DEF Cancel, CooldownExpires, queues
  <2>9. CASE Executing
    <3>1. cur # NoAction /\ pc # "returned" /\ UNCHANGED queues
      BY <2>9
      DEF Executing, BeginCall, Refuse, LimiterGrant, LimiterCancelled,
          NotFound, ReplyOK, ReplyError, BackoffOver, BackoffCancelled, ExecutionShape
    <3>2. \/ FinishOK \/ FinishError
          \/ UNCHANGED <<cur, counts>> /\ pc' # "returned"
      BY <2>9
      DEF Executing, BeginCall, Refuse, LimiterGrant, LimiterCancelled,
          NotFound, ReplyOK, ReplyError, BackoffOver, BackoffCancelled, AfterError,
          GiveUp
    <3>3. DispatcherView!Complete \/ UNCHANGED DV
      BY <3>1, <3>2, FinishIsComplete, Stutters DEF queues
    <3> QED
      BY <3>3 DEF DNext, DispatcherView!Next
  <2>10. CASE UNCHANGED vars
    BY <2>10, Stutters DEF vars, queues
  <2> QED
    BY <2>1, <2>2, <2>3, <2>4, <2>5, <2>6, <2>7, <2>8, <2>9, <2>10
    DEF Next, Environment, Looping
<1> QED
  BY <1>1, <1>2, TypeCorrect, ShapeCorrect, OnePlaceCorrect, PTL
  DEF Spec, IsDispatcher, DispatcherView!Spec, DV, DNext
=============================================================================
