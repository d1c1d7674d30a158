-------------------------- MODULE ConfigCacheProofs --------------------------
(***************************************************************************)
(* Theorems about ConfigCache, for any number of readers and of values and *)
(* for any time to live and latency.                                       *)
(***************************************************************************)
EXTENDS ConfigCache, TLAPS

\* The counters stay within their ranges and the variables keep their types.
THEOREM TypeCorrect == Spec => []TypeOK
<1> USE TimesAssumption DEF Horizon, Never
<1>1. Init => TypeOK
  BY DEF Init, TypeOK, Places
<1>2. TypeOK /\ [Next]_vars => TypeOK'
  <2> SUFFICES ASSUME TypeOK, [Next]_vars PROVE TypeOK'
    OBVIOUS
  <2> USE DEF TypeOK
  <2>1. CASE \E r \in Readers : Step(r)
    <3> PICK r \in Readers : Step(r)
      BY <2>1
    <3>1. CASE Hit(r)
      BY <3>1 DEF Hit, vars
    <3>2. CASE Miss(r)
      BY <3>2 DEF Miss, Places
    <3>3. CASE Query(r)
      BY <3>3 DEF Query, Places
    <3>4. CASE QueryFails(r)
      BY <3>4 DEF QueryFails, Places
    <3>5. CASE Store(r)
      BY <3>5 DEF Store, Places
    <3> QED
      BY <3>1, <3>2, <3>3, <3>4, <3>5 DEF Step
  <2>2. CASE \E v \in Values : Update(v)
    BY <2>2 DEF Update
  <2>3. CASE Tick
    <3>1. since' \in [Values -> 0..Never]
      BY <2>3 DEF Tick, Older
    <3>2. left' \in 0..TTL
      BY <2>3 DEF Tick
    <3>3. age' \in [Readers -> 0..MaxLatency]
      BY <2>3 DEF Tick
    <3> QED
      BY <2>3, <3>1, <3>2, <3>3 DEF Tick
  <2>4. CASE UNCHANGED vars
    BY <2>4 DEF vars
  <2> QED
    BY <2>1, <2>2, <2>3, <2>4 DEF Next
<1> QED
  BY <1>1, <1>2, PTL DEF Spec

\* The entry, and what the readers are about to make of it, were current
\* recently enough, whatever the interleaving of readers, updates and time.
LEMMA StoredRecentCorrect == Spec => []StoredRecent
<1> USE TimesAssumption, ValuesAssumption DEF Horizon, Never
<1>1. Init => StoredRecent
  BY DEF Init, StoredRecent, ReadIsRecent
<1>2. TypeOK /\ StoredRecent /\ [Next]_vars => StoredRecent'
  <2> SUFFICES ASSUME TypeOK, StoredRecent, [Next]_vars PROVE StoredRecent'
    OBVIOUS
  <2>1. ASSUME NEW r \in Readers, Step(r) PROVE StoredRecent'
    <3>1. CASE Hit(r)
      BY <3>1 DEF Hit, vars, StoredRecent, ReadIsRecent
    <3>2. CASE Miss(r)
      BY <3>2 DEF Miss, TypeOK, StoredRecent, ReadIsRecent
    <3>3. CASE Query(r)
      BY <3>3 DEF Query, TypeOK, StoredRecent, ReadIsRecent
    <3>4. CASE QueryFails(r)
      BY <3>4 DEF QueryFails, TypeOK, StoredRecent, ReadIsRecent
    <3>5. CASE Store(r)
      <4>1. /\ got[r] \in Values /\ since[got[r]] <= age[r]
            /\ age[r] \in 0..MaxLatency /\ since[got[r]] \in 0..Never
        BY <3>5 DEF Store, TypeOK, StoredRecent, ReadIsRecent
      <4>2. left' + since'[cached'] <= Horizon
        BY <3>5, <4>1 DEF Store
      <4> QED
        BY <3>5, <4>2 DEF Store, TypeOK, StoredRecent, ReadIsRecent
    <3> QED
      BY <2>1, <3>1, <3>2, <3>3, <3>4, <3>5 DEF Step
  <2>2. ASSUME NEW v \in Values, Update(v) PROVE StoredRecent'
    <3>1. /\ current' = v /\ since' = [since EXCEPT ![v] = 0]
          /\ UNCHANGED <<cached, left, pc, got, age>>
      BY <2>2 DEF Update
    <3>2. \A w \in Values : since'[w] <= since[w] /\ since'[w] \in 0..Never
      BY <3>1 DEF TypeOK
    <3>3. since'[current'] = 0
      BY <3>1 DEF TypeOK
    <3>4. cached # NoValue => left + since'[cached] <= Horizon \/ left = 0
      BY <3>2 DEF TypeOK, StoredRecent
    <3>5. ReadIsRecent'
      BY <3>1, <3>2 DEF TypeOK, StoredRecent, ReadIsRecent
    <3> QED
      BY <3>1, <3>3, <3>4, <3>5 DEF StoredRecent
  <2>3. CASE Tick
    <3>1. /\ \A v \in Values : since'[v] \in 0..Never /\ since'[v] <= since[v] + 1
          /\ since'[current] = 0
      BY <2>3 DEF Tick, Older, TypeOK
    <3>2. cached # NoValue => left' + since'[cached] <= Horizon \/ left' = 0
      BY <2>3, <3>1 DEF Tick, TypeOK, StoredRecent
    <3>3. ReadIsRecent'
      <4> SUFFICES ASSUME NEW r \in Readers, pc[r] = "store"
                   PROVE  since'[got[r]] <= age'[r]
        BY <2>3 DEF Tick, ReadIsRecent
      <4>1. got[r] \in Values /\ since[got[r]] <= age[r]
        BY DEF StoredRecent, ReadIsRecent
      <4>2. age'[r] = age[r] + 1
        BY <2>3 DEF Tick
      <4> QED
        BY <3>1, <4>1, <4>2 DEF TypeOK
    <3> QED
      BY <2>3, <3>1, <3>2, <3>3 DEF Tick, StoredRecent
  <2>4. CASE UNCHANGED vars
    BY <2>4 DEF vars, StoredRecent, ReadIsRecent
  <2> QED
    BY <2>1, <2>2, <2>3, <2>4 DEF Next
<1> QED
  BY <1>1, <1>2, TypeCorrect, PTL DEF Spec

\* No hit returns a configuration that was replaced Horizon ticks ago: a
\* toggle reaches every reader within TTL plus the latency of one read.
THEOREM BoundedStalenessCorrect == Spec => []BoundedStaleness
<1>1. TypeOK /\ StoredRecent => BoundedStaleness
  BY TimesAssumption, ValuesAssumption
  DEF TypeOK, StoredRecent, BoundedStaleness, Fresh, Horizon, Never
<1> QED
  BY <1>1, TypeCorrect, StoredRecentCorrect, PTL

\* What a miss returns was current during that very read.
THEOREM ReadIsRecentCorrect == Spec => []ReadIsRecent
<1>1. StoredRecent => ReadIsRecent
  BY DEF StoredRecent
<1> QED
  BY <1>1, StoredRecentCorrect, PTL
=============================================================================
