---------------------------- MODULE StartupProofs ----------------------------
(***************************************************************************)
(* For any number of processes and of migrations: the invariants of        *)
(* Startup.  The induction needs what a process knows at each place: while *)
(* it migrates, every migration before its own is recorded; before it      *)
(* records one, that one has taken effect.  Both sets only grow, so that   *)
(* other processes cannot take this knowledge away.                        *)
(***************************************************************************)
EXTENDS Startup, TLAPS

\* Whoever sleeps has another attempt.
SleepersRetry ==
    \A p \in Processes : place[p] = "sleeping" => try[p] < Attempts - 1

\* What a process knows at its place.
Knows(p) ==
    /\ place[p] \in Migrating => 1..(at[p] - 1) \subseteq recorded
    /\ place[p] \in {"exec", "record"} => at[p] \in Migrations
    /\ place[p] = "record" => at[p] \in applied
    /\ place[p] = "ready" => recorded = Migrations
Knowledge == \A p \in Processes : Knows(p)

\* The inductive invariant.
IInv == TypeOK /\ SleepersRetry /\ Knowledge /\ OneAhead

\* There is at least one attempt, whatever the setting is.
LEMMA AttemptsPositive == Attempts \in Nat \ {0}
  BY ConnectAssumption DEF Attempts

\* A process only ever finds the next migration unrecorded.
LEMMA NextIsNext ==
    ASSUME NEW r \in 0..N, NEW m \in Migrations, 1..(m - 1) \subseteq 1..r
    PROVE  /\ m \in 1..(r + 1)
           /\ m \notin 1..r => m = r + 1
  BY SizeAssumption DEF Migrations

LEMMA InitInv == Init => IInv
<1> SUFFICES ASSUME Init PROVE IInv
  OBVIOUS
<1> USE AttemptsPositive, SizeAssumption
<1>1. TypeOK
  BY DEF Init, TypeOK, Places, Migrations
<1>2. SleepersRetry
  BY DEF Init, SleepersRetry
<1>3. Knowledge
  BY DEF Init, Knowledge, Knows, Migrating
<1>4. OneAhead
  <2>1. recorded = 1..0 /\ applied = 1..0
    BY DEF Init
  <2> QED
    BY <2>1 DEF OneAhead
<1> QED
  BY <1>1, <1>2, <1>3, <1>4 DEF IInv

\* The types.
LEMMA StepType == IInv /\ [Next]_vars => TypeOK' /\ SleepersRetry'
<1> SUFFICES ASSUME IInv, [Next]_vars
             PROVE  TypeOK' /\ SleepersRetry'
  OBVIOUS
<1> TypeOK /\ SleepersRetry /\ Knowledge
  BY DEF IInv
<1> USE AttemptsPositive, SizeAssumption DEF TypeOK, SleepersRetry, database, Places
<1>1. CASE ReachableChanges
  BY <1>1 DEF ReachableChanges
<1>2. CASE TroubleEnds
  BY <1>2 DEF TroubleEnds
<1>3. ASSUME NEW p \in Processes, Launch(p)
      PROVE  TypeOK' /\ SleepersRetry'
  BY <1>3 DEF Launch, Goto
<1>4. ASSUME NEW p \in Processes, Ends(p)
      PROVE  TypeOK' /\ SleepersRetry'
  BY <1>4 DEF Ends, Goto
<1>5. ASSUME NEW p \in Processes, Connects(p)
      PROVE  TypeOK' /\ SleepersRetry'
  BY <1>5 DEF Connects, Goto
<1>6. ASSUME NEW p \in Processes, ConnectFails(p)
      PROVE  TypeOK' /\ SleepersRetry'
  BY <1>6 DEF ConnectFails, Goto
<1>7. ASSUME NEW p \in Processes, Wakes(p)
      PROVE  TypeOK' /\ SleepersRetry'
  BY <1>7 DEF Wakes, Goto
<1>8. ASSUME NEW p \in Processes, CheckMissing(p)
      PROVE  TypeOK' /\ SleepersRetry'
  BY <1>8 DEF CheckMissing, Goto
<1>9. ASSUME NEW p \in Processes, CheckFound(p)
      PROVE  TypeOK' /\ SleepersRetry'
  BY <1>9 DEF CheckFound, Goto, Migrations
<1>10. ASSUME NEW p \in Processes, Exec(p)
       PROVE  TypeOK' /\ SleepersRetry'
  BY <1>10 DEF Exec, Goto, Knowledge, Knows
<1>11. ASSUME NEW p \in Processes, Record(p)
       PROVE  TypeOK' /\ SleepersRetry'
  <2>1. at[p] \in Migrations
    BY <1>11 DEF Record, Knowledge, Knows
  <2>2. at[p] + 1 \in 1..(N + 1)
    BY <2>1 DEF Migrations
  <2>3. at' \in [Processes -> 1..(N + 1)]
    BY <1>11, <2>2 DEF Record
  <2>4. recorded' \subseteq Migrations
    BY <1>11, <2>1 DEF Record
  <2>5. place' \in [Processes -> Places]
    BY <1>11 DEF Record, Goto
  <2>6. SleepersRetry'
    BY <1>11 DEF Record, Goto
  <2> QED
    BY <1>11, <2>3, <2>4, <2>5, <2>6 DEF Record
<1>12. ASSUME NEW p \in Processes, Ready(p)
       PROVE  TypeOK' /\ SleepersRetry'
  BY <1>12 DEF Ready, Goto
<1>13. CASE UNCHANGED vars
  BY <1>13 DEF vars
<1> QED
  BY <1>1, <1>2, <1>3, <1>4, <1>5, <1>6, <1>7, <1>8, <1>9, <1>10, <1>11, <1>12, <1>13
     DEF Next, Run, Connecting, MigrationStep

\* What other processes do takes no knowledge away: the two sets only grow,
\* within the migrations.
LEMMA KnowledgeStays ==
    ASSUME IInv, TypeOK', NEW q \in Processes,
           place'[q] = place[q], at'[q] = at[q],
           recorded \subseteq recorded', applied \subseteq applied'
    PROVE  Knows(q)'
  BY DEF IInv, TypeOK, Knowledge, Knows

\* Each process's knowledge at its next place.
LEMMA StepKnows == IInv /\ [Next]_vars => Knowledge'
<1> SUFFICES ASSUME IInv, [Next]_vars
             PROVE  Knowledge'
  OBVIOUS
<1> TypeOK' /\ TypeOK /\ Knowledge
  BY StepType DEF IInv
<1> USE SizeAssumption DEF database, TypeOK, Places
<1>1. CASE ReachableChanges
  BY <1>1, KnowledgeStays DEF ReachableChanges, Knowledge
<1>2. CASE TroubleEnds
  BY <1>2, KnowledgeStays DEF TroubleEnds, Knowledge
<1>3. ASSUME NEW p \in Processes, Run(p) \/ Launch(p) \/ Ends(p)
      PROVE  Knowledge'
  <2>1. /\ recorded \subseteq recorded' /\ applied \subseteq applied'
        /\ \A q \in Processes \ {p} : place'[q] = place[q] /\ at'[q] = at[q]
    BY <1>3 DEF Run, Connecting, MigrationStep, Launch, Ends, Connects, ConnectFails, Wakes,
                CheckMissing, CheckFound, Exec, Record, Ready, Goto
  <2>2. \A q \in Processes \ {p} : Knows(q)'
    BY <2>1, KnowledgeStays
  <2>3. Knows(p)'
    <3> Knows(p)
      BY DEF Knowledge
    <3>1. CASE Launch(p) \/ Ends(p) \/ ConnectFails(p) \/ Wakes(p)
      BY <3>1 DEF Launch, Ends, ConnectFails, Wakes, Goto, Knows, Migrating
    <3>2. CASE Connects(p)
      BY <3>2 DEF Connects, Goto, Knows, Migrating
    <3>3. CASE CheckMissing(p)
      BY <3>3 DEF CheckMissing, Goto, Knows, Migrating
    <3>4. CASE CheckFound(p)
      BY <3>4 DEF CheckFound, Goto, Knows, Migrating, Migrations
    <3>5. CASE Exec(p)
      BY <3>5 DEF Exec, Goto, Knows, Migrating
    <3>6. CASE Record(p)
      BY <3>6 DEF Record, Goto, Knows, Migrating, Migrations
    <3>7. CASE Ready(p)
      <4>1. /\ place'[p] = "ready" /\ recorded' = recorded
            /\ place[p] = "check" /\ at[p] = N + 1
        BY <3>7 DEF Ready, Goto
      <4>2. 1..N \subseteq recorded
        <5> (N + 1) - 1 = N
          OBVIOUS
        <5> QED
          BY <4>1 DEF Knows, Migrating
      <4> QED
        BY <4>1, <4>2 DEF Knows, Migrating, Migrations
    <3> QED
      BY <1>3, <3>1, <3>2, <3>3, <3>4, <3>5, <3>6, <3>7
         DEF Run, Connecting, MigrationStep
  <2> QED
    BY <2>2, <2>3 DEF Knowledge
<1>4. CASE UNCHANGED vars
  BY <1>4, KnowledgeStays DEF vars, Knowledge
<1> QED
  BY <1>1, <1>2, <1>3, <1>4 DEF Next

\* The order of the migrations: only Exec and Record touch it.
LEMMA StepAhead == IInv /\ [Next]_vars => OneAhead'
<1> SUFFICES ASSUME IInv, [Next]_vars
             PROVE  OneAhead'
  OBVIOUS
<1> TypeOK /\ Knowledge
  BY DEF IInv
<1> PICK r \in 0..N : recorded = 1..r /\ applied \in {1..r, 1..(r + 1)}
  BY DEF IInv, OneAhead
<1> USE SizeAssumption
<1>1. CASE UNCHANGED database
  BY <1>1 DEF database, OneAhead
<1>2. ASSUME NEW p \in Processes, Exec(p)
      PROVE  OneAhead'
  <2>1. at[p] \in Migrations /\ 1..(at[p] - 1) \subseteq 1..r
    BY <1>2 DEF Exec, Knowledge, Knows, Migrating
  <2>2. at[p] \in 1..(r + 1) /\ (at[p] \notin 1..r => at[p] = r + 1)
    BY <2>1, NextIsNext
  <2>3. 1..r \cup {r + 1} = 1..(r + 1)
    OBVIOUS
  <2>4. applied' \in {1..r, 1..(r + 1)}
    BY <1>2, <2>2, <2>3 DEF Exec
  <2> QED
    BY <1>2, <2>4 DEF Exec, OneAhead
<1>3. ASSUME NEW p \in Processes, Record(p)
      PROVE  OneAhead'
  <2>1. CASE at[p] \in recorded
    BY <1>3, <2>1 DEF Record, OneAhead
  <2>2. CASE at[p] \notin recorded
    <3>1. at[p] \in Migrations /\ 1..(at[p] - 1) \subseteq 1..r /\ at[p] \in applied
      BY <1>3 DEF Record, Knowledge, Knows, Migrating
    <3>2. at[p] = r + 1
      BY <2>2, <3>1, NextIsNext
    <3>3. r + 1 \in 0..N /\ 1..r \cup {r + 1} = 1..(r + 1)
      BY <3>1, <3>2 DEF Migrations
    <3>4. applied = 1..(r + 1)
      BY <3>1, <3>2
    <3>5. recorded' = 1..(r + 1) /\ applied' = 1..(r + 1)
      BY <1>3, <2>2, <3>2, <3>3, <3>4 DEF Record
    <3> QED
      BY <3>3, <3>5 DEF OneAhead
  <2> QED
    BY <2>1, <2>2
<1>4. ASSUME NEW p \in Processes, Run(p) \/ Launch(p) \/ Ends(p), ~Exec(p), ~Record(p)
      PROVE  UNCHANGED database
  BY <1>4 DEF Run, Connecting, MigrationStep, Launch, Ends, Connects, ConnectFails, Wakes,
              CheckMissing, CheckFound, Ready, database
<1> QED
  BY <1>1, <1>2, <1>3, <1>4
     DEF Next, ReachableChanges, TroubleEnds, Run, MigrationStep, vars

LEMMA Inductive == Spec => []IInv
<1>1. IInv /\ [Next]_vars => IInv'
  BY StepType, StepKnows, StepAhead DEF IInv
<1> QED
  BY InitInv, <1>1, PTL DEF Spec

\* Counters, places and both sets of migrations stay in their ranges; a process
\* never makes more attempts to connect than it is set to.
THEOREM TypeCorrect == Spec => []TypeOK
<1>1. IInv => TypeOK
  BY DEF IInv
<1> QED
  BY Inductive, <1>1, PTL

\* However many processes migrate one database and wherever they die, the
\* migrations take effect in order and at most one is ahead of its record.
THEOREM OneAheadCorrect == Spec => []OneAhead
<1>1. IInv => OneAhead
  BY DEF IInv
<1> QED
  BY Inductive, <1>1, PTL

\* A process that goes on to accounts and the bot has a complete schema.
THEOREM ReadyIsMigratedCorrect == Spec => []ReadyIsMigrated
<1>1. IInv => ReadyIsMigrated
  BY DEF IInv, Knowledge, Knows, ReadyIsMigrated
<1> QED
  BY Inductive, <1>1, PTL
-----------------------------------------------------------------------------
(* The backoff *)

\* An integer of the word's width is not changed by it.
LEMMA WrapKeeps ==
    ASSUME NEW n \in (-WordSize)..(WordSize - 1)
    PROVE  Wrap(n) = n
<1> DEFINE k == n + WordSize
           w == 2 * WordSize
<1>1. k \in 0..(w - 1) /\ w \in Nat \ {0}
  BY SizeAssumption
<1> HIDE DEF k, w
<1>2. k % w = k
  BY <1>1
<1> QED
  BY <1>2, SizeAssumption DEF k, w, Wrap

\* Twice the width away, it is the integer on the other side.
LEMMA WrapOverflows ==
    ASSUME NEW n \in WordSize..(2 * WordSize - 1)
    PROVE  Wrap(n) = n - 2 * WordSize
<1> DEFINE k == n - WordSize
           w == 2 * WordSize
<1>1. k \in 0..(w - 1) /\ w \in Nat \ {0}
  BY SizeAssumption
<1> HIDE DEF k, w
<1>2. (k + w) % w = k
  BY <1>1
<1>3. n + WordSize = k + w
  BY SizeAssumption DEF k, w
<1> QED
  BY <1>2, <1>3, SizeAssumption DEF k, w, Wrap

LEMMA SleepFits ==
    ASSUME NEW i, Backoff * 2^i \in Backoff..(WordSize - 1)
    PROVE  Sleep(i) <= MaxSleep /\ (Sleep(i) >= Backoff \/ Sleep(i) = MaxSleep)
<1> DEFINE d == Backoff * 2^i
<1>1. Backoff \in Nat \ {0}
  BY ConnectAssumption, SleepAssumption DEF Backoff
<1>2. Sleep(i) = IF Wrap(d) > MaxSleep THEN MaxSleep ELSE Wrap(d)
  BY DEF Sleep
<1> HIDE DEF d
<1>3. d \in Backoff..(WordSize - 1)
  BY DEF d
<1>4. Wrap(d) = d
  BY <1>1, <1>3, WrapKeeps, SizeAssumption
<1> QED
  BY <1>1, <1>2, <1>3, <1>4, SizeAssumption, SleepAssumption

LEMMA SleepOverflows ==
    ASSUME NEW i, Backoff * 2^i \in WordSize..(2 * WordSize - 1)
    PROVE  Sleep(i) < 0
<1> DEFINE d == Backoff * 2^i
<1>1. Sleep(i) = IF Wrap(d) > MaxSleep THEN MaxSleep ELSE Wrap(d)
  BY DEF Sleep
<1> HIDE DEF d
<1>2. d \in WordSize..(2 * WordSize - 1)
  BY DEF d
<1>3. Wrap(d) = d - 2 * WordSize
  BY <1>2, WrapOverflows
<1> QED
  BY <1>1, <1>2, <1>3, SizeAssumption, SleepAssumption

\* For any settings and any width of integers: the wait is in its range until the
\* doubled backoff overflows, and where it first does there is no wait.
THEOREM WaitsUntilOverflowCorrect == Spec => []WaitsUntilOverflow
<1>1. WaitsUntilOverflow
  BY SleepFits, SleepOverflows DEF WaitsUntilOverflow
<1> QED
  BY <1>1, PTL
=============================================================================
