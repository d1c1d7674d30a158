---------------------------- MODULE ClicksProofs ----------------------------
(***************************************************************************)
(* For any messages, texts and capacities: what the game answers to        *)
(* "/start" is heard; what the user says of capturing takes effect within  *)
(* the life of a cached answer; and a label that was seen on a message is  *)
(* pressed while that message is the last one.                             *)
(***************************************************************************)
EXTENDS Clicks, ChannelLemmas, TLAPS

-----------------------------------------------------------------------------
(* The answer to "/start" *)

\* What the messages pass through.
PathType ==
    /\ DOMAIN last = Chats
    /\ arriving \in Messages \cup {None}
    /\ events \in Seq(FromGame)
    /\ IF loop = "idle" THEN taken = None ELSE taken \in FromGame
    /\ loop = "deciding" => state = taken

\* "/start" is sent to a target: from then on no message of the game is dropped.
AskedIsListening == (answered => kicked) /\ (kicked => place = "serving")

HeardInv == PathType /\ AskedIsListening /\ StartIsHeard

LEMMA InitHeard == Init => HeardInv
  BY DEF Init, HeardInv, PathType, AskedIsListening, StartIsHeard

LEMMA ArrivesKeeps ==
    ASSUME HeardInv, NEW m \in Messages, Arrives(m)
    PROVE  HeardInv'
<1> USE DEF HeardInv, Arrives, startVars, loopVars
<1>1. m.chat \in Chats /\ m # None
  BY NoneAssumption DEF Chats
<1>2. PathType' /\ AskedIsListening'
  BY DEF PathType, AskedIsListening
<1>3. last'[m.chat] = m /\ \A c \in Chats \ {m.chat} : last'[c] = last[c]
  BY <1>1 DEF PathType
<1>4. CASE m.chat = Game
  <2>1. Newest' = m
    BY <1>1, <1>4 DEF Newest
  <2> QED
    BY <1>2, <1>3, <1>4, <2>1 DEF StartIsHeard
<1>5. CASE m.chat # Game
  <2>1. Newest' = Newest
    BY <1>5 DEF Newest
  <2>2. last'[Game] = last[Game]
    BY <1>5 DEF PathType
  <2> QED
    BY <1>2, <1>5, <2>1, <2>2 DEF StartIsHeard
<1> QED
  BY <1>4, <1>5

LEMMA HandleKeeps == HeardInv /\ Handle => HeardInv'
<1> SUFFICES ASSUME HeardInv, Handle PROVE HeardInv'
  OBVIOUS
<1> DEFINE mine == place # "resolving" /\ arriving.chat = Game
<1>1. /\ arriving # None /\ arriving' = None
      /\ events' = IF mine THEN Append(events, arriving) ELSE events
      /\ UNCHANGED <<place, kicked, answered, last, state, loop, taken>>
  BY DEF Handle, startVars, loopVars
<1>2. arriving \in Messages
  BY <1>1 DEF HeardInv, PathType
<1>3. mine => arriving \in FromGame
  BY <1>2 DEF FromGame
<1>4. PathType'
  BY <1>1, <1>3, SendingIsNewest DEF HeardInv, PathType
<1>5. AskedIsListening'
  BY <1>1 DEF HeardInv, AskedIsListening
<1>6. ASSUME answered
      PROVE  Newest' = Newest
  <2>1. place = "serving"
    BY <1>6 DEF HeardInv, AskedIsListening
  <2>2. CASE arriving.chat = Game
    <3>1. events' = Append(events, arriving) /\ arriving \in FromGame
      BY <1>1, <1>3, <2>1, <2>2
    <3>2. events' # <<>> /\ Last(events') = arriving
      BY <3>1, SendingIsNewest DEF HeardInv, PathType, Last
    <3> QED
      BY <1>1, <2>2, <3>2 DEF Newest
  <2>3. CASE arriving.chat # Game
    BY <1>1, <2>3 DEF Newest
  <2> QED
    BY <2>2, <2>3
<1>7. StartIsHeard'
  BY <1>1, <1>6 DEF HeardInv, StartIsHeard
<1> QED
  BY <1>4, <1>5, <1>7 DEF HeardInv

LEMMA ReceiveKeeps == HeardInv /\ Receive => HeardInv'
<1> SUFFICES ASSUME HeardInv, Receive PROVE HeardInv'
  OBVIOUS
<1>1. /\ events # <<>> /\ events' = Tail(events) /\ taken' = Head(events)
      /\ loop = "idle" /\ loop' = "looking"
      /\ UNCHANGED <<place, kicked, answered, last, arriving, state>>
  BY DEF Receive, startVars
<1>2. Head(events) \in FromGame
  BY <1>1, ReceivingKeepsNewest DEF HeardInv, PathType
<1>3. PathType' /\ AskedIsListening'
  BY <1>1, <1>2, ReceivingKeepsNewest DEF HeardInv, PathType, AskedIsListening
<1>4. taken' # None
  BY <1>1, <1>2, NoneAssumption DEF FromGame
<1>5. Newest' = Newest
  BY <1>1, <1>4, ReceivingKeepsNewest DEF HeardInv, PathType, Newest, Last
<1> QED
  BY <1>1, <1>3, <1>5 DEF HeardInv, StartIsHeard

LEMMA UpdateKeeps == HeardInv /\ Update => HeardInv'
<1> SUFFICES ASSUME HeardInv, Update PROVE HeardInv'
  OBVIOUS
<1>1. /\ loop = "captured" /\ state' = taken /\ loop' = "deciding"
      /\ UNCHANGED <<place, kicked, answered, last, arriving, events, taken>>
  BY DEF Update, startVars, chatVars
<1>2. taken # None
  BY <1>1, NoneAssumption DEF HeardInv, PathType, FromGame
<1>3. PathType' /\ AskedIsListening' /\ Newest' = Newest
  BY <1>1, <1>2 DEF HeardInv, PathType, AskedIsListening, Newest
<1> QED
  BY <1>1, <1>3 DEF HeardInv, StartIsHeard

LEMMA DecideKeeps == HeardInv /\ Decide => HeardInv'
<1> SUFFICES ASSUME HeardInv, Decide PROVE HeardInv'
  OBVIOUS
<1>1. /\ loop = "deciding" /\ loop' = "idle" /\ taken' = None /\ state = taken
      /\ UNCHANGED <<place, kicked, answered, last, arriving, events, state>>
  BY DEF Decide, startVars, chatVars, HeardInv, PathType
<1>2. PathType' /\ AskedIsListening' /\ Newest' = Newest
  BY <1>1 DEF HeardInv, PathType, AskedIsListening, Newest
<1> QED
  BY <1>1, <1>2 DEF HeardInv, StartIsHeard

\* captureSnapshot: the loop holds its message all the time.
CaptureStep ==
    \/ Hit \/ Miss \/ (\E failed \in BOOLEAN : Query(failed)) \/ Store
    \/ Captures \/ CaptureFails \/ NotCaptured

LEMMA CaptureStepIs ==
    ASSUME CaptureStep
    PROVE  /\ loop \in {"looking", "querying", "storing", "answered"}
           /\ loop' \in {"querying", "storing", "answered", "captured"}
           /\ UNCHANGED <<startVars, chatVars, state, taken, queue, captureOn, sinceSwitch,
                          rules>>
  BY DEF CaptureStep, Hit, Miss, Query, Store, Captures, CaptureFails, NotCaptured, Captured,
         Outside

LEMMA CaptureStepKeeps == HeardInv /\ CaptureStep => HeardInv'
  BY CaptureStepIs DEF startVars, chatVars, HeardInv, PathType, AskedIsListening,
                       StartIsHeard, Newest

pathVars == <<startVars, chatVars, state, loop, taken>>

LEMMA StepHeard == HeardInv /\ [Next]_vars => HeardInv'
<1> SUFFICES ASSUME HeardInv, [Next]_vars PROVE HeardInv'
  OBVIOUS
<1>1. UNCHANGED pathVars => HeardInv'
  BY DEF pathVars, startVars, chatVars, HeardInv, PathType, AskedIsListening,
         StartIsHeard, Newest
<1>2. CASE SetTarget \/ SendStart
  BY <1>2 DEF SetTarget, SendStart, chatVars, loopVars, HeardInv, PathType, AskedIsListening,
              StartIsHeard, Newest
<1>3. ASSUME NEW m \in Messages, Arrives(m)
      PROVE  HeardInv'
  BY <1>3, ArrivesKeeps
<1>4. CASE Handle
  BY <1>4, HandleKeeps
<1>5. CASE SwitchCapture \/ Tick
  BY <1>1, <1>5 DEF SwitchCapture, Tick, pathVars, loopVars
<1>6. CASE CaptureStep
  BY <1>6, CaptureStepKeeps
<1>11. CASE Receive \/ Update \/ Decide
  BY <1>11, ReceiveKeeps, UpdateKeeps, DecideKeeps
<1>7. CASE Work
  BY <1>1, <1>7 DEF Work, pathVars, loopVars
<1>8. ASSUME NEW a \in queue, Done(a)
      PROVE  HeardInv'
  BY <1>1, <1>8 DEF Done, pathVars, loopVars
<1>9. ASSUME NEW t \in Typed, LearnLastClick(t) \/ LearnLastText(t)
      PROVE  HeardInv'
  BY <1>1, <1>9 DEF LearnLastClick, LearnLastText, Learn, pathVars, loopVars
<1>10. CASE UNCHANGED vars
  BY <1>1, <1>10 DEF vars, pathVars, loopVars
<1> QED
  BY <1>2, <1>3, <1>4, <1>5, <1>6, <1>7, <1>8, <1>9, <1>10, <1>11
     DEF Next, CaptureStep

\* Whatever other chats send meanwhile and for any capacity of the channel, what
\* the game has written since "/start" was sent reaches the engine.
THEOREM StartIsHeardCorrect == Spec => []StartIsHeard
<1>1. HeardInv => StartIsHeard
  BY DEF HeardInv
<1> QED
  BY InitHeard, StepHeard, <1>1, PTL DEF Spec
-----------------------------------------------------------------------------
(* The capture switch *)

\* An answer that differs from the switch is a failed read's, or older than the switch:
\* what a read found is no older than the read; what is in the cache, the older it is
\* the less of its life is left.
CacheInv ==
    /\ captureOn \in BOOLEAN
    /\ cached \in [on : BOOLEAN, left : 0..CacheLife, failed : BOOLEAN]
    /\ answer \in [on : BOOLEAN, failed : BOOLEAN]
    /\ age \in 0..MaxLatency
    /\ sinceSwitch \in 0..Horizon
    /\ loop = "looking" => age = 0
    /\ loop \in {"idle", "captured", "deciding"} => age = 0
    /\ cached.failed => ~cached.on
    /\ answer.failed => ~answer.on
    /\ cached.left > 0 /\ cached.on # captureOn /\ ~cached.failed
           => sinceSwitch + cached.left <= CacheLife + MaxLatency
    /\ loop = "storing" /\ answer.on # captureOn /\ ~answer.failed => sinceSwitch <= age
    /\ loop = "answered" /\ answer.on # captureOn /\ ~answer.failed
           => sinceSwitch < CacheLife + MaxLatency + age

LEMMA InitCache == Init => CacheInv
  BY LifeAssumption DEF Init, CacheInv, NoAnswer, Horizon

LEMMA HitKeeps == CacheInv /\ Hit => CacheInv'
<1> SUFFICES ASSUME CacheInv, Hit PROVE CacheInv'
  OBVIOUS
<1>1. /\ loop = "looking" /\ loop' = "answered" /\ cached.left > 0
      /\ answer' = [on |-> cached.on, failed |-> cached.failed]
      /\ UNCHANGED <<cached, age, captureOn, sinceSwitch>>
  BY DEF Hit, Outside
<1>2. /\ answer' \in [on : BOOLEAN, failed : BOOLEAN]
      /\ answer'.on = cached.on /\ answer'.failed = cached.failed
  BY <1>1 DEF CacheInv
<1> QED
  BY <1>1, <1>2, LifeAssumption DEF CacheInv, Horizon

LEMMA MissKeeps == CacheInv /\ Miss => CacheInv'
  BY DEF Miss, Outside, CacheInv

LEMMA QueryKeeps == ASSUME CacheInv, NEW failed \in BOOLEAN, Query(failed) PROVE CacheInv'
<1>1. /\ loop' = "storing"
      /\ answer' = [on |-> captureOn /\ ~failed, failed |-> failed]
      /\ UNCHANGED <<cached, age, captureOn, sinceSwitch>>
  BY DEF Query, Outside
<1>2. /\ answer' \in [on : BOOLEAN, failed : BOOLEAN]
      /\ answer'.on = (captureOn /\ ~failed) /\ answer'.failed = failed
  BY <1>1 DEF CacheInv
<1> QED
  BY <1>1, <1>2 DEF CacheInv

LEMMA StoreKeeps == CacheInv /\ Store => CacheInv'
<1> SUFFICES ASSUME CacheInv, Store PROVE CacheInv'
  OBVIOUS
<1>1. /\ loop = "storing" /\ loop' = "answered"
      /\ cached' = [on |-> answer.on, left |-> CacheLife, failed |-> answer.failed]
      /\ UNCHANGED <<answer, age, captureOn, sinceSwitch>>
  BY DEF Store, Outside
<1>2. /\ cached' \in [on : BOOLEAN, left : 0..CacheLife, failed : BOOLEAN]
      /\ cached'.on = answer.on /\ cached'.failed = answer.failed
      /\ cached'.left = CacheLife
  BY <1>1, LifeAssumption DEF CacheInv
<1> QED
  BY <1>1, <1>2, LifeAssumption DEF CacheInv, Horizon

LEMMA CapturedKeeps == ASSUME CacheInv, NEW m, Captured(m) PROVE CacheInv'
<1>1. /\ loop' = "captured" /\ answer' = [on |-> FALSE, failed |-> FALSE] /\ age' = 0
      /\ UNCHANGED <<cached, captureOn, sinceSwitch>>
  BY DEF Captured, NoAnswer
<1>2. /\ answer' \in [on : BOOLEAN, failed : BOOLEAN] /\ ~answer'.failed /\ age' \in 0..MaxLatency
  BY <1>1, LifeAssumption
<1> QED
  BY <1>1, <1>2 DEF CacheInv

LEMMA TickKeepsCache == CacheInv /\ Tick => CacheInv'
<1> SUFFICES ASSUME CacheInv, Tick PROVE CacheInv'
  OBVIOUS
<1>1. /\ Capturing => age < MaxLatency
      /\ age' = IF Capturing THEN age + 1 ELSE age
      /\ cached' = [cached EXCEPT !.left = IF @ > 0 THEN @ - 1 ELSE 0]
      /\ sinceSwitch' = IF sinceSwitch < Horizon THEN sinceSwitch + 1 ELSE Horizon
      /\ UNCHANGED <<captureOn, loop, answer>>
  BY DEF Tick
<1>2. /\ cached' \in [on : BOOLEAN, left : 0..CacheLife, failed : BOOLEAN]
      /\ cached'.on = cached.on /\ cached'.failed = cached.failed
      /\ cached'.left = IF cached.left > 0 THEN cached.left - 1 ELSE 0
  BY <1>1, LifeAssumption DEF CacheInv
<1>3. age' \in 0..MaxLatency /\ sinceSwitch' \in 0..Horizon /\ sinceSwitch' <= sinceSwitch + 1
  BY <1>1, LifeAssumption DEF CacheInv, Horizon
<1> QED
  BY <1>1, <1>2, <1>3, LifeAssumption DEF CacheInv, Capturing

LEMMA SwitchKeepsCache == CacheInv /\ SwitchCapture => CacheInv'
<1> SUFFICES ASSUME CacheInv, SwitchCapture PROVE CacheInv'
  OBVIOUS
<1>1. /\ captureOn' = ~captureOn /\ sinceSwitch' = 0
      /\ UNCHANGED <<cached, loop, answer, age>>
  BY DEF SwitchCapture, loopVars
<1>2. cached.left \in 0..CacheLife /\ age \in Nat /\ sinceSwitch' \in 0..Horizon
  BY <1>1, LifeAssumption DEF CacheInv, Horizon
<1> QED
  BY <1>1, <1>2, LifeAssumption DEF CacheInv

LEMMA StepCache == CacheInv /\ [Next]_vars => CacheInv'
<1> SUFFICES ASSUME CacheInv, [Next]_vars PROVE CacheInv'
  OBVIOUS
<1>1. UNCHANGED <<captureOn, cached, sinceSwitch, loopVars>> => CacheInv'
  BY DEF CacheInv, loopVars
<1>2. CASE SwitchCapture
  BY <1>2, SwitchKeepsCache
<1>3. CASE Tick
  BY <1>3, TickKeepsCache
<1>4. CASE CaptureStep
  BY <1>4, HitKeeps, MissKeeps, QueryKeeps, StoreKeeps, CapturedKeeps
     DEF CaptureStep, Captures, CaptureFails, NotCaptured
<1>5. CASE Receive \/ Update \/ Decide
  BY <1>5 DEF Receive, Update, Decide, CacheInv, captureVars
<1>6. CASE SetTarget \/ SendStart \/ Handle \/ Work
  BY <1>1, <1>6 DEF SetTarget, SendStart, Handle, Work, captureVars
<1>7. ASSUME NEW m \in Messages, Arrives(m)
      PROVE  CacheInv'
  BY <1>1, <1>7 DEF Arrives, captureVars
<1>8. ASSUME NEW a \in queue, Done(a)
      PROVE  CacheInv'
  BY <1>1, <1>8 DEF Done, captureVars
<1>9. ASSUME NEW t \in Typed, LearnLastClick(t) \/ LearnLastText(t)
      PROVE  CacheInv'
  BY <1>1, <1>9 DEF LearnLastClick, LearnLastText, Learn, captureVars
<1>10. CASE UNCHANGED vars
  BY <1>1, <1>10 DEF vars, captureVars
<1> QED
  BY <1>2, <1>3, <1>4, <1>5, <1>6, <1>7, <1>8, <1>9, <1>10 DEF Next, CaptureStep

LEMMA CacheCorrect == Spec => []CacheInv
  BY InitCache, StepCache, PTL DEF Spec

\* For any life of a cached answer and any latency: once both are over after the user
\* has switched capturing off, no message is captured, whichever read the switch overtook.
THEOREM CaptureStopsCorrect == Spec => CaptureStops
<1>1. CacheInv /\ [Next]_vars => [Captures => captureOn \/ sinceSwitch < Horizon]_vars
  <2> SUFFICES ASSUME CacheInv, Captures, ~captureOn
               PROVE  sinceSwitch < Horizon
    OBVIOUS
  <2>1. answer.on /\ loop = "answered"
    BY DEF Captures, Captured
  <2>2. answer.on # captureOn /\ ~answer.failed
    BY <2>1 DEF CacheInv
  <2>3. sinceSwitch < CacheLife + MaxLatency + age
    BY <2>1, <2>2 DEF CacheInv
  <2> QED
    BY <2>3, LifeAssumption DEF CacheInv, Horizon
<1> QED
  BY CacheCorrect, <1>1, PTL DEF Spec, CaptureStops

\* And after it was switched on no message goes by without an attempt to save it, but
\* for what a failed read left.
THEOREM CaptureStartsCorrect == Spec => CaptureStarts
<1>1. CacheInv /\ [Next]_vars
          => [NotCaptured => ~captureOn \/ sinceSwitch < Horizon \/ answer.failed]_vars
  <2> SUFFICES ASSUME CacheInv, NotCaptured, captureOn, ~answer.failed
               PROVE  sinceSwitch < Horizon
    OBVIOUS
  <2>1. ~answer.on /\ loop = "answered"
    BY DEF NotCaptured, Captured
  <2>2. sinceSwitch < CacheLife + MaxLatency + age
    BY <2>1 DEF CacheInv
  <2> QED
    BY <2>2, LifeAssumption DEF CacheInv, Horizon
<1> QED
  BY CacheCorrect, <1>1, PTL DEF Spec, CaptureStarts
-----------------------------------------------------------------------------
(* Labels that are looked for twice *)

\* What a loop finds is in the sequence and is what it looks for.
LEMMA FirstInIs ==
    ASSUME NEW s, DOMAIN s \subseteq Nat, NEW S, NEW k \in DOMAIN s, s[k] \in S
    PROVE  FirstIn(s, S) \in S /\ FirstIn(s, S) \in Range(s)
<1> DEFINE found == {i \in DOMAIN s : s[i] \in S}
<1>1. found \subseteq Nat /\ found # {}
  OBVIOUS
<1>2. Min(found) \in found
  BY <1>1, MinIsLeast
<1> QED
  BY <1>2 DEF FirstIn, Range

\* The same, of a text among a message's buttons.
LEMMA ButtonFound ==
    ASSUME NEW m \in Messages, NEW S, NEW b \in Range(m.buttons), b \in S
    PROVE  /\ FirstIn(m.buttons, S) \in S /\ FirstIn(m.buttons, S) \in Range(m.buttons)
           /\ FirstIn(m.buttons, S) \in STRING
<1>1. m.buttons \in Seq(STRING)
  BY MessagesAssumption
<1>2. DOMAIN m.buttons = 1 .. Len(m.buttons) /\ Len(m.buttons) \in Nat
  BY <1>1
<1>3. PICK i \in DOMAIN m.buttons : m.buttons[i] = b
  BY DEF Range
<1>4. FirstIn(m.buttons, S) \in S /\ FirstIn(m.buttons, S) \in Range(m.buttons)
  BY <1>2, <1>3, FirstInIs
<1> QED
  BY <1>1, <1>4 DEF Range

\* The client would press a button of this message for the label.
Pressable(m, l) == \E b \in Range(m.buttons) : MatchButton(b, l)

\* And it does so when that message is the last one.
LEMMA PressableIsPressed ==
    ASSUME NEW m \in Messages, NEW l, Pressable(m, l)
    PROVE  Pressed(m, l) # None
<1> DEFINE matching == {b \in Range(m.buttons) : MatchButton(b, l)}
<1>1. PICK b \in Range(m.buttons) : b \in matching
  BY DEF Pressable
<1>2. FirstIn(m.buttons, matching) \in STRING
  BY <1>1, ButtonFound
<1> QED
  BY <1>1, <1>2, MessagesAssumption DEF Pressed

\* What the parser finds, the client finds.
LEMMA HasButtonIsPressable ==
    ASSUME NEW m, NEW l, HasButton(m, l)
    PROVE  Pressable(m, l)
  BY DEF HasButton, Pressable, MatchButton, Range

\* A message is parsed as what one of the parser's cases says of it.
LEMMA ParsedStateIs ==
    ASSUME NEW m, NEW c, c = ParsedState(m), c # "UNKNOWN"
    PROVE  InCase(m, c)
<1> DEFINE true == {case \in Range(Cases) : InCase(m, case)}
<1>1. true # {} /\ c = FirstIn(Cases, true)
  BY DEF ParsedState
<1>2. PICK x \in Range(Cases) : x \in true
  BY <1>1
<1>3. DOMAIN Cases = 1 .. 8
  BY DEF Cases
<1>4. PICK i \in DOMAIN Cases : Cases[i] = x
  BY <1>2, <1>3 DEF Range
<1>5. DOMAIN Cases \subseteq Nat
  BY <1>3
<1> HIDE DEF true
<1>6. FirstIn(Cases, true) \in true
  BY <1>2, <1>4, <1>5, FirstInIs
<1> QED
  BY <1>1, <1>6 DEF true

LEMMA FightHasAttack ==
    ASSUME NEW m, ParsedState(m) = "COMBAT"
    PROVE  HasButton(m, "Atacar")
<1>1. InCase(m, "COMBAT")
  BY ParsedStateIs
<1> QED
  BY <1>1 DEF InCase

LEMMA MenuHasHunt ==
    ASSUME NEW m, ParsedState(m) = "MAIN_MENU"
    PROVE  HasButton(m, "Cacar")
<1>1. InCase(m, "MAIN_MENU")
  BY ParsedStateIs
<1> QED
  BY <1>1 DEF InCase
-----------------------------------------------------------------------------
(* What waits in the queue, and what it was decided on *)

\* A fraction of b that, in percent and cut off, is below a threshold is below it;
\* a whole percentage that comes out as one less is at it.
LEMMA CutOff ==
    ASSUME NEW x \in Nat, NEW d \in Nat \ {0}, NEW t \in Nat
    PROVE  /\ x \div d < t => x <= t * d
           /\ x % d = 0 /\ x \div d - 1 < t => x <= t * d
<1> DEFINE q == x \div d
<1>1. q \in Nat /\ x % d \in 0 .. (d - 1) /\ x = d * q + (x % d)
  OBVIOUS
<1>2. ASSUME NEW n \in Nat, n <= t
      PROVE  d * n <= t * d
  BY <1>2
<1>3. ASSUME q < t
      PROVE  x <= t * d
  <2>1. q + 1 \in Nat /\ q + 1 <= t
    BY <1>1, <1>3
  <2>2. d * (q + 1) <= t * d
    BY <1>2, <2>1
  <2>3. d * (q + 1) = d * q + d
    BY <1>1
  <2> QED
    BY <1>1, <2>2, <2>3
<1>4. ASSUME x % d = 0, q - 1 < t
      PROVE  x <= t * d
  <2>1. q <= t
    BY <1>1, <1>4
  <2>2. d * q <= t * d
    BY <1>1, <1>2, <2>1
  <2> QED
    BY <1>1, <1>4, <2>2
<1> QED
  BY <1>3, <1>4

\* The message tells of a wound.
Wounded(m) ==
    \/ m.pct \in 1..(Threshold - 1)
    \/ m.pct <= 0 /\ m.max > 0 /\ 100 * m.cur <= Threshold * m.max

LEMMA HealDueIsWounded ==
    ASSUME NEW m \in Messages, HealDue(m)
    PROVE  Wounded(m)
<1>1. m.pct \in Nat /\ m.cur \in Nat /\ m.max \in Nat /\ Threshold \in Nat
  BY MessagesAssumption, ThresholdAssumption
<1>2. CASE m.pct > 0
  <2>1. HPPercent(m) = m.pct
    BY <1>2 DEF HPPercent
  <2> QED
    BY <1>1, <1>2, <2>1 DEF HealDue, Wounded
<1>3. CASE ~(m.pct > 0) /\ m.max > 0
  <2> DEFINE x == 100 * m.cur
  <2>1. x \in Nat /\ m.max \in Nat \ {0} /\ x \div m.max \in Nat
    BY <1>1, <1>3
  <2>2. HPPercent(m) = x \div m.max - (IF <<m.cur, m.max>> \in Short THEN 1 ELSE 0)
    BY <1>3 DEF HPPercent
  <2>3. HPPercent(m) < Threshold
    BY DEF HealDue
  <2>4. <<m.cur, m.max>> \in Short => x % m.max = 0
    BY ShortAssumption
  <2> HIDE DEF x
  <2>5. ASSUME <<m.cur, m.max>> \in Short
       PROVE  x <= Threshold * m.max
    <3>1. x \div m.max - 1 < Threshold
      BY <2>2, <2>3, <2>5
    <3> QED
      BY <1>1, <2>1, <2>4, <2>5, <3>1, CutOff
  <2>6. ASSUME <<m.cur, m.max>> \notin Short
       PROVE  x <= Threshold * m.max
    <3>1. x \div m.max < Threshold
      BY <2>1, <2>2, <2>3, <2>6
    <3> QED
      BY <1>1, <2>1, <3>1, CutOff
  <2>7. x <= Threshold * m.max
    BY <2>5, <2>6
  <2> QED
    BY <1>1, <1>3, <2>7 DEF x, Wounded
<1>4. CASE ~(m.pct > 0) /\ ~(m.max > 0)
  <2>1. HPPercent(m) = 0
    BY <1>4 DEF HPPercent
  <2> QED
    BY <2>1 DEF HealDue
<1> QED
  BY <1>2, <1>3, <1>4

\* An action is of a message of the game; the label it was decided by is on that
\* message; and healing is for wounds.
Grounded(a) ==
    /\ a.on \in FromGame
    /\ a.by \in {"seen", "heal", "button"} => Pressable(a.on, a.label)
    /\ a.by = "heal" => Wounded(a.on)

\* A learned rule: of a button's, the label is what was looked for.
Rule ==
    {r \in [type : {"button", "text"}, value : Typed, label : Typed \cup STRING] :
        r.type = "button" => r.label = r.value}

LEMMA AppliedIsGrounded ==
    ASSUME NEW m \in FromGame, NEW rs \in Seq(Rule), NEW a \in Applied(m, rs)
    PROVE  Grounded(a)
<1> DEFINE matching == {r \in Range(rs) : Matches(m, r)}
           first == FirstIn(rs, matching)
<1>1. matching # {} /\ a = Action(m, first.label, first.type)
  BY DEF Applied
<1>2. PICK i \in DOMAIN rs : rs[i] \in matching
  BY <1>1 DEF Range
<1>3. DOMAIN rs \subseteq Nat
  OBVIOUS
<1> HIDE DEF matching
<1>4. first \in matching /\ first \in Range(rs)
  BY <1>2, <1>3, FirstInIs
<1>5. first \in Rule /\ Matches(m, first)
  BY <1>4 DEF matching, Range
<1> HIDE DEF first
<1>6. a.on = m /\ a.label = first.label /\ a.by = first.type
  BY <1>1 DEF Action
<1>7. first.type \in {"button", "text"} /\ (first.type = "button" => first.label = first.value)
  BY <1>5 DEF Rule
<1>8. ASSUME first.type = "button"
      PROVE  Pressable(m, first.label)
  <2>1. Contains(m.buttons, first.value)
    BY <1>5, <1>8 DEF Matches
  <2>2. m.buttons \in Seq(STRING)
    BY MessagesAssumption DEF FromGame
  <2>3. first.value \in Range(m.buttons)
    BY <2>1, <2>2 DEF Contains, Range
  <2> QED
    BY <1>7, <1>8, <2>3 DEF Pressable, MatchButton, Includes
<1> QED
  BY <1>6, <1>7, <1>8 DEF Grounded

LEMMA SeenIsGrounded ==
    ASSUME NEW m \in FromGame, NEW ls, NEW a \in Seen(m, ls)
    PROVE  Grounded(a) /\ a.on = m /\ a.by = "seen" /\ Pressable(m, a.label)
<1>1. PICK l \in ls : HasButton(m, l) /\ a = Action(m, l, "seen")
  BY DEF Seen
<1>2. a.on = m /\ a.label = l /\ a.by = "seen"
  BY <1>1 DEF Action
<1> QED
  BY <1>1, <1>2, HasButtonIsPressable DEF Grounded

LEMMA BuiltInIsGrounded ==
    ASSUME NEW m \in FromGame, NEW a \in BuiltIn(m)
    PROVE  Grounded(a)
<1>1. ASSUME NEW l, HasButton(m, l), a = Action(m, l, "seen")
      PROVE  Grounded(a)
  BY <1>1, HasButtonIsPressable DEF Grounded, Action
<1>2. CASE ParsedState(m) = "COMBAT"
  <2>1. a = Action(m, "Atacar", "seen")
    BY <1>2 DEF BuiltIn
  <2> QED
    BY <1>1, <1>2, <2>1, FightHasAttack
<1>3. CASE ParsedState(m) = "MAIN_MENU"
  <2>1. a = Action(m, "Cacar", "seen") \/ a \in Seen(m, {"Energia"})
    BY <1>3 DEF BuiltIn
  <2> QED
    BY <1>1, <1>3, <2>1, MenuHasHunt, SeenIsGrounded
<1>4. CASE ParsedState(m) = "NO_ENERGY"
  <2>1. a \in Seen(m, {"Menu", "Energia"})
    BY <1>4 DEF BuiltIn
  <2> QED
    BY <2>1, SeenIsGrounded
<1>5. CASE ParsedState(m) = "VICTORY"
  <2>1. a = Action(m, "Cacar de novo", "unseen")
    BY <1>5 DEF BuiltIn
  <2>2. a.on = m /\ a.by = "unseen"
    BY <2>1 DEF Action
  <2> QED
    BY <2>2 DEF Grounded
<1>6. ParsedState(m) \in {"COMBAT", "MAIN_MENU", "NO_ENERGY", "VICTORY"}
  BY DEF BuiltIn
<1> QED
  BY <1>2, <1>3, <1>4, <1>5, <1>6

LEMMA DecidedIsGrounded ==
    ASSUME NEW m \in FromGame, NEW rs \in Seq(Rule), NEW a \in Decided(m, rs)
    PROVE  Grounded(a)
  BY AppliedIsGrounded, BuiltInIsGrounded DEF Decided
-----------------------------------------------------------------------------
(* The types, and the queue *)

TypedPath ==
    /\ PathType
    /\ place \in {"resolving", "starting", "serving"}
    /\ kicked \in BOOLEAN /\ answered \in BOOLEAN
    /\ \A c \in Chats : last[c] = None \/ last[c].chat = c
    /\ \A c \in Chats : last[c] \in Messages \cup {None}
    /\ Len(events) <= EventsCap
    /\ state \in FromGame \cup {None}
    /\ loop \in {"idle", "looking", "querying", "storing", "answered", "captured", "deciding"}

TypedRules ==
    /\ capture \in FromGame \cup {None}
    /\ rules \in Seq(Rule)
    /\ Len(rules) <= MaxRules

QueueInv == \A a \in queue : Grounded(a)

LEMMA NoMessages ==
    ASSUME NEW S
    PROVE  <<>> \in Seq(S) /\ Len(<<>>) = 0
  OBVIOUS

LEMMA InitTyped == Init => TypedPath /\ TypedRules /\ QueueInv
<1> SUFFICES ASSUME Init PROVE TypedPath /\ TypedRules /\ QueueInv
  OBVIOUS
<1>1. PathType
  BY InitHeard DEF HeardInv
<1>2. Len(events) <= EventsCap
  BY NoMessages, CapAssumption DEF Init
<1>3. rules \in Seq(Rule) /\ Len(rules) <= MaxRules
  <2>1. rules = <<>>
    BY DEF Init
  <2> HIDE DEF Rule
  <2> QED
    BY <2>1, NoMessages, CapAssumption
<1> QED
  BY <1>1, <1>2, <1>3 DEF Init, TypedPath, TypedRules, QueueInv

LEMMA StepTypedPath == TypedPath /\ [Next]_vars => TypedPath'
<1> SUFFICES ASSUME TypedPath, [Next]_vars PROVE TypedPath'
  OBVIOUS
<1>1. UNCHANGED pathVars => TypedPath'
  BY DEF pathVars, startVars, chatVars, TypedPath, PathType
<1>2. CASE SetTarget \/ SendStart
  BY <1>2 DEF SetTarget, SendStart, chatVars, loopVars, TypedPath, PathType
<1>3. ASSUME NEW m \in Messages, Arrives(m)
      PROVE  TypedPath'
  <2>1. m.chat \in Chats /\ m # None
    BY NoneAssumption DEF Chats
  <2>2. /\ arriving' = m
        /\ last' = [last EXCEPT ![m.chat] = m]
        /\ UNCHANGED <<place, kicked, events, state, loop, taken>>
    BY <1>3 DEF Arrives, startVars, loopVars
  <2>3. answered' \in BOOLEAN
    BY <1>3 DEF Arrives, TypedPath
  <2>4. PathType'
    BY <2>1, <2>2 DEF TypedPath, PathType
  <2>5. last'[m.chat] = m /\ \A c \in Chats \ {m.chat} : last'[c] = last[c]
    BY <2>1, <2>2 DEF TypedPath, PathType
  <2> QED
    BY <2>2, <2>3, <2>4, <2>5 DEF TypedPath
<1>4. CASE Handle
  <2> DEFINE mine == place # "resolving" /\ arriving.chat = Game
  <2>1. /\ arriving # None /\ arriving' = None
        /\ mine => Len(events) < EventsCap
        /\ events' = IF mine THEN Append(events, arriving) ELSE events
        /\ UNCHANGED <<place, kicked, answered, last, state, loop, taken>>
    BY <1>4 DEF Handle, startVars, loopVars
  <2>2. mine => arriving \in FromGame
    BY <2>1 DEF TypedPath, PathType, FromGame
  <2>3. events \in Seq(FromGame) /\ Len(events) <= EventsCap
    BY DEF TypedPath, PathType
  <2>4. events' \in Seq(FromGame) /\ Len(events') <= EventsCap
    BY <2>1, <2>2, <2>3, CapAssumption
  <2> QED
    BY <2>1, <2>4 DEF TypedPath, PathType
<1>5. CASE Receive
  <2>1. /\ events # <<>> /\ events' = Tail(events) /\ taken' = Head(events)
        /\ loop = "idle" /\ loop' = "looking"
        /\ UNCHANGED <<place, kicked, answered, last, arriving, state>>
    BY <1>5 DEF Receive, startVars
  <2>2. events \in Seq(FromGame) /\ Len(events) <= EventsCap
    BY DEF TypedPath, PathType
  <2>3. taken' \in FromGame /\ events' \in Seq(FromGame) /\ Len(events') <= EventsCap
    BY <2>1, <2>2, ReceivingKeepsNewest, CapAssumption
  <2> QED
    BY <2>1, <2>3 DEF TypedPath, PathType
<1>6. CASE CaptureStep
  BY <1>6, CaptureStepIs DEF TypedPath, PathType, startVars, chatVars
<1>11. CASE Update \/ Decide
  BY <1>11 DEF Update, Decide, TypedPath, PathType, startVars, chatVars
<1>7. CASE SwitchCapture \/ Tick \/ Work
  BY <1>1, <1>7 DEF SwitchCapture, Tick, Work, pathVars, loopVars
<1>8. ASSUME NEW a \in queue, Done(a)
      PROVE  TypedPath'
  BY <1>1, <1>8 DEF Done, pathVars, loopVars
<1>9. ASSUME NEW t \in Typed, LearnLastClick(t) \/ LearnLastText(t)
      PROVE  TypedPath'
  BY <1>1, <1>9 DEF LearnLastClick, LearnLastText, Learn, pathVars, loopVars
<1>10. CASE UNCHANGED vars
  BY <1>1, <1>10 DEF vars, pathVars, loopVars
<1> QED
  BY <1>2, <1>3, <1>4, <1>5, <1>6, <1>7, <1>8, <1>9, <1>10, <1>11 DEF Next, CaptureStep

LEMMA LearnKeeps ==
    ASSUME TypedRules, NEW type \in {"button", "text"}, NEW t \in Typed, NEW l \in Typed \cup STRING,
           type = "button" => l = t, Learn(type, t, l)
    PROVE  TypedRules'
<1> DEFINE r == [type |-> type, value |-> t, label |-> l]
<1>1. r \in Rule
  BY DEF Rule
<1>2. /\ rules' = <<r>> \o rules /\ Len(rules) < MaxRules
      /\ capture' = capture
  BY DEF Learn, captureVars
<1> HIDE DEF r, Rule
<1>3. rules \in Seq(Rule) /\ MaxRules \in Nat
  BY CapAssumption DEF TypedRules
<1>4. <<r>> \in Seq(Rule) /\ Len(<<r>>) = 1
  BY <1>1
<1>5. rules' \in Seq(Rule) /\ Len(rules') = 1 + Len(rules)
  BY <1>2, <1>3, <1>4
<1>6. Len(rules) \in Nat
  BY <1>3
<1>7. Len(rules') <= MaxRules
  BY <1>2, <1>3, <1>5, <1>6
<1> QED
  BY <1>2, <1>5, <1>7 DEF TypedRules

LEMMA StepTypedRules == TypedPath /\ TypedRules /\ [Next]_vars => TypedRules'
<1> SUFFICES ASSUME TypedPath, TypedRules, [Next]_vars PROVE TypedRules'
  OBVIOUS
<1>1. UNCHANGED <<capture, rules>> => TypedRules'
  BY DEF TypedRules
<1>2. CASE SetTarget \/ SendStart \/ Handle \/ Work
  BY <1>1, <1>2 DEF SetTarget, SendStart, Handle, Work, captureVars
<1>3. ASSUME NEW m \in Messages, Arrives(m)
      PROVE  TypedRules'
  BY <1>1, <1>3 DEF Arrives, captureVars
<1>4. CASE SwitchCapture \/ Tick \/ Receive \/ Update \/ Decide
  BY <1>1, <1>4 DEF SwitchCapture, Tick, Receive, Update, Decide, captureVars
<1>5. ASSUME NEW m \in {taken, capture}, Captured(m)
      PROVE  TypedRules'
  <2>1. loop = "answered" /\ capture' = m /\ rules' = rules
    BY <1>5 DEF Captured
  <2>2. capture' \in FromGame \cup {None}
    BY <2>1 DEF TypedPath, PathType, TypedRules
  <2> QED
    BY <2>1, <2>2 DEF TypedRules
<1>10. CASE CaptureStep
  BY <1>1, <1>5, <1>10 DEF CaptureStep, Hit, Miss, Query, Store, Outside, Captures, CaptureFails,
                           NotCaptured
<1>6. ASSUME NEW a \in queue, Done(a)
      PROVE  TypedRules'
  BY <1>1, <1>6 DEF Done, captureVars
<1>7. ASSUME NEW t \in Typed, LearnLastClick(t)
      PROVE  TypedRules'
  BY <1>7, LearnKeeps DEF LearnLastClick
<1>8. ASSUME NEW t \in Typed, LearnLastText(t)
      PROVE  TypedRules'
  <2> DEFINE found == {b \in Range(capture.buttons) : Includes(b, t)}
  <2>1. capture # None /\ found # {} /\ Learn("text", t, FirstIn(capture.buttons, found))
    BY <1>8 DEF LearnLastText
  <2>2. capture \in Messages
    BY <2>1 DEF TypedRules, FromGame
  <2>3. PICK b \in Range(capture.buttons) : b \in found
    BY <2>1
  <2>4. FirstIn(capture.buttons, found) \in STRING
    BY <2>2, <2>3, ButtonFound
  <2> HIDE DEF found
  <2> QED
    BY <2>1, <2>4, LearnKeeps
<1>9. CASE UNCHANGED vars
  BY <1>1, <1>9 DEF vars, captureVars
<1> QED
  BY <1>2, <1>3, <1>4, <1>6, <1>7, <1>8, <1>9, <1>10 DEF Next, CaptureStep

LEMMA SubmitKeeps ==
    ASSUME QueueInv, NEW A, \A a \in A : Grounded(a), Submit(A)
    PROVE  QueueInv'
<1>1. QueueInv' = (\A a \in queue' : Grounded(a))
  BY DEF QueueInv, Grounded, Pressable, Wounded
<1> QED
  BY <1>1 DEF QueueInv, Submit

LEMMA StepQueue == TypedPath /\ TypedRules /\ QueueInv /\ [Next]_vars => QueueInv'
<1> SUFFICES ASSUME TypedPath, TypedRules, QueueInv, [Next]_vars PROVE QueueInv'
  OBVIOUS
<1>1. UNCHANGED queue => QueueInv'
  BY DEF QueueInv
<1>2. CASE SetTarget \/ SendStart \/ Handle \/ SwitchCapture \/ Tick \/ Receive \/ Update
  BY <1>1, <1>2 DEF SetTarget, SendStart, Handle, SwitchCapture, Tick, Receive, Update
<1>3. ASSUME NEW m \in Messages, Arrives(m)
      PROVE  QueueInv'
  BY <1>1, <1>3 DEF Arrives
<1>4. CASE Decide
  <2>1. taken \in FromGame
    BY <1>4 DEF Decide, TypedPath, PathType
  <2>2. PICK readable \in {rules, <<>>} : Submit(Decided(taken, readable))
    BY <1>4 DEF Decide
  <2>3. readable \in Seq(Rule)
    BY NoMessages DEF TypedRules
  <2>4. \A a \in Decided(taken, readable) : Grounded(a)
    BY <2>1, <2>3, DecidedIsGrounded
  <2> QED
    BY <2>2, <2>4, SubmitKeeps
<1>5. CASE CaptureStep
  BY <1>1, <1>5, CaptureStepIs
<1>6. CASE Work
  <2>1. state \in FromGame /\ state \in Messages
    BY <1>6 DEF Work, TypedPath, FromGame
  <2>2. CASE Submit(Seen(state, WorkerLabels))
    BY <2>1, <2>2, SeenIsGrounded, SubmitKeeps
  <2>3. ASSUME HealDue(state),
               Submit({[a EXCEPT !.by = "heal"] : a \in Seen(state, HealLabels)})
        PROVE  QueueInv'
    <3>1. ASSUME NEW a \in Seen(state, HealLabels)
          PROVE  Grounded([a EXCEPT !.by = "heal"])
      <4>1. PICK l \in HealLabels : HasButton(state, l) /\ a = Action(state, l, "seen")
        BY DEF Seen
      <4>2. [a EXCEPT !.by = "heal"] = Action(state, l, "heal")
        BY <4>1 DEF Action
      <4>3. Pressable(state, l) /\ Wounded(state)
        BY <2>1, <2>3, <4>1, HasButtonIsPressable, HealDueIsWounded
      <4> QED
        BY <2>1, <4>2, <4>3 DEF Grounded, Action
    <3> QED
      BY <2>3, <3>1, SubmitKeeps
  <2> QED
    BY <1>6, <2>2, <2>3 DEF Work
<1>7. ASSUME NEW a \in queue, Done(a)
      PROVE  QueueInv'
  BY <1>7 DEF Done, QueueInv
<1>8. ASSUME NEW t \in Typed, LearnLastClick(t) \/ LearnLastText(t)
      PROVE  QueueInv'
  BY <1>1, <1>8 DEF LearnLastClick, LearnLastText, Learn
<1>9. CASE UNCHANGED vars
  BY <1>1, <1>9 DEF vars
<1> QED
  BY <1>2, <1>3, <1>4, <1>5, <1>6, <1>7, <1>8, <1>9 DEF Next, CaptureStep

ClicksInv == TypedPath /\ TypedRules /\ QueueInv /\ CacheInv

LEMMA ClicksCorrect == Spec => []ClicksInv
<1>1. Init => ClicksInv
  BY InitTyped, InitCache DEF ClicksInv
<1>2. ClicksInv /\ [Next]_vars => ClicksInv'
  BY StepTypedPath, StepTypedRules, StepQueue, StepCache DEF ClicksInv
<1> QED
  BY <1>1, <1>2, PTL DEF Spec

\* For any messages, texts, rules and capacities: only messages of the game reach
\* the engine, the captures and the queue, and each chat's last message is its own.
THEOREM TypeCorrect == Spec => []TypeOK
<1>1. ClicksInv => TypeOK
  BY DEF ClicksInv, TypedPath, PathType, TypedRules, QueueInv, Grounded, CacheInv, TypeOK
<1> QED
  BY ClicksCorrect, <1>1, PTL

\* For any labels and whichever contain which: what the parser, a worker or a learned
\* button's rule saw on a message is pressed while that message is the last one.
THEOREM UnchangedIsPressedCorrect == Spec => []UnchangedIsPressed
<1>1. ClicksInv => UnchangedIsPressed
  <2> SUFFICES ASSUME ClicksInv, NEW a \in queue, a.on = last[Game],
                      a.by \in {"seen", "heal", "button"}
               PROVE  Pressed(last[Game], a.label) # None
    BY DEF UnchangedIsPressed
  <2>1. a.on \in Messages /\ Pressable(a.on, a.label)
    BY DEF ClicksInv, QueueInv, Grounded, FromGame
  <2> QED
    BY <2>1, PressableIsPressed
<1> QED
  BY ClicksCorrect, <1>1, PTL

\* For any HP, threshold and set of percentages that float64 cuts off to the percent
\* below: what is submitted to heal was decided on a wound.
THEOREM HealsWoundsCorrect == Spec => []HealsWounds
<1>1. ClicksInv => HealsWounds
  BY DEF ClicksInv, QueueInv, Grounded, Wounded, HealsWounds
<1> QED
  BY ClicksCorrect, <1>1, PTL
=============================================================================
