-------------------------- MODULE AutomationProofs --------------------------
(***************************************************************************)
(* For any screens, workers, configurations and capacities: what is on its *)
(* way from the game to the state manager is in order and complete, the    *)
(* channels are never fuller than they can be, and a worker whose feature  *)
(* is off submits no more than it had decided.                             *)
(***************************************************************************)
EXTENDS Automation, ChannelLemmas, TLAPS

\* Submissions without priority: all that a worker makes.
Lows == {Low(l) : l \in Labels}

LEMMA LowsAreSubmissions == Lows \subseteq Submissions /\ \A a \in Lows : a.high = FALSE
<1> SUFFICES ASSUME NEW a \in Lows PROVE a \in Submissions /\ a.high = FALSE
  OBVIOUS
<1>1. PICK l \in Labels : a = [label |-> l, high |-> FALSE]
  BY DEF Lows, Low
<1> QED
  BY <1>1 DEF Submissions

LEMMA BuiltInLow == ASSUME NEW l \in BuiltIn PROVE Low(l) \in Lows
  BY DEF Lows, Labels

LEMMA One == ASSUME NEW S, NEW a \in S PROVE <<a>> \in Seq(S) /\ Len(<<a>>) = 1
  OBVIOUS

LEMMA None == ASSUME NEW S PROVE <<>> \in Seq(S) /\ Len(<<>>) = 0
  BY EmptySeq

LEMMA Both ==
    ASSUME NEW S, NEW s \in Seq(S), NEW t \in Seq(S)
    PROVE  s \o t \in Seq(S) /\ Len(s \o t) = Len(s) + Len(t)
  OBVIOUS

\* What a worker may decide to submit: at most three actions, and one by one.
ShortLists == {a \in Seq(Lows) : Len(a) <= 3}

LEMMA OneOfIs ==
    ASSUME NEW snap, NEW l \in BuiltIn
    PROVE  /\ OneOf(snap, l) \in Seq(Lows)
           /\ Len(OneOf(snap, l)) \in Nat /\ Len(OneOf(snap, l)) <= 1
<1>1. CASE HasButton(snap, l)
  <2>1. OneOf(snap, l) = <<Low(l)>>
    BY <1>1 DEF OneOf
  <2>2. Low(l) \in Lows
    BY BuiltInLow
  <2> QED
    BY <2>1, <2>2, One
<1>2. CASE ~HasButton(snap, l)
  <2>1. OneOf(snap, l) = <<>>
    BY <1>2 DEF OneOf
  <2> QED
    BY <2>1, None
<1> QED
  BY <1>1, <1>2

LEMMA OneOfChoice == ASSUME NEW snap, NEW l \in BuiltIn PROVE OneOf(snap, l) \in ShortLists
<1>1. /\ OneOf(snap, l) \in Seq(Lows)
      /\ Len(OneOf(snap, l)) \in Nat /\ Len(OneOf(snap, l)) <= 1
  BY OneOfIs
<1> QED
  BY <1>1 DEF ShortLists

LEMMA NoChoice == <<>> \in ShortLists
  BY None DEF ShortLists

LEMMA FirstOfChoice ==
    ASSUME NEW snap, NEW ls \in Seq(BuiltIn)
    PROVE  FirstOf(snap, ls) \in ShortLists
<1> DEFINE shown == {i \in DOMAIN ls : HasButton(snap, ls[i])}
<1>1. CASE shown = {}
  <2>1. FirstOf(snap, ls) = <<>>
    BY <1>1 DEF FirstOf
  <2> QED
    BY <2>1, NoChoice
<1>2. CASE shown # {}
  <2>1. shown \subseteq Nat
    OBVIOUS
  <2> DEFINE i == Min(shown)
  <2>2. i \in shown
    BY <1>2, <2>1, MinIsLeast
  <2>3. Low(ls[i]) \in Lows
    BY <2>2, BuiltInLow
  <2>4. FirstOf(snap, ls) = <<Low(ls[i])>>
    BY <1>2 DEF FirstOf
  <2> HIDE DEF i
  <2> QED
    BY <2>3, <2>4, One DEF ShortLists
<1> QED
  BY <1>1, <1>2

LEMMA HuntChoiceIs == ASSUME NEW snap PROVE HuntChoice(snap) \in ShortLists
<1>1. OneOf(snap, "Cacar") \in ShortLists
  BY OneOfChoice DEF BuiltIn
<1> QED
  BY <1>1, NoChoice DEF HuntChoice

LEMMA HealChoiceIs == ASSUME NEW snap PROVE HealChoice(snap) \in ShortLists
<1> DEFINE ls == <<"Consumiveis", "Pocao de Vida", "Inventario">>
<1>1. ls \in Seq(BuiltIn)
  BY DEF BuiltIn
<1> HIDE DEF ls
<1>2. FirstOf(snap, ls) \in ShortLists
  BY <1>1, FirstOfChoice
<1> QED
  BY <1>2, NoChoice DEF HealChoice, ls

LEMMA PotionChoiceIs == ASSUME NEW snap PROVE PotionChoice(snap) \in ShortLists
<1> DEFINE ls == <<"Loja", "Comprar", "Pocao de Vida", "Escolher quantidade", "Comprar 5">>
<1>1. ls \in Seq(BuiltIn)
  BY DEF BuiltIn
<1> HIDE DEF ls
<1>2. FirstOf(snap, ls) \in ShortLists
  BY <1>1, FirstOfChoice
<1> QED
  BY <1>2, NoChoice DEF PotionChoice, ls

LEMMA DungeonChoiceIs == ASSUME NEW snap PROVE DungeonChoice(snap) \in ShortLists
<1> DEFINE a == OneOf(snap, "Masmorra")
           b == OneOf(snap, "Criar sala")
           c == OneOf(snap, "Iniciar")
<1>1. /\ a \in Seq(Lows) /\ Len(a) \in Nat /\ Len(a) <= 1
      /\ b \in Seq(Lows) /\ Len(b) \in Nat /\ Len(b) <= 1
      /\ c \in Seq(Lows) /\ Len(c) \in Nat /\ Len(c) <= 1
  BY OneOfIs DEF BuiltIn
<1> HIDE DEF a, b, c
<1>2. a \o b \in Seq(Lows) /\ Len(a \o b) = Len(a) + Len(b)
  BY <1>1, Both
<1>3. (a \o b) \o c \in Seq(Lows) /\ Len((a \o b) \o c) = Len(a \o b) + Len(c)
  BY <1>1, <1>2, Both
<1>4. (a \o b) \o c \in ShortLists
  BY <1>1, <1>2, <1>3 DEF ShortLists
<1> QED
  BY <1>4, NoChoice DEF DungeonChoice, a, b, c

LEMMA RefreshIs == ASSUME NEW snap PROVE Refresh(snap) \in Seq(Submissions)
<1>1. Low("Energia") \in Submissions /\ Low("/start") \in Submissions
  BY BuiltInLow, LowsAreSubmissions DEF BuiltIn
<1>2. PICK l \in {"Energia", "/start"} : Refresh(snap) \in {<<Low(l)>>, <<>>}
  BY DEF Refresh
<1>3. Low(l) \in Submissions
  BY <1>1
<1> QED
  BY <1>2, <1>3, One, None

LEMMA DecisionIs ==
    ASSUME NEW snap, NEW hunt, NEW combat
    PROVE  Decision(snap, hunt, combat) \in Seq(Submissions)
<1>1. /\ High("Atacar") \in Submissions /\ High("Menu") \in Submissions
      /\ Low("Cacar") \in Submissions /\ Low("Cacar de novo") \in Submissions
  BY DEF High, Low, Submissions, Labels, BuiltIn
<1>2. /\ <<High("Atacar")>> \in Seq(Submissions) /\ <<High("Menu")>> \in Seq(Submissions)
      /\ <<Low("Cacar")>> \in Seq(Submissions) /\ <<Low("Cacar de novo")>> \in Seq(Submissions)
      /\ <<>> \in Seq(Submissions)
  BY <1>1, One, None
<1> DEFINE hunting == IF ScreenFull(snap) THEN <<Low("Cacar")>> ELSE <<>>
           menu == IF HasButton(snap, "Menu") THEN <<High("Menu")>> ELSE <<>>
<1>3. hunting \in Seq(Submissions) /\ menu \in Seq(Submissions)
  BY <1>2
<1>4. Refresh(snap) \in Seq(Submissions)
  BY RefreshIs
<1> HIDE DEF hunting, menu
<1>5. Refresh(snap) \o hunting \in Seq(Submissions) /\ menu \o Refresh(snap) \in Seq(Submissions)
  BY <1>3, <1>4, Both
<1>6. Decision(snap, hunt, combat) \in {<<High("Atacar")>>, Refresh(snap) \o hunting,
            menu \o Refresh(snap), <<Low("Cacar de novo")>>, <<>>}
  BY DEF Decision, hunting, menu
<1> QED
  BY <1>2, <1>5, <1>6
-----------------------------------------------------------------------------
(* The kinds of steps *)

\* The engine has decided, the worker w has, or it goes on to its next read.
EngineDecides ==
    /\ epc \in {"rules", "config"}
    /\ energyCooling \in BOOLEAN => energyCooling' \in BOOLEAN
    /\ \E actions \in Seq(Submissions) : Decides(actions)
WorkerDecides(w) ==
    /\ w \in Workers
    /\ At(w, "checked") \/ (At(w, "enabled") /\ IsOn(w))
    /\ \E actions \in ShortLists : Chooses(w, actions)
WorkerReads(w) == w \in Workers /\ (LooksAt(w) \/ Wakes(w) \/ Disabled(w) \/ Enabled(w))

LEMMA Workers5 ==
    ASSUME Hunt \/ Combat \/ Heal \/ Potion \/ Dungeon
    PROVE  \E w \in Workers : WorkerDecides(w) \/ WorkerReads(w)
<1>1. CASE HuntTick \/ CombatTick \/ HealTick \/ PotionTick \/ DungeonTick
  BY <1>1 DEF HuntTick, CombatTick, HealTick, PotionTick, DungeonTick, WorkerReads, LooksAt,
              Wakes, At
<1>2. ASSUME HuntChooses
      PROVE  WorkerDecides("hunt")
  BY <1>2, HuntChoiceIs DEF HuntChooses, WorkerDecides, At
<1>3. ASSUME CombatChooses
      PROVE  WorkerDecides("combat")
  <2>1. OneOf(seen["combat"], "Atacar") \in ShortLists
    BY OneOfChoice DEF BuiltIn
  <2> QED
    BY <1>3, <2>1 DEF CombatChooses, WorkerDecides, At
<1>4. ASSUME HealChooses
      PROVE  WorkerDecides("heal")
  BY <1>4, HealChoiceIs DEF HealChooses, WorkerDecides, At
<1>5. ASSUME PotionChooses
      PROVE  WorkerDecides("potion")
  BY <1>5, PotionChoiceIs DEF PotionChooses, WorkerDecides, At
<1>6. ASSUME DungeonChooses
      PROVE  WorkerDecides("dungeon")
  BY <1>6, DungeonChoiceIs DEF DungeonChooses, WorkerDecides, At
<1> QED
  BY <1>1, <1>2, <1>3, <1>4, <1>5, <1>6
     DEF Hunt, Combat, Heal, Potion, Dungeon, WorkerDecides

LEMMA EngineDecidesWhen ==
    ASSUME (\E l \in RuleLabels : RuleApplies(l)) \/ EngineReads
    PROVE  EngineDecides
<1>1. ASSUME NEW l \in RuleLabels, RuleApplies(l)
      PROVE  EngineDecides
  <2>1. High(l) \in Submissions
    BY DEF High, Submissions, Labels
  <2>2. <<High(l)>> \in Seq(Submissions)
    BY <2>1, One
  <2> QED
    BY <1>1, <2>2 DEF RuleApplies, EngineDecides
<1>2. ASSUME NEW hunt, NEW combat, epc = "config", Decide(hunt, combat)
      PROVE  EngineDecides
  <2>1. Decides(Decision(handling, hunt, combat))
    BY <1>2 DEF Decide
  <2>2. energyCooling \in BOOLEAN => energyCooling' \in BOOLEAN
    BY <1>2, Zenon DEF Decide
  <2> QED
    BY <1>2, <2>1, <2>2, DecisionIs DEF EngineDecides
<1> QED
  BY <1>1, <1>2 DEF EngineReads, EngineActs, EngineActsBlind

LEMMA Steps ==
    ASSUME [Next]_vars
    PROVE  \/ \E s \in Screens : MessageArrives(s)
           \/ Deliver
           \/ \E c \in Configs : Toggle(c) \/ Forget(c)
           \/ EnergyCooldownExpires
           \/ TakeHigh \/ TakeNormal
           \/ Receive \/ UpdateState \/ NoRule \/ EngineDecides \/ EngineSends
           \/ \E w \in Workers : WorkerReads(w) \/ WorkerDecides(w) \/ Sends(w)
           \/ UNCHANGED vars
<1>1. CASE Engine
  BY <1>1, EngineDecidesWhen DEF Engine
<1>2. CASE \E w \in Workers \cap {"heal", "potion", "dungeon"} : Enabled(w)
  BY <1>2 DEF WorkerReads
<1>3. CASE \E w \in Workers : Disabled(w) \/ Sends(w)
  BY <1>3 DEF WorkerReads
<1> QED
  BY <1>1, <1>2, <1>3, Workers5 DEF Next, Environment
-----------------------------------------------------------------------------
(* From the game to the state manager *)

\* What the messages pass through.
PathType ==
    /\ screen \in Screens \cup {NoScreen}
    /\ arriving \in Screens \cup {NoScreen}
    /\ events \in Seq(Screens) /\ Len(events) <= EventsCap
    /\ state \in Screens \cup {Unknown}
    /\ epc = "capture" => handling \in Screens

\* The newest of all that is under way, or else the snapshot, is the screen.
NewestIsScreen ==
    IF arriving # NoScreen THEN arriving = screen
    ELSE IF events # <<>> THEN events[Len(events)] = screen
    ELSE IF epc = "capture" THEN handling = screen
    ELSE screen # NoScreen => state = screen

PathInv == PathType /\ NewestIsScreen

LEMMA InitPath == Init => PathInv
<1> SUFFICES ASSUME Init PROVE PathInv
  OBVIOUS
<1>1. Len(events) = 0 /\ events \in Seq(Screens)
  BY None DEF Init
<1>2. Len(events) <= EventsCap
  BY <1>1, CapAssumption
<1> QED
  BY <1>1, <1>2 DEF Init, PathInv, PathType, NewestIsScreen

LEMMA ArrivingKeeps ==
    ASSUME PathInv, NEW s \in Screens, MessageArrives(s)
    PROVE  PathInv'
  BY ScreensAssumption DEF MessageArrives, PathInv, PathType, NewestIsScreen, engineVars

LEMMA DeliverKeeps == PathInv /\ Deliver => PathInv'
<1> SUFFICES ASSUME PathInv, Deliver PROVE PathInv'
  OBVIOUS
<1> USE DEF PathInv, PathType, Deliver, engineVars
<1>1. arriving \in Screens /\ arriving = screen
  BY DEF NewestIsScreen
<1>2. events' \in Seq(Screens) /\ events' # <<>> /\ events'[Len(events')] = arriving
  BY <1>1, SendingIsNewest
<1>3. Len(events') <= EventsCap
  BY CapAssumption
<1>4. NewestIsScreen'
  BY <1>1, <1>2 DEF NewestIsScreen
<1> QED
  BY <1>2, <1>3, <1>4

LEMMA ReceiveKeeps == PathInv /\ Receive => PathInv'
<1> SUFFICES ASSUME PathInv, Receive PROVE PathInv'
  OBVIOUS
<1> USE DEF PathInv, PathType, Receive
<1>1. /\ Head(events) \in Screens /\ events' \in Seq(Screens)
      /\ Len(events) \in Nat /\ Len(events') = Len(events) - 1
  BY ReceivingKeepsNewest
<1>2. PathType'
  BY <1>1, CapAssumption
<1>3. NewestIsScreen'
  BY ReceivingKeepsNewest DEF NewestIsScreen
<1> QED
  BY <1>2, <1>3

LEMMA UpdateStateKeeps == PathInv /\ UpdateState => PathInv'
  BY DEF UpdateState, PathInv, PathType, NewestIsScreen, envVars

\* Whatever else happens, what the engine has received and not yet shown stays.
LEMMA OthersKeepPath ==
    ASSUME PathInv, UNCHANGED <<screen, arriving, events, state>>,
           UNCHANGED <<epc, handling>> \/ (epc # "capture" /\ epc' # "capture")
    PROVE  PathInv'
  BY DEF PathInv, PathType, NewestIsScreen

LEMMA StepPath == PathInv /\ [Next]_vars => PathInv'
<1> SUFFICES ASSUME PathInv, [Next]_vars PROVE PathInv'
  OBVIOUS
<1> USE DEF envVars, engineVars
<1>1. CASE \E s \in Screens : MessageArrives(s)
  BY <1>1, ArrivingKeeps
<1>2. CASE \E c \in Configs : Toggle(c) \/ Forget(c)
  BY <1>2, OthersKeepPath DEF Toggle, Forget
<1>3. CASE EnergyCooldownExpires \/ TakeHigh \/ TakeNormal
  BY <1>3, OthersKeepPath DEF EnergyCooldownExpires, TakeHigh, TakeNormal
<1>4. CASE NoRule
  BY <1>4, OthersKeepPath DEF NoRule
<1>5. CASE EngineDecides
  BY <1>5, OthersKeepPath DEF EngineDecides, Decides
<1>6. CASE EngineSends
  BY <1>6, OthersKeepPath DEF EngineSends
<1>7. ASSUME NEW w \in Workers, WorkerReads(w)
      PROVE  PathInv'
  BY <1>7, OthersKeepPath DEF WorkerReads, LooksAt, Wakes, Disabled, Enabled
<1>8. ASSUME NEW w \in Workers, WorkerDecides(w)
      PROVE  PathInv'
  BY <1>8, OthersKeepPath DEF WorkerDecides, Chooses
<1>9. ASSUME NEW w \in Workers, Sends(w)
      PROVE  PathInv'
  BY <1>9, OthersKeepPath DEF Sends
<1>10. CASE UNCHANGED vars
  BY <1>10, OthersKeepPath DEF vars
<1> QED
  BY <1>1, <1>2, <1>3, <1>4, <1>5, <1>6, <1>7, <1>8, <1>9, <1>10, DeliverKeeps, ReceiveKeeps,
     UpdateStateKeeps, Steps

\* However the bursts of messages, the captures and the engine's pauses meet, for any
\* capacity of the listener's channel and any set of workers: once the channel is empty
\* and the engine holds no message that it has yet to show, the workers decide on the
\* screen that a click acts on.
THEOREM CaughtUpCorrect == Spec => []CaughtUp
<1>1. PathInv => CaughtUp
  BY DEF PathInv, NewestIsScreen, CaughtUp, Quiet
<1> QED
  BY InitPath, StepPath, <1>1, PTL DEF Spec
-----------------------------------------------------------------------------
(* The executor's channels and what is to be submitted *)

ChannelInv ==
    /\ highQ \in Seq(Labels) /\ Len(highQ) <= HighCap
    /\ queue \in Seq(Labels) /\ Len(queue) <= QueueCap

\* Of the workers it matters that they submit without priority, and little.
TodoInv ==
    /\ todo \in [Senders -> Seq(Submissions)]
    /\ \A w \in Workers : todo[w] \in ShortLists

LEMMA InitTodo == Init => ChannelInv /\ TodoInv
<1> SUFFICES ASSUME Init PROVE ChannelInv /\ TodoInv
  OBVIOUS
<1>1. /\ highQ \in Seq(Labels) /\ Len(highQ) = 0
      /\ queue \in Seq(Labels) /\ Len(queue) = 0
  BY None DEF Init
<1>2. ChannelInv
  BY <1>1, CapAssumption DEF ChannelInv
<1>3. todo \in [Senders -> Seq(Submissions)]
  BY None DEF Init
<1>4. \A w \in Workers : todo[w] = <<>>
  BY DEF Init, Senders
<1> QED
  BY <1>2, <1>3, <1>4, NoChoice DEF TodoInv

LEMMA ChoicesAreSubmissions == ShortLists \subseteq Seq(Submissions)
<1> SUFFICES ASSUME NEW a \in ShortLists PROVE a \in Seq(Submissions)
  OBVIOUS
<1>1. a \in Seq(Lows) /\ Lows \subseteq Submissions
  BY LowsAreSubmissions DEF ShortLists
<1> QED
  BY <1>1

LEMMA EngineIsNoWorker == "engine" \in Senders /\ "engine" \notin Workers
  BY WorkersAssumption DEF Senders, AllWorkers

\* A new list for one of those who submit.
LEMMA NewTodo ==
    ASSUME TodoInv, NEW x \in Senders, NEW actions \in Seq(Submissions),
           x \in Workers => actions \in ShortLists,
           todo' = [todo EXCEPT ![x] = actions]
    PROVE  TodoInv'
  BY DEF TodoInv, Senders

LEMMA DropFirst ==
    ASSUME NEW actions \in ShortLists, actions # <<>>
    PROVE  /\ Tail(actions) \in ShortLists
           /\ Len(actions) \in {1, 2, 3} /\ Len(Tail(actions)) = Len(actions) - 1
           /\ Head(actions) \in Lows
<1>1. actions \in Seq(Lows) /\ Len(actions) <= 3
  BY DEF ShortLists
<1>2. /\ Head(actions) \in Lows /\ Tail(actions) \in Seq(Lows)
      /\ Len(actions) \in Nat \ {0} /\ Len(Tail(actions)) = Len(actions) - 1
  BY <1>1, ReceivingKeepsNewest
<1> QED
  BY <1>1, <1>2 DEF ShortLists

LEMMA SendRoom ==
    ASSUME NEW s \in Seq(Labels), NEW cap \in Nat, Len(s) <= cap, HasRoom(s, cap),
           NEW l \in Labels
    PROVE  Append(s, l) \in Seq(Labels) /\ Len(Append(s, l)) <= cap
  BY DEF HasRoom

LEMMA SubmitKeepsChannels ==
    ASSUME ChannelInv, TodoInv, NEW x \in Senders, Submit(x)
    PROVE  ChannelInv'
<1>1. todo[x] # <<>> /\ todo[x] \in Seq(Submissions)
  BY DEF Submit, SubmitHigh, SubmitLow, TodoInv
<1>2. Head(todo[x]) \in Submissions
  BY <1>1
<1>3. Head(todo[x]).label \in Labels
  BY <1>2 DEF Submissions
<1>4. HighCap \in Nat /\ QueueCap \in Nat
  BY CapAssumption
<1>5. CASE SubmitHigh(x)
  BY <1>3, <1>4, <1>5, SendRoom DEF SubmitHigh, ChannelInv
<1>6. CASE SubmitLow(x)
  BY <1>3, <1>4, <1>6, SendRoom DEF SubmitLow, ChannelInv
<1> QED
  BY <1>5, <1>6 DEF Submit

\* A worker's submission, taken or dropped, is over: it is not tried again.
LEMMA WorkerSubmits ==
    ASSUME TodoInv, NEW w \in Workers, Submit(w)
    PROVE  todo[w] # <<>> /\ todo' = [todo EXCEPT ![w] = Tail(@)]
<1>1. todo[w] # <<>> /\ todo[w] \in ShortLists
  BY DEF Submit, SubmitHigh, SubmitLow, TodoInv
<1>2. ~Head(todo[w]).high
  BY <1>1, DropFirst, LowsAreSubmissions
<1> QED
  BY <1>1, <1>2 DEF Submit, SubmitHigh, SubmitLow

LEMMA SubmitKeepsTodo ==
    ASSUME TodoInv, NEW x \in Senders, Submit(x)
    PROVE  TodoInv'
<1>1. CASE x \in Workers
  <2>1. todo[x] \in ShortLists /\ todo[x] # <<>> /\ todo' = [todo EXCEPT ![x] = Tail(todo[x])]
    BY <1>1, WorkerSubmits DEF TodoInv
  <2> QED
    BY <2>1, DropFirst, ChoicesAreSubmissions, NewTodo
<1>2. CASE x \notin Workers
  <2>1. todo[x] \in Seq(Submissions) /\ todo[x] # <<>>
    BY DEF TodoInv, Submit, SubmitHigh, SubmitLow
  <2>2. Tail(todo[x]) \in Seq(Submissions) /\ Head(todo[x]) \in Submissions
    BY <2>1, ReceivingKeepsNewest
  <2>3. Low(Head(todo[x]).label) \in Submissions
    BY <2>2 DEF Low, Submissions
  <2>4. <<Low(Head(todo[x]).label)>> \o Tail(todo[x]) \in Seq(Submissions)
    BY <2>2, <2>3, One, Both
  <2>5. \/ todo' = [todo EXCEPT ![x] = Tail(todo[x])]
        \/ todo' = [todo EXCEPT ![x] = <<Low(Head(todo[x]).label)>> \o Tail(todo[x])]
    BY DEF Submit, SubmitHigh, SubmitLow, TodoInv
  <2> QED
    BY <1>2, <2>2, <2>4, <2>5, NewTodo
<1> QED
  BY <1>1, <1>2

LEMMA TakeKeeps ==
    ASSUME ChannelInv, TakeHigh \/ TakeNormal
    PROVE  ChannelInv'
<1>1. CASE TakeHigh
  <2>1. /\ Tail(highQ) \in Seq(Labels) /\ Len(highQ) \in Nat
        /\ Len(Tail(highQ)) = Len(highQ) - 1
    BY <1>1, ReceivingKeepsNewest DEF TakeHigh, ChannelInv
  <2> QED
    BY <1>1, <2>1, CapAssumption DEF TakeHigh, ChannelInv
<1>2. CASE TakeNormal
  <2>1. /\ Tail(queue) \in Seq(Labels) /\ Len(queue) \in Nat
        /\ Len(Tail(queue)) = Len(queue) - 1
    BY <1>2, ReceivingKeepsNewest DEF TakeNormal, ChannelInv
  <2> QED
    BY <1>2, <2>1, CapAssumption DEF TakeNormal, ChannelInv
<1> QED
  BY <1>1, <1>2

LEMMA StepTodo == ChannelInv /\ TodoInv /\ [Next]_vars => (ChannelInv /\ TodoInv)'
<1> SUFFICES ASSUME ChannelInv, TodoInv, [Next]_vars
             PROVE  ChannelInv' /\ TodoInv'
  OBVIOUS
<1>1. ASSUME UNCHANGED channels
      PROVE  ChannelInv'
  BY <1>1 DEF channels, ChannelInv
<1>2. ASSUME UNCHANGED todo
      PROVE  TodoInv'
  BY <1>2 DEF TodoInv
<1>3. CASE \E s \in Screens : MessageArrives(s)
  BY <1>1, <1>2, <1>3 DEF MessageArrives
<1>4. CASE Deliver \/ Receive \/ UpdateState \/ NoRule \/ EnergyCooldownExpires
  BY <1>1, <1>2, <1>4 DEF Deliver, Receive, UpdateState, NoRule, EnergyCooldownExpires
<1>5. CASE \E c \in Configs : Toggle(c) \/ Forget(c)
  BY <1>1, <1>2, <1>5 DEF Toggle, Forget
<1>6. CASE TakeHigh \/ TakeNormal
  BY <1>2, <1>6, TakeKeeps DEF TakeHigh, TakeNormal
<1>7. CASE EngineDecides
  <2>1. PICK actions \in Seq(Submissions) : Decides(actions)
    BY <1>7 DEF EngineDecides
  <2>2. TodoInv'
    BY <2>1, EngineIsNoWorker, NewTodo DEF Decides
  <2> QED
    BY <1>1, <2>1, <2>2 DEF Decides
<1>8. CASE EngineSends
  BY <1>8, EngineIsNoWorker, SubmitKeepsChannels, SubmitKeepsTodo DEF EngineSends
<1>9. ASSUME NEW w \in Workers, WorkerReads(w)
      PROVE  ChannelInv' /\ TodoInv'
  BY <1>1, <1>2, <1>9 DEF WorkerReads, LooksAt, Wakes, Disabled, Enabled
<1>10. ASSUME NEW w \in Workers, WorkerDecides(w)
       PROVE  ChannelInv' /\ TodoInv'
  <2>1. PICK actions \in ShortLists : Chooses(w, actions)
    BY <1>10 DEF WorkerDecides
  <2>2. TodoInv'
    BY <2>1, ChoicesAreSubmissions, NewTodo DEF Chooses, Senders
  <2> QED
    BY <1>1, <2>1, <2>2 DEF Chooses
<1>11. ASSUME NEW w \in Workers, Sends(w)
       PROVE  ChannelInv' /\ TodoInv'
  BY <1>11, SubmitKeepsChannels, SubmitKeepsTodo DEF Sends, Senders
<1>12. CASE UNCHANGED vars
  BY <1>1, <1>2, <1>12 DEF vars
<1> QED
  BY <1>3, <1>4, <1>5, <1>6, <1>7, <1>8, <1>9, <1>10, <1>11, <1>12, Steps

LEMMA TodoCorrect == Spec => [](ChannelInv /\ TodoInv)
  BY InitTodo, StepTodo, PTL DEF Spec
-----------------------------------------------------------------------------
(* The other variables *)

Places == {"idle", "enabled", "checked", "sending"}
RestInv ==
    /\ handling \in Screens \cup {NoScreen}
    /\ epc \in {"idle", "capture", "rules", "config", "sending"}
    /\ energyCooling \in BOOLEAN
    /\ config \in recent
    /\ recent \subseteq Configs
    /\ wpc \in [Workers -> Places]
    /\ seen \in [Workers -> Screens \cup {Unknown, NoScreen}]

LEMMA InitRest == Init => RestInv
<1> SUFFICES ASSUME Init PROVE RestInv
  OBVIOUS
<1>1. wpc \in [Workers -> Places] /\ seen \in [Workers -> Screens \cup {Unknown, NoScreen}]
  BY DEF Init, Places
<1>2. config \in recent /\ recent \subseteq Configs
  BY DEF Init
<1>3. handling = NoScreen /\ epc = "idle" /\ energyCooling = FALSE
  BY DEF Init
<1> QED
  BY <1>1, <1>2, <1>3 DEF RestInv

\* Of a worker: where it is and what it holds.
LEMMA WorkersOnly ==
    ASSUME RestInv, UNCHANGED <<engineVars, configVars>>, wpc' \in [Workers -> Places],
           seen' \in [Workers -> Screens \cup {Unknown, NoScreen}]
    PROVE  RestInv'
  BY DEF RestInv, engineVars, configVars

LEMMA Moves ==
    ASSUME RestInv, NEW w, NEW place \in Places, To(w, place)
    PROVE  wpc' \in [Workers -> Places]
  BY DEF RestInv, To

LEMMA Forgetting ==
    ASSUME RestInv, NEW w, Forgets(w) \/ UNCHANGED seen
    PROVE  seen' \in [Workers -> Screens \cup {Unknown, NoScreen}]
  BY DEF RestInv, Forgets

LEMMA StepRest == RestInv /\ PathType /\ [Next]_vars => RestInv'
<1> SUFFICES ASSUME RestInv, PathType, [Next]_vars PROVE RestInv'
  OBVIOUS
<1> DEFINE Held == UNCHANGED <<engineVars, configVars, workerVars>>
<1>1. ASSUME Held
      PROVE  RestInv'
  BY <1>1 DEF RestInv, engineVars, configVars, workerVars
<1>2. CASE \E s \in Screens : MessageArrives(s)
  BY <1>1, <1>2 DEF MessageArrives
<1>3. CASE Deliver \/ TakeHigh \/ TakeNormal
  BY <1>1, <1>3 DEF Deliver, TakeHigh, TakeNormal
<1>4. ASSUME NEW c \in Configs, Toggle(c) \/ Forget(c)
      PROVE  RestInv'
  BY <1>4 DEF Toggle, Forget, RestInv, engineVars, workerVars
<1>5. CASE EnergyCooldownExpires
  BY <1>5 DEF EnergyCooldownExpires, RestInv, configVars, workerVars
<1>6. CASE Receive
  <2>1. Head(events) \in Screens
    BY <1>6, ReceivingKeepsNewest DEF Receive, PathType
  <2> QED
    BY <1>6, <2>1 DEF Receive, RestInv, configVars, workerVars
<1>7. CASE UpdateState \/ NoRule
  BY <1>7 DEF UpdateState, NoRule, RestInv, configVars, workerVars
<1>8. CASE EngineDecides
  BY <1>8 DEF EngineDecides, Decides, RestInv, configVars, workerVars
<1>9. CASE EngineSends
  BY <1>9 DEF EngineSends, RestInv, configVars, workerVars
<1>10. ASSUME NEW w \in Workers, WorkerReads(w)
       PROVE  RestInv'
  <2>1. CASE LooksAt(w)
    <3>1. seen' \in [Workers -> Screens \cup {Unknown, NoScreen}]
      BY <2>1 DEF LooksAt, RestInv, PathType
    <3>2. wpc' \in [Workers -> Places]
      BY <2>1, Moves DEF LooksAt, Places
    <3> QED
      BY <2>1, <3>1, <3>2, WorkersOnly DEF LooksAt
  <2>2. CASE Wakes(w) \/ Enabled(w) \/ Disabled(w)
    <3>1. seen' \in [Workers -> Screens \cup {Unknown, NoScreen}]
      BY <2>2, Forgetting DEF Wakes, Enabled, Disabled
    <3>2. wpc' \in [Workers -> Places]
      BY <2>2, Moves DEF Wakes, Enabled, Disabled, Places
    <3> QED
      BY <2>2, <3>1, <3>2, WorkersOnly DEF Wakes, Enabled, Disabled
  <2> QED
    BY <1>10, <2>1, <2>2 DEF WorkerReads
<1>11. ASSUME NEW w \in Workers, WorkerDecides(w)
       PROVE  RestInv'
  <2>1. PICK actions \in ShortLists : Chooses(w, actions)
    BY <1>11 DEF WorkerDecides
  <2>2. seen' \in [Workers -> Screens \cup {Unknown, NoScreen}]
    BY <2>1, Forgetting DEF Chooses
  <2>3. wpc' \in [Workers -> Places]
    BY <2>1, Moves DEF Chooses, Places
  <2> QED
    BY <2>1, <2>2, <2>3, WorkersOnly DEF Chooses
<1>12. ASSUME NEW w \in Workers, Sends(w)
       PROVE  RestInv'
  <2>1. seen' \in [Workers -> Screens \cup {Unknown, NoScreen}]
    BY <1>12, Forgetting DEF Sends
  <2>2. wpc' \in [Workers -> Places]
    BY <1>12, Moves DEF Sends, Places
  <2> QED
    BY <1>12, <2>1, <2>2, WorkersOnly DEF Sends
<1>13. CASE UNCHANGED vars
  BY <1>1, <1>13 DEF vars
<1> QED
  BY <1>2, <1>3, <1>4, <1>5, <1>6, <1>7, <1>8, <1>9, <1>10, <1>11, <1>12, <1>13, Steps

LEMMA RestCorrect == Spec => []RestInv
<1>1. PathInv => PathType
  BY DEF PathInv
<1> QED
  BY InitPath, StepPath, InitRest, StepRest, <1>1, PTL DEF Spec

\* For any labels, screens, workers and capacities: the listener's channel and the
\* executor's two never hold more than they can, whoever submits, with or without
\* priority, and however much at once; the other variables keep their types.
THEOREM TypeCorrect == Spec => []TypeOK
<1>1. PathInv /\ ChannelInv /\ TodoInv /\ RestInv => TypeOK
  BY DEF PathInv, PathType, ChannelInv, TodoInv, RestInv, Places, TypeOK
<1> QED
  BY InitPath, StepPath, TodoCorrect, RestCorrect, <1>1, PTL DEF Spec
-----------------------------------------------------------------------------
(* A feature that is off *)

\* The worker has read that its feature is on, or has so many submissions left.
Read(w) == At(w, "checked")
Left(w, n) == At(w, "sending") /\ Len(todo[w]) >= n

\* Only a read that finds the feature on takes a worker to its further reads.
LEMMA OffKeepsOut ==
    ASSUME RestInv, [Next]_vars, NEW w \in Workers, Off(w), ~Read(w)
    PROVE  ~Read(w)'
<1> SUFFICES ASSUME Read(w)' PROVE FALSE
  OBVIOUS
<1> USE DEF Read, At
<1>1. wpc'[w] = "checked" /\ wpc[w] # "checked"
  OBVIOUS
<1>2. ASSUME NEW v \in Workers, NEW place, To(v, place)
      PROVE  v = w /\ place = "checked"
  BY <1>1, <1>2 DEF To, RestInv
<1>3. ASSUME NEW v \in Workers, WorkerReads(v)
      PROVE  FALSE
  <2>1. CASE Enabled(v)
    BY <1>2, <2>1 DEF Enabled, IsOn, Off
  <2>2. CASE LooksAt(v) \/ Wakes(v) \/ Disabled(v)
    BY <1>2, <2>2 DEF LooksAt, Wakes, Disabled
  <2> QED
    BY <1>3, <2>1, <2>2 DEF WorkerReads
<1>4. ASSUME NEW v \in Workers, WorkerDecides(v)
      PROVE  FALSE
  BY <1>2, <1>4 DEF WorkerDecides, Chooses
<1>5. ASSUME NEW v \in Workers, Sends(v)
      PROVE  FALSE
  BY <1>2, <1>5 DEF Sends
<1>6. CASE UNCHANGED workerVars
  BY <1>1, <1>6 DEF workerVars
<1>7. CASE \E s \in Screens : MessageArrives(s)
  BY <1>6, <1>7 DEF MessageArrives
<1>8. CASE \E c \in Configs : Toggle(c) \/ Forget(c)
  BY <1>6, <1>8 DEF Toggle, Forget
<1> QED
  BY <1>3, <1>4, <1>5, <1>6, <1>7, <1>8, Steps
     DEF Deliver, EnergyCooldownExpires, TakeHigh, TakeNormal, Receive, UpdateState, NoRule,
         EngineDecides, Decides, EngineSends, vars

\* Whether a step of a worker itself or of another moves it.
LEMMA OffKeepsLeft ==
    ASSUME RestInv, TodoInv, [Next]_vars, NEW w \in Workers, Off(w), ~Read(w), NEW n \in Nat,
           ~Left(w, n)
    PROVE  ~Left(w, n)'
<1> SUFFICES ASSUME Left(w, n)' PROVE FALSE
  OBVIOUS
<1> USE DEF Left, Read, At
<1>1. wpc'[w] = "sending" /\ Len(todo'[w]) >= n
  OBVIOUS
<1>2. ASSUME UNCHANGED wpc, todo'[w] = todo[w]
      PROVE  FALSE
  BY <1>1, <1>2
<1>3. ASSUME NEW v \in Workers, NEW place, To(v, place), place # "sending", UNCHANGED todo
      PROVE  FALSE
  BY <1>1, <1>3 DEF To, RestInv
<1>4. ASSUME NEW v \in Workers, NEW place, To(v, place), NEW actions,
             todo' = [todo EXCEPT ![v] = actions], v # w
      PROVE  FALSE
  BY <1>1, <1>4 DEF To, RestInv, TodoInv, Senders
<1>5. ASSUME NEW v \in Workers, WorkerReads(v)
      PROVE  FALSE
  BY <1>3, <1>5 DEF WorkerReads, LooksAt, Wakes, Disabled, Enabled
<1>6. ASSUME NEW v \in Workers, WorkerDecides(v)
      PROVE  FALSE
  <2>1. v # w
    BY <1>6 DEF WorkerDecides, IsOn, Off
  <2> QED
    BY <1>4, <1>6, <2>1 DEF WorkerDecides, Chooses
<1>7. ASSUME NEW v \in Workers, Sends(v)
      PROVE  FALSE
  <2>1. todo[v] # <<>> /\ todo' = [todo EXCEPT ![v] = Tail(todo[v])]
    BY <1>7, WorkerSubmits DEF Sends, TodoInv
  <2>2. CASE v # w
    BY <1>4, <1>7, <2>1, <2>2 DEF Sends
  <2>3. CASE v = w
    <3>1. todo[w] \in ShortLists /\ todo'[w] = Tail(todo[w])
      BY <2>1, <2>3 DEF TodoInv, Senders
    <3>2. Len(todo[w]) \in {1, 2, 3} /\ Len(todo'[w]) = Len(todo[w]) - 1
      BY <2>1, <2>3, <3>1, DropFirst
    <3>3. wpc[w] = "sending"
      BY <1>7, <2>3 DEF Sends
    <3> QED
      BY <1>1, <3>2, <3>3
  <2> QED
    BY <2>2, <2>3
<1>8. ASSUME EngineDecides \/ EngineSends
      PROVE  FALSE
  <2>1. UNCHANGED wpc
    BY <1>8 DEF EngineDecides, Decides, EngineSends, workerVars
  <2>2. \E actions : todo' = [todo EXCEPT !["engine"] = actions]
    BY <1>8 DEF EngineDecides, Decides, EngineSends, Submit, SubmitHigh, SubmitLow
  <2>3. todo'[w] = todo[w]
    BY <2>2, EngineIsNoWorker DEF TodoInv, Senders
  <2> QED
    BY <1>2, <2>1, <2>3
<1>9. ASSUME UNCHANGED <<workerVars, todo>>
      PROVE  FALSE
  BY <1>2, <1>9 DEF workerVars
<1>10. CASE \E s \in Screens : MessageArrives(s)
  BY <1>9, <1>10 DEF MessageArrives
<1>11. CASE \E c \in Configs : Toggle(c) \/ Forget(c)
  BY <1>9, <1>11 DEF Toggle, Forget
<1> QED
  BY <1>5, <1>6, <1>7, <1>8, <1>9, <1>10, <1>11, Steps
     DEF Deliver, EnergyCooldownExpires, TakeHigh, TakeNormal, Receive, UpdateState, NoRule, vars

\* A submission is one less that is left.
LEMMA SendsLess ==
    ASSUME TodoInv, RestInv, NEW w \in Workers, Sends(w)
    PROVE  /\ ~Read(w)
           /\ \/ Left(w, 1) /\ ~Left(w, 1)'
              \/ Left(w, 2) /\ ~Left(w, 2)'
              \/ Left(w, 3) /\ ~Left(w, 3)'
<1>1. todo[w] # <<>> /\ todo' = [todo EXCEPT ![w] = Tail(todo[w])] /\ wpc[w] = "sending"
  BY WorkerSubmits DEF Sends, At, TodoInv
<1>2. todo[w] \in ShortLists /\ todo'[w] = Tail(todo[w])
  BY <1>1 DEF TodoInv, Senders
<1>3. Len(todo[w]) \in {1, 2, 3} /\ Len(todo'[w]) = Len(todo[w]) - 1
  BY <1>1, <1>2, DropFirst
<1>4. ASSUME Len(todo[w]) = 1
      PROVE  Left(w, 1) /\ ~Left(w, 1)'
  <2>1. Len(todo'[w]) = 0 /\ wpc[w] = "sending"
    BY <1>1, <1>3, <1>4
  <2>2. Left(w, 1)
    BY <1>4, <2>1 DEF Left, At
  <2>3. ~(Len(todo'[w]) >= 1)
    BY <2>1
  <2>4. ~Left(w, 1)'
    BY <2>3 DEF Left
  <2> QED
    BY <2>2, <2>4
<1>5. ASSUME Len(todo[w]) = 2
      PROVE  Left(w, 2) /\ ~Left(w, 2)'
  <2>1. Len(todo'[w]) = 1 /\ wpc[w] = "sending"
    BY <1>1, <1>3, <1>5
  <2>2. Left(w, 2)
    BY <1>5, <2>1 DEF Left, At
  <2>3. ~(Len(todo'[w]) >= 2)
    BY <2>1
  <2>4. ~Left(w, 2)'
    BY <2>3 DEF Left
  <2> QED
    BY <2>2, <2>4
<1>6. ASSUME Len(todo[w]) = 3
      PROVE  Left(w, 3) /\ ~Left(w, 3)'
  <2>1. Len(todo'[w]) = 2 /\ wpc[w] = "sending"
    BY <1>1, <1>3, <1>6
  <2>2. Left(w, 3)
    BY <1>6, <2>1 DEF Left, At
  <2>3. ~(Len(todo'[w]) >= 3)
    BY <2>1
  <2>4. ~Left(w, 3)'
    BY <2>3 DEF Left
  <2> QED
    BY <2>2, <2>4
<1>7. ~Read(w)
  BY <1>1 DEF Read, At
<1> QED
  BY <1>3, <1>4, <1>5, <1>6, <1>7

\* Without any fairness, for each worker and however its reads and submissions meet the
\* switch: once its feature is off for good, the submissions it had decided on or the
\* reads of the old value had still let it decide on, three at most, are its last.
THEOREM OffStopsCorrect == Spec => OffStops
<1> SUFFICES ASSUME NEW w \in Workers
             PROVE  Spec => (<>[]Off(w) => <>[][~Sends(w)]_vars)
  BY DEF OffStops
<1> DEFINE IInv == RestInv /\ TodoInv
           S == Sends(w)
           R == Read(w)
           L1 == Left(w, 1)
           L2 == Left(w, 2)
           L3 == Left(w, 3)
<1>1. IInv /\ [Next]_vars /\ Off(w) /\ ~R => ~R'
  BY OffKeepsOut
<1>2. IInv /\ [Next]_vars /\ Off(w) /\ ~R => (~L1 => ~L1') /\ (~L2 => ~L2') /\ (~L3 => ~L3')
  BY OffKeepsLeft
<1>3. IInv /\ [Next]_vars =>
        [~S]_vars \/ (~R /\ ((L1 /\ ~L1') \/ (L2 /\ ~L2') \/ (L3 /\ ~L3')))
  BY SendsLess
<1>4. Spec => []IInv
  BY RestCorrect, TodoCorrect, PTL
<1> HIDE DEF IInv, S, R, L1, L2, L3
<1>5. Spec => (<>[]Off(w) => <>[][~S]_vars)
  BY <1>1, <1>2, <1>3, <1>4, PTL DEF Spec
<1> QED
  BY <1>5 DEF S
=============================================================================
