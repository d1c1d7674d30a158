----------------------------- MODULE Automation -----------------------------
(***************************************************************************)
(* How one account turns the game's messages into actions: the client's    *)
(* last message and the listener (internal/telegram), the state manager    *)
(* and the automation engine (internal/engine), and the five workers       *)
(* (internal/automation).                                                  *)
(*                                                                         *)
(* The engine's goroutine takes messages from the listener and decides on  *)
(* each.  A worker wakes up on its ticker and decides on the snapshot the  *)
(* state manager holds.  Between looking at a snapshot, reading the        *)
(* configuration (a read of the database, at worst) and submitting, every  *)
(* other goroutine may run: each such point is a step here.                *)
(*                                                                         *)
(* The executor takes what waits, from either of its two channels          *)
(* (module ActionExecutor tells what it does with it).                     *)
(* The cached configuration is its promise (module ConfigCache): a         *)
(* read returns a configuration that was current a bounded time ago, one   *)
(* of "recent".  The game and the user's toggles are the environment.      *)
(***************************************************************************)
EXTENDS Integers, Sequences, Functions, FiniteSetsExt

CONSTANTS
    Screens,     \* the snapshots that parsing the game's messages can yield
    NoScreen,    \* no message
    Workers,     \* which of the workers have a positive interval
    Configs,     \* configurations the user chooses: sets of enabled features
    RuleLabels,  \* what the user's learned rules click or send
    Threshold,   \* HealPercent
    MinPotions,
    EventsCap,   \* capacity of the listener's channel (200 in the code)
    HighCap,     \* capacity of the executor's high channel (50)
    QueueCap     \* capacity of its normal channel (200)

AllWorkers == {"hunt", "combat", "heal", "potion", "dungeon"}

\* What the code clicks, and "/start", which it sends; without the accents,
\* which textutil.Normalize takes away wherever labels are compared.
BuiltIn == {"Atacar", "Cacar", "Cacar de novo", "Menu", "Energia", "/start",
            "Consumiveis", "Pocao de Vida", "Inventario", "Loja", "Comprar",
            "Escolher quantidade", "Comprar 5", "Masmorra", "Criar sala",
            "Iniciar"}
Labels == BuiltIn \cup RuleLabels

ASSUME WorkersAssumption == Workers \subseteq AllWorkers
ASSUME ConfigsAssumption == Configs \subseteq SUBSET AllWorkers
ASSUME CapAssumption == {EventsCap, HighCap, QueueCap} \subseteq Nat \ {0}

\* What is to be submitted: a click or a message, with priority or without.
Submissions == [label : Labels, high : BOOLEAN]
Low(l) == [label |-> l, high |-> FALSE]
High(l) == [label |-> l, high |-> TRUE]

\* Who submits.
Senders == Workers \cup {"engine"}

VARIABLES
    screen,      \* Client.lastMsg of the game's chat: what a click acts on
    arriving,    \* a message in handleMessage, between lastMsg and the channel
    events,      \* the listener's channel
    state,       \* StateManager.snapshot
    handling,    \* the snapshot the engine handles
    epc,         \* where the engine is
    energyCooling, \* the energy was refreshed within the last minute
    config,      \* the configuration in the database
    recent,      \* the configurations a read may still return
    wpc, seen,   \* where each worker is, and the snapshot it holds
    todo,        \* what the engine and each worker have decided to submit
    highQ, queue \* the labels that wait in the executor's channels

envVars == <<screen, arriving, events>>
engineVars == <<handling, epc, energyCooling>>
configVars == <<config, recent>>
workerVars == <<wpc, seen>>
channels == <<highQ, queue>>
vars == <<envVars, state, engineVars, configVars, workerVars, todo, channels>>

\* The snapshot before the first message: NewStateManager.
Unknown == [state |-> "UNKNOWN", hp |-> 0, potions |-> 0, energy |-> 0,
            energyMax |-> 0, buttons |-> {}]

ASSUME ScreensAssumption == NoScreen \notin Screens \cup {Unknown}

\* parser.HasButton asks for a button whose label contains the one looked for.
Containing == {<<"Cacar de novo", "Cacar">>, <<"Comprar 5", "Comprar">>}
HasButton(snap, l) ==
    \E b \in snap.buttons : b = l \/ <<b, l>> \in Containing

Init ==
    /\ screen = NoScreen
    /\ arriving = NoScreen
    /\ events = <<>>
    /\ state = Unknown
    /\ handling = NoScreen
    /\ epc = "idle"
    /\ energyCooling = FALSE
    /\ config \in Configs
    /\ recent = {config}
    /\ wpc = [w \in Workers |-> "idle"]
    /\ seen = [w \in Workers |-> NoScreen]
    /\ todo = [x \in Senders |-> <<>>]
    /\ highQ = <<>> /\ queue = <<>>
-----------------------------------------------------------------------------
(* Environment: the game, the user, the clock *)

\* A message or an edit of the game: handleMessage makes it the chat's last.
\* (The listener's target is set: nothing is dropped for want of one.)
MessageArrives(s) ==
    /\ arriving = NoScreen
    /\ screen' = s
    /\ arriving' = s
    /\ UNCHANGED <<events, state, engineVars, configVars, workerVars, todo,
                   channels>>

\* Mutant of Deliver: what finds the channel full is dropped.
DeliverOrDrop ==
    /\ arriving # NoScreen
    /\ events' = IF Len(events) < EventsCap THEN Append(events, arriving) ELSE events
    /\ arriving' = NoScreen
    /\ UNCHANGED <<screen, state, engineVars, configVars, workerVars, todo,
                   channels>>

\* Listener.Handle puts it in the channel, waiting for room.
Deliver ==
    /\ arriving # NoScreen
    /\ Len(events) < EventsCap
    /\ events' = Append(events, arriving)
    /\ arriving' = NoScreen
    /\ UNCHANGED <<screen, state, engineVars, configVars, workerVars, todo,
                   channels>>

\* The user toggles a feature in the bot.
Toggle(c) ==
    /\ c # config
    /\ config' = c
    /\ recent' = recent \cup {c}
    /\ UNCHANGED <<envVars, state, engineVars, workerVars, todo,
                   channels>>

\* A configuration replaced long enough ago is returned by no read any more.
Forget(c) ==
    /\ c \in recent \ {config}
    /\ recent' = recent \ {c}
    /\ UNCHANGED <<config, envVars, state, engineVars, workerVars, todo,
                   channels>>

EnergyCooldownExpires ==
    /\ energyCooling
    /\ energyCooling' = FALSE
    /\ UNCHANGED <<envVars, state, handling, epc, configVars, workerVars, todo,
                   channels>>

(* The executor's channels: Enqueue, and the workers' own select, never block *)

\* The executor's select takes from either channel.
TakeHigh ==
    /\ highQ # <<>>
    /\ highQ' = Tail(highQ)
    /\ UNCHANGED <<envVars, state, engineVars, configVars, workerVars, todo, queue>>
TakeNormal ==
    /\ queue # <<>>
    /\ queue' = Tail(queue)
    /\ UNCHANGED <<envVars, state, engineVars, configVars, workerVars, todo, highQ>>

\* Mutant of HasRoom: the capacity is off by one.
HasRoomForMore(channel, cap) == Len(channel) <= cap

HasRoom(channel, cap) == Len(channel) < cap

\* The next thing to submit goes to the high channel, if it has priority ...
SubmitHigh(x) ==
    LET action == Head(todo[x])
    IN /\ todo[x] # <<>>
       /\ action.high
       /\ IF HasRoom(highQ, HighCap)
          THEN /\ highQ' = Append(highQ, action.label)
               /\ todo' = [todo EXCEPT ![x] = Tail(@)]
          ELSE \* ... but if that is full to the normal one,
               /\ todo' = [todo EXCEPT ![x] = <<Low(action.label)>> \o Tail(@)]
               /\ UNCHANGED highQ
       /\ UNCHANGED queue

\* as what has none, and if that is full it is dropped.
SubmitLow(x) ==
    LET action == Head(todo[x])
    IN /\ todo[x] # <<>>
       /\ ~action.high
       /\ queue' = IF HasRoom(queue, QueueCap) THEN Append(queue, action.label)
                   ELSE queue
       /\ todo' = [todo EXCEPT ![x] = Tail(@)]
       /\ UNCHANGED highQ

Submit(x) == SubmitHigh(x) \/ SubmitLow(x)
-----------------------------------------------------------------------------
(* The engine *)

\* The listener's loop takes a message; captureSnapshot reads and writes the
\* database before anybody is told of the message (module Clicks).
Receive ==
    /\ epc = "idle"
    /\ events # <<>>
    /\ events' = Tail(events)
    /\ handling' = Head(events)
    /\ epc' = "capture"
    /\ UNCHANGED <<screen, arriving, state, energyCooling, configVars, workerVars,
                   todo, channels>>

\* HandleSnapshot begins: the state manager has the new snapshot.
UpdateState ==
    /\ epc = "capture"
    /\ state' = handling
    /\ epc' = "rules"
    /\ UNCHANGED <<envVars, handling, energyCooling, configVars, workerVars, todo,
                   channels>>

\* What HandleSnapshot has decided: it submits and is done.
Decides(actions) ==
    /\ todo' = [todo EXCEPT !["engine"] = actions]
    /\ epc' = IF actions = <<>> THEN "idle" ELSE "sending"
    /\ handling' = NoScreen
    /\ UNCHANGED <<envVars, state, configVars, workerVars, channels>>

\* handleLearnedRules: a rule matches and its action is all that is done ...
RuleApplies(l) ==
    /\ epc = "rules"
    /\ l \in RuleLabels
    /\ Decides(<<High(l)>>)
    /\ UNCHANGED energyCooling

\* ... or none does, there are none, or they cannot be read.
NoRule ==
    /\ epc = "rules"
    /\ epc' = "config"
    /\ UNCHANGED <<envVars, state, handling, energyCooling, configVars,
                   workerVars, todo, channels>>

\* maybeRefreshEnergy: what it submits, if anything.
RefreshDue(snap) == snap.energyMax > 0 /\ snap.energy <= 0 /\ ~energyCooling
Refresh(snap) ==
    IF RefreshDue(snap)
    THEN <<Low(IF HasButton(snap, "Energia") THEN "Energia" ELSE "/start")>>
    ELSE <<>>

\* The energy is full, or the screen does not tell.
ScreenFull(snap) == snap.energyMax > 0 => snap.energy >= snap.energyMax

\* The switch of HandleSnapshot: what is submitted, in order.
Decision(snap, hunt, combat) ==
    CASE snap.state = "COMBAT" /\ combat -> <<High("Atacar")>>
      [] snap.state = "MAIN_MENU" /\ hunt ->
             Refresh(snap) \o (IF ScreenFull(snap) THEN <<Low("Cacar")>> ELSE <<>>)
      [] snap.state = "NO_ENERGY" ->
             (IF HasButton(snap, "Menu") THEN <<High("Menu")>> ELSE <<>>)
                 \o Refresh(snap)
      [] snap.state = "VICTORY" /\ hunt -> <<Low("Cacar de novo")>>
      [] OTHER -> <<>>

\* The screens whose decision is to refresh start the cooldown with it.
Refreshes(actions) ==
    \E a \in Range(actions) : a.label \in {"Energia", "/start"}
Decide(hunt, combat) ==
    LET actions == Decision(handling, hunt, combat)
    IN Decides(actions) /\ energyCooling' = (energyCooling \/ Refreshes(actions))

\* The configuration is read ...
EngineActs ==
    /\ epc = "config"
    /\ \E c \in recent : Decide("hunt" \in c, "combat" \in c)

\* ... or it cannot be, and hunting and fighting are allowed.
EngineActsBlind ==
    /\ epc = "config"
    /\ Decide(TRUE, TRUE)

\* enqueue, once or twice; then the loop receives again.
EngineSends ==
    /\ epc = "sending"
    /\ Submit("engine")
    /\ epc' = IF todo'["engine"] = <<>> THEN "idle" ELSE "sending"
    /\ UNCHANGED <<envVars, state, handling, energyCooling, configVars, workerVars>>
-----------------------------------------------------------------------------
(* The workers *)

At(w, place) == w \in Workers /\ wpc[w] = place
To(w, place) == wpc' = [wpc EXCEPT ![w] = place]
Forgets(w) == seen' = [seen EXCEPT ![w] = NoScreen]

\* A tick: a worker that reads the configuration first, and looks then.
Wakes(w) ==
    /\ At(w, "idle")
    /\ To(w, "enabled")
    /\ UNCHANGED <<envVars, state, engineVars, configVars, seen, todo, channels>>

\* A tick of a worker that looks at the snapshot before it reads the
\* configuration, and goes on with what it saw.
LooksAt(w) ==
    /\ At(w, "idle")
    /\ seen' = [seen EXCEPT ![w] = state]
    /\ To(w, "enabled")
    /\ UNCHANGED <<envVars, state, engineVars, configVars, todo, channels>>

\* isEnabled is false: the feature is off, or the configuration cannot be read.
Disabled(w) ==
    /\ At(w, "enabled")
    /\ To(w, "idle")
    /\ Forgets(w)
    /\ UNCHANGED <<envVars, state, engineVars, configVars, todo, channels>>

\* It is true.
IsOn(w) == \E c \in recent : w \in c

\* Mutant of Enabled: the configuration is not asked.
EnabledUnasked(w) ==
    /\ At(w, "enabled")
    /\ To(w, "checked")
    /\ UNCHANGED <<envVars, state, engineVars, configVars, seen, todo, channels>>

\* The worker has more to read before it chooses.
Enabled(w) ==
    /\ At(w, "enabled")
    /\ IsOn(w)
    /\ To(w, "checked")
    /\ UNCHANGED <<envVars, state, engineVars, configVars, seen, todo, channels>>

\* The worker has chosen what to submit: perhaps nothing.
Chooses(w, actions) ==
    /\ todo' = [todo EXCEPT ![w] = actions]
    /\ To(w, IF actions = <<>> THEN "idle" ELSE "sending")
    /\ Forgets(w)
    /\ UNCHANGED <<envVars, state, engineVars, configVars, channels>>

\* It submits, one action at a time; then its tick is over.
Sends(w) ==
    /\ At(w, "sending")
    /\ Submit(w)
    /\ To(w, IF todo'[w] = <<>> THEN "idle" ELSE "sending")
    /\ UNCHANGED <<envVars, state, engineVars, configVars, seen>>

OneOf(snap, l) == IF HasButton(snap, l) THEN <<Low(l)>> ELSE <<>>

\* The first of these labels that the snapshot shows.
FirstOf(snap, ls) ==
    LET shown == {i \in DOMAIN ls : HasButton(snap, ls[i])}
    IN IF shown = {} THEN <<>> ELSE <<Low(ls[Min(shown)])>>

HuntTick == state.state \in {"MAIN_MENU", "DUNGEON"} /\ LooksAt("hunt")

\* Mutant of HuntChoice: full is above the maximum.
HuntChoiceAboveFull(snap) ==
    IF snap.energyMax > 0 => snap.energy > snap.energyMax THEN OneOf(snap, "Cacar")
    ELSE <<>>

HuntChoice(snap) == IF ScreenFull(snap) THEN OneOf(snap, "Cacar") ELSE <<>>
HuntChooses ==
    /\ At("hunt", "enabled")
    /\ IsOn("hunt")
    /\ Chooses("hunt", HuntChoice(seen["hunt"]))

CombatTick == state.state = "COMBAT" /\ LooksAt("combat")

\* Mutant of CombatChooses: the configuration is asked about hunting and
\* combat both.
CombatChoosesIfHunting ==
    /\ At("combat", "enabled")
    /\ \E c \in recent : {"combat", "hunt"} \subseteq c
    /\ Chooses("combat", OneOf(seen["combat"], "Atacar"))

CombatChooses ==
    /\ At("combat", "enabled")
    /\ IsOn("combat")
    /\ Chooses("combat", OneOf(seen["combat"], "Atacar"))

\* The heal worker looks at any snapshot, then reads the configuration twice:
\* whether it is on, and the threshold.
HealTick == LooksAt("heal")
HealChoice(snap) ==
    IF snap.hp > 0 /\ snap.hp < Threshold
    THEN FirstOf(snap, <<"Consumiveis", "Pocao de Vida", "Inventario">>)
    ELSE <<>>
HealChooses == At("heal", "checked") /\ Chooses("heal", HealChoice(seen["heal"]))

\* The potion and dungeon workers read the configuration first, the potion
\* worker twice, and then look at the snapshot.
PotionTick == Wakes("potion")
PotionChoice(snap) ==
    IF snap.potions >= 0 /\ snap.potions < MinPotions
    THEN FirstOf(snap, <<"Loja", "Comprar", "Pocao de Vida", "Escolher quantidade",
                         "Comprar 5">>)
    ELSE <<>>
PotionChooses == At("potion", "checked") /\ Chooses("potion", PotionChoice(state))

DungeonTick == Wakes("dungeon")
DungeonChoice(snap) ==
    IF snap.state \in {"MAIN_MENU", "DUNGEON"}
    THEN OneOf(snap, "Masmorra") \o OneOf(snap, "Criar sala") \o OneOf(snap, "Iniciar")
    ELSE <<>>
DungeonChooses == At("dungeon", "checked") /\ Chooses("dungeon", DungeonChoice(state))
-----------------------------------------------------------------------------
Environment ==
    \/ \E s \in Screens : MessageArrives(s)
    \/ Deliver
    \/ \E c \in Configs : Toggle(c) \/ Forget(c)
    \/ EnergyCooldownExpires

EngineReads == EngineActs \/ EngineActsBlind
Engine ==
    \/ Receive \/ UpdateState
    \/ \E l \in RuleLabels : RuleApplies(l)
    \/ NoRule \/ EngineReads
    \/ EngineSends

Hunt == HuntTick \/ HuntChooses
Combat == CombatTick \/ CombatChooses
Heal == HealTick \/ HealChooses
Potion == PotionTick \/ PotionChooses
Dungeon == DungeonTick \/ DungeonChooses

Next ==
    \/ Environment
    \/ TakeHigh \/ TakeNormal
    \/ Engine
    \/ Hunt \/ Combat \/ Heal \/ Potion \/ Dungeon
    \/ \E w \in Workers \cap {"heal", "potion", "dungeon"} : Enabled(w)
    \/ \E w \in Workers : Disabled(w) \/ Sends(w)

Spec == Init /\ [][Next]_vars

\* Goroutines run, tickers fire: weak fairness.  A configuration that is asked
\* for again and again is read some day, and what waits in either channel is
\* taken some day (ActionExecutor's NormalNotStarved): strong fairness.  (Of
\* the workers only hunting and combat are told: liveness needs no more.)
Fairness ==
    /\ WF_vars(Deliver)
    /\ WF_vars(Engine)
    /\ \A c \in Configs : WF_vars(Forget(c))
    /\ SF_vars(TakeHigh) /\ SF_vars(TakeNormal)
    /\ WF_vars(Hunt \/ Disabled("hunt") \/ Sends("hunt")) /\ SF_vars(HuntChooses)
    /\ WF_vars(Combat \/ Disabled("combat") \/ Sends("combat"))
    /\ SF_vars(CombatChooses)

FairSpec == Spec /\ Fairness
-----------------------------------------------------------------------------
TypeOK ==
    /\ screen \in Screens \cup {NoScreen}
    /\ arriving \in Screens \cup {NoScreen}
    /\ events \in Seq(Screens) /\ Len(events) <= EventsCap
    /\ state \in Screens \cup {Unknown}
    /\ handling \in Screens \cup {NoScreen}
    /\ epc \in {"idle", "capture", "rules", "config", "sending"}
    /\ energyCooling \in BOOLEAN
    /\ config \in recent
    /\ recent \subseteq Configs
    /\ wpc \in [Workers -> {"idle", "enabled", "checked", "sending"}]
    /\ seen \in [Workers -> Screens \cup {Unknown, NoScreen}]
    /\ todo \in [Senders -> Seq(Submissions)]
    /\ highQ \in Seq(Labels) /\ Len(highQ) <= HighCap
    /\ queue \in Seq(Labels) /\ Len(queue) <= QueueCap

Quiet == arriving = NoScreen /\ events = <<>>

\* Nothing is lost between the chat and the state manager: once nothing is in
\* the channel and the engine holds no message that it has yet to show, the
\* workers look at the screen a click would act on, however the bursts of
\* messages, the captures and the engine's pauses met.
CaughtUp ==
    Quiet /\ epc # "capture" /\ screen # NoScreen => state = screen

\* The workers are a fallback: while the game waits in a menu where the
\* account could hunt, and the user wants it to, hunting clicks keep being
\* executed, although submissions are dropped when the queue is full and
\* the engine, which no message wakes, does nothing.  (A game that kept
\* sending could keep the queue full whenever the worker submits, by a
\* learned rule.)
On(w) == \A c \in recent : w \in c
CanHunt ==
    /\ screen # NoScreen
    /\ screen.state = "MAIN_MENU"
    /\ ScreenFull(screen)
    /\ HasButton(screen, "Cacar")
    /\ On("hunt")
Takes(l) ==
    \/ TakeHigh /\ Head(highQ) = l
    \/ TakeNormal /\ Head(queue) = l
FallbackHunts == <>[](CanHunt /\ Quiet) => []<><<Takes("Cacar")>>_vars

\* The same of a fight that waits for the account's attack, even when a
\* learned rule has taken the fight's last message from the engine.
CanFight == screen # NoScreen /\ screen.state = "COMBAT" /\ On("combat")
FallbackFights == <>[](CanFight /\ Quiet) => []<><<Takes("Atacar")>>_vars

\* After the user has switched a feature off for good its worker submits
\* nothing more, once the tick that had read the old value is over.
Off(w) == \A c \in recent : w \notin c
OffStops == \A w \in Workers : <>[]Off(w) => <>[][~Sends(w)]_vars
-----------------------------------------------------------------------------
(* What the documentation says of the workers *)

\* README.md:20: the workers only submit when the button is visible.
WorkersSeeButton ==
    [][\A w \in Workers : Sends(w) =>
          \A l \in Labels : queue' = Append(queue, l) => HasButton(state, l)]_vars
=============================================================================
