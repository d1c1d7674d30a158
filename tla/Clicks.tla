------------------------------- MODULE Clicks -------------------------------
(***************************************************************************)
(* From a message of the game to a pressed button, for one account: the    *)
(* client's last messages and its listener (internal/telegram), the parser *)
(* (internal/parser), the captures (internal/accounts), the rules the user *)
(* learns from them (internal/configbot, internal/database) and applies    *)
(* (internal/engine), and the lookup of the label when the executor clicks.*)
(*                                                                         *)
(* Automation has the decisions' interleavings, without what labels and    *)
(* texts say; here the way of a message through the account's loop is step *)
(* by step, each decision is a step, and the comparisons count: the        *)
(* parser's, the rules' and the client's, each with a containment of its   *)
(* own.  Labels and texts stand for their normalised forms (in lower case, *)
(* without accents: textutil.Normalize), and are spelled without accents;  *)
(* so are the two words that Parse looks for with theirs.                  *)
(***************************************************************************)
EXTENDS Integers, Sequences, SequencesExt, FiniteSets, FiniteSetsExt

CONSTANTS
    Messages,    \* records: chat, words, buttons, and the numbers pct, cur, max
    None,
    Game,        \* the chat of the target bot
    Containing,  \* pairs <<whole, part>> of different texts
    Typed,       \* what the user types after a learn command
    Short,       \* pairs <<cur, max>> whose percentage float64 takes as less than
                 \* the whole it is: 29/100 times 100 is 28.999...
    Threshold,   \* heal_percent
    CacheLife,   \* how many ticks the cached capture switch lives (30 seconds)
    MaxLatency,  \* the longest captureSnapshot takes once it looks in the cache
    QueueCap,    \* bound: actions that wait
    MaxRules,    \* bound: rules learned
    EventsCap    \* capacity of the listener's channel (200 in the code)

Chats == {m.chat : m \in Messages}
FromGame == {m \in Messages : m.chat = Game}

ASSUME NoneAssumption == None \notin Messages
ASSUME LifeAssumption == CacheLife \in Nat \ {0} /\ MaxLatency \in Nat
ASSUME CapAssumption == EventsCap \in Nat \ {0} /\ MaxRules \in Nat
ASSUME ThresholdAssumption == Threshold \in Nat
ASSUME MessagesAssumption ==
    /\ None \notin STRING
    /\ \A m \in Messages :
           m.buttons \in Seq(STRING) /\ m.pct \in Nat /\ m.cur \in Nat /\ m.max \in Nat

\* Two roundings of float64 move a percentage by less than one part in 2^51; one
\* that is no whole differs from the next whole by at least 1/max, which is more
\* for every max that an HP has.  So it is whole ones that come out as less.
ASSUME ShortAssumption ==
    \A m \in Messages : <<m.cur, m.max>> \in Short => (100 * m.cur) % m.max = 0

VARIABLES
    place,       \* runAccount: "resolving", "starting" (target set), "serving"
    answered,    \* history: the game has written since "/start" was sent
    kicked,      \* "/start" was sent
    last,        \* Client.lastMsg
    arriving,    \* a message in handleMessage, between lastMsg and the listener
    events,      \* the listener's channel
    state,       \* the message of StateManager's snapshot
    loop, taken, \* where the account's loop is, and the message it has received
    answer,      \* what captureEnabled returns, and whether that is a failed read's
    age,         \* ticks since it looked in the cache
    queue,       \* actions that wait for the executor or for another attempt
    captureOn,   \* capture_enabled in the database
    cached,      \* the manager's capCache entry, and whether its read had failed
    sinceSwitch, \* history: ticks since the switch was changed, up to Horizon
    capture,     \* the newest row of captures
    rules        \* the rows of rules, newest first

startVars == <<place, kicked>>
chatVars == <<answered, last, arriving, events>>
loopVars == <<loop, taken, answer, age>>
captureVars == <<captureOn, cached, sinceSwitch, capture>>
vars == <<startVars, chatVars, state, loopVars, queue, captureVars, rules>>

\* A read's answer may be used for the life of the entry, after a read and
\* before a write that each take their time.
Horizon == CacheLife + 2 * MaxLatency
-----------------------------------------------------------------------------
(* Texts *)

\* The first element of a sequence that is in a set which has one of them.
FirstIn(s, S) == s[Min({i \in DOMAIN s : s[i] \in S})]

Includes(whole, part) == whole = part \/ <<whole, part>> \in Containing

\* parser.HasButton
HasButton(m, l) == \E i \in DOMAIN m.buttons : Includes(m.buttons[i], l)

\* Mutant of MatchButton: the labels must be equal.
MatchButtonExactly(actual, desired) == actual = desired

MatchButton(actual, desired) ==
    Includes(actual, desired) \/ Includes(desired, actual)

\* The button ClickButton presses for a label: the first that matches.
Pressed(m, l) ==
    LET matching == {b \in Range(m.buttons) : MatchButton(b, l)}
    IN IF matching = {} THEN None ELSE FirstIn(m.buttons, matching)
-----------------------------------------------------------------------------
(* parser.Parse *)

\* The cases of its switch, in order.
Cases == <<"DEFEAT", "VICTORY", "COMBAT", "NO_ENERGY", "INVENTORY", "DUNGEON",
           "HUNTING", "MAIN_MENU">>

InCase(m, case) ==
    LET says(w) == w \in m.words
    IN  \/ case = "DEFEAT" /\ says("derrota")
        \/ case = "VICTORY" /\ says("vitoria")
        \/ case = "COMBAT" /\ HasButton(m, "Atacar")
        \/ case = "NO_ENERGY" /\ says("sem energia")
        \/ case = "INVENTORY" /\ says("inventario")
        \/ /\ case = "DUNGEON"
           /\ \/ says("dungeon")
              \/ says("masmorra") /\ ~says("chaves de masmorra")
              \/ \E l \in {"Criar sala", "Iniciar", "Entrar"} : HasButton(m, l)
        \/ case = "HUNTING" /\ says("cacando")
        \/ case = "MAIN_MENU" /\ HasButton(m, "Cacar")

ParsedState(m) ==
    LET true == {case \in Range(Cases) : InCase(m, case)}
    IN IF true = {} THEN "UNKNOWN" ELSE FirstIn(Cases, true)

\* The percentage if there is one above zero, else the fraction's, in float64
\* and cut off; zero is what an HP that is not told yields, and one below one
\* percent.
HPPercent(m) ==
    IF m.pct > 0 THEN m.pct
    ELSE IF m.max > 0
    THEN (100 * m.cur) \div m.max - (IF <<m.cur, m.max>> \in Short THEN 1 ELSE 0)
    ELSE 0
-----------------------------------------------------------------------------
NoAnswer == [on |-> FALSE, failed |-> FALSE]

Init ==
    /\ place = "resolving"
    /\ kicked = FALSE
    /\ answered = FALSE
    /\ last = [c \in Chats |-> None]
    /\ arriving = None
    /\ events = <<>>
    /\ state = None
    /\ loop = "idle" /\ taken = None
    /\ answer = NoAnswer /\ age = 0
    /\ queue = {}
    /\ captureOn \in BOOLEAN
    /\ cached = [on |-> FALSE, left |-> 0, failed |-> FALSE]
    /\ sinceSwitch = Horizon
    /\ capture = None
    /\ rules = <<>>
-----------------------------------------------------------------------------
(* runAccount, from Ready to its goroutines *)

\* The target bot's name is resolved: SetTarget.
SetTarget ==
    /\ place = "resolving"
    /\ place' = "starting"
    /\ UNCHANGED <<kicked, chatVars, state, loopVars, queue, captureVars, rules>>

\* Mutant of SendStart: before the target is set.
SendStartFirst ==
    /\ \/ place = "resolving" /\ kicked' = TRUE /\ UNCHANGED place
       \/ place = "starting" /\ place' = "serving" /\ UNCHANGED kicked
    /\ UNCHANGED <<chatVars, state, loopVars, queue, captureVars, rules>>

\* "/start" is sent, or fails three times, which nobody notices; the account's
\* goroutines start.
SendStart ==
    /\ place = "starting"
    /\ place' = "serving"
    /\ kicked' \in BOOLEAN
    /\ UNCHANGED <<chatVars, state, loopVars, queue, captureVars, rules>>
-----------------------------------------------------------------------------
(* The client and the listener *)

\* A message or an edit in any chat: handleMessage keeps it under its chat.
\* (The Telegram library hands them over one at a time.)
Arrives(m) ==
    /\ arriving = None
    /\ arriving' = m
    /\ last' = [last EXCEPT ![m.chat] = m]
    /\ answered' = (answered \/ (kicked /\ m.chat = Game))
    /\ UNCHANGED <<startVars, events, state, loopVars, queue, captureVars, rules>>

\* Mutant of Handle: other chats' messages are not dropped.
HandleAny ==
    /\ arriving # None
    /\ place # "resolving" => Len(events) < EventsCap
    /\ events' = IF place # "resolving" THEN Append(events, arriving) ELSE events
    /\ arriving' = None
    /\ UNCHANGED <<startVars, answered, last, state, loopVars, queue,
                   captureVars, rules>>

\* Listener.Handle: without a target, or from another chat, it is dropped;
\* else it waits for room in the channel.
Handle ==
    LET mine == place # "resolving" /\ arriving.chat = Game
    IN /\ arriving # None
       /\ mine => Len(events) < EventsCap
       /\ events' = IF mine THEN Append(events, arriving) ELSE events
       /\ arriving' = None
       /\ UNCHANGED <<startVars, answered, last, state, loopVars, queue,
                      captureVars, rules>>
-----------------------------------------------------------------------------
(* The capture switch and its cache *)

\* The account's loop takes a message, and captureSnapshot asks captureEnabled.
Receive ==
    /\ place = "serving"
    /\ loop = "idle"
    /\ events # <<>>
    /\ events' = Tail(events)
    /\ taken' = Head(events)
    /\ loop' = "looking"
    /\ UNCHANGED <<startVars, answered, last, arriving, state, answer, age, queue,
                   captureVars, rules>>

\* Steps of captureEnabled leave what is outside of it alone.
Outside == <<startVars, chatVars, state, taken, queue, captureOn, sinceSwitch,
             capture, rules>>

\* Mutant of Hit: a positive answer never expires.
HitForever ==
    /\ loop = "looking"
    /\ cached.on \/ cached.left > 0
    /\ answer' = [on |-> cached.on, failed |-> cached.failed]
    /\ loop' = "answered"
    /\ UNCHANGED <<Outside, cached, age>>

\* Mutant of Hit: nobody asks whether the entry has expired.
HitExpired ==
    /\ loop = "looking"
    /\ answer' = [on |-> cached.on, failed |-> cached.failed]
    /\ loop' = "answered"
    /\ UNCHANGED <<Outside, cached, age>>

\* The entry lives: it is the answer ...
Hit ==
    /\ loop = "looking"
    /\ cached.left > 0
    /\ answer' = [on |-> cached.on, failed |-> cached.failed]
    /\ loop' = "answered"
    /\ UNCHANGED <<Outside, cached, age>>

\* ... or it does not, and the database is asked, the lock released.
Miss ==
    /\ loop = "looking"
    /\ cached.left = 0
    /\ loop' = "querying"
    /\ UNCHANGED <<Outside, cached, answer, age>>

\* The stored switch is read; if that fails it counts as off.
Query(failed) ==
    /\ loop = "querying"
    /\ answer' = [on |-> captureOn /\ ~failed, failed |-> failed]
    /\ loop' = "storing"
    /\ UNCHANGED <<Outside, cached, age>>

\* The answer, a failed read's too, is kept for CacheLife from now.
Store ==
    /\ loop = "storing"
    /\ cached' = [on |-> answer.on, left |-> CacheLife, failed |-> answer.failed]
    /\ loop' = "answered"
    /\ UNCHANGED <<Outside, answer, age>>

\* captureSnapshot saves the message, or fails to, if capturing is on.
Captured(m) ==
    /\ loop = "answered"
    /\ loop' = "captured"
    /\ capture' = m
    /\ answer' = NoAnswer
    /\ age' = 0
    /\ UNCHANGED <<startVars, chatVars, state, taken, queue, captureOn, cached,
                   sinceSwitch, rules>>
Captures == answer.on /\ Captured(taken)
CaptureFails == answer.on /\ Captured(capture)
NotCaptured == ~answer.on /\ Captured(capture)

\* /capture_on, /capture_off and the menu's button.
SwitchCapture ==
    /\ captureOn' = ~captureOn
    /\ sinceSwitch' = 0
    /\ UNCHANGED <<startVars, chatVars, state, loopVars, queue, cached, capture, rules>>

\* Between the look in the cache and the saved row.
Capturing == loop \in {"querying", "storing", "answered"}

\* One unit of time passes.  No capture takes longer than MaxLatency.
Tick ==
    /\ Capturing => age < MaxLatency
    /\ age' = IF Capturing THEN age + 1 ELSE age
    /\ cached' = [cached EXCEPT !.left = IF @ > 0 THEN @ - 1 ELSE 0]
    /\ sinceSwitch' = IF sinceSwitch < Horizon THEN sinceSwitch + 1 ELSE Horizon
    /\ UNCHANGED <<startVars, chatVars, state, loop, taken, answer, queue, captureOn,
                   capture, rules>>
-----------------------------------------------------------------------------
(* The engine *)

\* "by" tells whether the label was looked for on the message.
Action(m, l, by) == [label |-> l, on |-> m, by |-> by]
Seen(m, ls) == {Action(m, l, "seen") : l \in {l \in ls : HasButton(m, l)}}

\* What HandleSnapshot may submit when no rule applies.  (Whether it does is up
\* to the switches, the energy and the cooldown: Automation.)
BuiltIn(m) ==
    CASE ParsedState(m) = "COMBAT" -> {Action(m, "Atacar", "seen")}
      [] ParsedState(m) = "MAIN_MENU" ->
             {Action(m, "Cacar", "seen")} \cup Seen(m, {"Energia"})
      [] ParsedState(m) = "NO_ENERGY" -> Seen(m, {"Menu", "Energia"})
      [] ParsedState(m) = "VICTORY" -> {Action(m, "Cacar de novo", "unseen")}
      [] OTHER -> {}

\* matchRule
Matches(m, r) ==
    CASE r.type = "button" -> Contains(m.buttons, r.value)
      [] r.type = "text" -> \E w \in m.words : Includes(w, r.value)

\* handleLearnedRules: the first that matches, of those that could be read.
Applied(m, rs) ==
    LET matching == {r \in Range(rs) : Matches(m, r)}
        first == FirstIn(rs, matching)
    IN IF matching = {} THEN {} ELSE {Action(m, first.label, first.type)}

Decided(m, rs) == IF Applied(m, rs) # {} THEN Applied(m, rs) ELSE BuiltIn(m)

\* Submitting never blocks, and what finds the channels full is dropped: any
\* of it may be, since more than these actions fills them.
Submit(actions) ==
    \E accepted \in SUBSET actions :
        /\ queue' = queue \cup accepted
        /\ Cardinality(queue') <= QueueCap

\* HandleSnapshot: the state manager has the message ...
Update ==
    /\ loop = "captured"
    /\ state' = taken
    /\ loop' = "deciding"
    /\ UNCHANGED <<startVars, chatVars, taken, answer, age, queue, captureVars, rules>>

\* ... and the engine decides on it, with the rules if they could be read.
Decide ==
    /\ loop = "deciding"
    /\ \E readable \in {rules, <<>>} : Submit(Decided(taken, readable))
    /\ loop' = "idle"
    /\ taken' = None
    /\ UNCHANGED <<startVars, chatVars, state, answer, age, captureVars, rules>>
-----------------------------------------------------------------------------
(* A worker, and the executor *)

WorkerLabels == {"Cacar", "Atacar", "Masmorra", "Criar sala", "Iniciar", "Loja",
                 "Comprar", "Escolher quantidade", "Comprar 5", "Pocao de Vida"}
HealLabels == {"Consumiveis", "Pocao de Vida", "Inventario"}

\* Mutant of HealDue: no HP is a low one.
HealDueUntold(m) == HPPercent(m) < Threshold

HealDue(m) == HPPercent(m) > 0 /\ HPPercent(m) < Threshold

\* A tick of a worker: it looks for a label on the snapshot.
Work ==
    /\ place = "serving"
    /\ state # None
    /\ \/ Submit(Seen(state, WorkerLabels))
       \/ /\ HealDue(state)
          /\ Submit({[a EXCEPT !.by = "heal"] : a \in Seen(state, HealLabels)})
    /\ UNCHANGED <<startVars, chatVars, state, loopVars, captureVars, rules>>

\* The executor has clicked, pressing Pressed(last[Game], a.label), or has given
\* up after its attempts, each of which looks for the label again.
Done(a) ==
    /\ queue' = queue \ {a}
    /\ UNCHANGED <<startVars, chatVars, state, loopVars, captureVars, rules>>
-----------------------------------------------------------------------------
(* What the user learns from the last capture, in the bot *)

Learn(type, value, l) ==
    /\ Len(rules) < MaxRules
    /\ rules' = <<[type |-> type, value |-> value, label |-> l]>> \o rules
    /\ UNCHANGED <<startVars, chatVars, state, loopVars, queue, captureVars>>

\* learnLastClick: the label of a button there.
LearnLastClick(t) ==
    /\ capture # None
    /\ Contains(capture.buttons, t)
    /\ Learn("button", t, t)

\* learnLastText: the text is looked for in the labels, the first that contains
\* it is clicked, and the rule applies to messages whose text contains it.
LearnLastText(t) ==
    /\ capture # None
    /\ LET found == {b \in Range(capture.buttons) : Includes(b, t)}
       IN found # {} /\ Learn("text", t, FirstIn(capture.buttons, found))
-----------------------------------------------------------------------------
Next ==
    \/ SetTarget \/ SendStart
    \/ \E m \in Messages : Arrives(m)
    \/ Handle
    \/ SwitchCapture \/ Tick
    \/ Receive
    \/ Hit \/ Miss \/ (\E failed \in BOOLEAN : Query(failed)) \/ Store
    \/ Captures \/ CaptureFails \/ NotCaptured
    \/ Update \/ Decide
    \/ Work
    \/ \E a \in queue : Done(a)
    \/ \E t \in Typed : LearnLastClick(t) \/ LearnLastText(t)

Spec == Init /\ [][Next]_vars
-----------------------------------------------------------------------------
TypeOK ==
    /\ place \in {"resolving", "starting", "serving"}
    /\ kicked \in BOOLEAN /\ answered \in BOOLEAN
    /\ \A c \in Chats : last[c] = None \/ last[c].chat = c
    /\ arriving \in Messages \cup {None}
    /\ events \in Seq(FromGame) /\ Len(events) <= EventsCap
    /\ state \in FromGame \cup {None}
    /\ loop \in {"idle", "looking", "querying", "storing", "answered", "captured",
                "deciding"}
    /\ taken \in IF loop = "idle" THEN {None} ELSE FromGame
    /\ answer \in [on : BOOLEAN, failed : BOOLEAN]
    /\ age \in 0..MaxLatency
    /\ \A a \in queue : a.on \in FromGame
    /\ captureOn \in BOOLEAN
    /\ cached \in [on : BOOLEAN, left : 0..CacheLife, failed : BOOLEAN]
    /\ sinceSwitch \in 0..Horizon
    /\ capture \in FromGame \cup {None}
    /\ Len(rules) <= MaxRules

\* Everything the game has written since "/start" was sent reaches the engine:
\* the target is set before the question is asked, whatever arrives from other
\* chats and while the channel is full.  So the newest message on its way, or
\* handled last, is the one a click will look at.
Newest ==
    IF arriving # None /\ arriving.chat = Game THEN arriving
    ELSE IF events # <<>> THEN Last(events)
    ELSE IF taken # None THEN taken
    ELSE state
StartIsHeard == answered => Newest = last[Game]

\* A label that was looked for when the action was decided is found when the
\* executor looks for it, unless the game has moved on: the parser's idea of a
\* button and the rules' are never stricter than the client's.
UnchangedIsPressed ==
    \A a \in queue :
        a.on = last[Game] /\ a.by \in {"seen", "heal", "button"}
            => Pressed(last[Game], a.label) # None

\* Healing is submitted only on a message that tells an HP of at most the
\* threshold: an HP that was not told makes no wound, and the cut-off takes at
\* most the percent that turns "at" into "below".
HealsWounds ==
    \A a \in queue :
        a.by = "heal" =>
            \/ a.on.pct \in 1..(Threshold - 1)
            \/ a.on.pct <= 0 /\ a.on.max > 0 /\ 100 * a.on.cur <= Threshold * a.on.max

\* After the user has switched capturing off, messages are captured only for
\* the life of a cached answer and the time that its read, which the switch may
\* have overtaken, and the save took.
CaptureStops ==
    [][Captures => captureOn \/ sinceSwitch < Horizon]_vars

\* After the user has switched it on no message goes by without an attempt to
\* save it once that time is over, but for what a failed read left.
CaptureStarts ==
    [][NotCaptured => ~captureOn \/ sinceSwitch < Horizon \/ answer.failed]_vars
-----------------------------------------------------------------------------
(* What the bot promises of a learned rule *)

\* internal/configbot/bot.go:428: "when the button appears, click it".  The
\* click of a learned button presses that button if the message has it.
LearnedIsPressed ==
    \A a \in queue :
        a.by = "button" /\ Contains(a.on.buttons, a.label)
            /\ a.on = last[Game]
            => Pressed(last[Game], a.label) = a.label
=============================================================================
