# KeroBot in TLA+

KeroBot is a Go program that plays a Telegram game for its users. For each
account it keeps a Telegram client, parses the game bot's messages, decides what
to click and executes the clicks through a queue. A second bot lets users log in
and configure their account. These modules model that program from its start to
a pressed button, check it with TLC on small instances and prove the core of it
with TLAPS for every instance.

Paths below are relative to the repository.

## 1. Inventory

| Component | State | Operations | What makes it correct |
|---|---|---|---|
| Action executor (`internal/engine/action_executor.go`, `pkg/retry`, `pkg/metrics`) | channels `queue` (200) and `highQ` (50), time of the last refresh, two counters | `Enqueue`, direct sends of the workers, the loop of `Start`, `execute`, `retry.Do`, `maybeRefreshOnDataInvalid` | a submission is executed at most once and counted once; requests are bounded; nothing starves; cancellation ends it |
| Configuration cache (`pkg/configcache`) | one entry with an expiry | `GetConfig` by six goroutines | nobody acts on a configuration older than a bound |
| Account manager (`internal/accounts/manager.go`) | map `runs` | `StartExisting`, `StartAccount`, `StartQRLogin`, `runAccount` | one runner per account, each entry removed or serving, restarts serve whoever was logged in |
| Telegram client (`internal/telegram/client.go`) | last message per chat, `ready` | `Start`, `authIfNeeded`, `SendMessage`, `ClickButton`, `handleMessage` | ready only when authorised; calls stop after a cancellation |
| Listener (`internal/telegram/listener.go`) | target chat, channel of 200 messages | `SetTarget`, `Handle` | no message of the target is lost or reordered |
| Automation engine, state manager (`internal/engine`) | snapshot, time of the last energy refresh | `HandleSnapshot` | one decision per message, on the newest state |
| Workers (`internal/automation`) | a ticker each | `Run` of hunt, combat, heal, potion, dungeon | a fallback when the engine is silent; respect the switches and the visible buttons |
| Parser (`internal/parser`, `pkg/textutil`) | none | `Parse`, `HasButton` | never stricter than the client about a button; what was not told is no wound |
| Configuration bot (`internal/configbot/bot.go`) | none of its own | commands and callbacks, `sendQR`, `learnLastClick`, `learnLastText` | menus tell what is stored; no login that ends keeps it; learned rules do what they say |
| Repository, migrations, connection (`internal/database`) | the tables | single statements; `RunMigrations`; `ConnectWithRetry` | migrations take effect in order whoever dies where; waits stay in range |
| Start (`cmd/kerobot/main.go`) | – | connect, migrate, accounts, bot | accounts run on a complete schema only |
| Settings, metrics server, models, logger | – | – | – |

How they interact:

```
 game bot ──> Client.handleMessage ──> lastMsg
                   │ Listener.Handle (blocks when full)
                   v
              events (200) ──> engine goroutine ── Update ──> StateManager
                                  │ ListRules, GetConfig          ^ │
                                  │ Enqueue (two selects)         . │ Snapshot
                                  v                               v v
        highQ (50)  queue (200) <── non-blocking sends ── 5 workers (tickers)
              └──────────┴──> executor goroutine ── retry.Do ──> ClickButton / SendMessage
                                                                  (reads lastMsg again)
 user ──> configuration bot (one update at a time) ──> tables, StartAccount, StartQRLogin
 StartAccount ──> runAccount goroutine ──> client goroutine, then all of the above
```

Every goroutine of an account lives under one context, which the deferred
function of `runAccount` or the end of the process cancels.

The hard behaviours are the interleavings of these goroutines around the
channels, the selects (Go picks a ready case at random), decisions on snapshots
and configurations that are stale by the time they are used, retries of requests
the game may have seen, failures at any step of an account's start, and crashes.
`PROJECT.json` lists each hazard at its line with the properties about it.

## 2. Modules

| Module | Models | Kind |
|---|---|---|
| `Dispatcher` | what the executor promises those who submit: accepted at most once, run one at a time, counted once | abstract specification |
| `ActionExecutor` | both channels, `Enqueue`, the loop, retries, client calls, cancellation | detailed specification, refines `Dispatcher` |
| `ActionExecutorProofs` | | proofs |
| `ConfigCache` | `CachedReader.GetConfig` with concurrent readers, changes, time | specification |
| `ConfigCacheProofs` | | proofs |
| `AccountService` | what the manager promises of an account: started only when it is off, served only with a session and credentials that this start found valid, let go only by the end of the process, started by every boot that can read the sessions once it has one | abstract specification |
| `Accounts` | manager, life of the clients, start commands of the bot, crashes | detailed specification, refines `AccountService` |
| `AccountsProofs` | | proofs |
| `Automation` | messages → listener → engine, workers, submissions | specification; stands on the promises of `ActionExecutor` and `ConfigCache` |
| `AutomationProofs` | | proofs |
| `Clicks` | message → listener → parser, captures, learned rules → decision → the button pressed, with what labels and texts say | specification |
| `ClicksProofs` | | proofs |
| `ConfigBot` | the bot's commands on the settings, a QR login's goroutine and its channels | specification |
| `ConfigBotProofs` | | proofs |
| `Startup` | connection with retries, migrations by several processes | specification |
| `StartupProofs` | | proofs |
| `ChannelLemmas` | a channel as a sequence: what was sent last, before and after a receipt | lemmas of three of the proofs |
| `MC…` | the instances TLC checks | |

The modules divide the program by question. `Automation` has the interleavings of the
decisions, and labels without contents; in `Clicks` the way of one message is step by
step, the decision at its end is one step, and the contents count. `Accounts` has who is
started when, and a QR login as two outcomes; in `ConfigBot` it is a goroutine and two
channels. What one module takes as an assumption another one establishes: `Automation`
the staleness of `ConfigCache` and the fairness of `ActionExecutor`, `Accounts` that the
bot comes back from a login that ends (`Responsive` of `ConfigBot`).

A definition whose comment begins with "Mutant of" is a plausible bug in the
definition it names. Nothing uses it; putting it in that definition's place makes TLC find
the property the mutant is for violated.

### ActionExecutor

`pc` is the place of the executor's goroutine; the comment at `Places` names
them. `highQ` and `queue` are the channels. `overflow` is the action the engine
holds between the two selects of `Enqueue`, where the executor may run. An
element of `Actions` is one submission, not a label. `calls` and `lateCalls` are
history variables.

| Action | Code |
|---|---|
| `SubmitHigh`, `SpillHigh`, `SubmitNormal` | the selects of `Enqueue`; a worker's send |
| `LoopTop`, `SelectDone`, `TakeHigh`, `TakeNormal`, `SleepOver` | the loop of `Start`; the takes do not ask whether another case of the select is ready |
| `BeginCall`, `LimiterGrant`, `LimiterCancelled` | `retry.Do`'s look at the context, `limiter.Wait`, the request going out |
| `Refuse`, `NotFound`, `ReplyOK`, `ReplyError` | how an attempt ends |
| `BackoffOver`, `BackoffCancelled` | the select between attempts |
| `AfterError`, `GiveUp` | next attempt, refresh, or the end |

Durations are left out: a delay is a step that may be taken at any time, the
cooldown a flag that may expire at any time.

### ConfigCache

A reader holds the lock twice in `GetConfig`; the query runs in between. `since`
is a history variable: how long ago each value was last the stored one, counted
up to `Never`. `left` is what remains of the entry's life. `MaxLatency` is an
assumption on the environment: the code sets no deadline for the query, so the
bound the properties state is relative to the longest query.

### Accounts

`runs` is the manager's map, `runner[s]` and `client[s]` are the two goroutines
of one life of an account: a client may still be ending when the account's next
runner starts, so an account has `Lives` slots. `creds`, `file` and `login` are
what survives a crash. `creds` has the keys of `app_config` whose values
`appCreds` accepts; `/set_api` stores any integer, so that a valid id can be taken
away again (`SetCredential`). With `EnvCreds` the environment sets both, and they
come first. `ReadID` and `ReadHash` are `appCreds`' two reads, with the bot
running in between. `Boot` starts whoever has a session file; with the fault "disk" it
starts nobody (`BootFails`). That Telegram accepts credentials which `appCreds`
accepts is assumed. `Timeout` is the only way out of the wait for a client:
the code's select has neither a case for a failed client nor one for the
context. `faults` holds the failures the environment may still produce, `Faults` at
first; `FaultsEnd` is the moment from which nothing goes wrong by itself. The
liveness properties that need that say `faults = {}`.

The end of a QR login (`StartAccount`, the closing of the channels, the return of
`sendQR`) is one action: nobody but the bot, which waits for it, sees the points
in between. The login's own client (manager.go:111) is no slot: it belongs to no
runner, and its outcome and the file it writes are what others see of it. The
session file's content is the library's; modelled are its
existence and whether its session is authorised. A session storage that is
written before the login ends leaves a file for an account that is not logged
in, hence the choice in `StartQRLogin`.

### Automation

`screen` is the chat's last message (what a click acts on), `arriving` a message
between `lastMsg` and the listener's channel, `state` the state manager's
snapshot. The engine is `epc`: idle; capturing the message it has received
(`handling`), which is a read and a write of the database before the state manager
is told; reading the rules; reading the configuration; submitting. A worker is
`wpc[w]`: idle, asking whether it is enabled, reading on, submitting. `seen[w]` is
the snapshot that a hunt, combat or heal worker holds across its reads; the potion
and dungeon workers read first and look afterwards. A message is the record that
`Parse` makes of it.

`todo` is what the engine and each worker have decided to submit. It is submitted one
action a step, so that the others, the executor among them, run in between.
`highQ` and `queue` are the executor's two channels with a capacity each; what has
priority and finds the first one full goes on to the second in another step
(`SubmitHigh`, `SubmitLow`), and what finds that one full is dropped.

A configuration read returns a member of `recent`, which holds the stored
configuration and those replaced within the bound `ConfigCache` establishes;
`Forget` drops one when that time is over. The listener's target is set and the
account is not cancelled: that part is in `Accounts`. The engine's failed
configuration read (`EngineActsBlind`) allows hunting and combat, a worker's does
not, as in the code. The thresholds of the heal and potion workers are constants.

Labels are spelled without accents (the code's are `Caçar`, `Poção de Vida` and
so on): the provers read no others, and `Normalize` strips them before every
comparison but two of `Parse`, of words in a text.

### Clicks

A message is a record: its chat, the texts that count (`words`), its buttons, its HP as
a percentage and as a fraction. Labels and texts are in normalised form, and
`Containing` says which contains which, so that the four comparisons of the code differ
as they do there: the parser's (`HasButton`: the button contains the label), the
client's (`MatchButton`: either contains the other), and the rules' (equality for a
button, containment for a text). `Cases` is the switch of `Parse` in its order.

`last` is `Client.lastMsg`, `arriving` and `events` as in `Automation`. A queued
action keeps its label, as in the code, and as history the message it was decided
on and whether the label was looked for there (`by`). What a click presses is
`Pressed(last[Game], label)` at the time of the click; the action has no other
effect here. `capture` is the newest captured message, `rules` the learned rules,
newest first.

`loop` is the account's loop with the message it has `taken`: it looks in the
cache of the capture switch (`cached`), and on a miss releases the lock, queries the
database, and stores the answer for `CacheLife` from then; it saves the message or
not, tells the state manager, and decides. `age` counts the time since the look.
`MaxLatency` is an assumption on the environment, as in `ConfigCache`: the code sets
no deadline for the query or the save, so the bound of `CaptureStops` and
`CaptureStarts` (`Horizon`) is relative to the longest capture, once for the read
that the switch overtakes and once for the save that uses its answer.
`sinceSwitch` and the `failed` of an answer are history.

`Short` holds the fractions whose percentage float64 arithmetic takes below a
whole number and `int` then cuts off (of those over 100: 29, 57 and 58).
Two things the model shows without a property: `/learn_last_text` looks for its
text among the button labels and then makes a rule about message texts, so that
README.md's example of a text that is on no button creates no rule; and a screen
with "Comprar 5" always matches the potion worker's earlier case "Comprar".

### ConfigBot

`place` is the bot's loop, `login` the goroutine of a login. A bot that found both
channels empty is `parked`: a send hands its value over, a close wakes it, in the
same step, as the runtime does. A select with several ready cases takes any of
them (`TakeErr`, `TakeQR`, `TakeEnd` are not exclusive). Every call of the
database may fail in the ways its caller can tell or ignore, and so may the reply:
`SendMenu` leaves the old menu on the screen when `GetConfig` fails and when `Send`
does, which the code ignores. `unshown` is a history variable: the columns that a
chat's commands have tried to change since its newest menu was shown. Since only the bot
changes a row that exists, a command is one step; the accounts' goroutines only
insert missing rows (`RunnerInserts`). What is not a number is zero to the code,
which `/set_min_potions` accepts (and the potion worker then ignores). The commands
check the range of a number (`SetNumber`), the callbacks `set:heal:N` and
`set:min:N` store what they get (`PressNumber`). The end of
the process is not modelled here; its logins are gone with it.

### Startup

`place[p]`, `try[p]` and `at[p]` are a process, `applied` and `recorded` the database:
what took effect and the rows of `schema_migrations`. `Sleep` is computed in integers of
`WordSize`, as the code's is in 64 bits, with no assumption on the settings. `Exec` and
`Record` are the two statements; processes die between any two steps (`Ends`). `Needs`
is read off the files: 002 and 004 alter a table of 001. `trouble` is what `faults` is
in `Accounts`.

## 3. Runs

| Run | Bounds | Shows |
|---|---|---|
| `executor` | 5 submissions: two of high priority, clicks and sends, one without a peer, one malformed; channels of 1 and 2; 2 attempts; counters modulo 2 | types, `OnePlace`, `LateCallBound`, `CallsBounded`, refinement of `Dispatcher`; `AcceptedIsServed`, `CancelledReturns` |
| `executor_priority` | 4 submissions, channels of 1 and 1, 2 attempts | **violated**: `HighFirst` |
| `config_cache` | 2 values, 3 readers, life 3, latency 2 | types, `ReadIsRecent`, `BoundedStaleness` |
| `accounts` | 1 account, 3 lives, every fault until they end | types, `OneRunnerPerAccount`, refinement of `AccountService`; `RunnerSettles`, `StartedIsServed`, `RestartServes` |
| `accounts_login` | 1 account, 2 lives, credentials in the environment, no fault | **violated**: `LoginIsServed` |
| `automation` | 2 screens, heal and dungeon workers, channels of 1 | types, `CaughtUp`; `OffStops` |
| `automation_fallback` | 2 screens, hunt, combat and potion workers, one learned rule, channels of 1 | `FallbackHunts`, `FallbackFights` |
| `automation_visible` | 7 screens, hunt worker, channels of 1, 1 and 2 | **violated**: `WorkersSeeButton` |
| `startup` | 2 processes, 5 migrations, 6 attempts over a word of 32 | types, `OneAhead`, `ReadyIsMigrated`, `WaitsUntilOverflow`; `AllGetReady` |
| `clicks` | 2 messages of the game, 1 of another chat, 1 rule, 1 action, a channel of 1, a cache life of 1, latency 1 | types, `StartIsHeard`, `UnchangedIsPressed`, `HealsWounds`, `CaptureStops`, `CaptureStarts` |
| `clicks_learned` | 2 messages, one with a button whose label begins like another's | **violated**: `LearnedIsPressed` |
| `config_bot` | 1 user and another account, 1 switch, the number 0, 4 QR codes, a channel of 2 | types, `MenuIsStored`, `NewestIsShown`, `ErrorIsTold`, `QRReachesUser`, `Responsive` |

Why these bounds are enough for the cases that matter: both of the executor's
channels get full, the second select of `Enqueue` drops and succeeds, every kind
of submission is retried, refreshed and cancelled; three readers of the cache
overlap two by two with changes on either side; a client of a first life overlaps
the runner of a second; the listener's channel fills while a message waits and
the engine captures or reads; either of the executor's channels may be full whenever the
engine and the workers submit, so that what has priority goes on to the normal
channel and is accepted or dropped there, and of a worker's two actions only the
second may be accepted. The counters' width stands for 2^64.

`Lives` bounds the lives of one account that overlap: `StartAccount` needs a free
slot for an account that has no entry. Two are enough for one that ends and one
that begins; `accounts` has three, so that two clients may still be ending. One
account is enough: accounts share only the bot and the credentials, and an
account's runner asks nothing of the bot.

`startup`'s word is scaled: the code's 64 bits hold the doubled backoff of 2 seconds up
to the wait after the 33rd attempt, and it first overflows after the 34th, which takes
a setting of 35 or more (the default is 10, and nothing checks it); the run's 6 bits
hold it up to the wait after the 4th, and its 6 attempts have one more, which
overflows. In `clicks` a property is about one waiting action at a time, so one place
suffices; a text rule's word and the label of a button are different messages' or the
same one's, the HP is on the float's edge, and one message tells none. A latency of 1
lets the switch be changed between a read and its store and between the store and
the save, which is how the bound of the two capture properties is reached: one tick
less, and TLC finds both violated. In `config_bot` a channel of 2 with 4 codes gets
full, loses its oldest and is emptied by the bot between the two selects. The number 0
is refused by one command, accepted by the other and stored by both callbacks. The other
account's settings are inserted by its runner and, as TLC confirms, changed by nobody;
what two users do to each other is settled by the theorem, which is about any chats.

Deadlock is checked everywhere except in the executor's runs, where the executor
returns after a cancellation and the producers may have nothing more to submit,
and in `startup`, which is over when every process is ready and nothing can fail.

Symmetry is used where no constant tells the values apart and no liveness is
checked: values and readers in `config_cache`.

### Violations

* `HighFirst`. The documentation promises a queue with priority. `highQ` is a channel of
  its own, which is room of its own, but the select takes from either channel at random.
  What does hold is `AcceptedIsServed`: neither starves.
* `LoginIsServed`. A client without an authorised session fails at once, and its runner
  keeps the entry in `runs` for the rest of the minute (manager.go:233). A QR login that
  succeeds in that minute calls `StartAccount`, which sees the entry and does nothing.
  The runner then gives up, and the account is not served until another command or the
  next boot. The property is about exactly this case, and TLC's trace is: a boot starts
  an account whose session file an earlier login has left unauthorised, its client
  fails, `/qr` is scanned and ends while the runner still waits, the minute ends, the
  runner leaves, and nobody starts the account (a second `/qr` in it is never scanned).
  The run has the credentials in the environment and no fault.
* `WorkersSeeButton`. A worker submits on a snapshot it took before; the hunt, combat
  and heal workers took it before they read the configuration, the potion worker and the
  dungeon worker just before they submit, the latter up to three actions on one
  snapshot. The game may show another screen by then, and the state manager may know it.
  What does hold is `CaughtUp`: once the engine has caught up, the snapshot is the
  screen.
* `LearnedIsPressed`. A rule learned for "Comprar 5" is applied when a message has that
  button, but the click goes to the first button that contains the label or is contained
  in it: "Comprar", when that one comes first. What does hold is `UnchangedIsPressed`:
  some button is pressed.

### Fairness

* `ActionExecutor`: goroutines run and every request ends (weak). Each case of
  the inner select gets strong fairness: a select that is reached again and again
  with a case ready picks it some day, since Go picks uniformly.
* `Accounts`: goroutines run, the minute ends, somebody starts the process when it
  is down (weak; the repository's compose file has no restart policy, so this is
  the operator's doing). Nothing is assumed of the user: that a QR is scanned is
  never promised, and `StartedIsServed` and `RestartServes` end where somebody has
  overwritten the credentials with invalid ones.
* `Automation`: goroutines run and tickers fire (weak); the hunt and the combat
  worker read the configuration some day when they ask again and again, and each of
  the executor's two channels is taken from some day when it is ready again and again
  (strong, from `AcceptedIsServed`). `OffStops` assumes no fairness at all.
* `Startup`: a process runs and is started again when it is down (weak, for each;
  again the operator's doing), and `AllGetReady` supposes that failures end.
* `ConfigBot`: the bot, the delivery of a QR code and the end of a login run on
  (weak). New tokens, scans and failures are the library's and the user's:
  `Responsive` has the end of the login as its premise.
* Nothing is assumed of the game: no message need ever arrive. The two fallback
  properties are about a game that waits (`Quiet`). With a learned rule and a game
  that keeps sending, TLC finds the fallback starved: the rule's action can take
  the queue's last place each time before the worker submits.

## 4. Proofs

`ActionExecutorProofs`, for every set of submissions, all capacities ≥ 1, every
number of attempts and every counter width (the named assumptions of
`ActionExecutor`):

* `TypeCorrect`. `TypeOK` is inductive. The guards on both channels keep them
  within their capacities.
* `CallsBoundedCorrect`. `CallsBounded` is not inductive: it says nothing of how
  `calls` and `attempt` move together. `ExecutionShape` does: at each place,
  `calls` is at most the number of attempts begun (less one before the request,
  plus one in the refresh), `attempt` never passes `MaxAttempts`, and the refresh
  runs only for a click on its last attempt. `ShapeCorrect` proves it inductive.
* `LateCallBoundCorrect`. `LateShape`: before the cancellation there is no late
  call, and a goroutine inside `limiter.Wait` has not made one. After the
  cancellation nobody enters `limiter.Wait`, so only the one inside can.
* `OnePlaceCorrect`. Inductive with `TypeOK` and `ExecutionShape` (the executor
  holds nothing when it takes). Rests on lemmas about appending to and taking
  from a sequence without repetitions.
* `Refinement`. `Spec => IsDispatcher`: waiting is what the two channels hold,
  running what the executor holds. Each step is one step of `Dispatcher` or a
  stutter; the capacity argument needs `OnePlace`, for the cardinality of what
  waits, and the counting argument `ExecutionShape`.

`ConfigCacheProofs`, for any number of readers and values, any life and latency:

* `TypeCorrect`.
* `BoundedStalenessCorrect`, `ReadIsRecentCorrect`, from `StoredRecentCorrect`:
  the entry's remaining life plus the time since its value was current never
  exceeds life plus latency, and what a reader holds was current during its
  query. Time lowers the one and raises the other; a store sets the life anew on
  a value at most `MaxLatency` old.

`StartupProofs`, for any number of processes and of migrations and any setting of
the attempts (`ConnectAssumption`, `SizeAssumption`, `SleepAssumption`):

* `TypeCorrect`, `OneAheadCorrect`, `ReadyIsMigratedCorrect`. `OneAhead` is not
  inductive: it does not say why a process never executes a migration before the
  one that precedes it. `Knowledge` does, by place: a process that migrates has
  every migration before its own recorded; one that is about to record has seen
  its own take effect; one that is ready has seen them all. Both sets only grow,
  so no other process, and no death, takes this knowledge away.
* `WaitsUntilOverflowCorrect`, of any settings: nothing rules out the overflow. The
  wait is in its range as long as the doubled backoff is an integer of the width
  (`SleepFits`, from `WrapKeeps`), and negative where it first is none
  (`SleepOverflows`, from `WrapOverflows`): the code then retries at once. It holds
  of every state, so no induction is needed.

`ConfigBotProofs`, for any chats and fields, any capacity of `qrCh` and any number of
codes (`CapAssumption`, `NoRowAssumption`). The settings and the login share no variable
but the bot's place, so each half has an invariant of its own:

* `NewestIsShownCorrect`, `ErrorIsToldCorrect`, from `LoginInv`: while the goroutine
  waits for the next code, the newest one is the last in `qrCh` or was shown; its
  second attempt to send has room, since the bot only takes and nobody else puts;
  a bot parked in its select finds nothing in either channel; an error is owed
  only by a login that failed.
* `MenuIsStoredCorrect`, from `SettingsInv`, which is `MenuIsStored` with the types of
  the tables. `Beside` is what a command has come to between two of its calls: no row
  but its own chat's is touched, a row is inserted only where there is none, and only
  the columns it tries to change differ. A menu that is sent shows what the last read
  returned, which is stored (`GetBeside`); one that is not adds those columns to
  `unshown` (`SendMenuShows`).
* `TypeCorrect`, from the tables' types and `LoginTyped`: what waits in `qrCh`, or is
  shown, was made.

`AccountsProofs`, for any accounts, lives and faults (`AccountsAssumption`,
`LivesAssumption`):

* `TypeCorrect`, which holds that who is logged in has a session file.
* `OneRunnerCorrect`. `OneRunnerPerAccount` counts; what is inductive is what it counts:
  who has a runner has an entry (`RunnersHaveEntry`), who has an entry has a runner
  (`EntriesHaveRunner`), and two runners of one account are the same (`Alone`), with
  `TypeOK` and `ScannedIsLogin`: the end of a QR login starts some account.
* `AccountServiceImplemented`. `Spec => IsAccountService`: an account's phase is read
  off its entry in `runs` and its runner's place (`Phase`), sessions are the session
  files. Each step is one step of `AccountService` or a stutter (`RefinesStep`). A start
  passes two checks, each against the credentials as they are then; whether they are
  still there when it serves is not promised, since `/set_api` may take the id away.
  That the session is there when the runner serves takes `NeedsInv`: what a runner and
  its client have checked, by their places, and `DiskKept`: no step takes a session file
  away. That `Boot` finds every account off takes `DownIsIdle`, and that a start finds
  the phase `off` exactly when there is no entry takes `RunnersHaveEntry` and `Alone`.

`AutomationProofs`, for any screens, workers, configurations and capacities
(`ScreensAssumption`, `CapAssumption`):

* `CaughtUpCorrect`. `CaughtUp` says nothing while something is under way. The
  induction is on `NewestIsScreen`: the newest of what arrives, then of the channel,
  then what the engine has received and not yet shown, then the snapshot, is the
  screen. The engine's decisions and the workers move none of them.
* `TypeCorrect`, from `ChannelInv`, `TodoInv` and `RestInv`: both channels keep to
  their capacities although what finds the first full is tried on the other one
  later.
* `OffStopsCorrect`, a temporal property that needs no fairness. While a feature is
  off no worker begins its further reads (`OffKeepsOut`) or comes to have more to
  submit (`OffKeepsLeft`), and every submission, accepted or dropped, is one less
  that is left (`SendsLess`), of at most three (`TodoInv`). So a worker that is at
  its reads or its submissions when the feature goes off for good either stays for
  good or leaves after at most three steps, and never comes back.

`ClicksProofs`, for any messages, texts, rules and capacities (`NoneAssumption`,
`LifeAssumption`, `CapAssumption`, `ThresholdAssumption`; `MessagesAssumption`:
labels are strings and an HP is told in natural numbers; `ShortAssumption`, with its
reason beside it: a percentage that float64 takes as less is a whole one):

* `StartIsHeardCorrect`: the same path with other chats on it. It needs
  `AskedIsListening`: once "/start" was sent the target is set for good.
* `CaptureStopsCorrect`, `CaptureStartsCorrect`, from `CacheInv`: an answer that
  differs from the switch, and is not a failed read's, is older than the switch's
  change. What a read found is no older than the read (`age`); what is in the cache,
  with what is left of its life, no older than life plus latency; what a hit returned
  may be used another latency later. A failed read always answers "off", so it never
  captures. That an attempted save succeeds is not promised: the code ignores its
  error.
* `TypeCorrect`, `UnchangedIsPressedCorrect`, `HealsWoundsCorrect`, from `ClicksInv`.
  `UnchangedIsPressed` is not inductive: it says nothing of an action whose message
  is not the last one now and may be again. `Grounded` speaks of the action's own
  message: what was seen there is `Pressable` there, and what heals is for a wound.
  It needs that a learned button's rule has its own value as its label (`Rule`), and
  so that the captures' buttons are what rules are learned from; that `Parse`'s
  `COMBAT` and `MAIN_MENU` imply their button, whatever its earlier cases take away
  (`ParsedStateIs`, by the least index of a true case: `FirstInIs`); and, for the cut
  percentage, a lemma on division (`CutOff`).

Only model-checked: every property that needs fairness (`AcceptedIsServed`,
`CancelledReturns`, `RunnerSettles`, `StartedIsServed`, `RestartServes`,
`FallbackHunts`, `FallbackFights`, `AllGetReady`, `QRReachesUser`, `Responsive`),
since the prover reasons neither about fairness of these actions nor about
`ENABLED`. Every other property of a passing run is a theorem.

The provers do no induction over data. Where the code has a loop that stops at the
first element it looks for, the modules therefore say which one that is (`Min` of the
indices: `FirstIn`, `FirstOf`), and `MinIsLeast` of `ChannelLemmas`, which follows
from the well-ordering of the naturals, is what the proofs know of it. For the same
reason `WaitsUntilOverflow` speaks of the doubled backoff itself: powers are opaque to
the provers. No module declares a `RECURSIVE` operator.

## 5. Not modelled

* The parsing of settings (`internal/config`), the data models, the logger and the
  metrics endpoint: no state of their own and no interaction, or input and output
  only. The settings that matter are constants of the modules.
* Wording, layout and logging; the regular expressions that find numbers in a
  text; the drawing of a QR code; session files' contents; Telegram's protocol.
* The phone login (`auth.go`, `ReadCodeFromStdin`): no client is made with a
  number. `GetButtons` and `GetLastMessage`, which nothing calls.
* The counts of potions and of energy are given with a message in `Automation`;
  how `Parse` finds them is left out.
* The shutdown beyond the cancellation: `main` waits for no goroutine.

## 6. Plan

What is left:

1. The counts of potions and energy in `Parse`, as `HPPercent` is in `Clicks`.
2. The clicks as a refinement of a smaller specification: what a user who reads the
   chat may conclude of the button an action presses.
3. The safety half of the liveness properties as theorems: from where a state that
   waits is left only towards what it waits for, as `OffStopsCorrect` does.
