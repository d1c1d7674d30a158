--------------------------- MODULE ActionExecutor ---------------------------
(***************************************************************************)
(* The action executor of one account (internal/engine/action_executor.go) *)
(* with the retry loop (pkg/retry) and the client calls it drives          *)
(* (internal/telegram/client.go).                                          *)
(*                                                                         *)
(* Producers share two bounded channels: the automation engine submits     *)
(* through Enqueue, the five workers put on the normal channel directly.   *)
(* One goroutine takes from both, one action at a time, and performs up to *)
(* MaxAttempts client calls for it.  The account's context can be          *)
(* cancelled between any two steps.                                        *)
(*                                                                         *)
(* An element of Actions is one submission (a value on a channel), not a   *)
(* label: once it has left the executor it may stand for a new submission. *)
(***************************************************************************)
EXTENDS Naturals, Sequences, FiniteSets, Functions

CONSTANTS
    Actions,      \* submissions
    High,         \* those with Priority > 0: only the engine makes them
    Clicks,       \* those of type CLICK; the others are SEND
    Peerless,     \* those whose Peer is nil
    Malformed,    \* those with no label or text to act on, or of no known type
    NoAction,     \* no action in hand
    HighCap,      \* capacity of highQ (50 in the code)
    QueueCap,     \* capacity of queue (200 in the code)
    Attempts,     \* retry.Config.Attempts as configured, 0 included
    CounterMod    \* 2^64: the metrics are uint64

ASSUME ActionsAssumption ==
    /\ High \subseteq Actions
    /\ Clicks \subseteq Actions
    /\ Peerless \subseteq Actions
    /\ Malformed \subseteq Actions
    /\ NoAction \notin Actions
ASSUME CapsAssumption == HighCap \in Nat \ {0} /\ QueueCap \in Nat \ {0}
ASSUME AttemptsAssumption == Attempts \in Nat
ASSUME CounterAssumption == CounterMod \in Nat \ {0}

VARIABLES
    highQ, queue, \* the two channels
    overflow,     \* the action the engine found no room for in highQ, between
                  \* the two selects of Enqueue; NoAction outside Enqueue
    ctxDone,      \* the account's context is cancelled
    pc,           \* where the executor's goroutine is
    cur,          \* the action it executes
    attempt,      \* number of the attempt under way, 0 outside retry.Do
    refreshing,   \* executing the "/start" of maybeRefreshOnDataInvalid
    cooling,      \* less than refreshCooldown has passed since lastRefresh
    okCount, errCount, \* the two metrics
    calls,        \* history: client calls issued for cur
    lateCalls     \* history: client calls issued after the cancellation

queues == <<highQ, queue, overflow>>
counts == <<okCount, errCount>>
vars == <<queues, ctxDone, pc, cur, attempt, refreshing, cooling, counts,
          calls, lateCalls>>

\* The goroutine's places.  "loop": the outer select; "select": the inner
\* one; "try": about to enter a client method; "wait": inside limiter.Wait,
\* past its look at the context; "call": the request is out; "backoff": the
\* select between two attempts; "sleep": the delay between two actions.
Places == {"loop", "select", "try", "wait", "call", "backoff", "sleep",
           "returned"}

\* retry.Do makes one attempt when the configuration asks for none.
MaxAttempts == IF Attempts = 0 THEN 1 ELSE Attempts

InSystem == Range(highQ) \cup Range(queue) \cup {overflow, cur}
Fresh(a) == a \notin InSystem

Init ==
    /\ highQ = <<>>
    /\ queue = <<>>
    /\ overflow = NoAction
    /\ ctxDone = FALSE
    /\ pc = "loop"
    /\ cur = NoAction
    /\ attempt = 0
    /\ refreshing = FALSE
    /\ cooling = FALSE
    /\ okCount = 0
    /\ errCount = 0
    /\ calls = 0
    /\ lateCalls = 0
-----------------------------------------------------------------------------
(* Producers *)

\* Mutant of OfferNormal: the capacity is off by one.
OfferOneMore(a) ==
    queue' = IF Len(queue) <= QueueCap THEN Append(queue, a) ELSE queue

\* A non-blocking send: the value is dropped when the channel is full.
OfferNormal(a) ==
    queue' = IF Len(queue) < QueueCap THEN Append(queue, a) ELSE queue

\* Mutant of SubmitHigh: the return after the first select is missing.
SubmitHighTwice(a) ==
    /\ overflow = NoAction
    /\ highQ' = IF Len(highQ) < HighCap THEN Append(highQ, a) ELSE highQ
    /\ overflow' = a
    /\ UNCHANGED <<queue, ctxDone, pc, cur, attempt, refreshing, cooling, counts,
                   calls, lateCalls>>

\* Enqueue of a high-priority action, first select: highQ if it has room,
\* else go on to the second select.
SubmitHigh(a) ==
    /\ overflow = NoAction
    /\ IF Len(highQ) < HighCap
       THEN highQ' = Append(highQ, a) /\ UNCHANGED <<queue, overflow>>
       ELSE overflow' = a /\ UNCHANGED <<highQ, queue>>
    /\ UNCHANGED <<ctxDone, pc, cur, attempt, refreshing, cooling, counts,
                   calls, lateCalls>>

\* Enqueue of a high-priority action, second select.
SpillHigh ==
    /\ overflow # NoAction
    /\ OfferNormal(overflow)
    /\ overflow' = NoAction
    /\ UNCHANGED <<highQ, ctxDone, pc, cur, attempt, refreshing, cooling,
                   counts, calls, lateCalls>>

\* A worker's send, or Enqueue of an action of normal priority.
SubmitNormal(a) ==
    /\ OfferNormal(a)
    /\ UNCHANGED <<highQ, overflow, ctxDone, pc, cur, attempt, refreshing,
                   cooling, counts, calls, lateCalls>>

Cancel ==
    /\ ~ctxDone
    /\ ctxDone' = TRUE
    /\ UNCHANGED <<queues, pc, cur, attempt, refreshing, cooling, counts,
                   calls, lateCalls>>

CooldownExpires ==
    /\ cooling
    /\ cooling' = FALSE
    /\ UNCHANGED <<queues, ctxDone, pc, cur, attempt, refreshing, counts,
                   calls, lateCalls>>
-----------------------------------------------------------------------------
(* The loop of Start *)

LoopTop ==
    /\ pc = "loop"
    /\ pc' = IF ctxDone THEN "returned" ELSE "select"
    /\ UNCHANGED <<queues, ctxDone, cur, attempt, refreshing, cooling, counts,
                   calls, lateCalls>>

\* Mutant of SelectDone: the inner select has no case for the context.
SelectNeverDone ==
    /\ pc = "select"
    /\ FALSE
    /\ pc' = "returned"
    /\ UNCHANGED <<queues, ctxDone, cur, attempt, refreshing, cooling, counts,
                   calls, lateCalls>>

SelectDone ==
    /\ pc = "select"
    /\ ctxDone
    /\ pc' = "returned"
    /\ UNCHANGED <<queues, ctxDone, cur, attempt, refreshing, cooling, counts,
                   calls, lateCalls>>

\* The start of execute: an action without a peer is skipped, uncounted.
Execute(a) ==
    /\ IF a \in Peerless
       THEN pc' = "sleep" /\ UNCHANGED <<cur, attempt>>
       ELSE pc' = "try" /\ cur' = a /\ attempt' = 1
    /\ UNCHANGED <<overflow, ctxDone, refreshing, cooling, counts, calls,
                   lateCalls>>

\* Go's select chooses among its ready cases at random: neither of the two
\* actions below asks whether the other channel, or the context, is ready.
TakeHigh ==
    /\ pc = "select"
    /\ highQ # <<>>
    /\ highQ' = Tail(highQ)
    /\ UNCHANGED queue
    /\ Execute(Head(highQ))

\* Mutant of TakeNormal: the normal channel only when the other is empty.
TakeNormalLast ==
    /\ pc = "select"
    /\ highQ = <<>>
    /\ queue # <<>>
    /\ queue' = Tail(queue)
    /\ UNCHANGED highQ
    /\ Execute(Head(queue))

TakeNormal ==
    /\ pc = "select"
    /\ queue # <<>>
    /\ queue' = Tail(queue)
    /\ UNCHANGED highQ
    /\ Execute(Head(queue))

SleepOver ==
    /\ pc = "sleep"
    /\ pc' = "loop"
    /\ UNCHANGED <<queues, ctxDone, cur, attempt, refreshing, cooling, counts,
                   calls, lateCalls>>
-----------------------------------------------------------------------------
(* execute: retry.Do around one client call, then the counters *)

\* execute returns, having counted the action.
Finish ==
    /\ pc' = "sleep"
    /\ cur' = NoAction
    /\ attempt' = 0
    /\ refreshing' = FALSE
    /\ calls' = 0

FinishOK ==
    /\ Finish
    /\ okCount' = (okCount + 1) % CounterMod
    /\ UNCHANGED errCount

FinishError ==
    /\ Finish
    /\ errCount' = (errCount + 1) % CounterMod
    /\ UNCHANGED okCount

\* The last error of retry.Do reaches execute: a click refused with
\* DATA_INVALID sends "/start", unless one was sent within the cooldown.
GiveUp(kind) ==
    IF kind = "invalid" /\ cur \in Clicks /\ ~cooling
    THEN /\ pc' = "try"
         /\ refreshing' = TRUE
         /\ cooling' = TRUE
         /\ UNCHANGED <<cur, attempt, counts, calls>>
    ELSE FinishError /\ UNCHANGED cooling

\* Mutant of AfterError: one attempt too many.
AfterErrorOneMore(kind) ==
    IF refreshing
    THEN FinishError /\ UNCHANGED cooling
    ELSE IF attempt <= MaxAttempts
         THEN /\ pc' = "backoff"
              /\ UNCHANGED <<cur, attempt, refreshing, cooling, counts, calls>>
         ELSE GiveUp(kind)

\* Mutant of AfterError: every failed attempt is counted.
AfterErrorCounts(kind) ==
    IF refreshing
    THEN FinishError /\ UNCHANGED cooling
    ELSE IF attempt < MaxAttempts
         THEN /\ pc' = "backoff"
              /\ errCount' = (errCount + 1) % CounterMod
              /\ UNCHANGED <<cur, attempt, refreshing, cooling, okCount, calls>>
         ELSE GiveUp(kind)

\* An attempt failed.
AfterError(kind) ==
    IF refreshing
    THEN FinishError /\ UNCHANGED cooling
    ELSE IF attempt < MaxAttempts
         THEN /\ pc' = "backoff"
              /\ UNCHANGED <<cur, attempt, refreshing, cooling, counts, calls>>
         ELSE GiveUp(kind)

\* Mutant of BeginCall: the context is not looked at.
BeginCallUnchecked ==
    /\ pc = "try"
    /\ cur \in Malformed => refreshing
    /\ pc' = "wait"
    /\ UNCHANGED <<queues, ctxDone, cur, attempt, refreshing, cooling, counts,
                   calls, lateCalls>>

\* The client method is entered.  A cancelled context ends the action here:
\* retry.Do looks at it before every attempt and limiter.Wait on entry.
BeginCall ==
    /\ pc = "try"
    /\ cur \in Malformed => refreshing \/ ctxDone
    /\ IF ctxDone
       THEN FinishError
       ELSE pc' = "wait" /\ UNCHANGED <<cur, attempt, refreshing, counts, calls>>
    /\ UNCHANGED <<queues, ctxDone, cooling, lateCalls>>

\* A malformed action never gets to the client: an error like any other for
\* retry.Do, which tries again.
Refuse ==
    /\ pc = "try"
    /\ cur \in Malformed
    /\ ~refreshing
    /\ ~ctxDone
    /\ AfterError("fail")
    /\ UNCHANGED <<queues, ctxDone, lateCalls>>

\* limiter.Wait gives way and the request goes out.  The context may have
\* been cancelled since Wait looked at it.
LimiterGrant ==
    /\ pc = "wait"
    /\ pc' = "call"
    /\ calls' = calls + 1
    /\ lateCalls' = IF ctxDone THEN lateCalls + 1 ELSE lateCalls
    /\ UNCHANGED <<queues, ctxDone, cur, attempt, refreshing, cooling, counts>>

\* limiter.Wait sees the cancellation, and so does retry.Do after it.
LimiterCancelled ==
    /\ pc = "wait"
    /\ ctxDone
    /\ FinishError
    /\ UNCHANGED <<queues, ctxDone, cooling, lateCalls>>

\* ClickButton finds no such button in the chat's last message: an error
\* like any other for retry.Do, though nothing was sent.
NotFound ==
    /\ pc = "wait"
    /\ cur \in Clicks
    /\ ~refreshing
    /\ AfterError("fail")
    /\ UNCHANGED <<queues, ctxDone, lateCalls>>

\* The request ends well.  The result of the "/start" is ignored.
ReplyOK ==
    /\ pc = "call"
    /\ IF refreshing THEN FinishError ELSE FinishOK
    /\ UNCHANGED <<queues, ctxDone, cooling, lateCalls>>

\* The request ends in an error: refused, cut by the context, or its answer
\* was lost, in which case the game has seen it all the same.
ReplyError ==
    /\ pc = "call"
    /\ \E kind \in {"fail", "invalid"} : AfterError(kind)
    /\ UNCHANGED <<queues, ctxDone, lateCalls>>

\* The select between two attempts: the delay is over ...
BackoffOver ==
    /\ pc = "backoff"
    /\ pc' = "try"
    /\ attempt' = attempt + 1
    /\ UNCHANGED <<queues, ctxDone, cur, refreshing, cooling, counts, calls,
                   lateCalls>>

\* ... or the context is cancelled.
BackoffCancelled ==
    /\ pc = "backoff"
    /\ ctxDone
    /\ FinishError
    /\ UNCHANGED <<queues, ctxDone, cooling, lateCalls>>
-----------------------------------------------------------------------------
Submit(a) ==
    /\ Fresh(a)
    /\ IF a \in High THEN SubmitHigh(a) ELSE SubmitNormal(a)

Environment ==
    \/ \E a \in Actions : Submit(a)
    \/ Cancel
    \/ CooldownExpires

Executing ==
    \/ BeginCall \/ Refuse \/ LimiterGrant \/ LimiterCancelled
    \/ NotFound \/ ReplyOK \/ ReplyError \/ BackoffOver \/ BackoffCancelled

Looping == LoopTop \/ SelectDone \/ TakeHigh \/ TakeNormal \/ SleepOver

Next == Environment \/ SpillHigh \/ Looping \/ Executing

Spec == Init /\ [][Next]_vars

\* The goroutines run, and a request ends (the answer arrives or the
\* connection gives up): weak fairness.  A select that is reached again and
\* again with a case ready picks it some day, since it picks uniformly:
\* strong fairness for each case of the inner select.
Fairness ==
    /\ WF_vars(SpillHigh)
    /\ WF_vars(LoopTop)
    /\ WF_vars(SleepOver)
    /\ WF_vars(Executing)
    /\ SF_vars(SelectDone)
    /\ SF_vars(TakeHigh)
    /\ SF_vars(TakeNormal)

FairSpec == Spec /\ Fairness
-----------------------------------------------------------------------------
(* Safety *)

\* The variables keep their types; no channel exceeds its capacity and the
\* counters wrap at their width.
TypeOK ==
    /\ highQ \in Seq(Actions) /\ Len(highQ) <= HighCap
    /\ queue \in Seq(Actions) /\ Len(queue) <= QueueCap
    /\ overflow \in Actions \cup {NoAction}
    /\ ctxDone \in BOOLEAN
    /\ pc \in Places
    /\ cur \in Actions \cup {NoAction}
    /\ attempt \in Nat
    /\ refreshing \in BOOLEAN
    /\ cooling \in BOOLEAN
    /\ okCount \in 0..(CounterMod - 1)
    /\ errCount \in 0..(CounterMod - 1)
    /\ calls \in Nat
    /\ lateCalls \in Nat

NoRepeats(q) == \A i, j \in DOMAIN q : q[i] = q[j] => i = j

\* A submission is in one place: in one of the channels, once, or in the
\* engine's hands inside Enqueue, or executed.  So it is executed at most
\* once, whichever of Enqueue's two selects took it.
OnePlace ==
    /\ NoRepeats(highQ)
    /\ NoRepeats(queue)
    /\ Range(highQ) \cap Range(queue) = {}
    /\ overflow \notin Range(highQ) \cup Range(queue)
    /\ cur \notin Range(highQ) \cup Range(queue)
    /\ (cur = overflow => cur = NoAction)

\* After the account is cancelled at most one more request reaches Telegram,
\* although the executor may still take an action and no call takes the
\* context as a reason to stop once limiter.Wait has given way.
LateCallBound == lateCalls <= 1

\* One submission costs at most MaxAttempts requests, plus the "/start" of a
\* click that was refused with DATA_INVALID on its last attempt.
CallsBounded ==
    /\ calls <= MaxAttempts + 1
    /\ calls > MaxAttempts => refreshing /\ cur \in Clicks

\* What the goroutine's place says of the action in hand, and how the calls
\* relate to the attempts: with TypeOK, the inductive invariant behind
\* CallsBounded.
ExecutionShape ==
    /\ (cur = NoAction) <=> (pc \in {"loop", "select", "sleep", "returned"})
    /\ cur = NoAction => attempt = 0 /\ calls = 0 /\ ~refreshing
    /\ cur # NoAction => attempt \in 1..MaxAttempts
    /\ refreshing => cur \in Clicks /\ attempt = MaxAttempts
    /\ pc \in {"try", "wait"} =>
           calls <= (IF refreshing THEN attempt ELSE attempt - 1)
    /\ pc = "call" => calls <= (IF refreshing THEN attempt + 1 ELSE attempt)
    /\ pc = "backoff" => /\ ~refreshing
                         /\ calls <= attempt
                         /\ attempt < MaxAttempts

\* The inductive invariant behind LateCallBound: the one late call is that
\* of an attempt which had entered limiter.Wait before the cancellation.
LateShape ==
    /\ lateCalls <= 1
    /\ ~ctxDone => lateCalls = 0
    /\ pc = "wait" => lateCalls = 0
-----------------------------------------------------------------------------
(* Liveness *)

\* Nothing that a channel has accepted waits for ever while the account
\* runs, on either channel, however the producers load the other one.
AcceptedIsServed ==
    \A a \in Actions :
        a \in Range(highQ) \cup Range(queue)
            ~> (a \notin Range(highQ) \cup Range(queue) \/ pc = "returned")

\* A cancelled executor returns, wherever the cancellation found it.
CancelledReturns == ctxDone ~> pc = "returned"
-----------------------------------------------------------------------------
(* What the documentation says of priorities *)

\* README.md promises a queue with priority and Action.Priority says "1=high":
\* no action of the normal channel is taken while one waits in highQ.
HighFirst == [][TakeNormal => highQ = <<>>]_vars
-----------------------------------------------------------------------------
(* Refinement: the executor implements a dispatcher. *)

DispatcherView == INSTANCE Dispatcher WITH
    waiting <- Range(highQ) \cup Range(queue),
    running <- cur,
    ok      <- okCount,
    err     <- errCount,
    stopped <- pc = "returned",
    Room    <- HighCap + QueueCap

IsDispatcher == DispatcherView!Spec
=============================================================================
