----------------------------- MODULE Dispatcher -----------------------------
(***************************************************************************)
(* What an account's action executor promises to the code that submits     *)
(* actions to it, with neither queues nor retries in sight.                *)
(*                                                                         *)
(* A submitted action is either refused or waits.  A waiting action is     *)
(* begun at most once, one action runs at a time, and a run ends in one    *)
(* outcome, counted once.  A dispatcher that has stopped begins nothing.   *)
(*                                                                         *)
(* ActionExecutor refines this module (its two bounded queues are "the     *)
(* actions that wait").                                                    *)
(***************************************************************************)
EXTENDS Naturals, FiniteSets

CONSTANTS
    Actions,     \* the actions that can be submitted
    Peerless,    \* those addressed to nobody: they are never run
    NoAction,    \* "nothing is running"
    Room,        \* how many actions may wait
    CounterMod   \* the counters are unsigned and wrap at this value

VARIABLES
    waiting,     \* accepted, not begun
    running,     \* the action that runs, or NoAction
    ok, err,     \* how many runs ended well, and badly (modulo CounterMod)
    stopped      \* the dispatcher has stopped for good

vars == <<waiting, running, ok, err, stopped>>

Init ==
    /\ waiting = {}
    /\ running = NoAction
    /\ ok = 0
    /\ err = 0
    /\ stopped = FALSE

Accept(a) ==
    /\ a \notin waiting
    /\ a # running
    /\ Cardinality(waiting) < Room
    /\ waiting' = waiting \cup {a}
    /\ UNCHANGED <<running, ok, err, stopped>>

Begin(a) ==
    /\ ~stopped
    /\ running = NoAction
    /\ a \in waiting
    /\ a \notin Peerless
    /\ waiting' = waiting \ {a}
    /\ running' = a
    /\ UNCHANGED <<ok, err, stopped>>

Discard(a) ==
    /\ ~stopped
    /\ running = NoAction
    /\ a \in waiting \cap Peerless
    /\ waiting' = waiting \ {a}
    /\ UNCHANGED <<running, ok, err, stopped>>

\* A run ends: exactly one of the two counters moves, and by one.
Complete ==
    /\ running # NoAction
    /\ running' = NoAction
    /\ \/ ok' = (ok + 1) % CounterMod /\ UNCHANGED err
       \/ err' = (err + 1) % CounterMod /\ UNCHANGED ok
    /\ UNCHANGED <<waiting, stopped>>

Stop ==
    /\ ~stopped
    /\ running = NoAction
    /\ stopped' = TRUE
    /\ UNCHANGED <<waiting, running, ok, err>>

Next ==
    \/ \E a \in Actions : Accept(a) \/ Begin(a) \/ Discard(a)
    \/ Complete
    \/ Stop

Spec == Init /\ [][Next]_vars
=============================================================================
