----------------------------- MODULE ConfigCache -----------------------------
(***************************************************************************)
(* The cached reader of an account's configuration (pkg/configcache).      *)
(*                                                                         *)
(* The engine and the five workers of an account read the configuration    *)
(* through one CachedReader, each in its own goroutine.  GetConfig looks   *)
(* in the cache under a lock, reads the database with the lock released,   *)
(* and stores what it read under the lock again: two misses may overlap,   *)
(* and the slower may store the older value.  The configuration bot        *)
(* writes the database without telling the cache.                          *)
(*                                                                         *)
(* Time is a step, Tick.  Instead of clock values the model keeps how long *)
(* ago each value was last the current one, how long each read has been in *)
(* flight and how long the entry has to live; MaxLatency bounds a read.    *)
(* One key is modelled: entries of different accounts never meet.          *)
(***************************************************************************)
EXTENDS Naturals

CONSTANTS
    Values,      \* configurations
    Readers,     \* the goroutines that call GetConfig
    NoValue,     \* no configuration
    TTL,         \* life of an entry (30 s in the code)
    MaxLatency   \* the longest a read of the database takes, return included

ASSUME ValuesAssumption == NoValue \notin Values
ASSUME TimesAssumption == TTL \in Nat /\ MaxLatency \in Nat

VARIABLES
    current,     \* the configuration in the database
    since,       \* ticks since each value was last current; Never if it was not
    cached,      \* the value of the entry, NoValue if there is none
    left,        \* ticks until the entry expires
    pc,          \* where each reader is
    got,         \* what each reader's query returned
    age          \* ticks since each reader's query was issued

vars == <<current, since, cached, left, pc, got, age>>

\* The oldest a value in use may be, and a count beyond it where "since"
\* stops (the bound of that counter).
Horizon == TTL + MaxLatency
Never == Horizon + 1

Places == {"idle", "query", "store"}

Init ==
    /\ current \in Values
    /\ since = [v \in Values |-> IF v = current THEN 0 ELSE Never]
    /\ cached = NoValue
    /\ left = 0
    /\ pc = [r \in Readers |-> "idle"]
    /\ got = [r \in Readers |-> NoValue]
    /\ age = [r \in Readers |-> 0]

\* The entry is there and has not expired.
Fresh == cached # NoValue /\ left > 0

\* Mutant of Hit: an answer from the cache renews the entry.
HitProlongs(r) ==
    /\ pc[r] = "idle"
    /\ Fresh
    /\ left' = TTL
    /\ UNCHANGED <<current, since, cached, pc, got, age>>

\* GetConfig up to the first unlock, on a hit: the caller has its answer.
Hit(r) ==
    /\ pc[r] = "idle"
    /\ Fresh
    /\ UNCHANGED vars

\* GetConfig up to the first unlock, on a miss.
Miss(r) ==
    /\ pc[r] = "idle"
    /\ ~Fresh
    /\ pc' = [pc EXCEPT ![r] = "query"]
    /\ age' = [age EXCEPT ![r] = 0]
    /\ UNCHANGED <<current, since, cached, left, got>>

\* Mutant of Query: an error falls back on the entry, expired or not.
QueryOrCached(r) ==
    /\ pc[r] = "query"
    /\ pc' = [pc EXCEPT ![r] = "store"]
    /\ \E v \in {current, cached} \ {NoValue} : got' = [got EXCEPT ![r] = v]
    /\ UNCHANGED <<current, since, cached, left, age>>

\* The database answers; the reader has not locked the cache yet.
Query(r) ==
    /\ pc[r] = "query"
    /\ pc' = [pc EXCEPT ![r] = "store"]
    /\ got' = [got EXCEPT ![r] = current]
    /\ UNCHANGED <<current, since, cached, left, age>>

\* The query fails: the error is returned and the cache left alone.
QueryFails(r) ==
    /\ pc[r] = "query"
    /\ pc' = [pc EXCEPT ![r] = "idle"]
    /\ age' = [age EXCEPT ![r] = 0]
    /\ UNCHANGED <<current, since, cached, left, got>>

\* Mutant of Store: the entry lives one unit too long.
StoreLonger(r) ==
    /\ pc[r] = "store"
    /\ cached' = got[r]
    /\ left' = TTL + 1
    /\ pc' = [pc EXCEPT ![r] = "idle"]
    /\ got' = [got EXCEPT ![r] = NoValue]
    /\ age' = [age EXCEPT ![r] = 0]
    /\ UNCHANGED <<current, since>>

\* What was read goes into the cache for TTL from now, over any other entry,
\* and is returned.
Store(r) ==
    /\ pc[r] = "store"
    /\ cached' = got[r]
    /\ left' = TTL
    /\ pc' = [pc EXCEPT ![r] = "idle"]
    /\ got' = [got EXCEPT ![r] = NoValue]
    /\ age' = [age EXCEPT ![r] = 0]
    /\ UNCHANGED <<current, since>>

\* The configuration bot stores a change.
Update(v) ==
    /\ v # current
    /\ current' = v
    /\ since' = [since EXCEPT ![v] = 0]
    /\ UNCHANGED <<cached, left, pc, got, age>>

Older(n) == IF n < Never THEN n + 1 ELSE n

\* One unit of time passes.  No read outlives MaxLatency.
Tick ==
    /\ \A r \in Readers : pc[r] # "idle" => age[r] < MaxLatency
    /\ since' = [v \in Values |-> IF v = current THEN 0 ELSE Older(since[v])]
    /\ left' = IF left > 0 THEN left - 1 ELSE 0
    /\ age' = [r \in Readers |-> IF pc[r] = "idle" THEN 0 ELSE age[r] + 1]
    /\ UNCHANGED <<current, cached, pc, got>>

Step(r) == Hit(r) \/ Miss(r) \/ Query(r) \/ QueryFails(r) \/ Store(r)

Next ==
    \/ \E r \in Readers : Step(r)
    \/ \E v \in Values : Update(v)
    \/ Tick

Spec == Init /\ [][Next]_vars
-----------------------------------------------------------------------------
TypeOK ==
    /\ current \in Values
    /\ since \in [Values -> 0..Never]
    /\ cached \in Values \cup {NoValue}
    /\ left \in 0..TTL
    /\ pc \in [Readers -> Places]
    /\ got \in [Readers -> Values \cup {NoValue}]
    /\ age \in [Readers -> 0..MaxLatency]

\* What a reader is about to store and return was the configuration at some
\* moment of its own query: an error or an expired entry never stands in.
ReadIsRecent ==
    \A r \in Readers : pc[r] = "store" => since[got[r]] <= age[r]

\* What a hit returns was the configuration less than TTL + MaxLatency ago,
\* whatever the overlap of misses, and of updates with them: after a toggle
\* in the bot nobody acts on the old value Horizon ticks later.
BoundedStaleness == Fresh => since[cached] < Horizon

\* The inductive invariant behind BoundedStaleness: the entry was recent when
\* it was stored, TTL - left ticks ago, and so is what readers will store.
StoredRecent ==
    /\ since[current] = 0
    /\ cached # NoValue => left + since[cached] <= Horizon \/ left = 0
    /\ \A r \in Readers : pc[r] = "store" => got[r] \in Values
    /\ ReadIsRecent
=============================================================================
