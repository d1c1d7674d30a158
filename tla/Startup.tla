------------------------------- MODULE Startup -------------------------------
(***************************************************************************)
(* How a process of the program gets ready (cmd/kerobot/main.go): it       *)
(* connects to the database with retries (internal/database:               *)
(* connect_retry.go, postgres.go) and runs the migrations (migrations.go,  *)
(* migrations/*.sql) before it starts accounts and the configuration bot.  *)
(*                                                                         *)
(* A migration is executed and recorded in two statements.  A process can  *)
(* die between them, and several processes can migrate one database at     *)
(* once: a restart while the old one ends, or two of them.  Executing a    *)
(* file again does no harm (every statement of them says IF NOT EXISTS);   *)
(* executing one before those it alters tables of fails.                   *)
(***************************************************************************)
EXTENDS Integers, FiniteSets

CONSTANTS
    Processes,
    N,           \* the .sql files, sorted by name, are the migrations 1..N
    Needs,       \* Needs[m]: the migrations whose tables m alters
    ConnectAttempts, ConnectBackoff,  \* the settings, any integers
    Second,      \* the backoff where the setting is not positive
    MaxSleep,    \* 30 seconds
    WordSize     \* integers wrap: -WordSize..WordSize-1 (2^63 in the code)

Migrations == 1..N

Attempts == IF ConnectAttempts <= 0 THEN 1 ELSE ConnectAttempts
Backoff == IF ConnectBackoff <= 0 THEN Second ELSE ConnectBackoff

ASSUME SizeAssumption == N \in Nat \ {0} /\ WordSize \in Nat \ {0}
ASSUME ConnectAssumption == ConnectAttempts \in Int /\ ConnectBackoff \in Int
ASSUME SleepAssumption == Second \in Nat \ {0} /\ MaxSleep \in Nat
ASSUME NeedsAssumption ==
    /\ Needs \in [Migrations -> SUBSET Migrations]
    /\ \A m \in Migrations : Needs[m] \subseteq 1..(m - 1)

VARIABLES
    trouble,     \* what may go wrong still may: failures, crashes
    reachable,   \* the database accepts connections
    applied,     \* migrations whose statements took effect
    recorded,    \* the rows of schema_migrations
    place,       \* where each process is
    try,         \* ConnectWithRetry's i
    at           \* the migration that RunMigrations' loop is at

database == <<applied, recorded>>
vars == <<trouble, reachable, database, place, try, at>>

Places == {"down", "connecting", "sleeping", "check", "exec", "record", "ready"}
Migrating == {"check", "exec", "record"}

Init ==
    /\ trouble = TRUE
    /\ reachable \in BOOLEAN
    /\ applied = {}
    /\ recorded = {}
    /\ place = [p \in Processes |-> "down"]
    /\ try = [p \in Processes |-> 0]
    /\ at = [p \in Processes |-> 1]

Goto(p, pl) == place' = [place EXCEPT ![p] = pl]
-----------------------------------------------------------------------------
(* Environment *)

ReachableChanges ==
    /\ trouble
    /\ reachable' = ~reachable
    /\ UNCHANGED <<trouble, database, place, try, at>>

\* The database stays up from now on and nothing fails by itself any more.
TroubleEnds ==
    /\ trouble
    /\ trouble' = FALSE
    /\ reachable' = TRUE
    /\ UNCHANGED <<database, place, try, at>>

\* Somebody starts the process, or starts it again.
Launch(p) ==
    /\ place[p] = "down"
    /\ Goto(p, "connecting")
    /\ try' = [try EXCEPT ![p] = 0]
    /\ UNCHANGED <<trouble, reachable, database, at>>

\* The process ends: it dies, it is told to (the context is cancelled), or it
\* exits since a statement of a migration has failed.
Ends(p) ==
    /\ trouble
    /\ place[p] # "down"
    /\ Goto(p, "down")
    /\ UNCHANGED <<trouble, reachable, database, try, at>>
-----------------------------------------------------------------------------
(* ConnectWithRetry *)

Wrap(n) == ((n + WordSize) % (2 * WordSize)) - WordSize

\* Mutant of Sleep: the attempts are counted from 1.
SleepFromOne(i) ==
    LET sleep == Wrap(Backoff * 2^(i + 1))
    IN IF sleep > MaxSleep THEN MaxSleep ELSE sleep

\* The backoff is doubled with every attempt, then capped.
Sleep(i) ==
    LET sleep == Wrap(Backoff * 2^i)
    IN IF sleep > MaxSleep THEN MaxSleep ELSE sleep

Connects(p) ==
    /\ place[p] = "connecting"
    /\ reachable
    /\ Goto(p, "check")
    /\ at' = [at EXCEPT ![p] = 1]
    /\ UNCHANGED <<trouble, reachable, database, try>>

\* Mutant of ConnectFails: there is always another attempt.
ConnectFailsForever(p) ==
    /\ place[p] = "connecting"
    /\ ~reachable \/ trouble
    /\ Goto(p, "sleeping")
    /\ UNCHANGED <<trouble, reachable, database, try, at>>

\* After the last attempt the process exits.
ConnectFails(p) ==
    /\ place[p] = "connecting"
    /\ ~reachable \/ trouble
    /\ Goto(p, IF try[p] < Attempts - 1 THEN "sleeping" ELSE "down")
    /\ UNCHANGED <<trouble, reachable, database, try, at>>

Wakes(p) ==
    /\ place[p] = "sleeping"
    /\ Goto(p, "connecting")
    /\ try' = [try EXCEPT ![p] = @ + 1]
    /\ UNCHANGED <<trouble, reachable, database, at>>
-----------------------------------------------------------------------------
(* RunMigrations *)

\* The migration the loop is at has no row in schema_migrations: execute it ...
CheckMissing(p) ==
    /\ place[p] = "check"
    /\ at[p] \in Migrations \ recorded
    /\ Goto(p, "exec")
    /\ UNCHANGED <<trouble, reachable, database, try, at>>

\* ... or it has one: go on with the next.
CheckFound(p) ==
    /\ place[p] = "check"
    /\ at[p] \in recorded
    /\ at' = [at EXCEPT ![p] = @ + 1]
    /\ UNCHANGED <<trouble, reachable, database, place, try>>

\* Mutant of Exec: the row is inserted first.
ExecAfterRecord(p) ==
    /\ place[p] = "exec"
    /\ Goto(p, "record")
    /\ recorded' = recorded \cup {at[p]}
    /\ UNCHANGED <<trouble, reachable, applied, try, at>>

\* The file's statements, in one implicit transaction.
Exec(p) ==
    /\ place[p] = "exec"
    /\ IF Needs[at[p]] \subseteq applied
       THEN Goto(p, "record") /\ applied' = applied \cup {at[p]}
       ELSE Goto(p, "down") /\ UNCHANGED applied
    /\ UNCHANGED <<trouble, reachable, recorded, try, at>>

\* Mutant of Record: the failed insertion is ignored and the loop stays.
RecordInsists(p) ==
    /\ place[p] = "record"
    /\ IF at[p] \in recorded
       THEN UNCHANGED <<place, at, recorded>>
       ELSE /\ Goto(p, "check")
            /\ recorded' = recorded \cup {at[p]}
            /\ at' = [at EXCEPT ![p] = @ + 1]
    /\ UNCHANGED <<trouble, reachable, applied, try>>

\* The insertion; a row that another process has inserted since the check is a
\* duplicate key, and the process exits.
Record(p) ==
    /\ place[p] = "record"
    /\ IF at[p] \in recorded
       THEN Goto(p, "down") /\ UNCHANGED <<recorded, at>>
       ELSE /\ Goto(p, "check")
            /\ recorded' = recorded \cup {at[p]}
            /\ at' = [at EXCEPT ![p] = @ + 1]
    /\ UNCHANGED <<trouble, reachable, applied, try>>

\* Mutant of Ready: the loop leaves out the last file.
ReadyEarly(p) ==
    /\ place[p] = "check"
    /\ at[p] = N
    /\ Goto(p, "ready")
    /\ UNCHANGED <<trouble, reachable, database, try, at>>

\* The loop is over; main goes on with StartExisting, the bot and the metrics.
Ready(p) ==
    /\ place[p] = "check"
    /\ at[p] = N + 1
    /\ Goto(p, "ready")
    /\ UNCHANGED <<trouble, reachable, database, try, at>>
-----------------------------------------------------------------------------
Connecting(p) == Connects(p) \/ ConnectFails(p) \/ Wakes(p)
MigrationStep(p) ==
    CheckMissing(p) \/ CheckFound(p) \/ Exec(p) \/ Record(p) \/ Ready(p)
Run(p) == Connecting(p) \/ MigrationStep(p)

Next ==
    \/ ReachableChanges
    \/ TroubleEnds
    \/ \E p \in Processes : Launch(p) \/ Ends(p) \/ Run(p)

Spec == Init /\ [][Next]_vars

\* Processes run, and somebody starts one that is down (the repository does not:
\* its compose file has no restart policy).
Fairness == \A p \in Processes : WF_vars(Run(p)) /\ WF_vars(Launch(p))
FairSpec == Spec /\ Fairness
-----------------------------------------------------------------------------
TypeOK ==
    /\ trouble \in BOOLEAN /\ reachable \in BOOLEAN
    /\ applied \subseteq Migrations
    /\ recorded \subseteq Migrations
    /\ place \in [Processes -> Places]
    /\ try \in [Processes -> 0..(Attempts - 1)]
    /\ at \in [Processes -> 1..(N + 1)]

\* Wherever processes died and however several of them interleaved, the
\* migrations took effect in their order, what is recorded took effect, and at
\* most one that did is not recorded: the one a restart executes again.
OneAhead ==
    \E r \in 0..N : recorded = 1..r /\ applied \in {1..r, 1..(r + 1)}

\* Accounts and the bot only ever run on the complete schema.
ReadyIsMigrated ==
    \A p \in Processes : place[p] = "ready" => recorded = Migrations

\* The doubling is not checked for the integer's width, nor are the settings: a
\* process waits at least the backoff (or the cap) and at most the cap while the
\* doubled backoff is an integer of that width, and where it first is not one,
\* the time to wait is negative and the process tries again at once.
WaitsUntilOverflow ==
    \A p \in Processes : place[p] = "sleeping" =>
        LET doubled == Backoff * 2^try[p] IN
        /\ doubled \in Backoff..(WordSize - 1) =>
               /\ Sleep(try[p]) <= MaxSleep
               /\ Sleep(try[p]) >= Backoff \/ Sleep(try[p]) = MaxSleep
        /\ doubled \in WordSize..(2 * WordSize - 1) => Sleep(try[p]) < 0

\* Once the database stays up and nothing else fails, every process gets ready
\* for good, also those that had died anywhere, or that exit since they lost
\* the race to record a migration and are started again.
AllGetReady ==
    <>~trouble => \A p \in Processes : <>[](place[p] = "ready")
=============================================================================
