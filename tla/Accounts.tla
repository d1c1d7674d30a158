------------------------------ MODULE Accounts ------------------------------
(***************************************************************************)
(* The account manager (internal/accounts/manager.go), the Telegram client *)
(* whose life it manages (internal/telegram/client.go: Start, authIfNeeded)*)
(* and the part of the configuration bot that starts accounts              *)
(* (internal/configbot/bot.go: /set_api, /set_hash, /qr).                  *)
(*                                                                         *)
(* StartAccount enters an account in the map "runs" and starts a runner    *)
(* goroutine, which starts a client goroutine, waits for it to be ready,   *)
(* and removes the entry when it returns.  A client may outlive its runner *)
(* while it notices that its context was cancelled.  The bot handles one   *)
(* update at a time; a /qr occupies it until the login has ended.  The     *)
(* process can crash and be restarted; sessions and credentials are kept.  *)
(***************************************************************************)
EXTENDS Naturals, FiniteSets

CONSTANTS
    Accounts,    \* Telegram ids
    Lives,       \* bound: runner and client pairs of one account alive at once
    NoAccount,   \* no login under way
    EnvCreds,    \* the environment sets API_ID and API_HASH
    Faults       \* what may go wrong until it stops doing so, of AllFaults

\* "disk": the session directory cannot be read; "db": the stored credentials
\* cannot; "slow": a connection is not ready within the minute; "rpc":
\* a request to Telegram fails; "revoke": the user ends the session from another
\* device; "crash": the process dies; "qr": the QR login ends in an error (a 2FA
\* password, for one).
AllFaults == {"disk", "db", "slow", "rpc", "revoke", "crash", "qr"}

ASSUME AccountsAssumption == NoAccount \notin Accounts
ASSUME EnvCredsAssumption == EnvCreds \in BOOLEAN
ASSUME LivesAssumption == Lives \in Nat \ {0}
ASSUME FaultsAssumption == Faults \subseteq AllFaults

VARIABLES
    faults,      \* what may still go wrong: Faults, or nothing any more
    up,          \* the process runs
    creds,       \* the keys of app_config whose values are valid
    file,        \* accounts that have a session file
    login,       \* those whose session file is of an authorised session
    runs,        \* the keys of Manager.runs
    runner,      \* where each runner goroutine is
    client,      \* the state of the client each runner started
    qrAcct,      \* the account the bot shows a QR for, or NoAccount
    scanned      \* that QR login has succeeded

stored == <<creds, file, login>>
vars == <<faults, up, stored, runs, runner, client, qrAcct, scanned>>

Keys == {"api_id", "api_hash"}
Slots == Accounts \X (1..Lives)

\* "creds", "hash": about to read api_id, api_hash; "waiting": for Ready or a minute;
\* "resolving": the target bot's name; "starting": listening, sending "/start";
\* "serving": the executor, the engine and the workers run; "leaving": the
\* deferred function, between cancel and the removal from runs.
RunnerPlaces == {"off", "creds", "hash", "waiting", "resolving", "starting",
                 "serving", "leaving"}

\* "ready": authorised, the ready channel closed; "failed": ended before that;
\* "lost": ended after it.
ClientStates == {"off", "connecting", "ready", "failed", "lost"}

\* What appCreds finds valid: the environment's credentials come first.
Known == IF EnvCreds THEN Keys ELSE creds
HasCreds == Known = Keys

Cancelled(s) == runner[s] \in {"off", "leaving"}
Free(s) == runner[s] = "off" /\ client[s] = "off"
SlotsOf(a) == {a} \X (1..Lives)
Serving(a) == \E s \in SlotsOf(a) : runner[s] = "serving" /\ client[s] = "ready"

Init ==
    /\ faults = Faults
    /\ up = FALSE
    /\ creds \in SUBSET Keys
    /\ file \in SUBSET Accounts
    /\ login \in SUBSET file
    /\ runs = {}
    /\ runner = [s \in Slots |-> "off"]
    /\ client = [s \in Slots |-> "off"]
    /\ qrAcct = NoAccount
    /\ scanned = FALSE
-----------------------------------------------------------------------------
(* StartAccount *)

\* Mutant of StartAccount: the entry in runs is not looked for.
StartAccountUnchecked(a) ==
    \E s \in SlotsOf(a) :
        /\ Free(s)
        /\ runs' = runs \cup {a}
        /\ runner' = [runner EXCEPT ![s] = "creds"]

\* Under the lock: nothing to do if the account has an entry; else enter it
\* and start its runner.
StartAccount(a) ==
    IF a \in runs
    THEN UNCHANGED <<runs, runner>>
    ELSE \E s \in SlotsOf(a) :
             /\ Free(s)
             /\ runs' = runs \cup {a}
             /\ runner' = [runner EXCEPT ![s] = "creds"]

\* Mutant of Boot: StartExisting is not called.
BootStartsNobody ==
    /\ ~up
    /\ up' = TRUE
    /\ UNCHANGED <<faults, stored, runs, runner, client, qrAcct, scanned>>

\* The process starts: StartExisting starts every account that has a file.  What
\* else lies in the directory is skipped.
Boot ==
    /\ ~up
    /\ up' = TRUE
    /\ runs' = file
    /\ runner' = [s \in Slots |->
                     IF s[1] \in file /\ s[2] = 1 THEN "creds" ELSE "off"]
    /\ UNCHANGED <<faults, stored, client, qrAcct, scanned>>

\* StartExisting cannot read the directory and returns; the process goes on.
BootFails ==
    /\ "disk" \in faults
    /\ ~up
    /\ up' = TRUE
    /\ UNCHANGED <<faults, stored, runs, runner, client, qrAcct, scanned>>

\* The process dies with all its goroutines.
Crash ==
    /\ "crash" \in faults
    /\ up
    /\ up' = FALSE
    /\ runs' = {}
    /\ runner' = [s \in Slots |-> "off"]
    /\ client' = [s \in Slots |-> "off"]
    /\ qrAcct' = NoAccount
    /\ scanned' = FALSE
    /\ UNCHANGED <<faults, stored>>
-----------------------------------------------------------------------------
(* What goes wrong stops going wrong *)

FaultsEnd ==
    /\ faults # {}
    /\ faults' = {}
    /\ UNCHANGED <<up, stored, runs, runner, client, qrAcct, scanned>>
-----------------------------------------------------------------------------
(* The bot, one update at a time *)

BotIdle == up /\ qrAcct = NoAccount

\* /set_api and /set_hash: store the value, then start the sender's account.  Any
\* integer is stored as an api_id, also one that appCreds rejects.  (A value that
\* is refused or cannot be stored is answered, and starts nothing.)
SetCredential(a, k) ==
    /\ BotIdle
    /\ \/ creds' = creds \cup {k}
       \/ k = "api_id" /\ creds' = creds \ {k}
    /\ StartAccount(a)
    /\ UNCHANGED <<faults, up, file, login, client, qrAcct, scanned>>

\* /qr: StartQRLogin.  The login client writes its session to the account's
\* file, the one a runner of the account uses, before anyone is logged in.
StartQRLogin(a) ==
    /\ BotIdle
    /\ HasCreds
    /\ qrAcct' = a
    /\ file' \in {file, file \cup {a}}
    /\ UNCHANGED <<faults, up, creds, login, runs, runner, client, scanned>>

\* Mutant of Scan: the session is not written to the account's file.
ScanWritesNoFile ==
    /\ qrAcct # NoAccount
    /\ ~scanned
    /\ scanned' = TRUE
    /\ login' = login \cup {qrAcct}
    /\ UNCHANGED <<faults, up, creds, file, runs, runner, client, qrAcct>>

\* The user scans the QR.
Scan ==
    /\ qrAcct # NoAccount
    /\ ~scanned
    /\ scanned' = TRUE
    /\ file' = file \cup {qrAcct}
    /\ login' = login \cup {qrAcct}
    /\ UNCHANGED <<faults, up, creds, runs, runner, client, qrAcct>>

\* "Successful login: start account"; then the channels close, sendQR returns
\* and the bot takes its next update.
QRLoginEnds ==
    /\ scanned
    /\ StartAccount(qrAcct)
    /\ qrAcct' = NoAccount
    /\ scanned' = FALSE
    /\ UNCHANGED <<faults, up, stored, client>>

QRLoginFails ==
    /\ "qr" \in faults
    /\ qrAcct # NoAccount
    /\ ~scanned
    /\ qrAcct' = NoAccount
    /\ UNCHANGED <<faults, up, stored, runs, runner, client, scanned>>
-----------------------------------------------------------------------------
(* runAccount *)

Goto(s, place) ==
    /\ runner' = [runner EXCEPT ![s] = place]
    /\ UNCHANGED <<faults, up, stored, runs, qrAcct, scanned>>

\* appCreds reads the two values one after the other.
ReadID(s) ==
    /\ runner[s] = "creds"
    /\ "api_id" \in Known
    /\ Goto(s, "hash")
    /\ UNCHANGED client

\* Mutant of ReadHash: the value is not looked at.
ReadHashUnchecked(s) ==
    /\ runner[s] = "hash"
    /\ client' = [client EXCEPT ![s] = "connecting"]
    /\ Goto(s, "waiting")

\* appCreds succeeds: the client is made and started.
ReadHash(s) ==
    /\ runner[s] = "hash"
    /\ "api_hash" \in Known
    /\ client' = [client EXCEPT ![s] = "connecting"]
    /\ Goto(s, "waiting")

CredsMissing(s) ==
    /\ \/ runner[s] = "creds" /\ "api_id" \notin Known
       \/ runner[s] = "hash" /\ "api_hash" \notin Known
       \/ runner[s] \in {"creds", "hash"} /\ ~EnvCreds /\ "db" \in faults
    /\ Goto(s, "leaving")
    /\ UNCHANGED client

\* The ready channel is closed, also if the client has ended since.
SeeReady(s) ==
    /\ runner[s] = "waiting"
    /\ client[s] \in {"ready", "lost"}
    /\ Goto(s, "resolving")
    /\ UNCHANGED client

\* Mutant of Timeout: the wait for the client has no limit.
TimeoutNever(s) == FALSE

\* The minute is over.  Nothing else ends the wait: not a failed client, not
\* the cancellation of the context.
Timeout(s) ==
    /\ runner[s] = "waiting"
    /\ "slow" \in faults \/ client[s] = "failed"
    /\ Goto(s, "leaving")
    /\ UNCHANGED client

Resolve(s) ==
    /\ runner[s] = "resolving"
    /\ client[s] = "ready"
    /\ Goto(s, "starting")
    /\ UNCHANGED client

ResolveFails(s) ==
    /\ runner[s] = "resolving"
    /\ client[s] = "lost" \/ "rpc" \in faults
    /\ Goto(s, "leaving")
    /\ UNCHANGED client

\* "/start" is sent, or its errors ignored; the account's goroutines start.
\* From here the runner waits for the cancellation alone.
Serve(s) ==
    /\ runner[s] = "starting"
    /\ Goto(s, "serving")
    /\ UNCHANGED client

\* The deferred function has cancelled the context (the runner is in
\* "leaving") and removes the entry.
Leave(s) ==
    /\ runner[s] = "leaving"
    /\ runs' = runs \ {s[1]}
    /\ runner' = [runner EXCEPT ![s] = "off"]
    /\ UNCHANGED <<faults, up, stored, client, qrAcct, scanned>>
-----------------------------------------------------------------------------
(* The client of a runner *)

BecomesClient(s, state) ==
    /\ client' = [client EXCEPT ![s] = state]
    /\ UNCHANGED <<faults, up, stored, runs, runner, qrAcct, scanned>>

\* Mutant of Authorised: the ready channel is not closed.
AuthorisedUnannounced(s) ==
    /\ client[s] = "connecting"
    /\ s[1] \in login
    /\ BecomesClient(s, "connecting")

\* authIfNeeded passes with an authorised session only: the client is made
\* without a phone number.
Authorised(s) ==
    /\ client[s] = "connecting"
    /\ s[1] \in login
    /\ BecomesClient(s, "ready")

AuthFails(s) ==
    /\ client[s] = "connecting"
    /\ s[1] \notin login \/ "rpc" \in faults
    /\ BecomesClient(s, "failed")

\* The client notices the cancellation, or its goroutine was over before it.
ClientStops(s) ==
    /\ Cancelled(s)
    /\ client[s] # "off"
    /\ BecomesClient(s, "off")

\* The session is revoked: the account's clients end with an error.
Revoke(a) ==
    /\ "revoke" \in faults
    /\ a \in login
    /\ login' = login \ {a}
    /\ client' = [s \in Slots |-> IF s[1] = a /\ client[s] = "ready"
                                  THEN "lost" ELSE client[s]]
    /\ UNCHANGED <<faults, up, creds, file, runs, runner, qrAcct, scanned>>
-----------------------------------------------------------------------------
Running(s) ==
    \/ ReadID(s) \/ ReadHash(s) \/ CredsMissing(s) \/ SeeReady(s)
    \/ Timeout(s) \/ Resolve(s) \/ ResolveFails(s) \/ Serve(s) \/ Leave(s)

Connecting(s) == Authorised(s) \/ AuthFails(s) \/ ClientStops(s)

User ==
    \/ \E a \in Accounts, k \in Keys : SetCredential(a, k)
    \/ \E a \in Accounts : StartQRLogin(a) \/ Revoke(a)
    \/ Scan

Next ==
    \/ Boot
    \/ BootFails
    \/ Crash
    \/ FaultsEnd
    \/ User
    \/ QRLoginEnds
    \/ QRLoginFails
    \/ \E s \in Slots : Running(s) \/ Connecting(s)

Spec == Init /\ [][Next]_vars

\* Goroutines run, timers fire, and somebody starts the process when it is
\* down.  Nothing is assumed of the user or of the faults.
Fairness ==
    /\ WF_vars(Boot)
    /\ WF_vars(QRLoginEnds)
    /\ \A s \in Slots : WF_vars(Running(s)) /\ WF_vars(Connecting(s))

FairSpec == Spec /\ Fairness
-----------------------------------------------------------------------------
\* The variables keep their types, and whoever is logged in has a file for
\* StartExisting to find.
TypeOK ==
    /\ faults \in {Faults, {}}
    /\ up \in BOOLEAN
    /\ creds \subseteq Keys
    /\ file \subseteq Accounts
    /\ login \subseteq file
    /\ runs \subseteq Accounts
    /\ runner \in [Slots -> RunnerPlaces]
    /\ client \in [Slots -> ClientStates]
    /\ qrAcct \in Accounts \cup {NoAccount}
    /\ scanned \in BOOLEAN

\* An account has a runner exactly when it has an entry in runs, and one: the
\* boot, the bot's commands and the end of a QR login, interleaved with the
\* runners' own returns, never start it twice and never leave an entry that
\* nobody will remove.
OneRunnerPerAccount ==
    \A a \in Accounts :
        Cardinality({s \in SlotsOf(a) : runner[s] # "off"}) =
            (IF a \in runs THEN 1 ELSE 0)

-----------------------------------------------------------------------------
(* Accounts implements AccountService *)

\* How far a start is: what appCreds found valid, and whether its end has begun.
PhaseOf(place) ==
    CASE place = "creds" -> "started"
      [] place = "hash" -> "identified"
      [] place \in {"waiting", "resolving", "starting"} -> "admitted"
      [] place = "serving" -> "served"
      [] place = "leaving" -> "ending"
      [] place = "off" -> "off"

\* An account is off without an entry in runs; with one, it is where its runner is.
RunnerOf(a) == CHOOSE s \in SlotsOf(a) : runner[s] # "off"
Phase(a) == IF a \notin runs THEN "off" ELSE PhaseOf(runner[RunnerOf(a)])

Service == INSTANCE AccountService WITH
    credentials <- Known,
    sessions    <- file,
    phase       <- [a \in Accounts |-> Phase(a)]

\* Every step of the manager, its runners, the clients and the bot is one of
\* AccountService, or none: nobody is started twice, served without a session or
\* without credentials that this start found valid, or let go while the process
\* runs, and a boot that can read the sessions starts whoever has one.
IsAccountService == Service!Spec

-----------------------------------------------------------------------------
(* Liveness *)

\* A runner does not stay between its start and its service: it serves or it
\* removes its entry, so that a later StartAccount is not in vain.
RunnerSettles ==
    \A s \in Slots :
        runner[s] \in {"creds", "hash", "waiting", "resolving", "starting", "leaving"}
            ~> runner[s] \in {"serving", "off"}

\* Once nothing goes wrong any more, an account that is started with a session
\* gets served, whatever the faults left behind (clients that are still ending,
\* entries of runners that wait in vain), unless somebody overwrites the
\* application's credentials with invalid ones.
StartedIsServed ==
    \A s \in Slots :
        faults = {} /\ runner[s] = "creds" /\ s[1] \in login
            ~> Serving(s[1]) \/ ~HasCreds

\* Whatever the process left on disk when it last went down, once nothing goes
\* wrong any more every account that was logged in is served, unless the
\* application's credentials are invalid or get so.
RestartServes ==
    \A a \in Accounts :
        faults = {} /\ ~up /\ a \in login ~> Serving(a) \/ ~HasCreds
-----------------------------------------------------------------------------
(* What the code's comments say *)

\* manager.go:158, "Successful login: start account": a successful QR login is
\* followed by the service of the account, also when it ends while a runner of
\* the account waits for a client that has failed.  (Where nothing goes wrong a
\* client fails only for want of an authorised session: one that is there by now
\* is the QR login's.)
LoginEndedMeanwhile(s) ==
    /\ Faults = {}
    /\ runner[s] = "waiting" /\ client[s] = "failed"
    /\ s[1] \in login /\ qrAcct # s[1]
LoginIsServed == \A s \in Slots : LoginEndedMeanwhile(s) ~> Serving(s[1])
=============================================================================
