--------------------------- MODULE AccountsProofs ---------------------------
(***************************************************************************)
(* For any accounts, any number of lives and any faults: the invariants of *)
(* Accounts.  OneRunnerPerAccount counts; the induction is on what it      *)
(* counts, the entry of an account and the slots of its runners.           *)
(***************************************************************************)
EXTENDS Accounts, FiniteSetTheorems, TLAPS

\* A login that has succeeded is some account's.
ScannedIsLogin == scanned => qrAcct # NoAccount

\* Who has a runner has an entry, who has an entry has a runner, and one.
RunnersHaveEntry == \A s \in Slots : runner[s] # "off" => s[1] \in runs
EntriesHaveRunner == \A a \in runs : \E s \in SlotsOf(a) : runner[s] # "off"
Alone ==
    \A s, t \in Slots : runner[s] # "off" /\ runner[t] # "off" /\ s[1] = t[1] => s = t

\* The inductive invariant.
IInv == TypeOK /\ ScannedIsLogin /\ RunnersHaveEntry /\ EntriesHaveRunner /\ Alone

LEMMA SlotsOfAccount ==
    /\ \A a \in Accounts : SlotsOf(a) \subseteq Slots /\ \A s \in SlotsOf(a) : s[1] = a
    /\ \A s \in Slots : s[1] \in Accounts /\ s \in SlotsOf(s[1])
  BY DEF Slots, SlotsOf

-----------------------------------------------------------------------------
LEMMA InitInv == Init => IInv
  BY SlotsOfAccount DEF Init, IInv, TypeOK, RunnerPlaces, ClientStates, ScannedIsLogin,
                        RunnersHaveEntry, EntriesHaveRunner, Alone

\* StartAccount enters an account and starts its runner, or does neither.
LEMMA StartAccountKeeps ==
    ASSUME IInv, NEW a \in Accounts, StartAccount(a)
    PROVE  /\ runs' \subseteq Accounts /\ runner' \in [Slots -> RunnerPlaces]
           /\ RunnersHaveEntry' /\ EntriesHaveRunner' /\ Alone'
<1> USE DEF IInv, TypeOK, RunnersHaveEntry, EntriesHaveRunner, Alone
<1>1. CASE a \in runs
  BY <1>1 DEF StartAccount
<1>2. CASE a \notin runs
  <2> PICK s \in SlotsOf(a) : /\ Free(s)
                              /\ runs' = runs \cup {a}
                              /\ runner' = [runner EXCEPT ![s] = "creds"]
    BY <1>2 DEF StartAccount
  <2>1. s \in Slots /\ s[1] = a
    BY SlotsOfAccount
  <2>2. runs' \subseteq Accounts /\ runner' \in [Slots -> RunnerPlaces]
    BY <2>1 DEF RunnerPlaces
  <2>3. runner'[s] = "creds" /\ \A t \in Slots \ {s} : runner'[t] = runner[t]
    BY <2>1
  <2>4. RunnersHaveEntry'
    BY <2>1, <2>3
  <2>5. EntriesHaveRunner'
    BY <2>1, <2>3, SlotsOfAccount
  <2>6. Alone'
    BY <1>2, <2>1, <2>3
  <2> QED
    BY <2>2, <2>4, <2>5, <2>6
<1> QED
  BY <1>1, <1>2

\* A runner that goes from one place to another keeps its entry.
LEMMA GotoKeeps ==
    ASSUME IInv, NEW s \in Slots, NEW place \in RunnerPlaces \ {"off"},
           runner[s] # "off", Goto(s, place), client' \in [Slots -> ClientStates]
    PROVE  IInv'
<1> USE DEF IInv, TypeOK, Goto, stored
<1>1. TypeOK'
  OBVIOUS
<1>2. \A t \in Slots : runner'[t] # "off" <=> runner[t] # "off"
  OBVIOUS
<1>3. RunnersHaveEntry' /\ Alone'
  BY <1>2 DEF RunnersHaveEntry, Alone
<1>4. EntriesHaveRunner'
  BY <1>2, SlotsOfAccount DEF EntriesHaveRunner
<1>5. ScannedIsLogin'
  BY DEF ScannedIsLogin
<1> QED
  BY <1>1, <1>3, <1>4, <1>5

\* Nobody runs but whom StartExisting has started.
LEMMA BootKeeps == IInv /\ Boot => IInv'
<1> SUFFICES ASSUME IInv, Boot PROVE IInv'
  OBVIOUS
<1> USE DEF IInv, TypeOK, Boot, stored
<1>1. /\ runs' = file
      /\ \A s \in Slots : runner'[s] = IF s[1] \in file /\ s[2] = 1 THEN "creds" ELSE "off"
  OBVIOUS
<1>2. TypeOK'
  BY DEF RunnerPlaces
<1>3. RunnersHaveEntry'
  BY <1>1 DEF RunnersHaveEntry
<1>4. EntriesHaveRunner'
  <2> SUFFICES ASSUME NEW a \in file
               PROVE  \E s \in SlotsOf(a) : runner'[s] # "off"
    BY <1>1 DEF EntriesHaveRunner
  <2>1. <<a, 1>> \in SlotsOf(a)
    BY LivesAssumption DEF SlotsOf
  <2>2. <<a, 1>> \in Slots
    BY <2>1, SlotsOfAccount
  <2>3. runner'[<<a, 1>>] = "creds"
    BY <1>1, <2>2
  <2> QED
    BY <2>1, <2>3
<1>5. Alone'
  <2> SUFFICES ASSUME NEW s \in Slots, NEW t \in Slots,
                      runner'[s] # "off", runner'[t] # "off", s[1] = t[1]
               PROVE  s = t
    BY DEF Alone
  <2>1. s[2] = 1 /\ t[2] = 1
    BY <1>1
  <2> QED
    BY <2>1 DEF Slots
<1>6. ScannedIsLogin'
  BY DEF ScannedIsLogin
<1> QED
  BY <1>2, <1>3, <1>4, <1>5, <1>6

LEMMA LeaveKeeps ==
    ASSUME IInv, NEW s \in Slots, Leave(s)
    PROVE  IInv'
<1> USE DEF IInv, TypeOK, Leave, stored
<1>1. runner'[s] = "off" /\ \A t \in Slots \ {s} : runner'[t] = runner[t]
  OBVIOUS
<1>2. TypeOK'
  BY DEF RunnerPlaces
<1>3. RunnersHaveEntry'
  BY <1>1 DEF RunnersHaveEntry, Alone
<1>4. EntriesHaveRunner'
  BY <1>1, SlotsOfAccount DEF EntriesHaveRunner
<1>5. Alone' /\ ScannedIsLogin'
  BY <1>1 DEF Alone, ScannedIsLogin
<1> QED
  BY <1>2, <1>3, <1>4, <1>5

\* The steps that touch neither runs nor a runner.
LEMMA RunnersUntouched ==
    ASSUME IInv, UNCHANGED <<runs, runner>>, TypeOK', ScannedIsLogin'
    PROVE  IInv'
  BY DEF IInv, RunnersHaveEntry, EntriesHaveRunner, Alone

LEMMA StepInv == IInv /\ [Next]_vars => IInv'
<1> SUFFICES ASSUME IInv, [Next]_vars PROVE IInv'
  OBVIOUS
<1>t. TypeOK /\ ScannedIsLogin
  BY DEF IInv
<1>1. CASE Boot
  BY <1>1, BootKeeps
<1>b. CASE BootFails
  BY <1>b, <1>t, RunnersUntouched DEF BootFails, TypeOK, stored, ScannedIsLogin
<1>2. CASE Crash
  BY <1>2, SlotsOfAccount DEF Crash, IInv, TypeOK, stored, RunnerPlaces, ClientStates, ScannedIsLogin,
               RunnersHaveEntry, EntriesHaveRunner, Alone
<1>3. CASE FaultsEnd
  BY <1>3, <1>t, RunnersUntouched DEF FaultsEnd, TypeOK, stored, ScannedIsLogin
<1>4. ASSUME NEW a \in Accounts, NEW k \in Keys, SetCredential(a, k)
      PROVE  IInv'
  <2>1. TypeOK' /\ ScannedIsLogin'
    BY <1>4, <1>t, StartAccountKeeps DEF SetCredential, TypeOK, ScannedIsLogin
  <2> QED
    BY <1>4, <2>1, StartAccountKeeps DEF SetCredential, IInv
<1>5. ASSUME NEW a \in Accounts, StartQRLogin(a)
      PROVE  IInv'
  <2>1. TypeOK' /\ ScannedIsLogin'
    BY <1>5, <1>t, AccountsAssumption DEF StartQRLogin, TypeOK, ScannedIsLogin
  <2> QED
    BY <1>5, <2>1, RunnersUntouched DEF StartQRLogin
<1>6. ASSUME NEW a \in Accounts, Revoke(a)
      PROVE  IInv'
  <2>1. TypeOK' /\ ScannedIsLogin'
    BY <1>6, <1>t DEF Revoke, TypeOK, ScannedIsLogin, ClientStates
  <2> QED
    BY <1>6, <2>1, RunnersUntouched DEF Revoke
<1>7. CASE Scan
  <2>1. TypeOK' /\ ScannedIsLogin'
    BY <1>7, <1>t DEF Scan, TypeOK, ScannedIsLogin
  <2> QED
    BY <1>7, <2>1, RunnersUntouched DEF Scan
<1>8. CASE QRLoginEnds
  <2>1. qrAcct \in Accounts
    BY <1>8, <1>t DEF QRLoginEnds, TypeOK, ScannedIsLogin
  <2>2. TypeOK' /\ ScannedIsLogin'
    BY <1>8, <1>t, <2>1, StartAccountKeeps DEF QRLoginEnds, TypeOK, ScannedIsLogin, stored
  <2> QED
    BY <1>8, <2>1, <2>2, StartAccountKeeps DEF QRLoginEnds, IInv
<1>9. CASE QRLoginFails
  BY <1>9, <1>t, RunnersUntouched DEF QRLoginFails, TypeOK, stored, ScannedIsLogin
<1>10. ASSUME NEW s \in Slots, Running(s)
       PROVE  IInv'
  <2> USE <1>t DEF TypeOK
  <2>0. CASE ReadID(s)
    BY <2>0, GotoKeeps DEF ReadID, RunnerPlaces
  <2>1. CASE ReadHash(s)
    BY <2>1, GotoKeeps DEF ReadHash, RunnerPlaces, ClientStates
  <2>2. CASE CredsMissing(s)
    BY <2>2, GotoKeeps DEF CredsMissing, RunnerPlaces
  <2>3. CASE SeeReady(s)
    BY <2>3, GotoKeeps DEF SeeReady, RunnerPlaces
  <2>4. CASE Timeout(s)
    BY <2>4, GotoKeeps DEF Timeout, RunnerPlaces
  <2>5. CASE Resolve(s)
    BY <2>5, GotoKeeps DEF Resolve, RunnerPlaces
  <2>6. CASE ResolveFails(s)
    BY <2>6, GotoKeeps DEF ResolveFails, RunnerPlaces
  <2>7. CASE Serve(s)
    BY <2>7, GotoKeeps DEF Serve, RunnerPlaces
  <2>8. CASE Leave(s)
    BY <2>8, LeaveKeeps
  <2> QED
    BY <1>10, <2>0, <2>1, <2>2, <2>3, <2>4, <2>5, <2>6, <2>7, <2>8 DEF Running
<1>11. ASSUME NEW s \in Slots, Connecting(s)
       PROVE  IInv'
  <2>1. PICK state \in ClientStates : BecomesClient(s, state)
    BY <1>11 DEF Connecting, Authorised, AuthFails, ClientStops, ClientStates
  <2>2. TypeOK' /\ ScannedIsLogin'
    BY <2>1, <1>t DEF BecomesClient, TypeOK, ScannedIsLogin, stored
  <2> QED
    BY <2>1, <2>2, RunnersUntouched DEF BecomesClient
<1>12. CASE UNCHANGED vars
  BY <1>12, <1>t, RunnersUntouched DEF vars, stored, TypeOK, ScannedIsLogin
<1> QED
  BY <1>1, <1>b, <1>2, <1>3, <1>4, <1>5, <1>6, <1>7, <1>8, <1>9, <1>10, <1>11, <1>12
     DEF Next, User

LEMMA Inductive == Spec => []IInv
  BY InitInv, StepInv, PTL DEF Spec
-----------------------------------------------------------------------------
\* The variables keep their types: whatever crashes, fails or is revoked, who is
\* logged in has a session file that the next boot finds.
THEOREM TypeCorrect == Spec => []TypeOK
<1>1. IInv => TypeOK
  BY DEF IInv
<1> QED
  BY Inductive, <1>1, PTL

\* For any accounts and any number of lives, an account has one runner when it
\* has an entry in runs, and none when it has none.
THEOREM OneRunnerCorrect == Spec => []OneRunnerPerAccount
<1>1. ASSUME IInv, NEW a \in Accounts
      PROVE  Cardinality({s \in SlotsOf(a) : runner[s] # "off"}) =
                 (IF a \in runs THEN 1 ELSE 0)
  <2> DEFINE running == {s \in SlotsOf(a) : runner[s] # "off"}
  <2>1. CASE a \in runs
    <3>1. PICK s \in SlotsOf(a) : runner[s] # "off"
      BY <1>1, <2>1 DEF IInv, EntriesHaveRunner
    <3>2. running = {s}
      BY <1>1, <3>1, SlotsOfAccount DEF IInv, Alone
    <3> QED
      BY <2>1, <3>2, FS_Singleton
  <2>2. CASE a \notin runs
    <3>1. running = {}
      BY <1>1, <2>2, SlotsOfAccount DEF IInv, RunnersHaveEntry
    <3> QED
      BY <2>2, <3>1, FS_EmptySet
  <2> QED
    BY <2>1, <2>2
<1>2. IInv => OneRunnerPerAccount
  BY <1>1 DEF OneRunnerPerAccount
<1> QED
  BY Inductive, <1>2, PTL

-----------------------------------------------------------------------------
(* Accounts implements AccountService.  What that takes beside IInv: nobody *)
(* starts or logs in while the process is down, a login has credentials,    *)
(* and whoever is past the wait for its client has a session.               *)

DownIsIdle == ~up => runs = {} /\ qrAcct = NoAccount
LoginHasCreds == qrAcct # NoAccount => HasCreds
ScannedHasFile == scanned => qrAcct \in file
BotInv == DownIsIdle /\ LoginHasCreds /\ ScannedHasFile

ReadyHasFile(s) ==
    /\ runner[s] \in {"resolving", "starting", "serving"} => s[1] \in file
    /\ client[s] \in {"ready", "lost"} => s[1] \in file

NeedsInv == BotInv /\ \A s \in Slots : ReadyHasFile(s)

LEMMA NeedsInit == Init => NeedsInv
  BY DEF Init, NeedsInv, BotInv, DownIsIdle, LoginHasCreds, ScannedHasFile, ReadyHasFile

\* Session files stay, and the credentials do as long as a login occupies the bot.
LEMMA DiskKept ==
    ASSUME TypeOK, ScannedIsLogin, [Next]_vars
    PROVE  file \subseteq file' /\ (qrAcct # NoAccount => UNCHANGED creds)
<1> USE DEF TypeOK
<1>1. CASE Boot \/ BootFails \/ Crash \/ FaultsEnd \/ QRLoginEnds \/ QRLoginFails
           \/ UNCHANGED vars
  BY <1>1 DEF Boot, BootFails, Crash, FaultsEnd, QRLoginEnds, QRLoginFails, vars, stored
<1>2. CASE User
  BY <1>2 DEF User, SetCredential, BotIdle, StartQRLogin, Revoke, Scan, stored
<1>3. ASSUME NEW s \in Slots, Running(s)
      PROVE  UNCHANGED stored
  BY <1>3 DEF Running, ReadID, ReadHash, CredsMissing, SeeReady, Timeout, Resolve,
              ResolveFails, Serve, Leave, Goto
<1>4. ASSUME NEW s \in Slots, Connecting(s)
      PROVE  UNCHANGED stored
  BY <1>4 DEF Connecting, Authorised, AuthFails, ClientStops, BecomesClient
<1> QED
  BY <1>1, <1>2, <1>3, <1>4 DEF Next, stored

\* A runner that is started is before every check.
LEMMA StartAccountRunners ==
    ASSUME TypeOK, NEW a, StartAccount(a)
    PROVE  \A s \in Slots : runner'[s] \in {runner[s], "creds"}
  BY DEF StartAccount, TypeOK

LEMMA NeedsStep == IInv /\ NeedsInv /\ [Next]_vars => NeedsInv'
<1> SUFFICES ASSUME IInv, NeedsInv, [Next]_vars PROVE NeedsInv'
  OBVIOUS
<1>t. TypeOK /\ ScannedIsLogin /\ RunnersHaveEntry
  BY DEF IInv
<1>d. file \subseteq file' /\ (qrAcct # NoAccount => UNCHANGED creds)
  BY <1>t, DiskKept
<1>k. ASSUME NEW s \in Slots,
             runner'[s] \in {runner[s], "off", "creds", "hash", "waiting", "leaving"},
             \/ client'[s] \in {client[s], "off", "connecting", "failed"}
             \/ client[s] = "ready" /\ client'[s] = "lost"
      PROVE  ReadyHasFile(s)'
  BY <1>k, <1>d DEF NeedsInv, ReadyHasFile
<1>q. ASSUME up => up', UNCHANGED <<runs, qrAcct, scanned>> PROVE BotInv'
  BY <1>q, <1>d, <1>t
     DEF NeedsInv, BotInv, DownIsIdle, LoginHasCreds, HasCreds, Known, ScannedHasFile,
         ScannedIsLogin
<1>1. CASE Boot
  <2>1. BotInv'
    BY <1>1, <1>t, AccountsAssumption
       DEF Boot, NeedsInv, BotInv, DownIsIdle, LoginHasCreds, ScannedHasFile, ScannedIsLogin,
           HasCreds, Known, stored
  <2>2. \A s \in Slots : ReadyHasFile(s)'
    BY <1>1, <1>k DEF Boot
  <2> QED
    BY <2>1, <2>2 DEF NeedsInv
<1>2. CASE Crash
  <2>1. BotInv'
    BY <1>2 DEF Crash, BotInv, DownIsIdle, LoginHasCreds, ScannedHasFile
  <2>2. \A s \in Slots : ReadyHasFile(s)'
    BY <1>2, <1>k DEF Crash
  <2> QED
    BY <2>1, <2>2 DEF NeedsInv
<1>3. CASE BootFails \/ FaultsEnd \/ UNCHANGED vars
  <2>1. up => up'
    BY <1>3 DEF BootFails, FaultsEnd, vars
  <2>2. UNCHANGED <<runs, runner, client, qrAcct, scanned>>
    BY <1>3 DEF BootFails, FaultsEnd, vars
  <2>3. \A s \in Slots : ReadyHasFile(s)'
    BY <2>2, <1>k
  <2> QED
    BY <2>1, <2>2, <2>3, <1>q DEF NeedsInv
<1>4. ASSUME NEW a \in Accounts, NEW k \in Keys, SetCredential(a, k)
      PROVE  NeedsInv'
  <2>1. BotInv'
    BY <1>4, <1>d, <1>t
       DEF SetCredential, BotIdle, NeedsInv, BotInv, DownIsIdle, LoginHasCreds, ScannedHasFile
  <2>2. \A s \in Slots : ReadyHasFile(s)'
    BY <1>4, <1>t, <1>k, StartAccountRunners DEF SetCredential
  <2> QED
    BY <2>1, <2>2 DEF NeedsInv
<1>5. ASSUME NEW a \in Accounts, StartQRLogin(a)
      PROVE  NeedsInv'
  <2>1. BotInv'
    BY <1>5, <1>t
       DEF StartQRLogin, BotIdle, HasCreds, Known, NeedsInv, BotInv, DownIsIdle,
           LoginHasCreds, ScannedHasFile, ScannedIsLogin
  <2>2. \A s \in Slots : ReadyHasFile(s)'
    BY <1>5, <1>k DEF StartQRLogin
  <2> QED
    BY <2>1, <2>2 DEF NeedsInv
<1>6. ASSUME NEW a \in Accounts, Revoke(a)
      PROVE  NeedsInv'
  <2>1. \A s \in Slots : ReadyHasFile(s)'
    BY <1>6, <1>k DEF Revoke
  <2> QED
    BY <1>6, <2>1, <1>q DEF NeedsInv, Revoke
<1>7. CASE Scan
  <2>1. BotInv'
    BY <1>7 DEF Scan, HasCreds, Known, NeedsInv, BotInv, DownIsIdle, LoginHasCreds,
                ScannedHasFile
  <2>2. \A s \in Slots : ReadyHasFile(s)'
    BY <1>7, <1>k DEF Scan
  <2> QED
    BY <2>1, <2>2 DEF NeedsInv
<1>8. CASE QRLoginEnds
  <2>1. up
    BY <1>8, <1>t DEF QRLoginEnds, ScannedIsLogin, NeedsInv, BotInv, DownIsIdle
  <2>2. BotInv'
    BY <1>8, <2>1 DEF QRLoginEnds, BotInv, DownIsIdle, LoginHasCreds, ScannedHasFile
  <2>3. \A s \in Slots : ReadyHasFile(s)'
    BY <1>8, <1>t, <1>k, StartAccountRunners DEF QRLoginEnds
  <2> QED
    BY <2>2, <2>3 DEF NeedsInv
<1>9. CASE QRLoginFails
  <2>1. BotInv'
    BY <1>9 DEF QRLoginFails, NeedsInv, BotInv, DownIsIdle, LoginHasCreds, ScannedHasFile
  <2>2. \A s \in Slots : ReadyHasFile(s)'
    BY <1>9, <1>k DEF QRLoginFails
  <2> QED
    BY <2>1, <2>2 DEF NeedsInv
<1>10. ASSUME NEW s \in Slots, Running(s)
       PROVE  NeedsInv'
  <2>1. \A t \in Slots \ {s} : runner'[t] = runner[t] /\ client'[t] = client[t]
    BY <1>10, <1>t DEF Running, ReadID, ReadHash, CredsMissing, SeeReady, Timeout, Resolve,
              ResolveFails, Serve, Leave, Goto, TypeOK
  <2>2. ReadyHasFile(s)'
    <3> USE <1>t DEF TypeOK, Goto
    <3>1. CASE CredsMissing(s) \/ Timeout(s) \/ ResolveFails(s) \/ Leave(s)
      BY <3>1, <1>k DEF CredsMissing, Timeout, ResolveFails, Leave
    <3>2. CASE ReadID(s) \/ ReadHash(s)
      BY <3>2, <1>k DEF ReadID, ReadHash
    <3>3. CASE SeeReady(s) \/ Resolve(s) \/ Serve(s)
      BY <3>3, <1>d DEF SeeReady, Resolve, Serve, ReadyHasFile, NeedsInv
    <3> QED
      BY <1>10, <3>1, <3>2, <3>3 DEF Running
  <2>3. \A t \in Slots : ReadyHasFile(t)'
    BY <2>1, <2>2, <1>k
  <2>4. up
    BY <1>10, <1>t DEF Running, ReadID, ReadHash, CredsMissing, SeeReady, Timeout, Resolve,
              ResolveFails, Serve, Leave, RunnersHaveEntry, NeedsInv, BotInv, DownIsIdle
  <2>5. UNCHANGED <<up, creds, qrAcct, scanned>>
    BY <1>10 DEF Running, ReadID, ReadHash, CredsMissing, SeeReady, Timeout, Resolve,
              ResolveFails, Serve, Leave, Goto, stored
  <2>6. BotInv'
    BY <2>4, <2>5, <1>d
       DEF NeedsInv, BotInv, DownIsIdle, LoginHasCreds, HasCreds, Known, ScannedHasFile
  <2> QED
    BY <2>3, <2>6 DEF NeedsInv
<1>11. ASSUME NEW s \in Slots, Connecting(s)
       PROVE  NeedsInv'
  <2> USE <1>t DEF TypeOK, BecomesClient
  <2>1. /\ UNCHANGED <<up, stored, runs, runner, qrAcct, scanned>>
        /\ \A t \in Slots \ {s} : client'[t] = client[t]
    BY <1>11 DEF Connecting, Authorised, AuthFails, ClientStops
  <2>2. ReadyHasFile(s)'
    <3>1. CASE Authorised(s)
      BY <3>1, <2>1, <1>d DEF Authorised, ReadyHasFile, NeedsInv, stored
    <3>2. CASE AuthFails(s) \/ ClientStops(s)
      BY <3>2, <2>1, <1>k DEF AuthFails, ClientStops
    <3> QED
      BY <1>11, <3>1, <3>2 DEF Connecting
  <2>3. \A t \in Slots : ReadyHasFile(t)'
    BY <2>1, <2>2, <1>k
  <2> QED
    BY <2>1, <2>3, <1>q DEF NeedsInv
<1> QED
  BY <1>1, <1>2, <1>3, <1>4, <1>5, <1>6, <1>7, <1>8, <1>9, <1>10, <1>11 DEF Next, User

LEMMA NeedsInductive == Spec => [](IInv /\ NeedsInv)
  BY InitInv, StepInv, NeedsInit, NeedsStep, PTL DEF Spec
-----------------------------------------------------------------------------
\* What the steps do to the phases that AccountService sees.

\* An account's phase is the place of its runner, the only one it has.
LEMMA RunnerPhase ==
    ASSUME IInv, NEW s \in Slots, runner[s] # "off"
    PROVE  Phase(s[1]) = PhaseOf(runner[s])
<1>1. s[1] \in runs /\ s \in SlotsOf(s[1]) /\ \A t \in SlotsOf(s[1]) : t \in Slots /\ t[1] = s[1]
  BY SlotsOfAccount DEF IInv, RunnersHaveEntry
<1>2. RunnerOf(s[1]) = s
  BY <1>1 DEF IInv, Alone, RunnerOf
<1> QED
  BY <1>1, <1>2 DEF Phase

\* An account whose entry and runners stay keeps its phase.
LEMMA PhaseStays ==
    ASSUME IInv, NEW a \in Accounts, a \in runs' <=> a \in runs,
           \A s \in SlotsOf(a) : runner'[s] = runner[s]
    PROVE  Phase(a)' = Phase(a)
<1>1. CASE a \notin runs
  BY <1>1 DEF Phase
<1>2. CASE a \in runs
  <2>1. RunnerOf(a) \in SlotsOf(a)
    BY <1>2 DEF RunnerOf, IInv, EntriesHaveRunner
  <2>2. RunnerOf(a)' = RunnerOf(a)
    BY DEF RunnerOf
  <2> QED
    BY <1>2, <2>1, <2>2 DEF Phase
<1> QED
  BY <1>1, <1>2

\* One account's phase changes.
LEMMA OnePhase ==
    ASSUME NEW a \in Accounts, NEW p, Phase(a)' = p,
           \A b \in Accounts \ {a} : Phase(b)' = Phase(b)
    PROVE  Service!To(a, p)
<1> DEFINE phases == [b \in Accounts |-> Phase(b)]
<1>1. phases' = [b \in Accounts |-> Phase(b)']
  OBVIOUS
<1>2. [phases EXCEPT ![a] = p] = [b \in Accounts |-> IF b = a THEN p ELSE Phase(b)]
  OBVIOUS
<1>3. phases' = [phases EXCEPT ![a] = p]
  BY <1>1, <1>2
<1> QED
  BY <1>3 DEF Service!To

LEMMA OthersPhases ==
    ASSUME IInv, NEW a \in Accounts, NEW s \in SlotsOf(a),
           \A t \in Slots \ {s} : runner'[t] = runner[t],
           \A b \in Accounts \ {a} : b \in runs' <=> b \in runs
    PROVE  \A b \in Accounts \ {a} : Phase(b)' = Phase(b)
<1> SUFFICES ASSUME NEW b \in Accounts \ {a} PROVE Phase(b)' = Phase(b)
  OBVIOUS
<1>1. \A t \in SlotsOf(b) : t # s /\ t \in Slots
  BY SlotsOfAccount
<1> QED
  BY <1>1, PhaseStays

LEMMA StartAccountStarts ==
    ASSUME IInv, NEW a \in Accounts, StartAccount(a), IInv'
    PROVE  Service!StartIfOff(a)
<1> DEFINE phases == [b \in Accounts |-> Phase(b)]
<1> USE DEF IInv, TypeOK
<1>p. phases[a] = Phase(a)
  OBVIOUS
<1>1. CASE a \in runs
  <2>1. PICK s \in SlotsOf(a) : runner[s] # "off"
    BY <1>1 DEF EntriesHaveRunner
  <2>2. s \in Slots /\ s[1] = a
    BY SlotsOfAccount
  <2>3. Phase(a) = PhaseOf(runner[s])
    BY <2>1, <2>2, RunnerPhase
  <2>4. Phase(a) # "off"
    BY <2>1, <2>2, <2>3 DEF PhaseOf, RunnerPlaces
  <2>5. UNCHANGED phases
    BY <1>1 DEF StartAccount, Phase, RunnerOf
  <2> QED
    BY <2>4, <2>5, <1>p DEF Service!StartIfOff
<1>2. CASE a \notin runs
  <2> PICK s \in SlotsOf(a) : /\ Free(s)
                              /\ runs' = runs \cup {a}
                              /\ runner' = [runner EXCEPT ![s] = "creds"]
    BY <1>2 DEF StartAccount
  <2>1. /\ s \in Slots /\ s[1] = a /\ runner'[s] = "creds"
        /\ \A t \in Slots \ {s} : runner'[t] = runner[t]
    BY SlotsOfAccount
  <2>2. Phase(a) = "off"
    BY <1>2 DEF Phase
  <2>3. \A t \in SlotsOf(a) \ {s} : runner'[t] = "off"
    BY <1>2, <2>1, SlotsOfAccount DEF RunnersHaveEntry
  <2>4. RunnerOf(a)' = s
    BY <2>1, <2>3 DEF RunnerOf
  <2>5. Phase(a)' = "started"
    BY <2>1, <2>4 DEF Phase, PhaseOf
  <2>6. \A b \in Accounts \ {a} : Phase(b)' = Phase(b)
    BY <2>1, OthersPhases
  <2>7. Service!To(a, "started")
    BY <2>5, <2>6, OnePhase
  <2> QED
    BY <2>2, <2>7, <1>p DEF Service!StartIfOff
<1> QED
  BY <1>1, <1>2

-----------------------------------------------------------------------------
LEMMA RefinesInit == Init => Service!Init
  BY DEF Init, Service!Init, Service!Keys, Phase, Known, Keys

\* A runner's step from one place to another takes its account from one phase to
\* the other.
LEMMA GotoGoes ==
    ASSUME IInv, NEW s \in Slots, NEW place \in RunnerPlaces \ {"off"},
           runner[s] # "off", up, Goto(s, place)
    PROVE  Service!Goes(s[1], PhaseOf(runner[s]), PhaseOf(place))
<1> USE DEF IInv, TypeOK, Goto, stored
<1> DEFINE phases == [b \in Accounts |-> Phase(b)]
<1>1. s[1] \in Accounts /\ s \in SlotsOf(s[1]) /\ phases[s[1]] = Phase(s[1])
  BY SlotsOfAccount
<1>2. Phase(s[1]) = PhaseOf(runner[s])
  BY RunnerPhase
<1>3. /\ runner'[s] = place /\ runner'[s] # "off"
      /\ \A t \in Slots \ {s} : runner'[t] = runner[t]
  OBVIOUS
<1>4. s[1] \in runs /\ \A t \in SlotsOf(s[1]) \ {s} : runner[t] = "off"
  BY SlotsOfAccount DEF RunnersHaveEntry, Alone
<1>5. RunnerOf(s[1])' = s
  BY <1>1, <1>3, <1>4, SlotsOfAccount DEF RunnerOf
<1>6. Phase(s[1])' = PhaseOf(place)
  BY <1>3, <1>4, <1>5 DEF Phase
<1>7. \A b \in Accounts \ {s[1]} : Phase(b)' = Phase(b)
  BY <1>1, <1>3, OthersPhases
<1>8. Service!To(s[1], PhaseOf(place))
  BY <1>1, <1>6, <1>7, OnePhase
<1> QED
  BY <1>1, <1>2, <1>8 DEF Service!Goes, Known

LEMMA RefinesRunning ==
    ASSUME IInv, NeedsInv, NEW s \in Slots, Running(s)
    PROVE  [Service!Next]_(Service!vars)
<1> USE DEF RunnerPlaces, PhaseOf
<1>1. s[1] \in Accounts /\ s \in SlotsOf(s[1])
  BY SlotsOfAccount
<1>2. runner[s] # "off"
  BY DEF Running, ReadID, ReadHash, CredsMissing, SeeReady, Timeout, Resolve, ResolveFails,
         Serve, Leave
<1>3. up
  BY <1>2 DEF IInv, RunnersHaveEntry, NeedsInv, BotInv, DownIsIdle
<1>4. CASE ReadID(s)
  <2>1. Service!Goes(s[1], "started", "identified")
    BY <1>2, <1>3, <1>4, GotoGoes DEF ReadID
  <2> QED
    BY <1>1, <1>4, <2>1 DEF ReadID, Service!Identify, Service!Next
<1>5. CASE ReadHash(s)
  <2>1. Service!Goes(s[1], "identified", "admitted")
    BY <1>2, <1>3, <1>5, GotoGoes DEF ReadHash
  <2> QED
    BY <1>1, <1>5, <2>1 DEF ReadHash, Service!Admit, Service!Next
<1>6. CASE CredsMissing(s) \/ Timeout(s) \/ ResolveFails(s)
  <2>1. runner[s] \in {"creds", "hash", "waiting", "resolving"} /\ Goto(s, "leaving")
    BY <1>6 DEF CredsMissing, Timeout, ResolveFails
  <2>2. Service!Goes(s[1], PhaseOf(runner[s]), PhaseOf("leaving"))
    BY <1>2, <1>3, <2>1, GotoGoes
  <2>3. PhaseOf(runner[s]) \in {"started", "identified", "admitted"}
    BY <2>1
  <2>4. Service!GiveUp(s[1])
    BY <2>2, <2>3 DEF Service!GiveUp
  <2> QED
    BY <1>1, <2>4 DEF Service!Next
<1>7. CASE SeeReady(s) \/ Resolve(s)
  <2>1. /\ runner[s] \in {"waiting", "resolving"}
        /\ Goto(s, "resolving") \/ Goto(s, "starting")
    BY <1>7 DEF SeeReady, Resolve
  <2>2. Service!Goes(s[1], "admitted", "admitted")
    BY <1>2, <1>3, <2>1, GotoGoes
  <2>3. UNCHANGED Service!vars
    BY <1>1, <2>2 DEF Service!Goes, Service!To, Service!vars
  <2> QED
    BY <2>3
<1>8. CASE Serve(s)
  <2>1. Service!Goes(s[1], "admitted", "served")
    BY <1>2, <1>3, <1>8, GotoGoes DEF Serve
  <2>2. s[1] \in file
    BY <1>8 DEF Serve, NeedsInv, ReadyHasFile
  <2> QED
    BY <1>1, <2>1, <2>2 DEF Service!Serve, Service!Next
<1>9. CASE Leave(s)
  <2> DEFINE phases == [b \in Accounts |-> Phase(b)]
  <2>1. /\ runner[s] = "leaving"
        /\ \A t \in Slots \ {s} : runner'[t] = runner[t]
        /\ runs' = runs \ {s[1]}
        /\ UNCHANGED <<up, creds, file>>
    BY <1>9 DEF Leave, IInv, TypeOK, stored
  <2>2. Phase(s[1])' = "off"
    BY <2>1 DEF Phase
  <2>3. \A b \in Accounts \ {s[1]} : Phase(b)' = Phase(b)
    BY <1>1, <2>1, OthersPhases
  <2>4. Service!To(s[1], "off")
    BY <1>1, <2>2, <2>3, OnePhase
  <2>5. phases[s[1]] = "ending"
    BY <1>1, <1>2, <2>1, RunnerPhase
  <2>6. Service!LetGo(s[1])
    BY <1>3, <2>1, <2>4, <2>5 DEF Service!LetGo, Service!Goes, Known
  <2> QED
    BY <1>1, <2>6 DEF Service!Next
<1> QED
  BY <1>4, <1>5, <1>6, <1>7, <1>8, <1>9 DEF Running

LEMMA RefinesStep ==
    ASSUME IInv, IInv', NeedsInv, [Next]_vars
    PROVE  [Service!Next]_(Service!vars)
<1> USE DEF IInv, TypeOK, stored
<1> DEFINE phases == [b \in Accounts |-> Phase(b)]
<1>p. ASSUME UNCHANGED <<runs, runner>>
      PROVE  UNCHANGED phases
  BY <1>p DEF Phase, RunnerOf
<1>s. ASSUME UNCHANGED <<up, creds, file, runs, runner>>
      PROVE  UNCHANGED Service!vars
  BY <1>s, <1>p DEF Service!vars, Known
<1>1. CASE Boot
  <2>1. \A a \in Accounts : Phase(a)' = IF a \in file THEN "started" ELSE "off"
    <3> SUFFICES ASSUME NEW a \in Accounts, a \in file PROVE Phase(a)' = "started"
      BY <1>1 DEF Boot, Phase
    <3>1. <<a, 1>> \in SlotsOf(a) /\ \A s \in SlotsOf(a) : s \in Slots /\ s[1] = a
      BY LivesAssumption, SlotsOfAccount DEF SlotsOf
    <3>2. \A s \in SlotsOf(a) : runner'[s] \in {"creds", "off"}
      BY <1>1, <3>1 DEF Boot
    <3>3. runner'[<<a, 1>>] = "creds"
      BY <1>1, <3>1 DEF Boot
    <3>4. runner'[RunnerOf(a)'] = "creds"
      BY <3>1, <3>2, <3>3 DEF RunnerOf
    <3> QED
      BY <1>1, <3>4 DEF Boot, Phase, PhaseOf
  <2>2. phases' = [a \in Accounts |-> IF a \in file THEN "started" ELSE "off"]
    BY <2>1
  <2>3. Service!Boot
    BY <1>1, <2>2 DEF Boot, Service!Boot, Known
  <2> QED
    BY <2>3 DEF Service!Next
<1>b. CASE BootFails
  <2>1. \A a \in Accounts : Phase(a)' = "off"
    BY <1>b DEF BootFails, NeedsInv, BotInv, DownIsIdle, Phase
  <2>2. phases' = [a \in Accounts |-> IF a \in {} THEN "started" ELSE "off"]
    BY <2>1
  <2>3. Service!Boot
    BY <1>b, <2>2 DEF BootFails, Service!Boot, Known
  <2> QED
    BY <2>3 DEF Service!Next
<1>2. CASE Crash
  <2>1. \A a \in Accounts : Phase(a)' = "off"
    BY <1>2 DEF Crash, Phase
  <2>2. Service!End
    BY <1>2, <2>1 DEF Crash, Service!End, Known
  <2> QED
    BY <2>2 DEF Service!Next
<1>3. CASE FaultsEnd \/ QRLoginFails \/ UNCHANGED vars
  BY <1>3, <1>s DEF FaultsEnd, QRLoginFails, vars
<1>4. ASSUME NEW a \in Accounts, NEW k \in Keys, SetCredential(a, k)
      PROVE  Service!Next
  <2>1. Service!StartIfOff(a)
    BY <1>4, StartAccountStarts DEF SetCredential
  <2>2. Known' \in SUBSET Keys /\ ("api_hash" \in Known => "api_hash" \in Known')
    BY <1>4 DEF SetCredential, Known, Keys
  <2>3. Service!Configure(a)
    BY <1>4, <2>1, <2>2 DEF SetCredential, BotIdle, Service!Configure, Service!Keys, Keys
  <2> QED
    BY <2>3 DEF Service!Next
<1>5. ASSUME NEW a \in Accounts, StartQRLogin(a)
      PROVE  [Service!Next]_(Service!vars)
  <2>1. CASE file' = file
    BY <1>5, <1>s, <2>1 DEF StartQRLogin
  <2>2. CASE file' = file \cup {a}
    <3>1. UNCHANGED phases
      BY <1>5, <1>p DEF StartQRLogin
    <3>2. Service!LogIn(a)
      BY <1>5, <2>2, <3>1
         DEF StartQRLogin, BotIdle, HasCreds, Known, Service!LogIn, Service!Keys, Keys
    <3> QED
      BY <3>2 DEF Service!Next
  <2> QED
    BY <1>5, <2>1, <2>2 DEF StartQRLogin
<1>6. ASSUME NEW a \in Accounts, Revoke(a)
      PROVE  UNCHANGED Service!vars
  BY <1>6, <1>s DEF Revoke
<1>7. CASE Scan
  <2>1. qrAcct \in Accounts /\ up /\ HasCreds
    BY <1>7 DEF Scan, NeedsInv, BotInv, DownIsIdle, LoginHasCreds
  <2>2. UNCHANGED phases
    BY <1>7, <1>p DEF Scan
  <2>3. Service!LogIn(qrAcct)
    BY <1>7, <2>1, <2>2 DEF Scan, HasCreds, Known, Service!LogIn, Service!Keys, Keys
  <2> QED
    BY <2>1, <2>3 DEF Service!Next
<1>8. CASE QRLoginEnds
  <2>1. qrAcct \in Accounts /\ up /\ qrAcct \in file
    BY <1>8 DEF QRLoginEnds, ScannedIsLogin, NeedsInv, BotInv, DownIsIdle, ScannedHasFile
  <2>2. Service!StartIfOff(qrAcct)
    BY <1>8, <2>1, StartAccountStarts DEF QRLoginEnds
  <2>3. Service!LoggedIn(qrAcct)
    BY <1>8, <2>1, <2>2 DEF QRLoginEnds, Known, Service!LoggedIn
  <2> QED
    BY <2>1, <2>3 DEF Service!Next
<1>9. ASSUME NEW s \in Slots, Running(s)
      PROVE  [Service!Next]_(Service!vars)
  BY <1>9, RefinesRunning
<1>10. ASSUME NEW s \in Slots, Connecting(s)
       PROVE  UNCHANGED Service!vars
  BY <1>10, <1>s DEF Connecting, Authorised, AuthFails, ClientStops, BecomesClient
<1> QED
  BY <1>1, <1>b, <1>2, <1>3, <1>4, <1>5, <1>6, <1>7, <1>8, <1>9, <1>10 DEF Next, User

\* For any accounts, lives and faults, with or without credentials in the
\* environment, the manager with its runners, clients and session files is an
\* account service: nobody is started twice, served without a session or without
\* credentials that this start found valid, or let go while the process runs, and
\* a boot that can read the sessions starts whoever has one.
THEOREM AccountServiceImplemented == Spec => IsAccountService
  BY NeedsInductive, RefinesInit, RefinesStep, PTL
     DEF Spec, IsAccountService, Service!Spec
=============================================================================
