--------------------------- MODULE AccountService ---------------------------
(***************************************************************************)
(* What the account manager promises of each account, with no goroutine,   *)
(* client or session file in sight.                                        *)
(*                                                                         *)
(* An account is started only when it is off, so that nothing is ever      *)
(* started twice.  A start finds the application's id valid, then its      *)
(* hash, and may serve an account that has a session; before that it may   *)
(* give up, and is off again once its end is over.  Only the end of the    *)
(* process ends a service.  Sessions and credentials outlive the process;  *)
(* a boot starts every account that has a session, or, when it cannot read *)
(* which, nobody.                                                          *)
(*                                                                         *)
(* Accounts refines this module.                                           *)
(***************************************************************************)

CONSTANT Accounts

VARIABLES
    up,           \* the process runs
    credentials,  \* which of the application's credentials are valid
    sessions,     \* the accounts that have a session
    phase         \* of each account

vars == <<up, credentials, sessions, phase>>

Keys == {"api_id", "api_hash"}

Init ==
    /\ up = FALSE
    /\ credentials \in SUBSET Keys
    /\ sessions \in SUBSET Accounts
    /\ phase = [a \in Accounts |-> "off"]

To(a, p) == phase' = [phase EXCEPT ![a] = p]

\* Nothing to do for an account that is on its way, served or ending.
StartIfOff(a) == IF phase[a] = "off" THEN To(a, "started") ELSE UNCHANGED phase

Boot ==
    /\ ~up
    /\ up' = TRUE
    /\ \E who \in {sessions, {}} :
           phase' = [a \in Accounts |-> IF a \in who THEN "started" ELSE "off"]
    /\ UNCHANGED <<credentials, sessions>>

End ==
    /\ up
    /\ up' = FALSE
    /\ phase' = [a \in Accounts |-> "off"]
    /\ UNCHANGED <<credentials, sessions>>

\* A valid id may be replaced by one that is not; a hash stays.
Configure(a) ==
    /\ up
    /\ credentials' \in SUBSET Keys
    /\ "api_hash" \in credentials => "api_hash" \in credentials'
    /\ StartIfOff(a)
    /\ UNCHANGED <<up, sessions>>

LogIn(a) ==
    /\ up
    /\ credentials = Keys
    /\ sessions' = sessions \cup {a}
    /\ UNCHANGED <<up, credentials, phase>>

LoggedIn(a) ==
    /\ up
    /\ a \in sessions
    /\ StartIfOff(a)
    /\ UNCHANGED <<up, credentials, sessions>>

Goes(a, from, to) ==
    /\ up
    /\ phase[a] = from
    /\ To(a, to)
    /\ UNCHANGED <<up, credentials, sessions>>

Identify(a) == "api_id" \in credentials /\ Goes(a, "started", "identified")
Admit(a) == "api_hash" \in credentials /\ Goes(a, "identified", "admitted")
Serve(a) == a \in sessions /\ Goes(a, "admitted", "served")
GiveUp(a) == \E p \in {"started", "identified", "admitted"} : Goes(a, p, "ending")
LetGo(a) == Goes(a, "ending", "off")

Next ==
    \/ Boot \/ End
    \/ \E a \in Accounts :
           \/ Configure(a) \/ LogIn(a) \/ LoggedIn(a)
           \/ Identify(a) \/ Admit(a) \/ Serve(a) \/ GiveUp(a) \/ LetGo(a)

Spec == Init /\ [][Next]_vars
=============================================================================
