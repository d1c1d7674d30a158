----------------------------- MODULE ConfigBot -----------------------------
(***************************************************************************)
(* The configuration bot (internal/configbot) with the part of the         *)
(* repository it writes (internal/database/config_repo.go), and the QR     *)
(* login it waits for (StartQRLogin in internal/accounts/manager.go).      *)
(*                                                                         *)
(* The bot is one loop: an update is handled to its end before the next is *)
(* taken.  During a login that end is a select on the login's two          *)
(* channels, filled by the goroutine that runs the login; its steps are    *)
(* the places of "login".  Rules and captures are in Clicks, the           *)
(* credentials and the accounts' start in Accounts.                        *)
(*                                                                         *)
(* A channel's receiver is "parked" when it found nothing: what is sent    *)
(* then is handed to it at once, and so is the news that it was closed.    *)
(***************************************************************************)
EXTENDS Integers, Sequences, FiniteSets

CONSTANTS
    Chats,     \* chats that write to the bot, and accounts that have settings
    Allowed,   \* those that may: all, or the admin's
    Fields,    \* the switches that users press
    Numbers,   \* numbers that users write
    NoRow,
    QRCap,     \* capacity of qrCh (5 in the code)
    MaxTokens  \* bound: QR codes of one login

ASSUME ChatsAssumption == Allowed \subseteq Chats
ASSUME CapAssumption == QRCap \in Nat \ {0} /\ MaxTokens \in Nat

VARIABLES
    row,       \* configs, by account
    menu,      \* the newest menu each chat has on its screen, or NoRow
    unshown,   \* history: what each chat's commands have tried to change since
    place,     \* the bot: "idle", or in sendQR: "select", "parked", "photo"
    login,     \* the login's goroutine: "none", or a place below
    tokens,    \* QR codes it has made
    qrCh,      \* channel
    errCh,     \* channel: whether the error is in it
    closed,    \* the closed ones of the two
    seen,      \* history: the last QR code sent as a photo
    owed       \* history: the login failed while the bot was parked, and the
               \* user has not been told

settings == <<row, menu, unshown>>
channels == <<qrCh, errCh, closed>>
vars == <<settings, place, login, tokens, channels, seen, owed>>

Switches == {"auto_hunt", "auto_combat", "auto_heal", "auto_buy_potions",
             "auto_dungeon", "capture_enabled"}

ASSUME FieldsAssumption == Fields \subseteq Switches

\* The columns' defaults.
Defaults == [
    auto_hunt |-> TRUE, auto_combat |-> TRUE, auto_heal |-> TRUE, heal_percent |-> 40,
    auto_buy_potions |-> TRUE, min_potions |-> 5, auto_dungeon |-> FALSE,
    capture_enabled |-> FALSE]

\* What a row may hold.
Rows == [
    auto_hunt : BOOLEAN, auto_combat : BOOLEAN, auto_heal : BOOLEAN,
    heal_percent : Numbers \cup {Defaults.heal_percent},
    auto_buy_potions : BOOLEAN, min_potions : Numbers \cup {Defaults.min_potions},
    auto_dungeon : BOOLEAN, capture_enabled : BOOLEAN]

Tables == [Chats -> Rows \cup {NoRow}]

ASSUME NoRowAssumption == NoRow \notin Rows

\* The login's goroutine waits for the library, has a QR code to deliver, found
\* qrCh full, tries again; has failed; closes its channels; is over.
Authing == {"waiting", "put", "full", "again"}
LoginPlaces == {"none", "failed", "closeErr", "closeQR", "over"} \cup Authing

Init ==
    /\ row \in [Chats -> {NoRow, Defaults}]
    /\ menu = [c \in Chats |-> NoRow]
    /\ unshown = [c \in Chats |-> {}]
    /\ place = "idle"
    /\ login = "none"
    /\ tokens = 0
    /\ qrCh = <<>>
    /\ errCh = FALSE
    /\ closed = {}
    /\ seen = 0
    /\ owed = FALSE
-----------------------------------------------------------------------------
(* The repository: a call may fail, and then changes nothing *)

Inserted(rows, c) == [rows EXCEPT ![c] = IF @ = NoRow THEN Defaults ELSE @]

\* Mutant of EnsureUserAndConfig: the defaults replace what is there.
EnsureAnew(rows, c) == {rows, [rows EXCEPT ![c] = Defaults]}

\* ON CONFLICT DO NOTHING.
EnsureUserAndConfig(rows, c) == {rows, Inserted(rows, c)}

\* GetConfig: the rows after it and what it returns, NoRow for an error.
GetConfig(rows, c) ==
    {<<rows, NoRow>>, <<Inserted(rows, c), NoRow>>,
     <<Inserted(rows, c), Inserted(rows, c)[c]>>}

\* An UPDATE of one column in the row of one account, if it has one.
Update(rows, c, column, value) ==
    {rows, [rows EXCEPT ![c] =
                IF @ = NoRow THEN NoRow ELSE [@ EXCEPT ![column] = value]]}

\* sendMenu, the last thing a command does that has tried to change columns.
\* The old menu stays if GetConfig fails or if Send does, which goes unnoticed.
SendMenu(rows, c, columns) ==
    \E got \in GetConfig(rows, c) :
        /\ row' = got[1]
        /\ \/ /\ got[2] # NoRow
              /\ menu' = [menu EXCEPT ![c] = got[2]]
              /\ unshown' = [unshown EXCEPT ![c] = {}]
           \/ /\ unshown' = [unshown EXCEPT ![c] = @ \cup columns]
              /\ UNCHANGED menu

\* An UPDATE whose error is ignored, and the menu.
Write(rows, c, column, value) ==
    \E written \in Update(rows, c, column, value) : SendMenu(written, c, {column})
-----------------------------------------------------------------------------
(* The commands.  Only the bot changes a row that exists, so that a command  *)
(* is one step: the runners' insertions between its calls change nothing.    *)

Takes(c) ==
    /\ place = "idle"
    /\ c \in Allowed
    /\ UNCHANGED <<place, login, tokens, channels, seen, owed>>

\* Every command begins with EnsureConfig, whose failure goes unnoticed: /start
\* and /config ...
ShowMenu(c) ==
    /\ Takes(c)
    /\ \E rows \in EnsureUserAndConfig(row, c) : SendMenu(rows, c, {})

\* ... a switch of the menu, which inverts what is stored, not what is shown ...
Toggle(c, f) ==
    /\ Takes(c)
    /\ \E rows \in EnsureUserAndConfig(row, c) : \E got \in GetConfig(rows, c) :
           IF got[2] = NoRow
           THEN row' = got[1] /\ UNCHANGED <<menu, unshown>>
           ELSE Write(got[1], c, f, ~got[2][f])

\* ... /capture_on and /capture_off, which say they have succeeded either way ...
SetCapture(c, to) ==
    /\ Takes(c)
    /\ \E rows \in EnsureUserAndConfig(row, c) : Write(rows, c, "capture_enabled", to)

\* ... /set_heal and /set_min_potions, which refuse what is not valid (what is
\* not a number counts as 0) ...
Valid(column, n) == n \in IF column = "heal_percent" THEN 1..100 ELSE 0..999

SetNumber(c, column, n) ==
    /\ Takes(c)
    /\ \E rows \in EnsureUserAndConfig(row, c) :
           IF Valid(column, n)
           THEN Write(rows, c, column, n)
           ELSE row' = rows /\ UNCHANGED <<menu, unshown>>

\* ... the callbacks for the same two, "set:heal:N" and "set:min:N", which do not ...
PressNumber(c, column, n) ==
    /\ Takes(c)
    /\ \E rows \in EnsureUserAndConfig(row, c) : Write(rows, c, column, n)

\* ... and those that leave the settings alone: /last, /appconfig, /set_api,
\* /set_hash, the learn commands, and /qr when StartQRLogin has no credentials,
\* which the user is told.
Other(c) ==
    /\ Takes(c)
    /\ row' \in EnsureUserAndConfig(row, c)
    /\ UNCHANGED <<menu, unshown>>

\* An account's goroutine starts, or reads the settings for the first time.
RunnerInserts(c) ==
    /\ row[c] = NoRow
    /\ row' = Inserted(row, c)
    /\ UNCHANGED <<menu, unshown, place, login, tokens, channels, seen, owed>>
-----------------------------------------------------------------------------
(* sendQR: the bot's side of a login *)

\* StartQRLogin has the credentials, and the login's goroutine starts with new
\* channels; those of an earlier login are nobody's.
StartLogin(c) ==
    /\ place = "idle"
    /\ c \in Allowed
    /\ row' \in EnsureUserAndConfig(row, c)
    /\ place' = "select"
    /\ login' = "waiting"
    /\ tokens' = 0
    /\ qrCh' = <<>>
    /\ errCh' = FALSE
    /\ closed' = {}
    /\ seen' = 0
    /\ UNCHANGED <<menu, unshown, owed>>

\* The select: errCh has the error, or is closed.
TakeErr ==
    /\ place = "select"
    /\ errCh \/ "err" \in closed
    /\ place' = "idle"
    /\ errCh' = FALSE
    /\ owed' = IF errCh THEN FALSE ELSE owed
    /\ UNCHANGED <<settings, login, tokens, qrCh, closed, seen>>

\* The select: qrCh has a QR code, which is sent as a photo.
TakeQR ==
    /\ place = "select"
    /\ qrCh # <<>>
    /\ place' = "photo"
    /\ seen' = Head(qrCh)
    /\ qrCh' = Tail(qrCh)
    /\ UNCHANGED <<settings, login, tokens, errCh, closed, owed>>

\* The select: qrCh is closed and empty.
TakeEnd ==
    /\ place = "select"
    /\ qrCh = <<>>
    /\ "qr" \in closed
    /\ place' = "idle"
    /\ UNCHANGED <<settings, login, tokens, channels, seen, owed>>

\* The select finds nothing.
Park ==
    /\ place = "select"
    /\ qrCh = <<>>
    /\ ~errCh
    /\ closed = {}
    /\ place' = "parked"
    /\ UNCHANGED <<settings, login, tokens, channels, seen, owed>>

PhotoSent ==
    /\ place = "photo"
    /\ place' = "select"
    /\ UNCHANGED <<settings, login, tokens, channels, seen, owed>>

SendQR == TakeErr \/ TakeQR \/ TakeEnd \/ Park \/ PhotoSent
-----------------------------------------------------------------------------
(* The login's goroutine *)

\* The library has a new token (the last one has expired).
NewToken ==
    /\ login = "waiting"
    /\ tokens < MaxTokens
    /\ login' = "put"
    /\ tokens' = tokens + 1
    /\ UNCHANGED <<settings, place, channels, seen, owed>>

\* Mutant of TrySend: the channel takes one code more than its capacity.
TrySendOver(otherwise) ==
    /\ IF place = "parked"
       THEN place' = "photo" /\ seen' = tokens /\ login' = "waiting" /\ UNCHANGED qrCh
       ELSE /\ UNCHANGED <<place, seen>>
            /\ IF Len(qrCh) <= QRCap
               THEN qrCh' = Append(qrCh, tokens) /\ login' = "waiting"
               ELSE UNCHANGED qrCh /\ login' = otherwise
    /\ UNCHANGED <<settings, tokens, errCh, closed, owed>>

\* A send of the QR code on qrCh in a select with a default.
TrySend(otherwise) ==
    /\ IF place = "parked"
       THEN place' = "photo" /\ seen' = tokens /\ login' = "waiting" /\ UNCHANGED qrCh
       ELSE /\ UNCHANGED <<place, seen>>
            /\ IF Len(qrCh) < QRCap
               THEN qrCh' = Append(qrCh, tokens) /\ login' = "waiting"
               ELSE UNCHANGED qrCh /\ login' = otherwise
    /\ UNCHANGED <<settings, tokens, errCh, closed, owed>>

Put == login = "put" /\ TrySend("full")

\* Mutant of DropOldest: nothing is dropped.
DropNothing ==
    /\ login = "full"
    /\ login' = "again"
    /\ UNCHANGED <<settings, place, tokens, channels, seen, owed>>

\* The oldest QR code makes room, unless the bot has taken all meanwhile.
DropOldest ==
    /\ login = "full"
    /\ login' = "again"
    /\ qrCh' = IF qrCh = <<>> THEN qrCh ELSE Tail(qrCh)
    /\ UNCHANGED <<settings, place, tokens, errCh, closed, seen, owed>>

\* Mutant of PutAgain: there is no second attempt.
PutNever ==
    /\ login = "again"
    /\ login' = "waiting"
    /\ UNCHANGED <<settings, place, tokens, channels, seen, owed>>

PutAgain == login = "again" /\ TrySend("waiting")

\* Mutant of Succeeds: the goroutine becomes the account's.
SucceedsAndServes ==
    /\ login = "waiting"
    /\ login' = "none"
    /\ UNCHANGED <<settings, place, tokens, channels, seen, owed>>

\* The user has scanned a QR code; StartAccount (Accounts).
Succeeds ==
    /\ login = "waiting"
    /\ login' = "closeErr"
    /\ UNCHANGED <<settings, place, tokens, channels, seen, owed>>

\* Mutant of Fails: qrCh is closed before the error is sent.
FailsClosing ==
    /\ login = "waiting"
    /\ login' = "failed"
    /\ owed' = (place = "parked")
    /\ closed' = {"qr"}
    /\ place' = IF place = "parked" THEN "idle" ELSE place
    /\ UNCHANGED <<settings, tokens, qrCh, errCh, seen>>

\* The client's Run returns an error.
Fails ==
    /\ login = "waiting"
    /\ login' = "failed"
    /\ owed' = (place = "parked")
    /\ UNCHANGED <<settings, place, tokens, channels, seen>>

SendErr ==
    /\ login = "failed"
    /\ login' = "closeErr"
    /\ IF place = "parked"
       THEN place' = "idle" /\ owed' = FALSE /\ UNCHANGED errCh
       ELSE errCh' = TRUE /\ UNCHANGED <<place, owed>>
    /\ UNCHANGED <<settings, tokens, qrCh, closed, seen>>

\* The deferred calls, the last one first.  A bot that waits is woken.
Close(at, ch, next) ==
    /\ login = at
    /\ login' = next
    /\ closed' = closed \cup {ch}
    /\ place' = IF place = "parked" THEN "idle" ELSE place
    /\ UNCHANGED <<settings, tokens, qrCh, errCh, seen, owed>>
CloseErr == Close("closeErr", "err", "closeQR")
CloseQR == Close("closeQR", "qr", "over")

Deliver == Put \/ DropOldest \/ PutAgain
Finish == SendErr \/ CloseErr \/ CloseQR
-----------------------------------------------------------------------------
Next ==
    \/ \E c \in Chats :
        \/ ShowMenu(c) \/ Other(c) \/ RunnerInserts(c)
        \/ \E f \in Fields : Toggle(c, f)
        \/ \E to \in BOOLEAN : SetCapture(c, to)
        \/ \E n \in Numbers :
            \E column \in {"heal_percent", "min_potions"} :
                SetNumber(c, column, n) \/ PressNumber(c, column, n)
        \/ StartLogin(c)
    \/ SendQR
    \/ NewToken \/ Deliver
    \/ Succeeds \/ Fails
    \/ Finish

\* Goroutines run, and calls of the bot's API and of the database return.
\* Nothing is assumed of the user or of the login's end.
Fairness == WF_vars(SendQR) /\ WF_vars(Deliver) /\ WF_vars(Finish)

Spec == Init /\ [][Next]_vars /\ Fairness
-----------------------------------------------------------------------------
\* Rows have every column, with a default or what users wrote in it; qrCh holds
\* at most its capacity of codes, all of them made.
TypeOK ==
    /\ row \in Tables
    /\ menu \in Tables
    /\ unshown \in [Chats -> SUBSET DOMAIN Defaults]
    /\ place \in {"idle", "select", "parked", "photo"}
    /\ login \in LoginPlaces
    /\ tokens \in 0..MaxTokens
    /\ qrCh \in Seq(1..tokens) /\ Len(qrCh) <= QRCap
    /\ errCh \in BOOLEAN /\ closed \subseteq {"err", "qr"}
    /\ seen \in 0..tokens
    /\ owed \in BOOLEAN

\* The newest menu on a chat's screen is true of every setting that the chat's
\* commands have not tried to change since: whichever calls and replies failed, a
\* setting changes by a command of its own chat for it, and by nothing else.
MenuIsStored ==
    \A c \in Chats :
        menu[c] # NoRow =>
            /\ row[c] # NoRow
            /\ \A column \in DOMAIN Defaults \ unshown[c] : menu[c][column] = row[c][column]

\* "Send latest QR; drop older if queue is full": a user the bot waits for has
\* the newest QR code that was delivered before him, the only one that is valid.
NewestIsShown == place = "parked" /\ login = "waiting" => seen = tokens

\* A login that fails while the bot waits is told to the user: the error is
\* sent before either channel is closed.
ErrorIsTold == owed => place = "parked"

\* Each QR code, or a newer one, is shown, unless the login ends.
QRReachesUser ==
    \A t \in 1..MaxTokens : login \in Authing /\ tokens >= t ~> seen >= t \/ login \notin Authing

\* If no login goes on for ever, the bot is never stuck in one: it takes other
\* users' updates again.
Responsive == []<>(login \notin Authing) => []<>(place = "idle")
=============================================================================
