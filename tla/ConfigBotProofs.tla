--------------------------- MODULE ConfigBotProofs ---------------------------
(***************************************************************************)
(* For any chats, any capacity of qrCh and any number of QR codes: what    *)
(* ConfigBot's invariants say.  The settings and the login share no        *)
(* variable but the bot's place, and are proved apart.                     *)
(***************************************************************************)
EXTENDS ConfigBot, ChannelLemmas, TLAPS

-----------------------------------------------------------------------------
(* The login *)

\* The channel, and what the bot and the goroutine know of it at each place.
ChannelType == qrCh \in Seq(Nat) /\ Len(qrCh) <= QRCap /\ tokens \in Nat
ParkedFindsNothing == place = "parked" => qrCh = <<>> /\ ~errCh /\ closed = {}
AgainHasRoom == login = "again" => Len(qrCh) < QRCap
NewestDelivered ==
    login = "waiting" =>
        IF qrCh = <<>> THEN seen = tokens ELSE qrCh[Len(qrCh)] = tokens
OwedByFailed == owed => place = "parked" /\ login = "failed"

LoginInv ==
    ChannelType /\ ParkedFindsNothing /\ AgainHasRoom /\ NewestDelivered /\ OwedByFailed

\* A send of the code in hand delivers it, when there is somewhere for it.
LEMMA TrySendDelivers ==
    ASSUME LoginInv, NEW otherwise \in {"full", "waiting"}, TrySend(otherwise),
           otherwise = "waiting" => Len(qrCh) < QRCap,
           login \in {"put", "again"}
    PROVE  LoginInv'
<1> USE CapAssumption DEF LoginInv, ChannelType, ParkedFindsNothing, AgainHasRoom,
                          NewestDelivered, OwedByFailed
<1>1. CASE place = "parked"
  BY <1>1 DEF TrySend
<1>2. CASE place # "parked" /\ Len(qrCh) < QRCap
  BY <1>2 DEF TrySend
<1>3. CASE place # "parked" /\ ~(Len(qrCh) < QRCap)
  BY <1>3 DEF TrySend
<1> QED
  BY <1>1, <1>2, <1>3

LEMMA InitLogin == Init => LoginInv
  BY CapAssumption DEF Init, LoginInv, ChannelType, ParkedFindsNothing, AgainHasRoom,
                       NewestDelivered, OwedByFailed

\* What a step of the settings leaves alone.
loginVars == <<place, login, tokens, channels, seen, owed>>

LEMMA StepLogin == LoginInv /\ [Next]_vars => LoginInv'
<1> SUFFICES ASSUME LoginInv, [Next]_vars
             PROVE  LoginInv'
  OBVIOUS
<1> USE CapAssumption DEF LoginInv, ChannelType, ParkedFindsNothing, AgainHasRoom,
                          NewestDelivered, OwedByFailed, channels
<1>1. CASE UNCHANGED loginVars
  BY <1>1 DEF loginVars
<1>2. ASSUME NEW c \in Chats, StartLogin(c)
      PROVE  LoginInv'
  BY <1>2 DEF StartLogin
<1>3. CASE TakeErr
  BY <1>3 DEF TakeErr
<1>4. CASE TakeQR
  <2>1. qrCh' \in Seq(Nat) /\ Len(qrCh') <= QRCap
    BY <1>4, ReceivingKeepsNewest DEF TakeQR
  <2>2. AgainHasRoom'
    BY <1>4, ReceivingKeepsNewest DEF TakeQR
  <2>3. NewestDelivered'
    BY <1>4, ReceivingKeepsNewest DEF TakeQR
  <2> QED
    BY <1>4, <2>1, <2>2, <2>3 DEF TakeQR
<1>5. CASE TakeEnd
  BY <1>5 DEF TakeEnd
<1>6. CASE Park
  BY <1>6 DEF Park
<1>7. CASE PhotoSent
  BY <1>7 DEF PhotoSent
<1>8. CASE NewToken
  BY <1>8 DEF NewToken
<1>9. CASE Put
  BY <1>9, TrySendDelivers DEF Put
<1>10. CASE DropOldest
  <2>1. CASE qrCh = <<>>
    BY <1>10, <2>1 DEF DropOldest
  <2>2. CASE qrCh # <<>>
    BY <1>10, <2>2, ReceivingKeepsNewest DEF DropOldest
  <2> QED
    BY <2>1, <2>2
<1>11. CASE PutAgain
  BY <1>11, TrySendDelivers DEF PutAgain
<1>12. CASE Succeeds
  BY <1>12 DEF Succeeds
<1>13. CASE Fails
  BY <1>13 DEF Fails
<1>14. CASE SendErr
  BY <1>14 DEF SendErr
<1>15. CASE CloseErr \/ CloseQR
  BY <1>15 DEF CloseErr, CloseQR, Close
<1>16. ASSUME NEW c \in Chats,
              \/ ShowMenu(c) \/ Other(c) \/ RunnerInserts(c)
              \/ \E f \in Fields : Toggle(c, f)
              \/ \E to \in BOOLEAN : SetCapture(c, to)
              \/ \E n \in Numbers :
                  \E column \in {"heal_percent", "min_potions"} :
                      SetNumber(c, column, n) \/ PressNumber(c, column, n)
       PROVE  UNCHANGED loginVars
  BY <1>16 DEF ShowMenu, Other, RunnerInserts, Toggle, SetCapture, SetNumber, PressNumber,
              Takes, loginVars
<1>17. UNCHANGED vars => UNCHANGED loginVars
  BY DEF vars, loginVars
<1> QED
  BY <1>1, <1>2, <1>3, <1>4, <1>5, <1>6, <1>7, <1>8, <1>9, <1>10, <1>11, <1>12, <1>13,
     <1>14, <1>15, <1>16, <1>17
     DEF Next, SendQR, Deliver, Finish

LEMMA LoginCorrect == Spec => []LoginInv
  BY InitLogin, StepLogin, PTL DEF Spec

\* A user the bot waits for has the newest QR code, for any capacity of qrCh: the
\* second attempt of a send that found it full always finds room.
THEOREM NewestIsShownCorrect == Spec => []NewestIsShown
<1>1. LoginInv => NewestIsShown
  BY DEF LoginInv, ParkedFindsNothing, NewestDelivered, NewestIsShown
<1> QED
  BY LoginCorrect, <1>1, PTL

\* A login that fails while the bot waits is told to the user.
THEOREM ErrorIsToldCorrect == Spec => []ErrorIsTold
<1>1. LoginInv => ErrorIsTold
  BY DEF LoginInv, OwedByFailed, ErrorIsTold
<1> QED
  BY LoginCorrect, <1>1, PTL
-----------------------------------------------------------------------------
(* The settings: tables and menus hold rows *)

TableInv == row \in Tables /\ menu \in Tables /\ unshown \in [Chats -> SUBSET DOMAIN Defaults]

LEMMA DefaultsAreARow == Defaults \in Rows /\ Defaults # NoRow
<1>1. Defaults \in Rows
  BY DEF Defaults, Rows
<1> QED
  BY <1>1, NoRowAssumption

\* What a call of the repository leaves, and returns, are rows.
LEMMA EnsureTyped ==
    ASSUME NEW c \in Chats, NEW f \in Tables, NEW rows \in EnsureUserAndConfig(f, c)
    PROVE  rows \in Tables
  BY DefaultsAreARow DEF EnsureUserAndConfig, Inserted, Tables

LEMMA GetTyped ==
    ASSUME NEW c \in Chats, NEW rows \in Tables, NEW got \in GetConfig(rows, c)
    PROVE  got[1] \in Tables /\ got[2] \in Rows \cup {NoRow}
<1> DEFINE new == Inserted(rows, c)
<1>1. new \in Tables
  BY DefaultsAreARow DEF Inserted, Tables
<1>2. new[c] \in Rows \cup {NoRow}
  BY <1>1 DEF Tables
<1> HIDE DEF new
<1>3. got \in {<<rows, NoRow>>, <<new, NoRow>>, <<new, new[c]>>}
  BY DEF GetConfig, new
<1> QED
  BY <1>1, <1>2, <1>3

\* A column and what may be written to it.
Fits(column, value) ==
    \/ column \in Switches /\ value \in BOOLEAN
    \/ column \in {"heal_percent", "min_potions"} /\ value \in Numbers

LEMMA ColumnWritten ==
    ASSUME NEW r \in Rows, NEW column, NEW value, Fits(column, value)
    PROVE  /\ [r EXCEPT ![column] = value] \in Rows
           /\ column \in DOMAIN Defaults
           /\ \A x \in DOMAIN Defaults \ {column} : [r EXCEPT ![column] = value][x] = r[x]
<1>1. CASE column \in Switches /\ value \in BOOLEAN
  BY <1>1 DEF Switches, Rows, Defaults
<1>2. CASE column \in {"heal_percent", "min_potions"} /\ value \in Numbers
  BY <1>2 DEF Rows, Defaults
<1> QED
  BY <1>1, <1>2 DEF Fits

LEMMA UpdateTyped ==
    ASSUME NEW c \in Chats, NEW rows \in Tables, NEW column, NEW value,
           Fits(column, value), NEW written \in Update(rows, c, column, value)
    PROVE  written \in Tables
  BY ColumnWritten DEF Update, Tables

LEMMA SendMenuTyped ==
    ASSUME TableInv, NEW c \in Chats, NEW rows \in Tables,
           NEW columns \in SUBSET DOMAIN Defaults, SendMenu(rows, c, columns)
    PROVE  TableInv'
<1> PICK got \in GetConfig(rows, c) :
        /\ row' = got[1]
        /\ \/ /\ got[2] # NoRow
              /\ menu' = [menu EXCEPT ![c] = got[2]]
              /\ unshown' = [unshown EXCEPT ![c] = {}]
           \/ /\ unshown' = [unshown EXCEPT ![c] = @ \cup columns]
              /\ UNCHANGED menu
  BY DEF SendMenu
<1>1. got[1] \in Tables /\ got[2] \in Rows \cup {NoRow}
  BY GetTyped
<1>2. menu' \in Tables
  BY <1>1 DEF TableInv, Tables
<1>3. unshown' \in [Chats -> SUBSET DOMAIN Defaults]
  BY DEF TableInv
<1> QED
  BY <1>1, <1>2, <1>3 DEF TableInv

LEMMA InitTables == Init => TableInv
  BY DefaultsAreARow DEF Init, TableInv, Tables
-----------------------------------------------------------------------------
(* The settings: menus are true *)

\* Rows that a command of c has come to: those of the others are untouched, and
\* c's own, if it has one, is so but for the columns the command tried to change.
Beside(rows, c, columns) ==
    /\ \A x \in Chats \ {c} : rows[x] = row[x]
    /\ row[c] # NoRow =>
        /\ rows[c] # NoRow
        /\ \A column \in DOMAIN Defaults \ columns : rows[c][column] = row[c][column]

SettingsInv == TableInv /\ MenuIsStored

LEMMA EnsureBeside ==
    ASSUME TableInv, NEW c \in Chats, NEW rows \in EnsureUserAndConfig(row, c)
    PROVE  Beside(rows, c, {})
  BY DEF TableInv, Tables, EnsureUserAndConfig, Inserted, Beside

\* Whatever GetConfig returns is stored then.
LEMMA GetBeside ==
    ASSUME NEW c \in Chats, NEW rows \in Tables, NEW columns, Beside(rows, c, columns),
           NEW got \in GetConfig(rows, c)
    PROVE  Beside(got[1], c, columns) /\ got[2] \in {NoRow, got[1][c]}
<1> DEFINE new == Inserted(rows, c)
<1>1. Beside(new, c, columns)
  BY DEF Inserted, Beside, Tables
<1> HIDE DEF new
<1>2. got \in {<<rows, NoRow>>, <<new, NoRow>>, <<new, new[c]>>}
  BY DEF GetConfig, new
<1> QED
  BY <1>1, <1>2

LEMMA UpdateBeside ==
    ASSUME NEW c \in Chats, NEW rows \in Tables, Beside(rows, c, {}),
           NEW column, NEW value, Fits(column, value),
           NEW written \in Update(rows, c, column, value)
    PROVE  Beside(written, c, {column})
<1>1. CASE written = rows
  BY <1>1 DEF Beside
<1>2. CASE written # rows
  <2>1. written = [rows EXCEPT ![c] =
                     IF @ = NoRow THEN NoRow ELSE [@ EXCEPT ![column] = value]]
    BY <1>2 DEF Update
  <2>2. \A x \in Chats \ {c} : written[x] = row[x]
    BY <2>1 DEF Beside, Tables
  <2>3. CASE row[c] # NoRow
    <3>1. rows[c] \in Rows /\ rows[c] # NoRow
      BY <2>3 DEF Beside, Tables
    <3>2. written[c] = [rows[c] EXCEPT ![column] = value]
      BY <2>1, <3>1 DEF Tables
    <3>3. written[c] \in Rows /\ written[c] # NoRow
      BY <3>1, <3>2, ColumnWritten, NoRowAssumption
    <3>4. \A x \in DOMAIN Defaults \ {column} : written[c][x] = rows[c][x]
      BY <3>1, <3>2, ColumnWritten
    <3> QED
      BY <2>2, <2>3, <3>3, <3>4 DEF Beside
  <2> QED
    BY <2>2, <2>3 DEF Beside
<1> QED
  BY <1>1, <1>2

\* A menu that is sent shows what is stored; one that is not leaves a menu that is
\* true but for what the command tried to change.
LEMMA SendMenuShows ==
    ASSUME SettingsInv, NEW c \in Chats, NEW rows \in Tables,
           NEW columns \in SUBSET DOMAIN Defaults, Beside(rows, c, columns),
           SendMenu(rows, c, columns)
    PROVE  SettingsInv'
<1> PICK got \in GetConfig(rows, c) :
        /\ row' = got[1]
        /\ \/ /\ got[2] # NoRow
              /\ menu' = [menu EXCEPT ![c] = got[2]]
              /\ unshown' = [unshown EXCEPT ![c] = {}]
           \/ /\ unshown' = [unshown EXCEPT ![c] = @ \cup columns]
              /\ UNCHANGED menu
  BY DEF SendMenu
<1>1. Beside(row', c, columns) /\ got[2] \in {NoRow, row'[c]}
  BY GetBeside
<1>2. TableInv'
  BY SendMenuTyped DEF SettingsInv
<1>3. MenuIsStored'
  <2>1. CASE got[2] # NoRow /\ menu' = [menu EXCEPT ![c] = got[2]]
                            /\ unshown' = [unshown EXCEPT ![c] = {}]
    BY <1>1, <2>1 DEF SettingsInv, TableInv, Tables, MenuIsStored, Beside
  <2>2. CASE unshown' = [unshown EXCEPT ![c] = @ \cup columns] /\ UNCHANGED menu
    BY <1>1, <2>2 DEF SettingsInv, TableInv, Tables, MenuIsStored, Beside
  <2> QED
    BY <2>1, <2>2
<1> QED
  BY <1>2, <1>3 DEF SettingsInv

\* A command that shows no menu and changes no setting.
LEMMA KeepingKeeps ==
    ASSUME SettingsInv, NEW c \in Chats, row' \in Tables, Beside(row', c, {}),
           UNCHANGED <<menu, unshown>>
    PROVE  SettingsInv'
  BY DEF SettingsInv, TableInv, MenuIsStored, Beside

LEMMA WriteShows ==
    ASSUME SettingsInv, NEW c \in Chats, NEW rows \in Tables, Beside(rows, c, {}),
           NEW column, NEW value, Fits(column, value), Write(rows, c, column, value)
    PROVE  SettingsInv'
<1> PICK written \in Update(rows, c, column, value) : SendMenu(written, c, {column})
  BY DEF Write
<1>1. written \in Tables /\ Beside(written, c, {column})
  BY UpdateTyped, UpdateBeside
<1>2. column \in DOMAIN Defaults
  BY DEF Fits, Switches, Defaults
<1> QED
  BY <1>1, <1>2, SendMenuShows

LEMMA InitSettings == Init => SettingsInv
  BY InitTables DEF Init, SettingsInv, MenuIsStored

LEMMA StepSettings == SettingsInv /\ [Next]_vars => SettingsInv'
<1> SUFFICES ASSUME SettingsInv, [Next]_vars
             PROVE  SettingsInv'
  OBVIOUS
<1>e. \A c \in Chats : \A rows \in EnsureUserAndConfig(row, c) :
          rows \in Tables /\ Beside(rows, c, {})
  BY EnsureTyped, EnsureBeside DEF SettingsInv, TableInv
<1>1. CASE UNCHANGED settings
  BY <1>1 DEF settings, SettingsInv, TableInv, MenuIsStored
<1>2. ASSUME NEW c \in Chats, ShowMenu(c)
      PROVE  SettingsInv'
  <2> PICK rows \in EnsureUserAndConfig(row, c) : SendMenu(rows, c, {})
    BY <1>2 DEF ShowMenu
  <2> QED
    BY <1>e, SendMenuShows
<1>3. ASSUME NEW c \in Chats, NEW f \in Fields, Toggle(c, f)
      PROVE  SettingsInv'
  <2> PICK rows \in EnsureUserAndConfig(row, c) : \E got \in GetConfig(rows, c) :
               IF got[2] = NoRow
               THEN row' = got[1] /\ UNCHANGED <<menu, unshown>>
               ELSE Write(got[1], c, f, ~got[2][f])
    BY <1>3 DEF Toggle
  <2> PICK got \in GetConfig(rows, c) :
               IF got[2] = NoRow
               THEN row' = got[1] /\ UNCHANGED <<menu, unshown>>
               ELSE Write(got[1], c, f, ~got[2][f])
    OBVIOUS
  <2>1. got[1] \in Tables /\ Beside(got[1], c, {})
    BY <1>e, GetTyped, GetBeside
  <2>2. CASE got[2] = NoRow
    BY <2>1, <2>2, KeepingKeeps
  <2>3. CASE got[2] # NoRow
    <3>1. (~got[2][f]) \in BOOLEAN
      OBVIOUS
    <3>2. Fits(f, ~got[2][f])
      BY <3>1, FieldsAssumption DEF Fits
    <3> QED
      BY <2>1, <2>3, <3>2, WriteShows
  <2> QED
    BY <2>2, <2>3
<1>4. ASSUME NEW c \in Chats, NEW to \in BOOLEAN, SetCapture(c, to)
      PROVE  SettingsInv'
  <2> PICK rows \in EnsureUserAndConfig(row, c) : Write(rows, c, "capture_enabled", to)
    BY <1>4 DEF SetCapture
  <2>1. Fits("capture_enabled", to)
    BY DEF Fits, Switches
  <2> QED
    BY <1>e, <2>1, WriteShows
<1>5. ASSUME NEW c \in Chats, NEW n \in Numbers,
             NEW column \in {"heal_percent", "min_potions"}, SetNumber(c, column, n)
      PROVE  SettingsInv'
  <2> PICK rows \in EnsureUserAndConfig(row, c) :
               IF Valid(column, n)
               THEN Write(rows, c, column, n)
               ELSE row' = rows /\ UNCHANGED <<menu, unshown>>
    BY <1>5 DEF SetNumber
  <2>1. Fits(column, n)
    BY DEF Fits
  <2>2. CASE Valid(column, n)
    BY <1>e, <2>1, <2>2, WriteShows
  <2>3. CASE ~Valid(column, n)
    BY <1>e, <2>3, KeepingKeeps
  <2> QED
    BY <2>2, <2>3
<1>6. ASSUME NEW c \in Chats, NEW n \in Numbers,
             NEW column \in {"heal_percent", "min_potions"}, PressNumber(c, column, n)
      PROVE  SettingsInv'
  <2> PICK rows \in EnsureUserAndConfig(row, c) : Write(rows, c, column, n)
    BY <1>6 DEF PressNumber
  <2>1. Fits(column, n)
    BY DEF Fits
  <2> QED
    BY <1>e, <2>1, WriteShows
<1>7. ASSUME NEW c \in Chats, Other(c) \/ StartLogin(c)
      PROVE  SettingsInv'
  BY <1>7, <1>e, KeepingKeeps DEF Other, StartLogin
<1>8. ASSUME NEW c \in Chats, RunnerInserts(c)
      PROVE  SettingsInv'
  <2>1. row' \in EnsureUserAndConfig(row, c) /\ UNCHANGED <<menu, unshown>>
    BY <1>8 DEF RunnerInserts, EnsureUserAndConfig
  <2> QED
    BY <2>1, <1>e, KeepingKeeps
<1>9. SendQR \/ NewToken \/ Deliver \/ Succeeds \/ Fails \/ Finish => UNCHANGED settings
  BY DEF SendQR, TakeErr, TakeQR, TakeEnd, Park, PhotoSent, NewToken, Deliver, Put, PutAgain,
         DropOldest, TrySend, Succeeds, Fails, Finish, SendErr, CloseErr, CloseQR, Close,
         settings
<1>10. UNCHANGED vars => UNCHANGED settings
  BY DEF vars, settings
<1> QED
  BY <1>1, <1>2, <1>3, <1>4, <1>5, <1>6, <1>7, <1>8, <1>9, <1>10 DEF Next

LEMMA SettingsCorrect == Spec => []SettingsInv
  BY InitSettings, StepSettings, PTL DEF Spec

\* For any chats and whichever calls and replies fail, the newest menu on a chat's
\* screen is true of every setting its commands have not tried to change since.
THEOREM MenuIsStoredCorrect == Spec => []MenuIsStored
<1>1. SettingsInv => MenuIsStored
  BY DEF SettingsInv
<1> QED
  BY SettingsCorrect, <1>1, PTL
-----------------------------------------------------------------------------
(* The types: what the two sides of a login know of its QR codes *)

\* A QR code is shown or waits only after it was made.
CodesMade == qrCh \in Seq(1..tokens)
LoginType ==
    /\ place \in {"idle", "select", "parked", "photo"}
    /\ login \in LoginPlaces
    /\ tokens \in 0..MaxTokens
    /\ errCh \in BOOLEAN /\ closed \subseteq {"err", "qr"}
    /\ seen \in 0..tokens
    /\ owed \in BOOLEAN

InHand == login \in {"put", "full", "again"} => tokens > 0

LoginTyped == LoginType /\ CodesMade /\ InHand

\* More codes: those in the channel are still among them.
LEMMA SeqWider == ASSUME NEW n \in Nat, NEW s \in Seq(1..n) PROVE s \in Seq(1..(n + 1))
<1>1. \A i \in 1..Len(s) : s[i] \in 1..(n + 1)
  OBVIOUS
<1> QED
  BY <1>1

LEMMA TrySendTyped ==
    ASSUME LoginTyped, NEW otherwise \in {"full", "waiting"}, TrySend(otherwise),
           login \in {"put", "again"}
    PROVE  LoginTyped'
<1> USE CapAssumption DEF LoginTyped, LoginType, CodesMade, InHand, LoginPlaces, Authing
<1>1. tokens \in 1..tokens /\ tokens' = tokens
  BY DEF TrySend
<1>2. CASE place = "parked"
  BY <1>1, <1>2 DEF TrySend
<1>3. CASE place # "parked" /\ Len(qrCh) < QRCap
  <2>1. Append(qrCh, tokens) \in Seq(1..tokens)
    BY <1>1
  <2> QED
    BY <1>1, <1>3, <2>1 DEF TrySend
<1>4. CASE place # "parked" /\ ~(Len(qrCh) < QRCap)
  BY <1>1, <1>4 DEF TrySend
<1> QED
  BY <1>2, <1>3, <1>4

LEMMA NoCodes == ASSUME NEW n PROVE <<>> \in Seq(1..n)
  BY EmptySeq

LEMMA InitTyped == Init => LoginTyped
<1> SUFFICES ASSUME Init PROVE LoginTyped
  OBVIOUS
<1>1. CodesMade
  <2>1. qrCh = <<>>
    BY DEF Init
  <2> QED
    BY <2>1, NoCodes DEF CodesMade
<1>2. tokens \in 0..MaxTokens /\ seen \in 0..tokens
  BY CapAssumption DEF Init
<1>3. place \in {"idle", "select", "parked", "photo"} /\ login \in LoginPlaces
  BY DEF Init, LoginPlaces
<1>4. errCh \in BOOLEAN /\ closed \subseteq {"err", "qr"} /\ owed \in BOOLEAN
  BY DEF Init
<1>5. InHand
  BY DEF Init, InHand
<1> QED
  BY <1>1, <1>2, <1>3, <1>4, <1>5 DEF LoginTyped, LoginType

LEMMA StepTyped == LoginTyped /\ [Next]_vars => LoginTyped'
<1> SUFFICES ASSUME LoginTyped, [Next]_vars
             PROVE  LoginTyped'
  OBVIOUS
<1> USE CapAssumption DEF LoginTyped, LoginType, CodesMade, InHand, LoginPlaces, Authing, channels
<1>1. CASE UNCHANGED loginVars
  BY <1>1 DEF loginVars
<1>2. ASSUME NEW c \in Chats, StartLogin(c)
      PROVE  LoginTyped'
  <2> HIDE DEF CodesMade
  <2>1. CodesMade'
    <3>1. qrCh' = <<>>
      BY <1>2 DEF StartLogin
    <3> QED
      BY <3>1, NoCodes DEF CodesMade
  <2>2. tokens' \in 0..MaxTokens /\ seen' \in 0..tokens'
    BY <1>2 DEF StartLogin
  <2>3. place' \in {"idle", "select", "parked", "photo"} /\ login' \in LoginPlaces
    BY <1>2 DEF StartLogin
  <2>4. errCh' \in BOOLEAN /\ closed' \subseteq {"err", "qr"} /\ owed' \in BOOLEAN
    BY <1>2 DEF StartLogin
  <2>5. InHand'
    BY <1>2 DEF StartLogin
  <2> QED
    BY <2>1, <2>2, <2>3, <2>4, <2>5
<1>3. CASE TakeErr
  BY <1>3 DEF TakeErr
<1>4. CASE TakeQR
  <2>1. Head(qrCh) \in 1..tokens /\ Tail(qrCh) \in Seq(1..tokens)
    BY <1>4, ReceivingKeepsNewest DEF TakeQR
  <2> QED
    BY <1>4, <2>1 DEF TakeQR
<1>5. CASE TakeEnd
  BY <1>5 DEF TakeEnd
<1>6. CASE Park
  BY <1>6 DEF Park
<1>7. CASE PhotoSent
  BY <1>7 DEF PhotoSent
<1>8. CASE NewToken
  <2>1. tokens' = tokens + 1 /\ tokens' \in 0..MaxTokens
    BY <1>8 DEF NewToken
  <2>2. qrCh' \in Seq(1..tokens')
    BY <1>8, <2>1, SeqWider DEF NewToken
  <2> QED
    BY <1>8, <2>1, <2>2 DEF NewToken
<1>9. CASE Put
  BY <1>9, TrySendTyped DEF Put
<1>10. CASE DropOldest
  <2>1. qrCh' \in Seq(1..tokens)
    BY <1>10, ReceivingKeepsNewest DEF DropOldest
  <2> QED
    BY <1>10, <2>1 DEF DropOldest
<1>11. CASE PutAgain
  BY <1>11, TrySendTyped DEF PutAgain
<1>12. CASE Succeeds
  BY <1>12 DEF Succeeds
<1>13. CASE Fails
  BY <1>13 DEF Fails
<1>14. CASE SendErr
  BY <1>14 DEF SendErr
<1>15. CASE CloseErr \/ CloseQR
  BY <1>15 DEF CloseErr, CloseQR, Close
<1>16. ASSUME NEW c \in Chats,
              \/ ShowMenu(c) \/ Other(c) \/ RunnerInserts(c)
              \/ \E f \in Fields : Toggle(c, f)
              \/ \E to \in BOOLEAN : SetCapture(c, to)
              \/ \E n \in Numbers :
                  \E column \in {"heal_percent", "min_potions"} :
                      SetNumber(c, column, n) \/ PressNumber(c, column, n)
       PROVE  UNCHANGED loginVars
  BY <1>16 DEF ShowMenu, Other, RunnerInserts, Toggle, SetCapture, SetNumber, PressNumber,
              Takes, loginVars
<1>17. UNCHANGED vars => UNCHANGED loginVars
  BY DEF vars, loginVars
<1> QED
  BY <1>1, <1>2, <1>3, <1>4, <1>5, <1>6, <1>7, <1>8, <1>9, <1>10, <1>11, <1>12, <1>13,
     <1>14, <1>15, <1>16, <1>17
     DEF Next, SendQR, Deliver, Finish

\* Whatever is pressed or written and whichever calls fail, a row has every column,
\* with a default or what users wrote in it; qrCh never holds more than its
\* capacity, nor a code that was not made.
THEOREM TypeCorrect == Spec => []TypeOK
<1>1. SettingsInv /\ LoginTyped /\ LoginInv => TypeOK
  BY DEF SettingsInv, TableInv, LoginTyped, LoginType, CodesMade, LoginInv, ChannelType, TypeOK
<1>2. Spec => []LoginTyped
  BY InitTyped, StepTyped, PTL DEF Spec
<1> QED
  BY <1>1, <1>2, SettingsCorrect, LoginCorrect, PTL
=============================================================================
