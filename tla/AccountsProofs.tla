--------------------------- MODULE AccountsProofs ---------------------------
(* Proofs about Accounts: the lock and the count behind it never disagree, *)
(* and a revoked session stays revoked, however requests overlap; no login *)
(* opens a locked account, and none a second session, when they do not.    *)
EXTENDS Accounts, HandlersProofs, FiniteSetTheorems

Counted(row) ==
  /\ row.locked <=> row.attempts = MaxAttempts
  /\ row.otpLocked => row.otpAttempts = MaxAttempts

TablesInv ==
  /\ accounts \in [Accounts -> Account]
  /\ \A a \in Accounts : Counted(accounts[a])
  /\ sessions = [s \in Sessions |-> sessions[s]]

(* What a failed attempt writes derives from the row it loaded, so the row *)
(* must be one of the table's type; one request at a time, an account that *)
(* let a login pass is still open when the login goes on; a request within *)
(* a session is a logout, an activation or nothing of interest.            *)
CallsInv ==
  /\ \A r \in Requests :
       running[r].step \in {"wrongPassword", "wrongCode"} /\ running[r].doc \in Accounts =>
         running[r].saw \in Account
  /\ ~overlap => \A r \in Requests :
       running[r].step \in {"wrongPassword", "welcome"} /\ running[r].doc \in Accounts =>
         ~accounts[running[r].doc].locked
  /\ \A r \in Requests :
       running[r].step = "touch" => running[r].saw \in {None, "logout", "activate"}

AccountsInv == HandlersInv /\ TablesInv /\ CallsInv

LEMMA CountStops ==
  ASSUME NEW n \in 0..MaxAttempts
  PROVE  /\ OneMore(n) \in 0..MaxAttempts
         /\ OneMore(n) >= MaxAttempts <=> OneMore(n) = MaxAttempts
BY AccountsAssumption DEF OneMore

LEMMA AttemptStored ==
  ASSUME NEW row \in Account, NEW n \in 0..MaxAttempts, NEW b \in BOOLEAN
  PROVE  /\ [row EXCEPT !.attempts = n, !.locked = b] \in Account
         /\ [row EXCEPT !.otpAttempts = n, !.otpLocked = b] \in Account
BY Zenon DEF Account

LEMMA FailureKeepsCount ==
  ASSUME NEW row \in Account, Counted(row), NEW n \in 0..MaxAttempts,
         NEW new, new = [row EXCEPT !.attempts = OneMore(n), !.locked = OneMore(n) >= MaxAttempts]
  PROVE  new \in Account /\ Counted(new)
<1>1. /\ OneMore(n) \in 0..MaxAttempts
      /\ OneMore(n) >= MaxAttempts <=> OneMore(n) = MaxAttempts
  BY CountStops
<1>2. new \in Account
  <2>1. (OneMore(n) >= MaxAttempts) \in BOOLEAN
    OBVIOUS
  <2> QED BY <1>1, <2>1, AttemptStored, Zenon
<1>3. /\ new.attempts = OneMore(n)
      /\ new.locked = (OneMore(n) >= MaxAttempts)
      /\ new.otpLocked = row.otpLocked
      /\ new.otpAttempts = row.otpAttempts
  BY Zenon DEF Account
<1> QED BY <1>1, <1>2, <1>3, Zenon DEF Counted

LEMMA WrongCodeKeepsCount ==
  ASSUME NEW row \in Account, Counted(row), NEW n \in 0..MaxAttempts,
         NEW new,
         new = [row EXCEPT !.otpAttempts = OneMore(n), !.otpLocked = OneMore(n) >= MaxAttempts]
  PROVE  new \in Account /\ Counted(new)
<1>1. /\ OneMore(n) \in 0..MaxAttempts
      /\ OneMore(n) >= MaxAttempts <=> OneMore(n) = MaxAttempts
  BY CountStops
<1>2. new \in Account
  <2>1. (OneMore(n) >= MaxAttempts) \in BOOLEAN
    OBVIOUS
  <2> QED BY <1>1, <2>1, AttemptStored, Zenon
<1>3. /\ new.attempts = row.attempts
      /\ new.locked = row.locked
      /\ new.otpLocked = (OneMore(n) >= MaxAttempts)
      /\ new.otpAttempts = OneMore(n)
  BY Zenon DEF Account
<1> QED BY <1>1, <1>2, <1>3, Zenon DEF Counted

LEMMA UnlockKeepsCount ==
  ASSUME NEW row \in Account, Counted(row)
  PROVE  Unlocked(row) \in Account /\ Counted(Unlocked(row))
<1>1. 0 \in 0..MaxAttempts /\ FALSE \in BOOLEAN /\ 0 # MaxAttempts
  BY AccountsAssumption
<1>2. Unlocked(row) \in Account
  BY <1>1, Zenon DEF Account, Unlocked
<1>3. /\ Unlocked(row).attempts = 0
      /\ Unlocked(row).locked = FALSE
      /\ Unlocked(row).otpLocked = row.otpLocked
      /\ Unlocked(row).otpAttempts = row.otpAttempts
  BY Zenon DEF Account, Unlocked
<1> QED BY <1>1, <1>2, <1>3, Zenon DEF Counted

(* The other columns may change as they like.                              *)
LEMMA OtherColumns ==
  ASSUME NEW row \in Account, Counted(row), NEW b \in BOOLEAN
  PROVE  /\ [row EXCEPT !.mustChange = b] \in Account
         /\ Counted([row EXCEPT !.mustChange = b])
         /\ [row EXCEPT !.active = b] \in Account
         /\ Counted([row EXCEPT !.active = b])
         /\ [row EXCEPT !.otpLocked = FALSE] \in Account
         /\ Counted([row EXCEPT !.otpLocked = FALSE])
         /\ [row EXCEPT !.otpAttempts = 0, !.otpLocked = FALSE] \in Account
         /\ Counted([row EXCEPT !.otpAttempts = 0, !.otpLocked = FALSE])
<1>1. [row EXCEPT !.mustChange = b] \in Account /\ Counted([row EXCEPT !.mustChange = b])
  BY Zenon DEF Account, Counted
<1>2. [row EXCEPT !.active = b] \in Account /\ Counted([row EXCEPT !.active = b])
  BY Zenon DEF Account, Counted
<1>3. [row EXCEPT !.otpLocked = FALSE] \in Account /\ Counted([row EXCEPT !.otpLocked = FALSE])
  BY Zenon DEF Account, Counted
<1>4. 0 \in 0..MaxAttempts /\ FALSE \in BOOLEAN
  BY AccountsAssumption
<1>5. /\ [row EXCEPT !.otpAttempts = 0, !.otpLocked = FALSE] \in Account
      /\ Counted([row EXCEPT !.otpAttempts = 0, !.otpLocked = FALSE])
  BY <1>4, Zenon DEF Account, Counted
<1> QED BY <1>1, <1>2, <1>3, <1>5

-----------------------------------------------------------------------------
(* A request that does not begin a login leaves nobody at the password.    *)
LEMMA CallsKept ==
  ASSUME AccountsInv, NEW r \in Requests, NEW call, Only(r, call),
         call.step \notin {"wrongPassword", "wrongCode", "welcome"},
         call.step = "touch" => call.saw \in {None, "logout", "activate"},
         running[r] # Idle \/ (~overlap => Quiet)
  PROVE  CallsInv'
<1>1. \A q \in Requests : running'[q].step \in {"wrongPassword", "wrongCode", "welcome"} =>
        q # r /\ running'[q] = running[q]
  BY DEF Only
<1>2. ~overlap => \A q \in Requests \ {r} : running[q].step = "idle"
  BY IdleStep DEF AccountsInv, HandlersInv, OneAtATime, Quiet
<1> QED BY <1>1, <1>2 DEF AccountsInv, CallsInv, Only

LEMMA CallsKeptAtOnce ==
  ASSUME AccountsInv, NEW r \in Requests, AtOnce(r)
  PROVE  HandlersInv' /\ CallsInv'
<1>1. /\ HandlersInv'
      /\ \A q \in Requests : running'[q] = running[q]
      /\ overlap' = overlap
      /\ overlap \/ Quiet
  BY StaysPut DEF AtOnce, AccountsInv
<1> QED BY <1>1, IdleStep DEF AccountsInv, CallsInv, Quiet

(* Steps that leave the accounts alone and go on, or end.                  *)
LEMMA GoesOn ==
  ASSUME AccountsInv, NEW r \in Requests, running[r] # Idle,
         \/ Finish(r)
         \/ \E step, saw :
              Goto(r, step, saw) /\ step \notin {"wrongPassword", "wrongCode", "welcome", "touch"}
  PROVE  HandlersInv' /\ CallsInv'
<1>1. CASE Finish(r)
  BY <1>1, Finishes, CallsKept, IdleStep DEF AccountsInv
<1>2. ASSUME NEW step, NEW saw, Goto(r, step, saw),
             step \notin {"wrongPassword", "wrongCode", "welcome", "touch"}
      PROVE  HandlersInv' /\ CallsInv'
  <2> DEFINE call == Call(step, running[r].doc, running[r].by, saw)
  <2>1. HandlersInv' /\ Only(r, call)
    BY <1>2, Goes DEF AccountsInv
  <2>2. call.step = step /\ call.saw = saw
    BY DEF Call
  <2> HIDE DEF call
  <2> QED BY <2>1, <2>2, <1>2, CallsKept
<1> QED BY <1>1, <1>2

LEMMA StartsOther ==
  ASSUME AccountsInv, NEW r \in Requests, NEW step, NEW doc, NEW by, NEW saw,
         Begin(r, step, doc, by, saw),
         step \notin {"wrongPassword", "wrongCode", "welcome"},
         step = "touch" => saw \in {None, "logout", "activate"}
  PROVE  HandlersInv' /\ CallsInv'
<1> DEFINE call == Call(step, doc, by, saw)
<1>1. HandlersInv' /\ Only(r, call) /\ (~overlap => Quiet)
  BY Begins DEF AccountsInv
<1>2. call.step = step /\ call.saw = saw
  BY DEF Call
<1> HIDE DEF call
<1> QED BY <1>1, <1>2, CallsKept

-----------------------------------------------------------------------------
LEMMA RowWritten ==
  ASSUME TablesInv, NEW a, NEW row,
         accounts' = [accounts EXCEPT ![a] = row],
         a \in Accounts => row \in Account /\ Counted(row),
         sessions' = [s \in Sessions |-> sessions'[s]]
  PROVE  TablesInv'
<1>1. accounts' \in [Accounts -> Account]
  BY DEF TablesInv
<1>2. \A b \in Accounts : accounts'[b] = IF b = a THEN row ELSE accounts[b]
  BY DEF TablesInv
<1>3. ASSUME NEW b \in Accounts PROVE Counted(accounts[b])'
  <2>1. Counted(accounts[b]) /\ (b = a => Counted(row))
    BY DEF TablesInv
  <2>2. \A x : (x = row \/ x = accounts[b]) => (x = accounts'[b] => Counted(x)' = Counted(x))
    BY DEF Counted
  <2> QED BY <1>2, <2>1 DEF Counted
<1> QED BY <1>1, <1>3 DEF TablesInv

LEMMA AccountsUntouched ==
  ASSUME TablesInv, accounts' = accounts, sessions' = [s \in Sessions |-> sessions'[s]]
  PROVE  TablesInv'
BY DEF TablesInv, Counted

(* Every write of sessions names one row, or is an updateMany.             *)
LEMMA SessionsWritten ==
  ASSUME TablesInv, NEW s, NEW row, NEW chosen, NEW status,
         \/ sessions' = sessions
         \/ sessions' = [sessions EXCEPT ![s] = row]
         \/ sessions' = SetStatus(chosen, status)
  PROVE  sessions' = [t \in Sessions |-> sessions'[t]]
BY DEF TablesInv, SetStatus

-----------------------------------------------------------------------------
LEMMA FreshRow ==
  ASSUME NEW b \in BOOLEAN, NEW row,
         row = [active |-> TRUE, mustChange |-> b, attempts |-> 0, locked |-> FALSE,
                otpAttempts |-> 0, otpLocked |-> FALSE]
  PROVE  row \in Account /\ Counted(row)
<1>1. 0 \in 0..MaxAttempts /\ 0 # MaxAttempts
  BY AccountsAssumption
<1>2. row \in Account
  BY <1>1 DEF Account
<1>3. row.locked = FALSE /\ row.attempts = 0 /\ row.otpLocked = FALSE
  OBVIOUS
<1> QED BY <1>1, <1>2, <1>3 DEF Counted

LEMMA Initially == AuthInit => AccountsInv
<1> SUFFICES ASSUME AccountsInit, HandlersInit PROVE AccountsInv
  BY DEF AuthInit
<1>1. HandlersInv /\ \A r \in Requests : running[r] = Idle
  BY InitiallyIdle
<1>2. CallsInv
  BY <1>1, IdleStep DEF CallsInv
<1>3. ASSUME NEW a \in Accounts PROVE accounts[a] \in Account /\ Counted(accounts[a])
  <2>1. PICK b \in BOOLEAN :
          accounts[a] = [active |-> TRUE, mustChange |-> b, attempts |-> 0, locked |-> FALSE,
                         otpAttempts |-> 0, otpLocked |-> FALSE]
    BY DEF AccountsInit
  <2> QED BY <2>1, FreshRow
<1>4. TablesInv
  BY <1>3 DEF AccountsInit, TablesInv
<1> QED BY <1>1, <1>2, <1>4 DEF AccountsInv

(* login and the steps after it.                                           *)
LEMMA LoginKeeps ==
  ASSUME AccountsInv, NEW r \in Requests, LoginStep(r)
  PROVE  AccountsInv'
<1>1. ASSUME NEW a \in Accounts, NEW correct \in BOOLEAN, Login(r, a, correct)
      PROVE  AccountsInv'
  <2> DEFINE step == IF correct THEN "welcome" ELSE "wrongPassword"
             call == Call(step, a, a, accounts[a])
  <2>1. HandlersInv' /\ Only(r, call) /\ (~overlap => Quiet)
    BY <1>1, Begins DEF Login, AccountsInv
  <2>2. accounts' = accounts /\ sessions' = sessions /\ ~accounts[a].locked
    BY <1>1 DEF Login, authTables, MayTry
  <2>3. call.saw = accounts[a] /\ call.doc = a /\ call.step \in {"welcome", "wrongPassword"}
    BY DEF Call
  <2> HIDE DEF call
  <2>4. TablesInv'
    BY <2>2, AccountsUntouched, SessionsWritten DEF AccountsInv
  <2>5. accounts[a] \in Account
    BY DEF AccountsInv, TablesInv
  <2>6. \A q \in Requests : ~overlap => running[q].step = "idle"
    BY <2>1, IdleStep DEF Quiet
  <2>7. \A q \in Requests \ {r} : running'[q] = running[q]
    BY <2>1 DEF Only
  <2>8. running'[r] = call /\ overlap' = overlap
    BY <2>1 DEF Only
  <2>9. CallsInv'
    BY <2>2, <2>3, <2>5, <2>6, <2>7, <2>8 DEF AccountsInv, CallsInv
  <2> QED BY <2>1, <2>4, <2>9 DEF AccountsInv
<1>2. CASE WriteFailure(r)
  <2> DEFINE n == OneMore(Saw(r).attempts)
             row == [accounts[Me(r)] EXCEPT !.attempts = n, !.locked = n >= MaxAttempts]
  <2>1. running[r] # Idle /\ HandlersInv' /\ CallsInv'
    BY <1>2, Busy, GoesOn DEF WriteFailure
  <2>2. Me(r) \in Accounts => Saw(r) \in Account
    BY <1>2 DEF WriteFailure, At, Saw, Me, Me, AccountsInv, CallsInv
  <2>3. Me(r) \in Accounts => Saw(r).attempts \in 0..MaxAttempts
    BY <2>2 DEF Account
  <2>4. Me(r) \in Accounts => row \in Account /\ Counted(row)
    BY <2>3, FailureKeepsCount DEF AccountsInv, TablesInv
  <2>5. accounts' = [accounts EXCEPT ![Me(r)] = row] /\ sessions' = sessions
    BY <1>2 DEF WriteFailure
  <2> HIDE DEF row
  <2>6. TablesInv'
    BY <2>4, <2>5, RowWritten, SessionsWritten DEF AccountsInv
  <2> QED BY <2>1, <2>6 DEF AccountsInv
<1>3. CASE Welcome(r)
  <2> DEFINE row == Unlocked(accounts[Me(r)])
  <2>1. running[r] # Idle /\ HandlersInv' /\ CallsInv'
    BY <1>3, Busy, GoesOn DEF Welcome
  <2>2. Me(r) \in Accounts => row \in Account /\ Counted(row)
    BY UnlockKeepsCount DEF AccountsInv, TablesInv
  <2>3. /\ accounts' = [accounts EXCEPT ![Me(r)] = row] \/ accounts' = accounts
        /\ sessions' = sessions
    BY <1>3 DEF Welcome
  <2> HIDE DEF row
  <2>4. TablesInv'
    BY <2>2, <2>3, RowWritten, AccountsUntouched, SessionsWritten DEF AccountsInv
  <2> QED BY <2>1, <2>4 DEF AccountsInv
<1>4. CASE WrongCode(r)
  <2> DEFINE n == OneMore(Saw(r).otpAttempts)
             row == [accounts[Me(r)] EXCEPT !.otpAttempts = n, !.otpLocked = n >= MaxAttempts]
  <2>1. running[r] # Idle /\ HandlersInv' /\ CallsInv'
    BY <1>4, Busy, GoesOn DEF WrongCode
  <2>2. Me(r) \in Accounts => Saw(r) \in Account
    BY <1>4 DEF WrongCode, At, Saw, Me, Me, AccountsInv, CallsInv
  <2>3. Me(r) \in Accounts => Saw(r).otpAttempts \in 0..MaxAttempts
    BY <2>2 DEF Account
  <2>4. Me(r) \in Accounts => row \in Account /\ Counted(row)
    BY <2>3, WrongCodeKeepsCount DEF AccountsInv, TablesInv
  <2>5. accounts' = [accounts EXCEPT ![Me(r)] = row] /\ sessions' = sessions
    BY <1>4 DEF WrongCode
  <2> HIDE DEF row
  <2>6. TablesInv'
    BY <2>4, <2>5, RowWritten, SessionsWritten DEF AccountsInv
  <2> QED BY <2>1, <2>6 DEF AccountsInv
<1>5. CASE ClearOtp(r)
  <2> DEFINE row == [accounts[Me(r)] EXCEPT !.otpAttempts = 0, !.otpLocked = FALSE]
  <2>1. running[r] # Idle /\ HandlersInv' /\ CallsInv'
    BY <1>5, Busy, GoesOn DEF ClearOtp
  <2>2. Me(r) \in Accounts => row \in Account /\ Counted(row)
    BY OtherColumns DEF AccountsInv, TablesInv
  <2>3. accounts' = [accounts EXCEPT ![Me(r)] = row] /\ sessions' = sessions
    BY <1>5 DEF ClearOtp
  <2> HIDE DEF row
  <2>4. TablesInv'
    BY <2>2, <2>3, RowWritten, SessionsWritten DEF AccountsInv
  <2> QED BY <2>1, <2>4 DEF AccountsInv
<1>6. ASSUME NEW c \in Challenges, NEW correct \in BOOLEAN, Verify(r, c, correct)
      PROVE  AccountsInv'
  <2> DEFINE a == challenges[c].owner
             step == IF correct THEN "consume" ELSE "wrongCode"
             call == Call(step, a, c, accounts[a])
  <2>1. HandlersInv' /\ Only(r, call) /\ (~overlap => Quiet)
    BY <1>6, Begins DEF Verify, AccountsInv
  <2>2. accounts' = accounts /\ sessions' = sessions
    BY <1>6 DEF Verify, authTables
  <2>3. call.saw = accounts[a] /\ call.doc = a /\ call.step \in {"consume", "wrongCode"}
    BY DEF Call
  <2> HIDE DEF call
  <2>4. TablesInv'
    BY <2>2, AccountsUntouched, SessionsWritten DEF AccountsInv
  <2>5. a \in Accounts => accounts[a] \in Account
    BY DEF AccountsInv, TablesInv
  <2>6. \A q \in Requests : ~overlap => running[q].step = "idle"
    BY <2>1, IdleStep DEF Quiet
  <2>7. \A q \in Requests \ {r} : running'[q] = running[q]
    BY <2>1 DEF Only
  <2>8. running'[r] = call /\ overlap' = overlap
    BY <2>1 DEF Only
  <2> HIDE DEF a
  <2>9. CallsInv'
    BY <2>2, <2>3, <2>5, <2>6, <2>7, <2>8 DEF AccountsInv, CallsInv
  <2> QED BY <2>1, <2>4, <2>9 DEF AccountsInv
<1>7. CASE RevokeStale(r)
  <2>1. running[r] # Idle /\ HandlersInv' /\ CallsInv'
    BY <1>7, Busy, GoesOn DEF RevokeStale
  <2>2. TablesInv'
    BY <1>7, AccountsUntouched, SessionsWritten DEF RevokeStale, AccountsInv
  <2> QED BY <2>1, <2>2 DEF AccountsInv
<1>8. CASE CheckActive(r)
  <2>1. running[r] # Idle /\ HandlersInv' /\ CallsInv'
    BY <1>8, Busy, GoesOn DEF CheckActive
  <2>2. TablesInv'
    BY <1>8, AccountsUntouched, SessionsWritten DEF CheckActive, authTables, AccountsInv
  <2> QED BY <2>1, <2>2 DEF AccountsInv
<1>9. CASE OpenSession(r)
  <2>1. running[r] # Idle /\ HandlersInv' /\ CallsInv'
    BY <1>9, Busy, GoesOn DEF OpenSession
  <2>2. TablesInv'
    BY <1>9, AccountsUntouched, SessionsWritten DEF OpenSession, AccountsInv
  <2> QED BY <2>1, <2>2 DEF AccountsInv
<1>10. CASE SendChallenge(r)
  <2>1. running[r] # Idle /\ HandlersInv' /\ CallsInv'
    BY <1>10, Busy, GoesOn DEF SendChallenge
  <2>2. TablesInv'
    BY <1>10, AccountsUntouched, SessionsWritten DEF SendChallenge, AccountsInv
  <2> QED BY <2>1, <2>2 DEF AccountsInv
<1>11. CASE Consume(r)
  <2>1. running[r] # Idle /\ HandlersInv' /\ CallsInv'
    BY <1>11, Busy, GoesOn DEF Consume
  <2>2. TablesInv'
    BY <1>11, AccountsUntouched, SessionsWritten DEF Consume, AccountsInv
  <2> QED BY <2>1, <2>2 DEF AccountsInv
<1> QED
  BY <1>1, <1>2, <1>3, <1>4, <1>5, <1>6, <1>7, <1>8, <1>9, <1>10, <1>11 DEF LoginStep

-----------------------------------------------------------------------------
(* New passwords, unlocking and (de)activation.                            *)
LEMMA PasswordKeeps ==
  ASSUME AccountsInv, NEW r \in Requests, PasswordStep(r)
  PROVE  AccountsInv'
<1>1. ASSUME NEW a \in Accounts, RequestReset(r, a)
      PROVE  AccountsInv'
  <2>1. HandlersInv' /\ CallsInv'
    BY <1>1, CallsKeptAtOnce DEF RequestReset
  <2>2. TablesInv'
    BY <1>1, AccountsUntouched, SessionsWritten DEF RequestReset, AccountsInv
  <2> QED BY <2>1, <2>2 DEF AccountsInv
<1>2. ASSUME NEW a \in Accounts, ForceChange(r, a)
      PROVE  AccountsInv'
  <2>1. HandlersInv' /\ CallsInv'
    BY <1>2, StartsOther DEF ForceChange
  <2>2. TablesInv'
    BY <1>2, AccountsUntouched, SessionsWritten DEF ForceChange, authTables, AccountsInv
  <2> QED BY <2>1, <2>2 DEF AccountsInv
<1>3. ASSUME NEW a \in Accounts, Unlock(r, a)
      PROVE  AccountsInv'
  <2> DEFINE row == Unlocked(accounts[a])
  <2>1. HandlersInv' /\ CallsInv'
    BY <1>3, CallsKeptAtOnce DEF Unlock
  <2>2. row \in Account /\ Counted(row)
    BY UnlockKeepsCount DEF AccountsInv, TablesInv
  <2>3. accounts' = [accounts EXCEPT ![a] = row] /\ sessions' = sessions
    BY <1>3 DEF Unlock
  <2> HIDE DEF row
  <2>4. TablesInv'
    BY <2>2, <2>3, RowWritten, SessionsWritten DEF AccountsInv
  <2> QED BY <2>1, <2>4 DEF AccountsInv
<1>4. ASSUME NEW a \in Accounts, NEW active \in BOOLEAN, SetActive(r, a, active)
      PROVE  AccountsInv'
  <2> DEFINE row == [accounts[a] EXCEPT !.active = active]
  <2>1. HandlersInv' /\ CallsInv'
    BY <1>4, CallsKeptAtOnce DEF SetActive
  <2>2. row \in Account /\ Counted(row)
    BY OtherColumns DEF AccountsInv, TablesInv
  <2>3. accounts' = [accounts EXCEPT ![a] = row] /\ sessions' = sessions
    BY <1>4, Zenon DEF SetActive
  <2> HIDE DEF row
  <2>4. TablesInv'
    BY <2>2, <2>3, RowWritten, SessionsWritten DEF AccountsInv
  <2> QED BY <2>1, <2>4 DEF AccountsInv
<1>5. ASSUME NEW t \in Tokens, ResetPassword(r, t)
      PROVE  AccountsInv'
  <2>1. HandlersInv' /\ CallsInv'
    BY <1>5, StartsOther DEF ResetPassword
  <2>2. TablesInv'
    BY <1>5, AccountsUntouched, SessionsWritten DEF ResetPassword, authTables, AccountsInv
  <2> QED BY <2>1, <2>2 DEF AccountsInv
<1>6. CASE ConsumeToken(r)
  <2>1. running[r] # Idle /\ HandlersInv' /\ CallsInv'
    BY <1>6, Busy, GoesOn DEF ConsumeToken
  <2>2. TablesInv'
    BY <1>6, AccountsUntouched, SessionsWritten DEF ConsumeToken, AccountsInv
  <2> QED BY <2>1, <2>2 DEF AccountsInv
<1>7. CASE WritePassword(r)
  <2> DEFINE open == Unlocked(accounts[Me(r)])
             row == [open EXCEPT !.mustChange = FALSE]
  <2>1. running[r] # Idle /\ HandlersInv' /\ CallsInv'
    BY <1>7, Busy, GoesOn DEF WritePassword
  <2>2. Me(r) \in Accounts => open \in Account /\ Counted(open)
    BY UnlockKeepsCount DEF AccountsInv, TablesInv
  <2>3. accounts' = [accounts EXCEPT ![Me(r)] = row] /\ sessions' = sessions
    BY <1>7 DEF WritePassword, WithNewPassword
  <2> HIDE DEF open
  <2>4. Me(r) \in Accounts => row \in Account /\ Counted(row)
    BY <2>2, OtherColumns
  <2> HIDE DEF row
  <2>5. TablesInv'
    BY <2>3, <2>4, RowWritten, SessionsWritten DEF AccountsInv
  <2> QED BY <2>1, <2>5 DEF AccountsInv
<1>8. CASE RevokeAll(r)
  <2>1. running[r] # Idle /\ HandlersInv' /\ CallsInv'
    BY <1>8, Busy, GoesOn DEF RevokeAll
  <2>2. TablesInv'
    BY <1>8, AccountsUntouched, SessionsWritten DEF RevokeAll, AccountsInv
  <2> QED BY <2>1, <2>2 DEF AccountsInv
<1> QED
  BY <1>1, <1>2, <1>3, <1>4, <1>5, <1>6, <1>7, <1>8 DEF PasswordStep

(* Requests within a session.                                              *)
LEMMA SessionKeeps ==
  ASSUME AccountsInv, NEW r \in Requests, SessionStep(r)
  PROVE  AccountsInv'
<1>1. ASSUME NEW s \in Sessions, NEW next \in {None, "logout", "activate"}, Guard(r, s, next)
      PROVE  AccountsInv'
  <2>1. HandlersInv' /\ CallsInv'
    BY <1>1, StartsOther DEF Guard
  <2>2. TablesInv'
    BY <1>1, AccountsUntouched, SessionsWritten DEF Guard, authTables, AccountsInv
  <2> QED BY <2>1, <2>2 DEF AccountsInv
<1>2. ASSUME NEW s \in Sessions, Refresh(r, s)
      PROVE  AccountsInv'
  <2>1. HandlersInv' /\ CallsInv'
    BY <1>2, StartsOther DEF Refresh
  <2>2. TablesInv'
    BY <1>2, AccountsUntouched, SessionsWritten DEF Refresh, authTables, AccountsInv
  <2> QED BY <2>1, <2>2 DEF AccountsInv
<1>3. ASSUME NEW s \in Sessions, FoundIdle(r, s)
      PROVE  AccountsInv'
  <2>1. HandlersInv' /\ CallsInv'
    BY <1>3, StartsOther DEF FoundIdle
  <2>2. TablesInv'
    BY <1>3, AccountsUntouched, SessionsWritten DEF FoundIdle, authTables, AccountsInv
  <2> QED BY <2>1, <2>2 DEF AccountsInv
<1>4. ASSUME NEW a \in Accounts \cup {None}, NEW g \in Grants, CreateGrant(r, a, g)
      PROVE  AccountsInv'
  <2>1. HandlersInv' /\ CallsInv'
    BY <1>4, CallsKeptAtOnce DEF CreateGrant
  <2>2. TablesInv'
    BY <1>4, AccountsUntouched, SessionsWritten DEF CreateGrant, AccountsInv
  <2> QED BY <2>1, <2>2 DEF AccountsInv
<1>5. ASSUME NEW g \in Grants, Activate(r, g)
      PROVE  AccountsInv'
  <2>1. running[r] # Idle /\ HandlersInv' /\ CallsInv'
    BY <1>5, Busy, GoesOn DEF Activate
  <2>2. TablesInv'
    BY <1>5, AccountsUntouched, SessionsWritten DEF Activate, authTables, AccountsInv
  <2> QED BY <2>1, <2>2 DEF AccountsInv
<1>6. CASE Touch(r)
  <2>1. running[r] # Idle /\ HandlersInv' /\ CallsInv'
    <3>1. running[r].step = "touch" /\ running[r] # Idle
      BY <1>6, Busy DEF Touch, At
    <3>2. \/ Finish(r)
          \/ Goto(r, Saw(r), None) /\ Saw(r) \in {"logout", "activate"}
      BY <1>6, <3>1 DEF Touch, Saw, AccountsInv, CallsInv
    <3> QED BY <3>1, <3>2, GoesOn
  <2>2. TablesInv'
    BY <1>6, AccountsUntouched, SessionsWritten DEF Touch, AccountsInv
  <2> QED BY <2>1, <2>2 DEF AccountsInv
<1>7. CASE Logout(r)
  <2>1. running[r] # Idle /\ HandlersInv' /\ CallsInv'
    BY <1>7, Busy, GoesOn DEF Logout
  <2>2. TablesInv'
    BY <1>7, AccountsUntouched, SessionsWritten DEF Logout, AccountsInv
  <2> QED BY <2>1, <2>2 DEF AccountsInv
<1>8. CASE ActAs(r)
  <2> DEFINE s == running[r].by
             row == [sessions[s] EXCEPT !.grant = Saw(r)]
  <2>1. running[r] # Idle /\ HandlersInv' /\ CallsInv'
    BY <1>8, Busy, GoesOn DEF ActAs
  <2>2. /\ sessions' = [sessions EXCEPT ![s] = row] \/ sessions' = sessions
        /\ accounts' = accounts
    BY <1>8 DEF ActAs
  <2> HIDE DEF row
  <2>3. TablesInv'
    BY <2>2, AccountsUntouched, SessionsWritten DEF AccountsInv
  <2> QED BY <2>1, <2>3 DEF AccountsInv
<1> QED
  BY <1>1, <1>2, <1>3, <1>4, <1>5, <1>6, <1>7, <1>8 DEF SessionStep

(* The passing of time may come at any moment of a request, and leaves     *)
(* counts and locks of passwords as they are.                              *)
LEMMA TimeKeeps ==
  ASSUME AccountsInv, TimePasses
  PROVE  AccountsInv'
<1>1. ASSUME UNCHANGED handlerVars, accounts' = accounts, sessions' = [s \in Sessions |-> sessions'[s]]
      PROVE  AccountsInv'
  <2>1. HandlersInv' /\ (\A r \in Requests : running'[r] = running[r]) /\ overlap' = overlap
    BY <1>1, StaysPut DEF AccountsInv
  <2>2. TablesInv'
    BY <1>1, AccountsUntouched DEF AccountsInv
  <2>3. CallsInv'
    BY <1>1, <2>1 DEF AccountsInv, CallsInv
  <2> QED BY <2>1, <2>2, <2>3 DEF AccountsInv
<1>2. ASSUME NEW s \in Sessions, SessionAges(s) PROVE AccountsInv'
  BY <1>1, <1>2, SessionsWritten DEF SessionAges, AccountsInv
<1>3. ASSUME NEW c \in Challenges, ChallengeExpires(c) PROVE AccountsInv'
  BY <1>1, <1>3, SessionsWritten DEF ChallengeExpires, AccountsInv
<1>4. ASSUME NEW t \in Tokens, TokenExpires(t) PROVE AccountsInv'
  BY <1>1, <1>4, SessionsWritten DEF TokenExpires, AccountsInv
<1>5. ASSUME NEW g \in Grants, EndGrant(g) PROVE AccountsInv'
  BY <1>1, <1>5, SessionsWritten DEF EndGrant, AccountsInv
<1>6. ASSUME NEW a \in Accounts, AccountAges(a) PROVE AccountsInv'
  <2>1. HandlersInv' /\ (\A r \in Requests : running'[r] = running[r]) /\ overlap' = overlap
    BY <1>6, StaysPut DEF AccountAges, AccountsInv
  <2>2. accounts[a] \in Account /\ Counted(accounts[a])
    BY DEF AccountsInv, TablesInv
  <2>3. PICK row :
          /\ row \in Account /\ Counted(row)
          /\ row.locked = accounts[a].locked
          /\ accounts' = [accounts EXCEPT ![a] = row]
    <3> DEFINE older == [accounts[a] EXCEPT !.mustChange = TRUE]
               freed == [accounts[a] EXCEPT !.otpLocked = FALSE]
    <3>1. accounts' = [accounts EXCEPT ![a] = older] \/ accounts' = [accounts EXCEPT ![a] = freed]
      BY <1>6, Zenon DEF AccountAges
    <3>2. /\ older \in Account /\ Counted(older)
          /\ freed \in Account /\ Counted(freed)
      BY <2>2, OtherColumns
    <3>3. older.locked = accounts[a].locked /\ freed.locked = accounts[a].locked
      BY <2>2, Zenon DEF Account
    <3> HIDE DEF older, freed
    <3> QED BY <3>1, <3>2, <3>3
  <2>4. TablesInv'
    BY <1>6, <2>3, RowWritten, SessionsWritten DEF AccountAges, AccountsInv
  <2>5. \A b \in Accounts : accounts'[b].locked = accounts[b].locked
    BY <2>3 DEF AccountsInv, TablesInv
  <2>6. CallsInv'
    BY <2>1, <2>5 DEF AccountsInv, CallsInv
  <2> QED BY <2>1, <2>4, <2>6 DEF AccountsInv
<1> QED BY <1>2, <1>3, <1>4, <1>5, <1>6 DEF TimePasses

LEMMA Inductive == AccountsInv /\ [AccountsStep]_authVars => AccountsInv'
<1> SUFFICES ASSUME AccountsInv, [AccountsStep]_authVars PROVE AccountsInv'
  OBVIOUS
<1>1. CASE TimePasses
  BY <1>1, TimeKeeps
<1>2. ASSUME NEW r \in Requests, LoginStep(r) \/ PasswordStep(r) \/ SessionStep(r)
      PROVE  AccountsInv'
  BY <1>2, LoginKeeps, PasswordKeeps, SessionKeeps
<1>3. ASSUME NEW r \in Requests, Fail(r), UNCHANGED authTables PROVE AccountsInv'
  <2>1. HandlersInv' /\ CallsInv'
    BY <1>3, GoesOn DEF Fail
  <2>2. TablesInv'
    BY <1>3, AccountsUntouched, SessionsWritten DEF authTables, AccountsInv
  <2> QED BY <2>1, <2>2 DEF AccountsInv
<1>4. CASE UNCHANGED authVars
  <2>1. HandlersInv' /\ (\A r \in Requests : running'[r] = running[r]) /\ overlap' = overlap
    BY <1>4, StaysPut DEF authVars, AccountsInv
  <2>2. TablesInv'
    BY <1>4, AccountsUntouched, SessionsWritten DEF authVars, authTables, AccountsInv
  <2>3. CallsInv'
    BY <1>4, <2>1 DEF authVars, authTables, AccountsInv, CallsInv
  <2> QED BY <2>1, <2>2, <2>3 DEF AccountsInv
<1> QED BY <1>1, <1>2, <1>3, <1>4 DEF AccountsStep

LEMMA Always == AccountsSpec => []AccountsInv
BY Initially, Inductive, PTL DEF AccountsSpec

(* However logins, resets and unlocks overlap, the lock of an account and  *)
(* the count behind it agree.                                              *)
THEOREM LockCounted == AccountsSpec => []LockMatchesCount
<1>1. AccountsInv => LockMatchesCount
  BY DEF AccountsInv, TablesInv, Counted, LockMatchesCount
<1> QED BY <1>1, Always, PTL

-----------------------------------------------------------------------------
(* Every write of sessions repeats "not revoked", or is an insert.         *)
LEMMA RevokedKept ==
  ASSUME TablesInv, NEW s \in Sessions, sessions[s].status = "REVOKED",
         NEW t, NEW row, NEW chosen, NEW status,
         \/ sessions' = sessions
         \/ sessions[t].status # "REVOKED" /\ sessions' = [sessions EXCEPT ![t] = row]
         \/ sessions' = SetStatus(chosen, status)
  PROVE  sessions'[s] = sessions[s]
BY DEF TablesInv, SetStatus, Unrevoked

LEMMA RevokedStep ==
  ASSUME TablesInv, AccountsStep, NEW s \in Sessions, sessions[s].status = "REVOKED"
  PROVE  sessions'[s] = sessions[s]
<1>1. CASE TimePasses
  BY <1>1, RevokedKept
     DEF TimePasses, SessionAges, ChallengeExpires, TokenExpires, AccountAges, EndGrant
<1>2. ASSUME NEW r \in Requests, LoginStep(r) PROVE sessions'[s] = sessions[s]
  <2>1. CASE RevokeStale(r)
    BY <2>1, RevokedKept DEF RevokeStale
  <2>2. CASE OpenSession(r)
    BY <2>2, RevokedKept DEF OpenSession, NoSession
  <2>3. CASE sessions' = sessions
    BY <2>3
  <2> QED
    BY <1>2, <2>1, <2>2, <2>3
       DEF LoginStep, Login, Verify, WriteFailure, Welcome, CheckActive, SendChallenge,
           WrongCode, Consume, ClearOtp, authTables
<1>3. ASSUME NEW r \in Requests, PasswordStep(r) PROVE sessions'[s] = sessions[s]
  <2>1. CASE RevokeAll(r)
    BY <2>1, RevokedKept DEF RevokeAll
  <2>2. CASE sessions' = sessions
    BY <2>2
  <2> QED
    BY <1>3, <2>1, <2>2
       DEF PasswordStep, RequestReset, ForceChange, Unlock, SetActive, ResetPassword,
           ConsumeToken, WritePassword, authTables
<1>4. ASSUME NEW r \in Requests, SessionStep(r) PROVE sessions'[s] = sessions[s]
  <2>1. CASE Touch(r)
    BY <2>1, RevokedKept DEF Touch
  <2>2. CASE Logout(r)
    BY <2>2, RevokedKept DEF Logout
  <2>3. CASE ActAs(r)
    <3> DEFINE t == running[r].by
               row == [sessions[t] EXCEPT !.grant = Saw(r)]
    <3>1. \/ sessions[t].status # "REVOKED" /\ sessions' = [sessions EXCEPT ![t] = row]
          \/ sessions' = sessions
      BY <2>3 DEF ActAs, Unrevoked
    <3> HIDE DEF t, row
    <3> QED BY <3>1, RevokedKept
  <2>4. CASE sessions' = sessions
    BY <2>4
  <2> QED
    BY <1>4, <2>1, <2>2, <2>3, <2>4
       DEF SessionStep, Guard, Refresh, FoundIdle, CreateGrant, Activate, authTables
<1>5. ASSUME NEW r \in Requests, Fail(r), UNCHANGED authTables PROVE sessions'[s] = sessions[s]
  BY <1>5 DEF authTables
<1> QED BY <1>1, <1>2, <1>3, <1>4, <1>5 DEF AccountsStep

(* However requests overlap, a revoked session never comes back.           *)
THEOREM RevokedForGood == AccountsSpec => RevokedStays
<1> DEFINE A == \A s \in Sessions : sessions[s].status = "REVOKED" => sessions'[s] = sessions[s]
<1>1. AccountsInv /\ [AccountsStep]_authVars => [A]_authVars
  BY RevokedStep DEF AccountsInv
<1>2. AccountsSpec => []AccountsInv /\ [][AccountsStep]_authVars
  BY Always, PTL DEF AccountsSpec
<1> QED BY <1>1, <1>2, PTL DEF RevokedStays

-----------------------------------------------------------------------------
(* Who may take the lock off account a.                                    *)
MayUnlock(a) == Quiet \/ \E r \in Requests : At(r, "newPassword") /\ Me(r) = a

LEMMA LockStep ==
  ASSUME AccountsInv, AccountsStep, ~overlap, NEW a \in Accounts,
         accounts[a].locked, ~accounts'[a].locked
  PROVE  MayUnlock(a)
<1>0. accounts' # accounts
  OBVIOUS
<1>t. accounts \in [Accounts -> Account]
  BY DEF AccountsInv, TablesInv
<1>1. ASSUME NEW b \in Accounts, AccountAges(b) PROVE FALSE
  <2>1. accounts[b] \in Account
    BY <1>t
  <2> DEFINE older == [accounts[b] EXCEPT !.mustChange = TRUE]
             freed == [accounts[b] EXCEPT !.otpLocked = FALSE]
  <2>2. accounts' = [accounts EXCEPT ![b] = older] \/ accounts' = [accounts EXCEPT ![b] = freed]
    BY <1>1, Zenon DEF AccountAges
  <2>3. older.locked = accounts[b].locked /\ freed.locked = accounts[b].locked
    BY <2>1, Zenon DEF Account
  <2> HIDE DEF older, freed
  <2>4. accounts'[a].locked = accounts[a].locked
    BY <2>2, <2>3, <1>t
  <2> QED BY <2>4
<1>2. CASE TimePasses
  BY <1>0, <1>1, <1>2
     DEF TimePasses, SessionAges, ChallengeExpires, TokenExpires, EndGrant
<1>3. ASSUME NEW r \in Requests, LoginStep(r) PROVE FALSE
  <2>1. running[r].step \in {"wrongPassword", "welcome"} => Me(r) # a
    BY DEF AccountsInv, CallsInv, Me
  <2>2. CASE WriteFailure(r)
    BY <2>1, <2>2, <1>t DEF WriteFailure, At
  <2>3. CASE Welcome(r)
    BY <2>1, <2>3, <1>t DEF Welcome, At
  <2>4. CASE WrongCode(r)
    <3> DEFINE n == OneMore(Saw(r).otpAttempts)
               row == [accounts[Me(r)] EXCEPT !.otpAttempts = n, !.otpLocked = n >= MaxAttempts]
    <3>1. accounts' = [accounts EXCEPT ![Me(r)] = row]
      BY <2>4 DEF WrongCode
    <3>2. Me(r) = a => row.locked = accounts[a].locked
      BY <1>t, Zenon DEF Account
    <3> HIDE DEF row
    <3> QED BY <3>1, <3>2, <1>t
  <2>5. CASE ClearOtp(r)
    <3> DEFINE row == [accounts[Me(r)] EXCEPT !.otpAttempts = 0, !.otpLocked = FALSE]
    <3>1. accounts' = [accounts EXCEPT ![Me(r)] = row]
      BY <2>5 DEF ClearOtp
    <3>2. Me(r) = a => row.locked = accounts[a].locked
      BY <1>t, Zenon DEF Account
    <3> HIDE DEF row
    <3> QED BY <3>1, <3>2, <1>t
  <2> QED
    BY <1>0, <1>3, <2>2, <2>3, <2>4, <2>5
       DEF LoginStep, Login, Verify, RevokeStale, CheckActive, OpenSession, SendChallenge,
           Consume, authTables
<1>4. ASSUME NEW r \in Requests, PasswordStep(r) PROVE MayUnlock(a)
  <2>1. CASE AtOnce(r)
    BY <2>1 DEF AtOnce, MayUnlock
  <2>2. CASE WritePassword(r)
    <3>1. Me(r) = a
      BY <2>2, <1>t DEF WritePassword
    <3> QED BY <2>2, <3>1 DEF WritePassword, MayUnlock
  <2> QED
    BY <1>0, <1>4, <2>1, <2>2
       DEF PasswordStep, RequestReset, ForceChange, Unlock, SetActive, ResetPassword,
           ConsumeToken, RevokeAll, authTables
<1>5. ASSUME NEW r \in Requests, SessionStep(r) PROVE FALSE
  BY <1>0, <1>5
     DEF SessionStep, Guard, Refresh, FoundIdle, CreateGrant, Activate, Touch, Logout, ActAs,
         authTables
<1>6. ASSUME NEW r \in Requests, Fail(r), UNCHANGED authTables PROVE FALSE
  BY <1>0, <1>6 DEF authTables
<1> QED BY <1>2, <1>3, <1>4, <1>5, <1>6 DEF AccountsStep

(* One request at a time, only an administrator or a new password opens a  *)
(* locked account, whatever attempts, codes and sessions there are.        *)
THEOREM LockHoldsOn == AccountsSpec => LockHolds
<1> DEFINE A == ~overlap => \A a \in Accounts :
                  accounts[a].locked /\ ~accounts'[a].locked =>
                    Quiet \/ \E r \in Requests : At(r, "newPassword") /\ Me(r) = a
<1>1. AccountsInv /\ [AccountsStep]_authVars => [A]_authVars
  BY LockStep DEF MayUnlock
<1>2. AccountsSpec => []AccountsInv /\ [][AccountsStep]_authVars
  BY Always, PTL DEF AccountsSpec
<1> QED BY <1>1, <1>2, PTL DEF LockHolds

-----------------------------------------------------------------------------
(* One live session, one request at a time: a login that goes on to open a *)
(* session found none, and the session a request is about to touch is the  *)
(* only one its owner has, for nothing but a login or a touch makes one    *)
(* LIVE; it may have aged meanwhile.                                       *)

Live(s) == sessions[s].status = "LIVE"

Columns(row) == row = [status |-> row.status, owner |-> row.owner, grant |-> row.grant]

LivesAlone ==
  \A s, t \in Sessions : Live(s) /\ Live(t) /\ sessions[s].owner = sessions[t].owner => s = t

LiveCall(call) ==
  /\ call.step = "open" => \A s \in Sessions : Live(s) => sessions[s].owner # call.doc
  /\ call.step = "touch" =>
       /\ call.by \in Sessions
       /\ \A s \in Sessions : Live(s) /\ sessions[s].owner = sessions[call.by].owner => s = call.by

LiveInv ==
  ~overlap =>
    /\ \A s \in Sessions : Columns(sessions[s])
    /\ LivesAlone
    /\ \A r \in Requests : LiveCall(running[r])

(* No session becomes LIVE, and owners stay.                               *)
NoneRevives ==
  \A s \in Sessions : /\ Columns(sessions'[s])
                      /\ sessions'[s].owner = sessions[s].owner
                      /\ sessions'[s].status = "LIVE" => Live(s)

LEMMA LiveInitially == AuthInit => LiveInv
<1> SUFFICES ASSUME AccountsInit, HandlersInit PROVE LiveInv
  BY DEF AuthInit
<1>1. \A r \in Requests : LiveCall(running[r])
  BY InitiallyIdle, IdleStep DEF LiveCall
<1>2. \A s \in Sessions : Columns(sessions[s]) /\ ~Live(s)
  BY DEF AccountsInit, NoSession, Columns, Live
<1> QED BY <1>1, <1>2 DEF LiveInv, LivesAlone

LEMMA LiveKept ==
  ASSUME NoneRevives
  PROVE  LivesAlone => LivesAlone'
BY DEF NoneRevives, LivesAlone, Live

LEMMA LiveCallKept ==
  ASSUME NoneRevives, NEW call, LiveCall(call)
  PROVE  LiveCall(call)'
BY DEF NoneRevives, LiveCall, Live

LEMMA LiveSteps ==
  ASSUME HandlersInv, ~overlap, NEW r \in Requests, running[r] # Idle \/ Quiet,
         NEW call, Only(r, call), LiveCall(call)', LivesAlone',
         \A s \in Sessions : Columns(sessions'[s])
  PROVE  LiveInv'
<1>1. LiveCall(Idle)'
  BY IdleStep DEF LiveCall
<1>2. \A q \in Requests \ {r} : running'[q] = Idle
  BY Alone DEF Only
<1>3. ASSUME NEW q \in Requests PROVE LiveCall(running[q])'
  BY <1>1, <1>2 DEF Only, LiveCall
<1>4. (\A s \in Sessions : Columns(sessions[s]))'
  BY DEF Columns
<1> QED BY <1>3, <1>4 DEF LiveInv

(* The writes that make no session LIVE.                                   *)
LEMMA StatusWritten ==
  ASSUME TablesInv, \A s \in Sessions : Columns(sessions[s]), NEW chosen, NEW status,
         sessions' = SetStatus(chosen, status)
  PROVE  \A s \in Sessions :
           /\ Columns(sessions'[s])
           /\ sessions'[s].owner = sessions[s].owner
           /\ s \in chosen => sessions'[s].status \in {status, sessions[s].status}
           /\ s \notin chosen => sessions'[s] = sessions[s]
<1> SUFFICES ASSUME NEW s \in Sessions
             PROVE  /\ Columns(sessions'[s])
                    /\ sessions'[s].owner = sessions[s].owner
                    /\ s \in chosen => sessions'[s].status \in {status, sessions[s].status}
                    /\ s \notin chosen => sessions'[s] = sessions[s]
  OBVIOUS
<1>1. PICK row, x, y, z : row = sessions[s] /\ row = [status |-> x, owner |-> y, grant |-> z]
  BY DEF Columns
<1>2. [row EXCEPT !.status = status] = [status |-> status, owner |-> y, grant |-> z]
  BY <1>1
<1>3. sessions'[s] = IF s \in chosen /\ Unrevoked(s) THEN [row EXCEPT !.status = status] ELSE row
  BY <1>1 DEF SetStatus
<1> QED BY <1>1, <1>2, <1>3 DEF Columns

LEMMA LiveInductive == AccountsInv /\ LiveInv /\ [AccountsStep]_authVars => LiveInv'
<1> SUFFICES ASSUME AccountsInv, LiveInv, [AccountsStep]_authVars PROVE LiveInv'
  OBVIOUS
<1>0. overlap' = overlap
  <2>1. ASSUME NEW r \in Requests, LoginStep(r) PROVE overlap' = overlap
    BY <2>1 DEF LoginStep, Login, Verify, WriteFailure, Welcome, RevokeStale, CheckActive,
           OpenSession, SendChallenge, WrongCode, Consume, ClearOtp, Begin, Goto, Finish, AtOnce,
           handlerVars
  <2>2. ASSUME NEW r \in Requests, PasswordStep(r) PROVE overlap' = overlap
    BY <2>2 DEF PasswordStep, RequestReset, ForceChange, Unlock, SetActive, ResetPassword,
           ConsumeToken, WritePassword, RevokeAll, Begin, Goto, Finish, AtOnce, handlerVars
  <2>3. ASSUME NEW r \in Requests, SessionStep(r) PROVE overlap' = overlap
    BY <2>3 DEF SessionStep, Guard, Refresh, FoundIdle, Touch, Logout, Activate, ActAs,
           CreateGrant, Begin, Goto, Finish, AtOnce, handlerVars
  <2>4. CASE TimePasses
    BY <2>4 DEF TimePasses, SessionAges, ChallengeExpires, TokenExpires, AccountAges, EndGrant,
           handlerVars
  <2>5. ASSUME NEW r \in Requests, Fail(r) PROVE overlap' = overlap
    BY <2>5 DEF Fail, Finish
  <2>6. CASE UNCHANGED authVars
    BY <2>6 DEF authVars, handlerVars
  <2> QED BY <2>1, <2>2, <2>3, <2>4, <2>5, <2>6 DEF AccountsStep
<1> SUFFICES ASSUME ~overlap PROVE LiveInv'
  BY <1>0 DEF LiveInv
<1>i. /\ HandlersInv /\ TablesInv
      /\ \A s \in Sessions : Columns(sessions[s])
      /\ LivesAlone
      /\ \A r \in Requests : LiveCall(running[r])
  BY DEF AccountsInv, LiveInv
<1>s. ASSUME sessions' = sessions PROVE NoneRevives
  BY <1>i, <1>s DEF NoneRevives, Live
<1>w. ASSUME NEW chosen, NEW status, status # "LIVE", sessions' = SetStatus(chosen, status)
      PROVE  NoneRevives
  <2>1. \A s \in Sessions :
          /\ Columns(sessions'[s])
          /\ sessions'[s].owner = sessions[s].owner
          /\ s \in chosen => sessions'[s].status \in {status, sessions[s].status}
          /\ s \notin chosen => sessions'[s] = sessions[s]
    BY <1>i, <1>w, StatusWritten
  <2> QED BY <1>w, <2>1 DEF NoneRevives, Live
(* A request that begins, goes on or ends, and makes no session LIVE.      *)
<1>r. ASSUME NEW r \in Requests, running[r] # Idle \/ Quiet, NEW call, Only(r, call),
             NoneRevives, LiveCall(call)
      PROVE  LiveInv'
  BY <1>i, <1>r, LiveKept, LiveCallKept, LiveSteps DEF NoneRevives
<1>b. ASSUME NEW r \in Requests, NEW step, NEW doc, NEW by, NEW saw, Begin(r, step, doc, by, saw),
             sessions' = sessions, LiveCall(Call(step, doc, by, saw))
      PROVE  LiveInv'
  <2>1. PICK call : call = Call(step, doc, by, saw)
    OBVIOUS
  <2>2. Only(r, call) /\ Quiet
    BY <1>b, <1>i, <2>1, Begins
  <2> QED BY <1>b, <1>r, <1>s, <2>1, <2>2
<1>g. ASSUME NEW r \in Requests, running[r] # Idle, NoneRevives,
             \/ Finish(r)
             \/ \E step, saw : Goto(r, step, saw) /\ step \notin {"open", "touch"}
      PROVE  LiveInv'
  <2>1. CASE Finish(r)
    <3>1. Only(r, Idle) /\ LiveCall(Idle)
      BY <1>i, <2>1, Finishes, IdleStep DEF LiveCall
    <3> QED BY <1>g, <1>r, <3>1
  <2>2. ASSUME NEW step, NEW saw, Goto(r, step, saw), step \notin {"open", "touch"}
        PROVE  LiveInv'
    <3>1. PICK call : call = Call(step, running[r].doc, running[r].by, saw)
      OBVIOUS
    <3>2. Only(r, call)
      BY <1>g, <1>i, <2>2, <3>1, Goes
    <3>3. LiveCall(call)
      BY <2>2, <3>1 DEF LiveCall, Call
    <3> QED BY <1>g, <1>r, <3>2, <3>3
  <2> QED BY <1>g, <2>1, <2>2
<1>a. ASSUME NEW r \in Requests, AtOnce(r), sessions' = sessions PROVE LiveInv'
  <2>1. Only(r, Idle) /\ Quiet /\ LiveCall(Idle)
    BY <1>a, <1>i, StaysPut, IdleStep DEF AtOnce, Only, LiveCall
  <2> QED BY <1>a, <1>r, <1>s, <2>1
<1>u. ASSUME UNCHANGED handlerVars, NoneRevives PROVE LiveInv'
  <2>1. \A q \in Requests : running'[q] = running[q]
    BY <1>i, <1>u, StaysPut
  <2>2. ASSUME NEW q \in Requests PROVE LiveCall(running[q])'
    <3>1. PICK c : c = running[q]
      OBVIOUS
    <3>2. LiveCall(c)' /\ running'[q] = c
      BY <1>i, <1>u, <2>1, <3>1, LiveCallKept
    <3> QED BY <3>2 DEF LiveCall
  <2>3. (\A s \in Sessions : Columns(sessions[s]))'
    BY <1>u DEF NoneRevives, Columns
  <2> QED BY <1>i, <1>u, <2>2, <2>3, LiveKept DEF LiveInv
<1>1. CASE TimePasses
  <2>1. ASSUME NEW s \in Sessions, SessionAges(s) PROVE LiveInv'
    BY <1>u, <1>w, <2>1 DEF SessionAges
  <2>2. CASE sessions' = sessions /\ UNCHANGED handlerVars
    BY <1>s, <1>u, <2>2
  <2> QED
    BY <1>1, <2>1, <2>2 DEF TimePasses, ChallengeExpires, TokenExpires, AccountAges, EndGrant
<1>2. ASSUME NEW r \in Requests, CheckActive(r) PROVE LiveInv'
  <2>1. running[r] # Idle /\ sessions' = sessions
    BY <1>2, Busy DEF CheckActive, authTables
  <2>2. CASE Finish(r) \/ Goto(r, "challenge", None)
    BY <1>g, <1>s, <2>1, <2>2
  <2>3. CASE Goto(r, "open", None) /\ ~ActiveSession(Me(r))
    <3>1. PICK call : call = Call("open", running[r].doc, running[r].by, None)
      OBVIOUS
    <3>2. Only(r, call)
      BY <1>i, <2>1, <2>3, <3>1, Goes
    <3>3. LiveCall(call)
      BY <2>3, <3>1 DEF LiveCall, Live, ActiveSession, SessionsOf, Me, Call
    <3> QED BY <1>r, <1>s, <2>1, <3>2, <3>3
  <2> QED BY <1>2, <2>2, <2>3 DEF CheckActive
<1>3. ASSUME NEW r \in Requests, OpenSession(r) PROVE LiveInv'
  <2>0. PICK a : a = running[r].doc
    OBVIOUS
  <2>1. running[r] # Idle
    BY <1>3, Busy DEF OpenSession
  <2>2. PICK row : row = [status |-> "LIVE", owner |-> a, grant |-> None]
    OBVIOUS
  <2>3. PICK s \in Sessions : sessions[s] = NoSession /\ sessions' = [sessions EXCEPT ![s] = row]
    BY <1>3, <2>0, <2>2 DEF OpenSession, Me
  <2>4. sessions'[s] = row /\ \A t \in Sessions \ {s} : sessions'[t] = sessions[t]
    BY <1>i, <2>3 DEF TablesInv
  <2>5. Columns(row) /\ row.status = "LIVE" /\ row.owner = a
    BY <2>2 DEF Columns
  <2>6. \A t \in Sessions : Live(t) => sessions[t].owner # a
    BY <1>3, <1>i, <2>0 DEF OpenSession, At, LiveCall
  <2>7. LivesAlone'
    BY <1>i, <2>4, <2>5, <2>6 DEF LivesAlone, Live
  <2>8. \A t \in Sessions : Columns(sessions'[t])
    BY <1>i, <2>4, <2>5
  <2>9. Only(r, Idle) /\ LiveCall(Idle)'
    BY <1>3, <1>i, Finishes, IdleStep DEF OpenSession, LiveCall
  <2> QED BY <1>i, <2>1, <2>7, <2>8, <2>9, LiveSteps
<1>4. ASSUME NEW r \in Requests, RevokeStale(r) PROVE LiveInv'
  <2>1. running[r] # Idle
    BY <1>4, Busy DEF RevokeStale
  <2> QED BY <1>4, <1>g, <1>w, <2>1 DEF RevokeStale
<1>5. ASSUME NEW r \in Requests, LoginStep(r) PROVE LiveInv'
  <2>1. ASSUME NEW a \in Accounts, NEW correct \in BOOLEAN, Login(r, a, correct) PROVE LiveInv'
    <3>1. PICK step \in {"welcome", "wrongPassword"} : Begin(r, step, a, a, accounts[a])
      BY <2>1 DEF Login
    <3>2. LiveCall(Call(step, a, a, accounts[a]))
      BY DEF LiveCall, Call
    <3> QED BY <1>b, <2>1, <3>1, <3>2 DEF Login, authTables
  <2>2. ASSUME NEW c \in Challenges, NEW correct \in BOOLEAN, Verify(r, c, correct) PROVE LiveInv'
    <3>1. PICK a : a = challenges[c].owner
      OBVIOUS
    <3>2. PICK step \in {"consume", "wrongCode"} : Begin(r, step, a, c, accounts[a])
      BY <2>2, <3>1 DEF Verify
    <3>3. LiveCall(Call(step, a, c, accounts[a]))
      BY DEF LiveCall, Call
    <3> QED BY <1>b, <2>2, <3>2, <3>3 DEF Verify, authTables
  <2>3. CASE WriteFailure(r) \/ Welcome(r) \/ SendChallenge(r) \/ WrongCode(r)
               \/ Consume(r) \/ ClearOtp(r)
    <3>1. running[r] # Idle
      BY <2>3, Busy DEF WriteFailure, Welcome, SendChallenge, WrongCode, Consume, ClearOtp
    <3>2. sessions' = sessions
      BY <2>3 DEF WriteFailure, Welcome, SendChallenge, WrongCode, Consume, ClearOtp
    <3>3. \/ Finish(r)
          \/ \E step, saw : Goto(r, step, saw) /\ step \notin {"open", "touch"}
      BY <2>3 DEF WriteFailure, Welcome, SendChallenge, WrongCode, Consume, ClearOtp
    <3> QED BY <1>g, <1>s, <3>1, <3>2, <3>3
  <2> QED BY <1>2, <1>3, <1>4, <1>5, <2>1, <2>2, <2>3 DEF LoginStep
<1>6. ASSUME NEW r \in Requests, PasswordStep(r) PROVE LiveInv'
  <2>1. CASE AtOnce(r) /\ sessions' = sessions
    BY <1>a, <2>1
  <2>2. ASSUME NEW a \in Accounts, ForceChange(r, a) PROVE LiveInv'
    <3>1. LiveCall(Call("newPassword", a, a, None))
      BY DEF LiveCall, Call
    <3> QED BY <1>b, <2>2, <3>1 DEF ForceChange, authTables
  <2>3. ASSUME NEW t \in Tokens, ResetPassword(r, t) PROVE LiveInv'
    <3>1. PICK a : a = tokens[t].owner
      OBVIOUS
    <3>2. LiveCall(Call("consumeToken", a, t, None))
      BY DEF LiveCall, Call
    <3> QED BY <1>b, <2>3, <3>1, <3>2 DEF ResetPassword, authTables
  <2>4. CASE ConsumeToken(r) \/ WritePassword(r)
    BY <1>g, <1>s, <2>4, Busy DEF ConsumeToken, WritePassword
  <2>5. CASE RevokeAll(r)
    <3>1. running[r] # Idle
      BY <2>5, Busy DEF RevokeAll
    <3> QED BY <1>g, <1>w, <2>5, <3>1 DEF RevokeAll
  <2> QED
    BY <1>6, <2>1, <2>2, <2>3, <2>4, <2>5 DEF PasswordStep, RequestReset, Unlock, SetActive
(* The session that is let through is the LIVE one of its owner.           *)
<1>7. ASSUME NEW r \in Requests, NEW s \in Sessions, NEW doc, NEW saw,
             Begin(r, "touch", doc, s, saw), Live(s), sessions' = sessions
      PROVE  LiveInv'
  <2>1. LiveCall(Call("touch", doc, s, saw))
    BY <1>i, <1>7 DEF LivesAlone, LiveCall, Call
  <2> QED BY <1>7, <1>b, <2>1
<1>8. ASSUME NEW r \in Requests, Touch(r) PROVE LiveInv'
  <2>1. running[r] # Idle
    BY <1>8, Busy DEF Touch
  <2>2. PICK s \in Sessions :
          /\ s = running[r].by
          /\ \A t \in Sessions : Live(t) /\ sessions[t].owner = sessions[s].owner => t = s
    BY <1>8, <1>i DEF Touch, At, LiveCall
  <2>3. \/ Finish(r)
        \/ Goto(r, Saw(r), None) /\ Saw(r) \in {"logout", "activate"}
    BY <1>8 DEF Touch, At, Saw, AccountsInv, CallsInv
  <2>4. PICK call : Only(r, call) /\ call.step \notin {"open", "touch"}
    <3>1. CASE Finish(r)
      BY <1>i, <3>1, Finishes, IdleStep
    <3>2. CASE Goto(r, Saw(r), None) /\ Saw(r) \in {"logout", "activate"}
      <4>1. PICK next : next = Call(Saw(r), running[r].doc, running[r].by, None)
        OBVIOUS
      <4>2. Only(r, next) /\ next.step = Saw(r)
        BY <1>i, <2>1, <3>2, <4>1, Goes DEF Call
      <4> QED BY <3>2, <4>2
    <3> QED BY <2>3, <3>1, <3>2
  <2>5. CASE sessions' = sessions
    BY <1>g, <1>s, <2>1, <2>3, <2>5
  <2>6. CASE sessions' = SetStatus({s}, "LIVE")
    <3>1. \A t \in Sessions :
            /\ Columns(sessions'[t])
            /\ sessions'[t].owner = sessions[t].owner
            /\ t \in {s} => sessions'[t].status \in {"LIVE", sessions[t].status}
            /\ t \notin {s} => sessions'[t] = sessions[t]
      BY <1>i, <2>6, StatusWritten
    <3>2. LivesAlone'
      BY <1>i, <2>2, <3>1 DEF LivesAlone, Live
    <3>3. LiveCall(call)'
      BY <2>4 DEF LiveCall
    <3> QED BY <1>i, <2>1, <2>4, <3>1, <3>2, <3>3, LiveSteps
  <2> QED BY <1>8, <2>2, <2>5, <2>6 DEF Touch
<1>9. ASSUME NEW r \in Requests, ActAs(r) PROVE LiveInv'
  <2>1. running[r] # Idle /\ Finish(r)
    BY <1>9, Busy DEF ActAs
  <2>2. PICK t, g : t = running[r].by /\ g = Saw(r)
    OBVIOUS
  <2>3. PICK row : row = [sessions[t] EXCEPT !.grant = g]
    OBVIOUS
  <2>4. sessions' = sessions \/ sessions' = [sessions EXCEPT ![t] = row]
    BY <1>9, <2>2, <2>3 DEF ActAs
  <2>5. t \in Sessions => /\ Columns(row) /\ row.owner = sessions[t].owner
                          /\ row.status = sessions[t].status
    <3> SUFFICES ASSUME t \in Sessions
                 PROVE  /\ Columns(row) /\ row.owner = sessions[t].owner
                        /\ row.status = sessions[t].status
      OBVIOUS
    <3>1. PICK old, x, y, z : old = sessions[t] /\ old = [status |-> x, owner |-> y, grant |-> z]
      BY <1>i DEF Columns
    <3>2. row = [status |-> x, owner |-> y, grant |-> g]
      BY <2>3, <3>1
    <3> QED BY <3>1, <3>2 DEF Columns
  <2>6. NoneRevives
    BY <1>i, <1>s, <2>4, <2>5 DEF NoneRevives, Live, TablesInv
  <2> QED BY <1>g, <2>1, <2>6
<1>10. ASSUME NEW r \in Requests, SessionStep(r) PROVE LiveInv'
  <2>1. ASSUME NEW s \in Sessions, NEW next, Guard(r, s, next) \/ Refresh(r, s) PROVE LiveInv'
    BY <1>7, <2>1 DEF Guard, Refresh, authTables, Live
  <2>2. ASSUME NEW s \in Sessions, FoundIdle(r, s) PROVE LiveInv'
    <3>1. PICK a : a = sessions[s].owner
      OBVIOUS
    <3>2. LiveCall(Call("logout", a, s, None))
      BY DEF LiveCall, Call
    <3> QED BY <1>b, <2>2, <3>1, <3>2 DEF FoundIdle, authTables
  <2>3. ASSUME NEW a, NEW g, CreateGrant(r, a, g) PROVE LiveInv'
    BY <1>a, <2>3 DEF CreateGrant
  <2>4. ASSUME NEW g \in Grants, Activate(r, g) PROVE LiveInv'
    BY <1>g, <1>s, <2>4, Busy DEF Activate, authTables
  <2>5. CASE Logout(r)
    <3>1. running[r] # Idle
      BY <2>5, Busy DEF Logout
    <3> QED BY <1>g, <1>w, <2>5, <3>1 DEF Logout
  <2> QED BY <1>8, <1>9, <1>10, <2>1, <2>2, <2>3, <2>4, <2>5 DEF SessionStep
<1>11. ASSUME NEW r \in Requests, Fail(r), UNCHANGED authTables PROVE LiveInv'
  BY <1>11, <1>g, <1>s DEF Fail, authTables
<1>12. CASE UNCHANGED authVars
  BY <1>12, <1>s, <1>u DEF authVars, authTables
<1> QED BY <1>1, <1>5, <1>6, <1>10, <1>11, <1>12 DEF AccountsStep

(* One request at a time, whichever way it logs in and however its         *)
(* sessions age: an account has one live session.                          *)
THEOREM LogsInOnce == AccountsSpec => []OneLiveSession
<1>1. LiveInv => OneLiveSession
  <2> SUFFICES ASSUME LiveInv, ~overlap, NEW a \in Accounts
               PROVE  Cardinality({s \in SessionsOf(a) : sessions[s].status = "LIVE"}) <= 1
    BY DEF OneLiveSession
  <2>1. PICK live : live = {s \in SessionsOf(a) : sessions[s].status = "LIVE"}
    OBVIOUS
  <2>2. \A s, t \in live : s = t
    BY <2>1 DEF LiveInv, LivesAlone, Live, SessionsOf
  <2>3. live = {} \/ \E s : live = {s}
    BY <2>2
  <2>4. /\ Cardinality({}) = 0
        /\ \A s : Cardinality({s}) = 1
    BY FS_EmptySet, FS_Singleton
  <2>5. Cardinality(live) \in {0, 1}
    BY <2>3, <2>4
  <2> QED BY <2>1, <2>5
<1> QED BY <1>1, Always, LiveInitially, LiveInductive, PTL DEF AccountsSpec

=============================================================================
