------------------------------ MODULE Accounts ------------------------------
(* Logging in and staying logged in (src/.../auth/auth.service.ts,         *)
(* src/.../rbac/jwt-auth.guard.ts, src/.../auth/unlock-requests.service.ts,*)
(* src/.../delegations/delegations.service.ts): wrong passwords lock an    *)
(* account until an administrator or a new password unlocks it, an account *)
(* has one live session, and a session may be used on behalf of a          *)
(* delegator.  Whether a password, a code or a reset token is the right    *)
(* one is a choice of the request; the passing of time is an action.       *)
EXTENDS Handlers, FiniteSetsExt

CONSTANTS
  Accounts,
  Sessions, Challenges, Tokens, Grants,  \* ids of rows that can be created
  MaxAttempts                            \* lockThreshold, 5 in the code

ASSUME AccountsAssumption == MaxAttempts \in Nat \ {0}

VARIABLES
  accounts,
  sessions,
  challenges,   \* one-time codes that were sent
  tokens,       \* password reset tokens
  grants        \* delegations

authTables == <<accounts, sessions, challenges, tokens, grants>>
authVars == <<authTables, handlerVars>>

Account ==
  [active : BOOLEAN, mustChange : BOOLEAN, attempts : 0..MaxAttempts, locked : BOOLEAN,
   otpAttempts : 0..MaxAttempts, otpLocked : BOOLEAN]

(* A session is NONE, LIVE, IDLE (not seen for longer than the idle limit), *)
(* EXPIRED or REVOKED; what else is owned is NONE, OPEN or OVER.  A          *)
(* delegation whose owner is None is given to somebody else.                 *)
NoSession == [status |-> "NONE", owner |-> None, grant |-> None]
Unused == [status |-> "NONE", owner |-> None]

AccountsInit ==
  /\ accounts \in [Accounts ->
       {[active |-> TRUE, mustChange |-> b, attempts |-> 0, locked |-> FALSE,
         otpAttempts |-> 0, otpLocked |-> FALSE] : b \in BOOLEAN}]
  /\ sessions = [s \in Sessions |-> NoSession]
  /\ challenges = [c \in Challenges |-> Unused]
  /\ tokens = [t \in Tokens |-> Unused]
  /\ grants = [g \in Grants |-> Unused]

-----------------------------------------------------------------------------
(* Helpers.                                                                *)

Me(r) == running[r].doc
Saw(r) == running[r].saw

(* Counters are only compared with the threshold, so they stop there.      *)
OneMore(n) == IF n < MaxAttempts THEN n + 1 ELSE n

(* The columns every way of unlocking an account resets.                   *)
Unlocked(row) == [row EXCEPT !.attempts = 0, !.locked = FALSE]

(* A new password also ends the obligation to change it.                   *)
WithNewPassword(row) == [Unlocked(row) EXCEPT !.mustChange = FALSE]

Unrevoked(s) == sessions[s].status \in {"LIVE", "IDLE", "EXPIRED"}

(* Mutant: the rows are named by account only, revoked ones included.      *)
SetAnyStatus(chosen, status) ==
  [s \in Sessions |->
     IF s \in chosen /\ sessions[s].status # "NONE"
     THEN [sessions[s] EXCEPT !.status = status] ELSE sessions[s]]

(* userSession.updateMany: every statement repeats revokedAt: null.        *)
SetStatus(chosen, status) ==
  [s \in Sessions |->
     IF s \in chosen /\ Unrevoked(s)
     THEN [sessions[s] EXCEPT !.status = status] ELSE sessions[s]]

SessionsOf(a) == {s \in Sessions : sessions[s].owner = a}

(* Mutant: lastSeenAt is compared the wrong way round.                     *)
ActiveLongAgo(a) == \E s \in SessionsOf(a) : sessions[s].status = "IDLE"

(* getActiveSession                                                        *)
ActiveSession(a) == \E s \in SessionsOf(a) : sessions[s].status = "LIVE"

-----------------------------------------------------------------------------
(* login: one read of the account, then its checks.                        *)

(* Mutant: the lock is not looked at.                                      *)
LocksIgnored(a) == accounts[a].active

MayTry(a) == accounts[a].active /\ ~accounts[a].locked

Login(r, a, correct) ==
  /\ MayTry(a)
  /\ Begin(r, IF correct THEN "welcome" ELSE "wrongPassword", a, a, accounts[a])
  /\ UNCHANGED authTables

(* Mutant: the count is stored, the lock is left for the next attempt.     *)
CountOnly(r) ==
  /\ At(r, "wrongPassword")
  /\ accounts' = [accounts EXCEPT ![Me(r)].attempts = OneMore(Saw(r).attempts)]
  /\ Finish(r)
  /\ UNCHANGED <<sessions, challenges, tokens, grants>>

WriteFailure(r) ==
  LET n == OneMore(Saw(r).attempts) IN
  /\ At(r, "wrongPassword")
  /\ accounts' = [accounts EXCEPT
       ![Me(r)] = [@ EXCEPT !.attempts = n, !.locked = n >= MaxAttempts]]
  /\ Finish(r)
  /\ UNCHANGED <<sessions, challenges, tokens, grants>>

(* The counters are reset when the row that was read had any; a password   *)
(* that must be changed ends the login there.                              *)
Welcome(r) ==
  /\ At(r, "welcome")
  /\ accounts' = IF Saw(r).attempts # 0
                 THEN [accounts EXCEPT ![Me(r)] = Unlocked(@)] ELSE accounts
  /\ IF Saw(r).mustChange THEN Finish(r) ELSE Goto(r, "revokeStale", Saw(r))
  /\ UNCHANGED <<sessions, challenges, tokens, grants>>

(* cleanupExpiredSessions, autoRevokeStaleSessions                         *)
RevokeStale(r) ==
  LET stale == {s \in SessionsOf(Me(r)) : sessions[s].status \in {"IDLE", "EXPIRED"}} IN
  /\ At(r, "revokeStale")
  /\ sessions' = SetStatus(stale, "REVOKED")
  /\ Goto(r, "checkActive", Saw(r))
  /\ UNCHANGED <<accounts, challenges, tokens, grants>>

(* SESSION_EXISTS, the lock of the second factor, and whether the roles of *)
(* the user call for one.  After verify2fa only the first is left.         *)
CheckActive(r) ==
  /\ At(r, "checkActive")
  /\ IF ActiveSession(Me(r)) THEN Finish(r)
     ELSE IF Saw(r) = None THEN Goto(r, "open", None)
     ELSE IF Saw(r).otpLocked THEN Finish(r)
     ELSE Goto(r, "open", None) \/ Goto(r, "challenge", None)
  /\ UNCHANGED authTables

(* createUserSession                                                       *)
OpenSession(r) ==
  /\ At(r, "open")
  /\ \E s \in Sessions :
       /\ sessions[s] = NoSession
       /\ sessions' = [sessions EXCEPT
            ![s] = [status |-> "LIVE", owner |-> Me(r), grant |-> None]]
  /\ Finish(r)
  /\ UNCHANGED <<accounts, challenges, tokens, grants>>

SendChallenge(r) ==
  /\ At(r, "challenge")
  /\ \E c \in Challenges :
       /\ challenges[c] = Unused
       /\ challenges' = [challenges EXCEPT ![c] = [status |-> "OPEN", owner |-> Me(r)]]
  /\ Finish(r)
  /\ UNCHANGED <<accounts, sessions, tokens, grants>>

-----------------------------------------------------------------------------
(* verify2fa                                                               *)

Verify(r, c, correct) ==
  LET a == challenges[c].owner IN
  /\ challenges[c].status = "OPEN"
  /\ accounts[a].active /\ ~accounts[a].otpLocked
  /\ Begin(r, IF correct THEN "consume" ELSE "wrongCode", a, c, accounts[a])
  /\ UNCHANGED authTables

WrongCode(r) ==
  LET n == OneMore(Saw(r).otpAttempts) IN
  /\ At(r, "wrongCode")
  /\ accounts' = [accounts EXCEPT
       ![Me(r)] = [@ EXCEPT !.otpAttempts = n, !.otpLocked = n >= MaxAttempts]]
  /\ Finish(r)
  /\ UNCHANGED <<sessions, challenges, tokens, grants>>

Consume(r) ==
  /\ At(r, "consume")
  /\ challenges' = [challenges EXCEPT ![running[r].by].status = "OVER"]
  /\ Goto(r, "clearOtp", None)
  /\ UNCHANGED <<accounts, sessions, tokens, grants>>

ClearOtp(r) ==
  /\ At(r, "clearOtp")
  /\ accounts' = [accounts EXCEPT
       ![Me(r)] = [@ EXCEPT !.otpAttempts = 0, !.otpLocked = FALSE]]
  /\ Goto(r, "revokeStale", None)
  /\ UNCHANGED <<sessions, challenges, tokens, grants>>

-----------------------------------------------------------------------------
(* New passwords and unlocking.                                            *)

RequestReset(r, a) ==
  /\ accounts[a].active
  /\ AtOnce(r)
  /\ \E t \in Tokens :
       /\ tokens[t] = Unused
       /\ tokens' = [tokens EXCEPT ![t] = [status |-> "OPEN", owner |-> a]]
  /\ UNCHANGED <<accounts, sessions, challenges, grants>>

ResetPassword(r, t) ==
  /\ tokens[t].status = "OPEN" /\ accounts[tokens[t].owner].active
  /\ Begin(r, "consumeToken", tokens[t].owner, t, None)
  /\ UNCHANGED authTables

ConsumeToken(r) ==
  /\ At(r, "consumeToken")
  /\ tokens' = [tokens EXCEPT ![running[r].by].status = "OVER"]
  /\ Goto(r, "newPassword", None)
  /\ UNCHANGED <<accounts, sessions, challenges, grants>>

(* forceChangePassword                                                     *)
ForceChange(r, a) ==
  /\ accounts[a].active /\ accounts[a].mustChange
  /\ Begin(r, "newPassword", a, a, None)
  /\ UNCHANGED authTables

WritePassword(r) ==
  /\ At(r, "newPassword")
  /\ accounts' = [accounts EXCEPT ![Me(r)] = WithNewPassword(@)]
  /\ Goto(r, "revokeAll", None)
  /\ UNCHANGED <<sessions, challenges, tokens, grants>>

(* revokeAllUserSessions                                                   *)
RevokeAll(r) ==
  /\ At(r, "revokeAll")
  /\ sessions' = SetStatus(SessionsOf(Me(r)), "REVOKED")
  /\ Finish(r)
  /\ UNCHANGED <<accounts, challenges, tokens, grants>>

(* adminUnlockUser, unlockUserFromRequest                                  *)
Unlock(r, a) ==
  /\ AtOnce(r)
  /\ accounts' = [accounts EXCEPT ![a] = Unlocked(@)]
  /\ UNCHANGED <<sessions, challenges, tokens, grants>>

(* updateUserStatus; Administration has its rules.  Sessions stay.         *)
SetActive(r, a, active) ==
  /\ AtOnce(r)
  /\ accounts' = [accounts EXCEPT ![a].active = active]
  /\ UNCHANGED <<sessions, challenges, tokens, grants>>

-----------------------------------------------------------------------------
(* Requests within a session.                                              *)

InForce(g) == g # None => grants[g].status = "OPEN"

(* JwtAuthGuard reads the session, its delegation, and then writes         *)
(* lastSeenAt; next: what the request does once it is let through.         *)
Guard(r, s, next) ==
  /\ sessions[s].status = "LIVE" /\ InForce(sessions[s].grant)
  /\ Begin(r, "touch", sessions[s].owner, s, next)
  /\ UNCHANGED authTables

(* refresh: as the guard, for accounts that are active.                    *)
Refresh(r, s) ==
  /\ sessions[s].status = "LIVE" /\ accounts[sessions[s].owner].active
  /\ Begin(r, "touch", sessions[s].owner, s, None)
  /\ UNCHANGED authTables

(* The guard and refresh revoke a session that was idle for too long.      *)
FoundIdle(r, s) ==
  /\ sessions[s].status = "IDLE"
  /\ Begin(r, "logout", sessions[s].owner, s, None)
  /\ UNCHANGED authTables

Touch(r) ==
  LET s == running[r].by IN
  /\ At(r, "touch")
  /\ sessions' = IF sessions[s].status = "EXPIRED" THEN sessions ELSE SetStatus({s}, "LIVE")
  /\ IF Saw(r) = None THEN Finish(r) ELSE Goto(r, Saw(r), None)
  /\ UNCHANGED <<accounts, challenges, tokens, grants>>

Logout(r) ==
  /\ At(r, "logout")
  /\ sessions' = SetStatus({running[r].by}, "REVOKED")
  /\ Finish(r)
  /\ UNCHANGED <<accounts, challenges, tokens, grants>>

(* activateDelegation: the delegation is in force when it is read.         *)
Activate(r, g) ==
  /\ At(r, "activate")
  /\ accounts[Me(r)].active
  /\ grants[g].status = "OPEN" /\ grants[g].owner = Me(r)
  /\ Goto(r, "actAs", g)
  /\ UNCHANGED authTables

ActAs(r) ==
  LET s == running[r].by IN
  /\ At(r, "actAs")
  /\ sessions' = IF Unrevoked(s) THEN [sessions EXCEPT ![s].grant = Saw(r)] ELSE sessions
  /\ Finish(r)
  /\ UNCHANGED <<accounts, challenges, tokens, grants>>

(* createDelegation, owner being the delegate; revokeDelegation.           *)
CreateGrant(r, a, g) ==
  /\ a \in Accounts => accounts[a].active
  /\ grants[g] = Unused
  /\ AtOnce(r)
  /\ grants' = [grants EXCEPT ![g] = [status |-> "OPEN", owner |-> a]]
  /\ UNCHANGED <<accounts, sessions, challenges, tokens>>

EndGrant(g) ==
  /\ grants[g].status = "OPEN"
  /\ grants' = [grants EXCEPT ![g].status = "OVER"]
  /\ UNCHANGED <<accounts, sessions, challenges, tokens, handlerVars>>

-----------------------------------------------------------------------------
(* Time passes: a session idles or expires, a code or token expires, a     *)
(* password gets too old, the lock of the second factor runs out.          *)
SessionAges(s) ==
  /\ \/ sessions[s].status = "LIVE" /\ sessions' = SetStatus({s}, "IDLE")
     \/ sessions[s].status \in {"LIVE", "IDLE"} /\ sessions' = SetStatus({s}, "EXPIRED")
  /\ UNCHANGED <<accounts, challenges, tokens, grants, handlerVars>>

ChallengeExpires(c) ==
  /\ challenges[c].status = "OPEN"
  /\ challenges' = [challenges EXCEPT ![c].status = "OVER"]
  /\ UNCHANGED <<accounts, sessions, tokens, grants, handlerVars>>

TokenExpires(t) ==
  /\ tokens[t].status = "OPEN"
  /\ tokens' = [tokens EXCEPT ![t].status = "OVER"]
  /\ UNCHANGED <<accounts, sessions, challenges, grants, handlerVars>>

AccountAges(a) ==
  /\ \/ accounts' = [accounts EXCEPT ![a].mustChange = TRUE]
     \/ accounts' = [accounts EXCEPT ![a].otpLocked = FALSE]
  /\ UNCHANGED <<sessions, challenges, tokens, grants, handlerVars>>

TimePasses ==
  \/ \E s \in Sessions : SessionAges(s)
  \/ \E c \in Challenges : ChallengeExpires(c)
  \/ \E t \in Tokens : TokenExpires(t)
  \/ \E a \in Accounts : AccountAges(a)
  \/ \E g \in Grants : EndGrant(g)

LoginStep(r) ==
  \/ \E a \in Accounts, correct \in BOOLEAN : Login(r, a, correct)
  \/ \E c \in Challenges, correct \in BOOLEAN : Verify(r, c, correct)
  \/ WriteFailure(r) \/ Welcome(r) \/ RevokeStale(r) \/ CheckActive(r) \/ OpenSession(r)
  \/ SendChallenge(r) \/ WrongCode(r) \/ Consume(r) \/ ClearOtp(r)

PasswordStep(r) ==
  \/ \E a \in Accounts :
       \/ RequestReset(r, a) \/ ForceChange(r, a) \/ Unlock(r, a)
       \/ \E active \in BOOLEAN : SetActive(r, a, active)
  \/ \E t \in Tokens : ResetPassword(r, t)
  \/ ConsumeToken(r) \/ WritePassword(r) \/ RevokeAll(r)

SessionStep(r) ==
  \/ \E s \in Sessions :
       \/ \E next \in {None, "logout", "activate"} : Guard(r, s, next)
       \/ Refresh(r, s) \/ FoundIdle(r, s)
  \/ \E a \in Accounts \cup {None}, g \in Grants : CreateGrant(r, a, g)
  \/ \E g \in Grants : Activate(r, g)
  \/ Touch(r) \/ Logout(r) \/ ActAs(r)

AccountsStep ==
  \/ TimePasses
  \/ \E r \in Requests :
       \/ LoginStep(r) \/ PasswordStep(r) \/ SessionStep(r)
       \/ Fail(r) /\ UNCHANGED authTables

AuthInit == AccountsInit /\ HandlersInit

AccountsSpec == AuthInit /\ [][AccountsStep]_authVars

-----------------------------------------------------------------------------
(* However logins, resets and unlocks overlap, the lock is on exactly when *)
(* the stored count has reached the threshold: an account is never locked  *)
(* with attempts left, nor open with none.                                 *)
LockMatchesCount ==
  \A a \in Accounts :
    /\ accounts[a].locked <=> accounts[a].attempts = MaxAttempts
    /\ accounts[a].otpLocked => accounts[a].otpAttempts = MaxAttempts

(* One request at a time: "This account is already logged in on another    *)
(* device": whichever way it logs in, with or without a second factor, an  *)
(* account has one live session.                                           *)
OneLiveSession ==
  ~overlap => \A a \in Accounts :
    Cardinality({s \in SessionsOf(a) : sessions[s].status = "LIVE"}) <= 1

(* However requests overlap, a revoked session never comes back, not by a  *)
(* lastSeenAt or a delegation that is written late.                        *)
RevokedStays ==
  [][\A s \in Sessions : sessions[s].status = "REVOKED" => sessions'[s] = sessions[s]]_authVars

(* One request at a time: no login opens a locked account; only an         *)
(* administrator or a new password does.                                   *)
LockHolds ==
  [][~overlap => \A a \in Accounts :
       accounts[a].locked /\ ~accounts'[a].locked =>
         Quiet \/ \E r \in Requests : At(r, "newPassword") /\ Me(r) = a]_authVars

=============================================================================
