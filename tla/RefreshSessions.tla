--------------------------- MODULE RefreshSessions ---------------------------
(***************************************************************************)
(* Refresh tokens and active sessions: the requests of app/services/auth.py *)
(* that issue, rotate and revoke them, interleaved at the database          *)
(* statements they await.                                                   *)
(*                                                                          *)
(* Every request runs in a database transaction of its own (READ COMMITTED).*)
(* A SELECT sees the committed rows.  An UPDATE or DELETE locks its row     *)
(* until the transaction ends, and one that meets a locked row waits and    *)
(* then looks at the row again.  A transaction's writes become visible when *)
(* it commits and are discarded if the request ends before that.  So the    *)
(* variables below hold COMMITTED rows, the lock tables say which rows have *)
(* an uncommitted write, and a commit applies the writes it holds locks on. *)
(*                                                                          *)
(* The hash of a refresh token is fresh, and a request issues at most one,  *)
(* so a token is named by the request that issues it, and so is a row of    *)
(* active_sessions by the request that inserts it.                          *)
(***************************************************************************)
EXTENDS Naturals, FiniteSets

CONSTANTS
    User,       \* rows of users
    Login,      \* calls of POST /auth/login
    Refresh,    \* calls of POST /auth/refresh
    Logout,     \* calls of POST /auth/logout
    Reset,      \* calls of POST /auth/reset-password
    Nil         \* no request, no row

Request == Login \cup Refresh \cup Logout \cup Reset

\* The requests that insert a refresh token, and hence the tokens.
Token == Login \cup Refresh

ASSUME KindsDisjoint ==
    /\ Login \cap (Refresh \cup Logout \cup Reset) = {}
    /\ Refresh \cap (Logout \cup Reset) = {}
    /\ Logout \cap Reset = {}

ASSUME NilIsNone == Nil \notin Request \cup User

VARIABLES
    issued,     \* committed rows of refresh_tokens
    revoked,    \* those whose column revoked is true
    expired,    \* those whose expires_at has passed
    sess,       \* active_sessions: row -> refresh_token_hash, Nil if no row
    pwd,        \* users.password_hash, named by the reset that wrote it
    pc,         \* where each request is
    tok,        \* refresh and logout: the token presented
    owner,      \* the user a request acts for (user_id of what it inserts)
    cred,       \* the password a request's token goes back to
    sawRevoked, \* logout: the value of rt.revoked it has read
    row,        \* refresh and logout: the session row found, or Nil
    targets,    \* reset: the tokens its bulk UPDATE is to revoke
    sTargets,   \* reset: the sessions its bulk DELETE is to remove
    rtLock,     \* refresh_tokens row -> transaction that has written it
    sessLock    \* active_sessions row -> transaction that has deleted it

rows  == <<issued, revoked, expired, sess, pwd>>
known == <<tok, owner, cred, sawRevoked>>
vars  == <<rows, pc, known, row, targets, sTargets, rtLock, sessLock>>

\* "lost": committed, but the response never reached the client.
Ended    == {"done", "lost"}
InFlight == {"read", "flushed", "found", "marking", "sweeping"}

TypeOK ==
    /\ issued \subseteq Token
    /\ revoked \subseteq issued
    /\ expired \subseteq issued
    /\ sess \in [Token -> Token \cup {Nil}]
    /\ pwd \in [User -> Reset \cup {Nil}]
    /\ pc \in [Request -> {"idle"} \cup InFlight \cup Ended]
    /\ tok \in [Request -> Token \cup {Nil}]
    /\ owner \in [Request -> User \cup {Nil}]
    /\ cred \in [Request -> Reset \cup {Nil}]
    /\ sawRevoked \in [Request -> BOOLEAN]
    /\ row \in [Request -> Token \cup {Nil}]
    /\ targets \in [Request -> SUBSET Token]
    /\ sTargets \in [Request -> SUBSET Token]
    /\ rtLock \in [Token -> Request \cup {Nil}]
    /\ sessLock \in [Token -> Request \cup {Nil}]

Init ==
    /\ issued = {} /\ revoked = {} /\ expired = {}
    /\ sess = [s \in Token |-> Nil]
    /\ pwd = [u \in User |-> Nil]
    /\ pc = [r \in Request |-> "idle"]
    /\ tok = [r \in Request |-> Nil]
    /\ owner = [r \in Request |-> Nil]
    /\ cred = [r \in Request |-> Nil]
    /\ sawRevoked = [r \in Request |-> FALSE]
    /\ row = [r \in Request |-> Nil]
    /\ targets = [r \in Request |-> {}]
    /\ sTargets = [r \in Request |-> {}]
    /\ rtLock = [t \in Token |-> Nil]
    /\ sessLock = [s \in Token |-> Nil]

-----------------------------------------------------------------------------
(* The rows and the transactions.                                          *)

Live == issued \ revoked

\* (Fault: the token is handed out before its INSERT commits.)
DeliveredEarly == {t \in Token : pc[t] \in Ended \cup {"read"}}

\* A client can present a token once a response has carried it there.
Delivered == {t \in issued : pc[t] = "done"}

\* (Fault: a lookup that never finds the row, as with an un-hashed token.)
NoSessionOf(t) == {}

\* The row of active_sessions a SELECT by hash returns.
SessionOf(t) == {s \in Token : sess[s] = t}

HeldTokens(r)   == {t \in Token : rtLock[t] = r}
HeldSessions(r) == {s \in Token : sessLock[s] = r}

\* (Fault: the new password is written last, after both bulk statements.)
UserLockedLate(u) == \E r \in Reset : owner[r] = u /\ pc[r] = "sweeping"

\* A reset holds its users row from its flush on.
UserLocked(u) == \E r \in Reset : owner[r] = u /\ pc[r] \in {"marking", "sweeping"}

Go(r, where) == pc' = [pc EXCEPT ![r] = where]

\* The locks a transaction's end gives up.
ReleaseLocks(r) ==
    /\ rtLock' = [t \in Token |-> IF rtLock[t] = r THEN Nil ELSE rtLock[t]]
    /\ sessLock' = [s \in Token |-> IF sessLock[s] = r THEN Nil ELSE sessLock[s]]

\* (Fault: a rotation that leaves the old token valid.)
CommitNoRotation(r) ==
    revoked' = revoked \cup {t \in HeldTokens(r) : r \notin Refresh}

\* Every lock on a refresh token stands for an uncommitted revoked = true.
CommitRevocations(r) == revoked' = revoked \cup HeldTokens(r)

\* What a transaction noted for itself and no longer needs.
ForgetReads(r) ==
    /\ row' = [row EXCEPT ![r] = Nil]
    /\ targets' = [targets EXCEPT ![r] = {}]
    /\ sTargets' = [sTargets EXCEPT ![r] = {}]

\* (Fault: an error path that returns its connection without a rollback.)
RollbackKeepingLocks(r) ==
    /\ Go(r, "idle")
    /\ UNCHANGED <<rows, known, row, targets, sTargets, rtLock, sessLock>>

\* The session is closed without a commit.  Nothing of the request remains,
\* so its name serves for the client's next attempt.
Rollback(r) ==
    /\ Go(r, "idle")
    /\ tok' = [tok EXCEPT ![r] = Nil]
    /\ owner' = [owner EXCEPT ![r] = Nil]
    /\ cred' = [cred EXCEPT ![r] = Nil]
    /\ sawRevoked' = [sawRevoked EXCEPT ![r] = FALSE]
    /\ ForgetReads(r)
    /\ ReleaseLocks(r)
    /\ UNCHANGED rows

-----------------------------------------------------------------------------
(* POST /auth/login: AuthService.login, then create_refresh_token.          *)

\* SELECT the user and check the password the client gave against its hash.
LoginCheck(r) ==
    /\ pc[r] = "idle"
    /\ \E u \in User :
         /\ owner' = [owner EXCEPT ![r] = u]
         /\ cred' = [cred EXCEPT ![r] = pwd[u]]
    /\ Go(r, "read")
    /\ UNCHANGED <<rows, tok, sawRevoked, row, targets, sTargets, rtLock, sessLock>>

\* (Fault: the session row is forgotten.)
LoginCommitNoSession(r) ==
    /\ pc[r] = "read"
    /\ issued' = issued \cup {r}
    /\ \E end \in Ended : Go(r, end)
    /\ UNCHANGED <<revoked, expired, sess, pwd, known, row, targets, sTargets,
                   rtLock, sessLock>>

\* INSERT the token and its session, COMMIT.  The response may get lost.
LoginCommit(r) ==
    /\ pc[r] = "read"
    /\ issued' = issued \cup {r}
    /\ sess' = [sess EXCEPT ![r] = r]
    /\ \E end \in Ended : Go(r, end)
    /\ UNCHANGED <<revoked, expired, pwd, known, row, targets, sTargets,
                   rtLock, sessLock>>

-----------------------------------------------------------------------------
(* POST /auth/refresh: AuthService.refresh_access_token.                    *)

\* SELECT the token; go on only if it is neither revoked nor expired.
RefreshSelect(r) ==
    /\ pc[r] = "idle"
    /\ \E t \in Delivered \ (revoked \cup expired) :
         /\ tok' = [tok EXCEPT ![r] = t]
         /\ owner' = [owner EXCEPT ![r] = owner[t]]
         /\ cred' = [cred EXCEPT ![r] = cred[t]]
    /\ Go(r, "read")
    /\ UNCHANGED <<rows, sawRevoked, row, targets, sTargets, rtLock, sessLock>>

\* Autoflush: INSERT the new token, UPDATE the old one's revoked.
RefreshFlush(r) ==
    /\ pc[r] = "read"
    /\ rtLock[tok[r]] = Nil
    /\ rtLock' = [rtLock EXCEPT ![tok[r]] = r]
    /\ Go(r, "flushed")
    /\ UNCHANGED <<rows, known, row, targets, sTargets, sessLock>>

\* SELECT the session by the old hash.
SelectSession(r) ==
    /\ pc[r] = "flushed"
    /\ row' = [row EXCEPT ![r] =
                 IF SessionOf(tok[r]) = {} THEN Nil
                 ELSE CHOOSE s \in SessionOf(tok[r]) : TRUE]
    /\ Go(r, "found")
    /\ UNCHANGED <<rows, known, targets, sTargets, rtLock, sessLock>>

\* (Fault: a new session is inserted besides the one updated.)
RefreshCommitBoth(r) ==
    /\ pc[r] = "found"
    /\ row[r] # Nil => sessLock[row[r]] = Nil /\ sess[row[r]] # Nil
    /\ sess' = [s \in Token |-> IF s \in {r, row[r]} THEN r ELSE sess[s]]
    /\ issued' = issued \cup {r}
    /\ CommitRevocations(r)
    /\ \E end \in Ended : Go(r, end)
    /\ ForgetReads(r)
    /\ ReleaseLocks(r)
    /\ UNCHANGED <<expired, pwd, known>>

\* UPDATE the session found, or INSERT one if none was, and COMMIT.
RefreshCommit(r) ==
    /\ pc[r] = "found"
    /\ \/ /\ row[r] # Nil
          /\ sessLock[row[r]] = Nil
          /\ sess[row[r]] # Nil
          /\ sess' = [sess EXCEPT ![row[r]] = r]
       \/ /\ row[r] = Nil
          /\ sess' = [sess EXCEPT ![r] = r]
    /\ issued' = issued \cup {r}
    /\ CommitRevocations(r)
    /\ \E end \in Ended : Go(r, end)
    /\ ForgetReads(r)
    /\ ReleaseLocks(r)
    /\ UNCHANGED <<expired, pwd, known>>

\* The session found has been deleted: the UPDATE matches no row, SQLAlchemy
\* raises StaleDataError, the request answers 500 and is rolled back.
RefreshStale(r) ==
    /\ pc[r] = "found"
    /\ row[r] # Nil
    /\ sessLock[row[r]] = Nil
    /\ sess[row[r]] = Nil
    /\ Rollback(r)

-----------------------------------------------------------------------------
(* POST /auth/logout: AuthService.logout.                                   *)

\* SELECT the token.  Neither revocation nor expiry is looked at.
LogoutSelect(r) ==
    /\ pc[r] = "idle"
    /\ \E t \in Delivered :
         /\ tok' = [tok EXCEPT ![r] = t]
         /\ owner' = [owner EXCEPT ![r] = owner[t]]
         /\ sawRevoked' = [sawRevoked EXCEPT ![r] = (t \in revoked)]
    /\ Go(r, "read")
    /\ UNCHANGED <<rows, cred, row, targets, sTargets, rtLock, sessLock>>

\* (Fault: the session is removed and the token left valid.)
LogoutFlushNothing(r) ==
    /\ pc[r] = "read"
    /\ Go(r, "flushed")
    /\ UNCHANGED <<rows, known, row, targets, sTargets, rtLock, sessLock>>

\* Autoflush: an UPDATE only if revoked was read as false, since setting an
\* attribute to the value it has leaves nothing to flush.
LogoutFlush(r) ==
    /\ pc[r] = "read"
    /\ IF sawRevoked[r]
       THEN UNCHANGED rtLock
       ELSE /\ rtLock[tok[r]] = Nil
            /\ rtLock' = [rtLock EXCEPT ![tok[r]] = r]
    /\ Go(r, "flushed")
    /\ UNCHANGED <<rows, known, row, targets, sTargets, sessLock>>

\* DELETE the session found (a row that is gone only warns), COMMIT.
LogoutCommit(r) ==
    /\ pc[r] = "found"
    /\ IF row[r] = Nil
       THEN UNCHANGED sess
       ELSE /\ sessLock[row[r]] = Nil
            /\ sess' = [sess EXCEPT ![row[r]] = Nil]
    /\ CommitRevocations(r)
    /\ Go(r, "done")
    /\ ForgetReads(r)
    /\ ReleaseLocks(r)
    /\ UNCHANGED <<issued, expired, pwd, known>>

-----------------------------------------------------------------------------
(* POST /auth/reset-password: AuthService.reset_password, once it has found *)
(* the reset link valid.                                                    *)

\* SELECT the link and its user; hash the new password.
ResetSelect(r) ==
    /\ pc[r] = "idle"
    /\ \E u \in User : owner' = [owner EXCEPT ![r] = u]
    /\ Go(r, "read")
    /\ UNCHANGED <<rows, tok, cred, sawRevoked, row, targets, sTargets,
                   rtLock, sessLock>>

\* Autoflush: UPDATE users.  Then the bulk UPDATE of refresh_tokens begins
\* and its snapshot fixes the rows it is to revoke.
ResetFlush(r) ==
    /\ pc[r] = "read"
    /\ ~UserLocked(owner[r])
    /\ targets' = [targets EXCEPT ![r] = {t \in Live : owner[t] = owner[r]}]
    /\ Go(r, "marking")
    /\ UNCHANGED <<rows, known, row, sTargets, rtLock, sessLock>>

\* (Fault: FOR UPDATE SKIP LOCKED, which passes over tokens in use.)
ToMarkUnlocked(r) ==
    {t \in targets[r] \ revoked : rtLock[t] = Nil}

\* (Fault: only tokens that have not expired are revoked.)
ToMarkUnexpired(r) == targets[r] \ (HeldTokens(r) \cup revoked \cup expired)

\* Tokens of the snapshot not locked yet and, looked at again, not revoked.
ToMark(r) == targets[r] \ (HeldTokens(r) \cup revoked)

ResetMark(r) ==
    /\ pc[r] = "marking"
    /\ \E t \in ToMark(r) :
         /\ rtLock[t] = Nil
         /\ rtLock' = [rtLock EXCEPT ![t] = r]
    /\ UNCHANGED <<rows, pc, known, row, targets, sTargets, sessLock>>

\* (Fault: a DELETE without its WHERE.)
ResetSelectEverySession(r) ==
    /\ pc[r] = "marking"
    /\ ToMark(r) = {}
    /\ sTargets' = [sTargets EXCEPT ![r] = {s \in Token : sess[s] # Nil}]
    /\ Go(r, "sweeping")
    /\ UNCHANGED <<rows, known, row, targets, rtLock, sessLock>>

\* The bulk DELETE of active_sessions begins, with a snapshot of its own.
ResetSelectSessions(r) ==
    /\ pc[r] = "marking"
    /\ ToMark(r) = {}
    /\ sTargets' = [sTargets EXCEPT ![r] =
                      {s \in Token : sess[s] # Nil /\ owner[s] = owner[r]}]
    /\ Go(r, "sweeping")
    /\ UNCHANGED <<rows, known, row, targets, rtLock, sessLock>>

\* Sessions of that snapshot not locked yet and, looked at again, still there.
ToSweep(r) == {s \in sTargets[r] \ HeldSessions(r) : sess[s] # Nil}

ResetSweep(r) ==
    /\ pc[r] = "sweeping"
    /\ \E s \in ToSweep(r) :
         /\ sessLock[s] = Nil
         /\ sessLock' = [sessLock EXCEPT ![s] = r]
    /\ UNCHANGED <<rows, pc, known, row, targets, sTargets, rtLock>>

ResetCommit(r) ==
    /\ pc[r] = "sweeping"
    /\ ToSweep(r) = {}
    /\ pwd' = [pwd EXCEPT ![owner[r]] = r]
    /\ sess' = [s \in Token |-> IF s \in HeldSessions(r) THEN Nil ELSE sess[s]]
    /\ CommitRevocations(r)
    /\ Go(r, "done")
    /\ ForgetReads(r)
    /\ ReleaseLocks(r)
    /\ UNCHANGED <<issued, expired, known>>

-----------------------------------------------------------------------------
(* What may happen to any request, and the clock.                           *)

\* The process, the connection or the client goes away before the COMMIT.
Abort(r) == pc[r] \in InFlight /\ Rollback(r)

Expire(t) ==
    /\ t \in issued \ expired
    /\ expired' = expired \cup {t}
    /\ UNCHANGED <<issued, revoked, sess, pwd, pc, known, row, targets,
                   sTargets, rtLock, sessLock>>

-----------------------------------------------------------------------------
\* A request whose first SELECT refuses it (wrong password; token unknown,
\* revoked or expired; link invalid) has changed nothing: it stays "idle".
Begin(r) ==
    \/ r \in Login /\ LoginCheck(r)
    \/ r \in Refresh /\ RefreshSelect(r)
    \/ r \in Logout /\ LogoutSelect(r)
    \/ r \in Reset /\ ResetSelect(r)

Continue(r) ==
    \/ r \in Login /\ LoginCommit(r)
    \/ r \in Refresh /\ (RefreshFlush(r) \/ SelectSession(r)
                           \/ RefreshCommit(r) \/ RefreshStale(r))
    \/ r \in Logout /\ (LogoutFlush(r) \/ SelectSession(r) \/ LogoutCommit(r))
    \/ r \in Reset /\ (ResetFlush(r) \/ ResetMark(r) \/ ResetSelectSessions(r)
                         \/ ResetSweep(r) \/ ResetCommit(r))

Step(r) == Begin(r) \/ Continue(r) \/ Abort(r)

\* No request is under way; the service may stay like this for ever.
Quiescent ==
    /\ \A r \in Request : pc[r] \notin InFlight
    /\ UNCHANGED vars

Next ==
    \/ \E r \in Request : Step(r)
    \/ \E t \in Token : Expire(t)
    \/ Quiescent

\* The event loop gets round to every request that can go on.  Strong, not
\* weak, because of the row locks: PostgreSQL queues the transactions that
\* wait for a row, so one is not overtaken for ever by later ones that take
\* the lock and roll back.  All other steps stay enabled until they are taken.
Fairness == \A r \in Request : SF_vars(Continue(r))

Spec == Init /\ [][Next]_vars /\ Fairness

\* One request at a time: the circumstances of the test suite, where a
\* request ends before the next begins.
SerialNext ==
    \/ \E r \in Request :
         /\ \A q \in Request \ {r} : pc[q] \notin InFlight
         /\ Step(r)
    \/ \E t \in Token : Expire(t)
    \/ Quiescent

SerialSpec == Init /\ [][SerialNext]_vars /\ Fairness

-----------------------------------------------------------------------------
(* What must hold whatever the interleaving.                                *)

\* A row of active_sessions always carries the hash of a token that has not
\* been revoked: rotation, logout and reset each change both tables in one
\* commit, although they read and lock them one statement at a time.
SessionsBackedByLiveToken ==
    \A s \in Token : sess[s] # Nil => sess[s] \in Live

\* No two sessions carry the same hash: the commits never meet the unique
\* constraint of active_sessions.refresh_token_hash, which would be a 500.
SessionHashUnique ==
    \A s1, s2 \in Token : sess[s1] # Nil /\ sess[s1] = sess[s2] => s1 = s2

\* A token that has been rotated is revoked: there is never a moment at which
\* both the old token and its replacement are accepted, even if a logout or a
\* reset of the same account is under way or the response was lost.
RotatedIsRevoked ==
    \A t \in issued \cap Refresh : tok[t] \in revoked

\* A password never changes without, in the same commit, the revocation of
\* every token its bulk UPDATE saw and the removal of those tokens' sessions.
ResetIsAllOrNothing ==
    [][\A u \in User : pwd'[u] # pwd[u] =>
         \A t \in targets[pwd'[u]] :
            t \in revoked' /\ \A s \in Token : sess'[s] # t]_vars

\* The rows a transaction is about to write, and so may have to wait for: of
\* refresh_tokens,
NextTokens(r) ==
    {t \in Token :
        \/ r \in Refresh \cup Logout /\ pc[r] = "read" /\ ~sawRevoked[r] /\ t = tok[r]
        \/ r \in Reset /\ pc[r] = "marking" /\ t \in ToMark(r)}

\* and of active_sessions.
NextSessions(r) ==
    {s \in Token :
        \/ r \in Refresh \cup Logout /\ pc[r] = "found" /\ s = row[r]
        \/ r \in Reset /\ pc[r] = "sweeping" /\ s \in ToSweep(r)}

\* The transactions that hold those rows, or the row of the user.
WaitsFor(r) ==
    {q \in Request :
        \/ \E t \in NextTokens(r) : rtLock[t] = q
        \/ \E s \in NextSessions(r) : sessLock[s] = q
        \/ /\ r \in Reset /\ pc[r] = "read"
           /\ q \in Reset /\ pc[q] \in {"marking", "sweeping"} /\ owner[q] = owner[r]}

Stage == [read |-> 1, marking |-> 2, flushed |-> 3, found |-> 3, sweeping |-> 4]

\* Whoever waits, waits for transactions that are nearer to their commit than
\* itself, whichever of its rows a bulk statement comes to first: users, then
\* refresh_tokens, then active_sessions.  So nobody waits in a circle, and no
\* line of waiting requests is longer than the stages, whatever their number.
WaitsForLaterStages ==
    \A r \in Request : \A q \in WaitsFor(r) :
        pc[q] \in InFlight /\ Stage[pc[r]] < Stage[pc[q]]

\* Every request that has begun commits or is rolled back: no two requests
\* wait for each other's row locks, and none waits for a lock that is never
\* given up.
EveryRequestEnds ==
    \A r \in Request : (pc[r] \in InFlight) ~> (pc[r] \notin InFlight)

-----------------------------------------------------------------------------
(* What the requests amount to: the register of SessionRegistry.            *)

Registry == INSTANCE SessionRegistry WITH
    Password <- Reset,
    account  <- [t \in Token |-> IF t \in issued THEN owner[t] ELSE Nil],
    live     <- Live,
    tracked  <- {sess[s] : s \in {q \in Token : sess[q] # Nil}},
    password <- pwd

\* However the statements of logins, refreshes, logouts and resets interleave,
\* block each other and are rolled back, each commit is one change of the
\* register: a token and its session change together, a rotation leaves one of
\* its two tokens live, and no request ever touches another account.
ImplementsRegistry == Registry!Spec

-----------------------------------------------------------------------------
(* The inductive invariant the safety properties rest on.                   *)

\* A token exists from the commit of the request that issues it, and what a
\* request acts on exists: presented tokens, reset targets, found sessions.
RowsExist ==
    /\ \A t \in Token : t \in issued <=> pc[t] \in Ended
    /\ \A r \in Refresh \cup Logout : pc[r] # "idle" => tok[r] \in issued
    /\ \A r \in Request : row[r] # Nil => row[r] \in issued
    /\ \A r \in Request : targets[r] \subseteq issued
    /\ \A s \in Token : sess[s] # Nil => s \in issued

\* user_id is inherited: by a rotated token and by a session from the token
\* it tracks; a reset's targets are tokens of its own user.
OwnersAgree ==
    /\ \A r \in Refresh : pc[r] # "idle" => owner[r] = owner[tok[r]]
    /\ \A s \in Token : sess[s] # Nil => owner[s] = owner[sess[s]]
    /\ \A r \in Reset : pc[r] \in {"marking", "sweeping"} =>
         \A t \in targets[r] : owner[t] = owner[r]

\* Only a transaction that is past its UPDATE or DELETE of a row locks it.
LocksOwned ==
    /\ \A t \in Token : rtLock[t] # Nil =>
         LET r == rtLock[t] IN
         \/ /\ r \in Refresh \cup Logout
            /\ pc[r] \in {"flushed", "found"}
            /\ tok[r] = t
         \/ r \in Reset /\ pc[r] \in {"marking", "sweeping"} /\ t \in targets[r]
    /\ \A s \in Token : sessLock[s] # Nil =>
         sessLock[s] \in Reset /\ pc[sessLock[s]] = "sweeping"

\* A transaction that is past its UPDATE of a token holds the row, unless the
\* row was already revoked.
WritesLocked ==
    /\ \A r \in Refresh : pc[r] \in {"flushed", "found"} => rtLock[tok[r]] = r
    /\ \A r \in Logout : pc[r] \in {"flushed", "found"} =>
         rtLock[tok[r]] = r \/ tok[r] \in revoked
    /\ \A r \in Logout : pc[r] # "idle" /\ sawRevoked[r] => tok[r] \in revoked
    /\ \A r \in Reset : pc[r] = "sweeping" =>
         \A t \in targets[r] : rtLock[t] = r \/ t \in revoked

\* What the SELECT of the session returned is still so when it is acted on:
\* the row found has the old hash or is gone, and none has appeared.
ReadsHold ==
    \A r \in Refresh \cup Logout : pc[r] = "found" =>
        /\ row[r] # Nil => sess[row[r]] \in {tok[r], Nil}
        /\ \A s \in Token : sess[s] = tok[r] => s = row[r]

\* The sessions a reset is to delete include those of the tokens it revokes.
SweepCoversMarks ==
    \A r \in Reset : pc[r] = "sweeping" =>
        \A s \in Token : sess[s] # Nil /\ rtLock[sess[s]] = r => s \in sTargets[r]

SessionInv ==
    /\ TypeOK /\ RowsExist /\ OwnersAgree /\ LocksOwned /\ WritesLocked
    /\ ReadsHold /\ SweepCoversMarks
    /\ SessionsBackedByLiveToken /\ SessionHashUnique /\ RotatedIsRevoked

-----------------------------------------------------------------------------
(* What the code's comments and tests promise.  It holds while requests do  *)
(* not overlap (SerialSpec).                                                *)

\* "Rotate: new refresh token replaces the old one": a token has at most one
\* live replacement.
OneLiveReplacement ==
    \A t1, t2 \in Live \cap Refresh : tok[t1] = tok[t2] => t1 = t2

\* "after a successful password reset, revoke every active session": no live
\* token goes back to a password the account no longer has.
ResetEndsEverySession ==
    \A t \in Live : cred[t] = pwd[owner[t]]

\* "Revoke a refresh token and remove the active session": once a logout that
\* found its token live has answered, neither it nor a replacement is live.
LogoutEndsSession ==
    \A r \in Logout : pc[r] = "done" /\ ~sawRevoked[r] =>
        \A t \in Live : t # tok[r] /\ (t \in Refresh => tok[t] # tok[r])

\* All of it at once: one at a time, the requests are the strict register, in
\* which only a live token is rotated and a new password ends every token.
ImplementsStrictRegistry == Registry!StrictSpec

\* "Also creates an ActiveSession row to track the session": a live token has
\* a row of active_sessions.
LiveTokenHasSession ==
    \A t \in Live : SessionOf(t) # {}
=============================================================================
