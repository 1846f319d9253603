------------------------ MODULE RefreshRegistryProofs ------------------------
(***************************************************************************)
(* For any sets of users and requests: the requests of RefreshSessions      *)
(* implement the register of SessionRegistry and never wait for each other  *)
(* in a circle; while they do not overlap they keep what the comments and   *)
(* tests of the code promise, and implement the strict register.            *)
(***************************************************************************)
EXTENDS RefreshSessionsProofs

-----------------------------------------------------------------------------
(* What SessionInv does not say yet.                                        *)

\* A request that has begun acts for an account.
ActsForUser == \A r \in Request : pc[r] # "idle" => owner[r] \in User

\* The sessions a reset deletes are committed sessions of its own account.
SweptAreOwn ==
    /\ \A r \in Reset : pc[r] = "sweeping" =>
         \A s \in sTargets[r] : s \in issued /\ owner[s] = owner[r]
    /\ \A s \in Token : sessLock[s] # Nil => s \in sTargets[sessLock[s]]

\* A password is named by the reset that wrote it, which is over.
PasswordsOfDone == \A u \in User : pwd[u] # Nil => pc[pwd[u]] = "done"

RegistryInv == ActsForUser /\ SweptAreOwn /\ PasswordsOfDone

LEMMA RegistryInvInit == Init => RegistryInv
  BY NilIsNone DEF Init, RegistryInv, ActsForUser, SweptAreOwn, PasswordsOfDone, Request

LEMMA ActsForUserNext ==
  SessionInv /\ RegistryInv /\ [Next]_vars => ActsForUser'
<1> SUFFICES ASSUME TypeOK, RowsExist, ActsForUser, [Next]_vars PROVE ActsForUser'
  BY DEF SessionInv, RegistryInv
<1> USE DEF ActsForUser, TypeOK, Request, Token, Go, known, rows
<1>1. ASSUME NEW r \in Login, LoginCheck(r) \/ LoginCommit(r) PROVE ActsForUser'
  BY <1>1 DEF LoginCheck, LoginCommit, Ended
<1>2. ASSUME NEW r \in Refresh, RefreshSelect(r) PROVE ActsForUser'
  BY <1>2 DEF RefreshSelect, Delivered
<1>3. ASSUME NEW r \in Logout, LogoutSelect(r) PROVE ActsForUser'
  BY <1>3 DEF LogoutSelect, Delivered
<1>4. ASSUME NEW r \in Reset, ResetSelect(r) PROVE ActsForUser'
  BY <1>4 DEF ResetSelect
<1>5. ASSUME NEW r \in Request, pc[r] \in InFlight, Rollback(r) PROVE ActsForUser'
  BY <1>5 DEF Rollback
<1>6. ASSUME NEW r \in Refresh, RefreshFlush(r) \/ SelectSession(r) \/ RefreshCommit(r)
      PROVE ActsForUser'
  BY <1>6 DEF RefreshFlush, SelectSession, RefreshCommit, Ended
<1>7. ASSUME NEW r \in Logout, LogoutFlush(r) \/ SelectSession(r) \/ LogoutCommit(r)
      PROVE ActsForUser'
  BY <1>7 DEF LogoutFlush, SelectSession, LogoutCommit
<1>8. ASSUME NEW r \in Reset,
             ResetFlush(r) \/ ResetMark(r) \/ ResetSelectSessions(r)
               \/ ResetSweep(r) \/ ResetCommit(r)
      PROVE ActsForUser'
  BY <1>8 DEF ResetFlush, ResetMark, ResetSelectSessions, ResetSweep, ResetCommit
<1>9. ASSUME NEW t \in Token, Expire(t) PROVE ActsForUser'
  BY <1>9 DEF Expire
<1>10. UNCHANGED vars => ActsForUser'
  BY DEF vars
<1> QED BY StepCases, <1>1, <1>2, <1>3, <1>4, <1>5, <1>6, <1>7, <1>8, <1>9, <1>10

\* The account of an issued token never changes.
LEMMA OwnersStay ==
  ASSUME SessionInv, [Next]_vars, NEW t \in issued
  PROVE  t \in issued' /\ owner'[t] = owner[t]
<1> USE DEF SessionInv, TypeOK, RowsExist, Request, Token, Go, known, rows, Ended
<1>1. ASSUME NEW r \in Login, LoginCheck(r) \/ LoginCommit(r)
      PROVE  t \in issued' /\ owner'[t] = owner[t]
  BY <1>1 DEF LoginCheck, LoginCommit
<1>2. ASSUME NEW r \in Refresh, RefreshSelect(r)
      PROVE  t \in issued' /\ owner'[t] = owner[t]
  BY <1>2 DEF RefreshSelect, Delivered
<1>3. ASSUME NEW r \in Logout, LogoutSelect(r)
      PROVE  t \in issued' /\ owner'[t] = owner[t]
  BY <1>3, KindsDisjoint DEF LogoutSelect, Delivered
<1>4. ASSUME NEW r \in Reset, ResetSelect(r)
      PROVE  t \in issued' /\ owner'[t] = owner[t]
  BY <1>4, KindsDisjoint DEF ResetSelect
<1>5. ASSUME NEW r \in Request, pc[r] \in InFlight, Rollback(r)
      PROVE  t \in issued' /\ owner'[t] = owner[t]
  BY <1>5 DEF Rollback, InFlight
<1>6. ASSUME NEW r \in Refresh, RefreshFlush(r) \/ SelectSession(r) \/ RefreshCommit(r)
      PROVE  t \in issued' /\ owner'[t] = owner[t]
  BY <1>6 DEF RefreshFlush, SelectSession, RefreshCommit
<1>7. ASSUME NEW r \in Logout, LogoutFlush(r) \/ SelectSession(r) \/ LogoutCommit(r)
      PROVE  t \in issued' /\ owner'[t] = owner[t]
  BY <1>7 DEF LogoutFlush, SelectSession, LogoutCommit
<1>8. ASSUME NEW r \in Reset,
             ResetFlush(r) \/ ResetMark(r) \/ ResetSelectSessions(r)
               \/ ResetSweep(r) \/ ResetCommit(r)
      PROVE  t \in issued' /\ owner'[t] = owner[t]
  BY <1>8 DEF ResetFlush, ResetMark, ResetSelectSessions, ResetSweep, ResetCommit
<1>9. ASSUME NEW q \in Token, Expire(q) PROVE t \in issued' /\ owner'[t] = owner[t]
  BY <1>9 DEF Expire
<1>10. UNCHANGED vars => t \in issued' /\ owner'[t] = owner[t]
  BY DEF vars
<1> QED BY StepCases, <1>1, <1>2, <1>3, <1>4, <1>5, <1>6, <1>7, <1>8, <1>9, <1>10

LEMMA SweptAreOwnNext ==
  SessionInv /\ RegistryInv /\ [Next]_vars => SweptAreOwn'
<1> SUFFICES ASSUME SessionInv, SweptAreOwn, [Next]_vars PROVE SweptAreOwn'
  BY DEF RegistryInv
<1>0. TypeOK /\ RowsExist /\ LocksOwned
  BY DEF SessionInv
<1>1. \A t \in issued : t \in issued' /\ owner'[t] = owner[t]
  BY OwnersStay
<1>2. ASSUME UNCHANGED <<sTargets, sessLock>>,
             \A r \in Reset : pc[r] = "sweeping" \/ pc'[r] = "sweeping" =>
                pc[r] = pc'[r] /\ owner'[r] = owner[r]
      PROVE  SweptAreOwn'
  BY <1>0, <1>1, <1>2 DEF SweptAreOwn
<1> USE <1>0 DEF TypeOK, Request, Token, Go, known, rows
<1>3. ASSUME NEW r \in Login, LoginCheck(r) \/ LoginCommit(r) PROVE SweptAreOwn'
  BY <1>2, <1>3, KindsDisjoint DEF LoginCheck, LoginCommit
<1>4. ASSUME NEW r \in Refresh, RefreshSelect(r) \/ RefreshFlush(r) \/ SelectSession(r)
      PROVE  SweptAreOwn'
  BY <1>2, <1>4, KindsDisjoint DEF RefreshSelect, RefreshFlush, SelectSession
<1>5. ASSUME NEW r \in Logout, LogoutSelect(r) \/ LogoutFlush(r) \/ SelectSession(r)
      PROVE  SweptAreOwn'
  BY <1>2, <1>5, KindsDisjoint DEF LogoutSelect, LogoutFlush, SelectSession
<1>6. ASSUME NEW r \in Reset, ResetSelect(r) \/ ResetFlush(r) \/ ResetMark(r)
      PROVE  SweptAreOwn'
  BY <1>2, <1>6 DEF ResetSelect, ResetFlush, ResetMark
<1>7. ASSUME NEW t \in Token, Expire(t) PROVE SweptAreOwn'
  BY <1>2, <1>7 DEF Expire
\* The end of any transaction: its targets and its locks are gone.
<1>8. ASSUME NEW r \in Request, ForgetReads(r), ReleaseLocks(r), pc'[r] # "sweeping",
             \A q \in Reset \ {r} : pc'[q] = pc[q] /\ owner'[q] = owner[q]
      PROVE  SweptAreOwn'
  <2>1. \A q \in Reset : pc'[q] = "sweeping" =>
          \A s \in sTargets'[q] : s \in issued' /\ owner'[s] = owner'[q]
    BY <1>1, <1>8 DEF ForgetReads, SweptAreOwn
  <2>2. \A s \in Token : sessLock'[s] # Nil => s \in sTargets'[sessLock'[s]]
    BY <1>8, NilIsNone DEF ForgetReads, ReleaseLocks, SweptAreOwn
  <2> QED BY <2>1, <2>2 DEF SweptAreOwn
<1>9. ASSUME NEW r \in Request, Rollback(r) PROVE SweptAreOwn'
  BY <1>8, <1>9 DEF Rollback
<1>10. ASSUME NEW r \in Refresh, RefreshCommit(r) PROVE SweptAreOwn'
  BY <1>8, <1>10, KindsDisjoint DEF RefreshCommit, Ended
<1>11. ASSUME NEW r \in Logout, LogoutCommit(r) PROVE SweptAreOwn'
  BY <1>8, <1>11, KindsDisjoint DEF LogoutCommit
<1>12. ASSUME NEW r \in Reset, ResetCommit(r) PROVE SweptAreOwn'
  BY <1>8, <1>12 DEF ResetCommit
<1>13. ASSUME NEW r \in Reset, ResetSelectSessions(r) PROVE SweptAreOwn'
  <2>1. \A s \in sTargets'[r] : s \in issued' /\ owner'[s] = owner'[r]
    BY <1>1, <1>13 DEF ResetSelectSessions, RowsExist
  <2>2. \A s \in Token : sessLock[s] # r
    BY <1>13, NilIsNone DEF ResetSelectSessions, LocksOwned
  <2> QED BY <1>13, <2>1, <2>2 DEF ResetSelectSessions, SweptAreOwn
<1>14. ASSUME NEW r \in Reset, ResetSweep(r) PROVE SweptAreOwn'
  BY <1>14 DEF ResetSweep, ToSweep, SweptAreOwn
<1>15. UNCHANGED vars => SweptAreOwn'
  BY <1>2 DEF vars
<1> QED BY StepCases, <1>3, <1>4, <1>5, <1>6, <1>7, <1>9, <1>10, <1>11, <1>12,
           <1>13, <1>14, <1>15

LEMMA PasswordsOfDoneNext ==
  SessionInv /\ RegistryInv /\ [Next]_vars => PasswordsOfDone'
<1> SUFFICES ASSUME TypeOK, PasswordsOfDone, [Next]_vars PROVE PasswordsOfDone'
  BY DEF RegistryInv, SessionInv
<1>1. ASSUME UNCHANGED pwd, \A r \in Reset : pc[r] = "done" => pc'[r] = "done"
      PROVE  PasswordsOfDone'
  BY <1>1 DEF TypeOK, PasswordsOfDone
<1> USE DEF TypeOK, Request, Token, Go, known, rows
<1>2. ASSUME NEW r \in Login, LoginCheck(r) \/ LoginCommit(r) PROVE PasswordsOfDone'
  BY <1>1, <1>2, KindsDisjoint DEF LoginCheck, LoginCommit
<1>3. ASSUME NEW r \in Refresh,
             RefreshSelect(r) \/ RefreshFlush(r) \/ SelectSession(r) \/ RefreshCommit(r)
      PROVE  PasswordsOfDone'
  BY <1>1, <1>3, KindsDisjoint
     DEF RefreshSelect, RefreshFlush, SelectSession, RefreshCommit
<1>4. ASSUME NEW r \in Logout,
             LogoutSelect(r) \/ LogoutFlush(r) \/ SelectSession(r) \/ LogoutCommit(r)
      PROVE  PasswordsOfDone'
  BY <1>1, <1>4, KindsDisjoint
     DEF LogoutSelect, LogoutFlush, SelectSession, LogoutCommit
<1>5. ASSUME NEW r \in Reset,
             ResetSelect(r) \/ ResetFlush(r) \/ ResetMark(r)
               \/ ResetSelectSessions(r) \/ ResetSweep(r)
      PROVE  PasswordsOfDone'
  BY <1>1, <1>5 DEF ResetSelect, ResetFlush, ResetMark, ResetSelectSessions, ResetSweep
<1>6. ASSUME NEW r \in Reset, ResetCommit(r) PROVE PasswordsOfDone'
  BY <1>6 DEF ResetCommit, PasswordsOfDone
<1>7. ASSUME NEW r \in Request, pc[r] \in InFlight, Rollback(r) PROVE PasswordsOfDone'
  BY <1>1, <1>7 DEF Rollback, InFlight
<1>8. ASSUME NEW t \in Token, Expire(t) PROVE PasswordsOfDone'
  BY <1>1, <1>8 DEF Expire
<1>9. UNCHANGED vars => PasswordsOfDone'
  BY <1>1 DEF vars
<1> QED BY StepCases, <1>2, <1>3, <1>4, <1>5, <1>6, <1>7, <1>8, <1>9

-----------------------------------------------------------------------------
(* Who waits for whom.                                                      *)

\* The row of a user admits one reset at a time to the bulk statements.
OneResetEach ==
    \A p, q \in Reset :
        /\ pc[p] \in {"marking", "sweeping"} /\ pc[q] \in {"marking", "sweeping"}
        /\ owner[p] = owner[q]
        => p = q

LEMMA OneResetEachInit == Init => OneResetEach
  BY DEF Init, OneResetEach, Request

LEMMA OneResetEachNext ==
  SessionInv /\ OneResetEach /\ [Next]_vars => OneResetEach'
<1> SUFFICES ASSUME TypeOK, OneResetEach, [Next]_vars PROVE OneResetEach'
  BY DEF SessionInv
<1> DEFINE Bulk == {"marking", "sweeping"}
<1>1. ASSUME \A r \in Reset : pc'[r] \in Bulk => pc[r] \in Bulk /\ owner'[r] = owner[r]
      PROVE  OneResetEach'
  BY <1>1 DEF OneResetEach
<1> USE DEF TypeOK, Request, Token, Go, known, rows
<1>2. ASSUME NEW r \in Login, LoginCheck(r) \/ LoginCommit(r) PROVE OneResetEach'
  BY <1>1, <1>2, KindsDisjoint DEF LoginCheck, LoginCommit
<1>3. ASSUME NEW r \in Refresh,
             RefreshSelect(r) \/ RefreshFlush(r) \/ SelectSession(r) \/ RefreshCommit(r)
      PROVE  OneResetEach'
  BY <1>1, <1>3, KindsDisjoint
     DEF RefreshSelect, RefreshFlush, SelectSession, RefreshCommit
<1>4. ASSUME NEW r \in Logout,
             LogoutSelect(r) \/ LogoutFlush(r) \/ SelectSession(r) \/ LogoutCommit(r)
      PROVE  OneResetEach'
  BY <1>1, <1>4, KindsDisjoint
     DEF LogoutSelect, LogoutFlush, SelectSession, LogoutCommit
<1>5. ASSUME NEW r \in Reset,
             ResetSelect(r) \/ ResetMark(r) \/ ResetSelectSessions(r)
               \/ ResetSweep(r) \/ ResetCommit(r)
      PROVE  OneResetEach'
  BY <1>1, <1>5 DEF ResetSelect, ResetMark, ResetSelectSessions, ResetSweep, ResetCommit
<1>6. ASSUME NEW r \in Reset, ResetFlush(r) PROVE OneResetEach'
  <2>1. /\ \A q \in Reset \ {r} : pc'[q] = pc[q]
        /\ \A q \in Reset : owner'[q] = owner[q]
        /\ \A q \in Reset : pc[q] \in Bulk => owner[q] # owner[r]
    BY <1>6 DEF ResetFlush, UserLocked
  <2> QED BY <2>1 DEF OneResetEach
<1>7. ASSUME NEW r \in Request, Rollback(r) PROVE OneResetEach'
  BY <1>1, <1>7 DEF Rollback
<1>8. ASSUME NEW t \in Token, Expire(t) PROVE OneResetEach'
  BY <1>1, <1>8 DEF Expire
<1>9. UNCHANGED vars => OneResetEach'
  BY <1>1 DEF vars
<1> QED BY StepCases, <1>2, <1>3, <1>4, <1>5, <1>6, <1>7, <1>8, <1>9

\* Who holds the row of a token is past its UPDATE; who holds the row of a
\* session is about to commit.  A reset meets no other reset of its account.
LEMMA WaitingIsOrdered ==
  SessionInv /\ RegistryInv /\ OneResetEach => WaitsForLaterStages
<1> SUFFICES ASSUME SessionInv, RegistryInv, OneResetEach,
                    NEW r \in Request, NEW q \in WaitsFor(r)
             PROVE  pc[q] \in InFlight /\ Stage[pc[r]] < Stage[pc[q]]
  BY DEF WaitsForLaterStages
<1> USE DEF SessionInv, TypeOK
<1>1. q \in Request /\ q # Nil
  BY NilIsNone DEF WaitsFor
<1>2. ASSUME NEW t \in NextTokens(r), rtLock[t] = q
      PROVE  \/ pc[r] = "read" /\ pc[q] \in {"flushed", "found", "marking", "sweeping"}
             \/ pc[r] = "marking" /\ pc[q] \in {"flushed", "found"}
  <2>1. t \in Token
    BY DEF NextTokens
  <2>2. \/ q \in Refresh \cup Logout /\ pc[q] \in {"flushed", "found"}
        \/ q \in Reset /\ pc[q] \in {"marking", "sweeping"} /\ t \in targets[q]
    BY <1>1, <1>2, <2>1 DEF LocksOwned
  <2>3. CASE r \in Refresh \cup Logout /\ pc[r] = "read"
    BY <2>2, <2>3
  <2>4. CASE r \in Reset /\ pc[r] = "marking" /\ t \in ToMark(r)
    <3>1. t \in targets[r] /\ q # r
      BY <1>2, <2>1, <2>4 DEF ToMark, HeldTokens
    <3>2. ~(q \in Reset /\ pc[q] \in {"marking", "sweeping"} /\ t \in targets[q])
      BY <2>4, <3>1 DEF OwnersAgree, OneResetEach
    <3> QED BY <2>2, <2>4, <3>2
  <2> QED BY <2>3, <2>4 DEF NextTokens
<1>3. ASSUME NEW s \in NextSessions(r), sessLock[s] = q
      PROVE  pc[r] = "found" /\ pc[q] = "sweeping"
  <2>1. s \in Token
    BY DEF NextSessions
  <2>2. q \in Reset /\ pc[q] = "sweeping" /\ s \in sTargets[q]
    BY <1>1, <1>3, <2>1 DEF LocksOwned, RegistryInv, SweptAreOwn
  <2>3. ~(r \in Reset /\ pc[r] = "sweeping" /\ s \in ToSweep(r))
    BY <1>3, <2>1, <2>2 DEF ToSweep, HeldSessions, RegistryInv, SweptAreOwn, OneResetEach
  <2> QED BY <2>2, <2>3 DEF NextSessions
<1>4. CASE \E t \in NextTokens(r) : rtLock[t] = q
  BY <1>2, <1>4 DEF Stage, InFlight
<1>5. CASE \E s \in NextSessions(r) : sessLock[s] = q
  BY <1>3, <1>5 DEF Stage, InFlight
<1>6. CASE /\ r \in Reset /\ pc[r] = "read"
           /\ q \in Reset /\ pc[q] \in {"marking", "sweeping"} /\ owner[q] = owner[r]
  BY <1>6 DEF Stage, InFlight
<1> QED BY <1>4, <1>5, <1>6 DEF WaitsFor

\* As long as requests are under way, one of them need not wait.
SomebodyCanGoOn ==
    (\E r \in Request : pc[r] \in InFlight) =>
        \E r \in Request : pc[r] \in InFlight /\ WaitsFor(r) = {}

LEMMA LastStageGoesOn == SessionInv /\ WaitsForLaterStages => SomebodyCanGoOn
<1> SUFFICES ASSUME WaitsForLaterStages,
                    \A r \in Request : pc[r] \in InFlight => WaitsFor(r) # {}
             PROVE  \A r \in Request : pc[r] \notin InFlight
  BY DEF SomebodyCanGoOn
<1>1. \A r \in Request : pc[r] \in InFlight =>
        \E q \in Request : pc[q] \in InFlight /\ Stage[pc[r]] < Stage[pc[q]]
  BY DEF WaitsForLaterStages, WaitsFor
<1>2. \A where \in InFlight : Stage[where] \in 1..4
  BY DEF Stage, InFlight
<1> DEFINE At(n) == \E r \in Request : pc[r] \in InFlight /\ Stage[pc[r]] = n
<1>3. ~At(4)
  BY <1>1, <1>2
<1>4. ~At(3)
  BY <1>1, <1>2, <1>3
<1>5. ~At(2)
  BY <1>1, <1>2, <1>3, <1>4
<1>6. ~At(1)
  BY <1>1, <1>2, <1>3, <1>4, <1>5
<1> QED BY <1>2, <1>3, <1>4, <1>5, <1>6

-----------------------------------------------------------------------------
(* The refinement mapping, named as the register names it.                  *)

Account == [t \in Token |-> IF t \in issued THEN owner[t] ELSE Nil]
Tracked == {sess[s] : s \in {q \in Token : sess[q] # Nil}}

\* A step that leaves the committed rows alone does not show in the register.
LEMMA RowsAloneStutter ==
  ASSUME SessionInv, [Next]_vars, UNCHANGED <<issued, revoked, sess, pwd>>
  PROVE  UNCHANGED Registry!registry
<1>1. \A t \in Token : t \in issued' <=> t \in issued
  OBVIOUS
<1>2. Account' = Account
  BY <1>1, OwnersStay DEF Account
<1>3. Live' = Live /\ Tracked' = Tracked
  BY DEF Live, Tracked
<1> QED BY <1>2, <1>3 DEF Registry!registry, Account, Tracked

LEMMA LoginOpens ==
  ASSUME SessionInv, RegistryInv, NEW r \in Login, LoginCommit(r)
  PROVE  Registry!Open(owner[r], r)
<1> USE DEF SessionInv, TypeOK, RowsExist, Request, Token
<1>1. r \notin issued /\ owner[r] \in User
  BY DEF LoginCommit, RegistryInv, ActsForUser, Ended
<1>2. Live' = Live \cup {r} /\ r \notin Live
  BY <1>1 DEF LoginCommit, Live
<1>3. Account[r] = Nil /\ Account' = [Account EXCEPT ![r] = owner[r]]
  BY <1>1 DEF LoginCommit, Account, known
<1>4. sess[r] = Nil
  BY <1>1
<1>5. Tracked' = Tracked \cup {r}
  <2>1. r # Nil
    BY NilIsNone
  <2> QED BY <1>4, <2>1 DEF LoginCommit, Tracked
<1> QED BY <1>2, <1>3, <1>5 DEF LoginCommit, Registry!Open, Account, Tracked

\* A refresh commits one revocation, that of the token it was given.
LEMMA RefreshRotates ==
  ASSUME SessionInv, RegistryInv, NEW r \in Refresh, RefreshCommit(r)
  PROVE  Registry!Rotate(tok[r], r)
<1> USE DEF SessionInv, TypeOK, RowsExist, Request, Token
<1>0. pc[r] = "found"
  BY DEF RefreshCommit
<1>1. /\ r \notin issued /\ tok[r] \in issued /\ tok[r] # r /\ r # Nil
      /\ owner[r] = owner[tok[r]] /\ owner[r] # Nil
  BY <1>0, NilIsNone DEF RegistryInv, ActsForUser, Ended, OwnersAgree
<1>2. HeldTokens(r) = {tok[r]}
  <2>1. rtLock[tok[r]] = r
    BY <1>0 DEF WritesLocked
  <2>2. \A t \in Token : rtLock[t] = r => t = tok[r]
    BY <1>1, KindsDisjoint DEF LocksOwned
  <2> QED BY <1>1, <2>1, <2>2 DEF HeldTokens
<1>3. r \notin Live /\ Live' = (Live \ {tok[r]}) \cup {r}
  BY <1>1, <1>2 DEF RefreshCommit, CommitRevocations, Live
<1>4. Account' = [Account EXCEPT ![r] = Account[tok[r]]]
  BY <1>1 DEF RefreshCommit, Account, known
<1>5. Account[tok[r]] # Nil /\ Account[r] = Nil
  BY <1>1 DEF Account
<1>6. Tracked' = (Tracked \ {tok[r]}) \cup {r}
  <2>1. CASE row[r] # Nil
    <3>1. sess' = [sess EXCEPT ![row[r]] = r] /\ sess[row[r]] # Nil
      BY <2>1 DEF RefreshCommit
    <3>2. sess[row[r]] = tok[r] /\ \A s \in Token : sess[s] = tok[r] => s = row[r]
      BY <1>0, <2>1, <3>1 DEF ReadsHold
    <3> QED BY <1>1, <2>1, <3>1, <3>2 DEF Tracked
  <2>2. CASE row[r] = Nil
    <3>1. sess' = [sess EXCEPT ![r] = r] /\ sess[r] = Nil
      BY <1>1, <2>2 DEF RefreshCommit
    <3>2. \A s \in Token : sess[s] # tok[r]
      BY <1>0, <2>2, NilIsNone DEF ReadsHold
    <3> QED BY <1>1, <3>1, <3>2 DEF Tracked
  <2> QED BY <2>1, <2>2
<1> QED BY <1>3, <1>4, <1>5, <1>6
        DEF RefreshCommit, Registry!Rotate, Account, Tracked

LEMMA LogoutCloses ==
  ASSUME SessionInv, RegistryInv, NEW r \in Logout, LogoutCommit(r)
  PROVE  Registry!Close(tok[r])
<1> USE DEF SessionInv, TypeOK, RowsExist, Request, Token
<1>0. pc[r] = "found" /\ tok[r] \in issued
  BY DEF LogoutCommit
<1>1. Live' = Live \ {tok[r]}
  <2>1. \A t \in Token : rtLock[t] = r => t = tok[r]
    BY NilIsNone, KindsDisjoint DEF LocksOwned
  <2>2. rtLock[tok[r]] = r \/ tok[r] \in revoked
    BY <1>0 DEF WritesLocked
  <2> QED BY <2>1, <2>2 DEF LogoutCommit, CommitRevocations, HeldTokens, Live
<1>2. Tracked' = Tracked \ {tok[r]}
  <2>1. CASE row[r] # Nil
    <3>1. sess' = [sess EXCEPT ![row[r]] = Nil]
      BY <2>1 DEF LogoutCommit
    <3>2. /\ sess[row[r]] \in {tok[r], Nil}
          /\ \A s \in Token : sess[s] = tok[r] => s = row[r]
      BY <1>0, <2>1 DEF ReadsHold
    <3> QED BY <2>1, <3>1, <3>2 DEF Tracked
  <2>2. CASE row[r] = Nil
    <3>1. sess' = sess
      BY <2>2 DEF LogoutCommit
    <3>2. \A s \in Token : sess[s] # tok[r]
      BY <1>0, <2>2, NilIsNone DEF ReadsHold
    <3> QED BY <3>1, <3>2 DEF Tracked
  <2> QED BY <2>1, <2>2
<1>3. UNCHANGED <<Account, pwd>>
  BY DEF LogoutCommit, Account, known
<1> QED BY <1>1, <1>2, <1>3 DEF Registry!Close, Account, Tracked

\* What a reset revokes and deletes is its own account's.
LEMMA ResetResets ==
  ASSUME SessionInv, SessionInv', RegistryInv, NEW r \in Reset, ResetCommit(r)
  PROVE  Registry!ChangePassword(owner[r], r)
<1> USE DEF SessionInv, TypeOK, RowsExist, Request, Token
<1>0. pc[r] = "sweeping" /\ owner[r] \in User /\ r # Nil
  BY NilIsNone DEF ResetCommit, RegistryInv, ActsForUser
<1>1. r # pwd[owner[r]] /\ pwd' = [pwd EXCEPT ![owner[r]] = r]
  BY <1>0 DEF ResetCommit, RegistryInv, PasswordsOfDone
<1>2. UNCHANGED Account
  BY DEF ResetCommit, Account, known
<1>3. \A t \in Live \ Live' : t \in Token /\ Account[t] = owner[r]
  <2>1. \A t \in HeldTokens(r) : t \in targets[r]
    BY <1>0, KindsDisjoint DEF HeldTokens, LocksOwned
  <2>2. \A t \in targets[r] : t \in issued /\ owner[t] = owner[r]
    BY <1>0 DEF OwnersAgree
  <2>3. Live \ Live' \subseteq HeldTokens(r)
    BY DEF ResetCommit, CommitRevocations, Live
  <2> QED BY <2>1, <2>2, <2>3 DEF Account
<1>4. \A t \in Tracked \ Tracked' : t \in Token /\ Account[t] = owner[r]
  <2> SUFFICES ASSUME NEW s \in Token, sess[s] # Nil, sess[s] \notin Tracked'
               PROVE  sess[s] \in Token /\ Account[sess[s]] = owner[r]
    BY DEF Tracked
  <2>1. sess'[s] # sess[s]
    BY DEF Tracked
  <2>2. s \in HeldSessions(r)
    BY <2>1 DEF ResetCommit
  <2>3. owner[s] = owner[r]
    BY <1>0, <2>2 DEF HeldSessions, RegistryInv, SweptAreOwn
  <2>4. owner[s] = owner[sess[s]] /\ sess[s] \in issued
    BY DEF OwnersAgree, SessionsBackedByLiveToken, Live
  <2> QED BY <2>3, <2>4 DEF Account
<1>5. Live' \subseteq Live /\ Tracked' \subseteq Tracked
  <2>1. Live' \subseteq Live
    BY DEF ResetCommit, CommitRevocations, Live
  <2>2. \A s \in Token : sess'[s] # Nil => sess'[s] = sess[s]
    BY DEF ResetCommit
  <2> QED BY <2>1, <2>2 DEF Tracked
<1>6. Tracked' \subseteq Live'
  BY DEF SessionsBackedByLiveToken, Tracked
<1> QED BY <1>1, <1>2, <1>3, <1>4, <1>5, <1>6
        DEF Registry!ChangePassword, Registry!Of, Account, Tracked

LEMMA RegistryInit == Init => Registry!Init
<1> SUFFICES ASSUME Init PROVE Registry!Init
  OBVIOUS
<1>1. Account = [t \in Token |-> Nil]
  BY DEF Init, Account
<1>2. Live = {} /\ Tracked = {}
  BY DEF Init, Live, Tracked
<1> QED BY <1>1, <1>2 DEF Init, Registry!Init, Account, Tracked

LEMMA StepSimulates ==
  SessionInv /\ SessionInv' /\ RegistryInv /\ [Next]_vars
    => [Registry!Next]_Registry!registry
<1> SUFFICES ASSUME SessionInv, SessionInv', RegistryInv, [Next]_vars
             PROVE  Registry!Next \/ UNCHANGED Registry!registry
  OBVIOUS
<1>1. ASSUME UNCHANGED <<issued, revoked, sess, pwd>>
      PROVE  UNCHANGED Registry!registry
  BY <1>1, RowsAloneStutter
<1> USE DEF rows
<1>2. ASSUME NEW r \in Login, LoginCheck(r) PROVE UNCHANGED Registry!registry
  BY <1>1, <1>2 DEF LoginCheck
<1>3. ASSUME NEW r \in Login, LoginCommit(r) PROVE Registry!Next
  <2>1. owner[r] \in User /\ r \in Token
    BY <1>3 DEF LoginCommit, RegistryInv, ActsForUser, Request, Token
  <2> QED BY <1>3, <2>1, LoginOpens DEF Registry!Next
<1>4. ASSUME NEW r \in Refresh, RefreshSelect(r) \/ RefreshFlush(r) \/ SelectSession(r)
      PROVE  UNCHANGED Registry!registry
  BY <1>1, <1>4 DEF RefreshSelect, RefreshFlush, SelectSession
<1>5. ASSUME NEW r \in Refresh, RefreshCommit(r) PROVE Registry!Next
  <2>1. tok[r] \in Token /\ r \in Token
    BY <1>5 DEF RefreshCommit, SessionInv, RowsExist, TypeOK, Token
  <2> QED BY <1>5, <2>1, RefreshRotates DEF Registry!Next
<1>6. ASSUME NEW r \in Logout, LogoutSelect(r) \/ LogoutFlush(r) \/ SelectSession(r)
      PROVE  UNCHANGED Registry!registry
  BY <1>1, <1>6 DEF LogoutSelect, LogoutFlush, SelectSession
<1>7. ASSUME NEW r \in Logout, LogoutCommit(r) PROVE Registry!Next
  <2>1. tok[r] \in Token
    BY <1>7 DEF LogoutCommit, SessionInv, RowsExist, TypeOK
  <2>2. Registry!Close(tok[r])
    BY <1>7, LogoutCloses
  <2>3. \E t \in Token : Registry!Close(t)
    BY <2>1, <2>2 DEF Registry!Close
  <2> QED BY <2>3 DEF Registry!Next
<1>8. ASSUME NEW r \in Reset,
             ResetSelect(r) \/ ResetFlush(r) \/ ResetMark(r)
               \/ ResetSelectSessions(r) \/ ResetSweep(r)
      PROVE  UNCHANGED Registry!registry
  BY <1>1, <1>8 DEF ResetSelect, ResetFlush, ResetMark, ResetSelectSessions, ResetSweep
<1>9. ASSUME NEW r \in Reset, ResetCommit(r) PROVE Registry!Next
  <2>1. owner[r] \in User
    BY <1>9 DEF ResetCommit, RegistryInv, ActsForUser, Request
  <2> QED BY <1>9, <2>1, ResetResets DEF Registry!Next
<1>10. ASSUME NEW r \in Request, Rollback(r) PROVE UNCHANGED Registry!registry
  BY <1>1, <1>10 DEF Rollback
<1>11. ASSUME NEW t \in Token, Expire(t) PROVE UNCHANGED Registry!registry
  BY <1>1, <1>11 DEF Expire
<1>12. UNCHANGED vars => UNCHANGED Registry!registry
  BY <1>1 DEF vars
<1> QED BY StepCases, <1>2, <1>3, <1>4, <1>5, <1>6, <1>7, <1>8, <1>9, <1>10,
           <1>11, <1>12

LEMMA RegistryInvNext == SessionInv /\ RegistryInv /\ [Next]_vars => RegistryInv'
  BY ActsForUserNext, SweptAreOwnNext, PasswordsOfDoneNext DEF RegistryInv

-----------------------------------------------------------------------------
(* The theorems about requests that overlap.                                *)

\* Requests that interleave statement by statement, wait for each other's row
\* locks, die and are rolled back do to the register what some sequence of
\* whole requests does, one change of one account at each commit.
THEOREM Refinement == Spec => ImplementsRegistry
<1>1. Spec => []SessionInv
  BY InductiveInvariant
<1>2. Init => RegistryInv
  BY RegistryInvInit
<1>3. SessionInv /\ RegistryInv /\ [Next]_vars => RegistryInv'
  BY RegistryInvNext
<1>4. Init => Registry!Init
  BY RegistryInit
<1>5. SessionInv /\ SessionInv' /\ RegistryInv /\ [Next]_vars
        => [Registry!Next]_Registry!registry
  BY StepSimulates
<1> QED BY <1>1, <1>2, <1>3, <1>4, <1>5, PTL DEF Spec, ImplementsRegistry, Registry!Spec

\* However many logins, refreshes, logouts and resets overlap, whoever waits for
\* a row waits for requests nearer to their commit: no circle ever closes.
THEOREM WaitingEnds == Spec => []WaitsForLaterStages
<1>1. Spec => []SessionInv
  BY InductiveInvariant
<1>2. Init => RegistryInv /\ OneResetEach
  BY RegistryInvInit, OneResetEachInit
<1>3. SessionInv /\ RegistryInv /\ OneResetEach /\ [Next]_vars
        => RegistryInv' /\ OneResetEach'
  BY RegistryInvNext, OneResetEachNext
<1> QED BY <1>1, <1>2, <1>3, WaitingIsOrdered, PTL DEF Spec

\* There is no deadlock: among any number of requests under way there is one
\* that waits for nobody.
THEOREM NoDeadlock == Spec => []SomebodyCanGoOn
<1>1. Spec => []SessionInv
  BY InductiveInvariant
<1> QED BY <1>1, WaitingEnds, LastStageGoesOn, PTL

-----------------------------------------------------------------------------
(* Requests that do not overlap: what the comments and tests of the code     *)
(* promise, and the strict register.  The inductive invariant.              *)

AtMostOne ==
    \A p, q \in Request : pc[p] \in InFlight /\ pc[q] \in InFlight => p = q

\* What the request under way has read is still so: nobody else commits.
FreshRead(r) ==
    /\ r \in Login /\ pc[r] = "read" => cred[r] = pwd[owner[r]]
    /\ r \in Refresh /\ pc[r] \in InFlight => tok[r] \in Live
    /\ r \in Refresh /\ pc[r] # "idle" => cred[r] = cred[tok[r]]
    /\ r \in Logout /\ pc[r] \in InFlight /\ ~sawRevoked[r] => tok[r] \in Live
    /\ r \in Reset /\ pc[r] \in {"marking", "sweeping"} =>
          \A t \in Live : owner[t] = owner[r] => t \in targets[r]

FreshReads == \A r \in Request : FreshRead(r)

Promises ==
    /\ OneLiveReplacement /\ ResetEndsEverySession
    /\ LogoutEndsSession /\ LiveTokenHasSession

SerialInv ==
    /\ SessionInv /\ RegistryInv
    /\ AtMostOne /\ FreshReads /\ Promises

-----------------------------------------------------------------------------
(* Whose step it is.                                                        *)

LEMMA SerialCases ==
    ASSUME [SerialNext]_vars
    PROVE  \/ \E r \in Request :
                /\ \A q \in Request \ {r} : pc[q] \notin InFlight
                /\ Step(r)
           \/ \E t \in Token : Expire(t)
           \/ UNCHANGED vars
BY DEF SerialNext, Quiescent

LEMMA SerialIsNext == [SerialNext]_vars => [Next]_vars
BY DEF SerialNext, Next

OthersKeep(r) ==
    \A q \in Request \ {r} :
        /\ pc'[q] = pc[q] /\ tok'[q] = tok[q] /\ owner'[q] = owner[q]
        /\ cred'[q] = cred[q] /\ sawRevoked'[q] = sawRevoked[q]
        /\ targets'[q] = targets[q]

\* A step of one request leaves what others carry, and is of a request that is
\* not over.
LEMMA OthersStay ==
    ASSUME SessionInv, NEW r \in Request, Step(r)
    PROVE  pc[r] \in {"idle"} \cup InFlight /\ r \notin issued /\ OthersKeep(r)
<1>0. TypeOK
  BY DEF SessionInv
<1> USE <1>0 DEF TypeOK, Go, known, rows, InFlight, ForgetReads, OthersKeep
<1>1. CASE Begin(r)
  BY <1>1 DEF Begin, LoginCheck, RefreshSelect, LogoutSelect, ResetSelect,
     SessionInv, RowsExist, Ended
<1>2. ASSUME pc[r] \in InFlight, Rollback(r)
      PROVE  r \notin issued /\ OthersKeep(r)
  BY <1>2 DEF Rollback, SessionInv, RowsExist, Ended
<1>3. CASE Continue(r)
  <2>1. CASE r \in Login /\ LoginCommit(r)
    BY <2>1 DEF LoginCommit, SessionInv, RowsExist, Ended
  <2>2. CASE r \in Refresh /\ (RefreshFlush(r) \/ SelectSession(r) \/ RefreshCommit(r))
    BY <2>2 DEF RefreshFlush, SelectSession, RefreshCommit, SessionInv, RowsExist, Ended
  <2>3. CASE r \in Logout /\ (LogoutFlush(r) \/ SelectSession(r) \/ LogoutCommit(r))
    BY <2>3 DEF LogoutFlush, SelectSession, LogoutCommit, SessionInv, RowsExist, Ended
  <2>4. CASE /\ r \in Reset
             /\ \/ ResetFlush(r) \/ ResetMark(r) \/ ResetSelectSessions(r)
                \/ ResetSweep(r) \/ ResetCommit(r)
    BY <2>4 DEF ResetFlush, ResetMark, ResetSelectSessions, ResetSweep, ResetCommit,
       SessionInv, RowsExist, Ended
  <2>5. CASE RefreshStale(r)
    BY <1>2, <2>5 DEF RefreshStale
  <2> QED BY <1>3, <2>1, <2>2, <2>3, <2>4, <2>5 DEF Continue
<1>4. CASE Abort(r)
  BY <1>2, <1>4 DEF Abort
<1> QED BY <1>1, <1>3, <1>4 DEF Step

-----------------------------------------------------------------------------
(* What a commit does to the promises.                                      *)

\* LiveTokenHasSession, in the words of the register.
LEMMA TrackedIsLive ==
    ASSUME TypeOK
    PROVE  LiveTokenHasSession <=> Live \subseteq Tracked
<1>1. \A t \in Live : t # Nil /\ t \in Token
  BY NilIsNone DEF TypeOK, Live, Token, Request
<1>2. \A t \in Live : SessionOf(t) # {} <=> t \in Tracked
  BY <1>1 DEF SessionOf, Tracked
<1> QED BY <1>2 DEF LiveTokenHasSession

LEMMA SessionsHaveRows ==
    ASSUME SessionInv', Live' \subseteq Tracked'
    PROVE  LiveTokenHasSession'
<1>1. \A t \in Live' : t # Nil /\ t \in Token
  BY NilIsNone DEF SessionInv, TypeOK, Live, Token, Request
<1> QED BY <1>1 DEF LiveTokenHasSession, SessionOf, Tracked

\* What the promises say of tokens that are live still.
LEMMA PromisesStay ==
    ASSUME SerialInv, Live' \subseteq Live, Live' \subseteq Tracked', SessionInv',
           \A t \in issued : tok'[t] = tok[t] /\ owner'[t] = owner[t] /\ cred'[t] = cred[t],
           \A t \in Live' : pwd'[owner[t]] = pwd[owner[t]],
           \A q \in Logout : pc'[q] = "done" /\ pc[q] = "done" =>
              tok'[q] = tok[q] /\ sawRevoked'[q] = sawRevoked[q],
           \A q \in Logout : pc'[q] = "done" /\ pc[q] # "done" /\ ~sawRevoked'[q] =>
              \A t \in Live' : t # tok'[q] /\ (t \in Refresh => tok[t] # tok'[q])
    PROVE  Promises'
<1> USE DEF SerialInv, Promises
<1>1. Live \subseteq issued
  BY DEF Live
<1>2. OneLiveReplacement'
  BY <1>1 DEF OneLiveReplacement
<1>3. ResetEndsEverySession'
  BY <1>1 DEF ResetEndsEverySession
<1>4. LogoutEndsSession'
  BY <1>1 DEF LogoutEndsSession
<1>5. LiveTokenHasSession'
  BY SessionsHaveRows
<1> QED BY <1>2, <1>3, <1>4, <1>5

\* A login adds a token that goes back to the password it has just checked.
LEMMA LoginKeeps ==
    ASSUME SerialInv, SessionInv', NEW r \in Login, LoginCommit(r), OthersKeep(r)
    PROVE  Promises'
<1> USE DEF SerialInv, Promises
<1>1. TypeOK /\ r \in Request /\ r \in Token /\ r \notin Refresh /\ r \notin Logout
  BY KindsDisjoint DEF SessionInv, Request, Token
<1>2. Registry!Open(owner[r], r)
  BY LoginOpens
<1>3. Live' = Live \cup {r} /\ Tracked' = Tracked \cup {r}
  BY <1>2 DEF Registry!Open, Tracked
<1>4. UNCHANGED <<tok, owner, cred, sawRevoked, pwd>> /\ Live \subseteq Token
  BY <1>1 DEF LoginCommit, known, Live, TypeOK
<1>5. OneLiveReplacement'
  BY <1>1, <1>3, <1>4 DEF OneLiveReplacement
<1>6. ResetEndsEverySession'
  <2>1. cred[r] = pwd[owner[r]]
    BY <1>1 DEF LoginCommit, FreshReads, FreshRead
  <2> QED BY <1>3, <1>4, <2>1 DEF ResetEndsEverySession
<1>7. LogoutEndsSession'
  <2> SUFFICES ASSUME NEW q \in Logout, pc'[q] = "done", ~ sawRevoked[q], NEW t \in Live'
               PROVE  t # tok[q] /\ (t \in Refresh => tok[t] # tok[q])
    BY <1>4 DEF LogoutEndsSession
  <2>1. q # r /\ q \in Request /\ pc[q] = "done"
    BY <1>1 DEF OthersKeep, Request
  <2>2. tok[q] \in issued
    BY <2>1 DEF SessionInv, RowsExist
  <2>3. r \notin issued
    BY <1>1 DEF LoginCommit, SessionInv, RowsExist, Ended
  <2> QED BY <1>1, <1>3, <2>1, <2>2, <2>3 DEF LogoutEndsSession
<1>8. LiveTokenHasSession'
  BY <1>1, <1>3, TrackedIsLive, SessionsHaveRows
<1> QED BY <1>5, <1>6, <1>7, <1>8

\* A refresh takes out the token it has found live, and puts one in.
LEMMA RefreshKeeps ==
    ASSUME SerialInv, SessionInv', NEW r \in Refresh, RefreshCommit(r), OthersKeep(r)
    PROVE  Promises'
<1> USE DEF SerialInv, Promises
<1>1. TypeOK /\ r \in Request /\ r \in Token /\ r \notin Logout
  BY KindsDisjoint DEF SessionInv, Request, Token
<1>2. Registry!Rotate(tok[r], r)
  BY RefreshRotates
<1>3. /\ Live' = (Live \ {tok[r]}) \cup {r}
      /\ Tracked' = (Tracked \ {tok[r]}) \cup {r}
  BY <1>2 DEF Registry!Rotate, Tracked
<1>4. UNCHANGED <<tok, owner, cred, sawRevoked, pwd>>
  BY DEF RefreshCommit, known
<1>5. pc[r] = "found" /\ tok[r] \in Live /\ cred[r] = cred[tok[r]] /\ owner[r] = owner[tok[r]]
  BY <1>1 DEF RefreshCommit, FreshReads, FreshRead, InFlight, SessionInv, OwnersAgree
<1>6. \A t \in Live \cap Refresh : tok[t] # tok[r]
  BY <1>5 DEF SessionInv, RotatedIsRevoked, Live
<1>7. OneLiveReplacement'
  BY <1>3, <1>4, <1>6 DEF OneLiveReplacement
<1>8. ResetEndsEverySession'
  BY <1>3, <1>4, <1>5 DEF ResetEndsEverySession
<1>9. LogoutEndsSession'
  <2> SUFFICES ASSUME NEW q \in Logout, pc'[q] = "done", ~ sawRevoked[q], NEW t \in Live'
               PROVE  t # tok[q] /\ (t \in Refresh => tok[t] # tok[q])
    BY <1>4 DEF LogoutEndsSession
  <2>1. q # r /\ q \in Request /\ pc[q] = "done"
    BY <1>1 DEF OthersKeep, Request
  <2>2. tok[q] \in issued
    BY <2>1 DEF SessionInv, RowsExist
  <2>3. r \notin issued
    BY <1>1, <1>5 DEF SessionInv, RowsExist, Ended
  <2>4. tok[r] # tok[q]
    BY <1>5, <2>1 DEF LogoutEndsSession
  <2> QED BY <1>3, <2>1, <2>2, <2>3, <2>4 DEF LogoutEndsSession
<1>10. LiveTokenHasSession'
  BY <1>1, <1>3, TrackedIsLive, SessionsHaveRows
<1> QED BY <1>7, <1>8, <1>9, <1>10

\* A logout takes out the token it has found, live or not.
LEMMA LogoutKeeps ==
    ASSUME SerialInv, SessionInv', NEW r \in Logout, LogoutCommit(r), OthersKeep(r)
    PROVE  Promises'
<1> USE DEF SerialInv
<1>1. TypeOK /\ r \in Request
  BY DEF SessionInv, Request
<1>2. Live' = Live \ {tok[r]} /\ Tracked' = Tracked \ {tok[r]}
  BY LogoutCloses DEF Registry!Close, Tracked
<1>3. UNCHANGED <<tok, owner, cred, sawRevoked, pwd>>
  BY DEF LogoutCommit, known
<1>4. Live' \subseteq Tracked'
  BY <1>1, <1>2, TrackedIsLive DEF Promises
<1>5. ~ sawRevoked[r] => tok[r] \in Live
  BY <1>1 DEF LogoutCommit, FreshReads, FreshRead, InFlight
<1>6. ~ sawRevoked[r] =>
         \A t \in Live' : t # tok[r] /\ (t \in Refresh => tok[t] # tok[r])
  BY <1>2, <1>5 DEF SessionInv, RotatedIsRevoked, Live
<1>7. \A q \in Logout : pc'[q] = "done" /\ pc[q] # "done" => q = r
  BY DEF OthersKeep, Request
<1> QED BY <1>2, <1>3, <1>4, <1>6, <1>7, PromisesStay

\* A reset takes out every token of its account.
LEMMA ResetStrict ==
    ASSUME SerialInv, SessionInv', NEW r \in Reset, ResetCommit(r)
    PROVE  /\ Registry!ChangePassword(owner[r], r)
           /\ (Live' \cup Tracked') \cap Registry!Of(owner[r]) = {}
<1> USE DEF SerialInv
<1>1. Registry!ChangePassword(owner[r], r)
  BY ResetResets
<1>2. ASSUME NEW t \in Live, owner[t] = owner[r] PROVE t \notin Live'
  <2>1. t \in targets[r] /\ pc[r] = "sweeping"
    BY <1>2 DEF ResetCommit, FreshReads, FreshRead, Request
  <2>2. rtLock[t] = r \/ t \in revoked
    BY <2>1 DEF SessionInv, WritesLocked
  <2>3. t \in Token
    BY DEF SessionInv, TypeOK, Live
  <2> QED BY <2>2, <2>3 DEF ResetCommit, CommitRevocations, HeldTokens, Live
<1>3. Live' \subseteq Live
  BY <1>1 DEF Registry!ChangePassword
<1>4. \A t \in Live : t \in issued
  BY DEF Live
<1>5. Live' \cap Registry!Of(owner[r]) = {}
  BY <1>2, <1>3, <1>4 DEF Registry!Of
<1>6. Tracked' \subseteq Live'
  BY DEF SessionInv, SessionsBackedByLiveToken, Tracked
<1> QED BY <1>1, <1>5, <1>6

LEMMA ResetKeeps ==
    ASSUME SerialInv, SessionInv', NEW r \in Reset, ResetCommit(r), OthersKeep(r)
    PROVE  Promises'
<1> USE DEF SerialInv
<1>1. TypeOK /\ r \in Request /\ r \notin Logout
  BY KindsDisjoint DEF SessionInv, Request
<1>2. /\ Live' \subseteq Live
      /\ (Tracked \ Tracked') \subseteq Registry!Of(owner[r])
      /\ Live' \cap Registry!Of(owner[r]) = {}
  BY ResetStrict DEF Registry!ChangePassword, Tracked
<1>3. Live' \subseteq Tracked'
  BY <1>1, <1>2, TrackedIsLive DEF Promises
<1>4. UNCHANGED <<tok, owner, cred, sawRevoked>> /\ pwd' = [pwd EXCEPT ![owner[r]] = r]
  BY DEF ResetCommit, known
<1>5. \A t \in Live' : pwd'[owner[t]] = pwd[owner[t]]
  <2>1. \A t \in Live' : t \in Token /\ t \in issued /\ owner[t] # owner[r]
    BY <1>2 DEF Registry!Of, Live, SessionInv, TypeOK
  <2> QED BY <1>1, <1>4, <2>1 DEF TypeOK
<1>6. \A q \in Logout : pc'[q] = "done" => pc[q] = "done"
  BY <1>1 DEF OthersKeep, Request
<1> QED BY <1>2, <1>3, <1>4, <1>5, <1>6, PromisesStay
\* A step that commits nothing changes no promise.
LEMMA ReadingKeeps ==
    ASSUME SerialInv, SessionInv', NEW r \in Request, OthersKeep(r), r \notin issued,
           UNCHANGED <<issued, revoked, sess, pwd>>, pc'[r] # "done"
    PROVE  Promises'
<1> USE DEF SerialInv
<1>1. Live' = Live /\ Tracked' = Tracked /\ TypeOK
  BY DEF Live, Tracked, SessionInv
<1>2. Live' \subseteq Tracked'
  BY <1>1, TrackedIsLive DEF Promises
<1>3. \A t \in issued : t \in Request \ {r}
  BY <1>1 DEF TypeOK, Token, Request
<1>4. \A q \in Logout : pc'[q] = "done" => q \in Request \ {r}
  BY DEF Request
<1> QED BY <1>1, <1>2, <1>3, <1>4, PromisesStay DEF OthersKeep

-----------------------------------------------------------------------------
(* The steps.                                                               *)

LEMMA StepKinds ==
    ASSUME SessionInv, NEW r \in Request, Step(r)
    PROVE  \/ r \in Login /\ LoginCommit(r)
           \/ r \in Refresh /\ RefreshCommit(r)
           \/ r \in Logout /\ LogoutCommit(r)
           \/ r \in Reset /\ ResetCommit(r)
           \/ UNCHANGED <<issued, revoked, sess, pwd>> /\ pc'[r] # "done"
<1>0. pc \in [Request -> {"idle"} \cup InFlight \cup Ended]
  BY DEF SessionInv, TypeOK
<1> DEFINE Reads == UNCHANGED <<issued, revoked, sess, pwd>> /\ pc'[r] # "done"
<1> USE <1>0 DEF Go, rows
<1>1. ASSUME Begin(r) PROVE Reads
  BY <1>1 DEF Begin, LoginCheck, RefreshSelect, LogoutSelect, ResetSelect
<1>2. ASSUME Rollback(r) PROVE Reads
  BY <1>2 DEF Rollback
<1>3. ASSUME \/ RefreshFlush(r) \/ SelectSession(r) \/ LogoutFlush(r)
             \/ ResetFlush(r) \/ ResetSelectSessions(r)
      PROVE  Reads
  BY <1>3 DEF RefreshFlush, SelectSession, LogoutFlush, ResetFlush, ResetSelectSessions
<1>4. ASSUME ResetMark(r) \/ ResetSweep(r) PROVE Reads
  BY <1>4 DEF ResetMark, ResetSweep
<1> QED BY <1>1, <1>2, <1>3, <1>4 DEF Step, Continue, Abort, RefreshStale

LEMMA AloneStays ==
    ASSUME SerialInv, NEW r \in Request, OthersKeep(r),
           \A q \in Request \ {r} : pc[q] \notin InFlight
    PROVE  AtMostOne'
BY DEF AtMostOne, OthersKeep

\* What the request under way reads it reads from the rows as they are.
LEMMA ReadIsFresh ==
    ASSUME SerialInv, NEW r \in Request, Step(r), r \notin issued
    PROVE  FreshRead(r)'
<1>0. TypeOK /\ RowsExist /\ FreshRead(r)
  BY DEF SerialInv, SessionInv, FreshReads
<1>1. Live \subseteq issued /\ Live \subseteq Token /\ Token \subseteq Request
  BY <1>0 DEF Live, TypeOK, Token, Request
<1> USE <1>0, KindsDisjoint DEF TypeOK, Request, FreshRead, Go, rows, known, InFlight, Ended
<1>2. CASE r \in Login
  BY <1>2 DEF Step, Begin, Continue, Abort, LoginCheck, LoginCommit, Rollback
<1>3. CASE r \in Refresh
  <2>1. CASE RefreshSelect(r)
    BY <1>3, <2>1 DEF RefreshSelect, Delivered, Live
  <2>2. CASE RefreshFlush(r) \/ SelectSession(r)
    BY <1>3, <2>2 DEF RefreshFlush, SelectSession, Live
  <2>3. CASE RefreshCommit(r)
    BY <1>3, <2>3 DEF RefreshCommit
  <2>4. CASE Rollback(r)
    BY <1>3, <2>4 DEF Rollback
  <2> QED BY <1>3, <2>1, <2>2, <2>3, <2>4 DEF Step, Begin, Continue, Abort, RefreshStale
<1>4. CASE r \in Logout
  <2>1. CASE LogoutSelect(r)
    BY <1>4, <2>1 DEF LogoutSelect, Delivered, Live
  <2>2. CASE LogoutFlush(r) \/ SelectSession(r)
    BY <1>4, <2>2 DEF LogoutFlush, SelectSession, Live
  <2>3. CASE LogoutCommit(r) \/ Rollback(r)
    BY <1>4, <2>3 DEF LogoutCommit, Rollback
  <2> QED BY <1>4, <2>1, <2>2, <2>3 DEF Step, Begin, Continue, Abort
<1>5. CASE r \in Reset
  <2>1. CASE ResetSelect(r) \/ ResetCommit(r) \/ Rollback(r)
    BY <1>5, <2>1 DEF ResetSelect, ResetCommit, Rollback
  <2>2. CASE ResetFlush(r)
    BY <1>5, <2>2 DEF ResetFlush, Live
  <2>3. CASE ResetMark(r) \/ ResetSelectSessions(r) \/ ResetSweep(r)
    BY <1>5, <2>3 DEF ResetMark, ResetSelectSessions, ResetSweep, Live
  <2> QED BY <1>5, <2>1, <2>2, <2>3 DEF Step, Begin, Continue, Abort
<1> QED BY <1>2, <1>3, <1>4, <1>5

LEMMA FreshReadsStay ==
    ASSUME SerialInv, NEW r \in Request, OthersKeep(r), Step(r), r \notin issued,
           \A q \in Request \ {r} : pc[q] \notin InFlight
    PROVE  FreshReads'
<1>1. FreshRead(r)'
  BY ReadIsFresh
<1>2. ASSUME NEW q \in Request \ {r} PROVE FreshRead(q)'
  <2>1. pc'[q] = pc[q] /\ pc'[q] \notin InFlight
    BY DEF OthersKeep
  <2>2. ASSUME q \in Refresh, pc[q] # "idle"
        PROVE  tok[q] \in issued /\ tok[q] \in Request \ {r} /\ cred[q] = cred[tok[q]]
    BY <2>2 DEF SerialInv, SessionInv, RowsExist, TypeOK, Token, Request, FreshReads, FreshRead
  <2> QED BY <2>1, <2>2 DEF FreshRead, OthersKeep, InFlight
<1> QED BY <1>1, <1>2 DEF FreshReads

LEMMA SerialInvInit == Init => SerialInv
<1> SUFFICES ASSUME Init PROVE SerialInv
  OBVIOUS
<1>1. SessionInv /\ RegistryInv
  BY InvInit, RegistryInvInit
<1>2. AtMostOne /\ FreshReads
  BY DEF Init, AtMostOne, FreshReads, FreshRead, InFlight, Request
<1>3. Promises
  BY DEF Init, Promises, OneLiveReplacement, ResetEndsEverySession, LogoutEndsSession,
     LiveTokenHasSession, Live, Request
<1> QED BY <1>1, <1>2, <1>3 DEF SerialInv

LEMMA SerialInvNext == SerialInv /\ [SerialNext]_vars => SerialInv'
<1> SUFFICES ASSUME SerialInv, [SerialNext]_vars PROVE SerialInv'
  OBVIOUS
<1>1. SessionInv' /\ RegistryInv'
  BY SerialIsNext, InvNext, RegistryInvNext DEF SerialInv
<1>2. ASSUME NEW r \in Request, Step(r),
             \A q \in Request \ {r} : pc[q] \notin InFlight
      PROVE  AtMostOne' /\ FreshReads' /\ Promises'
  <2>1. r \notin issued /\ OthersKeep(r)
    BY <1>2, OthersStay DEF SerialInv
  <2>2. Promises'
    BY <1>1, <1>2, <2>1, StepKinds, LoginKeeps, RefreshKeeps, LogoutKeeps, ResetKeeps,
       ReadingKeeps DEF SerialInv
  <2> QED BY <1>2, <2>1, <2>2, AloneStays, FreshReadsStay
<1>3. ASSUME \/ \E t \in Token : Expire(t)
             \/ UNCHANGED vars
      PROVE  AtMostOne' /\ FreshReads' /\ Promises'
  <2>1. UNCHANGED <<issued, revoked, sess, pwd, pc, known, targets>>
    BY <1>3 DEF Expire, vars, rows
  <2>2. AtMostOne' /\ FreshReads'
    BY <2>1 DEF SerialInv, AtMostOne, FreshReads, FreshRead, Live, known
  <2>3. Promises'
    BY <2>1 DEF SerialInv, Promises, OneLiveReplacement, ResetEndsEverySession,
       LogoutEndsSession, LiveTokenHasSession, SessionOf, Live, known
  <2> QED BY <2>2, <2>3
<1> QED BY <1>1, <1>2, <1>3, SerialCases DEF SerialInv

\* Every commit of a request alone is a step of the strict register.
LEMMA StrictSimulates ==
    ASSUME SerialInv, SerialInv', [SerialNext]_vars
    PROVE  Registry!StrictNext \/ UNCHANGED Registry!registry
<1>1. SessionInv /\ SessionInv' /\ RegistryInv /\ [Next]_vars
  BY SerialIsNext DEF SerialInv
<1>2. ASSUME UNCHANGED <<issued, revoked, sess, pwd>>
      PROVE  UNCHANGED Registry!registry
  BY <1>1, <1>2, RowsAloneStutter
<1>3. ASSUME NEW r \in Login, LoginCommit(r) PROVE Registry!StrictNext
  <2>1. owner[r] \in User /\ r \in Token
    BY <1>1, <1>3 DEF LoginCommit, RegistryInv, ActsForUser, Request, Token
  <2> QED BY <1>1, <1>3, <2>1, LoginOpens DEF Registry!StrictNext
<1>4. ASSUME NEW r \in Refresh, RefreshCommit(r) PROVE Registry!StrictNext
  <2>1. tok[r] \in Live /\ r \in Token
    BY <1>4 DEF RefreshCommit, SerialInv, FreshReads, FreshRead, InFlight, Request, Token
  <2> QED BY <1>1, <1>4, <2>1, RefreshRotates DEF Registry!StrictNext
<1>5. ASSUME NEW r \in Logout, LogoutCommit(r) PROVE Registry!StrictNext
  <2>1. tok[r] \in Token
    BY <1>1, <1>5 DEF LogoutCommit, SessionInv, RowsExist, TypeOK
  <2>2. Registry!Close(tok[r])
    BY <1>1, <1>5, LogoutCloses
  <2>3. \E t \in Token : Registry!Close(t)
    BY <2>1, <2>2 DEF Registry!Close
  <2> QED BY <2>3 DEF Registry!StrictNext
<1>6. ASSUME NEW r \in Reset, ResetCommit(r) PROVE Registry!StrictNext
  <2>1. owner[r] \in User
    BY <1>1, <1>6 DEF ResetCommit, RegistryInv, ActsForUser, Request
  <2>2. /\ Registry!ChangePassword(owner[r], r)
        /\ (Live' \cup Tracked') \cap Registry!Of(owner[r]) = {}
    BY <1>1, <1>6, ResetStrict
  <2> QED BY <1>6, <2>1, <2>2 DEF Registry!StrictNext, Tracked
<1>7. ASSUME NEW r \in Request, Step(r)
      PROVE  Registry!StrictNext \/ UNCHANGED Registry!registry
  BY <1>1, <1>2, <1>3, <1>4, <1>5, <1>6, <1>7, StepKinds
<1>8. ASSUME \/ \E t \in Token : Expire(t)
             \/ UNCHANGED vars
      PROVE  UNCHANGED Registry!registry
  BY <1>2, <1>8 DEF Expire, vars, rows
<1> QED BY <1>7, <1>8, SerialCases

-----------------------------------------------------------------------------
(* The theorems.                                                            *)

\* Every state of every run without overlaps has the invariant.
THEOREM SerialInvariant == SerialSpec => []SerialInv
BY SerialInvInit, SerialInvNext, PTL DEF SerialSpec

\* "Rotate: new refresh token replaces the old one": one at a time, requests
\* leave a token one live replacement at most.
THEOREM ReplacedOnce == SerialSpec => []OneLiveReplacement
<1>1. SerialInv => OneLiveReplacement
  BY DEF SerialInv, Promises
<1> QED BY <1>1, SerialInvariant, PTL

\* "after a successful password reset, revoke every active session": one at a
\* time, no token outlives the password it goes back to.
THEOREM ResetEndsAll == SerialSpec => []ResetEndsEverySession
<1>1. SerialInv => ResetEndsEverySession
  BY DEF SerialInv, Promises
<1> QED BY <1>1, SerialInvariant, PTL

\* "Revoke a refresh token and remove the active session": one at a time, a
\* logout leaves neither its token nor a replacement.
THEOREM LogoutEnds == SerialSpec => []LogoutEndsSession
<1>1. SerialInv => LogoutEndsSession
  BY DEF SerialInv, Promises
<1> QED BY <1>1, SerialInvariant, PTL

\* "Also creates an ActiveSession row to track the session": one at a time,
\* every token that is accepted has its row.
THEOREM LiveTracked == SerialSpec => []LiveTokenHasSession
<1>1. SerialInv => LiveTokenHasSession
  BY DEF SerialInv, Promises
<1> QED BY <1>1, SerialInvariant, PTL

\* One at a time, the requests do what the strict register does: they rotate
\* live tokens only, and a new password ends every token of its account.
THEOREM StrictRefinement == SerialSpec => ImplementsStrictRegistry
<1>1. Init => Registry!Init
  BY RegistryInit
<1>2. SerialInv /\ SerialInv' /\ [SerialNext]_vars => [Registry!StrictNext]_Registry!registry
  BY StrictSimulates
<1> QED BY <1>1, <1>2, SerialInvariant, PTL
        DEF SerialSpec, ImplementsStrictRegistry, Registry!StrictSpec
=============================================================================
