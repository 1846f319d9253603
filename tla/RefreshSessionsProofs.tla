----------------------- MODULE RefreshSessionsProofs -----------------------
(* Proofs about RefreshSessions, for any sets of users and requests.        *)
EXTENDS RefreshSessions, TLAPS

\* Every step is one of these, so that a proof has a case for each.
LEMMA StepCases ==
  ASSUME [Next]_vars
  PROVE  \/ \E r \in Login : LoginCheck(r) \/ LoginCommit(r)
         \/ \E r \in Refresh : \/ RefreshSelect(r) \/ RefreshFlush(r)
                              \/ SelectSession(r) \/ RefreshCommit(r)
         \/ \E r \in Logout : \/ LogoutSelect(r) \/ LogoutFlush(r)
                             \/ SelectSession(r) \/ LogoutCommit(r)
         \/ \E r \in Reset : \/ ResetSelect(r) \/ ResetFlush(r) \/ ResetMark(r)
                            \/ ResetSelectSessions(r) \/ ResetSweep(r)
                            \/ ResetCommit(r)
         \/ \E r \in Request : pc[r] \in InFlight /\ Rollback(r)
         \/ \E t \in Token : Expire(t)
         \/ UNCHANGED vars
<1>1. ASSUME NEW r \in Request, Begin(r)
      PROVE  \/ r \in Login /\ LoginCheck(r)
             \/ r \in Refresh /\ RefreshSelect(r)
             \/ r \in Logout /\ LogoutSelect(r)
             \/ r \in Reset /\ ResetSelect(r)
  BY <1>1 DEF Begin
<1>2. ASSUME NEW r \in Request, Continue(r)
      PROVE  \/ r \in Login /\ LoginCommit(r)
             \/ /\ r \in Refresh
                /\ \/ RefreshFlush(r) \/ SelectSession(r) \/ RefreshCommit(r)
                   \/ (pc[r] \in InFlight /\ Rollback(r))
             \/ /\ r \in Logout
                /\ (LogoutFlush(r) \/ SelectSession(r) \/ LogoutCommit(r))
             \/ /\ r \in Reset
                /\ \/ ResetFlush(r) \/ ResetMark(r) \/ ResetSelectSessions(r)
                   \/ ResetSweep(r) \/ ResetCommit(r)
  <2>1. RefreshStale(r) => pc[r] \in InFlight /\ Rollback(r)
    BY DEF RefreshStale, InFlight
  <2> QED BY <1>2, <2>1 DEF Continue
<1>3. ASSUME NEW r \in Request, Abort(r) PROVE pc[r] \in InFlight /\ Rollback(r)
  BY <1>3 DEF Abort
<1>4. Quiescent => UNCHANGED vars
  BY DEF Quiescent
<1> QED BY <1>1, <1>2, <1>3, <1>4 DEF Next, Step

-----------------------------------------------------------------------------
(* What the operators of the model do.                                      *)

\* Whoever holds a token's row holds a row that exists: a revocation that is
\* committed is one of a committed token.
LEMMA HeldAreIssued ==
  ASSUME TypeOK, RowsExist, LocksOwned, NEW r \in Request
  PROVE  HeldTokens(r) \subseteq issued
<1> SUFFICES ASSUME NEW t \in Token, rtLock[t] = r PROVE t \in issued
  BY DEF HeldTokens
<1>1. rtLock[t] # Nil
  BY NilIsNone
<1>2. CASE /\ r \in Refresh \cup Logout
           /\ pc[r] \in {"flushed", "found"}
           /\ tok[r] = t
  BY <1>2 DEF RowsExist
<1>3. CASE r \in Reset /\ t \in targets[r]
  BY <1>3 DEF RowsExist
<1> QED BY <1>1, <1>2, <1>3 DEF LocksOwned

\* SELECT by hash returns a row that has it, and none only if none has.
LEMMA SelectFinds ==
  ASSUME TypeOK, NEW r \in Refresh \cup Logout, SelectSession(r)
  PROVE  /\ row'[r] \in Token \cup {Nil}
         /\ row'[r] # Nil => sess[row'[r]] = tok[r]
         /\ row'[r] = Nil => \A s \in Token : sess[s] # tok[r]
<1>1. row'[r] = IF SessionOf(tok[r]) = {} THEN Nil
                ELSE CHOOSE s \in SessionOf(tok[r]) : TRUE
  BY DEF SelectSession, TypeOK, Request
<1>2. CASE SessionOf(tok[r]) = {}
  BY <1>1, <1>2 DEF SessionOf
<1>3. CASE SessionOf(tok[r]) # {}
  <2>1. (CHOOSE s \in SessionOf(tok[r]) : TRUE) \in SessionOf(tok[r])
    BY <1>3
  <2>2. row'[r] \in Token /\ sess[row'[r]] = tok[r]
    BY <1>1, <1>3, <2>1 DEF SessionOf
  <2>3. row'[r] # Nil
    BY <2>2, NilIsNone DEF Token, Request
  <2> QED BY <2>2, <2>3
<1> QED BY <1>2, <1>3

-----------------------------------------------------------------------------
(* The type invariant.                                                      *)

LEMMA TypeInit == Init => TypeOK
  BY DEF Init, TypeOK

LEMMA TypeNext == TypeOK /\ RowsExist /\ LocksOwned /\ [Next]_vars => TypeOK'
<1> SUFFICES ASSUME TypeOK, RowsExist, LocksOwned, [Next]_vars PROVE TypeOK'
  OBVIOUS
<1> USE DEF TypeOK, Request, Token, rows, known, Go, InFlight, Ended
<1>1. ASSUME NEW r \in Login, LoginCheck(r) PROVE TypeOK'
  BY <1>1 DEF LoginCheck
<1>2. ASSUME NEW r \in Login, LoginCommit(r) PROVE TypeOK'
  BY <1>2 DEF LoginCommit
<1>3. ASSUME NEW r \in Refresh, RefreshSelect(r) PROVE TypeOK'
  BY <1>3 DEF RefreshSelect, Delivered
<1>4. ASSUME NEW r \in Refresh, RefreshFlush(r) PROVE TypeOK'
  BY <1>4 DEF RefreshFlush
<1>5. ASSUME NEW r \in Refresh \cup Logout, SelectSession(r) PROVE TypeOK'
  BY <1>5, SelectFinds DEF SelectSession
<1>6. ASSUME NEW r \in Refresh, RefreshCommit(r) PROVE TypeOK'
  <2>1. revoked' \subseteq issued
    BY <1>6, HeldAreIssued DEF RefreshCommit, CommitRevocations
  <2> QED BY <1>6, <2>1 DEF RefreshCommit, ForgetReads, ReleaseLocks
<1>7. ASSUME NEW r \in Request, Rollback(r) PROVE TypeOK'
  BY <1>7 DEF Rollback, ForgetReads, ReleaseLocks
<1>8. ASSUME NEW r \in Logout, LogoutSelect(r) PROVE TypeOK'
  BY <1>8 DEF LogoutSelect, Delivered
<1>9. ASSUME NEW r \in Logout, LogoutFlush(r) PROVE TypeOK'
  BY <1>9 DEF LogoutFlush
<1>10. ASSUME NEW r \in Logout, LogoutCommit(r) PROVE TypeOK'
  <2>1. revoked' \subseteq issued
    BY <1>10, HeldAreIssued DEF LogoutCommit, CommitRevocations
  <2> QED BY <1>10, <2>1 DEF LogoutCommit, ForgetReads, ReleaseLocks
<1>11. ASSUME NEW r \in Reset, ResetSelect(r) PROVE TypeOK'
  BY <1>11 DEF ResetSelect
<1>12. ASSUME NEW r \in Reset, ResetFlush(r) PROVE TypeOK'
  BY <1>12 DEF ResetFlush, Live
<1>13. ASSUME NEW r \in Reset, ResetMark(r) PROVE TypeOK'
  BY <1>13 DEF ResetMark, ToMark
<1>14. ASSUME NEW r \in Reset, ResetSelectSessions(r) PROVE TypeOK'
  BY <1>14 DEF ResetSelectSessions
<1>15. ASSUME NEW r \in Reset, ResetSweep(r) PROVE TypeOK'
  BY <1>15 DEF ResetSweep, ToSweep
<1>16. ASSUME NEW r \in Reset, ResetCommit(r) PROVE TypeOK'
  <2>1. revoked' \subseteq issued
    BY <1>16, HeldAreIssued DEF ResetCommit, CommitRevocations
  <2> QED BY <1>16, <2>1 DEF ResetCommit, ForgetReads, ReleaseLocks
<1>17. ASSUME NEW t \in Token, Expire(t) PROVE TypeOK'
  BY <1>17 DEF Expire
<1>18. CASE UNCHANGED vars
  BY <1>18 DEF vars
<1> HIDE DEF TypeOK
<1> QED
  BY StepCases, <1>1, <1>2, <1>3, <1>4, <1>5, <1>6, <1>7, <1>8, <1>9, <1>10,
     <1>11, <1>12, <1>13, <1>14, <1>15, <1>16, <1>17, <1>18

-----------------------------------------------------------------------------
(* The inductive invariant, one conjunct at a time.                         *)

\* A commit adds the row a request issues and no other; whatever a request
\* refers to was read from committed rows, and those are never deleted.
LEMMA RowsExistNext ==
  ASSUME TypeOK, RowsExist, [Next]_vars
  PROVE  RowsExist'
<1> USE KindsDisjoint, NilIsNone DEF TypeOK, Request, Token, rows, known, Go,
            InFlight, Ended, RowsExist
<1>1. ASSUME NEW r \in Login, LoginCheck(r) PROVE RowsExist'
  BY <1>1 DEF LoginCheck
<1>2. ASSUME NEW r \in Login, LoginCommit(r) PROVE RowsExist'
  BY <1>2 DEF LoginCommit
<1>3. ASSUME NEW r \in Refresh, RefreshSelect(r) PROVE RowsExist'
  BY <1>3 DEF RefreshSelect, Delivered
<1>4. ASSUME NEW r \in Refresh, RefreshFlush(r) PROVE RowsExist'
  BY <1>4 DEF RefreshFlush
<1>5. ASSUME NEW r \in Refresh \cup Logout, SelectSession(r) PROVE RowsExist'
  <2>1. tok[r] \in issued /\ tok[r] # Nil
    BY <1>5 DEF SelectSession
  <2>2. row'[r] # Nil => row'[r] \in issued
    BY <1>5, <2>1, SelectFinds
  <2>3. \A q \in Request : q # r => row'[q] = row[q]
    BY <1>5 DEF SelectSession
  <2>4. /\ issued' = issued /\ tok' = tok /\ targets' = targets
        /\ sess' = sess
        /\ pc' = [pc EXCEPT ![r] = "found"] /\ pc[r] = "flushed"
    BY <1>5 DEF SelectSession
  <2> QED BY <2>2, <2>3, <2>4
<1>6. ASSUME NEW r \in Refresh, RefreshCommit(r) PROVE RowsExist'
  BY <1>6 DEF RefreshCommit, CommitRevocations, HeldTokens, ForgetReads,
         ReleaseLocks
<1>7. ASSUME NEW r \in Request, pc[r] \in InFlight, Rollback(r)
      PROVE RowsExist'
  BY <1>7 DEF Rollback, ForgetReads, ReleaseLocks
<1>8. ASSUME NEW r \in Logout, LogoutSelect(r) PROVE RowsExist'
  BY <1>8 DEF LogoutSelect, Delivered
<1>9. ASSUME NEW r \in Logout, LogoutFlush(r) PROVE RowsExist'
  BY <1>9 DEF LogoutFlush
<1>10. ASSUME NEW r \in Logout, LogoutCommit(r) PROVE RowsExist'
  BY <1>10 DEF LogoutCommit, CommitRevocations, HeldTokens, ForgetReads,
         ReleaseLocks
<1>11. ASSUME NEW r \in Reset, ResetSelect(r) PROVE RowsExist'
  BY <1>11 DEF ResetSelect
<1>12. ASSUME NEW r \in Reset, ResetFlush(r) PROVE RowsExist'
  BY <1>12 DEF ResetFlush, Live
<1>13. ASSUME NEW r \in Reset, ResetMark(r) PROVE RowsExist'
  BY <1>13 DEF ResetMark, ToMark
<1>14. ASSUME NEW r \in Reset, ResetSelectSessions(r) PROVE RowsExist'
  BY <1>14 DEF ResetSelectSessions, ToMark, HeldTokens
<1>15. ASSUME NEW r \in Reset, ResetSweep(r) PROVE RowsExist'
  BY <1>15 DEF ResetSweep, ToSweep
<1>16. ASSUME NEW r \in Reset, ResetCommit(r) PROVE RowsExist'
  BY <1>16 DEF ResetCommit, CommitRevocations, HeldTokens, HeldSessions,
         ToSweep, ForgetReads, ReleaseLocks
<1>17. ASSUME NEW t \in Token, Expire(t) PROVE RowsExist'
  BY <1>17 DEF Expire
<1>18. CASE UNCHANGED vars
  BY <1>18 DEF vars
<1> HIDE DEF RowsExist
<1> QED BY StepCases, <1>1, <1>2, <1>3, <1>4, <1>5, <1>6, <1>7, <1>8, <1>9,
           <1>10, <1>11, <1>12, <1>13, <1>14, <1>15, <1>16, <1>17, <1>18

\* A token, its replacement and the session that follows them have one user.
LEMMA OwnersAgreeNext ==
  ASSUME TypeOK, RowsExist, OwnersAgree, ReadsHold, SessionsBackedByLiveToken,
         [Next]_vars
  PROVE  OwnersAgree'
<1> USE KindsDisjoint, NilIsNone DEF TypeOK, Request, Token, rows, known, Go,
            InFlight, Ended, RowsExist, OwnersAgree, ReadsHold,
            SessionsBackedByLiveToken, Live
<1>1. ASSUME NEW r \in Login, LoginCheck(r) PROVE OwnersAgree'
  BY <1>1 DEF LoginCheck
<1>2. ASSUME NEW r \in Login, LoginCommit(r) PROVE OwnersAgree'
  BY <1>2 DEF LoginCommit
<1>3. ASSUME NEW r \in Refresh, RefreshSelect(r) PROVE OwnersAgree'
  BY <1>3 DEF RefreshSelect, Delivered
<1>4. ASSUME NEW r \in Refresh, RefreshFlush(r) PROVE OwnersAgree'
  BY <1>4 DEF RefreshFlush
<1>5. ASSUME NEW r \in Refresh \cup Logout, SelectSession(r)
      PROVE OwnersAgree'
  BY <1>5, SelectFinds DEF SelectSession
<1>6. ASSUME NEW r \in Refresh, RefreshCommit(r) PROVE OwnersAgree'
  BY <1>6 DEF RefreshCommit, CommitRevocations, HeldTokens, ForgetReads,
         ReleaseLocks
<1>7. ASSUME NEW r \in Request, pc[r] \in InFlight, Rollback(r)
      PROVE OwnersAgree'
  BY <1>7 DEF Rollback, ForgetReads, ReleaseLocks
<1>8. ASSUME NEW r \in Logout, LogoutSelect(r) PROVE OwnersAgree'
  BY <1>8 DEF LogoutSelect, Delivered
<1>9. ASSUME NEW r \in Logout, LogoutFlush(r) PROVE OwnersAgree'
  BY <1>9 DEF LogoutFlush
<1>10. ASSUME NEW r \in Logout, LogoutCommit(r) PROVE OwnersAgree'
  BY <1>10 DEF LogoutCommit, CommitRevocations, HeldTokens, ForgetReads,
         ReleaseLocks
<1>11. ASSUME NEW r \in Reset, ResetSelect(r) PROVE OwnersAgree'
  BY <1>11 DEF ResetSelect
<1>12. ASSUME NEW r \in Reset, ResetFlush(r) PROVE OwnersAgree'
  BY <1>12 DEF ResetFlush, Live
<1>13. ASSUME NEW r \in Reset, ResetMark(r) PROVE OwnersAgree'
  BY <1>13 DEF ResetMark, ToMark
<1>14. ASSUME NEW r \in Reset, ResetSelectSessions(r) PROVE OwnersAgree'
  BY <1>14 DEF ResetSelectSessions, ToMark, HeldTokens
<1>15. ASSUME NEW r \in Reset, ResetSweep(r) PROVE OwnersAgree'
  BY <1>15 DEF ResetSweep, ToSweep
<1>16. ASSUME NEW r \in Reset, ResetCommit(r) PROVE OwnersAgree'
  BY <1>16 DEF ResetCommit, CommitRevocations, HeldTokens, HeldSessions,
         ToSweep, ForgetReads, ReleaseLocks
<1>17. ASSUME NEW t \in Token, Expire(t) PROVE OwnersAgree'
  BY <1>17 DEF Expire
<1>18. CASE UNCHANGED vars
  BY <1>18 DEF vars
<1> HIDE DEF OwnersAgree
<1> QED BY StepCases, <1>1, <1>2, <1>3, <1>4, <1>5, <1>6, <1>7, <1>8, <1>9,
           <1>10, <1>11, <1>12, <1>13, <1>14, <1>15, <1>16, <1>17, <1>18

\* Locks are taken by the UPDATE of a rotation, a logout or a reset and all
\* given up together when that transaction ends.
LEMMA LocksOwnedNext ==
  ASSUME TypeOK, LocksOwned, [Next]_vars
  PROVE  LocksOwned'
<1> USE KindsDisjoint, NilIsNone DEF TypeOK, Request, Token, rows, known, Go,
            InFlight, Ended, LocksOwned
<1>1. ASSUME NEW r \in Login, LoginCheck(r) PROVE LocksOwned'
  BY <1>1 DEF LoginCheck
<1>2. ASSUME NEW r \in Login, LoginCommit(r) PROVE LocksOwned'
  BY <1>2 DEF LoginCommit
<1>3. ASSUME NEW r \in Refresh, RefreshSelect(r) PROVE LocksOwned'
  BY <1>3 DEF RefreshSelect, Delivered
<1>4. ASSUME NEW r \in Refresh, RefreshFlush(r) PROVE LocksOwned'
  BY <1>4 DEF RefreshFlush
<1>5. ASSUME NEW r \in Refresh \cup Logout, SelectSession(r) PROVE LocksOwned'
  BY <1>5, SelectFinds DEF SelectSession
<1>6. ASSUME NEW r \in Refresh, RefreshCommit(r) PROVE LocksOwned'
  BY <1>6 DEF RefreshCommit, CommitRevocations, HeldTokens, ForgetReads,
         ReleaseLocks
<1>7. ASSUME NEW r \in Request, pc[r] \in InFlight, Rollback(r)
      PROVE LocksOwned'
  BY <1>7 DEF Rollback, ForgetReads, ReleaseLocks
<1>8. ASSUME NEW r \in Logout, LogoutSelect(r) PROVE LocksOwned'
  BY <1>8 DEF LogoutSelect, Delivered
<1>9. ASSUME NEW r \in Logout, LogoutFlush(r) PROVE LocksOwned'
  BY <1>9 DEF LogoutFlush
<1>10. ASSUME NEW r \in Logout, LogoutCommit(r) PROVE LocksOwned'
  BY <1>10 DEF LogoutCommit, CommitRevocations, HeldTokens, ForgetReads,
         ReleaseLocks
<1>11. ASSUME NEW r \in Reset, ResetSelect(r) PROVE LocksOwned'
  BY <1>11 DEF ResetSelect
<1>12. ASSUME NEW r \in Reset, ResetFlush(r) PROVE LocksOwned'
  BY <1>12 DEF ResetFlush, Live
<1>13. ASSUME NEW r \in Reset, ResetMark(r) PROVE LocksOwned'
  BY <1>13 DEF ResetMark, ToMark
<1>14. ASSUME NEW r \in Reset, ResetSelectSessions(r) PROVE LocksOwned'
  BY <1>14 DEF ResetSelectSessions, ToMark, HeldTokens
<1>15. ASSUME NEW r \in Reset, ResetSweep(r) PROVE LocksOwned'
  BY <1>15 DEF ResetSweep, ToSweep
<1>16. ASSUME NEW r \in Reset, ResetCommit(r) PROVE LocksOwned'
  BY <1>16 DEF ResetCommit, CommitRevocations, HeldTokens, HeldSessions,
         ToSweep, ForgetReads, ReleaseLocks
<1>17. ASSUME NEW t \in Token, Expire(t) PROVE LocksOwned'
  BY <1>17 DEF Expire
<1>18. CASE UNCHANGED vars
  BY <1>18 DEF vars
<1> HIDE DEF LocksOwned
<1> QED BY StepCases, <1>1, <1>2, <1>3, <1>4, <1>5, <1>6, <1>7, <1>8, <1>9,
           <1>10, <1>11, <1>12, <1>13, <1>14, <1>15, <1>16, <1>17, <1>18

\* From its UPDATE of a token to its end a transaction keeps the row, so no
\* other can be between its own UPDATE and commit of the same row.
LEMMA WritesLockedNext ==
  ASSUME TypeOK, RowsExist, LocksOwned, WritesLocked, [Next]_vars
  PROVE  WritesLocked'
<1> USE KindsDisjoint, NilIsNone DEF TypeOK, Request, Token, rows, known, Go,
            InFlight, Ended, RowsExist, LocksOwned, WritesLocked
<1>1. ASSUME NEW r \in Login, LoginCheck(r) PROVE WritesLocked'
  BY <1>1 DEF LoginCheck
<1>2. ASSUME NEW r \in Login, LoginCommit(r) PROVE WritesLocked'
  BY <1>2 DEF LoginCommit
<1>3. ASSUME NEW r \in Refresh, RefreshSelect(r) PROVE WritesLocked'
  BY <1>3 DEF RefreshSelect, Delivered
<1>4. ASSUME NEW r \in Refresh, RefreshFlush(r) PROVE WritesLocked'
  BY <1>4 DEF RefreshFlush
<1>5. ASSUME NEW r \in Refresh \cup Logout, SelectSession(r)
      PROVE WritesLocked'
  BY <1>5, SelectFinds DEF SelectSession
<1>6. ASSUME NEW r \in Refresh, RefreshCommit(r) PROVE WritesLocked'
  BY <1>6 DEF RefreshCommit, CommitRevocations, HeldTokens, ForgetReads,
         ReleaseLocks
<1>7. ASSUME NEW r \in Request, pc[r] \in InFlight, Rollback(r)
      PROVE WritesLocked'
  BY <1>7 DEF Rollback, ForgetReads, ReleaseLocks
<1>8. ASSUME NEW r \in Logout, LogoutSelect(r) PROVE WritesLocked'
  <2>1. PICK t \in Delivered :
          /\ tok' = [tok EXCEPT ![r] = t]
          /\ sawRevoked' = [sawRevoked EXCEPT ![r] = (t \in revoked)]
    BY <1>8 DEF LogoutSelect
  <2>2. sawRevoked'[r] => tok'[r] \in revoked
    BY <2>1
  <2>3. \A q \in Request : q # r =>
          tok'[q] = tok[q] /\ sawRevoked'[q] = sawRevoked[q] /\ pc'[q] = pc[q]
    BY <1>8, <2>1 DEF LogoutSelect
  <2>4. pc'[r] = "read" /\ revoked' = revoked /\ rtLock' = rtLock
        /\ targets' = targets
    BY <1>8 DEF LogoutSelect
  <2> QED BY <2>2, <2>3, <2>4
<1>9. ASSUME NEW r \in Logout, LogoutFlush(r) PROVE WritesLocked'
  BY <1>9 DEF LogoutFlush
<1>10. ASSUME NEW r \in Logout, LogoutCommit(r) PROVE WritesLocked'
  BY <1>10 DEF LogoutCommit, CommitRevocations, HeldTokens, ForgetReads,
         ReleaseLocks
<1>11. ASSUME NEW r \in Reset, ResetSelect(r) PROVE WritesLocked'
  BY <1>11 DEF ResetSelect
<1>12. ASSUME NEW r \in Reset, ResetFlush(r) PROVE WritesLocked'
  BY <1>12 DEF ResetFlush, Live
<1>13. ASSUME NEW r \in Reset, ResetMark(r) PROVE WritesLocked'
  BY <1>13 DEF ResetMark, ToMark
<1>14. ASSUME NEW r \in Reset, ResetSelectSessions(r) PROVE WritesLocked'
  BY <1>14 DEF ResetSelectSessions, ToMark, HeldTokens
<1>15. ASSUME NEW r \in Reset, ResetSweep(r) PROVE WritesLocked'
  BY <1>15 DEF ResetSweep, ToSweep
<1>16. ASSUME NEW r \in Reset, ResetCommit(r) PROVE WritesLocked'
  BY <1>16 DEF ResetCommit, CommitRevocations, HeldTokens, HeldSessions,
         ToSweep, ForgetReads, ReleaseLocks
<1>17. ASSUME NEW t \in Token, Expire(t) PROVE WritesLocked'
  BY <1>17 DEF Expire
<1>18. CASE UNCHANGED vars
  BY <1>18 DEF vars
<1> HIDE DEF WritesLocked
<1> QED BY StepCases, <1>1, <1>2, <1>3, <1>4, <1>5, <1>6, <1>7, <1>8, <1>9,
           <1>10, <1>11, <1>12, <1>13, <1>14, <1>15, <1>16, <1>17, <1>18

\* Only the holder of a token's row renames or deletes the session with its
\* hash, or a reset that makes the holder's UPDATE find nothing.
LEMMA ReadsHoldNext ==
  ASSUME TypeOK, RowsExist, LocksOwned, WritesLocked, ReadsHold,
         SessionsBackedByLiveToken, SessionHashUnique, [Next]_vars
  PROVE  ReadsHold'
<1> USE KindsDisjoint, NilIsNone DEF TypeOK, Request, Token, rows, known, Go,
            InFlight, Ended, RowsExist, LocksOwned, WritesLocked, ReadsHold,
            SessionsBackedByLiveToken, SessionHashUnique, Live
<1>1. ASSUME NEW r \in Login, LoginCheck(r) PROVE ReadsHold'
  BY <1>1 DEF LoginCheck
<1>2. ASSUME NEW r \in Login, LoginCommit(r) PROVE ReadsHold'
  BY <1>2 DEF LoginCommit
<1>3. ASSUME NEW r \in Refresh, RefreshSelect(r) PROVE ReadsHold'
  BY <1>3 DEF RefreshSelect, Delivered
<1>4. ASSUME NEW r \in Refresh, RefreshFlush(r) PROVE ReadsHold'
  BY <1>4 DEF RefreshFlush
<1>5. ASSUME NEW r \in Refresh \cup Logout, SelectSession(r) PROVE ReadsHold'
  <2>1. \A q \in Request : q # r => row'[q] = row[q] /\ pc'[q] = pc[q]
    BY <1>5 DEF SelectSession
  <2>2. sess' = sess /\ tok' = tok
    BY <1>5 DEF SelectSession
  <2>3. /\ row'[r] # Nil => sess[row'[r]] = tok[r]
        /\ row'[r] = Nil => \A s \in Token : sess[s] # tok[r]
        /\ \A s \in Token : sess[s] = tok[r] => s = row'[r]
    <3>1. tok[r] \in Token /\ tok[r] # Nil
      BY <1>5 DEF SelectSession
    <3>2. /\ row'[r] \in Token \cup {Nil}
          /\ row'[r] # Nil => sess[row'[r]] = tok[r]
          /\ row'[r] = Nil => \A s \in Token : sess[s] # tok[r]
      BY <1>5, SelectFinds
    <3> QED BY <3>1, <3>2
  <2> QED BY <2>1, <2>2, <2>3
<1>6. ASSUME NEW r \in Refresh, RefreshCommit(r) PROVE ReadsHold'
  BY <1>6 DEF RefreshCommit, CommitRevocations, HeldTokens, ForgetReads,
         ReleaseLocks
<1>7. ASSUME NEW r \in Request, pc[r] \in InFlight, Rollback(r)
      PROVE ReadsHold'
  BY <1>7 DEF Rollback, ForgetReads, ReleaseLocks
<1>8. ASSUME NEW r \in Logout, LogoutSelect(r) PROVE ReadsHold'
  BY <1>8 DEF LogoutSelect, Delivered
<1>9. ASSUME NEW r \in Logout, LogoutFlush(r) PROVE ReadsHold'
  BY <1>9 DEF LogoutFlush
<1>10. ASSUME NEW r \in Logout, LogoutCommit(r) PROVE ReadsHold'
  BY <1>10 DEF LogoutCommit, CommitRevocations, HeldTokens, ForgetReads,
         ReleaseLocks
<1>11. ASSUME NEW r \in Reset, ResetSelect(r) PROVE ReadsHold'
  BY <1>11 DEF ResetSelect
<1>12. ASSUME NEW r \in Reset, ResetFlush(r) PROVE ReadsHold'
  BY <1>12 DEF ResetFlush, Live
<1>13. ASSUME NEW r \in Reset, ResetMark(r) PROVE ReadsHold'
  BY <1>13 DEF ResetMark, ToMark
<1>14. ASSUME NEW r \in Reset, ResetSelectSessions(r) PROVE ReadsHold'
  BY <1>14 DEF ResetSelectSessions, ToMark, HeldTokens
<1>15. ASSUME NEW r \in Reset, ResetSweep(r) PROVE ReadsHold'
  BY <1>15 DEF ResetSweep, ToSweep
<1>16. ASSUME NEW r \in Reset, ResetCommit(r) PROVE ReadsHold'
  BY <1>16 DEF ResetCommit, CommitRevocations, HeldTokens, HeldSessions,
         ToSweep, ForgetReads, ReleaseLocks
<1>17. ASSUME NEW t \in Token, Expire(t) PROVE ReadsHold'
  BY <1>17 DEF Expire
<1>18. CASE UNCHANGED vars
  BY <1>18 DEF vars
<1> HIDE DEF ReadsHold
<1> QED BY StepCases, <1>1, <1>2, <1>3, <1>4, <1>5, <1>6, <1>7, <1>8, <1>9,
           <1>10, <1>11, <1>12, <1>13, <1>14, <1>15, <1>16, <1>17, <1>18

\* The hash of a session is fresh when it is set, so no session acquires the
\* hash of a token that a reset has already locked.
LEMMA SweepCoversMarksNext ==
  ASSUME TypeOK, RowsExist, OwnersAgree, LocksOwned, SweepCoversMarks,
         [Next]_vars
  PROVE  SweepCoversMarks'
<1> USE KindsDisjoint, NilIsNone DEF TypeOK, Request, Token, rows, known, Go,
            InFlight, Ended, RowsExist, OwnersAgree, LocksOwned,
            SweepCoversMarks
<1>1. ASSUME NEW r \in Login, LoginCheck(r) PROVE SweepCoversMarks'
  BY <1>1 DEF LoginCheck
<1>2. ASSUME NEW r \in Login, LoginCommit(r) PROVE SweepCoversMarks'
  BY <1>2 DEF LoginCommit
<1>3. ASSUME NEW r \in Refresh, RefreshSelect(r) PROVE SweepCoversMarks'
  BY <1>3 DEF RefreshSelect, Delivered
<1>4. ASSUME NEW r \in Refresh, RefreshFlush(r) PROVE SweepCoversMarks'
  BY <1>4 DEF RefreshFlush
<1>5. ASSUME NEW r \in Refresh \cup Logout, SelectSession(r)
      PROVE SweepCoversMarks'
  BY <1>5, SelectFinds DEF SelectSession
<1>6. ASSUME NEW r \in Refresh, RefreshCommit(r) PROVE SweepCoversMarks'
  <2>1. r \notin issued /\ rtLock[r] = Nil
    BY <1>6 DEF RefreshCommit
  <2>2. \A s \in Token : sess'[s] = sess[s] \/ sess'[s] = r
    BY <1>6 DEF RefreshCommit
  <2>3. \A t \in Token : rtLock'[t] = rtLock[t] \/ rtLock'[t] = Nil
    BY <1>6 DEF RefreshCommit, ReleaseLocks
  <2>4. \A q \in Reset : pc'[q] = pc[q] /\ sTargets'[q] = sTargets[q]
    BY <1>6 DEF RefreshCommit, ForgetReads
  <2> SUFFICES ASSUME NEW q \in Reset, pc[q] = "sweeping",
                      NEW s \in Token, sess'[s] # Nil, rtLock'[sess'[s]] = q
               PROVE  s \in sTargets[q]
    BY <2>4
  <2>5. sess'[s] = sess[s] /\ rtLock[sess[s]] = q
    BY <2>1, <2>2, <2>3
  <2> QED BY <2>5
<1>7. ASSUME NEW r \in Request, pc[r] \in InFlight, Rollback(r)
      PROVE SweepCoversMarks'
  BY <1>7 DEF Rollback, ForgetReads, ReleaseLocks
<1>8. ASSUME NEW r \in Logout, LogoutSelect(r) PROVE SweepCoversMarks'
  BY <1>8 DEF LogoutSelect, Delivered
<1>9. ASSUME NEW r \in Logout, LogoutFlush(r) PROVE SweepCoversMarks'
  BY <1>9 DEF LogoutFlush
<1>10. ASSUME NEW r \in Logout, LogoutCommit(r) PROVE SweepCoversMarks'
  BY <1>10 DEF LogoutCommit, CommitRevocations, HeldTokens, ForgetReads,
         ReleaseLocks
<1>11. ASSUME NEW r \in Reset, ResetSelect(r) PROVE SweepCoversMarks'
  BY <1>11 DEF ResetSelect
<1>12. ASSUME NEW r \in Reset, ResetFlush(r) PROVE SweepCoversMarks'
  BY <1>12 DEF ResetFlush, Live
<1>13. ASSUME NEW r \in Reset, ResetMark(r) PROVE SweepCoversMarks'
  BY <1>13 DEF ResetMark, ToMark
<1>14. ASSUME NEW r \in Reset, ResetSelectSessions(r) PROVE SweepCoversMarks'
  BY <1>14 DEF ResetSelectSessions, ToMark, HeldTokens
<1>15. ASSUME NEW r \in Reset, ResetSweep(r) PROVE SweepCoversMarks'
  BY <1>15 DEF ResetSweep, ToSweep
<1>16. ASSUME NEW r \in Reset, ResetCommit(r) PROVE SweepCoversMarks'
  BY <1>16 DEF ResetCommit, CommitRevocations, HeldTokens, HeldSessions,
         ToSweep, ForgetReads, ReleaseLocks
<1>17. ASSUME NEW t \in Token, Expire(t) PROVE SweepCoversMarks'
  BY <1>17 DEF Expire
<1>18. CASE UNCHANGED vars
  BY <1>18 DEF vars
<1> HIDE DEF SweepCoversMarks
<1> QED BY StepCases, <1>1, <1>2, <1>3, <1>4, <1>5, <1>6, <1>7, <1>8, <1>9,
           <1>10, <1>11, <1>12, <1>13, <1>14, <1>15, <1>16, <1>17, <1>18

\* Each commit that revokes tokens renames or deletes their sessions with it.
LEMMA SessionsBackedByLiveTokenNext ==
  ASSUME TypeOK, RowsExist, LocksOwned, WritesLocked, ReadsHold,
         SweepCoversMarks, SessionsBackedByLiveToken, SessionHashUnique,
         [Next]_vars
  PROVE  SessionsBackedByLiveToken'
<1> USE KindsDisjoint, NilIsNone DEF TypeOK, Request, Token, rows, known, Go,
            InFlight, Ended, RowsExist, LocksOwned, WritesLocked, ReadsHold,
            SweepCoversMarks, SessionsBackedByLiveToken, SessionHashUnique,
            Live
<1>1. ASSUME NEW r \in Login, LoginCheck(r) PROVE SessionsBackedByLiveToken'
  BY <1>1 DEF LoginCheck
<1>2. ASSUME NEW r \in Login, LoginCommit(r) PROVE SessionsBackedByLiveToken'
  BY <1>2 DEF LoginCommit
<1>3. ASSUME NEW r \in Refresh, RefreshSelect(r)
      PROVE SessionsBackedByLiveToken'
  BY <1>3 DEF RefreshSelect, Delivered
<1>4. ASSUME NEW r \in Refresh, RefreshFlush(r)
      PROVE SessionsBackedByLiveToken'
  BY <1>4 DEF RefreshFlush
<1>5. ASSUME NEW r \in Refresh \cup Logout, SelectSession(r)
      PROVE SessionsBackedByLiveToken'
  BY <1>5, SelectFinds DEF SelectSession
<1>6. ASSUME NEW r \in Refresh, RefreshCommit(r)
      PROVE SessionsBackedByLiveToken'
  BY <1>6 DEF RefreshCommit, CommitRevocations, HeldTokens, ForgetReads,
         ReleaseLocks
<1>7. ASSUME NEW r \in Request, pc[r] \in InFlight, Rollback(r)
      PROVE SessionsBackedByLiveToken'
  BY <1>7 DEF Rollback, ForgetReads, ReleaseLocks
<1>8. ASSUME NEW r \in Logout, LogoutSelect(r)
      PROVE SessionsBackedByLiveToken'
  BY <1>8 DEF LogoutSelect, Delivered
<1>9. ASSUME NEW r \in Logout, LogoutFlush(r) PROVE SessionsBackedByLiveToken'
  BY <1>9 DEF LogoutFlush
<1>10. ASSUME NEW r \in Logout, LogoutCommit(r)
      PROVE SessionsBackedByLiveToken'
  <2> SUFFICES ASSUME NEW s \in Token, sess'[s] # Nil
               PROVE  sess'[s] \in issued' \ revoked'
    OBVIOUS
  <2>1. sess'[s] = sess[s] /\ sess[s] \in Live /\ issued' = issued
    BY <1>10 DEF LogoutCommit
  <2>2. \A t \in HeldTokens(r) : t = tok[r]
    BY <1>10 DEF LogoutCommit, HeldTokens
  <2>3. sess[s] # tok[r]
    BY <1>10, <2>1 DEF LogoutCommit
  <2> QED BY <1>10, <2>1, <2>2, <2>3 DEF LogoutCommit, CommitRevocations
<1>11. ASSUME NEW r \in Reset, ResetSelect(r) PROVE SessionsBackedByLiveToken'
  BY <1>11 DEF ResetSelect
<1>12. ASSUME NEW r \in Reset, ResetFlush(r) PROVE SessionsBackedByLiveToken'
  BY <1>12 DEF ResetFlush, Live
<1>13. ASSUME NEW r \in Reset, ResetMark(r) PROVE SessionsBackedByLiveToken'
  BY <1>13 DEF ResetMark, ToMark
<1>14. ASSUME NEW r \in Reset, ResetSelectSessions(r)
      PROVE SessionsBackedByLiveToken'
  BY <1>14 DEF ResetSelectSessions, ToMark, HeldTokens
<1>15. ASSUME NEW r \in Reset, ResetSweep(r) PROVE SessionsBackedByLiveToken'
  BY <1>15 DEF ResetSweep, ToSweep
<1>16. ASSUME NEW r \in Reset, ResetCommit(r) PROVE SessionsBackedByLiveToken'
  BY <1>16 DEF ResetCommit, CommitRevocations, HeldTokens, HeldSessions,
         ToSweep, ForgetReads, ReleaseLocks
<1>17. ASSUME NEW t \in Token, Expire(t) PROVE SessionsBackedByLiveToken'
  BY <1>17 DEF Expire
<1>18. CASE UNCHANGED vars
  BY <1>18 DEF vars
<1> HIDE DEF SessionsBackedByLiveToken
<1> QED BY StepCases, <1>1, <1>2, <1>3, <1>4, <1>5, <1>6, <1>7, <1>8, <1>9,
           <1>10, <1>11, <1>12, <1>13, <1>14, <1>15, <1>16, <1>17, <1>18

\* A session is only ever given the hash of the token issued in that commit.
LEMMA SessionHashUniqueNext ==
  ASSUME TypeOK, RowsExist, SessionsBackedByLiveToken, SessionHashUnique,
         [Next]_vars
  PROVE  SessionHashUnique'
<1> USE KindsDisjoint, NilIsNone DEF TypeOK, Request, Token, rows, known, Go,
            InFlight, Ended, RowsExist, SessionsBackedByLiveToken,
            SessionHashUnique, Live
<1>1. ASSUME NEW r \in Login, LoginCheck(r) PROVE SessionHashUnique'
  BY <1>1 DEF LoginCheck
<1>2. ASSUME NEW r \in Login, LoginCommit(r) PROVE SessionHashUnique'
  BY <1>2 DEF LoginCommit
<1>3. ASSUME NEW r \in Refresh, RefreshSelect(r) PROVE SessionHashUnique'
  BY <1>3 DEF RefreshSelect, Delivered
<1>4. ASSUME NEW r \in Refresh, RefreshFlush(r) PROVE SessionHashUnique'
  BY <1>4 DEF RefreshFlush
<1>5. ASSUME NEW r \in Refresh \cup Logout, SelectSession(r)
      PROVE SessionHashUnique'
  BY <1>5, SelectFinds DEF SelectSession
<1>6. ASSUME NEW r \in Refresh, RefreshCommit(r) PROVE SessionHashUnique'
  <2>1. r \notin issued /\ r # Nil
    BY <1>6 DEF RefreshCommit
  <2>2. PICK w \in Token : sess' = [sess EXCEPT ![w] = r]
    BY <1>6 DEF RefreshCommit
  <2>3. \A s \in Token : s # w => sess'[s] = sess[s] /\ sess[s] # r
    BY <2>1, <2>2
  <2>4. sess'[w] = r
    BY <2>2
  <2> QED BY <2>3, <2>4
<1>7. ASSUME NEW r \in Request, pc[r] \in InFlight, Rollback(r)
      PROVE SessionHashUnique'
  BY <1>7 DEF Rollback, ForgetReads, ReleaseLocks
<1>8. ASSUME NEW r \in Logout, LogoutSelect(r) PROVE SessionHashUnique'
  BY <1>8 DEF LogoutSelect, Delivered
<1>9. ASSUME NEW r \in Logout, LogoutFlush(r) PROVE SessionHashUnique'
  BY <1>9 DEF LogoutFlush
<1>10. ASSUME NEW r \in Logout, LogoutCommit(r) PROVE SessionHashUnique'
  BY <1>10 DEF LogoutCommit, CommitRevocations, HeldTokens, ForgetReads,
         ReleaseLocks
<1>11. ASSUME NEW r \in Reset, ResetSelect(r) PROVE SessionHashUnique'
  BY <1>11 DEF ResetSelect
<1>12. ASSUME NEW r \in Reset, ResetFlush(r) PROVE SessionHashUnique'
  BY <1>12 DEF ResetFlush, Live
<1>13. ASSUME NEW r \in Reset, ResetMark(r) PROVE SessionHashUnique'
  BY <1>13 DEF ResetMark, ToMark
<1>14. ASSUME NEW r \in Reset, ResetSelectSessions(r) PROVE SessionHashUnique'
  BY <1>14 DEF ResetSelectSessions, ToMark, HeldTokens
<1>15. ASSUME NEW r \in Reset, ResetSweep(r) PROVE SessionHashUnique'
  BY <1>15 DEF ResetSweep, ToSweep
<1>16. ASSUME NEW r \in Reset, ResetCommit(r) PROVE SessionHashUnique'
  BY <1>16 DEF ResetCommit, CommitRevocations, HeldTokens, HeldSessions,
         ToSweep, ForgetReads, ReleaseLocks
<1>17. ASSUME NEW t \in Token, Expire(t) PROVE SessionHashUnique'
  BY <1>17 DEF Expire
<1>18. CASE UNCHANGED vars
  BY <1>18 DEF vars
<1> HIDE DEF SessionHashUnique
<1> QED BY StepCases, <1>1, <1>2, <1>3, <1>4, <1>5, <1>6, <1>7, <1>8, <1>9,
           <1>10, <1>11, <1>12, <1>13, <1>14, <1>15, <1>16, <1>17, <1>18

\* The commit that issues a replacement revokes the token it holds.
LEMMA RotatedIsRevokedNext ==
  ASSUME TypeOK, RowsExist, WritesLocked, RotatedIsRevoked, [Next]_vars
  PROVE  RotatedIsRevoked'
<1> USE KindsDisjoint, NilIsNone DEF TypeOK, Request, Token, rows, known, Go,
            InFlight, Ended, RowsExist, WritesLocked, RotatedIsRevoked
<1>1. ASSUME NEW r \in Login, LoginCheck(r) PROVE RotatedIsRevoked'
  BY <1>1 DEF LoginCheck
<1>2. ASSUME NEW r \in Login, LoginCommit(r) PROVE RotatedIsRevoked'
  BY <1>2 DEF LoginCommit
<1>3. ASSUME NEW r \in Refresh, RefreshSelect(r) PROVE RotatedIsRevoked'
  BY <1>3 DEF RefreshSelect, Delivered
<1>4. ASSUME NEW r \in Refresh, RefreshFlush(r) PROVE RotatedIsRevoked'
  BY <1>4 DEF RefreshFlush
<1>5. ASSUME NEW r \in Refresh \cup Logout, SelectSession(r)
      PROVE RotatedIsRevoked'
  BY <1>5, SelectFinds DEF SelectSession
<1>6. ASSUME NEW r \in Refresh, RefreshCommit(r) PROVE RotatedIsRevoked'
  BY <1>6 DEF RefreshCommit, CommitRevocations, HeldTokens, ForgetReads,
         ReleaseLocks
<1>7. ASSUME NEW r \in Request, pc[r] \in InFlight, Rollback(r)
      PROVE RotatedIsRevoked'
  BY <1>7 DEF Rollback, ForgetReads, ReleaseLocks
<1>8. ASSUME NEW r \in Logout, LogoutSelect(r) PROVE RotatedIsRevoked'
  BY <1>8 DEF LogoutSelect, Delivered
<1>9. ASSUME NEW r \in Logout, LogoutFlush(r) PROVE RotatedIsRevoked'
  BY <1>9 DEF LogoutFlush
<1>10. ASSUME NEW r \in Logout, LogoutCommit(r) PROVE RotatedIsRevoked'
  BY <1>10 DEF LogoutCommit, CommitRevocations, HeldTokens, ForgetReads,
         ReleaseLocks
<1>11. ASSUME NEW r \in Reset, ResetSelect(r) PROVE RotatedIsRevoked'
  BY <1>11 DEF ResetSelect
<1>12. ASSUME NEW r \in Reset, ResetFlush(r) PROVE RotatedIsRevoked'
  BY <1>12 DEF ResetFlush, Live
<1>13. ASSUME NEW r \in Reset, ResetMark(r) PROVE RotatedIsRevoked'
  BY <1>13 DEF ResetMark, ToMark
<1>14. ASSUME NEW r \in Reset, ResetSelectSessions(r) PROVE RotatedIsRevoked'
  BY <1>14 DEF ResetSelectSessions, ToMark, HeldTokens
<1>15. ASSUME NEW r \in Reset, ResetSweep(r) PROVE RotatedIsRevoked'
  BY <1>15 DEF ResetSweep, ToSweep
<1>16. ASSUME NEW r \in Reset, ResetCommit(r) PROVE RotatedIsRevoked'
  BY <1>16 DEF ResetCommit, CommitRevocations, HeldTokens, HeldSessions,
         ToSweep, ForgetReads, ReleaseLocks
<1>17. ASSUME NEW t \in Token, Expire(t) PROVE RotatedIsRevoked'
  BY <1>17 DEF Expire
<1>18. CASE UNCHANGED vars
  BY <1>18 DEF vars
<1> HIDE DEF RotatedIsRevoked
<1> QED BY StepCases, <1>1, <1>2, <1>3, <1>4, <1>5, <1>6, <1>7, <1>8, <1>9,
           <1>10, <1>11, <1>12, <1>13, <1>14, <1>15, <1>16, <1>17, <1>18

-----------------------------------------------------------------------------
(* The theorems.                                                            *)

LEMMA InvInit == Init => SessionInv
  BY DEF Init, SessionInv, TypeOK, RowsExist, OwnersAgree, LocksOwned,
         WritesLocked, ReadsHold, SweepCoversMarks, SessionsBackedByLiveToken,
         SessionHashUnique, RotatedIsRevoked, Request, Token, Ended

LEMMA InvNext == SessionInv /\ [Next]_vars => SessionInv'
<1> SUFFICES ASSUME SessionInv, [Next]_vars PROVE SessionInv'
  OBVIOUS
<1>1. /\ TypeOK /\ RowsExist /\ OwnersAgree /\ LocksOwned /\ WritesLocked
      /\ ReadsHold /\ SweepCoversMarks
      /\ SessionsBackedByLiveToken /\ SessionHashUnique /\ RotatedIsRevoked
  BY DEF SessionInv
<1>2. TypeOK' /\ RowsExist' /\ OwnersAgree' /\ LocksOwned' /\ WritesLocked'
  BY <1>1, TypeNext, RowsExistNext, OwnersAgreeNext, LocksOwnedNext,
     WritesLockedNext
<1>3. ReadsHold' /\ SweepCoversMarks'
  BY <1>1, ReadsHoldNext, SweepCoversMarksNext
<1>4. /\ SessionsBackedByLiveToken' /\ SessionHashUnique' /\ RotatedIsRevoked'
  BY <1>1, SessionsBackedByLiveTokenNext, SessionHashUniqueNext,
     RotatedIsRevokedNext
<1> QED BY <1>2, <1>3, <1>4 DEF SessionInv

\* The conjunction of the facts above holds in every reachable state.
THEOREM InductiveInvariant == Spec => []SessionInv
  BY InvInit, InvNext, PTL DEF Spec

\* Every reachable state is well typed, whatever the number of users and
\* requests: in particular only committed tokens are ever revoked or expire.
THEOREM TypeCorrect == Spec => []TypeOK
<1>1. SessionInv => TypeOK
  BY DEF SessionInv
<1> QED BY <1>1, InductiveInvariant, PTL

\* However requests interleave, abort and lose responses, a session row never
\* tracks a token that has been revoked.
THEOREM SessionsBacked == Spec => []SessionsBackedByLiveToken
<1>1. SessionInv => SessionsBackedByLiveToken
  BY DEF SessionInv
<1> QED BY <1>1, InductiveInvariant, PTL

\* The unique constraint on active_sessions.refresh_token_hash is never met.
THEOREM HashesUnique == Spec => []SessionHashUnique
<1>1. SessionInv => SessionHashUnique
  BY DEF SessionInv
<1> QED BY <1>1, InductiveInvariant, PTL

\* A refresh token that has been exchanged is revoked, in every interleaving.
THEOREM RotationRevokes == Spec => []RotatedIsRevoked
<1>1. SessionInv => RotatedIsRevoked
  BY DEF SessionInv
<1> QED BY <1>1, InductiveInvariant, PTL

\* The step that changes a password revokes every token the reset had found
\* and leaves none of them a session.
LEMMA ResetStep ==
  ASSUME SessionInv, SessionInv', [Next]_vars, NEW u \in User, pwd'[u] # pwd[u],
         NEW t \in targets[pwd'[u]]
  PROVE  t \in revoked' /\ \A s \in Token : sess'[s] # t
<1>1. PICK r \in Reset : ResetCommit(r)
  BY StepCases
     DEF SessionInv, TypeOK, rows, known, vars, LoginCheck, LoginCommit,
         RefreshSelect, RefreshFlush, SelectSession, RefreshCommit,
         LogoutSelect, LogoutFlush, LogoutCommit, ResetSelect, ResetFlush,
         ResetMark, ResetSelectSessions, ResetSweep, Rollback, Expire
<1>2. pwd'[u] = r
  BY <1>1 DEF ResetCommit, SessionInv, TypeOK
<1>3. t \in Token /\ (rtLock[t] = r \/ t \in revoked)
  BY <1>1, <1>2
     DEF ResetCommit, SessionInv, WritesLocked, TypeOK, Request, Token
<1>4. t \in revoked'
  BY <1>1, <1>3 DEF ResetCommit, CommitRevocations, HeldTokens
<1>5. ASSUME NEW s \in Token, sess'[s] = t PROVE FALSE
  <2>1. sess'[s] # Nil
    BY <1>3, <1>5, NilIsNone DEF Token, Request
  <2>2. sess'[s] \notin revoked'
    BY <2>1 DEF SessionInv, SessionsBackedByLiveToken, Live
  <2> QED BY <1>4, <1>5, <2>2
<1> QED BY <1>4, <1>5

\* A password change and the revocation of what it was to revoke are one step.
THEOREM ResetAtomic == Spec => ResetIsAllOrNothing
<1>1. SessionInv /\ SessionInv' /\ [Next]_vars =>
        [\A u \in User : pwd'[u] # pwd[u] =>
           \A t \in targets[pwd'[u]] :
             t \in revoked' /\ \A s \in Token : sess'[s] # t]_vars
  BY ResetStep
<1> QED BY <1>1, InductiveInvariant, PTL DEF Spec, ResetIsAllOrNothing
=============================================================================
