-------------------------- MODULE AccessTokensProofs --------------------------
(***************************************************************************)
(* AccessTokens: its type invariant and its safety properties, for any sets *)
(* of tokens and requests, any lifetime and any grain of the clock.         *)
(***************************************************************************)
EXTENDS AccessTokens, TLAPS

-----------------------------------------------------------------------------
(* The inductive invariant.                                                 *)

\* A token ends at most one lifetime from now.
ExpBounded == \A t \in Token : exp[t] <= Second(now) + Lifetime

\* What a logout does to Redis comes after its commit, with a remaining time
\* that the clock has only overtaken since.
EndsAfterCommit ==
    \A l \in Logout :
        /\ pc[l] \in {"committed", "computed"} \/ stored[l] => ended[l] \in revoked
        /\ pc[l] = "committed" => payload[l] \in Issued \cup {Nil}
        /\ pc[l] = "computed" \/ stored[l] => payload[l] \in Issued
        /\ pc[l] = "computed" => Remaining(l) <= remaining[l]
        /\ stored[l] => pc[l] = "done"

\* A key that has been stored ends no sooner than its token.
KeyCoversExp ==
    \A l \in Logout : stored[l] => exp[payload[l]] * Grain <= keyEnd[payload[l]]

\* Every key has been stored by a logout, which never starts again.
KeysOfLogouts ==
    \A t \in Token : keyEnd[t] # 0 => \E l \in Logout : stored[l] /\ payload[l] = t

AccessInv ==
    /\ TypeOK /\ ExpBounded /\ EndsAfterCommit /\ KeyCoversExp /\ KeysOfLogouts

-----------------------------------------------------------------------------
(* Time.                                                                    *)

\* The whole second of a tick begins at that tick or before it, and less than
\* a second before it.
LEMMA SecondOf ==
    ASSUME NEW n \in Nat
    PROVE  /\ Second(n) \in Nat /\ Second(n) <= n
           /\ Second(n) * Grain <= n
           /\ n < Second(n) * Grain + Grain
<1> DEFINE s == n \div Grain
<1>1. Grain \in Nat \ {0}
  BY TimeIsCounted
<1>2. s \in Nat /\ s * Grain <= n /\ n < s * Grain + Grain
  BY <1>1
<1>3. s <= n
  BY <1>1
<1> QED BY <1>2, <1>3 DEF Second

\* Seconds do not run backwards.
LEMMA SecondGrows ==
    ASSUME NEW n \in Nat
    PROVE  Second(n) <= Second(n + 1)
<1> DEFINE a == Second(n)
           b == Second(n + 1)
<1>1. /\ a \in Nat /\ b \in Nat /\ Grain \in Nat \ {0}
      /\ a * Grain <= n /\ n + 1 < b * Grain + Grain
  <2>1. n + 1 \in Nat
    OBVIOUS
  <2>2. a \in Nat /\ a * Grain <= n
    BY SecondOf
  <2>3. b \in Nat /\ n + 1 < b * Grain + Grain
    BY <2>1, SecondOf
  <2> QED BY <2>2, <2>3, TimeIsCounted
<1> HIDE DEF a, b
<1>2. ASSUME a > b PROVE FALSE
  <2>1. (b + 1) * Grain <= a * Grain
    BY <1>1, <1>2, SMTT(30)
  <2>2. (b + 1) * Grain = b * Grain + Grain
    BY <1>1
  <2> QED BY <1>1, <2>1, <2>2
<1>3. a <= b
  BY <1>1, <1>2
<1> QED BY <1>3 DEF a, b

\* A key that lives at least what is left of whole seconds outlives them.
LEMMA KeyOutlives ==
    ASSUME NEW n \in Nat, NEW e \in Nat, NEW left \in Int, e - Second(n) <= left
    PROVE  e * Grain <= n + left * Grain
<1> DEFINE s == Second(n)
<1>1. s \in Nat /\ Grain \in Nat \ {0} /\ s * Grain <= n /\ e <= left + s
  BY SecondOf, TimeIsCounted
<1> HIDE DEF s
<1>2. e * Grain <= (left + s) * Grain
  BY <1>1, SMTT(30)
<1>3. (left + s) * Grain = left * Grain + s * Grain
  BY <1>1
<1>4. left * Grain \in Int /\ s * Grain \in Int /\ e * Grain \in Int
  BY <1>1
<1> QED BY <1>1, <1>2, <1>3, <1>4

-----------------------------------------------------------------------------
(* The steps.                                                               *)

LEMMA InitInv == Init => AccessInv
<1> SUFFICES ASSUME Init PROVE AccessInv
  OBVIOUS
<1>1. Second(0) \in Nat
  BY SecondOf
<1> QED BY <1>1, TimeIsCounted, NilIsNone, KindsDisjoint
    DEF Init, AccessInv, TypeOK, ExpBounded, EndsAfterCommit, KeyCoversExp,
        KeysOfLogouts, Request, Ended, Form

LEMMA TickInv == ASSUME AccessInv, Tick PROVE AccessInv'
<1> USE DEF AccessInv, Tick, carried, ending
<1>1. TypeOK'
  BY TimeIsCounted DEF TypeOK
<1>2. now \in Nat /\ now' = now + 1
  BY TimeIsCounted DEF TypeOK
<1>3. Second(now) \in Nat /\ Second(now') \in Nat /\ Second(now) <= Second(now')
  BY <1>2, SecondOf, SecondGrows
<1>4. ExpBounded'
  BY <1>3, TimeIsCounted DEF ExpBounded, TypeOK
<1>5. EndsAfterCommit'
  BY <1>3 DEF EndsAfterCommit, Remaining, Issued, TypeOK
<1>6. KeyCoversExp' /\ KeysOfLogouts'
  BY DEF KeyCoversExp, KeysOfLogouts
<1> QED BY <1>1, <1>4, <1>5, <1>6

LEMMA IssueInv ==
    ASSUME AccessInv, NEW t \in Token, Issue(t)
    PROVE  AccessInv'
<1> USE DEF AccessInv, Issue, carried, ending
<1>1. now \in Nat /\ Second(now) \in Nat /\ Lifetime \in Nat \ {0}
  BY TimeIsCounted, SecondOf DEF TypeOK
<1>2. TypeOK'
  BY <1>1 DEF TypeOK
<1>3. ExpBounded'
  BY <1>1 DEF ExpBounded, TypeOK
<1>4. \A i \in Issued : exp'[i] = exp[i] /\ i \in Issued'
  BY DEF Issued, TypeOK
<1>5. EndsAfterCommit'
  BY <1>4 DEF EndsAfterCommit, Remaining
<1>6. KeyCoversExp'
  BY <1>4 DEF KeyCoversExp, EndsAfterCommit
<1>7. KeysOfLogouts'
  BY DEF KeysOfLogouts
<1> QED BY <1>2, <1>3, <1>5, <1>6, <1>7

LEMMA UseInv ==
    ASSUME AccessInv, NEW r \in Use, Lookup(r) \/ Authenticate(r) \/ UseAgain(r)
    PROVE  AccessInv'
<1> USE DEF AccessInv, Lookup, Authenticate, UseAgain, Go, carried, ending
<1>1. TypeOK'
  <2>1. CASE Lookup(r)
    <3>1. PICK c \in Issued \cup {Nil}, b \in Issued \cup {Nil}, f \in Form :
             Carry(r, c, b, f) /\ Dispatch(r, ExtractToken(c, b, f))
      BY <2>1
    <3>2. /\ cookie' \in [Use -> Token \cup {Nil}]
          /\ bearer' \in [Use -> Token \cup {Nil}]
          /\ form' \in [Use -> Form]
      BY <3>1 DEF Carry, TypeOK, Issued
    <3>3. \E where \in {"refused", "passed"} : pc' = [pc EXCEPT ![r] = where]
      BY <3>1 DEF Dispatch
    <3>4. blind' \in [Use -> BOOLEAN]
      BY <3>1 DEF Dispatch, TypeOK
    <3> QED BY <2>1, <3>2, <3>3, <3>4 DEF TypeOK, Request, Ended
  <2>2. CASE Authenticate(r) \/ UseAgain(r)
    BY <2>2 DEF TypeOK, Request, Ended, Form
  <2> QED BY <2>1, <2>2
<1>2. UNCHANGED <<now, exp, revoked, keyEnd, ending>>
  OBVIOUS
<1>3. \A l \in Logout : pc'[l] = pc[l]
  BY KindsDisjoint DEF Dispatch, TypeOK, Request
<1>4. EndsAfterCommit'
  BY <1>2, <1>3 DEF EndsAfterCommit, Remaining, Issued
<1>5. ExpBounded' /\ KeyCoversExp' /\ KeysOfLogouts'
  BY <1>2 DEF ExpBounded, KeyCoversExp, KeysOfLogouts
<1> QED BY <1>1, <1>4, <1>5

\* The steps of a logout that Redis does not see.
LEMMA LogoutInv ==
    ASSUME AccessInv, NEW l \in Logout,
           \/ LogoutLookup(l) \/ LogoutCommit(l)
           \/ BlacklistCompute(l) \/ LogoutAgain(l)
    PROVE  AccessInv'
<1> USE DEF AccessInv, LogoutLookup, LogoutCommit, BlacklistCompute, LogoutAgain,
            Go, carried, ending
<1>1. UNCHANGED <<now, exp, keyEnd, carried, stored>> /\ revoked \subseteq revoked'
  OBVIOUS
<1>2. now \in 0..Horizon /\ now \in Nat /\ Second(now) \in Nat /\ Second(now) <= now
  <2>1. now \in 0..Horizon /\ now \in Nat
    BY TimeIsCounted DEF TypeOK
  <2> QED BY <2>1, SecondOf
<1>3. ASSUME pc[l] = "committed", payload[l] # Nil
      PROVE  Remaining(l) \in -Horizon..Lifetime
  <2>1. payload[l] \in Token
    BY <1>3 DEF EndsAfterCommit, Issued
  <2>2. exp[payload[l]] \in Nat /\ exp[payload[l]] <= Second(now) + Lifetime
    BY <2>1 DEF ExpBounded, TypeOK
  <2> QED BY <1>2, <2>2, TimeIsCounted DEF Remaining
<1>4. TypeOK'
  BY <1>2, <1>3, TimeIsCounted DEF TypeOK, Request, Ended, Issued
<1>5. EndsAfterCommit'
  <2>1. ASSUME NEW k \in Logout, k # l
        PROVE  UNCHANGED <<pc[k], payload[k], ended[k], remaining[k], stored[k]>>
    BY <2>1 DEF TypeOK, Request
  <2>2. Issued' = Issued
    BY <1>1 DEF Issued
  <2>3. ASSUME NEW k \in Logout, k # l
        PROVE  EndsAfterCommit!(k)'
    BY <1>1, <2>1, <2>2, <2>3 DEF EndsAfterCommit, Remaining
  <2>4. EndsAfterCommit!(l)'
    BY <1>1, <1>2, <1>3, <2>2 DEF EndsAfterCommit, Remaining, TypeOK, Request
  <2> QED BY <2>3, <2>4 DEF EndsAfterCommit
<1>6. KeyCoversExp'
  BY <1>1 DEF KeyCoversExp, EndsAfterCommit, TypeOK
<1>7. KeysOfLogouts'
  BY <1>1 DEF KeysOfLogouts, EndsAfterCommit, TypeOK
<1>8. ExpBounded'
  BY <1>1 DEF ExpBounded
<1> QED BY <1>4, <1>5, <1>6, <1>7, <1>8

LEMMA SetexInv ==
    ASSUME AccessInv, NEW l \in Logout, Setex(l)
    PROVE  AccessInv'
<1> USE DEF AccessInv, Setex, Go, carried, ending
<1> DEFINE p == payload[l]
<1>1. p \in Issued /\ p \in Token
  BY DEF EndsAfterCommit, Issued
<1>2. now \in Nat /\ exp[p] \in Nat /\ remaining[l] \in Int /\ Grain \in Nat
  BY <1>1, TimeIsCounted DEF TypeOK
<1>3. exp[p] * Grain <= now + remaining[l] * Grain
  BY <1>2, KeyOutlives DEF EndsAfterCommit, Remaining
<1>4. ASSUME remaining[l] > 0 PROVE now + remaining[l] * Grain \in Nat
  BY <1>2, <1>4
<1>5. TypeOK'
  <2>1. keyEnd' \in [Token -> Nat] /\ stored' \in [Logout -> BOOLEAN]
    BY <1>1, <1>4 DEF TypeOK
  <2>2. 0 \in -Horizon..Lifetime
    BY TimeIsCounted
  <2>3. remaining' \in [Logout -> -Horizon..Lifetime]
    BY <2>2 DEF TypeOK
  <2> QED BY <2>1, <2>3 DEF TypeOK, Request, Ended
<1>6. EndsAfterCommit'
  BY <1>1 DEF EndsAfterCommit, Remaining, Issued, TypeOK, Request
<1>7. KeyCoversExp'
  BY <1>1, <1>3 DEF KeyCoversExp, EndsAfterCommit, Issued, TypeOK
<1>8. KeysOfLogouts'
  BY <1>1 DEF KeysOfLogouts, TypeOK
<1>9. ExpBounded'
  BY <1>1 DEF ExpBounded
<1> QED BY <1>5, <1>6, <1>7, <1>8, <1>9

LEMMA StutterInv == AccessInv /\ UNCHANGED vars => AccessInv'
BY DEF vars, carried, ending, AccessInv, TypeOK, ExpBounded, EndsAfterCommit,
   KeyCoversExp, KeysOfLogouts, Issued, Remaining

-----------------------------------------------------------------------------
(* The theorems.                                                            *)

\* Every state of every run has the invariant.
THEOREM InductiveInvariant == Spec => []AccessInv
<1>1. AccessInv /\ [Next]_vars => AccessInv'
  BY TickInv, IssueInv, UseInv, LogoutInv, SetexInv, StutterInv DEF Next
<1> QED BY <1>1, InitInv, PTL DEF Spec

\* Every variable keeps its type; in particular a remaining time never exceeds
\* the lifetime of a token.
THEOREM TypeCorrect == Spec => []TypeOK
BY InductiveInvariant, PTL DEF AccessInv

\* Redis is written only by logouts that have ended a session.
THEOREM RevokedFirst == Spec => []BlacklistedAfterCommit
<1>1. AccessInv => BlacklistedAfterCommit
  BY DEF AccessInv, KeysOfLogouts, EndsAfterCommit, BlacklistedAfterCommit
<1> QED BY <1>1, InductiveInvariant, PTL

\* A token stored in the blacklist is turned away up to the second it ends in,
\* wherever the request carries it.
THEOREM RejectedToTheEnd == Spec => RejectedUntilExp
<1>1. ASSUME AccessInv, [Next]_vars, NEW r \in Use, NEW l \in Logout,
             pc[r] = "idle", pc'[r] = "passed", ~ blind'[r],
             cookie'[r] # Nil \/ form'[r] # "broken",
             stored[l], ResolveToken(r)' = payload[l]
      PROVE  exp[payload[l]] * Grain <= now
  <2> USE DEF AccessInv
  <2> DEFINE p == payload[l]
  <2>1. p \in Token /\ p # Nil
    BY <1>1, NilIsNone DEF EndsAfterCommit, Issued
  <2>2. Lookup(r)
    <3>1. \E q \in Use : Lookup(q) \/ Authenticate(q) \/ UseAgain(q)
      BY <1>1, KindsDisjoint DEF Next, vars, Tick, Issue, LogoutLookup, LogoutCommit,
         BlacklistCompute, Setex, LogoutAgain, Go, TypeOK, Request
    <3>2. PICK q \in Use : Lookup(q) \/ Authenticate(q) \/ UseAgain(q)
      BY <3>1
    <3>3. q = r
      BY <1>1, <3>2 DEF Lookup, Dispatch, Authenticate, UseAgain, Go, TypeOK, Request
    <3> QED BY <1>1, <3>2, <3>3 DEF Authenticate, UseAgain, Go, TypeOK, Request
  <2>3. ExtractToken(cookie'[r], bearer'[r], form'[r]) = p
    BY <1>1, <2>1 DEF ExtractToken, ResolveToken
  <2>4. ~ Blacklisted(p)
    <3>1. PICK c \in Issued \cup {Nil}, b \in Issued \cup {Nil}, f \in Form :
             Carry(r, c, b, f) /\ Dispatch(r, ExtractToken(c, b, f))
      BY <2>2 DEF Lookup
    <3>2. cookie'[r] = c /\ bearer'[r] = b /\ form'[r] = f
      BY <1>1, <3>1 DEF Carry, TypeOK
    <3>3. ExtractToken(c, b, f) = p
      BY <2>3, <3>2
    <3>4. Dispatch(r, p)
      BY <3>1, <3>3
    <3>5. Go(r, IF p # Nil /\ Blacklisted(p) THEN "refused" ELSE "passed")
      BY <1>1, <3>4 DEF Dispatch, TypeOK
    <3> QED BY <1>1, <2>1, <3>5 DEF Go, TypeOK, Request
  <2>5. exp[p] * Grain <= keyEnd[p]
    BY <1>1 DEF KeyCoversExp
  <2>6. keyEnd[p] \in Nat /\ now \in Nat /\ exp[p] \in Nat
    BY <1>1, <2>1, TimeIsCounted DEF TypeOK
  <2>7. exp[p] * Grain \in Nat
    BY <2>6, TimeIsCounted
  <2> QED BY <2>4, <2>5, <2>6, <2>7 DEF Blacklisted
<1>2. AccessInv /\ [Next]_vars =>
        \A r \in Use, l \in Logout :
          /\ pc[r] = "idle" /\ pc'[r] = "passed" /\ ~ blind'[r]
          /\ cookie'[r] # Nil \/ form'[r] # "broken"
          /\ stored[l] /\ ResolveToken(r)' = payload[l]
          => exp[payload[l]] * Grain <= now
  BY <1>1
<1> QED BY <1>2, InductiveInvariant, PTL DEF Spec, RejectedUntilExp
=============================================================================
