------------------------- MODULE SessionRegistryProofs -------------------------
(* What the register guarantees to whoever relies on it.                    *)
EXTENDS SessionRegistry, TLAPS

\* In the register an active session always belongs to a token that is
\* accepted: no rotation, logout or reset ends the one and keeps the other.
THEOREM RegistrySound == Spec => []SessionsAreLive
<1>1. Init => SessionsAreLive
  BY DEF Init, SessionsAreLive
<1>2. SessionsAreLive /\ [Next]_registry => SessionsAreLive'
  BY DEF Next, Open, Rotate, Close, ChangePassword, registry, SessionsAreLive
<1> QED BY <1>1, <1>2, PTL DEF Spec

\* In the strict register, which the requests implement while they do not
\* overlap, the accepted tokens are exactly those with an active session.
THEOREM StrictRegistrySound == StrictSpec => []EveryTokenIsTracked
<1>1. Init => EveryTokenIsTracked
  BY DEF Init, EveryTokenIsTracked
<1>2. EveryTokenIsTracked /\ [StrictNext]_registry => EveryTokenIsTracked'
  <2> SUFFICES ASSUME tracked = live, [StrictNext]_registry PROVE tracked' = live'
    BY DEF EveryTokenIsTracked
  <2>1. ASSUME NEW u \in User, NEW p \in Password, ChangePassword(u, p),
               (live' \cup tracked') \cap Of(u) = {}
        PROVE  tracked' = live'
    <3>1. live' = live \ Of(u) /\ tracked' = tracked \ Of(u)
      BY <2>1 DEF ChangePassword
    <3> QED BY <3>1
  <2> QED BY <2>1 DEF StrictNext, Open, Rotate, Close, registry
<1> QED BY <1>1, <1>2, PTL DEF StrictSpec
================================================================================
