----------------------------- MODULE AccessTokens -----------------------------
(***************************************************************************)
(* Access tokens (JWTs) and the Redis blacklist that ends them early:       *)
(* app/core/middleware.py and app/core/redis.py, get_current_user of        *)
(* app/api/deps.py, and the part of POST /auth/logout that comes after the  *)
(* commit of RefreshSessions.                                               *)
(*                                                                          *)
(* Two clocks with different grain meet here.  A JWT's exp is a whole       *)
(* second, and it is compared with the current whole second; a Redis key    *)
(* set to live n seconds lives exactly n seconds.  So time is counted in    *)
(* ticks, several to a second.                                              *)
(***************************************************************************)
EXTENDS Integers

CONSTANTS
    Token,      \* access tokens, each issued together with a refresh token
    Use,        \* calls of an endpoint that requires CurrentUser
    Logout,     \* calls of POST /auth/logout
    Nil,        \* no token
    Grain,      \* ticks in a second
    Lifetime,   \* ACCESS_TOKEN_EXPIRE_MINUTES, in seconds
    Horizon     \* bound of the model: the tick at which the clock stops

Request == Use \cup Logout

ASSUME KindsDisjoint == Use \cap Logout = {}
ASSUME NilIsNone == Nil \notin Token
ASSUME TimeIsCounted ==
    Grain \in Nat \ {0} /\ Lifetime \in Nat \ {0} /\ Horizon \in Nat

VARIABLES
    now,        \* the time, in ticks
    exp,        \* claim exp of each token, in seconds; 0 before it is issued
    revoked,    \* tokens whose refresh token is committed as revoked
    keyEnd,     \* the tick at which a token's Redis key ends; 0 if never set
    pc,         \* where each request is
    cookie,     \* use: the access_token cookie, Nil if none
    bearer,     \* use: the token of the Authorization header, Nil if none
    form,       \* use: the white space in that header
    blind,      \* use: Redis has not answered the lookup
    payload,    \* logout: access_token of the body, Nil if it is none of ours
    ended,      \* logout: the token that its refresh_token was issued with
    remaining,  \* logout: seconds the key is to live
    stored      \* logout: its SETEX has succeeded

carried == <<cookie, bearer, form, blind>>
ending  == <<payload, ended, remaining, stored>>
vars    == <<now, exp, revoked, keyEnd, pc, carried, ending>>

Ended == {"accepted", "refused", "done"}

\* An Authorization header of the bearer scheme: "plain", with one space before
\* the token; "padded", with some other white space there; "broken", with
\* white space inside the credentials.
Form == {"plain", "padded", "broken"}

TypeOK ==
    /\ now \in 0..Horizon
    /\ exp \in [Token -> Nat]
    /\ revoked \subseteq Token
    /\ keyEnd \in [Token -> Nat]
    /\ pc \in [Request -> {"idle", "passed", "committed", "computed"} \cup Ended]
    /\ cookie \in [Use -> Token \cup {Nil}]
    /\ bearer \in [Use -> Token \cup {Nil}]
    /\ form \in [Use -> Form]
    /\ blind \in [Use -> BOOLEAN]
    /\ payload \in [Logout -> Token \cup {Nil}]
    /\ ended \in [Logout -> Token \cup {Nil}]
    /\ remaining \in [Logout -> -Horizon..Lifetime]
    /\ stored \in [Logout -> BOOLEAN]

Init ==
    /\ now = 0
    /\ exp = [t \in Token |-> 0]
    /\ revoked = {}
    /\ keyEnd = [t \in Token |-> 0]
    /\ pc = [r \in Request |-> "idle"]
    /\ cookie = [r \in Use |-> Nil]
    /\ bearer = [r \in Use |-> Nil]
    /\ form = [r \in Use |-> "plain"]
    /\ blind = [r \in Use |-> FALSE]
    /\ payload = [l \in Logout |-> Nil]
    /\ ended = [l \in Logout |-> Nil]
    /\ remaining = [l \in Logout |-> 0]
    /\ stored = [l \in Logout |-> FALSE]

-----------------------------------------------------------------------------
(* Time and tokens.                                                         *)

\* int(datetime.timestamp()): the seconds of a tick, rounded down.
Second(tick) == tick \div Grain

Go(r, where) == pc' = [pc EXCEPT ![r] = where]

Issued == {t \in Token : exp[t] # 0}

\* Redis: EXISTS.  A key is gone at the very tick at which it ends.
Blacklisted(t) == now < keyEnd[t]

\* jose compares exp with the whole second it is: exp itself still passes.
Unexpired(t) == Second(now) <= exp[t]

\* A login or a refresh issues a token: exp is floored to a second.
Issue(t) ==
    /\ t \notin Issued
    /\ exp' = [exp EXCEPT ![t] = Second(now) + Lifetime]
    /\ UNCHANGED <<now, revoked, keyEnd, pc, carried, ending>>

Tick ==
    /\ now < Horizon
    /\ now' = now + 1
    /\ UNCHANGED <<exp, revoked, keyEnd, pc, carried, ending>>

-----------------------------------------------------------------------------
(* JWTBlacklistMiddleware, in front of every route.                         *)

\* The cookie comes first, then a header of exactly two parts.
ExtractToken(c, b, f) ==
    CASE c # Nil                     -> c
      [] c = Nil /\ f # "broken"     -> b
      [] c = Nil /\ f = "broken"     -> Nil

\* What the request carries; a header that is not there has no white space.
Carry(r, c, b, f) ==
    /\ b = Nil => f = "plain"
    /\ cookie' = [cookie EXCEPT ![r] = c]
    /\ bearer' = [bearer EXCEPT ![r] = b]
    /\ form' = [form EXCEPT ![r] = f]

\* is_blacklisted(t), if there is a t.  A RedisError counts as "not
\* blacklisted".
Dispatch(r, t) ==
    \/ /\ Go(r, IF t # Nil /\ Blacklisted(t) THEN "refused" ELSE "passed")
       /\ UNCHANGED blind
    \/ /\ t # Nil
       /\ Go(r, "passed")
       /\ blind' = [blind EXCEPT ![r] = TRUE]

\* The lookup for a protected route.
Lookup(r) ==
    /\ pc[r] = "idle"
    /\ \E c \in Issued \cup {Nil}, b \in Issued \cup {Nil}, f \in Form :
         Carry(r, c, b, f) /\ Dispatch(r, ExtractToken(c, b, f))
    /\ UNCHANGED <<now, exp, revoked, keyEnd, ending>>

\* The lookup for a logout: only its outcome matters later.
LogoutLookup(l) ==
    /\ pc[l] = "idle"
    /\ \/ Go(l, "passed")
       \/ (\E t \in Issued : Blacklisted(t)) /\ Go(l, "refused")
    /\ UNCHANGED <<now, exp, revoked, keyEnd, carried, ending>>

-----------------------------------------------------------------------------
(* get_current_user.                                                        *)

\* (Fault: the header takes precedence over the cookie.)
ResolveBearerFirst(r) == IF bearer[r] # Nil THEN bearer[r] ELSE cookie[r]

\* The cookie comes first, then HTTPBearer's credentials: whatever follows the
\* first space of the header.
ResolveToken(r) == IF cookie[r] # Nil THEN cookie[r] ELSE bearer[r]

\* HTTPBearer or jose may turn credentials with white space away.
Questionable(r) == cookie[r] = Nil /\ form[r] # "plain"

\* The token is decoded and its expiry checked; 401 if there is none.
Authenticate(r) ==
    /\ pc[r] = "passed"
    /\ LET t == ResolveToken(r)
           valid == t # Nil /\ Unexpired(t)
       IN \/ valid /\ Go(r, "accepted")
          \/ (~ valid \/ Questionable(r)) /\ Go(r, "refused")
    /\ UNCHANGED <<now, exp, revoked, keyEnd, carried, ending>>

-----------------------------------------------------------------------------
(* POST /auth/logout.  The body has an access token and a refresh token;     *)
(* nobody checks that they belong together.                                  *)

\* (Fault: an unknown refresh token is not refused.)
LogoutCommitLenient(l) ==
    /\ pc[l] = "passed"
    /\ \E t, q \in Issued \cup {Nil} :
         /\ payload' = [payload EXCEPT ![l] = t]
         /\ ended' = [ended EXCEPT ![l] = q]
         /\ revoked' = revoked \cup ({q} \ {Nil})
    /\ Go(l, "committed")
    /\ UNCHANGED <<now, exp, keyEnd, carried, remaining, stored>>

\* AuthService.logout commits, or knows no such refresh token (401).
LogoutCommit(l) ==
    /\ pc[l] = "passed"
    /\ \/ Go(l, "refused") /\ UNCHANGED <<payload, ended, revoked>>
       \/ \E t \in Issued \cup {Nil}, q \in Issued :
            /\ payload' = [payload EXCEPT ![l] = t]
            /\ ended' = [ended EXCEPT ![l] = q]
            /\ revoked' = revoked \cup {q}
            /\ Go(l, "committed")
    /\ UNCHANGED <<now, exp, keyEnd, carried, remaining, stored>>

\* (Fault: the claim itself is passed as the time to live.)
RemainingAbsolute(l) == exp[payload[l]]

\* (Fault: the current time is rounded up.)
RemainingRounded(l) == exp[payload[l]] - Second(now + Grain - 1)

\* remaining = int(exp) - int(now)
Remaining(l) == exp[payload[l]] - Second(now)

\* An access token that does not decode is let be.
BlacklistCompute(l) ==
    /\ pc[l] = "committed"
    /\ \/ payload[l] = Nil /\ Go(l, "done") /\ UNCHANGED remaining
       \/ /\ payload[l] # Nil
          /\ remaining' = [remaining EXCEPT ![l] = Remaining(l)]
          /\ Go(l, "computed")
    /\ UNCHANGED <<now, exp, revoked, keyEnd, carried, payload, ended, stored>>

\* SETEX, with the response to follow whether or not it has succeeded.
\* Nothing is stored if no time remains.
Setex(l) ==
    /\ pc[l] = "computed"
    /\ Go(l, "done")
    /\ \/ /\ remaining[l] > 0
          /\ keyEnd' = [keyEnd EXCEPT ![payload[l]] = now + remaining[l] * Grain]
          /\ stored' = [stored EXCEPT ![l] = TRUE]
       \/ UNCHANGED <<keyEnd, stored>>
    /\ remaining' = [remaining EXCEPT ![l] = 0]
    /\ UNCHANGED <<now, exp, revoked, carried, payload, ended>>

\* A use is over, or dies; the next one is another.
UseAgain(r) ==
    /\ pc[r] # "idle"
    /\ Go(r, "idle")
    /\ cookie' = [cookie EXCEPT ![r] = Nil]
    /\ bearer' = [bearer EXCEPT ![r] = Nil]
    /\ form' = [form EXCEPT ![r] = "plain"]
    /\ blind' = [blind EXCEPT ![r] = FALSE]
    /\ UNCHANGED <<now, exp, revoked, keyEnd, ending>>

\* A logout dies, is refused, or its answer is not to the client's liking:
\* what it has committed stays, and the client tries again.
LogoutAgain(l) ==
    /\ pc[l] # "idle" /\ ~stored[l]
    /\ Go(l, "idle")
    /\ payload' = [payload EXCEPT ![l] = Nil]
    /\ ended' = [ended EXCEPT ![l] = Nil]
    /\ remaining' = [remaining EXCEPT ![l] = 0]
    /\ UNCHANGED <<now, exp, revoked, keyEnd, carried, stored>>

-----------------------------------------------------------------------------
Next ==
    \/ Tick
    \/ \E t \in Token : Issue(t)
    \/ \E r \in Use : Lookup(r) \/ Authenticate(r) \/ UseAgain(r)
    \/ \E l \in Logout :
         \/ LogoutLookup(l) \/ LogoutCommit(l)
         \/ BlacklistCompute(l) \/ Setex(l) \/ LogoutAgain(l)

Spec == Init /\ [][Next]_vars

-----------------------------------------------------------------------------
(* Properties.                                                              *)

\* A request that comes after a logout has stored its access token, and whose
\* lookup Redis answers, gets past the middleware with this token as the one
\* get_current_user will take only once the token's exp is reached: flooring
\* exp and the time separately, the delay before SETEX and a second logout of
\* the same token never make a key end before the whole second exp begins, and
\* the two places that choose between cookie and header choose alike.  The one
\* header they read differently is a broken one, which the middleware does not
\* look up; it is left out here.
RejectedUntilExp ==
    [][\A r \in Use, l \in Logout :
         /\ pc[r] = "idle" /\ pc'[r] = "passed" /\ ~ blind'[r]
         /\ cookie'[r] # Nil \/ form'[r] # "broken"
         /\ stored[l] /\ ResolveToken(r)' = payload[l]
         => exp[payload[l]] * Grain <= now]_vars

\* Whoever is refused for a blacklisted token owes it to a logout that has got
\* through to the end of a session: one that dies between the two stores, or
\* that the database refuses, has written nothing to Redis, however often it
\* is repeated and whichever two tokens its body combines.
BlacklistedAfterCommit ==
    \A t \in Token : keyEnd[t] # 0 =>
        \E l \in Logout : payload[l] = t /\ ended[l] \in revoked
=============================================================================
