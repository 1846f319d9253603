---------------------------- MODULE SessionRegistry ----------------------------
(***************************************************************************)
(* What the refresh tokens and active sessions of RefreshSessions amount to *)
(* for somebody who sees neither statements nor transactions nor locks: a   *)
(* register of tokens, each of one account, in which every request that     *)
(* succeeds makes ONE change, and that to one account.                      *)
(***************************************************************************)
CONSTANTS
    User,
    Token,
    Password,   \* what tells one password of an account from the next
    Nil         \* no account, and the password of the signup

VARIABLES
    account,    \* the account of each token, Nil until it is issued
    live,       \* tokens that are accepted
    tracked,    \* tokens that have an active session
    password    \* the password of each account

registry == <<account, live, tracked, password>>

Init ==
    /\ account = [t \in Token |-> Nil]
    /\ live = {} /\ tracked = {}
    /\ password = [u \in User |-> Nil]

Of(u) == {t \in Token : account[t] = u}

\* A login issues a token and opens a session for it.
Open(u, t) ==
    /\ t \notin live /\ live' = live \cup {t}
    /\ tracked' = tracked \cup {t}
    /\ account[t] = Nil /\ account' = [account EXCEPT ![t] = u]
    /\ UNCHANGED password

\* A token makes room for a new one of the same account, and its session goes
\* to the new one.  It may have been revoked while the request was under way.
Rotate(t, new) ==
    /\ new \notin live /\ live' = (live \ {t}) \cup {new}
    /\ tracked' = (tracked \ {t}) \cup {new}
    /\ account[t] # Nil /\ account[new] = Nil
    /\ account' = [account EXCEPT ![new] = account[t]]
    /\ UNCHANGED password

\* A logout ends one token, if it is live still, together with its session.
Close(t) ==
    /\ live' = live \ {t}
    /\ tracked' = tracked \ {t}
    /\ UNCHANGED <<account, password>>

\* A new password ends tokens of its own account, with their sessions, and
\* perhaps the sessions of others that were issued in the meantime.
ChangePassword(u, p) ==
    /\ p # password[u] /\ password' = [password EXCEPT ![u] = p]
    /\ live' \subseteq live
    /\ tracked' \subseteq tracked
    /\ (live \ live') \cup (tracked \ tracked') \subseteq Of(u)
    /\ tracked' \cap (live \ live') = {}
    /\ UNCHANGED account

Next ==
    \/ \E t \in Token : Close(t)
    \/ \E u \in User, t \in Token : Open(u, t)
    \/ \E t, new \in Token : Rotate(t, new)
    \/ \E u \in User, p \in Password : ChangePassword(u, p)

Spec == Init /\ [][Next]_registry

\* What one would expect: only a live token is rotated, and a new password
\* ends every token of the account.
StrictNext ==
    \/ \E t \in Token : Close(t)
    \/ \E u \in User, t \in Token : Open(u, t)
    \/ \E t \in live, new \in Token : Rotate(t, new)
    \/ \E u \in User, p \in Password :
         ChangePassword(u, p) /\ (live' \cup tracked') \cap Of(u) = {}

StrictSpec == Init /\ [][StrictNext]_registry

\* A session belongs to a token that is accepted.
SessionsAreLive == tracked \subseteq live

\* Under StrictSpec every accepted token has one, too.
EveryTokenIsTracked == tracked = live
================================================================================
