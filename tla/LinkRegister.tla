----------------------------- MODULE LinkRegister -----------------------------
(***************************************************************************)
(* What the one-time links of OneTimeTokens amount to for somebody who sees *)
(* their effects only: links of one account each that are open from their   *)
(* issue to their redemption, or until a newer one takes their place.       *)
(***************************************************************************)
CONSTANTS
    User,
    VerifyLink,     \* links that verify an address
    ResetLink,      \* links that set a password
    Password,       \* what tells the passwords of an account apart
    Nil             \* no account, and the password of the signup

Link == VerifyLink \cup ResetLink

VARIABLES
    owner,      \* the account of each link, Nil until it is issued
    open,       \* links that can be redeemed, were it not for their age
    verified,   \* accounts whose address is verified
    password    \* the password of each account

register == <<owner, open, verified, password>>

Init ==
    /\ owner = [t \in Link |-> Nil]
    /\ open = {}
    /\ verified = {}
    /\ password = [u \in User |-> Nil]

\* The links of an account that a new one of this table can replace.
Replaceable(t, u) ==
    {t1 \in open : owner[t1] = u /\ (t1 \in VerifyLink <=> t \in VerifyLink)}

\* A link is issued, and links of the same account and table are closed.
Issue(t, u) ==
    /\ owner[t] = Nil /\ owner' = [owner EXCEPT ![t] = u]
    /\ \E closed \in SUBSET Replaceable(t, u) : open' = (open \ closed) \cup {t}
    /\ UNCHANGED <<verified, password>>

\* A link is redeemed.  It may have been closed while the request was under way.
VerifyAddress(t) ==
    /\ owner[t] # Nil /\ verified' = verified \cup {owner[t]}
    /\ open' = open \ {t}
    /\ UNCHANGED <<owner, password>>

SetPassword(t, p) ==
    /\ owner[t] # Nil /\ password' = [password EXCEPT ![owner[t]] = p]
    /\ open' = open \ {t}
    /\ UNCHANGED <<owner, verified>>

Next ==
    \/ \E t \in Link, u \in User : Issue(t, u)
    \/ \E t \in VerifyLink : VerifyAddress(t)
    \/ \E t \in ResetLink, p \in Password : SetPassword(t, p)

Spec == Init /\ [][Next]_register

\* What one would expect: a new link takes the place of every open one, only
\* open links are redeemed, and a verified account gets no link to verify.
StrictNext ==
    \/ \E t \in Link, u \in User :
         /\ Issue(t, u) /\ open' = (open \ Replaceable(t, u)) \cup {t}
         /\ t \in VerifyLink => u \notin verified
    \/ \E t \in VerifyLink \cap open : VerifyAddress(t)
    \/ \E t \in ResetLink \cap open, p \in Password : SetPassword(t, p)

StrictSpec == Init /\ [][StrictNext]_register
=============================================================================
