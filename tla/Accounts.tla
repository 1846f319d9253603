------------------------------- MODULE Accounts -------------------------------
(***************************************************************************)
(* Rows with a unique email: accounts made by POST /auth/signup and by the  *)
(* Google callback (app/services/auth.py, google_oauth.py, routes/auth.py), *)
(* the waitlist and the email subscriptions (services/waitlist.py,          *)
(* subscriptions.py).                                                       *)
(*                                                                          *)
(* All of them look for the email first and insert later.  The INSERT takes *)
(* the email in the unique index: it waits for a transaction that has       *)
(* inserted the same email and is not over yet, and fails with              *)
(* IntegrityError (500) if the email is then committed.                     *)
(*                                                                          *)
(* A row, a link and a refresh token are named by the request that inserts  *)
(* them.                                                                    *)
(***************************************************************************)
EXTENDS Integers, FiniteSets

CONSTANTS
    Signup,     \* calls of POST /auth/signup
    Callback,   \* calls of GET /auth/google/callback
    Join,       \* calls of POST /waitlist
    Subscribe,  \* calls of POST /subscriptions/email
    Email,      \* addresses as typed
    Normal,     \* Normal[e]: e.strip().lower()
    Identity,   \* Google ids
    Movable,    \* those of them whose address may change
    Nil

Maker   == Signup \cup Callback
Lister  == Join \cup Subscribe
Request == Maker \cup Lister

ASSUME KindsDisjoint ==
    /\ Signup \cap (Callback \cup Lister) = {}
    /\ Callback \cap Lister = {}
    /\ Join \cap Subscribe = {}
ASSUME NormalIsIdempotent ==
    /\ Normal \in [Email -> Email]
    /\ \A e \in Email : Normal[Normal[e]] = Normal[e]
ASSUME MovableAreSome == Movable \subseteq Identity
ASSUME NilIsNone == Nil \notin Request \cup Email \cup Identity

VARIABLES
    mail,       \* the address in the Google profile of each identity
    rows,       \* committed users, waitlist_signups and email_subscriptions
    emailLinks, \* committed verification links of signups
    ssoLinks,   \* committed sso_providers
    tokens,     \* committed refresh tokens, with their sessions
    pc,         \* where each request is
    typed,      \* the address it was sent, or has from the Google profile
    identity,   \* callback: the Google id of the profile
    account,    \* the account it acts on
    moved       \* history: identities whose address has changed while one of
                \* their callbacks was about to make an account

tables == <<rows, emailLinks, ssoLinks, tokens>>
google == <<mail, moved>>
vars   == <<google, tables, pc, typed, identity, account>>

Linking  == {"unlinked", "clear", "inserted"}
InFlight == Linking \cup {"owner"}
Ended    == {"done", "refused", "cut"}

TypeOK ==
    /\ mail \in [Identity -> Email]
    /\ rows \subseteq Request
    /\ emailLinks \subseteq Signup
    /\ ssoLinks \subseteq Callback
    /\ tokens \subseteq Maker
    /\ pc \in [Request -> {"idle", "failed"} \cup InFlight \cup Ended]
    /\ typed \in [Request -> Email \cup {Nil}]
    /\ identity \in [Callback -> Identity \cup {Nil}]
    /\ account \in [Maker -> Maker \cup {Nil}]
    /\ moved \subseteq Identity

Init ==
    /\ mail \in [Identity -> Email]
    /\ rows = {} /\ emailLinks = {} /\ ssoLinks = {} /\ tokens = {}
    /\ pc = [r \in Request |-> "idle"]
    /\ typed = [r \in Request |-> Nil]
    /\ identity = [r \in Callback |-> Nil]
    /\ account = [r \in Maker |-> Nil]
    /\ moved = {}

Go(r, where) == pc' = [pc EXCEPT ![r] = where]

\* The requests whose rows are in the table that r inserts into.
SameTable(r) ==
    CASE r \in Maker     -> Maker
      [] r \in Join      -> Join
      [] r \in Subscribe -> Subscribe

\* (Fault: the waitlist keeps the address as it was typed.)
StoredAsTyped(r, e) == e

\* The address stored for a request that was sent e: only the waitlist
\* normalises it.
Stored(r, e) == IF r \in Join THEN Normal[e] ELSE e

\* SELECT ... WHERE email = ...: the committed row r meets in its table.
Registered(r, e) ==
    {q \in rows \cap SameTable(r) : Stored(q, typed[q]) = Stored(r, e)}

-----------------------------------------------------------------------------
(* The first SELECTs.                                                       *)

\* check_email_exists in create_user; the SELECT of the waitlist and of the
\* subscriptions.  An address that is there answers 400 or 409.
CheckEmail(r) ==
    /\ pc[r] = "idle"
    /\ \E e \in Email :
         /\ typed' = [typed EXCEPT ![r] = e]
         /\ Go(r, IF Registered(r, e) = {} THEN "clear" ELSE "refused")
    /\ UNCHANGED <<google, tables, identity, account>>

LinksOf(i) == {l \in ssoLinks : identity[l] = i}

\* find_or_create_user, step 1, once Google has returned the profile: one link
\* names the account; several make scalar_one_or_none raise (500).
SelectLink(r) ==
    /\ pc[r] = "idle"
    /\ \E i \in Identity :
         /\ identity' = [identity EXCEPT ![r] = i]
         /\ typed' = [typed EXCEPT ![r] = mail[i]]
         /\ CASE LinksOf(i) = {} ->
                   Go(r, "unlinked") /\ UNCHANGED account
              [] Cardinality(LinksOf(i)) = 1 ->
                   /\ \E l \in LinksOf(i) : account' = [account EXCEPT ![r] = account[l]]
                   /\ Go(r, "owner")
              [] OTHER ->
                   Go(r, "failed") /\ UNCHANGED account
    /\ UNCHANGED <<google, tables>>

\* (Fault: an account found by its email is linked to the identity.)
SelectUserLinks(r) ==
    /\ pc[r] = "unlinked"
    /\ \/ \E q \in Registered(r, typed[r]) :
            account' = [account EXCEPT ![r] = q] /\ Go(r, "inserted")
       \/ Registered(r, typed[r]) = {} /\ Go(r, "clear") /\ UNCHANGED account
    /\ UNCHANGED <<google, tables, typed, identity>>

\* Step 2: an account with that email and no such link answers 409.
SelectUser(r) ==
    /\ pc[r] = "unlinked"
    /\ Go(r, IF Registered(r, typed[r]) = {} THEN "clear" ELSE "refused")
    /\ UNCHANGED <<google, tables, typed, identity, account>>

-----------------------------------------------------------------------------
(* The INSERTs.                                                             *)

\* Some other transaction has inserted the email and is not over.
Taking(r) ==
    \E q \in Maker \ {r} :
        pc[q] = "inserted" /\ Stored(q, typed[q]) = Stored(r, typed[r])

\* (Fault: a signup or callback commits the account on its own.)
InsertCommits(r) ==
    /\ pc[r] = "clear" /\ ~ Taking(r)
    /\ IF Registered(r, typed[r]) = {}
       THEN /\ rows' = rows \cup {r}
            /\ account' = [account EXCEPT ![r] = r]
            /\ Go(r, "inserted")
       ELSE Go(r, "failed") /\ UNCHANGED <<rows, account>>
    /\ UNCHANGED <<google, emailLinks, ssoLinks, tokens, typed, identity>>

\* (Fault: the IntegrityError is caught and the account that was in the way is
\* taken instead.)
InsertAdopts(r) ==
    /\ pc[r] = "clear" /\ ~ Taking(r)
    /\ \/ \E q \in Registered(r, typed[r]) : account' = [account EXCEPT ![r] = q]
       \/ Registered(r, typed[r]) = {} /\ account' = [account EXCEPT ![r] = r]
    /\ Go(r, "inserted")
    /\ UNCHANGED <<google, tables, typed, identity>>

\* (Fault: an account under way counts as taken; nobody waits for its end.)
InsertImpatient(r) ==
    /\ pc[r] = "clear"
    /\ IF Registered(r, typed[r]) = {} /\ ~ Taking(r)
       THEN account' = [account EXCEPT ![r] = r] /\ Go(r, "inserted")
       ELSE Go(r, "failed") /\ UNCHANGED account
    /\ UNCHANGED <<google, tables, typed, identity>>

\* flush() of the account.
InsertUser(r) ==
    /\ pc[r] = "clear"
    /\ ~ Taking(r)
    /\ IF Registered(r, typed[r]) = {}
       THEN account' = [account EXCEPT ![r] = r] /\ Go(r, "inserted")
       ELSE Go(r, "failed") /\ UNCHANGED account
    /\ UNCHANGED <<google, tables, typed, identity>>

\* create_verification_token: nobody else knows the account, so there is no
\* older link to mark; the account is committed with its link.
CommitSignup(r) ==
    /\ pc[r] = "inserted"
    /\ rows' = rows \cup {account[r]}
    /\ emailLinks' = emailLinks \cup {r}
    /\ Go(r, "owner")
    /\ UNCHANGED <<google, ssoLinks, tokens, typed, identity, account>>

\* (Fault: the account of a callback is given a verification link as well.)
CommitCallbackWithMail(r) ==
    /\ pc[r] = "inserted"
    /\ rows' = rows \cup {account[r]}
    /\ emailLinks' = emailLinks \cup {r}
    /\ ssoLinks' = ssoLinks \cup {r}
    /\ Go(r, "owner")
    /\ UNCHANGED <<google, tokens, typed, identity, account>>

\* find_or_create_user, step 3: the account is committed with the SSO link.
CommitCallback(r) ==
    /\ pc[r] = "inserted"
    /\ rows' = rows \cup {account[r]}
    /\ ssoLinks' = ssoLinks \cup {r}
    /\ Go(r, "owner")
    /\ UNCHANGED <<google, emailLinks, tokens, typed, identity, account>>

\* create_refresh_token, in a transaction of its own.
CommitToken(r) ==
    /\ pc[r] = "owner"
    /\ tokens' = tokens \cup {r}
    /\ Go(r, "done")
    /\ UNCHANGED <<google, rows, emailLinks, ssoLinks, typed, identity, account>>

\* commit() of a waitlist signup or a subscription, its only write.
CommitListing(r) ==
    /\ pc[r] = "clear"
    /\ IF Registered(r, typed[r]) = {}
       THEN rows' = rows \cup {r} /\ Go(r, "done")
       ELSE Go(r, "failed") /\ UNCHANGED rows
    /\ UNCHANGED <<google, emailLinks, ssoLinks, tokens, typed, identity, account>>

-----------------------------------------------------------------------------
\* Somebody gives a Google account another address, at any time.
ChangeMail(i) ==
    /\ \E e \in Email \ {mail[i]} : mail' = [mail EXCEPT ![i] = e]
    /\ moved' = IF \E r \in Callback : identity[r] = i /\ pc[r] \in Linking
                THEN moved \cup {i}
                ELSE moved
    /\ UNCHANGED <<tables, pc, typed, identity, account>>

\* A request dies, or has failed.  If nothing of it is committed it is sent
\* again; otherwise its account stays and it is cut short.
Again(r) ==
    /\ pc[r] \in InFlight \cup {"failed"}
    /\ IF r \in rows \cup ssoLinks
       THEN Go(r, "cut") /\ UNCHANGED <<typed, identity, account>>
       ELSE /\ Go(r, "idle")
            /\ typed' = [typed EXCEPT ![r] = Nil]
            /\ identity' = [c \in Callback |-> IF c = r THEN Nil ELSE identity[c]]
            /\ account' = [m \in Maker |-> IF m = r THEN Nil ELSE account[m]]
    /\ UNCHANGED <<google, tables>>

Quiescent ==
    /\ \A r \in Request : pc[r] \in Ended
    /\ UNCHANGED vars

Next ==
    \/ \E r \in Signup : CheckEmail(r) \/ InsertUser(r) \/ CommitSignup(r) \/ CommitToken(r)
    \/ \E r \in Callback :
         \/ SelectLink(r) \/ SelectUser(r)
         \/ InsertUser(r) \/ CommitCallback(r) \/ CommitToken(r)
    \/ \E r \in Lister : CheckEmail(r) \/ CommitListing(r)
    \/ \E r \in Request : Again(r)
    \/ \E i \in Movable : ChangeMail(i)
    \/ Quiescent

Spec == Init /\ [][Next]_vars

-----------------------------------------------------------------------------
(* Properties.                                                              *)

\* "do NOT silently link": a callback links its identity to, and issues its
\* token for, an account that a callback of this identity has made; a signup
\* issues its token for the account it has made itself.
OwnAccount ==
    \A r \in tokens \cup ssoLinks :
        /\ account[r] \in rows
        /\ IF r \in Signup
           THEN account[r] = r
           ELSE account[r] \in Callback /\ identity[account[r]] = identity[r]

\* An identity that has an account has exactly one link, so every later
\* callback logs in, whatever address the Google profile has by then - unless
\* the address has changed while a callback was making the account.  (Then two
\* callbacks may meet two addresses and make two accounts.)  sso_providers has
\* no unique constraint: this rests on the link being looked for before the
\* address, on users.email, and on both rows being in one commit.
IdentityFindsAccount ==
    \A a \in rows \cap Callback :
        identity[a] \notin moved => Cardinality(LinksOf(identity[a])) = 1

\* Whatever happens to a signup, its account exists together with a
\* verification link or not at all.
SignupHasLink == rows \cap Signup = emailLinks

\* A request turned away, by its SELECT or by the unique index, meets a
\* committed row with its address, made by another request: a transaction that
\* is rolled back in the end turns nobody away.  The only other reason is that
\* the identity of a callback has several links, which takes a change of its
\* address in the middle of a callback.
TurnedAwayForAReason ==
    \A r \in Request :
        pc[r] \in {"refused", "failed"} =>
            \/ \E q \in rows \ {r} :
                 /\ SameTable(q) = SameTable(r)
                 /\ IF r \in Join THEN Normal[typed[q]] = Normal[typed[r]]
                                  ELSE typed[q] = typed[r]
            \/ /\ r \in Callback /\ identity[r] \in moved
               /\ \E p, q \in LinksOf(identity[r]) : p # q

\* Spellings of one address join the waitlist once, however they overlap.
OnWaitlistOnce ==
    \A p, q \in rows \cap Join : Normal[typed[p]] = Normal[typed[q]] => p = q
=============================================================================
