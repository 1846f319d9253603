---------------------------- MODULE OneTimeTokens ----------------------------
(***************************************************************************)
(* Email-verification links and password-reset links: two tables with one   *)
(* discipline (app/services/verification_service.py and the two functions   *)
(* of app/services/auth.py on PasswordResetToken).  Issuing a link marks    *)
(* the user's unused ones as used; redeeming one checks that it is unused,  *)
(* marks it and changes the user, in one commit.                            *)
(*                                                                          *)
(* Transactions are as in RefreshSessions: reads see committed rows, an     *)
(* UPDATE locks its row until the end and waits for whoever holds it, writes *)
(* become visible at the commit.  A link is named by the request that       *)
(* issues it.                                                               *)
(***************************************************************************)
EXTENDS Naturals, Sequences, FiniteSets

CONSTANTS
    User,
    Resend,     \* calls of POST /auth/resend-verification
    Forgot,     \* runs of the background task of POST /auth/forgot-password
    Verify,     \* calls of POST /auth/verify-email
    Redeem,     \* calls of POST /auth/reset-password
    Key,        \* the order of the links' primary keys, which are random
    Nil

Link    == Resend \cup Forgot
Presenter == Verify \cup Redeem
Request == Link \cup Presenter

ASSUME KindsDisjoint ==
    /\ Link \cap Presenter = {}
    /\ Resend \cap Forgot = {} /\ Verify \cap Redeem = {}

ASSUME KeyIsOrder ==
    /\ Key \in [Link -> Nat]
    /\ \A t1, t2 \in Link : Key[t1] = Key[t2] => t1 = t2

ASSUME LinkIsFinite == IsFiniteSet(Link)

ASSUME NilIsNone == Nil \notin Request \cup User

VARIABLES
    issued,     \* committed rows, in the order of their commits
    used,       \* those whose used_at is set
    expired,    \* those whose expires_at has passed
    mailed,     \* links that have reached their user's mailbox
    verified,   \* users whose is_verified is true
    pwd,        \* users.password_hash, named by the request that wrote it
    pc,         \* where each request is
    user,       \* the user a request acts for
    link,       \* verify, redeem: the link presented
    targets,    \* issuing: the unused links it is to mark
    lock        \* link row -> transaction that has written it

rows == <<issued, used, expired, mailed, verified, pwd>>
vars == <<rows, pc, user, link, targets, lock>>

InFlight == {"begun", "marking", "mailing", "read", "settled", "flushed", "owning"}
Ended    == {"done", "lost"}

Committed == {issued[i] : i \in DOMAIN issued}

TypeOK ==
    /\ issued \in Seq(Link)
    /\ used \subseteq Committed
    /\ expired \subseteq Committed
    /\ mailed \subseteq Committed
    /\ verified \subseteq User
    /\ pwd \in [User -> Redeem \cup {Nil}]
    /\ pc \in [Request -> {"idle"} \cup InFlight \cup Ended]
    /\ user \in [Request -> User \cup {Nil}]
    /\ link \in [Request -> Link \cup {Nil}]
    /\ targets \in [Request -> SUBSET Link]
    /\ lock \in [Link -> Request \cup {Nil}]

Init ==
    /\ issued = <<>>
    /\ used = {} /\ expired = {} /\ mailed = {} /\ verified = {}
    /\ pwd = [u \in User |-> Nil]
    /\ pc = [r \in Request |-> "idle"]
    /\ user = [r \in Request |-> Nil]
    /\ link = [r \in Request |-> Nil]
    /\ targets = [r \in Request |-> {}]
    /\ lock = [t \in Link |-> Nil]

-----------------------------------------------------------------------------
Go(r, where) == pc' = [pc EXCEPT ![r] = where]

\* The table a request works on.
SameTable(a, b) == a \in Resend \cup Verify <=> b \in Resend \cup Verify

Held(r) == {t \in Link : lock[t] = r}
ReleaseLocks(r) == lock' = [t \in Link |-> IF lock[t] = r THEN Nil ELSE lock[t]]

\* A transaction that sets a password keeps the user's row to its end.
UserLocked(u) == \E q \in Redeem : user[q] = u /\ pc[q] = "owning"

\* Links a user could still redeem, were it not for their age.
Active(table, u) ==
    {t \in Committed \ used : SameTable(t, table) /\ user[t] = u}

\* (Fault: used_at is never set by a redemption.)
MarkNothing(r) == used' = used

\* The commit of the used_at = now() of the rows the transaction holds.
CommitMarks(r) == used' = used \cup Held(r)

-----------------------------------------------------------------------------
(* Issuing: resend_verification with create_verification_token, and         *)
(* _process_password_reset with create_password_reset_token.                *)

\* SELECT the user.  A verified user gets no further verification link.
ResendBegin(r) ==
    /\ pc[r] = "idle"
    /\ \E u \in User \ verified : user' = [user EXCEPT ![r] = u]
    /\ Go(r, "begun")
    /\ UNCHANGED <<rows, link, targets, lock>>

ForgotBegin(r) ==
    /\ pc[r] = "idle"
    /\ \E u \in User : user' = [user EXCEPT ![r] = u]
    /\ Go(r, "begun")
    /\ UNCHANGED <<rows, link, targets, lock>>

\* (Fault: the message goes out at once instead of after the commit.)
SelectUnusedAndMail(r) ==
    /\ pc[r] = "begun"
    /\ targets' = [targets EXCEPT ![r] = Active(r, user[r])]
    /\ mailed' = mailed \cup {r}
    /\ Go(r, "marking")
    /\ UNCHANGED <<issued, used, expired, verified, pwd, user, link, lock>>

\* SELECT the user's unused links.
SelectUnused(r) ==
    /\ pc[r] = "begun"
    /\ targets' = [targets EXCEPT ![r] = Active(r, user[r])]
    /\ Go(r, "marking")
    /\ UNCHANGED <<rows, user, link, lock>>

\* (Fault: the marks are written in the order of the SELECT, which is any.)
NextMarkAny(r) == targets[r] \ Held(r)

\* The unit of work writes the rows of a table in the order of their keys.
NextMark(r) ==
    {t \in targets[r] \ Held(r) :
        \A t2 \in targets[r] \ Held(r) : Key[t] <= Key[t2]}

\* Flush: UPDATE each of them by its key, whatever has become of it since.
MarkUsed(r) ==
    /\ pc[r] = "marking"
    /\ \E t \in NextMark(r) :
         /\ lock[t] = Nil
         /\ lock' = [lock EXCEPT ![t] = r]
    /\ UNCHANGED <<rows, pc, user, link, targets>>

\* (Fault: the marks are committed on their own, before the new link.)
IssueCommitFirst(r) ==
    /\ pc[r] = "marking"
    /\ NextMark(r) = {}
    /\ CommitMarks(r)
    /\ ReleaseLocks(r)
    /\ IF targets[r] = {}
       THEN issued' = Append(issued, r) /\ Go(r, "mailing")
       ELSE UNCHANGED <<issued, pc>>
    /\ targets' = [targets EXCEPT ![r] = {}]
    /\ UNCHANGED <<expired, mailed, verified, pwd, user, link>>

\* INSERT the new link and COMMIT.
IssueCommit(r) ==
    /\ pc[r] = "marking"
    /\ NextMark(r) = {}
    /\ issued' = Append(issued, r)
    /\ CommitMarks(r)
    /\ Go(r, "mailing")
    /\ targets' = [targets EXCEPT ![r] = {}]
    /\ ReleaseLocks(r)
    /\ UNCHANGED <<expired, mailed, verified, pwd, user, link>>

\* The message goes out after the commit; failing to send it only logs.
Mail(r) ==
    /\ pc[r] = "mailing"
    /\ \/ Go(r, "done") /\ mailed' = mailed \cup {r}
       \/ Go(r, "lost") /\ UNCHANGED mailed
    /\ UNCHANGED <<issued, used, expired, verified, pwd, user, link, targets, lock>>

-----------------------------------------------------------------------------
(* Redeeming: verify_email and reset_password.                              *)

\* The links that pass the checks of the first SELECT.
Redeemable(r) == {t \in mailed \ (used \cup expired) : SameTable(t, r)}

Present(r) ==
    /\ pc[r] = "idle"
    /\ \E t \in Redeemable(r) :
         /\ link' = [link EXCEPT ![r] = t]
         /\ user' = [user EXCEPT ![r] = user[t]]
    /\ Go(r, "read")
    /\ UNCHANGED <<rows, targets, lock>>

\* Autoflush: UPDATE the link by its key.
LockLink(r) ==
    /\ lock[link[r]] = Nil
    /\ lock' = [lock EXCEPT ![link[r]] = r]

\* verify_email then SELECTs the user: "settled" if it is verified already,
\* for then there will be nothing to write to its row.
VerifyFlush(r) ==
    /\ pc[r] = "read"
    /\ LockLink(r)
    /\ Go(r, IF user[r] \in verified THEN "settled" ELSE "flushed")
    /\ UNCHANGED <<rows, user, link, targets>>

VerifyCommit(r) ==
    /\ \/ pc[r] = "settled"
       \/ pc[r] = "flushed" /\ ~UserLocked(user[r])
    /\ verified' = verified \cup {user[r]}
    /\ CommitMarks(r)
    /\ Go(r, "done")
    /\ ReleaseLocks(r)
    /\ UNCHANGED <<issued, expired, mailed, pwd, user, link, targets>>

\* reset_password: the link's row, then the user's, in one flush.
RedeemFlush(r) ==
    /\ pc[r] = "read"
    /\ LockLink(r)
    /\ Go(r, "flushed")
    /\ UNCHANGED <<rows, user, link, targets>>

RedeemLockUser(r) ==
    /\ pc[r] = "flushed"
    /\ ~UserLocked(user[r])
    /\ Go(r, "owning")
    /\ UNCHANGED <<rows, user, link, targets, lock>>

\* (RefreshSessions has what happens to the sessions before this commit.)
RedeemCommit(r) ==
    /\ pc[r] = "owning"
    /\ pwd' = [pwd EXCEPT ![user[r]] = r]
    /\ CommitMarks(r)
    /\ Go(r, "done")
    /\ ReleaseLocks(r)
    /\ UNCHANGED <<issued, expired, mailed, verified, user, link, targets>>

-----------------------------------------------------------------------------
\* The request ends before its commit; the client may try again.
Abort(r) ==
    /\ pc[r] \in InFlight \ {"mailing"}
    /\ Go(r, "idle")
    /\ user' = [user EXCEPT ![r] = Nil]
    /\ link' = [link EXCEPT ![r] = Nil]
    /\ targets' = [targets EXCEPT ![r] = {}]
    /\ ReleaseLocks(r)
    /\ UNCHANGED rows

\* The age of a link matters only while somebody could redeem it.
Expire(t) ==
    /\ t \in mailed \ (used \cup expired)
    /\ expired' = expired \cup {t}
    /\ UNCHANGED <<issued, used, mailed, verified, pwd, pc, user, link, targets,
                   lock>>

Begin(r) ==
    \/ r \in Resend /\ ResendBegin(r)
    \/ r \in Forgot /\ ForgotBegin(r)
    \/ r \in Presenter /\ Present(r)

Continue(r) ==
    \/ r \in Link /\ (SelectUnused(r) \/ MarkUsed(r) \/ IssueCommit(r) \/ Mail(r))
    \/ r \in Verify /\ (VerifyFlush(r) \/ VerifyCommit(r))
    \/ r \in Redeem /\ (RedeemFlush(r) \/ RedeemLockUser(r) \/ RedeemCommit(r))

Quiescent ==
    /\ \A r \in Request : pc[r] \notin InFlight
    /\ UNCHANGED vars

Next ==
    \/ \E r \in Request : Begin(r) \/ Continue(r) \/ Abort(r)
    \/ \E t \in Link : Expire(t)
    \/ Quiescent

Spec == Init /\ [][Next]_vars

\* The same requests, one after the other.
SerialNext ==
    \/ \E r \in Request :
         /\ \A q \in Request \ {r} : pc[q] \notin InFlight
         /\ Begin(r) \/ Continue(r) \/ Abort(r)
    \/ \E t \in Link : Expire(t)
    \/ Quiescent

SerialSpec == Init /\ [][SerialNext]_vars

-----------------------------------------------------------------------------
(* Properties.                                                              *)

Redeemed(t) == \E r \in Presenter : link[r] = t /\ pc[r] = "done"

\* No user is left without a link: one that was not redeemed has been marked
\* used only if a newer one of the same table has been committed with it,
\* however many requests issue links for the user at the same time and
\* whichever of them fail half-way.
InvalidatedIsReplaced ==
    \A i \in DOMAIN issued :
        issued[i] \in used /\ ~Redeemed(issued[i]) =>
            \E j \in (i + 1)..Len(issued) :
                SameTable(issued[i], issued[j]) /\ user[issued[i]] = user[issued[j]]

\* Once the redemption of a link has been answered, no further request gets
\* past the check with it, whether or not the link was invalidated, expired or
\* marked by somebody else meanwhile.
NoReuseAfterAnswer ==
    [][\A r \in Presenter : pc[r] = "idle" /\ pc'[r] = "read" =>
         ~Redeemed(link'[r])]_vars

\* Whoever waits for the row of a link holds only links with smaller keys and
\* not the user's row: requests that mark several links, or a link and the
\* user, take their locks in one order and never wait in a circle.
LockOrder ==
    \A r \in Request : \A t \in Held(r) :
        /\ \A t2 \in targets[r] \ Held(r) : Key[t] < Key[t2]
        /\ pc[r] # "read"

\* The link whose row a transaction is about to write.
NextLinks(r) ==
    IF pc[r] = "marking" THEN NextMark(r)
    ELSE IF pc[r] = "read" THEN {link[r]} ELSE {}

\* The transactions that hold this row or, later, that of the user.
WaitsFor(r) ==
    ({lock[t] : t \in NextLinks(r)} \ {Nil}) \cup
    {q \in Redeem : pc[r] = "flushed" /\ pc[q] = "owning" /\ user[q] = user[r]}

\* No requests wait for each other in a circle: among any that wait there is
\* one that waits for none of the others.  With several links to mark, or a
\* link and then the user, this is a matter of the order they are taken in.
NoCircle ==
    LET waits == [r \in Request |-> WaitsFor(r)] IN
    \A S \in SUBSET {r \in Request : waits[r] # {}} :
        S # {} => \E r \in S : waits[r] \cap S = {}

\* What the requests amount to: the register of LinkRegister.
Register == INSTANCE LinkRegister WITH
    VerifyLink <- Resend,
    ResetLink  <- Forgot,
    Password   <- Redeem,
    owner      <- [t \in Link |-> IF t \in Committed THEN user[t] ELSE Nil],
    open       <- Committed \ used,
    password   <- pwd

\* However the requests interleave and wherever they fail, each that succeeds
\* makes one change: it issues a link of one account, closing older ones of
\* the same account and table, or it redeems one link for the owner.
ImplementsRegister == Register!Spec

-----------------------------------------------------------------------------
(* What the code promises, while requests do not overlap.                   *)

\* "... ensuring only one active token exists at a time."
OneActiveLink ==
    \A t1, t2 \in Committed \ used :
        SameTable(t1, t2) /\ user[t1] = user[t2] => t1 = t2

\* "Redeem single-use email verification token", and likewise for passwords.
RedeemedOnce ==
    \A p, q \in Presenter :
        pc[p] = "done" /\ pc[q] = "done" /\ link[p] = link[q] => p = q

\* One at a time, the requests do what the strict register does.
ImplementsStrictRegister == Register!StrictSpec
=============================================================================
