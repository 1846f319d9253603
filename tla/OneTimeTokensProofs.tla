------------------------- MODULE OneTimeTokensProofs --------------------------
(***************************************************************************)
(* OneTimeTokens: its type invariant and its safety properties, for any     *)
(* sets of users and requests and any order of the primary keys.            *)
(***************************************************************************)
EXTENDS OneTimeTokens, FiniteSetTheorems, WellFoundedInduction, TLAPS

-----------------------------------------------------------------------------
(* The inductive invariant.                                                 *)

\* Where each kind of request can be; a link is committed from a point on.
Places ==
    /\ \A r \in Link :
          /\ pc[r] \in {"idle", "begun", "marking", "mailing", "done", "lost"}
          /\ r \in Committed <=> pc[r] \in {"mailing", "done", "lost"}
    /\ \A r \in Verify : pc[r] \in {"idle", "read", "settled", "flushed", "done"}
    /\ \A r \in Redeem : pc[r] \in {"idle", "read", "flushed", "owning", "done"}

\* What a request carries once it has begun.
Carries ==
    \A r \in Request : pc[r] # "idle" =>
        user[r] \in User /\ (r \in Presenter => link[r] \in mailed)

\* A request marks committed links of its own table and user.
Targets ==
    \A r \in Request :
        /\ targets[r] # {} => r \in Link /\ pc[r] = "marking"
        /\ \A t \in targets[r] :
              t \in Committed /\ SameTable(t, r) /\ user[t] = user[r]

\* Who holds the row of a link is marking it, or is redeeming this link and
\* has flushed; a redemption that has flushed holds it.
Locks ==
    /\ \A t \in Link, r \in Request : lock[t] = r =>
          \/ r \in Link /\ t \in targets[r]
          \/ r \in Presenter /\ pc[r] \in {"settled", "flushed", "owning"} /\ t = link[r]
    /\ \A r \in Presenter :
          pc[r] \in {"settled", "flushed", "owning"} => lock[link[r]] = r

\* A link that has been redeemed is used.
RedeemedIsUsed == \A t \in Link : Redeemed(t) => t \in used

TokensInv ==
    /\ TypeOK /\ Places /\ Carries /\ Targets /\ Locks /\ RedeemedIsUsed
    /\ LockOrder /\ InvalidatedIsReplaced

-----------------------------------------------------------------------------
(* Committed rows.                                                          *)

LEMMA CommittedAreLinks == TypeOK => Committed \subseteq Link
BY DEF TypeOK, Committed

LEMMA CommittedStay == UNCHANGED issued => Committed' = Committed
BY DEF Committed

LEMMA CommittedGrow ==
    ASSUME TypeOK, NEW r \in Link, issued' = Append(issued, r)
    PROVE  /\ Committed' = Committed \cup {r}
           /\ issued' \in Seq(Link)
           /\ Len(issued) \in Nat /\ Len(issued') = Len(issued) + 1
           /\ issued'[Len(issued')] = r
           /\ \A i \in DOMAIN issued : i \in DOMAIN issued' /\ issued'[i] = issued[i]
           /\ DOMAIN issued = 1..Len(issued) /\ DOMAIN issued' = 1..Len(issued')
<1>1. /\ issued \in Seq(Link) /\ issued' \in Seq(Link)
      /\ Len(issued) \in Nat /\ Len(issued') = Len(issued) + 1
      /\ DOMAIN issued = 1..Len(issued) /\ DOMAIN issued' = 1..Len(issued')
      /\ issued'[Len(issued')] = r
      /\ \A i \in 1..Len(issued) : issued'[i] = issued[i]
  BY DEF TypeOK
<1>2. \A i \in DOMAIN issued : i \in DOMAIN issued' /\ issued'[i] = issued[i]
  BY <1>1
<1>3. \A i \in DOMAIN issued' : i \in DOMAIN issued \/ i = Len(issued')
  BY <1>1
<1>4. Len(issued') \in DOMAIN issued'
  BY <1>1
<1>5. Committed' = Committed \cup {r}
  BY <1>1, <1>2, <1>3, <1>4 DEF Committed
<1> QED BY <1>1, <1>2, <1>5

\* What a transaction holds is committed.
LEMMA HeldAreCommitted ==
    ASSUME TokensInv, NEW r \in Request
    PROVE  Held(r) \subseteq Committed
BY DEF TokensInv, TypeOK, Held, Locks, Targets, Carries

\* A redemption that has flushed holds its link and no other.
LEMMA HoldsItsLink ==
    ASSUME TokensInv, NEW r \in Presenter, pc[r] \in {"settled", "flushed", "owning"}
    PROVE  Held(r) = {link[r]} /\ link[r] \in Link /\ link[r] \in mailed
<1>1. link[r] \in mailed /\ link[r] \in Link /\ r \in Request
  BY CommittedAreLinks DEF TokensInv, TypeOK, Carries, Request
<1>2. lock[link[r]] = r
  BY DEF TokensInv, Locks
<1>3. \A t \in Held(r) : t = link[r]
  BY <1>1, KindsDisjoint DEF TokensInv, Locks, Held
<1> QED BY <1>1, <1>2, <1>3 DEF Held

\* InvalidatedIsReplaced goes on if nothing is committed and used, and the
\* users of committed links, stay.
LEMMA ReplacedStay ==
    ASSUME TokensInv, UNCHANGED issued,
           \A t \in Committed : user'[t] = user[t],
           \A t \in used' \ used : Redeemed(t)',
           \A t \in Link : Redeemed(t) => Redeemed(t)'
    PROVE  InvalidatedIsReplaced'
<1>1. ASSUME NEW i \in DOMAIN issued PROVE issued[i] \in Committed /\ issued[i] \in Link
  BY CommittedAreLinks DEF Committed, TokensInv
<1>2. \A i \in DOMAIN issued : \A j \in (i + 1)..Len(issued) : j \in DOMAIN issued
  BY DEF TokensInv, TypeOK
<1> QED BY <1>1, <1>2 DEF TokensInv, InvalidatedIsReplaced, SameTable

-----------------------------------------------------------------------------
(* The steps.                                                               *)

LEMMA InitInv == Init => TokensInv
<1> SUFFICES ASSUME Init PROVE TokensInv
  OBVIOUS
<1> USE DEF Init
<1>1. Committed = {} /\ issued \in Seq(Link) /\ DOMAIN issued = {}
  BY DEF Committed
<1>2. TypeOK
  BY <1>1 DEF TypeOK, InFlight, Ended
<1>3. Places /\ Carries /\ Targets
  BY <1>1 DEF Places, Carries, Targets, Request, Presenter
<1>4. \A r \in Request : Held(r) = {}
  BY NilIsNone DEF Held
<1>5. Locks /\ LockOrder
  BY <1>4, NilIsNone DEF Locks, LockOrder, Request
<1>6. RedeemedIsUsed /\ InvalidatedIsReplaced
  BY <1>1 DEF RedeemedIsUsed, InvalidatedIsReplaced, Redeemed, Request
<1> QED BY <1>2, <1>3, <1>5, <1>6 DEF TokensInv

LEMMA BeginInv ==
    ASSUME TokensInv, NEW r \in Link, ResendBegin(r) \/ ForgotBegin(r)
    PROVE  TokensInv'
<1>1. TypeOK'
  BY CommittedAreLinks, CommittedStay, KindsDisjoint, NilIsNone DEF TokensInv,
     ResendBegin, ForgotBegin, Go, rows, Request, TypeOK, InFlight
<1>2. Places'
  BY CommittedAreLinks, CommittedStay, KindsDisjoint, NilIsNone DEF TokensInv,
     ResendBegin, ForgotBegin, Go, rows, Request, Presenter, Places, TypeOK
<1>3. Carries'
  BY CommittedAreLinks, CommittedStay, KindsDisjoint, NilIsNone DEF TokensInv,
     ResendBegin, ForgotBegin, Go, rows, Carries, TypeOK
<1>4. Targets'
  BY CommittedAreLinks, CommittedStay, KindsDisjoint, NilIsNone DEF TokensInv,
     ResendBegin, ForgotBegin, Go, rows, Request, Targets, TypeOK, Places
<1>5. Locks'
  BY CommittedAreLinks, CommittedStay, KindsDisjoint, NilIsNone DEF TokensInv,
     ResendBegin, ForgotBegin, Go, Request, Locks, TypeOK
<1>6. RedeemedIsUsed'
  BY CommittedAreLinks, CommittedStay, KindsDisjoint, NilIsNone DEF TokensInv,
     ResendBegin, ForgotBegin, Go, rows, Request, RedeemedIsUsed, Redeemed, TypeOK
<1>7. LockOrder'
  BY CommittedAreLinks, CommittedStay, KindsDisjoint, NilIsNone DEF TokensInv,
     ResendBegin, ForgotBegin, Go, LockOrder, Held, TypeOK
<1>8. InvalidatedIsReplaced'
  BY CommittedAreLinks, CommittedStay, KindsDisjoint, NilIsNone, ReplacedStay
     DEF TokensInv, ResendBegin, ForgotBegin, Go, rows, Request, TypeOK, Redeemed,
     Places
<1> QED BY <1>1, <1>2, <1>3, <1>4, <1>5, <1>6, <1>7, <1>8 DEF TokensInv

LEMMA SelectUnusedInv ==
    ASSUME TokensInv, NEW r \in Link, SelectUnused(r)
    PROVE  TokensInv'
<1>1. TypeOK'
  BY CommittedAreLinks, CommittedStay, KindsDisjoint, NilIsNone DEF TokensInv,
     SelectUnused, Active, Go, rows, Request, TypeOK, InFlight
<1>2. Places'
  BY CommittedAreLinks, CommittedStay, KindsDisjoint, NilIsNone DEF TokensInv,
     SelectUnused, Go, rows, Places
<1>3. Carries'
  BY CommittedAreLinks, CommittedStay, KindsDisjoint, NilIsNone DEF TokensInv,
     SelectUnused, Go, rows, Carries
<1>4. Targets'
  BY CommittedAreLinks, CommittedStay, KindsDisjoint, NilIsNone DEF TokensInv,
     SelectUnused, Active, Go, rows, Targets, TypeOK
<1>5. Locks'
  BY CommittedAreLinks, CommittedStay, KindsDisjoint, NilIsNone DEF TokensInv,
     SelectUnused, Go, Locks, Targets
<1>6. RedeemedIsUsed'
  BY CommittedAreLinks, CommittedStay, KindsDisjoint, NilIsNone DEF TokensInv,
     SelectUnused, Go, rows, RedeemedIsUsed, Redeemed
<1>7. LockOrder'
  BY CommittedAreLinks, CommittedStay, KindsDisjoint, NilIsNone DEF TokensInv,
     SelectUnused, Go, LockOrder, Held, Targets, Locks
<1>8. InvalidatedIsReplaced'
  BY CommittedAreLinks, CommittedStay, KindsDisjoint, NilIsNone, ReplacedStay
     DEF SelectUnused, Go, rows, Redeemed
<1> QED BY <1>1, <1>2, <1>3, <1>4, <1>5, <1>6, <1>7, <1>8 DEF TokensInv

LEMMA MarkUsedInv ==
    ASSUME TokensInv, NEW r \in Link, MarkUsed(r)
    PROVE  TokensInv'
<1>1. PICK t \in targets[r] \ Held(r) :
         /\ \A t2 \in targets[r] \ Held(r) : Key[t] <= Key[t2]
         /\ lock[t] = Nil /\ lock' = [lock EXCEPT ![t] = r]
  BY DEF MarkUsed, NextMark
<1>2. TypeOK'
  BY CommittedAreLinks, CommittedStay, KindsDisjoint, NilIsNone, <1>1 DEF
     TokensInv, MarkUsed, rows, Request, TypeOK
<1>3. Places'
  BY CommittedAreLinks, CommittedStay, KindsDisjoint, NilIsNone, <1>1 DEF
     TokensInv, MarkUsed, rows, Places
<1>4. Carries'
  BY CommittedAreLinks, CommittedStay, KindsDisjoint, NilIsNone, <1>1 DEF
     TokensInv, MarkUsed, rows, Carries
<1>5. Targets'
  BY CommittedAreLinks, CommittedStay, KindsDisjoint, NilIsNone, <1>1 DEF
     TokensInv, MarkUsed, rows, Targets
<1>6. Locks'
  BY CommittedAreLinks, CommittedStay, KindsDisjoint, NilIsNone, <1>1 DEF
     TokensInv, MarkUsed, Request, Locks
<1>7. RedeemedIsUsed'
  BY CommittedAreLinks, CommittedStay, KindsDisjoint, NilIsNone, <1>1 DEF
     TokensInv, MarkUsed, rows, RedeemedIsUsed, Redeemed
<1>8. LockOrder'
  <2>1. t \in Link /\ r \in Request /\ r # Nil
    BY <1>1, NilIsNone DEF TokensInv, TypeOK, Request
  <2>2. Held(r)' = Held(r) \cup {t}
    BY <1>1, <2>1 DEF Held, TokensInv, TypeOK
  <2>3. \A q \in Request \ {r} : Held(q)' = Held(q)
    BY <1>1, <2>1, NilIsNone DEF Held, TokensInv, TypeOK
  <2>4. UNCHANGED <<targets, pc>>
    BY DEF MarkUsed
  <2>5. \A t2 \in targets[r] \ (Held(r) \cup {t}) : Key[t] < Key[t2]
    <3>1. \A t2 \in targets[r] : t2 \in Link /\ Key[t2] \in Nat /\ Key[t] \in Nat
      BY <2>1, KeyIsOrder DEF TokensInv, TypeOK
    <3> QED BY <1>1, <2>1, <3>1, KeyIsOrder
  <2>6. pc[r] # "read"
    BY DEF MarkUsed
  <2> QED BY <2>2, <2>3, <2>4, <2>5, <2>6 DEF TokensInv, LockOrder
<1>9. InvalidatedIsReplaced'
  BY CommittedAreLinks, CommittedStay, KindsDisjoint, NilIsNone, <1>1,
     ReplacedStay DEF MarkUsed, rows, Redeemed
<1> QED BY <1>2, <1>3, <1>4, <1>5, <1>6, <1>7, <1>8, <1>9 DEF TokensInv

LEMMA IssueCommitInv ==
    ASSUME TokensInv, NEW r \in Link, IssueCommit(r)
    PROVE  TokensInv'
<1>1. Held(r) \subseteq Committed /\ r \in Request /\ r \notin Committed
  BY HeldAreCommitted DEF IssueCommit, TokensInv, Places, Request
<1>2. /\ Committed' = Committed \cup {r}
      /\ issued' \in Seq(Link)
      /\ Len(issued) \in Nat /\ Len(issued') = Len(issued) + 1
      /\ issued'[Len(issued')] = r
      /\ \A i \in DOMAIN issued : i \in DOMAIN issued' /\ issued'[i] = issued[i]
      /\ DOMAIN issued = 1..Len(issued) /\ DOMAIN issued' = 1..Len(issued')
  BY CommittedGrow DEF IssueCommit, TokensInv
<1>3. TypeOK'
  BY CommittedAreLinks, KindsDisjoint, NilIsNone, <1>1, <1>2 DEF TokensInv,
     IssueCommit, CommitMarks, ReleaseLocks, Go, TypeOK, InFlight
<1>4. Places'
  BY CommittedAreLinks, KindsDisjoint, NilIsNone, <1>1, <1>2 DEF TokensInv,
     IssueCommit, Go, Places, TypeOK
<1>5. Carries'
  BY CommittedAreLinks, KindsDisjoint, NilIsNone, <1>1, <1>2 DEF TokensInv,
     IssueCommit, Go, Carries
<1>6. Targets'
  BY CommittedAreLinks, KindsDisjoint, NilIsNone, <1>1, <1>2 DEF TokensInv,
     IssueCommit, Go, Targets, TypeOK
<1>7. Locks'
  BY CommittedAreLinks, KindsDisjoint, NilIsNone, <1>1, <1>2 DEF TokensInv,
     IssueCommit, ReleaseLocks, Go, Request, Locks, TypeOK, Carries
<1>8. RedeemedIsUsed'
  BY CommittedAreLinks, KindsDisjoint, NilIsNone, <1>1, <1>2 DEF TokensInv,
     IssueCommit, CommitMarks, Go, RedeemedIsUsed, Redeemed
<1>9. LockOrder'
  BY CommittedAreLinks, KindsDisjoint, NilIsNone, <1>1, <1>2 DEF TokensInv,
     IssueCommit, ReleaseLocks, Go, LockOrder, Held
<1>10. InvalidatedIsReplaced'
  <2> SUFFICES ASSUME NEW i \in DOMAIN issued', issued'[i] \in used',
                      ~ \E q \in Presenter : link'[q] = issued'[i] /\ pc'[q] = "done"
               PROVE  \E j \in (i + 1)..Len(issued') :
                        SameTable(issued'[i], issued'[j]) /\ user'[issued'[i]] = user'[issued'[j]]
    BY DEF InvalidatedIsReplaced, SameTable, Redeemed
  <2>1. used' = used \cup Held(r) /\ UNCHANGED <<user, link>>
    BY DEF IssueCommit, CommitMarks
  <2>2. i \in DOMAIN issued /\ issued'[i] = issued[i]
    <3>1. r \notin used'
      BY <1>1, <2>1 DEF TokensInv, TypeOK
    <3>2. i # Len(issued')
      BY <1>2, <3>1
    <3> QED BY <1>2, <3>2
  <2>3. CASE issued[i] \in Held(r)
    <3>1. SameTable(issued[i], r) /\ user[issued[i]] = user[r]
      <4>1. issued[i] \in targets[r]
        BY <2>3, <1>1, KindsDisjoint DEF TokensInv, Locks, Held
      <4> QED BY <1>1, <4>1 DEF TokensInv, Targets
    <3>2. Len(issued') \in (i + 1)..Len(issued')
      BY <1>2, <2>2
    <3> QED BY <1>2, <2>1, <2>2, <3>1, <3>2
  <2>4. CASE issued[i] \in used
    <3>1. ~ Redeemed(issued[i])
      <4>1. \A q \in Presenter : pc'[q] = pc[q]
        BY <1>1, KindsDisjoint DEF IssueCommit, Go
      <4> QED BY <2>1, <2>2, <4>1 DEF Redeemed
    <3>2. PICK j \in (i + 1)..Len(issued) :
            SameTable(issued[i], issued[j]) /\ user[issued[i]] = user[issued[j]]
      BY <2>2, <2>4, <3>1 DEF TokensInv, InvalidatedIsReplaced
    <3>3. j \in DOMAIN issued /\ j \in (i + 1)..Len(issued')
      BY <1>2, <2>2
    <3> QED BY <1>2, <2>1, <2>2, <3>2, <3>3
  <2> QED BY <2>1, <2>2, <2>3, <2>4
<1> QED BY <1>3, <1>4, <1>5, <1>6, <1>7, <1>8, <1>9, <1>10 DEF TokensInv

LEMMA MailInv ==
    ASSUME TokensInv, NEW r \in Link, Mail(r)
    PROVE  TokensInv'
<1>1. r \in Committed /\ r \in Request
  BY DEF Mail, TokensInv, Places, Request
<1>2. TypeOK'
  BY CommittedAreLinks, CommittedStay, KindsDisjoint, NilIsNone, <1>1 DEF
     TokensInv, Mail, Go, TypeOK, Ended
<1>3. Places'
  BY CommittedAreLinks, CommittedStay, KindsDisjoint, NilIsNone, <1>1 DEF
     TokensInv, Mail, Go, Request, Presenter, Places, TypeOK
<1>4. Carries'
  BY CommittedAreLinks, CommittedStay, KindsDisjoint, NilIsNone, <1>1 DEF
     TokensInv, Mail, Go, Carries, TypeOK
<1>5. Targets'
  BY CommittedAreLinks, CommittedStay, KindsDisjoint, NilIsNone, <1>1 DEF
     TokensInv, Mail, Go, Targets, TypeOK
<1>6. Locks'
  <2>1. \A q \in Presenter : pc'[q] = pc[q]
    BY KindsDisjoint DEF Mail, Go, TokensInv, TypeOK, Request
  <2>2. UNCHANGED <<targets, lock, link>>
    BY DEF Mail
  <2> QED BY <2>1, <2>2 DEF TokensInv, Locks
<1>7. RedeemedIsUsed'
  BY CommittedAreLinks, CommittedStay, KindsDisjoint, NilIsNone, <1>1 DEF
     TokensInv, Mail, Go, Request, RedeemedIsUsed, Redeemed, TypeOK
<1>8. LockOrder'
  BY CommittedAreLinks, CommittedStay, KindsDisjoint, NilIsNone, <1>1 DEF
     TokensInv, Mail, Go, LockOrder, Held, TypeOK
<1>9. InvalidatedIsReplaced'
  BY CommittedAreLinks, CommittedStay, KindsDisjoint, NilIsNone, <1>1,
     ReplacedStay DEF TokensInv, Mail, Go, Request, TypeOK, Redeemed
<1> QED BY <1>2, <1>3, <1>4, <1>5, <1>6, <1>7, <1>8, <1>9 DEF TokensInv

LEMMA PresentInv ==
    ASSUME TokensInv, NEW r \in Presenter, Present(r)
    PROVE  TokensInv'
<1>1. TypeOK'
  BY CommittedAreLinks, CommittedStay, KindsDisjoint, NilIsNone DEF TokensInv,
     Present, Redeemable, Go, rows, Request, TypeOK, InFlight
<1>2. Places'
  BY CommittedAreLinks, CommittedStay, KindsDisjoint, NilIsNone DEF TokensInv,
     Present, Go, rows, Places
<1>3. Carries'
  BY CommittedAreLinks, CommittedStay, KindsDisjoint, NilIsNone DEF TokensInv,
     Present, Redeemable, Go, rows, Request, Carries, TypeOK, Places
<1>4. Targets'
  BY CommittedAreLinks, CommittedStay, KindsDisjoint, NilIsNone DEF TokensInv,
     Present, Go, rows, Targets
<1>5. Locks'
  BY CommittedAreLinks, CommittedStay, KindsDisjoint, NilIsNone DEF TokensInv,
     Present, Go, Locks
<1>6. RedeemedIsUsed'
  BY CommittedAreLinks, CommittedStay, KindsDisjoint, NilIsNone DEF TokensInv,
     Present, Go, rows, RedeemedIsUsed, Redeemed
<1>7. LockOrder'
  BY CommittedAreLinks, CommittedStay, KindsDisjoint, NilIsNone DEF TokensInv,
     Present, Go, LockOrder, Held, Locks
<1>8. InvalidatedIsReplaced'
  BY CommittedAreLinks, CommittedStay, KindsDisjoint, NilIsNone, ReplacedStay
     DEF TokensInv, Present, Go, rows, Redeemed
<1> QED BY <1>1, <1>2, <1>3, <1>4, <1>5, <1>6, <1>7, <1>8 DEF TokensInv

LEMMA FlushInv ==
    ASSUME TokensInv, NEW r \in Presenter,
           \/ r \in Verify /\ VerifyFlush(r)
           \/ r \in Redeem /\ RedeemFlush(r)
    PROVE  TokensInv'
<1>1. r \in Request /\ r # Nil /\ link[r] \in Link /\ link[r] \in mailed /\ user[r] \in User
  BY CommittedAreLinks, NilIsNone DEF VerifyFlush, RedeemFlush, TokensInv,
     TypeOK, Carries, Request
<1>2. TypeOK'
  BY CommittedAreLinks, CommittedStay, KindsDisjoint, NilIsNone, <1>1 DEF
     TokensInv, VerifyFlush, RedeemFlush, LockLink, Go, rows, TypeOK, InFlight
<1>3. Places'
  BY CommittedAreLinks, CommittedStay, KindsDisjoint, NilIsNone, <1>1 DEF
     TokensInv, VerifyFlush, RedeemFlush, Go, rows, Request, Presenter, Places,
     TypeOK
<1>4. Carries'
  BY CommittedAreLinks, CommittedStay, KindsDisjoint, NilIsNone, <1>1 DEF
     TokensInv, VerifyFlush, RedeemFlush, Go, rows, Carries, TypeOK
<1>5. Targets'
  BY CommittedAreLinks, CommittedStay, KindsDisjoint, NilIsNone, <1>1 DEF
     TokensInv, VerifyFlush, RedeemFlush, Go, rows, Targets, TypeOK
<1>6. Locks'
  BY CommittedAreLinks, CommittedStay, KindsDisjoint, NilIsNone, <1>1 DEF
     TokensInv, VerifyFlush, RedeemFlush, LockLink, Go, Request, Presenter, Locks,
     TypeOK, Places, Carries
<1>7. RedeemedIsUsed'
  BY CommittedAreLinks, CommittedStay, KindsDisjoint, NilIsNone, <1>1 DEF
     TokensInv, VerifyFlush, RedeemFlush, Go, rows, Request, RedeemedIsUsed,
     Redeemed, TypeOK
<1>8. LockOrder'
  BY CommittedAreLinks, CommittedStay, KindsDisjoint, NilIsNone, <1>1 DEF
     TokensInv, VerifyFlush, RedeemFlush, LockLink, Go, LockOrder, Held, TypeOK,
     Targets
<1>9. InvalidatedIsReplaced'
  BY CommittedAreLinks, CommittedStay, KindsDisjoint, NilIsNone, <1>1,
     ReplacedStay DEF TokensInv, VerifyFlush, RedeemFlush, Go, rows, Request,
     TypeOK, Redeemed
<1> QED BY <1>2, <1>3, <1>4, <1>5, <1>6, <1>7, <1>8, <1>9 DEF TokensInv

LEMMA RedeemLockUserInv ==
    ASSUME TokensInv, NEW r \in Redeem, RedeemLockUser(r)
    PROVE  TokensInv'
<1>1. TypeOK'
  BY CommittedAreLinks, CommittedStay, KindsDisjoint, NilIsNone DEF TokensInv,
     RedeemLockUser, Go, rows, Request, Presenter, TypeOK, InFlight
<1>2. Places'
  BY CommittedAreLinks, CommittedStay, KindsDisjoint, NilIsNone DEF TokensInv,
     RedeemLockUser, Go, rows, Places
<1>3. Carries'
  BY CommittedAreLinks, CommittedStay, KindsDisjoint, NilIsNone DEF TokensInv,
     RedeemLockUser, Go, rows, Carries
<1>4. Targets'
  BY CommittedAreLinks, CommittedStay, KindsDisjoint, NilIsNone DEF TokensInv,
     RedeemLockUser, Go, rows, Targets
<1>5. Locks'
  BY CommittedAreLinks, CommittedStay, KindsDisjoint, NilIsNone DEF TokensInv,
     RedeemLockUser, Go, Locks
<1>6. RedeemedIsUsed'
  BY CommittedAreLinks, CommittedStay, KindsDisjoint, NilIsNone DEF TokensInv,
     RedeemLockUser, Go, rows, RedeemedIsUsed, Redeemed
<1>7. LockOrder'
  BY CommittedAreLinks, CommittedStay, KindsDisjoint, NilIsNone DEF TokensInv,
     RedeemLockUser, Go, LockOrder, Held
<1>8. InvalidatedIsReplaced'
  BY CommittedAreLinks, CommittedStay, KindsDisjoint, NilIsNone, ReplacedStay
     DEF RedeemLockUser, Go, rows, Redeemed
<1> QED BY <1>1, <1>2, <1>3, <1>4, <1>5, <1>6, <1>7, <1>8 DEF TokensInv

LEMMA CommitInv ==
    ASSUME TokensInv, NEW r \in Presenter,
           \/ r \in Verify /\ VerifyCommit(r)
           \/ r \in Redeem /\ RedeemCommit(r)
    PROVE  TokensInv'
<1>1. /\ Held(r) = {link[r]} /\ link[r] \in Link /\ link[r] \in mailed
      /\ r \in Request /\ r # Nil /\ user[r] \in User
  BY HoldsItsLink, NilIsNone DEF VerifyCommit, RedeemCommit, TokensInv, Carries,
     Request
<1>2. TypeOK'
  BY CommittedAreLinks, CommittedStay, KindsDisjoint, NilIsNone, <1>1 DEF
     TokensInv, VerifyCommit, RedeemCommit, CommitMarks, ReleaseLocks, Go, TypeOK,
     Ended
<1>3. Places'
  BY CommittedAreLinks, CommittedStay, KindsDisjoint, NilIsNone, <1>1 DEF
     TokensInv, VerifyCommit, RedeemCommit, Go, Request, Presenter, Places, TypeOK
<1>4. Carries'
  BY CommittedAreLinks, CommittedStay, KindsDisjoint, NilIsNone, <1>1 DEF
     TokensInv, VerifyCommit, RedeemCommit, Go, Carries, TypeOK
<1>5. Targets'
  BY CommittedAreLinks, CommittedStay, KindsDisjoint, NilIsNone, <1>1 DEF
     TokensInv, VerifyCommit, RedeemCommit, Go, Targets, TypeOK
<1>6. Locks'
  BY CommittedAreLinks, CommittedStay, KindsDisjoint, NilIsNone, <1>1 DEF
     TokensInv, VerifyCommit, RedeemCommit, ReleaseLocks, Go, Request, Locks,
     TypeOK, Carries
<1>7. RedeemedIsUsed'
  BY CommittedAreLinks, CommittedStay, KindsDisjoint, NilIsNone, <1>1 DEF
     TokensInv, VerifyCommit, RedeemCommit, CommitMarks, Go, Request,
     RedeemedIsUsed, Redeemed, TypeOK
<1>8. LockOrder'
  BY CommittedAreLinks, CommittedStay, KindsDisjoint, NilIsNone, <1>1 DEF
     TokensInv, VerifyCommit, RedeemCommit, ReleaseLocks, Go, LockOrder, Held,
     TypeOK
<1>9. InvalidatedIsReplaced'
  BY CommittedAreLinks, CommittedStay, KindsDisjoint, NilIsNone, <1>1,
     ReplacedStay DEF TokensInv, VerifyCommit, RedeemCommit, CommitMarks, Go,
     Request, TypeOK, Redeemed
<1> QED BY <1>2, <1>3, <1>4, <1>5, <1>6, <1>7, <1>8, <1>9 DEF TokensInv

LEMMA AbortInv ==
    ASSUME TokensInv, NEW r \in Request, Abort(r)
    PROVE  TokensInv'
<1>1. r \notin Committed /\ pc[r] # "done"
  BY CommittedAreLinks DEF Abort, TokensInv, Places, InFlight
<1>2. TypeOK'
  BY CommittedAreLinks, CommittedStay, KindsDisjoint, NilIsNone, <1>1 DEF
     TokensInv, Abort, ReleaseLocks, Go, rows, TypeOK
<1>3. Places'
  BY CommittedAreLinks, CommittedStay, KindsDisjoint, NilIsNone, <1>1 DEF
     TokensInv, Abort, Go, rows, Places
<1>4. Carries'
  BY CommittedAreLinks, CommittedStay, KindsDisjoint, NilIsNone, <1>1 DEF
     TokensInv, Abort, Go, rows, Carries, TypeOK
<1>5. Targets'
  BY CommittedAreLinks, CommittedStay, KindsDisjoint, NilIsNone, <1>1 DEF
     TokensInv, Abort, Go, rows, Targets, TypeOK
<1>6. Locks'
  BY CommittedAreLinks, CommittedStay, KindsDisjoint, NilIsNone, <1>1 DEF
     TokensInv, Abort, ReleaseLocks, Go, Request, Locks, TypeOK, Carries
<1>7. RedeemedIsUsed'
  BY CommittedAreLinks, CommittedStay, KindsDisjoint, NilIsNone, <1>1 DEF
     TokensInv, Abort, Go, rows, RedeemedIsUsed, Redeemed
<1>8. LockOrder'
  BY CommittedAreLinks, CommittedStay, KindsDisjoint, NilIsNone, <1>1 DEF
     TokensInv, Abort, ReleaseLocks, Go, LockOrder, Held
<1>9. InvalidatedIsReplaced'
  BY CommittedAreLinks, CommittedStay, KindsDisjoint, NilIsNone, <1>1,
     ReplacedStay DEF Abort, Go, rows, Redeemed
<1> QED BY <1>2, <1>3, <1>4, <1>5, <1>6, <1>7, <1>8, <1>9 DEF TokensInv

LEMMA ExpireInv ==
    ASSUME TokensInv, NEW t \in Link, Expire(t)
    PROVE  TokensInv'
<1>1. TypeOK'
  BY CommittedAreLinks, CommittedStay, KindsDisjoint, NilIsNone DEF TokensInv,
     Expire, TypeOK
<1>2. Places'
  BY CommittedAreLinks, CommittedStay, KindsDisjoint, NilIsNone DEF TokensInv,
     Expire, Places
<1>3. Carries'
  BY CommittedAreLinks, CommittedStay, KindsDisjoint, NilIsNone DEF TokensInv,
     Expire, Carries
<1>4. Targets'
  BY CommittedAreLinks, CommittedStay, KindsDisjoint, NilIsNone DEF TokensInv,
     Expire, Targets
<1>5. Locks'
  BY CommittedAreLinks, CommittedStay, KindsDisjoint, NilIsNone DEF TokensInv,
     Expire, Locks
<1>6. RedeemedIsUsed'
  BY CommittedAreLinks, CommittedStay, KindsDisjoint, NilIsNone DEF TokensInv,
     Expire, RedeemedIsUsed, Redeemed
<1>7. LockOrder'
  BY CommittedAreLinks, CommittedStay, KindsDisjoint, NilIsNone DEF TokensInv,
     Expire, LockOrder, Held
<1>8. InvalidatedIsReplaced'
  BY CommittedAreLinks, CommittedStay, KindsDisjoint, NilIsNone, ReplacedStay
     DEF Expire, Redeemed
<1> QED BY <1>1, <1>2, <1>3, <1>4, <1>5, <1>6, <1>7, <1>8 DEF TokensInv

LEMMA StutterInv == TokensInv /\ UNCHANGED vars => TokensInv'
<1> SUFFICES ASSUME TokensInv, UNCHANGED vars PROVE TokensInv'
  OBVIOUS
<1> USE DEF TokensInv, vars, rows
<1>1. Committed' = Committed /\ \A t \in Link : Redeemed(t)' = Redeemed(t)
  BY CommittedStay DEF Redeemed
<1>2. (TypeOK /\ Places /\ Carries /\ Targets)'
  BY <1>1 DEF TypeOK, Places, Carries, Targets
<1>3. (Locks /\ RedeemedIsUsed /\ LockOrder)'
  BY <1>1 DEF Locks, RedeemedIsUsed, LockOrder, Held
<1>4. InvalidatedIsReplaced'
  BY <1>1, ReplacedStay
<1> QED BY <1>2, <1>3, <1>4

-----------------------------------------------------------------------------
(* No circle of waiting requests.                                           *)

\* A set of numbers has a least one.
LEMMA LeastNumber ==
    ASSUME NEW T, T \subseteq Nat, T # {}
    PROVE  \E n \in T : \A m \in T : n <= m
<1>1. PICK n \in T : \A m \in T : ~(<<m, n>> \in OpToRel(<, Nat))
  BY NatLessThanWellFounded, WFMin
<1>2. \A m \in T : ~(m < n)
  BY <1>1 DEF OpToRel
<1> QED BY <1>2

\* Of finitely many things one has the greatest number: the one with the
\* fewest above it.
LEMMA Greatest ==
    ASSUME NEW S, IsFiniteSet(S), NEW f \in [S -> Nat], NEW T, T \subseteq S, T # {}
    PROVE  \E x \in T : \A y \in T : f[y] <= f[x]
<1> DEFINE Above(x) == {y \in S : f[y] > f[x]}
           Sizes == {Cardinality(Above(x)) : x \in T}
<1>1. \A x \in T : IsFiniteSet(Above(x)) /\ Cardinality(Above(x)) \in Nat
  BY FS_Subset, FS_CardinalityType
<1>2. PICK n \in Sizes : \A m \in Sizes : n <= m
  <2>1. Sizes \subseteq Nat /\ Sizes # {}
    BY <1>1
  <2> QED BY <2>1, LeastNumber
<1>3. PICK x \in T : n = Cardinality(Above(x))
  OBVIOUS
<1>4. ASSUME NEW y \in T, f[y] > f[x] PROVE FALSE
  <2>1. Above(y) \subseteq Above(x)
    BY <1>4
  <2>2. y \in Above(x) /\ y \notin Above(y)
    BY <1>4
  <2>3. /\ Cardinality(Above(y)) <= Cardinality(Above(x))
        /\ Cardinality(Above(y)) # Cardinality(Above(x))
    BY <1>1, <2>1, <2>2, FS_Subset
  <2>4. Cardinality(Above(x)) <= Cardinality(Above(y))
    BY <1>2, <1>3
  <2> HIDE DEF Above
  <2> QED BY <1>1, <2>3, <2>4
<1> QED BY <1>4

\* A request is about to write one link.
LEMMA OneNextLink ==
    ASSUME TokensInv, NEW r \in Request, NEW t1 \in NextLinks(r), NEW t2 \in NextLinks(r)
    PROVE  t1 \in Link /\ t1 = t2
<1>1. CASE pc[r] = "marking"
  <2>1. t1 \in NextMark(r) /\ t2 \in NextMark(r) /\ t1 \in Link /\ t2 \in Link
    BY <1>1 DEF NextLinks, NextMark, TokensInv, TypeOK
  <2>2. Key[t1] \in Nat /\ Key[t2] \in Nat /\ Key[t1] <= Key[t2] /\ Key[t2] <= Key[t1]
    BY <2>1, KeyIsOrder DEF NextMark
  <2>3. Key[t1] = Key[t2]
    BY <2>2
  <2> QED BY <2>1, <2>3, KeyIsOrder
<1>2. CASE pc[r] = "read"
  <2>1. t1 = link[r] /\ t2 = link[r]
    BY <1>2 DEF NextLinks
  <2>2. r \in Presenter /\ link[r] \in mailed
    BY <1>2 DEF TokensInv, Places, Carries, Request
  <2> QED BY <2>1, <2>2, CommittedAreLinks DEF TokensInv, TypeOK
<1> QED BY <1>1, <1>2 DEF NextLinks

\* Who holds the row of a link and is about to write another writes one with
\* a larger key.
LEMMA NextIsLarger ==
    ASSUME TokensInv, NEW q \in Request, NEW t1 \in Link, lock[t1] = q,
           NEW t2 \in NextLinks(q)
    PROVE  Key[t1] < Key[t2]
<1>1. t1 \in Held(q)
  BY DEF Held
<1>2. pc[q] # "read"
  BY <1>1 DEF TokensInv, LockOrder
<1>3. t2 \in targets[q] \ Held(q)
  BY <1>2 DEF NextLinks, NextMark
<1> QED BY <1>1, <1>3 DEF TokensInv, LockOrder

\* Who is waited for holds the link or has the user's row; the latter waits
\* for nobody.
LEMMA WaitsForHolder ==
    ASSUME NEW r \in Request, NEW q \in WaitsFor(r)
    PROVE  \/ \E t \in NextLinks(r) : lock[t] = q
           \/ pc[r] = "flushed" /\ pc[q] = "owning" /\ WaitsFor(q) = {}
BY DEF WaitsFor, NextLinks

\* Of the links that somebody of S waits for take the one with the greatest
\* key: its holder waits for no link, unless for one with a still greater key.
LEMMA WaitingIsOrdered == TokensInv => NoCircle
<1> SUFFICES ASSUME TokensInv,
                    NEW S, S \subseteq {r \in Request : WaitsFor(r) # {}}, S # {}
             PROVE  \E r \in S : WaitsFor(r) \cap S = {}
  BY DEF NoCircle
<1>1. CASE \E r \in S : pc[r] = "flushed"
  <2>1. PICK r \in S : pc[r] = "flushed"
    BY <1>1
  <2>2. NextLinks(r) = {}
    BY <2>1 DEF NextLinks
  <2>3. \A q \in WaitsFor(r) : WaitsFor(q) = {}
    BY <2>2, WaitsForHolder
  <2> QED BY <2>3
<1>2. CASE \A r \in S : pc[r] # "flushed"
  <2> DEFINE Wanted == {t \in Link : lock[t] \in Request /\ \E r \in S : t \in NextLinks(r)}
  <2>1. \A r \in S : \E t \in NextLinks(r) : t \in Wanted
    <3> SUFFICES ASSUME NEW r \in S PROVE \E t \in NextLinks(r) : t \in Wanted
      OBVIOUS
    <3>1. PICK q : q \in WaitsFor(r)
      OBVIOUS
    <3>2. PICK t \in NextLinks(r) : lock[t] = q
      BY <1>2, <3>1, WaitsForHolder
    <3>3. t \in Link
      BY <3>2, OneNextLink
    <3>4. lock[t] # Nil
      BY <1>2, <3>1, <3>2, NilIsNone DEF WaitsFor, Request, Presenter
    <3> QED BY <3>2, <3>3, <3>4 DEF TokensInv, TypeOK
  <2>2. Wanted # {} /\ Wanted \subseteq Link
    BY <2>1
  <2>3. PICK t \in Wanted : \A t2 \in Wanted : Key[t2] <= Key[t]
    <3>1. Key \in [Link -> Nat]
      BY KeyIsOrder
    <3> HIDE DEF Wanted
    <3> QED BY <2>2, <3>1, Greatest, LinkIsFinite
  <2>4. PICK r \in S : t \in NextLinks(r)
    OBVIOUS
  <2>5. ASSUME NEW q \in WaitsFor(r) \cap S PROVE FALSE
    <3>1. PICK t1 \in NextLinks(r) : lock[t1] = q
      BY <1>2, WaitsForHolder
    <3>2. lock[t] = q
      BY <2>4, <3>1, OneNextLink
    <3>3. PICK t2 \in NextLinks(q) : t2 \in Wanted
      BY <2>1
    <3>4. Key[t] < Key[t2] /\ Key[t2] <= Key[t] /\ Key[t] \in Nat /\ Key[t2] \in Nat
      BY <2>3, <3>2, <3>3, NextIsLarger, KeyIsOrder
    <3> QED BY <3>4
  <2> QED BY <2>5
<1> QED BY <1>1, <1>2

-----------------------------------------------------------------------------
(* The theorems.                                                            *)

LEMMA NextInv == TokensInv /\ [Next]_vars => TokensInv'
<1> SUFFICES ASSUME TokensInv, [Next]_vars PROVE TokensInv'
  OBVIOUS
<1>1. ASSUME NEW r \in Request, Begin(r) \/ Continue(r) \/ Abort(r)
      PROVE  TokensInv'
  <2>1. CASE Begin(r)
    BY <2>1, BeginInv, PresentInv DEF Begin, Link
  <2>2. CASE Continue(r)
    <3>1. ASSUME r \in Link, SelectUnused(r) \/ MarkUsed(r) \/ IssueCommit(r) \/ Mail(r)
          PROVE  TokensInv'
      BY <3>1, SelectUnusedInv, MarkUsedInv, IssueCommitInv, MailInv
    <3>2. ASSUME r \in Verify, VerifyFlush(r) \/ VerifyCommit(r) PROVE TokensInv'
      BY <3>2, FlushInv, CommitInv DEF Presenter
    <3>3. ASSUME r \in Redeem, RedeemFlush(r) \/ RedeemLockUser(r) \/ RedeemCommit(r)
          PROVE  TokensInv'
      BY <3>3, FlushInv, RedeemLockUserInv, CommitInv DEF Presenter
    <3> QED BY <2>2, <3>1, <3>2, <3>3 DEF Continue
  <2>3. CASE Abort(r)
    BY <2>3, AbortInv
  <2> QED BY <1>1, <2>1, <2>2, <2>3
<1> QED BY <1>1, ExpireInv, StutterInv DEF Next, Quiescent

\* Every state of every run has the invariant.
THEOREM InductiveInvariant == Spec => []TokensInv
BY InitInv, NextInv, PTL DEF Spec

\* Every variable keeps its type.
THEOREM TypeCorrect == Spec => []TypeOK
BY InductiveInvariant, PTL DEF TokensInv

\* The rows of links are locked in the order of their keys, by everybody.
THEOREM LockedInOrder == Spec => []LockOrder
BY InductiveInvariant, PTL DEF TokensInv

\* A link that nobody redeemed is used only once a newer one is committed.
THEOREM Replaced == Spec => []InvalidatedIsReplaced
BY InductiveInvariant, PTL DEF TokensInv

\* NoCircle: requests that wait for the rows of links or of the user, in
\* whatever order they came, never wait for each other in a circle.
THEOREM NobodyWaitsInACircle == Spec => []NoCircle
BY InductiveInvariant, WaitingIsOrdered, PTL

\* No link gets past the check after its redemption has been answered.
THEOREM NoReuse == Spec => NoReuseAfterAnswer
<1>1. ASSUME TokensInv, [Next]_vars, NEW r \in Presenter,
             pc[r] = "idle", pc'[r] = "read"
      PROVE  ~ Redeemed(link'[r])
  <2> USE DEF TokensInv, TypeOK, Request
  <2>1. Present(r)
    <3>1. ASSUME NEW q \in Request, Continue(q) \/ Abort(q) PROVE pc'[r] = pc[r] \/ pc'[r] # "read"
      BY <1>1, <3>1 DEF Continue, Abort, SelectUnused, MarkUsed, IssueCommit, Mail,
         VerifyFlush, VerifyCommit, RedeemFlush, RedeemLockUser, RedeemCommit, Go
    <3>2. ASSUME NEW q \in Link, ResendBegin(q) \/ ForgotBegin(q) PROVE FALSE
      BY <1>1, <3>2 DEF ResendBegin, ForgotBegin, Go
    <3>3. ASSUME NEW q \in Presenter, Present(q), q # r PROVE FALSE
      BY <1>1, <3>3 DEF Present, Go
    <3>4. \E q \in Request : Begin(q) \/ Continue(q) \/ Abort(q)
      BY <1>1 DEF Next, vars, Expire, Quiescent
    <3> QED BY <1>1, <3>1, <3>2, <3>3, <3>4 DEF Begin, Link
  <2>2. link'[r] \in mailed \ used
    BY <1>1, <2>1 DEF Present, Redeemable
  <2> QED BY <1>1, <2>2, CommittedAreLinks DEF RedeemedIsUsed
<1>2. TokensInv /\ [Next]_vars =>
        \A r \in Presenter : pc[r] = "idle" /\ pc'[r] = "read" => ~ Redeemed(link'[r])
  BY <1>1
<1> QED BY <1>2, InductiveInvariant, PTL DEF Spec, NoReuseAfterAnswer

-----------------------------------------------------------------------------
(* The requests implement the register of LinkRegister.                     *)

OwnerOf == [t \in Link |-> IF t \in Committed THEN user[t] ELSE Nil]

LEMMA RegisterInit == Init => Register!Init
<1> SUFFICES ASSUME Init PROVE Register!Init
  OBVIOUS
<1>1. Committed = {}
  BY DEF Init, Committed
<1> QED BY <1>1 DEF Init, Register!Init, Register!Link, Link

\* A step that neither issues nor redeems.
LEMMA RegisterStays ==
    ASSUME UNCHANGED <<issued, used, verified, pwd>>,
           \A t \in Link \cap Committed : user'[t] = user[t]
    PROVE  UNCHANGED Register!register
<1>1. Committed' = Committed
  BY CommittedStay
<1>2. OwnerOf' = OwnerOf
  BY <1>1 DEF OwnerOf
<1> QED BY <1>1, <1>2 DEF Register!register, OwnerOf

LEMMA IssueSimulates ==
    ASSUME TokensInv, NEW r \in Link, IssueCommit(r)
    PROVE  /\ \E u \in User : u = user[r] /\ Register!Issue(r, u)
           /\ (Committed \ used)' = ((Committed \ used) \ targets[r]) \cup {r}
<1> USE DEF TokensInv
<1>1. Committed' = Committed \cup {r} /\ r \notin Committed /\ pc[r] = "marking"
  BY CommittedGrow DEF IssueCommit, Places
<1>2. user[r] \in User /\ user' = user
  BY <1>1 DEF IssueCommit, Carries, Request
<1>3. OwnerOf[r] = Nil /\ OwnerOf' = [OwnerOf EXCEPT ![r] = user[r]]
  BY <1>1, <1>2 DEF OwnerOf
<1>4. Held(r) = targets[r]
  <2>1. targets[r] \subseteq Held(r)
    <3> SUFFICES targets[r] \ Held(r) = {}
      OBVIOUS
    <3> DEFINE Left == targets[r] \ Held(r)
    <3>1. Left \subseteq Link /\ NextMark(r) = {}
      BY DEF TypeOK, Request, IssueCommit
    <3>2. ASSUME Left # {} PROVE FALSE
      <4>1. Left \subseteq Link /\ Left # {}
        BY <3>1, <3>2
      <4>2. {Key[t] : t \in Left} \subseteq Nat /\ {Key[t] : t \in Left} # {}
        BY <4>1, KeyIsOrder
      <4>3. PICK n \in {Key[t] : t \in Left} : \A m \in {Key[t] : t \in Left} : n <= m
        BY <4>2, LeastNumber
      <4>4. PICK t \in Left : Key[t] = n
        BY <4>3
      <4>5. t \in NextMark(r)
        BY <4>3, <4>4 DEF NextMark
      <4> QED BY <3>1, <4>5
    <3> QED BY <3>2
  <2>2. Held(r) \subseteq targets[r]
    BY KindsDisjoint DEF Held, Locks, Request
  <2> QED BY <2>1, <2>2
<1>5. /\ targets[r] \subseteq Committed /\ r \notin used /\ used' = used \cup targets[r]
  BY <1>1, <1>4 DEF IssueCommit, CommitMarks, Targets, TypeOK, Request
<1>6. (Committed \ used)' = ((Committed \ used) \ targets[r]) \cup {r}
  BY <1>1, <1>5
<1>7. targets[r] \ used \subseteq Register!Replaceable(r, user[r])
  <2> SUFFICES ASSUME NEW t \in targets[r] \ used
               PROVE  t \in Register!Replaceable(r, user[r])
    OBVIOUS
  <2>1. t \in Committed /\ t \in Link /\ user[t] = user[r] /\ SameTable(t, r)
    BY <1>5 DEF Targets, TypeOK, Request
  <2>2. t \in Resend <=> r \in Resend
    BY <2>1, KindsDisjoint DEF SameTable, Link, Presenter
  <2> QED BY <2>1, <2>2 DEF Register!Replaceable
<1>8. \E closed \in SUBSET Register!Replaceable(r, user[r]) :
        (Committed \ used)' = ((Committed \ used) \ closed) \cup {r}
  <2>1. (Committed \ used) \ targets[r] = (Committed \ used) \ (targets[r] \ used)
    OBVIOUS
  <2> QED BY <1>6, <1>7, <2>1
<1>9. PICK u \in User : u = user[r]
  BY <1>2
<1>10. Register!Issue(r, u)
  BY <1>3, <1>8, <1>9 DEF Register!Issue, OwnerOf, IssueCommit
<1> QED BY <1>6, <1>9, <1>10

\* Nobody is given another user once his link is committed.
LEMMA UsersStay ==
    ASSUME TokensInv, [Next]_vars, NEW t \in Link, t \in Committed
    PROVE  user'[t] = user[t]
<1> USE DEF TokensInv, TypeOK
<1>1. pc[t] \in {"mailing", "done", "lost"} /\ t \in Request
  BY DEF Places, Request
<1>2. ASSUME NEW r \in Request, Begin(r) PROVE user'[t] = user[t]
  BY <1>1, <1>2, KindsDisjoint DEF Begin, ResendBegin, ForgotBegin, Present
<1>3. ASSUME NEW r \in Request, Continue(r) PROVE user'[t] = user[t]
  BY <1>3 DEF Continue, SelectUnused, MarkUsed, IssueCommit, Mail, VerifyFlush, VerifyCommit,
     RedeemFlush, RedeemLockUser, RedeemCommit, rows
<1>4. ASSUME NEW r \in Request, Abort(r) PROVE user'[t] = user[t]
  BY <1>1, <1>4 DEF Abort, InFlight
<1> QED BY <1>2, <1>3, <1>4 DEF Next, Expire, Quiescent, vars

\* The link that a request redeems is of its table and of the user it is for.
OwnLinks ==
    \A r \in Presenter : pc[r] # "idle" =>
        SameTable(link[r], r) /\ user[link[r]] = user[r]

LEMMA OwnLinksInit == Init => OwnLinks
BY DEF Init, OwnLinks, Request

LEMMA OwnLinksNext == TokensInv /\ OwnLinks /\ [Next]_vars => OwnLinks'
<1> SUFFICES ASSUME TokensInv, OwnLinks, [Next]_vars,
                    NEW q \in Presenter, pc'[q] # "idle"
             PROVE  SameTable(link'[q], q) /\ user'[link'[q]] = user'[q]
  BY DEF OwnLinks, SameTable
<1> USE DEF TokensInv, TypeOK
<1>1. q \in Request /\ q \notin Link
  BY KindsDisjoint DEF Request
<1>2. ASSUME pc[q] # "idle", user'[q] = user[q], link'[q] = link[q] PROVE
        SameTable(link'[q], q) /\ user'[link'[q]] = user'[q]
  <2>1. link[q] \in Link /\ link[q] \in Committed
    BY <1>1, <1>2, CommittedAreLinks DEF Carries
  <2> QED BY <1>2, <2>1, UsersStay DEF OwnLinks
<1>3. ASSUME NEW r \in Request, Begin(r) PROVE SameTable(link'[q], q) /\ user'[link'[q]] = user'[q]
  <2>1. CASE r = q
    <3>1. Present(q)
      BY <1>1, <1>3, <2>1 DEF Begin, Link
    <3>2. PICK t \in Redeemable(q) :
             link' = [link EXCEPT ![q] = t] /\ user' = [user EXCEPT ![q] = user[t]]
      BY <3>1 DEF Present
    <3>3. SameTable(t, q) /\ t \in Committed /\ t \in Link
      BY <3>2, CommittedAreLinks DEF Redeemable
    <3>4. t # q /\ link'[q] = t /\ user'[q] = user[t] /\ user'[t] = user[t]
      BY <1>1, <3>2, <3>3
    <3> QED BY <3>3, <3>4
  <2>2. CASE r # q
    BY <1>1, <1>2, <1>3, <2>2 DEF Begin, ResendBegin, ForgotBegin, Present, Go
  <2> QED BY <2>1, <2>2
<1>4. ASSUME NEW r \in Request, Continue(r) PROVE SameTable(link'[q], q) /\ user'[link'[q]] = user'[q]
  <2>1. user' = user /\ link' = link /\ pc[r] # "idle" /\ \E where : pc' = [pc EXCEPT ![r] = where]
                                                                 \/ pc' = pc
    BY <1>4 DEF Continue, SelectUnused, MarkUsed, IssueCommit, Mail, VerifyFlush, VerifyCommit,
       RedeemFlush, RedeemLockUser, RedeemCommit, rows, Go
  <2>2. pc[q] # "idle"
    BY <1>1, <2>1
  <2> QED BY <1>2, <2>1, <2>2
<1>5. ASSUME NEW r \in Request, Abort(r) PROVE SameTable(link'[q], q) /\ user'[link'[q]] = user'[q]
  BY <1>1, <1>2, <1>5 DEF Abort, Go
<1>6. ASSUME UNCHANGED <<pc, user, link>> PROVE SameTable(link'[q], q) /\ user'[link'[q]] = user'[q]
  BY <1>2, <1>6
<1> QED BY <1>3, <1>4, <1>5, <1>6 DEF Next, Expire, Quiescent, vars

LEMMA RedeemSimulates ==
    ASSUME TokensInv, OwnLinks, NEW r \in Presenter,
           \/ r \in Verify /\ VerifyCommit(r)
           \/ r \in Redeem /\ RedeemCommit(r)
    PROVE  /\ link[r] \in Link /\ link[r] \in Committed /\ user[link[r]] = user[r]
           /\ r \in Verify => \E t \in Resend : t = link[r] /\ Register!VerifyAddress(t)
           /\ r \in Redeem => \E t \in Forgot : t = link[r] /\ Register!SetPassword(t, r)
           /\ used' = used \cup {link[r]}
<1> USE DEF TokensInv
<1>1. pc[r] \in {"settled", "flushed", "owning"} /\ r \in Request
  BY DEF VerifyCommit, RedeemCommit, Request
<1>2. Held(r) = {link[r]} /\ link[r] \in Link /\ link[r] \in Committed
  BY <1>1, HoldsItsLink DEF TypeOK
<1>3. SameTable(link[r], r) /\ user[link[r]] = user[r] /\ user[r] \in User
  BY <1>1 DEF OwnLinks, Carries
<1>4. UNCHANGED <<issued, user>> /\ used' = used \cup {link[r]}
  BY <1>2 DEF VerifyCommit, RedeemCommit, CommitMarks
<1>5. OwnerOf' = OwnerOf /\ OwnerOf[link[r]] = user[r] /\ user[r] # Nil
  BY <1>2, <1>3, <1>4, CommittedStay, NilIsNone DEF OwnerOf
<1>6. (Committed \ used)' = (Committed \ used) \ {link[r]}
  BY <1>4, CommittedStay
<1>7. r \in Verify => link[r] \in Resend
  BY <1>2, <1>3, KindsDisjoint DEF SameTable, Link, Presenter
<1>8. r \in Redeem => link[r] \in Forgot
  BY <1>2, <1>3, KindsDisjoint DEF SameTable, Link, Presenter
<1>9. PICK t \in Link : t = link[r]
  BY <1>2
<1>10. ASSUME r \in Verify PROVE Register!VerifyAddress(t)
  <2>1. verified' = verified \cup {user[r]} /\ pwd' = pwd
    BY <1>10, KindsDisjoint DEF VerifyCommit
  <2>2. OwnerOf[t] # Nil /\ verified' = verified \cup {OwnerOf[t]}
    BY <1>5, <1>9, <2>1
  <2> QED BY <1>5, <1>6, <1>9, <2>1, <2>2 DEF Register!VerifyAddress, OwnerOf
<1>11. ASSUME r \in Redeem PROVE Register!SetPassword(t, r)
  <2>1. pwd' = [pwd EXCEPT ![user[r]] = r] /\ verified' = verified
    BY <1>11, KindsDisjoint DEF RedeemCommit
  <2>2. OwnerOf[t] # Nil /\ pwd' = [pwd EXCEPT ![OwnerOf[t]] = r]
    BY <1>5, <1>9, <2>1
  <2> QED BY <1>5, <1>6, <1>9, <2>1, <2>2 DEF Register!SetPassword, OwnerOf
<1> QED BY <1>2, <1>3, <1>4, <1>7, <1>8, <1>9, <1>10, <1>11

\* What a step does to the register, if anything, it does at a commit.
LEMMA StepKinds ==
    ASSUME TokensInv, [Next]_vars
    PROVE  \/ UNCHANGED Register!register
           \/ \E r \in Link : IssueCommit(r)
           \/ \E r \in Verify : VerifyCommit(r)
           \/ \E r \in Redeem : RedeemCommit(r)
<1>1. UNCHANGED <<issued, used, verified, pwd>> => UNCHANGED Register!register
  BY RegisterStays, UsersStay
<1>2. ASSUME NEW r \in Request, Begin(r) \/ Abort(r) PROVE UNCHANGED Register!register
  BY <1>1, <1>2 DEF Begin, ResendBegin, ForgotBegin, Present, Abort, rows
<1>3. ASSUME NEW r \in Request,
             SelectUnused(r) \/ MarkUsed(r) \/ Mail(r) \/ VerifyFlush(r) \/ RedeemFlush(r)
                 \/ RedeemLockUser(r)
      PROVE  UNCHANGED Register!register
  BY <1>1, <1>3 DEF SelectUnused, MarkUsed, Mail, VerifyFlush, RedeemFlush, RedeemLockUser, rows
<1>4. (\E t \in Link : Expire(t)) \/ UNCHANGED vars => UNCHANGED Register!register
  BY <1>1 DEF Expire, vars, rows
<1> QED BY <1>2, <1>3, <1>4 DEF Next, Continue, Quiescent

LEMMA StepSimulates ==
    ASSUME TokensInv, OwnLinks, [Next]_vars
    PROVE  [Register!Next]_(Register!register)
<1>1. ASSUME NEW r \in Link, IssueCommit(r) PROVE Register!Next
  BY <1>1, IssueSimulates DEF Register!Next, Register!Link, Link
<1>2. ASSUME NEW r \in Verify, VerifyCommit(r) PROVE Register!Next
  BY <1>2, RedeemSimulates DEF Register!Next, Presenter
<1>3. ASSUME NEW r \in Redeem, RedeemCommit(r) PROVE Register!Next
  BY <1>3, RedeemSimulates DEF Register!Next, Presenter
<1> QED BY <1>1, <1>2, <1>3, StepKinds

\* ImplementsRegister: requests that interleave statement by statement, wait
\* for each other and are rolled back do to the register what some sequence of
\* whole requests does, one link at each commit.
THEOREM Refinement == Spec => ImplementsRegister
<1>1. Init => Register!Init
  BY RegisterInit
<1>2. TokensInv /\ OwnLinks /\ [Next]_vars => OwnLinks' /\ [Register!Next]_(Register!register)
  BY OwnLinksNext, StepSimulates
<1> QED BY <1>1, <1>2, OwnLinksInit, InductiveInvariant, PTL
        DEF Spec, ImplementsRegister, Register!Spec

-----------------------------------------------------------------------------
(* While the requests do not overlap.                                       *)

\* At most one request is under way.
Alone == \A q, r \in Request : pc[q] \in InFlight /\ pc[r] \in InFlight => q = r

\* What the request under way has read is still so.
FreshReads ==
    /\ \A r \in Link : pc[r] = "marking" => targets[r] = Active(r, user[r])
    /\ \A r \in Resend : pc[r] \in {"begun", "marking"} => user[r] \notin verified
    /\ \A r \in Presenter : pc[r] \in InFlight => link[r] \notin used

SerialInv ==
    /\ TokensInv /\ OwnLinks /\ Alone /\ FreshReads
    /\ OneActiveLink /\ RedeemedOnce

LEMMA SerialInit == Init => SerialInv
<1> SUFFICES ASSUME Init PROVE SerialInv
  OBVIOUS
<1>1. Committed = {} /\ \A r \in Request : pc[r] = "idle"
  BY DEF Init, Committed
<1>2. Alone /\ FreshReads /\ OneActiveLink /\ RedeemedOnce
  BY <1>1 DEF Alone, FreshReads, OneActiveLink, RedeemedOnce, InFlight, Link, Request
<1> QED BY <1>2, InitInv, OwnLinksInit DEF SerialInv

LEMMA SerialIsNext == SerialNext => Next
BY DEF SerialNext, Next

\* A step of one request leaves the others where they are.
LEMMA OthersStay ==
    ASSUME TokensInv, NEW r \in Request, Begin(r) \/ Continue(r) \/ Abort(r),
           NEW q \in Request, q # r
    PROVE  pc'[q] = pc[q] /\ link'[q] = link[q] /\ user'[q] = user[q]
<1>1. pc \in [Request -> {"idle"} \cup InFlight \cup Ended] /\ link \in [Request -> Link \cup {Nil}]
      /\ user \in [Request -> User \cup {Nil}]
  BY DEF TokensInv, TypeOK
<1>2. CASE Begin(r)
  BY <1>1, <1>2 DEF Begin, ResendBegin, ForgotBegin, Present, Go
<1>3. CASE Continue(r)
  BY <1>1, <1>3 DEF Continue, SelectUnused, MarkUsed, IssueCommit, Mail, VerifyFlush,
     VerifyCommit, RedeemFlush, RedeemLockUser, RedeemCommit, Go
<1>4. CASE Abort(r)
  BY <1>1, <1>4 DEF Abort, Go
<1> QED BY <1>2, <1>3, <1>4

LEMMA AloneNext ==
    ASSUME TokensInv, Alone, [SerialNext]_vars
    PROVE  Alone'
<1>1. ASSUME NEW r \in Request, \A q \in Request \ {r} : pc[q] \notin InFlight,
             Begin(r) \/ Continue(r) \/ Abort(r)
      PROVE  Alone'
  <2>1. \A q \in Request \ {r} : pc'[q] \notin InFlight
    BY <1>1, OthersStay
  <2> QED BY <2>1 DEF Alone
<1>2. UNCHANGED pc => Alone'
  BY DEF Alone
<1> QED BY <1>1, <1>2 DEF SerialNext, Expire, Quiescent, vars

\* The reads of a request that writes: nobody else has changed the rows.
LEMMA FreshNext ==
    ASSUME TokensInv, FreshReads, [SerialNext]_vars
    PROVE  FreshReads'
<1> USE DEF TokensInv, TypeOK
<1>1. ASSUME NEW r \in Request, \A q \in Request \ {r} : pc[q] \notin InFlight,
             Begin(r) \/ Continue(r) \/ Abort(r)
      PROVE  FreshReads'
  <2>1. \A q \in Request \ {r} : pc'[q] \notin InFlight
    BY <1>1, OthersStay
  <2>2. SUFFICES /\ r \in Link /\ pc'[r] = "marking" => targets'[r] = Active(r, user[r])'
                 /\ r \in Resend /\ pc'[r] \in {"begun", "marking"} => user'[r] \notin verified'
                 /\ r \in Presenter /\ pc'[r] \in InFlight => link'[r] \notin used'
    <3>1. \A q \in Request : pc'[q] \in InFlight => q = r
      BY <2>1
    <3>2. {"begun", "marking"} \subseteq InFlight /\ Link \subseteq Request
          /\ Presenter \subseteq Request /\ Resend \subseteq Link
      BY DEF InFlight, Request, Link
    <3> QED BY <3>1, <3>2 DEF FreshReads, Active, SameTable
  <2>3. CASE Begin(r)
    <3>1. CASE r \in Resend /\ ResendBegin(r)
      BY <3>1, KindsDisjoint DEF ResendBegin, Go, rows, Link
    <3>2. CASE r \in Forgot /\ ForgotBegin(r)
      BY <3>2, KindsDisjoint DEF ForgotBegin, Go, rows, Link
    <3>3. CASE r \in Presenter /\ Present(r)
      BY <3>3, KindsDisjoint DEF Present, Redeemable, Go, rows, Link
    <3> QED BY <2>3, <3>1, <3>2, <3>3 DEF Begin
  <2>4. CASE r \in Link /\ (SelectUnused(r) \/ MarkUsed(r) \/ IssueCommit(r) \/ Mail(r))
    <3>1. r \notin Presenter
      BY <2>4, KindsDisjoint
    <3>2. ASSUME UNCHANGED rows, UNCHANGED user
          PROVE  Active(r, user[r])' = Active(r, user[r]) /\ verified' = verified
      BY <3>2, CommittedStay DEF Active, SameTable, rows
    <3>3. CASE SelectUnused(r)
      BY <3>1, <3>2, <3>3 DEF SelectUnused, Go, FreshReads
    <3>4. CASE MarkUsed(r)
      BY <2>4, <3>1, <3>2, <3>4 DEF MarkUsed, FreshReads
    <3>5. CASE IssueCommit(r) \/ Mail(r)
      BY <3>1, <3>5 DEF IssueCommit, Mail, Go
    <3> QED BY <2>4, <3>3, <3>4, <3>5
  <2>5. CASE \/ r \in Verify /\ (VerifyFlush(r) \/ VerifyCommit(r))
             \/ r \in Redeem /\ (RedeemFlush(r) \/ RedeemLockUser(r) \/ RedeemCommit(r))
    <3>1. r \in Presenter /\ r \notin Link
      BY <2>5, KindsDisjoint DEF Presenter
    <3>2. CASE VerifyCommit(r) \/ RedeemCommit(r)
      BY <3>1, <3>2 DEF VerifyCommit, RedeemCommit, Go, InFlight, Link
    <3>3. CASE VerifyFlush(r) \/ RedeemFlush(r) \/ RedeemLockUser(r)
      BY <3>1, <3>3 DEF VerifyFlush, RedeemFlush, RedeemLockUser, Go, InFlight, Link, rows, FreshReads
    <3> QED BY <2>5, <3>2, <3>3
  <2>6. CASE Abort(r)
    BY <2>6 DEF Abort, Go, InFlight
  <2> QED BY <1>1, <2>3, <2>4, <2>5, <2>6 DEF Continue
<1>2. UNCHANGED <<issued, used, verified, pc, user, link, targets>> => FreshReads'
  BY CommittedStay DEF FreshReads, Active, SameTable
<1> QED BY <1>1, <1>2 DEF SerialNext, Expire, Quiescent, vars, rows

\* A new link takes the place of every open one of its account and table.
LEMMA IssueReplacesAll ==
    ASSUME TokensInv, FreshReads, OneActiveLink, NEW r \in Link, IssueCommit(r)
    PROVE  OneActiveLink'
<1>1. (Committed \ used)' = ((Committed \ used) \ targets[r]) \cup {r} /\ user' = user
  BY IssueSimulates DEF IssueCommit
<1>2. targets[r] = Active(r, user[r])
  BY DEF FreshReads, IssueCommit
<1>3. SUFFICES ASSUME NEW t1 \in (Committed \ used)', NEW t2 \in (Committed \ used)',
                      SameTable(t1, t2), user[t1] = user[t2]
               PROVE  t1 = t2
  BY <1>1 DEF OneActiveLink, SameTable
<1>4. ASSUME NEW t \in (Committed \ used) \ targets[r] PROVE ~(SameTable(t, r) /\ user[t] = user[r])
  BY <1>2, <1>4 DEF Active
<1>5. SameTable(t2, t1)
  BY <1>3 DEF SameTable
<1> QED BY <1>1, <1>3, <1>4, <1>5 DEF OneActiveLink

LEMMA OneActiveNext ==
    ASSUME TokensInv, FreshReads, OneActiveLink, [Next]_vars
    PROVE  OneActiveLink'
<1>1. ASSUME (Committed \ used)' \subseteq Committed \ used PROVE OneActiveLink'
  BY <1>1, UsersStay, CommittedAreLinks DEF OneActiveLink, SameTable, TokensInv
<1>2. ASSUME UNCHANGED issued, used \subseteq used' PROVE OneActiveLink'
  BY <1>1, <1>2, CommittedStay
<1>3. ASSUME NEW r \in Request, Continue(r) PROVE OneActiveLink'
  BY <1>2, <1>3, IssueReplacesAll DEF Continue, SelectUnused, MarkUsed, Mail, VerifyFlush,
     VerifyCommit, RedeemFlush, RedeemLockUser, RedeemCommit, CommitMarks, rows
<1> QED BY <1>2, <1>3 DEF Next, Begin, ResendBegin, ForgotBegin, Present, Abort, Expire,
       Quiescent, vars, rows

LEMMA RedeemedOnceNext ==
    ASSUME TokensInv, OwnLinks, FreshReads, RedeemedOnce, [Next]_vars
    PROVE  RedeemedOnce'
<1> USE DEF TokensInv, TypeOK
<1>1. ASSUME NEW r \in Request, Begin(r) \/ Continue(r) \/ Abort(r), r \in Presenter => pc'[r] # "done"
      PROVE  RedeemedOnce'
  BY <1>1, OthersStay DEF RedeemedOnce, Request
<1>2. ASSUME NEW r \in Presenter,
             \/ r \in Verify /\ VerifyCommit(r)
             \/ r \in Redeem /\ RedeemCommit(r)
      PROVE  RedeemedOnce'
  <2>1. link' = link /\ link[r] \in Link /\ link[r] \notin used
    BY <1>2, RedeemSimulates DEF VerifyCommit, RedeemCommit, FreshReads, InFlight
  <2>2. \A q \in Presenter : pc[q] = "done" => link[q] # link[r]
    BY <2>1 DEF RedeemedIsUsed, Redeemed
  <2>3. \A q \in Presenter : q # r => pc'[q] = pc[q]
    BY <1>2 DEF VerifyCommit, RedeemCommit, Go, Request
  <2> QED BY <2>1, <2>2, <2>3 DEF RedeemedOnce
<1>3. ASSUME NEW r \in Request, Begin(r) \/ Abort(r) PROVE RedeemedOnce'
  BY <1>1, <1>3 DEF Begin, ResendBegin, ForgotBegin, Present, Abort, Go
<1>4. ASSUME NEW r \in Request, Continue(r) PROVE RedeemedOnce'
  <2>1. CASE r \in Link
    BY <1>1, <1>4, <2>1, KindsDisjoint
  <2>2. CASE (r \in Verify /\ VerifyCommit(r)) \/ (r \in Redeem /\ RedeemCommit(r))
    BY <1>2, <2>2 DEF Presenter
  <2>3. CASE VerifyFlush(r) \/ RedeemFlush(r) \/ RedeemLockUser(r)
    BY <1>1, <1>4, <2>3 DEF VerifyFlush, RedeemFlush, RedeemLockUser, Go
  <2> QED BY <1>4, <2>1, <2>2, <2>3 DEF Continue
<1>5. UNCHANGED <<pc, link>> => RedeemedOnce'
  BY DEF RedeemedOnce
<1> QED BY <1>3, <1>4, <1>5 DEF Next, Expire, Quiescent, vars

LEMMA SerialInvNext == SerialInv /\ [SerialNext]_vars => SerialInv'
<1> SUFFICES ASSUME SerialInv, [SerialNext]_vars PROVE SerialInv'
  OBVIOUS
<1>1. [Next]_vars
  BY SerialIsNext
<1>2. TokensInv' /\ OwnLinks'
  BY <1>1, NextInv, OwnLinksNext DEF SerialInv
<1>3. Alone' /\ FreshReads'
  BY AloneNext, FreshNext DEF SerialInv
<1>4. OneActiveLink' /\ RedeemedOnce'
  BY <1>1, OneActiveNext, RedeemedOnceNext DEF SerialInv
<1> QED BY <1>2, <1>3, <1>4 DEF SerialInv

\* Each commit is what the strict register does.
LEMMA StrictSimulates ==
    SerialInv /\ [SerialNext]_vars => [Register!StrictNext]_(Register!register)
<1> SUFFICES ASSUME SerialInv, [SerialNext]_vars
             PROVE  [Register!StrictNext]_(Register!register)
  OBVIOUS
<1> USE DEF SerialInv
<1>1. [Next]_vars
  BY SerialIsNext
<1>2. ASSUME NEW r \in Link, IssueCommit(r) PROVE Register!StrictNext
  <2>1. PICK u \in User : u = user[r] /\ Register!Issue(r, u)
    BY <1>2, IssueSimulates
  <2>2. (Committed \ used)' = ((Committed \ used) \ targets[r]) \cup {r}
    BY <1>2, IssueSimulates
  <2>3. targets[r] = Active(r, u) /\ (r \in Resend => u \notin verified)
    BY <1>2, <2>1 DEF FreshReads, IssueCommit
  <2>4. Active(r, u) = Register!Replaceable(r, u)
    <3>1. \A t \in Committed : t \in Link /\ (SameTable(t, r) <=> (t \in Resend <=> r \in Resend))
      BY CommittedAreLinks, KindsDisjoint DEF SameTable, Link, Presenter, TokensInv
    <3> QED BY <3>1 DEF Active, Register!Replaceable
  <2>5. (Committed \ used)' = ((Committed \ used) \ Register!Replaceable(r, u)) \cup {r}
    BY <2>2, <2>3, <2>4
  <2> QED BY <2>1, <2>3, <2>5 DEF Register!StrictNext, Register!Link, Link
<1>3. ASSUME NEW r \in Presenter, pc[r] \in InFlight PROVE link[r] \in Committed => link[r] \in Committed \ used
  BY <1>3 DEF FreshReads
<1>4. ASSUME NEW r \in Verify, VerifyCommit(r) PROVE Register!StrictNext
  <2>1. r \in Presenter /\ pc[r] \in InFlight
    BY <1>4 DEF Presenter, VerifyCommit, InFlight
  <2>2. PICK t \in Resend : t = link[r] /\ Register!VerifyAddress(t)
    BY <1>4, <2>1, RedeemSimulates
  <2>3. t \in Committed \ used
    BY <1>3, <1>4, <2>1, <2>2, RedeemSimulates
  <2> QED BY <2>2, <2>3 DEF Register!StrictNext
<1>5. ASSUME NEW r \in Redeem, RedeemCommit(r) PROVE Register!StrictNext
  <2>1. r \in Presenter /\ pc[r] \in InFlight
    BY <1>5 DEF Presenter, RedeemCommit, InFlight
  <2>2. PICK t \in Forgot : t = link[r] /\ Register!SetPassword(t, r)
    BY <1>5, <2>1, RedeemSimulates
  <2>3. t \in Committed \ used
    BY <1>3, <1>5, <2>1, <2>2, RedeemSimulates
  <2> QED BY <2>2, <2>3 DEF Register!StrictNext
<1>6. \/ UNCHANGED Register!register
      \/ \E r \in Link : IssueCommit(r)
      \/ \E r \in Verify : VerifyCommit(r)
      \/ \E r \in Redeem : RedeemCommit(r)
  BY <1>1, StepKinds
<1> QED BY <1>2, <1>4, <1>5, <1>6

\* One at a time, the requests keep the invariant.
THEOREM SerialInvariant == SerialSpec => []SerialInv
BY SerialInit, SerialInvNext, PTL DEF SerialSpec

\* OneActiveLink, as create_verification_token says: without overlap a user
\* has at most one link of each table to redeem.
THEOREM OneLinkActive == SerialSpec => []OneActiveLink
BY SerialInvariant, PTL DEF SerialInv

\* RedeemedOnce, as the routes say: without overlap no two requests are
\* answered for the same link.
THEOREM SingleUse == SerialSpec => []RedeemedOnce
BY SerialInvariant, PTL DEF SerialInv

\* ImplementsStrictRegister: without overlap the two tables are the register
\* one would expect.
THEOREM StrictRefinement == SerialSpec => ImplementsStrictRegister
BY RegisterInit, SerialInvariant, StrictSimulates, PTL
   DEF SerialSpec, ImplementsStrictRegister, Register!StrictSpec
=============================================================================
