---------------------------- MODULE AccountsProofs ----------------------------
(***************************************************************************)
(* Accounts: its type invariant and its safety properties, for any sets of  *)
(* requests, addresses and identities.                                      *)
(***************************************************************************)
EXTENDS Accounts, FiniteSetTheorems, TLAPS

-----------------------------------------------------------------------------
(* The inductive invariant.                                                 *)

\* The kinds of requests: one table each.
SameKind(p, q) ==
    \/ p \in Maker /\ q \in Maker
    \/ p \in Join /\ q \in Join
    \/ p \in Subscribe /\ q \in Subscribe

\* What a request carries: nothing before it starts, then its address and,
\* for a callback, its identity.
Carries ==
    /\ \A r \in Request : pc[r] # "idle" => typed[r] \in Email
    /\ \A r \in Callback : pc[r] # "idle" => identity[r] \in Identity

\* A row is there from the commit of the request that inserts it, which never
\* starts again; the rows of links go with those of accounts.
RowsStay ==
    /\ \A r \in rows \cap Maker : pc[r] \in {"owner", "done", "cut"} /\ account[r] = r
    /\ \A r \in rows \cap Lister : pc[r] = "done"
    /\ emailLinks = rows \cap Signup
    /\ ssoLinks = rows \cap Callback

\* The account of a request: its own from the INSERT on, or one that its
\* identity is linked to.
ActsOn ==
    \A r \in Maker :
        /\ pc[r] = "inserted" => account[r] = r
        /\ pc[r] \in {"owner", "done", "cut"} =>
              /\ account[r] \in rows
              /\ r \in Signup => account[r] = r
              /\ r \in Callback =>
                    account[r] \in Callback /\ identity[account[r]] = identity[r]

\* Tokens belong to requests that are over.
TokensOfDone == \A r \in tokens : pc[r] = "done"

SameAddress(p, q) == Stored(p, typed[p]) = Stored(q, typed[q])

\* The unique index: one row for an address in each table, and while an INSERT
\* of an account is not over no row and no other INSERT of its address.
Unique ==
    /\ \A p, q \in rows :
          SameKind(p, q) /\ SameAddress(p, q) => p = q
    /\ \A p \in Maker : pc[p] = "inserted" =>
          /\ \A q \in rows \cap Maker : ~ SameAddress(p, q)
          /\ \A q \in Maker : pc[q] = "inserted" /\ SameAddress(p, q) => p = q

\* A callback about to make an account has the address its profile has still,
\* and so has the account, if any, that another callback of this identity has
\* made meanwhile - unless the address has changed during a callback.
FreshProfile ==
    \A r \in Callback : pc[r] \in Linking /\ identity[r] \notin moved =>
        /\ typed[r] = mail[identity[r]]
        /\ \A a \in rows \cap Callback :
              identity[a] = identity[r] => typed[a] = typed[r]

OneAccount ==
    \A a, b \in rows \cap Callback :
        identity[a] = identity[b] /\ identity[a] \notin moved => a = b

\* TurnedAwayForAReason, in terms of SameKind and SameAddress.
SeveralLinks(r) ==
    /\ r \in Callback /\ identity[r] \in moved
    /\ \E a, b \in rows \cap Callback :
          a # b /\ identity[a] = identity[r] /\ identity[b] = identity[r]

Reasons ==
    \A r \in Request :
        pc[r] \in {"refused", "failed"} =>
            \/ \E q \in rows \ {r} : SameKind(q, r) /\ SameAddress(q, r)
            \/ SeveralLinks(r)

AccountsInv ==
    /\ TypeOK /\ Carries /\ RowsStay /\ ActsOn /\ TokensOfDone
    /\ Unique /\ FreshProfile /\ OneAccount /\ Reasons

-----------------------------------------------------------------------------
(* Tables.                                                                  *)

\* Two requests insert into the same table exactly if they are of one kind.
LEMMA Tables ==
    ASSUME NEW p \in Request, NEW q \in Request
    PROVE  SameTable(p) = SameTable(q) <=> SameKind(p, q)
<1>1. ASSUME NEW r \in Request
      PROVE  r \in SameTable(r) /\ SameTable(r) \in {Maker, Join, Subscribe}
  BY KindsDisjoint DEF SameTable, Request, Maker, Lister
<1>2. ASSUME NEW k \in {Maker, Join, Subscribe}, NEW l \in {Maker, Join, Subscribe},
             NEW r \in Request, r \in k, r \in l
      PROVE  k = l
  BY <1>2, KindsDisjoint DEF Maker, Lister
<1>3. CASE SameKind(p, q)
  BY <1>1, <1>2, <1>3 DEF SameKind
<1>4. CASE SameTable(p) = SameTable(q)
  BY <1>1, <1>2, <1>4 DEF SameKind
<1> QED BY <1>3, <1>4

\* What the SELECT for an address finds.
LEMMA Finds ==
    ASSUME TypeOK, NEW r \in Request, NEW e, NEW q
    PROVE  q \in Registered(r, e) <=>
              q \in rows /\ SameKind(q, r) /\ Stored(q, typed[q]) = Stored(r, e)
<1>1. q \in Registered(r, e) <=>
         q \in rows /\ q \in SameTable(r) /\ Stored(q, typed[q]) = Stored(r, e)
  BY DEF Registered
<1>2. ASSUME q \in rows PROVE q \in SameTable(r) <=> SameKind(q, r)
  <2>1. q \in Request
    BY <1>2 DEF TypeOK
  <2>2. r \in SameTable(r) /\ SameTable(r) \in {Maker, Join, Subscribe}
    BY KindsDisjoint DEF SameTable, Request, Maker, Lister
  <2> QED BY <2>1, <2>2, KindsDisjoint DEF SameKind, Maker, Lister
<1> QED BY <1>1, <1>2

\* Nobody's address is registered twice.
LEMMA Free ==
    ASSUME TypeOK, NEW r \in Request, Registered(r, typed[r]) = {},
           NEW q \in rows, SameKind(q, r)
    PROVE  ~ SameAddress(q, r)
BY Finds DEF SameAddress

\* An address that is turned away is in the table.
LEMMA Met ==
    ASSUME TypeOK, NEW r \in Request, r \notin rows, NEW e \in Email, Registered(r, e) # {}
    PROVE  \E q \in rows \ {r} :
              SameKind(q, r) /\ Stored(q, typed[q]) = Stored(r, e)
BY Finds

\* A profile that comes back from Google is unknown, or it leads to an account
\* of its identity, or there are several links.
LEMMA LinkFinds ==
    ASSUME AccountsInv, NEW r \in Callback, SelectLink(r)
    PROVE  \E i \in Identity :
             /\ pc[r] = "idle"
             /\ identity' = [identity EXCEPT ![r] = i]
             /\ typed' = [typed EXCEPT ![r] = mail[i]]
             /\ UNCHANGED <<google, tables>>
             /\ \/ /\ \A a \in rows \cap Callback : identity[a] # i
                   /\ Go(r, "unlinked") /\ UNCHANGED account
                \/ \E l \in rows \cap Callback :
                   /\ identity[l] = i /\ Go(r, "owner")
                   /\ account' = [account EXCEPT ![r] = l]
                \/ /\ Go(r, "failed") /\ UNCHANGED account /\ i \in moved
                   /\ \E a, b \in rows \cap Callback :
                         a # b /\ identity[a] = i /\ identity[b] = i
<1>1. PICK i \in Identity :
         /\ pc[r] = "idle"
         /\ identity' = [identity EXCEPT ![r] = i]
         /\ typed' = [typed EXCEPT ![r] = mail[i]]
         /\ UNCHANGED <<google, tables>>
         /\ CASE LinksOf(i) = {} -> Go(r, "unlinked") /\ UNCHANGED account
              [] Cardinality(LinksOf(i)) = 1 ->
                   /\ \E l \in LinksOf(i) : account' = [account EXCEPT ![r] = account[l]]
                   /\ Go(r, "owner")
              [] OTHER -> Go(r, "failed") /\ UNCHANGED account
  BY Zenon DEF SelectLink
<1>2. LinksOf(i) = {l \in rows \cap Callback : identity[l] = i}
  BY DEF LinksOf, AccountsInv, RowsStay
<1>3. CASE LinksOf(i) = {}
  <2>1. Go(r, "unlinked") /\ UNCHANGED account
    BY <1>1, <1>3, FS_EmptySet
  <2> QED BY <1>1, <1>2, <1>3, <2>1
<1>4. CASE LinksOf(i) # {} /\ Cardinality(LinksOf(i)) = 1
  <2>1. Go(r, "owner")
    BY <1>1, <1>4
  <2>2. PICK l \in LinksOf(i) : account' = [account EXCEPT ![r] = account[l]]
    BY <1>1, <1>4
  <2>3. l \in rows \cap Callback /\ identity[l] = i /\ account[l] = l
    BY <1>2 DEF AccountsInv, RowsStay, Maker
  <2> QED BY <1>1, <2>1, <2>2, <2>3
<1>5. CASE LinksOf(i) # {} /\ Cardinality(LinksOf(i)) # 1
  <2>1. Go(r, "failed") /\ UNCHANGED account
    BY <1>1, <1>5
  <2>2. PICK a \in LinksOf(i) : TRUE
    BY <1>5
  <2>3. LinksOf(i) # {a}
    BY <1>5, FS_Singleton
  <2>4. PICK b \in LinksOf(i) : b # a
    BY <2>2, <2>3
  <2>5. i \in moved
    BY <1>2, <2>2, <2>4 DEF AccountsInv, OneAccount
  <2> QED BY <1>1, <1>2, <2>1, <2>2, <2>4, <2>5
<1> QED BY <1>3, <1>4, <1>5

-----------------------------------------------------------------------------
(* The steps: every action preserves every part of the invariant.           *)

LEMMA CheckEmailInv ==
    ASSUME AccountsInv, NEW r \in Signup \cup Lister, CheckEmail(r)
    PROVE  AccountsInv'
<1> USE DEF google, Linking, SeveralLinks
<1>1. TypeOK'
  BY KindsDisjoint, SMTT(20) DEF CheckEmail, AccountsInv, Go, tables, InFlight,
     Ended, Request, Maker, TypeOK
<1>2. Carries'
  BY KindsDisjoint, SMTT(20) DEF CheckEmail, AccountsInv, Go, Carries, TypeOK
<1>3. RowsStay'
  BY KindsDisjoint, SMTT(20) DEF CheckEmail, AccountsInv, Go, tables, RowsStay
<1>4. ActsOn'
  BY KindsDisjoint, SMTT(20) DEF CheckEmail, AccountsInv, Go, tables, ActsOn
<1>5. TokensOfDone'
  BY KindsDisjoint, SMTT(20) DEF CheckEmail, AccountsInv, Go, tables,
     TokensOfDone
<1>6. Unique'
  BY KindsDisjoint, SMTT(20) DEF CheckEmail, AccountsInv, Go, tables, Maker,
     Unique, SameAddress, RowsStay
<1>7. FreshProfile'
  BY KindsDisjoint, SMTT(20) DEF CheckEmail, AccountsInv, Go, tables,
     FreshProfile
<1>8. OneAccount'
  BY KindsDisjoint, SMTT(20) DEF CheckEmail, AccountsInv, tables, OneAccount
<1>9. Reasons'
  BY KindsDisjoint, Met, SMTT(20) DEF CheckEmail, AccountsInv, Go, tables,
     Request, Reasons, SameAddress, TypeOK, RowsStay
<1> QED BY <1>1, <1>2, <1>3, <1>4, <1>5, <1>6, <1>7, <1>8, <1>9 DEF AccountsInv

LEMMA SelectLinkInv ==
    ASSUME AccountsInv, NEW r \in Callback, SelectLink(r)
    PROVE  AccountsInv'
<1> USE DEF google, Linking, SeveralLinks
<1>1. TypeOK'
  BY KindsDisjoint, LinkFinds, SMTT(20) DEF AccountsInv, Go, tables, InFlight,
     Request, TypeOK
<1>2. Carries'
  BY KindsDisjoint, LinkFinds, SMTT(20) DEF AccountsInv, Go, Request, Maker,
     Carries, TypeOK
<1>3. RowsStay'
  BY KindsDisjoint, LinkFinds, SMTT(20) DEF AccountsInv, Go, tables, RowsStay,
     TypeOK
<1>4. ActsOn'
  BY KindsDisjoint, LinkFinds, SMTT(20) DEF AccountsInv, Go, tables, Request,
     ActsOn, TypeOK, RowsStay
<1>5. TokensOfDone'
  BY KindsDisjoint, LinkFinds, SMTT(20) DEF AccountsInv, Go, tables, Request,
     TokensOfDone, TypeOK
<1>6. Unique'
  BY KindsDisjoint, LinkFinds, SMTT(20) DEF AccountsInv, Go, tables, Request,
     Unique, SameAddress, TypeOK, RowsStay
<1>7. FreshProfile'
  BY KindsDisjoint, LinkFinds, SMTT(20) DEF AccountsInv, Go, tables, Request,
     Maker, FreshProfile, TypeOK
<1>8. OneAccount'
  BY KindsDisjoint, LinkFinds, SMTT(20) DEF AccountsInv, tables, Request,
     OneAccount, TypeOK, RowsStay
<1>9. Reasons'
  BY KindsDisjoint, LinkFinds, SMTT(20) DEF AccountsInv, Go, tables, Request,
     Reasons, SameAddress, TypeOK, RowsStay
<1> QED BY <1>1, <1>2, <1>3, <1>4, <1>5, <1>6, <1>7, <1>8, <1>9 DEF AccountsInv

LEMMA SelectUserInv ==
    ASSUME AccountsInv, NEW r \in Callback, SelectUser(r)
    PROVE  AccountsInv'
<1> USE DEF google, Linking, SeveralLinks
<1>1. TypeOK'
  BY KindsDisjoint, SMTT(20) DEF SelectUser, AccountsInv, Go, tables, InFlight,
     Ended, Request, Maker, TypeOK
<1>2. Carries'
  BY KindsDisjoint, SMTT(20) DEF SelectUser, AccountsInv, Go, Carries
<1>3. RowsStay'
  BY KindsDisjoint, SMTT(20) DEF SelectUser, AccountsInv, Go, tables, RowsStay
<1>4. ActsOn'
  BY KindsDisjoint, SMTT(20) DEF SelectUser, AccountsInv, Go, tables, ActsOn
<1>5. TokensOfDone'
  BY KindsDisjoint, SMTT(20) DEF SelectUser, AccountsInv, Go, tables,
     TokensOfDone
<1>6. Unique'
  BY KindsDisjoint, SMTT(20) DEF SelectUser, AccountsInv, Go, tables, Unique,
     SameAddress
<1>7. FreshProfile'
  BY KindsDisjoint, SMTT(20) DEF SelectUser, AccountsInv, Go, tables, InFlight,
     FreshProfile
<1>8. OneAccount'
  BY KindsDisjoint, SMTT(20) DEF SelectUser, AccountsInv, tables, OneAccount
<1>9. Reasons'
  BY KindsDisjoint, Met, SMTT(20) DEF SelectUser, AccountsInv, Go, tables,
     Request, Reasons, SameAddress, RowsStay, Carries
<1> QED BY <1>1, <1>2, <1>3, <1>4, <1>5, <1>6, <1>7, <1>8, <1>9 DEF AccountsInv

LEMMA InsertUserInv ==
    ASSUME AccountsInv, NEW r \in Maker, InsertUser(r)
    PROVE  AccountsInv'
<1> USE DEF google, Linking, SeveralLinks
<1>1. TypeOK'
  BY KindsDisjoint, SMTT(20) DEF InsertUser, AccountsInv, Go, tables, InFlight,
     TypeOK
<1>2. Carries'
  BY KindsDisjoint, SMTT(20) DEF InsertUser, AccountsInv, Go, Request, Maker,
     Carries, TypeOK
<1>3. RowsStay'
  BY KindsDisjoint, SMTT(20) DEF InsertUser, AccountsInv, Go, tables, RowsStay,
     TypeOK
<1>4. ActsOn'
  BY KindsDisjoint, SMTT(20) DEF InsertUser, AccountsInv, Go, tables, Request,
     ActsOn, TypeOK
<1>5. TokensOfDone'
  BY KindsDisjoint, SMTT(20) DEF InsertUser, AccountsInv, Go, tables, Request,
     TokensOfDone, TypeOK
<1>6. Unique'
  BY KindsDisjoint, Free, SMTT(20) DEF InsertUser, Taking, AccountsInv, Go,
     tables, Request, Unique, SameKind, SameAddress, TypeOK
<1>7. FreshProfile'
  BY KindsDisjoint, SMTT(20) DEF InsertUser, AccountsInv, Go, tables, InFlight,
     Request, Maker, FreshProfile, TypeOK
<1>8. OneAccount'
  BY KindsDisjoint, SMTT(20) DEF InsertUser, AccountsInv, tables, OneAccount
<1>9. Reasons'
  BY KindsDisjoint, Met, SMTT(20) DEF InsertUser, AccountsInv, Go, tables,
     Reasons, SameAddress, TypeOK, RowsStay, Carries
<1> QED BY <1>1, <1>2, <1>3, <1>4, <1>5, <1>6, <1>7, <1>8, <1>9 DEF AccountsInv

LEMMA CommitSignupInv ==
    ASSUME AccountsInv, NEW r \in Signup, CommitSignup(r)
    PROVE  AccountsInv'
<1> USE DEF google, Linking, SeveralLinks
<1>1. TypeOK'
  BY KindsDisjoint, SMTT(20) DEF CommitSignup, AccountsInv, Go, InFlight,
     Request, Maker, TypeOK, ActsOn
<1>2. Carries'
  BY KindsDisjoint, SMTT(20) DEF CommitSignup, AccountsInv, Go, Carries
<1>3. RowsStay'
  BY KindsDisjoint, SMTT(20) DEF CommitSignup, AccountsInv, Go, Request, Maker,
     RowsStay, TypeOK, ActsOn
<1>4. ActsOn'
  BY KindsDisjoint, SMTT(20) DEF CommitSignup, AccountsInv, Go, ActsOn
<1>5. TokensOfDone'
  BY KindsDisjoint, SMTT(20) DEF CommitSignup, AccountsInv, Go, TokensOfDone
<1>6. Unique'
  BY KindsDisjoint, SMTT(20) DEF CommitSignup, AccountsInv, Go, Request, Lister,
     Maker, Unique, SameKind, SameAddress, TypeOK, ActsOn
<1>7. FreshProfile'
  BY KindsDisjoint, SMTT(20) DEF CommitSignup, AccountsInv, Go, Maker,
     FreshProfile, ActsOn
<1>8. OneAccount'
  BY KindsDisjoint, SMTT(20) DEF CommitSignup, AccountsInv, Maker, OneAccount,
     ActsOn
<1>9. Reasons'
  BY KindsDisjoint, SMTT(20) DEF CommitSignup, AccountsInv, Go, Reasons,
     SameAddress
<1> QED BY <1>1, <1>2, <1>3, <1>4, <1>5, <1>6, <1>7, <1>8, <1>9 DEF AccountsInv

LEMMA CommitCallbackInv ==
    ASSUME AccountsInv, NEW r \in Callback, CommitCallback(r)
    PROVE  AccountsInv'
<1> USE DEF google, Linking, SeveralLinks
<1>1. TypeOK'
  BY KindsDisjoint, SMTT(20) DEF CommitCallback, AccountsInv, Go, InFlight,
     Request, Maker, TypeOK, ActsOn
<1>2. Carries'
  BY KindsDisjoint, SMTT(20) DEF CommitCallback, AccountsInv, Go, Carries
<1>3. RowsStay'
  BY KindsDisjoint, SMTT(20) DEF CommitCallback, AccountsInv, Go, Request,
     Maker, RowsStay, TypeOK, ActsOn
<1>4. ActsOn'
  BY KindsDisjoint, SMTT(20) DEF CommitCallback, AccountsInv, Go, ActsOn
<1>5. TokensOfDone'
  BY KindsDisjoint, SMTT(20) DEF CommitCallback, AccountsInv, Go, TokensOfDone
<1>6. Unique'
  BY KindsDisjoint, SMTT(20) DEF CommitCallback, AccountsInv, Go, Request,
     Lister, Maker, Unique, SameKind, SameAddress, TypeOK, ActsOn
<1>7. FreshProfile'
  BY KindsDisjoint, SMTT(20) DEF CommitCallback, AccountsInv, Go, InFlight,
     Maker, FreshProfile, ActsOn
<1>8. OneAccount'
  BY KindsDisjoint, SMTT(20) DEF CommitCallback, Unique, SameAddress, Stored,
     AccountsInv, InFlight, Lister, Maker, OneAccount, FreshProfile, ActsOn
<1>9. Reasons'
  BY KindsDisjoint, SMTT(20) DEF CommitCallback, AccountsInv, Go, Reasons,
     SameAddress
<1> QED BY <1>1, <1>2, <1>3, <1>4, <1>5, <1>6, <1>7, <1>8, <1>9 DEF AccountsInv

LEMMA CommitTokenInv ==
    ASSUME AccountsInv, NEW r \in Maker, CommitToken(r)
    PROVE  AccountsInv'
<1> USE DEF google, Linking, SeveralLinks
<1>1. TypeOK'
  BY KindsDisjoint, SMTT(20) DEF CommitToken, AccountsInv, Go, Ended, Request,
     TypeOK
<1>2. Carries'
  BY KindsDisjoint, SMTT(20) DEF CommitToken, AccountsInv, Go, Carries
<1>3. RowsStay'
  BY KindsDisjoint, SMTT(20) DEF CommitToken, AccountsInv, Go, RowsStay
<1>4. ActsOn'
  BY KindsDisjoint, SMTT(20) DEF CommitToken, AccountsInv, Go, ActsOn
<1>5. TokensOfDone'
  BY KindsDisjoint, SMTT(20) DEF CommitToken, AccountsInv, Go, Request,
     TokensOfDone, TypeOK
<1>6. Unique'
  BY KindsDisjoint, SMTT(20) DEF CommitToken, AccountsInv, Go, Unique,
     SameAddress
<1>7. FreshProfile'
  BY KindsDisjoint, SMTT(20) DEF CommitToken, AccountsInv, Go, InFlight,
     FreshProfile
<1>8. OneAccount'
  BY KindsDisjoint, SMTT(20) DEF CommitToken, AccountsInv, OneAccount
<1>9. Reasons'
  BY KindsDisjoint, SMTT(20) DEF CommitToken, AccountsInv, Go, Reasons,
     SameAddress
<1> QED BY <1>1, <1>2, <1>3, <1>4, <1>5, <1>6, <1>7, <1>8, <1>9 DEF AccountsInv

LEMMA CommitListingInv ==
    ASSUME AccountsInv, NEW r \in Lister, CommitListing(r)
    PROVE  AccountsInv'
<1> USE DEF google, Linking, SeveralLinks
<1>1. TypeOK'
  BY KindsDisjoint, SMTT(20) DEF CommitListing, AccountsInv, Go, Ended, Request,
     TypeOK
<1>2. Carries'
  BY KindsDisjoint, SMTT(20) DEF CommitListing, AccountsInv, Go, Request, Maker,
     Carries, TypeOK
<1>3. RowsStay'
  BY KindsDisjoint, SMTT(20) DEF CommitListing, AccountsInv, Go, Request, Maker,
     RowsStay, TypeOK
<1>4. ActsOn'
  BY KindsDisjoint, SMTT(20) DEF CommitListing, AccountsInv, Go, Request, Maker,
     ActsOn, TypeOK
<1>5. TokensOfDone'
  BY KindsDisjoint, SMTT(20) DEF CommitListing, AccountsInv, Go, Request,
     TokensOfDone, TypeOK
<1>6. Unique'
  BY KindsDisjoint, Free, SMTT(20) DEF CommitListing, AccountsInv, Go, Request,
     Maker, Unique, SameKind, SameAddress, TypeOK
<1>7. FreshProfile'
  BY KindsDisjoint, SMTT(20) DEF CommitListing, AccountsInv, Go, Request, Maker,
     FreshProfile, TypeOK
<1>8. OneAccount'
  BY KindsDisjoint, SMTT(20) DEF CommitListing, AccountsInv, OneAccount
<1>9. Reasons'
  BY KindsDisjoint, Met, SMTT(20) DEF CommitListing, AccountsInv, Go, Reasons,
     SameAddress, TypeOK, RowsStay, Carries
<1> QED BY <1>1, <1>2, <1>3, <1>4, <1>5, <1>6, <1>7, <1>8, <1>9 DEF AccountsInv

LEMMA AgainInv ==
    ASSUME AccountsInv, NEW r \in Request, Again(r)
    PROVE  AccountsInv'
<1> USE DEF google, Linking, SeveralLinks
<1>1. TypeOK'
  BY KindsDisjoint, SMTT(20) DEF Again, AccountsInv, Go, tables, Ended, TypeOK
<1>2. Carries'
  BY KindsDisjoint, SMTT(20) DEF Again, AccountsInv, Go, InFlight, Request,
     Maker, Carries, TypeOK
<1>3. RowsStay'
  BY KindsDisjoint, SMTT(20) DEF Again, AccountsInv, Go, tables, InFlight,
     RowsStay, TypeOK
<1>4. ActsOn'
  BY KindsDisjoint, SMTT(20) DEF Again, AccountsInv, Go, tables, Request,
     ActsOn, TypeOK, RowsStay
<1>5. TokensOfDone'
  BY KindsDisjoint, SMTT(20) DEF Again, AccountsInv, Go, tables, InFlight,
     Request, TokensOfDone, TypeOK
<1>6. Unique'
  BY KindsDisjoint, SMTT(20) DEF Again, AccountsInv, Go, tables, Request,
     Unique, SameAddress, TypeOK
<1>7. FreshProfile'
  BY KindsDisjoint, SMTT(20) DEF Again, AccountsInv, Go, tables, InFlight,
     Request, Maker, FreshProfile, TypeOK
<1>8. OneAccount'
  BY KindsDisjoint, SMTT(20) DEF Again, AccountsInv, tables, OneAccount
<1>9. Reasons'
  BY KindsDisjoint, SMTT(20) DEF Again, AccountsInv, Go, tables, Reasons,
     SameAddress, TypeOK
<1> QED BY <1>1, <1>2, <1>3, <1>4, <1>5, <1>6, <1>7, <1>8, <1>9 DEF AccountsInv

LEMMA ChangeMailInv ==
    ASSUME AccountsInv, NEW r \in Movable, ChangeMail(r)
    PROVE  AccountsInv'
<1> USE DEF google, Linking, SeveralLinks
<1>1. TypeOK'
  BY KindsDisjoint, MovableAreSome, SMTT(20) DEF ChangeMail, AccountsInv, tables, TypeOK
<1>2. Carries'
  BY KindsDisjoint, SMTT(20) DEF ChangeMail, AccountsInv, Carries
<1>3. RowsStay'
  BY KindsDisjoint, SMTT(20) DEF ChangeMail, AccountsInv, tables, RowsStay
<1>4. ActsOn'
  BY KindsDisjoint, SMTT(20) DEF ChangeMail, AccountsInv, tables, ActsOn
<1>5. TokensOfDone'
  BY KindsDisjoint, SMTT(20) DEF ChangeMail, AccountsInv, tables, TokensOfDone
<1>6. Unique'
  BY KindsDisjoint, SMTT(20) DEF ChangeMail, AccountsInv, tables, Unique,
     SameAddress
<1>7. FreshProfile'
  BY KindsDisjoint, SMTT(20) DEF ChangeMail, AccountsInv, tables, FreshProfile
<1>8. OneAccount'
  BY KindsDisjoint, SMTT(20) DEF ChangeMail, AccountsInv, tables, OneAccount
<1>9. Reasons'
  BY KindsDisjoint, SMTT(20) DEF ChangeMail, AccountsInv, tables, Reasons,
     SameAddress
<1> QED BY <1>1, <1>2, <1>3, <1>4, <1>5, <1>6, <1>7, <1>8, <1>9 DEF AccountsInv

-----------------------------------------------------------------------------
(* The theorems.                                                            *)

LEMMA InitInv == Init => AccountsInv
BY DEF Init, Linking, AccountsInv, TypeOK, Carries, RowsStay, ActsOn, TokensOfDone, Unique,
       FreshProfile, OneAccount, Reasons, Request, Lister, Maker, InFlight, Ended

LEMMA NextInv == AccountsInv /\ [Next]_vars => AccountsInv'
<1> SUFFICES ASSUME AccountsInv, [Next]_vars PROVE AccountsInv'
  OBVIOUS
<1>1. CASE \E r \in Signup :
             CheckEmail(r) \/ InsertUser(r) \/ CommitSignup(r) \/ CommitToken(r)
  BY <1>1, CheckEmailInv, InsertUserInv, CommitSignupInv, CommitTokenInv DEF Maker
<1>2. CASE \E r \in Callback :
             \/ SelectLink(r) \/ SelectUser(r)
             \/ InsertUser(r) \/ CommitCallback(r) \/ CommitToken(r)
  BY <1>2, SelectLinkInv, SelectUserInv, InsertUserInv, CommitCallbackInv,
     CommitTokenInv DEF Maker
<1>3. CASE \E r \in Lister : CheckEmail(r) \/ CommitListing(r)
  BY <1>3, CheckEmailInv, CommitListingInv
<1>4. CASE \E r \in Request : Again(r)
  BY <1>4, AgainInv
<1>5. CASE \E i \in Movable : ChangeMail(i)
  BY <1>5, ChangeMailInv
<1>6. CASE UNCHANGED vars
  BY <1>6 DEF vars, google, tables, SeveralLinks, AccountsInv, TypeOK, Carries, RowsStay, ActsOn,
     TokensOfDone, Unique, FreshProfile, OneAccount, Reasons, SameAddress
<1> QED BY <1>1, <1>2, <1>3, <1>4, <1>5, <1>6 DEF Next, Quiescent

\* All of it at once: type correctness, who acts on which account, the unique
\* index, and what callbacks under way know of each other.
THEOREM InductiveInvariant == Spec => []AccountsInv
<1> QED BY InitInv, NextInv, PTL DEF Spec

\* Type correctness.
THEOREM TypeCorrect == Spec => []TypeOK
<1>1. AccountsInv => TypeOK
  BY DEF AccountsInv
<1> QED BY <1>1, InductiveInvariant, PTL

\* A callback links its identity to, and issues its token for, an account of
\* this identity; a signup issues its token for the account it has made.
THEOREM OwnAccounts == Spec => []OwnAccount
<1>1. AccountsInv => OwnAccount
  BY KindsDisjoint DEF AccountsInv, OwnAccount, TokensOfDone, ActsOn, RowsStay,
     TypeOK, Maker
<1> QED BY <1>1, InductiveInvariant, PTL

\* An identity that has an account has one link, whatever races there were and
\* however its address has changed between callbacks.
THEOREM IdentitiesFound == Spec => []IdentityFindsAccount
<1>1. AccountsInv => IdentityFindsAccount
  <2> SUFFICES ASSUME AccountsInv, NEW a \in rows \cap Callback,
                      identity[a] \notin moved
               PROVE  Cardinality(LinksOf(identity[a])) = 1
    BY DEF IdentityFindsAccount
  <2>1. LinksOf(identity[a]) = {a}
    BY DEF LinksOf, AccountsInv, RowsStay, OneAccount
  <2> QED BY <2>1, FS_Singleton
<1> QED BY <1>1, InductiveInvariant, PTL

\* The account of a signup exists together with a verification link.
THEOREM SignupsHaveLinks == Spec => []SignupHasLink
<1>1. AccountsInv => SignupHasLink
  BY DEF AccountsInv, RowsStay, SignupHasLink
<1> QED BY <1>1, InductiveInvariant, PTL

\* A request turned away meets a committed row with its address, or, if its
\* identity's address has changed during a callback, several links.
THEOREM ReasonsGiven == Spec => []TurnedAwayForAReason
<1>1. AccountsInv => TurnedAwayForAReason
  <2> SUFFICES ASSUME AccountsInv, NEW r \in Request, pc[r] \in {"refused", "failed"}
               PROVE  \/ \E q \in rows \ {r} :
                           /\ SameTable(q) = SameTable(r)
                           /\ IF r \in Join THEN Normal[typed[q]] = Normal[typed[r]]
                                            ELSE typed[q] = typed[r]
                      \/ /\ r \in Callback /\ identity[r] \in moved
                         /\ \E p, q \in LinksOf(identity[r]) : p # q
    BY DEF TurnedAwayForAReason
  <2>1. CASE SeveralLinks(r)
    BY <2>1 DEF SeveralLinks, LinksOf, AccountsInv, RowsStay
  <2>2. CASE \E q \in rows \ {r} : SameKind(q, r) /\ SameAddress(q, r)
    <3>1. PICK q \in rows \ {r} : SameKind(q, r) /\ SameAddress(q, r)
      BY <2>2
    <3>2. SameTable(q) = SameTable(r)
      BY <3>1, Tables DEF AccountsInv, TypeOK
    <3>3. q \in Join <=> r \in Join
      BY <3>1, KindsDisjoint DEF SameKind, Maker, Lister
    <3> QED BY <3>1, <3>2, <3>3 DEF SameAddress, Stored
  <2> QED BY <2>1, <2>2 DEF AccountsInv, Reasons
<1> QED BY <1>1, InductiveInvariant, PTL

\* Spellings of one address join the waitlist once.
THEOREM ListedOnce == Spec => []OnWaitlistOnce
<1>1. AccountsInv => OnWaitlistOnce
  BY DEF AccountsInv, Unique, SameKind, SameAddress, Stored, OnWaitlistOnce
<1> QED BY <1>1, InductiveInvariant, PTL
=============================================================================
