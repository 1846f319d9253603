--------------------------- MODULE WorkspacesProofs ---------------------------
(***************************************************************************)
(* Workspaces: its type invariant, its safety properties and                *)
(* NothingIsHidden, for any sets of users and requests and any page size.   *)
(***************************************************************************)
EXTENDS Workspaces, FiniteSetTheorems, TLAPS

-----------------------------------------------------------------------------
(* The inductive invariant.                                                 *)

\* The four rows of an interview are there from one commit on, which ends its
\* request; the workspace too, if it is new.
WholeInterviews ==
    /\ candidates = {c \in Create : pc[c] = "done"}
    /\ interviews = candidates
    /\ summaries = candidates
    /\ members = {c \in candidates : ws[c] = c}

\* The workspace a request works in is one its user is a member of, or its own.
InOwnWorkspace ==
    \A r \in Workspace \cup Look :
        pc[r] \in {"resolved", "counted", "done"} =>
            ws[r] = r \/ (ws[r] \in members /\ user[ws[r]] = user[r])

\* What has been read is committed, and of the reader's own making.
SeenIsCommitted ==
    \A r \in Request : seen[r] \subseteq interviews

\* What a request has not read yet.
NothingRead ==
    /\ \A r \in Request : pc[r] \in {"idle", "failed", "missing"} => seen[r] = {}
    /\ \A r \in Browse : pc[r] \notin {"counted", "done"} => total[r] = 0

\* Between the two statements of a search its workspace only grows.
CountedAreThere ==
    \A r \in Browse :
        pc[r] = "counted" => total[r] <= Cardinality(InWorkspace(candidates, r))

WorkspacesInv ==
    /\ TypeOK /\ WholeInterviews /\ InOwnWorkspace /\ SeenIsCommitted
    /\ NothingRead /\ CountedAreThere
    /\ SeenIsOwn /\ AnnouncedPageHasRows /\ InterviewIsWhole

-----------------------------------------------------------------------------
(* Numbers.                                                                 *)

\* A page before total_pages starts before the last of the rows counted.
LEMMA PageStart ==
    ASSUME NEW t \in Nat, NEW k \in Nat, k < (t + PageSize - 1) \div PageSize
    PROVE  k * PageSize < t
<1> DEFINE q == (t + PageSize - 1) \div PageSize
<1>1. PageSize \in Nat \ {0}
  BY PageSizeIsPositive
<1>2. q \in Nat /\ q * PageSize <= t + PageSize - 1
  BY <1>1
<1>3. (k + 1) * PageSize <= q * PageSize
  <2>1. k + 1 <= q /\ q \in Nat
    BY <1>2
  <2> HIDE DEF q
  <2> QED BY <1>1, <2>1, SMTT(30)
<1>4. (k + 1) * PageSize = k * PageSize + PageSize
  BY <1>1
<1> QED BY <1>1, <1>2, <1>3, <1>4

\* Such a page has rows, of however many rows there are by then.
LEMMA PageHasRows ==
    ASSUME NEW n \in Nat, NEW k \in Nat, k * PageSize < n
    PROVE  RowsOnPage(k, n) > 0
<1> DEFINE s == k * PageSize
<1>1. s \in Nat /\ s < n /\ PageSize \in Nat \ {0}
  BY PageSizeIsPositive
<1>2. RowsOnPage(k, n) = IF n <= s THEN 0 ELSE Least(PageSize, n - s)
  BY DEF RowsOnPage
<1> HIDE DEF s
<1> QED BY <1>1, <1>2 DEF Least

\* Interviews can be counted.
LEMMA CreateCounted == Cardinality(Create) \in Nat
BY CreateIsFinite, FS_CardinalityType

\* The rows of a workspace can be counted.
LEMMA Countable ==
    ASSUME TypeOK, NEW r \in Request, NEW table, table \subseteq Create
    PROVE  /\ IsFiniteSet(InWorkspace(table, r))
           /\ Cardinality(InWorkspace(table, r)) \in 0..Cardinality(Create)
<1>1. InWorkspace(table, r) \subseteq Create
  BY DEF InWorkspace
<1> QED BY <1>1, CreateIsFinite, FS_Subset, FS_CardinalityType

\* The candidates of a request's workspace stay in it while others go on.
LEMMA OnlyGrows ==
    ASSUME TypeOK, TypeOK', NEW r \in Browse, candidates \subseteq candidates',
           \A c \in candidates \cup {r} : ws'[c] = ws[c]
    PROVE  Cardinality(InWorkspace(candidates, r))
             <= Cardinality(InWorkspace(candidates, r)')
<1>1. InWorkspace(candidates, r) \subseteq InWorkspace(candidates, r)'
  BY DEF InWorkspace
<1>2. IsFiniteSet(InWorkspace(candidates, r)')
  <2>1. InWorkspace(candidates, r)' \subseteq Create
    BY DEF InWorkspace, TypeOK
  <2> QED BY <2>1, CreateIsFinite, FS_Subset
<1> QED BY <1>1, <1>2, FS_Subset

-----------------------------------------------------------------------------
(* The steps: every action preserves every part of the invariant.           *)

LEMMA ResolveInv ==
    ASSUME WorkspacesInv, NEW r \in Workspace \cup Look, Resolve(r)
    PROVE  WorkspacesInv'
<1>1. TypeOK'
  BY KindsDisjoint DEF Resolve, WorkspacesInv, Go, rows, InFlight, Ended,
     Request, Workspace, TypeOK, Memberships
<1>2. WholeInterviews'
  BY KindsDisjoint DEF Resolve, WorkspacesInv, Go, rows, Request,
     WholeInterviews, TypeOK
<1>3. InOwnWorkspace'
  BY KindsDisjoint DEF Resolve, WorkspacesInv, Go, rows, Request, Workspace,
     InOwnWorkspace, WholeInterviews, TypeOK, Memberships
<1>4. SeenIsCommitted'
  BY KindsDisjoint DEF Resolve, WorkspacesInv, rows, SeenIsCommitted
<1>5. NothingRead'
  BY KindsDisjoint DEF Resolve, WorkspacesInv, Go, Request, NothingRead, TypeOK
<1>6. CountedAreThere'
  BY KindsDisjoint DEF Resolve, WorkspacesInv, Go, rows, Request,
     CountedAreThere, WholeInterviews, TypeOK, InWorkspace
<1>7. SeenIsOwn'
  BY KindsDisjoint DEF Resolve, WorkspacesInv, SeenIsOwn, NothingRead,
     SeenIsCommitted, WholeInterviews
<1>8. AnnouncedPageHasRows'
  BY KindsDisjoint DEF Resolve, WorkspacesInv, Go, Request,
     AnnouncedPageHasRows, TotalPages, TypeOK
<1>9. InterviewIsWhole'
  BY KindsDisjoint DEF Resolve, WorkspacesInv, Go, Request, InterviewIsWhole,
     TypeOK
<1> QED BY <1>1, <1>2, <1>3, <1>4, <1>5, <1>6, <1>7, <1>8, <1>9 DEF WorkspacesInv

LEMMA CreateCommitInv ==
    ASSUME WorkspacesInv, NEW r \in Create, CreateCommit(r)
    PROVE  WorkspacesInv'
<1>1. TypeOK'
  BY KindsDisjoint DEF CreateCommit, WorkspacesInv, Go, Ended, Request, TypeOK,
     MakesWorkspace
<1>2. WholeInterviews'
  BY KindsDisjoint DEF CreateCommit, WorkspacesInv, Go, Request,
     WholeInterviews, TypeOK, MakesWorkspace
<1>3. InOwnWorkspace'
  BY KindsDisjoint DEF CreateCommit, WorkspacesInv, Go, InOwnWorkspace
<1>4. SeenIsCommitted'
  BY KindsDisjoint DEF CreateCommit, WorkspacesInv, SeenIsCommitted
<1>5. NothingRead'
  BY KindsDisjoint DEF CreateCommit, WorkspacesInv, Go, NothingRead
<1>6. CountedAreThere'
  <2> SUFFICES ASSUME NEW q \in Browse, pc'[q] = "counted"
               PROVE  total'[q] <= Cardinality(InWorkspace(candidates, q)')
    BY DEF CountedAreThere
  <2>1. total'[q] <= Cardinality(InWorkspace(candidates, q))
    BY KindsDisjoint DEF CreateCommit, Go, WorkspacesInv, CountedAreThere
  <2>2. Cardinality(InWorkspace(candidates, q))
          <= Cardinality(InWorkspace(candidates, q)')
    BY <1>1, OnlyGrows DEF CreateCommit, WorkspacesInv
  <2>3. /\ Cardinality(InWorkspace(candidates, q)) \in Nat
        /\ Cardinality(InWorkspace(candidates, q)') \in Nat
    <3>1. /\ InWorkspace(candidates, q) \subseteq Create
          /\ InWorkspace(candidates, q)' \subseteq Create
      BY <1>1 DEF InWorkspace, WorkspacesInv, TypeOK
    <3> QED BY <3>1, CreateIsFinite, FS_Subset, FS_CardinalityType
  <2>4. total'[q] \in Nat
    BY <1>1, CreateCounted DEF TypeOK
  <2> QED BY <2>1, <2>2, <2>3, <2>4
<1>7. SeenIsOwn'
  BY KindsDisjoint DEF CreateCommit, WorkspacesInv, SeenIsOwn
<1>8. AnnouncedPageHasRows'
  BY KindsDisjoint DEF CreateCommit, WorkspacesInv, Go, AnnouncedPageHasRows,
     TotalPages
<1>9. InterviewIsWhole'
  BY KindsDisjoint DEF CreateCommit, WorkspacesInv, Go, InterviewIsWhole
<1> QED BY <1>1, <1>2, <1>3, <1>4, <1>5, <1>6, <1>7, <1>8, <1>9 DEF WorkspacesInv

LEMMA SearchCountInv ==
    ASSUME WorkspacesInv, NEW r \in Browse, SearchCount(r)
    PROVE  WorkspacesInv'
<1>1. TypeOK'
  <2>1. Counted(r) \in 0..Cardinality(Create)
    BY Countable DEF Counted, WorkspacesInv, WholeInterviews, Request
  <2> QED BY <2>1 DEF SearchCount, Go, rows, WorkspacesInv, TypeOK, InFlight
<1>2. WholeInterviews'
  BY KindsDisjoint DEF SearchCount, WorkspacesInv, Go, rows, WholeInterviews
<1>3. InOwnWorkspace'
  BY KindsDisjoint DEF SearchCount, WorkspacesInv, Go, rows, InOwnWorkspace
<1>4. SeenIsCommitted'
  BY KindsDisjoint DEF SearchCount, WorkspacesInv, rows, SeenIsCommitted
<1>5. NothingRead'
  BY KindsDisjoint DEF SearchCount, WorkspacesInv, Go, Request, NothingRead,
     TypeOK
<1>6. CountedAreThere'
  <2> SUFFICES ASSUME NEW q \in Browse, pc'[q] = "counted"
               PROVE  total'[q] <= Cardinality(InWorkspace(candidates, q)')
    BY DEF CountedAreThere
  <2>1. Cardinality(InWorkspace(candidates, q)) \in Nat
    BY Countable DEF WorkspacesInv, WholeInterviews, Request
  <2>2. InWorkspace(candidates, q)' = InWorkspace(candidates, q)
    BY DEF InWorkspace, SearchCount, rows
  <2>3. CASE q = r
    BY <2>1, <2>2, <2>3 DEF SearchCount, Counted, WorkspacesInv, TypeOK
  <2>4. CASE q # r
    BY <2>2, <2>4 DEF SearchCount, Go, WorkspacesInv, CountedAreThere
  <2> QED BY <2>3, <2>4
<1>7. SeenIsOwn'
  BY KindsDisjoint DEF SearchCount, WorkspacesInv, SeenIsOwn
<1>8. AnnouncedPageHasRows'
  BY KindsDisjoint DEF SearchCount, WorkspacesInv, Go, AnnouncedPageHasRows,
     TotalPages
<1>9. InterviewIsWhole'
  BY KindsDisjoint DEF SearchCount, WorkspacesInv, Go, InterviewIsWhole
<1> QED BY <1>1, <1>2, <1>3, <1>4, <1>5, <1>6, <1>7, <1>8, <1>9 DEF WorkspacesInv

LEMMA SearchPageInv ==
    ASSUME WorkspacesInv, NEW r \in Browse, SearchPage(r)
    PROVE  WorkspacesInv'
<1>1. TypeOK'
  BY KindsDisjoint DEF SearchPage, WorkspacesInv, Go, Read, rows, Ended,
     Request, TypeOK, InWorkspace
<1>2. WholeInterviews'
  BY KindsDisjoint DEF SearchPage, WorkspacesInv, Go, rows, WholeInterviews
<1>3. InOwnWorkspace'
  BY KindsDisjoint DEF SearchPage, WorkspacesInv, Go, rows, InOwnWorkspace
<1>4. SeenIsCommitted'
  BY KindsDisjoint DEF SearchPage, WorkspacesInv, Read, rows, SeenIsCommitted,
     WholeInterviews, InWorkspace
<1>5. NothingRead'
  BY KindsDisjoint DEF SearchPage, WorkspacesInv, Go, Read, NothingRead
<1>6. CountedAreThere'
  BY KindsDisjoint DEF SearchPage, WorkspacesInv, Go, rows, CountedAreThere,
     InWorkspace
<1>7. SeenIsOwn'
  BY KindsDisjoint DEF SearchPage, WorkspacesInv, Read, Workspace, SeenIsOwn,
     WholeInterviews, InOwnWorkspace, InWorkspace
<1>8. AnnouncedPageHasRows'
  <2> SUFFICES ASSUME NEW q \in Browse, pc'[q] = "done", page'[q] < TotalPages(q)'
               PROVE  seen'[q] # {}
    BY DEF AnnouncedPageHasRows
  <2> DEFINE all == InWorkspace(candidates, r)
  <2>1. CASE q = r
    <3>1. PICK rowsRead \in SUBSET all :
             /\ Cardinality(rowsRead) = RowsOnPage(page[r], Cardinality(all))
             /\ Read(r, rowsRead)
      BY DEF SearchPage
    <3>2. /\ Cardinality(all) \in Nat /\ total[r] \in Nat /\ page[r] \in Nat
          /\ total[r] <= Cardinality(all)
      BY Countable, CreateCounted
         DEF WorkspacesInv, WholeInterviews, TypeOK, CountedAreThere, SearchPage, Request
    <3>3. page[r] * PageSize < total[r]
      BY <2>1, <3>2, PageStart DEF SearchPage, TotalPages
    <3>4. page[r] * PageSize < Cardinality(all)
      BY <3>2, <3>3, PageSizeIsPositive
    <3>5. Cardinality(rowsRead) > 0
      BY <3>1, <3>2, <3>4, PageHasRows
    <3>6. rowsRead # {}
      BY <3>5, FS_EmptySet
    <3> QED BY <2>1, <3>1, <3>6 DEF Read, WorkspacesInv, TypeOK, Request
  <2>2. CASE q # r
    BY <2>2 DEF SearchPage, Go, Read, TotalPages, WorkspacesInv, TypeOK, Request,
                AnnouncedPageHasRows
  <2> QED BY <2>1, <2>2
<1>9. InterviewIsWhole'
  BY KindsDisjoint DEF SearchPage, WorkspacesInv, Go, Read, InterviewIsWhole
<1> QED BY <1>1, <1>2, <1>3, <1>4, <1>5, <1>6, <1>7, <1>8, <1>9 DEF WorkspacesInv

LEMMA ExportInv ==
    ASSUME WorkspacesInv, NEW r \in Browse, Export(r)
    PROVE  WorkspacesInv'
<1>1. TypeOK'
  BY KindsDisjoint DEF Export, WorkspacesInv, Go, Read, rows, Ended, Request,
     TypeOK, InWorkspace
<1>2. WholeInterviews'
  BY KindsDisjoint DEF Export, WorkspacesInv, Go, rows, WholeInterviews
<1>3. InOwnWorkspace'
  BY KindsDisjoint DEF Export, WorkspacesInv, Go, rows, InOwnWorkspace
<1>4. SeenIsCommitted'
  BY KindsDisjoint DEF Export, WorkspacesInv, Read, rows, SeenIsCommitted,
     WholeInterviews, InWorkspace
<1>5. NothingRead'
  BY KindsDisjoint DEF Export, WorkspacesInv, Go, Read, NothingRead
<1>6. CountedAreThere'
  BY KindsDisjoint DEF Export, WorkspacesInv, Go, rows, CountedAreThere,
     InWorkspace
<1>7. SeenIsOwn'
  BY KindsDisjoint DEF Export, WorkspacesInv, Read, Workspace, SeenIsOwn,
     WholeInterviews, InOwnWorkspace, InWorkspace
<1>8. AnnouncedPageHasRows'
  <2> SUFFICES ASSUME NEW q \in Browse, pc'[q] = "done", page'[q] < TotalPages(q)'
               PROVE  seen'[q] # {}
    BY DEF AnnouncedPageHasRows
  <2>1. CASE q = r
    <3>1. total'[r] = 0 /\ page'[r] \in Nat
      BY CreateCounted DEF Export, WorkspacesInv, NothingRead, TypeOK
    <3>2. TotalPages(q)' = (PageSize - 1) \div PageSize
      BY <2>1, <3>1, PageSizeIsPositive DEF TotalPages
    <3>3. (PageSize - 1) \div PageSize = 0
      BY PageSizeIsPositive
    <3> QED BY <2>1, <3>1, <3>2, <3>3
  <2>2. CASE q # r
    BY <2>2 DEF Export, Go, Read, TotalPages, WorkspacesInv, TypeOK, Request,
                AnnouncedPageHasRows
  <2> QED BY <2>1, <2>2
<1>9. InterviewIsWhole'
  BY KindsDisjoint DEF Export, WorkspacesInv, Go, Read, InterviewIsWhole
<1> QED BY <1>1, <1>2, <1>3, <1>4, <1>5, <1>6, <1>7, <1>8, <1>9 DEF WorkspacesInv

LEMMA LookReadInv ==
    ASSUME WorkspacesInv, NEW r \in Look, LookRead(r)
    PROVE  WorkspacesInv'
<1>1. TypeOK'
  BY KindsDisjoint DEF LookRead, WorkspacesInv, Go, Read, rows, Ended, Request,
     TypeOK, InWorkspace
<1>2. WholeInterviews'
  BY KindsDisjoint DEF LookRead, WorkspacesInv, Go, rows, WholeInterviews
<1>3. InOwnWorkspace'
  BY KindsDisjoint DEF LookRead, WorkspacesInv, Go, rows, InOwnWorkspace
<1>4. SeenIsCommitted'
  BY KindsDisjoint DEF LookRead, WorkspacesInv, Read, rows, SeenIsCommitted,
     InWorkspace
<1>5. NothingRead'
  BY KindsDisjoint DEF LookRead, WorkspacesInv, Go, Read, NothingRead
<1>6. CountedAreThere'
  BY KindsDisjoint DEF LookRead, WorkspacesInv, Go, rows, CountedAreThere,
     InWorkspace
<1>7. SeenIsOwn'
  BY KindsDisjoint DEF LookRead, WorkspacesInv, Read, Workspace, SeenIsOwn,
     WholeInterviews, InOwnWorkspace, InWorkspace
<1>8. AnnouncedPageHasRows'
  BY KindsDisjoint DEF LookRead, WorkspacesInv, Go, Read, AnnouncedPageHasRows,
     TotalPages
<1>9. InterviewIsWhole'
  BY KindsDisjoint DEF LookRead, WorkspacesInv, Go, Read, InterviewIsWhole
<1> QED BY <1>1, <1>2, <1>3, <1>4, <1>5, <1>6, <1>7, <1>8, <1>9 DEF WorkspacesInv

LEMMA FetchInterviewInv ==
    ASSUME WorkspacesInv, NEW r \in Fetch, FetchInterview(r)
    PROVE  WorkspacesInv'
<1>1. TypeOK'
  BY KindsDisjoint DEF FetchInterview, WorkspacesInv, Go, Read, rows, InFlight,
     Ended, Request, TypeOK
<1>2. WholeInterviews'
  BY KindsDisjoint DEF FetchInterview, WorkspacesInv, Go, rows, Request,
     WholeInterviews, TypeOK
<1>3. InOwnWorkspace'
  BY KindsDisjoint DEF FetchInterview, WorkspacesInv, Go, rows, Request,
     Workspace, InOwnWorkspace, TypeOK
<1>4. SeenIsCommitted'
  BY KindsDisjoint DEF FetchInterview, WorkspacesInv, Read, rows,
     SeenIsCommitted, TypeOK
<1>5. NothingRead'
  BY KindsDisjoint DEF FetchInterview, WorkspacesInv, Go, Read, Request,
     NothingRead, TypeOK
<1>6. CountedAreThere'
  BY KindsDisjoint DEF FetchInterview, WorkspacesInv, Go, rows, Request,
     CountedAreThere, TypeOK, InWorkspace
<1>7. SeenIsOwn'
  BY KindsDisjoint DEF FetchInterview, WorkspacesInv, Read, SeenIsOwn,
     NothingRead, TypeOK
<1>8. AnnouncedPageHasRows'
  BY KindsDisjoint DEF FetchInterview, WorkspacesInv, Go, Read, Request,
     AnnouncedPageHasRows, TotalPages, TypeOK
<1>9. InterviewIsWhole'
  BY KindsDisjoint DEF FetchInterview, WorkspacesInv, Go, Read, Request,
     InterviewIsWhole, NothingRead, TypeOK
<1> QED BY <1>1, <1>2, <1>3, <1>4, <1>5, <1>6, <1>7, <1>8, <1>9 DEF WorkspacesInv

LEMMA FetchCandidateInv ==
    ASSUME WorkspacesInv, NEW r \in Fetch, FetchCandidate(r)
    PROVE  WorkspacesInv'
<1>1. TypeOK'
  BY KindsDisjoint DEF FetchCandidate, WorkspacesInv, Go, rows, InFlight, Ended,
     Request, TypeOK
<1>2. WholeInterviews'
  BY KindsDisjoint DEF FetchCandidate, WorkspacesInv, Go, rows, WholeInterviews
<1>3. InOwnWorkspace'
  BY KindsDisjoint DEF FetchCandidate, WorkspacesInv, Go, rows, InOwnWorkspace
<1>4. SeenIsCommitted'
  BY KindsDisjoint DEF FetchCandidate, WorkspacesInv, rows, SeenIsCommitted
<1>5. NothingRead'
  BY KindsDisjoint DEF FetchCandidate, WorkspacesInv, Go, NothingRead,
     SeenIsCommitted, WholeInterviews
<1>6. CountedAreThere'
  BY KindsDisjoint DEF FetchCandidate, WorkspacesInv, Go, rows, CountedAreThere,
     InWorkspace
<1>7. SeenIsOwn'
  BY KindsDisjoint DEF FetchCandidate, WorkspacesInv, SeenIsOwn
<1>8. AnnouncedPageHasRows'
  BY KindsDisjoint DEF FetchCandidate, WorkspacesInv, Go, AnnouncedPageHasRows,
     TotalPages
<1>9. InterviewIsWhole'
  BY KindsDisjoint DEF FetchCandidate, WorkspacesInv, Go, Request,
     InterviewIsWhole, WholeInterviews, SeenIsCommitted
<1> QED BY <1>1, <1>2, <1>3, <1>4, <1>5, <1>6, <1>7, <1>8, <1>9 DEF WorkspacesInv

LEMMA FetchSummaryInv ==
    ASSUME WorkspacesInv, NEW r \in Fetch, FetchSummary(r)
    PROVE  WorkspacesInv'
<1>1. TypeOK'
  BY KindsDisjoint DEF FetchSummary, WorkspacesInv, Go, rows, Ended, Request,
     TypeOK
<1>2. WholeInterviews'
  BY KindsDisjoint DEF FetchSummary, WorkspacesInv, Go, rows, WholeInterviews
<1>3. InOwnWorkspace'
  BY KindsDisjoint DEF FetchSummary, WorkspacesInv, Go, rows, Workspace,
     InOwnWorkspace
<1>4. SeenIsCommitted'
  BY KindsDisjoint DEF FetchSummary, WorkspacesInv, rows, SeenIsCommitted
<1>5. NothingRead'
  BY KindsDisjoint DEF FetchSummary, WorkspacesInv, Go, NothingRead,
     SeenIsCommitted, WholeInterviews
<1>6. CountedAreThere'
  BY KindsDisjoint DEF FetchSummary, WorkspacesInv, Go, rows, CountedAreThere,
     InWorkspace
<1>7. SeenIsOwn'
  BY KindsDisjoint DEF FetchSummary, WorkspacesInv, SeenIsOwn
<1>8. AnnouncedPageHasRows'
  BY KindsDisjoint DEF FetchSummary, WorkspacesInv, Go, AnnouncedPageHasRows,
     TotalPages
<1>9. InterviewIsWhole'
  BY KindsDisjoint DEF FetchSummary, WorkspacesInv, Go, Request,
     InterviewIsWhole, WholeInterviews, SeenIsCommitted
<1> QED BY <1>1, <1>2, <1>3, <1>4, <1>5, <1>6, <1>7, <1>8, <1>9 DEF WorkspacesInv

LEMMA AgainInv ==
    ASSUME WorkspacesInv, NEW r \in Request, Again(r)
    PROVE  WorkspacesInv'
<1>1. TypeOK'
  BY CreateCounted DEF Again, Go, Read, rows, WorkspacesInv, TypeOK
<1>2. WholeInterviews'
  BY KindsDisjoint DEF Again, WorkspacesInv, Go, rows, InFlight, WholeInterviews
<1>3. InOwnWorkspace'
  BY KindsDisjoint DEF Again, WorkspacesInv, Go, rows, InFlight, InOwnWorkspace,
     WholeInterviews, TypeOK
<1>4. SeenIsCommitted'
  BY KindsDisjoint DEF Again, WorkspacesInv, Read, rows, SeenIsCommitted
<1>5. NothingRead'
  BY KindsDisjoint DEF Again, WorkspacesInv, Go, Read, NothingRead, TypeOK
<1>6. CountedAreThere'
  BY KindsDisjoint DEF Again, WorkspacesInv, Go, rows, InFlight,
     CountedAreThere, WholeInterviews, TypeOK, InWorkspace
<1>7. SeenIsOwn'
  BY KindsDisjoint DEF Again, WorkspacesInv, Read, InFlight, SeenIsOwn,
     SeenIsCommitted, WholeInterviews, TypeOK
<1>8. AnnouncedPageHasRows'
  BY KindsDisjoint DEF Again, WorkspacesInv, Go, Read, AnnouncedPageHasRows,
     TotalPages, TypeOK
<1>9. InterviewIsWhole'
  BY KindsDisjoint DEF Again, WorkspacesInv, Go, Read, InterviewIsWhole
<1> QED BY <1>1, <1>2, <1>3, <1>4, <1>5, <1>6, <1>7, <1>8, <1>9 DEF WorkspacesInv

-----------------------------------------------------------------------------
(* The theorems.                                                            *)

LEMMA InitInv == Init => WorkspacesInv
<1> SUFFICES ASSUME Init PROVE WorkspacesInv
  OBVIOUS
<1>1. TypeOK
  BY CreateCounted DEF Init, TypeOK
<1>2. AnnouncedPageHasRows
  BY DEF Init, AnnouncedPageHasRows, Request
<1> QED
  BY <1>1, <1>2 DEF Init, WorkspacesInv, WholeInterviews, InOwnWorkspace,
     SeenIsCommitted, NothingRead, CountedAreThere, SeenIsOwn, InterviewIsWhole,
     Request, Workspace

LEMMA NextInv == WorkspacesInv /\ [Next]_vars => WorkspacesInv'
<1> SUFFICES ASSUME WorkspacesInv, [Next]_vars PROVE WorkspacesInv'
  OBVIOUS
<1>1. CASE \E r \in Create : Resolve(r) \/ CreateCommit(r)
  BY <1>1, ResolveInv, CreateCommitInv DEF Workspace
<1>2. CASE \E r \in Browse : Resolve(r) \/ SearchCount(r) \/ SearchPage(r) \/ Export(r)
  BY <1>2, ResolveInv, SearchCountInv, SearchPageInv, ExportInv DEF Workspace
<1>3. CASE \E r \in Look : Resolve(r) \/ LookRead(r)
  BY <1>3, ResolveInv, LookReadInv
<1>4. CASE \E r \in Fetch : FetchInterview(r) \/ FetchCandidate(r) \/ FetchSummary(r)
  BY <1>4, FetchInterviewInv, FetchCandidateInv, FetchSummaryInv
<1>5. CASE \E r \in Request : Again(r)
  BY <1>5, AgainInv
<1>6. CASE UNCHANGED vars
  BY <1>6 DEF vars, rows, WorkspacesInv, TypeOK, WholeInterviews, InOwnWorkspace,
     SeenIsCommitted, NothingRead, CountedAreThere, InWorkspace, SeenIsOwn,
     AnnouncedPageHasRows, TotalPages, InterviewIsWhole
<1> QED BY <1>1, <1>2, <1>3, <1>4, <1>5, <1>6 DEF Next, Quiescent

\* All of it at once: interviews are whole, everybody works in a workspace of
\* their own, and what has been read or counted is still there.
THEOREM InductiveInvariant == Spec => []WorkspacesInv
<1> QED BY InitInv, NextInv, PTL DEF Spec

\* Type correctness; no search commits the workspace it has made.
THEOREM TypeCorrect == Spec => []TypeOK
<1>1. WorkspacesInv => TypeOK
  BY DEF WorkspacesInv
<1> QED BY <1>1, InductiveInvariant, PTL

\* What is shown to a user has been created by this user.
THEOREM OwnIsSeen == Spec => []SeenIsOwn
<1>1. WorkspacesInv => SeenIsOwn
  BY DEF WorkspacesInv
<1> QED BY <1>1, InductiveInvariant, PTL

\* A page that total_pages announces has rows, for every page size.
THEOREM PagesHaveRows == Spec => []AnnouncedPageHasRows
<1>1. WorkspacesInv => AnnouncedPageHasRows
  BY DEF WorkspacesInv
<1> QED BY <1>1, InductiveInvariant, PTL

\* Whoever finds an interview finds its candidate and its summary.
THEOREM InterviewsWhole == Spec => []InterviewIsWhole
<1>1. WorkspacesInv => InterviewIsWhole
  BY DEF WorkspacesInv
<1> QED BY <1>1, InductiveInvariant, PTL

\* A request that gets past its first statement works on all the interviews its
\* user has at that moment: with parts of them in several workspaces it does not
\* get that far.
THEOREM WholeIsShown == Spec => NothingIsHidden
<1>1. ASSUME WorkspacesInv, [Next]_vars, NEW r \in Workspace \cup Look,
             pc[r] = "idle", pc'[r] = "resolved",
             NEW i \in interviews, user[i] = user'[r]
      PROVE  ws[i] = ws'[r]
  <2> USE DEF WorkspacesInv, TypeOK, Request, Workspace
  <2>1. Resolve(r)
    <3>1. ASSUME NEW q \in Workspace \cup Look, Resolve(q) PROVE Resolve(r)
      BY <1>1, <3>1 DEF Resolve, Go
    <3>2. ASSUME NEW q \in Request,
                 \/ q \in Create /\ CreateCommit(q)
                 \/ q \in Browse /\ (SearchCount(q) \/ SearchPage(q) \/ Export(q))
                 \/ q \in Look /\ LookRead(q)
                 \/ q \in Fetch /\ (FetchInterview(q) \/ FetchCandidate(q) \/ FetchSummary(q))
                 \/ Again(q)
          PROVE  FALSE
      BY <1>1, <3>2 DEF CreateCommit, SearchCount, SearchPage, Export, LookRead,
         FetchInterview, FetchCandidate, FetchSummary, Again, Go
    <3> QED BY <1>1, <3>1, <3>2 DEF Next, vars, Quiescent
  <2>2. PICK u \in User :
           /\ user' = [user EXCEPT ![r] = u]
           /\ \/ \E w \in Memberships(u) : Memberships(u) = {w} /\ ws' = [ws EXCEPT ![r] = w]
              \/ Memberships(u) = {}
    BY <1>1, <2>1 DEF Resolve, Go
  <2>3. user[i] = u
    BY <1>1, <2>2
  <2>4. i \in Create /\ pc[i] = "done" /\ i \in candidates
    BY <1>1 DEF WholeInterviews
  <2>5. ws[i] \in members /\ user[ws[i]] = u
    BY <1>1, <2>3, <2>4 DEF WholeInterviews, InOwnWorkspace
  <2>6. ws[i] \in Memberships(u)
    BY <2>5 DEF Memberships
  <2>7. \A w : Memberships(u) = {w} => ws[i] = w
    BY <2>6
  <2>8. r \in DOMAIN ws
    BY <1>1 DEF Request
  <2> QED BY <1>1, <2>2, <2>6, <2>7, <2>8
<1>2. WorkspacesInv /\ [Next]_vars =>
        \A r \in Workspace \cup Look : pc[r] = "idle" /\ pc'[r] = "resolved" =>
          \A i \in interviews : user[i] = user'[r] => ws[i] = ws'[r]
  BY <1>1
<1> QED BY <1>2, InductiveInvariant, PTL DEF Spec, NothingIsHidden
=============================================================================
