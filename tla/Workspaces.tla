------------------------------ MODULE Workspaces ------------------------------
(***************************************************************************)
(* Workspaces, interviews, candidates and the dashboard:                    *)
(* app/services/interview.py, candidate.py, dashboard.py and their routes.  *)
(*                                                                          *)
(* Every request first resolves the workspace of its user.  A request that  *)
(* creates an interview, or searches candidates, makes a workspace if there *)
(* is none; only the former commits it.  Nothing is ever updated or deleted *)
(* here, so no request waits for another; what counts is which commits fall *)
(* between a request's statements, each of which sees the committed rows.   *)
(*                                                                          *)
(* A workspace, with its one membership, and the candidate, interview and   *)
(* summary of an interview are all named by the request that inserts them.  *)
(***************************************************************************)
EXTENDS Integers, FiniteSets

CONSTANTS
    User,
    Create,     \* calls of POST /interviews
    Browse,     \* calls of GET /candidates/search and /candidates/export
    Look,       \* calls of GET /dashboard/live and /dashboard/stats
    Fetch,      \* calls of GET /interviews/{interview_id}
    PageSize,   \* page_size of a search
    Nil

Request == Create \cup Browse \cup Look \cup Fetch
Workspace == Create \cup Browse

ASSUME KindsDisjoint ==
    /\ Create \cap (Browse \cup Look \cup Fetch) = {}
    /\ Browse \cap (Look \cup Fetch) = {}
    /\ Look \cap Fetch = {}
ASSUME NilIsNone == Nil \notin Request \cup User
ASSUME CreateIsFinite == IsFiniteSet(Create)
ASSUME PageSizeIsPositive == PageSize \in Nat \ {0}

VARIABLES
    members,    \* committed workspaces, each with the membership of its maker
    candidates, \* committed candidates
    interviews, \* committed interviews
    summaries,  \* committed summaries
    pc,         \* where each request is
    user,       \* its current user
    ws,         \* the workspace it has resolved; its own name if it made one
    total,      \* search: the number of candidates counted
    page,       \* search: the number of the page asked for, from 0
    seen        \* what it has read: candidates or interviews, by name

rows == <<members, candidates, interviews, summaries>>
vars == <<rows, pc, user, ws, total, page, seen>>

InFlight == {"resolved", "counted", "found", "named"}
Ended    == {"done", "forbidden", "missing"}

TypeOK ==
    /\ members \subseteq Create
    /\ candidates \subseteq Create
    /\ interviews \subseteq Create
    /\ summaries \subseteq Create
    /\ pc \in [Request -> {"idle", "failed"} \cup InFlight \cup Ended]
    /\ user \in [Request -> User \cup {Nil}]
    /\ ws \in [Request -> Workspace \cup {Nil}]
    /\ total \in [Browse -> 0..Cardinality(Create)]
    /\ page \in [Browse -> 0..Cardinality(Create)]
    /\ seen \in [Request -> SUBSET Create]

Init ==
    /\ members = {} /\ candidates = {} /\ interviews = {} /\ summaries = {}
    /\ pc = [r \in Request |-> "idle"]
    /\ user = [r \in Request |-> Nil]
    /\ ws = [r \in Request |-> Nil]
    /\ total = [r \in Browse |-> 0]
    /\ page = [r \in Browse |-> 0]
    /\ seen = [r \in Request |-> {}]

Go(r, where) == pc' = [pc EXCEPT ![r] = where]
Read(r, what) == seen' = [seen EXCEPT ![r] = what]

-----------------------------------------------------------------------------
(* Resolving the workspace: _get_or_create_workspace, _resolve_workspace.   *)

\* (Fault: the user is left out of the WHERE clause.)
MembershipsUnscoped(u) == members

\* SELECT workspace_id FROM workspace_members WHERE user_id = ...
Memberships(u) == {w \in members : user[w] = u}

\* (Fault: LIMIT 1, which takes any of several memberships.)
ResolveFirst(r) ==
    /\ pc[r] = "idle"
    /\ \E u \in User :
         /\ user' = [user EXCEPT ![r] = u]
         /\ \/ \E w \in Memberships(u) :
                 ws' = [ws EXCEPT ![r] = w] /\ Go(r, "resolved")
            \/ /\ Memberships(u) = {} /\ r \in Workspace
               /\ ws' = [ws EXCEPT ![r] = r] /\ Go(r, "resolved")
            \/ /\ Memberships(u) = {} /\ r \in Look
               /\ Go(r, "forbidden") /\ UNCHANGED ws
    /\ UNCHANGED <<rows, total, page, seen>>

\* One membership is taken.  With none, an interview or a search makes a
\* workspace (not yet committed) and the dashboard answers 403.  With more
\* than one, scalar_one_or_none raises MultipleResultsFound: 500.
Resolve(r) ==
    /\ pc[r] = "idle"
    /\ \E u \in User :
         /\ user' = [user EXCEPT ![r] = u]
         /\ \/ \E w \in Memberships(u) :
                 /\ Memberships(u) = {w}
                 /\ ws' = [ws EXCEPT ![r] = w] /\ Go(r, "resolved")
            \/ /\ Memberships(u) = {} /\ r \in Workspace
               /\ ws' = [ws EXCEPT ![r] = r] /\ Go(r, "resolved")
            \/ /\ Memberships(u) = {} /\ r \in Look
               /\ Go(r, "forbidden") /\ UNCHANGED ws
            \/ /\ Cardinality(Memberships(u)) > 1
               /\ Go(r, "failed") /\ UNCHANGED ws
    /\ UNCHANGED <<rows, total, page, seen>>

-----------------------------------------------------------------------------
(* POST /interviews: InterviewService.create_interview.                     *)

MakesWorkspace(r) == IF ws[r] = r THEN {r} ELSE {}

\* (Fault: the summary is committed on its own.)
CreateCommitTwice(r) ==
    /\ pc[r] = "resolved"
    /\ members' = members \cup MakesWorkspace(r)
    /\ candidates' = candidates \cup {r}
    /\ interviews' = interviews \cup {r}
    /\ IF r \in interviews
       THEN summaries' = summaries \cup {r} /\ Go(r, "done")
       ELSE UNCHANGED <<summaries, pc>>
    /\ UNCHANGED <<user, ws, total, page, seen>>

\* Candidate, interview and summary are flushed one by one under keys nobody
\* else knows, and committed together with the workspace, if it is new.
CreateCommit(r) ==
    /\ pc[r] = "resolved"
    /\ members' = members \cup MakesWorkspace(r)
    /\ candidates' = candidates \cup {r}
    /\ interviews' = interviews \cup {r}
    /\ summaries' = summaries \cup {r}
    /\ Go(r, "done")
    /\ UNCHANGED <<user, ws, total, page, seen>>

-----------------------------------------------------------------------------
(* GET /candidates/search and /candidates/export: CandidateService.         *)

\* The rows in a workspace; a workspace made by the request itself is empty.
InWorkspace(table, r) == {c \in table : ws[c] = ws[r]}

\* (Fault: the count is not scoped to the workspace.)
CountedAnywhere(r) == Cardinality(candidates)

Counted(r) == Cardinality(InWorkspace(candidates, r))

\* First statement of a search: the total, for the page asked for.
SearchCount(r) ==
    /\ pc[r] = "resolved"
    /\ \E k \in 0..Cardinality(Create) :
         /\ page' = [page EXCEPT ![r] = k]
         /\ total' = [total EXCEPT ![r] = Counted(r)]
    /\ Go(r, "counted")
    /\ UNCHANGED <<rows, user, ws, seen>>

\* What OFFSET and LIMIT leave of a number of rows.
Least(a, b) == IF a < b THEN a ELSE b
RowsOnPage(k, number) ==
    IF number <= k * PageSize THEN 0 ELSE Least(PageSize, number - k * PageSize)

\* total_pages of the answer: the pages that have rows, rounded up.
TotalPages(r) == (total[r] + PageSize - 1) \div PageSize

\* (Fault: the session is committed at the end.)
SearchPageCommits(r) ==
    /\ pc[r] = "counted"
    /\ members' = members \cup MakesWorkspace(r)
    /\ Go(r, "done")
    /\ UNCHANGED <<candidates, interviews, summaries, user, ws, total, page, seen>>

\* Second statement: OFFSET and LIMIT of a SELECT without ORDER BY, so any
\* rows in that number.  The session closes without a commit.
SearchPage(r) ==
    /\ pc[r] = "counted"
    /\ LET all == InWorkspace(candidates, r) IN
       \E rowsRead \in SUBSET all :
         /\ Cardinality(rowsRead) = RowsOnPage(page[r], Cardinality(all))
         /\ Read(r, rowsRead)
    /\ Go(r, "done")
    /\ UNCHANGED <<rows, user, ws, total, page>>

Export(r) ==
    /\ pc[r] = "resolved"
    /\ Read(r, InWorkspace(candidates, r))
    /\ Go(r, "done")
    /\ UNCHANGED <<rows, user, ws, total, page>>

-----------------------------------------------------------------------------
(* GET /dashboard/live and /stats: one statement each.                      *)

\* The counts are of all interviews; the panel shows those in progress, and
\* nothing ever sets an interview's status to that.
LookRead(r) ==
    /\ pc[r] = "resolved"
    /\ \E shown \in {InWorkspace(interviews, r), {}} : Read(r, shown)
    /\ Go(r, "done")
    /\ UNCHANGED <<rows, user, ws, total, page>>

-----------------------------------------------------------------------------
(* GET /interviews/{id}: InterviewService.get_interview.                    *)

\* SELECT by id and interviewer; 404 if there is none.
FetchInterview(r) ==
    /\ pc[r] = "idle"
    /\ \E u \in User, i \in Create :
         /\ user' = [user EXCEPT ![r] = u]
         /\ IF i \in interviews /\ user[i] = u
            THEN Read(r, {i}) /\ Go(r, "found")
            ELSE Go(r, "missing") /\ UNCHANGED seen
    /\ UNCHANGED <<rows, ws, total, page>>

\* Then its candidate; without one the answer says "Unknown".
FetchCandidate(r) ==
    /\ pc[r] = "found"
    /\ Go(r, IF seen[r] \subseteq candidates THEN "named" ELSE "missing")
    /\ UNCHANGED <<rows, user, ws, total, page, seen>>

\* Then its summary; without one the answer has none.
FetchSummary(r) ==
    /\ pc[r] = "named"
    /\ Go(r, IF seen[r] \subseteq summaries THEN "done" ELSE "missing")
    /\ UNCHANGED <<rows, user, ws, total, page, seen>>

-----------------------------------------------------------------------------
\* A request dies before its commit, or has failed, and is sent again.
Again(r) ==
    /\ pc[r] \in InFlight \cup {"failed"}
    /\ Go(r, "idle")
    /\ user' = [user EXCEPT ![r] = Nil]
    /\ ws' = [ws EXCEPT ![r] = Nil]
    /\ Read(r, {})
    /\ IF r \in Browse
       THEN total' = [total EXCEPT ![r] = 0] /\ page' = [page EXCEPT ![r] = 0]
       ELSE UNCHANGED <<total, page>>
    /\ UNCHANGED rows

Quiescent ==
    /\ \A r \in Request : pc[r] \in Ended
    /\ UNCHANGED vars

Next ==
    \/ \E r \in Create : Resolve(r) \/ CreateCommit(r)
    \/ \E r \in Browse : Resolve(r) \/ SearchCount(r) \/ SearchPage(r) \/ Export(r)
    \/ \E r \in Look : Resolve(r) \/ LookRead(r)
    \/ \E r \in Fetch : FetchInterview(r) \/ FetchCandidate(r) \/ FetchSummary(r)
    \/ \E r \in Request : Again(r)
    \/ Quiescent

Spec == Init /\ [][Next]_vars

-----------------------------------------------------------------------------
(* Properties.                                                              *)

\* A request that gets past its first statement works on all the interviews
\* its user has at that moment: first requests that raced each other may have
\* left several workspaces, but then nobody is shown a part as the whole.
NothingIsHidden ==
    [][\A r \in Workspace \cup Look : pc[r] = "idle" /\ pc'[r] = "resolved" =>
         \A i \in interviews : user[i] = user'[r] => ws[i] = ws'[r]]_vars

\* "we never leak cross-workspace data": what a search, an export or the
\* dashboard returns has been created by the user who asks.
SeenIsOwn ==
    \A r \in Request : \A i \in seen[r] : user[i] = user[r]

\* A page that total_pages of its own answer announces is not empty, although
\* total and page are read by two statements and candidates are added between.
AnnouncedPageHasRows ==
    \A r \in Browse : pc[r] = "done" /\ page[r] < TotalPages(r) => seen[r] # {}

\* Whoever finds an interview finds its candidate and its summary, read in
\* two more statements.
InterviewIsWhole ==
    \A r \in Fetch : pc[r] = "missing" => seen[r] = {}

\* "Return the user's first workspace, creating a default one if none exists"
OneWorkspacePerUser ==
    \A u \in User : Cardinality(Memberships(u)) <= 1
=============================================================================
