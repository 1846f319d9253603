# MeetMind backend: TLA+ models, model checking and proofs

The repository is a FastAPI service (`app/`) on PostgreSQL (async SQLAlchemy) and
Redis.  Every request is a coroutine with a database transaction of its own; several
worker processes may serve requests at once.  Almost every operation reads rows with
a plain `SELECT`, decides in Python, and writes later, so what matters is which other
transaction commits in between.  The test suite runs one request at a time on SQLite
and reaches none of that; these models do.

## Inventory

| Part | State | Operations | What is hard | What makes it correct |
|---|---|---|---|---|
| Refresh tokens and sessions (`services/auth.py`, `routes/auth.py`) | `refresh_tokens` (hash, revoked, expires_at), `active_sessions` (hash), `users.password_hash` | login, refresh (rotation), logout, reset-password | reads without locks, two bulk statements with two snapshots, row locks, lost responses, rows deleted underneath an ORM object | session rows and tokens agree; rotation revokes; a reset is all or nothing and ends every session; nobody waits for ever |
| One-time links (`services/verification_service.py`, `services/auth.py`) | `email_verification_tokens`, `password_reset_tokens`, `users.is_verified` | signup/resend, forgot-password (background task), verify-email, reset-password | several issuers and redeemers at once, mail after the commit | a user always has a usable or a replaced link; an answered redemption is final; no deadlock |
| Access tokens (`core/middleware.py`, `core/redis.py`, `api/deps.py`) | JWT `exp`, Redis keys with a time to live | issue, look up, decode, blacklist at logout | seconds against exact durations, two stores without a common transaction, Redis failing open, a header that is parsed twice and differently | a blacklisted token is refused until `exp`, wherever a request carries it; Redis is written only after the commit |
| Accounts (`create_user`, signup, `google_oauth.py`) | `users.email` unique, `sso_providers` (nothing unique) | signup, Google callback | check-then-insert, two commits in one request | an identity acts on its own account and finds it again; no account is committed half made |
| Waitlist, subscriptions | unique emails | join, subscribe | check-then-insert | spellings of one address count once; nobody is turned away without a reason |
| Workspaces, interviews (`services/interview.py`) | `workspaces`, `workspace_members`, `candidates`, `interviews`, `interview_summaries` | create/get interview, get-or-create workspace | get-or-create race, after which `scalar_one_or_none` fails for ever | one workspace per user; an interview is created whole |
| Candidates, dashboard | read the above | search, export, live counts | reads that create a workspace and never commit; two snapshots per page | users see their own workspace only |
| Database schema (`alembic/`) | `alembic_version`, the tables | upgrade, downgrade, to any of 18 revisions | branches that were merged, scripts that fail, rows in the way, a process that dies | the schema depends on the applied revisions alone; every upgrade works; the head has what the models rely on |
| Email, support tickets, limiter, envelope, configuration, schemas, health | - | - | nothing interleaves beyond the above | - |
| Routers without content (workspaces, meetings, integrations, ask_mind), unused tables, `docs/architecture` (agent, SDK) | - | - | no code writes them | - |

How the parts interact: `reset_password` redeems a link (OneTimeTokens) and ends the
sessions (RefreshSessions) in one transaction; `logout` commits to PostgreSQL
(RefreshSessions) and then writes to Redis (AccessTokens); every authenticated route
goes through middleware and `get_current_user` (AccessTokens); signup and the Google
callback (Accounts) end in `create_refresh_token`, which is a login without a password
check.  Workspaces refers to users and to nothing else.  Migrations provides the tables,
columns and unique constraints that all the others take for granted
(`HeadMatchesModels`).

## The database model

All of this rests on one reading of the stack, READ
COMMITTED PostgreSQL under a SQLAlchemy session with autoflush:

- variables hold *committed* rows; a `SELECT` reads them in one step;
- pending changes are written ("flushed") before the next statement of the same
  session or at `commit()`; an `UPDATE` or `DELETE` locks its row to the end of the
  transaction and waits for the row's present owner;
- an ORM `UPDATE` addresses the row by primary key, so it also applies to a row that
  has changed since it was read; if the row is gone the session raises
  `StaleDataError` (an ORM `DELETE` of a row that is gone only warns);
- a bulk `UPDATE`/`DELETE` fixes its rows by a snapshot when it starts, and looks at
  each again after waiting for it;
- `commit()` publishes the writes and gives up the locks; a request that ends
  otherwise is rolled back by `get_session` and leaves nothing;
- an `INSERT` of a value in a unique index waits for the transaction that has inserted
  the same value, and raises `IntegrityError` if that one commits;
- an attribute set to the value it already has is not written;
- the models declare no `relationship()`, so a flush takes the tables in the order
  of their class names and the rows of a table in the order of their primary keys.

The last write of a request is flushed by `commit()` itself; its lock lasts for
nobody's wait but the commit's own, so `LoginCommit`, `RefreshCommit`,
`LogoutCommit` and `VerifyCommit` take that lock and commit in one step.  Rows that
only the request itself knows (a token just inserted) need no lock.

## Modules

**`RefreshSessions.tla`** - one process per request, named by the request that acts;
a token and a session row are named by the request that inserts them.  `pc[r]` is the
await the request has reached.

| Actions | Code (`services/auth.py`) |
|---|---|
| `LoginCheck`, `LoginCommit` | `login`, `create_refresh_token` |
| `RefreshSelect`, `RefreshFlush`, `SelectSession`, `RefreshCommit`, `RefreshStale` | `refresh_access_token`: SELECT and checks; autoflush of the INSERT and `revoked = True`; SELECT of the session; UPDATE or INSERT of the session and commit; the session has been deleted |
| `LogoutSelect`, `LogoutFlush`, `SelectSession`, `LogoutCommit` | `logout` |
| `ResetSelect`, `ResetFlush`, `ResetMark`*, `ResetSelectSessions`, `ResetSweep`*, `ResetCommit` | `reset_password`: link and user; autoflush of the password; the bulk UPDATE row by row; the bulk DELETE row by row; commit |
| `Abort`, `Expire` | a crash, lost connection or cancelled client; the passing of `expires_at` |

`tok`, `owner` and `cred` (the password a session goes back to) are what the rows and
coroutines carry.  `"lost"` is a request that has committed and whose response never
arrived.  A request whose first SELECT refuses it changes nothing and is left out.

**`OneTimeTokens.tla`** - both link tables with one set of actions for issuing
(`SelectUnused`, `MarkUsed`, `IssueCommit`, `Mail`) and two for redeeming
(`Present`, `VerifyFlush`, `VerifyCommit`; `RedeemFlush`, `RedeemLockUser`,
`RedeemCommit`).  `Mail` comes after the commit in both: the verification message is
a background task of the response, the reset message follows the commit within its
own background task.

**`AccessTokens.tla`** - the middleware's `Lookup` (with fail-open), `Authenticate`
(`get_current_user`), and `LogoutCommit`, `BlacklistCompute`, `Setex` for what logout
does to both stores.  Time is in ticks, `Grain` to a second, because `exp` is compared
in whole seconds and a Redis key lives an exact duration.  `LogoutCommit` stands for
the whole transaction of `RefreshSessions`; the two tokens of the body are chosen
independently, as nobody checks that they belong together, and the refresh token may be
unknown (401).  `ExtractToken` and `ResolveToken` are the two places that pick a token
out of a request.  They split a header differently, so a header has a `Form`: with one
space (`"plain"`), with some other white space before the token (`"padded"`), or with
white space inside the credentials (`"broken"`), which the middleware does not look up;
`Questionable` headers may or may not get through HTTPBearer and the decoder.  `blind`
marks a request whose lookup Redis did not answer.

**`Workspaces.tla`** - `Resolve` is `_get_or_create_workspace` and
`_resolve_workspace`, with the three outcomes of `scalar_one_or_none`; `CreateCommit`
the rest of `create_interview`; `SearchCount`, `SearchPage` and `Export` the two routes
of candidates, which never commit the workspace they may have made; `LookRead` the
dashboard; `FetchInterview`, `FetchCandidate` and `FetchSummary` the three statements
of `get_interview`; `Again` a request that dies or fails and is sent again.  A search
may ask for any page, from 0 to `Cardinality(Create)`, one more than can have rows.

**`Accounts.tla`** - `CheckEmail` is the first `SELECT` of a signup, of the waitlist
and of the subscriptions; `SelectLink` and `SelectUser` are steps 1 and 2 of
`find_or_create_user`; `InsertUser` is the flush of the account, which takes the email
in the unique index; `CommitSignup` (account and link), `CommitCallback` (account and
SSO link) and `CommitToken` are the two commits of the request; `CommitListing` the
only write of a list.  `Normal` is `strip().lower()`, which only the waitlist applies.
`ChangeMail` gives a Google profile another address, at any time; the history variable
`moved` records the identities to which that happened while one of their callbacks was
between its first `SELECT` and its commit (`Linking`).

**`SessionRegistry.tla`** - what the two session tables amount to for somebody who sees
no statements, transactions or locks: a register of tokens in which every request that
succeeds makes one change to one account (`Open`, `Rotate`, `Close`, `ChangePassword`).
`RefreshSessions!Registry` maps the detailed state to it: a token is *live* when
committed and not revoked, *tracked* when a committed session row carries its hash.
`Spec` is what the code implements when requests overlap: a token may be rotated after
it was revoked, and a reset may miss tokens.  `StrictSpec` is what it implements when
they do not: only live tokens are rotated and a reset ends all of them.

**`LinkRegister.tla`** - the same for the two link tables: links of one account each
that are issued (`Issue`) and redeemed (`VerifyAddress`, `SetPassword`).  `Spec` lets an issue
leave some of the older links open and lets a closed link be redeemed, which is what
overlapping requests do; in `StrictSpec` a new link takes the place of all older ones,
only open links are redeemed, and a verified account gets no link to verify.
`OneTimeTokens!Register` maps the rows to it: a link has an owner once it is committed
and is open until it is used.

**`Statements.tla`, `Revisions.tla`, `Migrations.tla`** - what the operations of
`alembic.op` do; the files of `alembic/versions`, one definition each, as the lists of
the statements their `upgrade` and `downgrade` issue, with what the models rely on
(`ModelsRelyOn`); and the commands, for any history of revisions.  A schema is a set of
pairs of a table and a part of it.  `BeginUpgrade`, `BeginDowngrade` and
`BeginDowngradeBase` start a command; `Upgrade` and `Downgrade` take up one of its
revisions, in any order the graph allows; `Step` runs one statement of its script, which
may fail because it does not fit the schema or because of rows that a new `NOT NULL`
column has no value for; `Finish` ends the script and `Commit` the one transaction that
`env.py` opens; `Die` is a process that ends in between.  `Insert` and `LastLogout` are
the traffic meanwhile: it waits for the tables that the transaction has altered.

**`MigrationHistory.tla`** - the conditions on a history under which `Migrations` keeps
its promises, each on one script or on two revisions, and the inductive invariant.

**`...Proofs.tla`** - the TLAPS proofs, each about the module it is named after, but for
two: `RefreshSessionsProofs` has the state invariants of `RefreshSessions`, and
`RefreshRegistryProofs` what rests on them: that requests never wait in a circle, that
they implement the registry, and what holds while they do not overlap.

**`MC*.tla`** - model values and instances; nothing is redefined.

Operators marked *(Fault: ...)* are used by no specification.  Each is a plausible
mistake in the code; substituting it for the definition that follows it must make TLC
report the property it is paired with in `PROJECT.json`, which shows that the property
can fail.

## What TLC checks

| Run | Instance | Shows |
|---|---|---|
| `refresh` | 1 user, 2 logins, 2 refreshes, 1 logout, 1 reset; 789 000 states | Under every interleaving with aborts and retries: session rows carry live tokens (`SessionsBackedByLiveToken`), no hash occurs twice (`SessionHashUnique`), rotation always revokes (`RotatedIsRevoked`), password and revocations change together (`ResetIsAllOrNothing`), and the inductive invariant `SessionInv`; the requests implement `SessionRegistry` (`ImplementsRegistry`) |
| `refresh_live` | 1 user, login, refresh, logout, 2 resets; 18 000 states | `WaitsForLaterStages`, `EveryRequestEnds`, and no deadlock |
| `refresh_serial` | 2 users, 2 logins, 2 refreshes, logout, reset, one request at a time | What comments, docstrings and tests promise: one live replacement, reset and logout end the session, live tokens have session rows; all of it at once as the strict registry (`ImplementsStrictRegistry`) |
| `links` | 1 user, 1 resend, 3 forgots, 2 verifications, 1 redemption; 1.7 million states | `InvalidatedIsReplaced`, `NoReuseAfterAnswer`, `LockOrder`; the requests implement `LinkRegister` (`ImplementsRegister`); no deadlock |
| `access_tokens` | 2 tokens, 1 use (repeating), 2 logouts, lifetime 2 s, 2 ticks a second, 7 ticks; 3 million states | `RejectedUntilExp`, `BlacklistedAfterCommit` |
| `workspaces` | 2 users, 3 creates, 1 search or export, 1 dashboard, 1 fetch, 2 rows a page; 57 000 states | `SeenIsOwn`, `AnnouncedPageHasRows`, `InterviewIsWhole`, `NothingIsHidden` |
| `accounts` | 1 signup, 3 callbacks, 2 joins, 2 spellings of one address, 2 identities, one of which may change its address; 1.9 million states | `OwnAccount`, `IdentityFindsAccount`, `SignupHasLink`, `TurnedAwayForAReason`, `OnWaitlistOnce`; no deadlock |
| `replay`, `survives_reset` | two or three requests | two promises that fail when requests overlap (see Findings) |
| `migrations` | the 18 revisions as they are, unbounded commands; 339 000 states | `AppliedIsClosed`, `SchemaIsOfApplied`, `UpgradeFailsOnlyOverRows`, `HeadMatchesModels`, `OnlyUndoneLeave`; the invariant `CommandInv` in the middle of every script; that the 18 files meet the conditions of `MigrationHistory`; no deadlock |
| `downgrade_base` | the same | a downgrade from the head fails |
| `two_workspaces` | two creates | "creating a default one if none exists" makes two when they overlap |

*Bounds.*  Every hazard of the session tables involves two requests on one token and at
most one reset and one logout next to them; two logins give a reset several rows to
mark, two refreshes give a chain of rotations or a race for one token.  One user
suffices where locks are contended, as users share no row; the serial run has two.  In
`links` an issuer meets two older links, one that another issuer is about to commit and
one that is being redeemed; for two issuers to mark the same *two* links it takes four,
which is why that they never wait for each other (`NoCircle`) is proved.  Requests are single-shot, but an aborted one may start again, so
retries are unbounded.  In `access_tokens` the clock stops at `Horizon`; 7 ticks cover
issue, the whole lifetime and the second after `exp` at both phases of a second.
In `workspaces` three creates give two that race and one more that meets what they
left, or three rows on two pages.  In `accounts` two callbacks race with each other, with
the signup, or for two addresses of one identity, and a third one, or one that is sent
again, meets what they have left.  A subscription takes the same two actions as a join,
without the normalising; the instance has none, the proofs cover any number.  `migrations` has
no bounds: the whole graph of revisions is explored from the empty database, with
downgrades, so every set of revisions that the files allow to be applied occurs.

*Symmetry* permutes requests of one kind and users, in runs of safety properties only.

*Fairness.*  Only `RefreshSessions` states any.  `SF_vars(Continue(r))` for every
request: the event loop resumes every coroutine whose await is over (this alone would be
weak fairness), and PostgreSQL serves the waiters of a row in turn, so that a request
is not overtaken for ever by others that lock the row and roll back.  There is no
fairness for starting, aborting or expiring anything.

## Findings

- `replay`: two overlapping refreshes with one token both succeed; the token then has
  two live replacements, against "Rotate: new refresh token replaces the old one".
  `RotatedIsRevoked` still holds.
- `survives_reset`: a login that has checked the old password, or a refresh under way,
  can commit its token outside the snapshot of the reset's bulk UPDATE; it stays valid
  after "revoke every active session".
- `downgrade_base`: three downgrade scripts fail (`drop_constraint(None, ...)` in
  ed6aad565b56 and 864df66fbeb7; in 7ba4c8acd02e an index that is already there), and as
  a command is one transaction, "alembic downgrade base" from the head takes nothing
  back.  `SchemaIsOfApplied` shows that at least it leaves nothing behind.
- `two_workspaces`: two overlapping first `POST /interviews` of a user commit two
  memberships, and every later request of the user that resolves a workspace then
  raises `MultipleResultsFound`.  `NothingIsHidden` shows that at least no request gets
  past that point with a part of the user's interviews.

The overlap of a logout with a refresh also leaves a live replacement
(`LogoutEndsSession` holds in the serial run only), and a login between the bulk UPDATE
and the bulk DELETE of a reset keeps its token without a session row
(`LiveTokenHasSession`, likewise).  In `Accounts` the loser of a race on one address
is answered 500 by the unique index, not the documented 400 or 409;
`TurnedAwayForAReason` shows that there is always a committed row in its way.
And an identity may lock itself out: if its Google address changes between two overlapping
first callbacks, each makes an account and a link, as `sso_providers` has no unique
constraint, and every later callback fails on `scalar_one_or_none`.  `IdentityFindsAccount`
states this premise (`moved`) and holds otherwise; `TurnedAwayForAReason` has it as the
one reason for a failure that is not a row with the same address.

A logout may blacklist an access token of another session than the one it ends, and one
that dies after its commit leaves its access token usable until `exp`.  So nothing says
that the tokens of an ended session are blacklisted; `BlacklistedAfterCommit` says the
converse, that nothing is blacklisted by a logout that has ended no session.

Not worth a run each: two overlapping resends leave two active links, against "only one
active token exists at a time" (`verification_service.py:69`), though never none
(`InvalidatedIsReplaced`); two overlapping redemptions of one link both succeed, but none
does after the first answer (`NoReuseAfterAnswer`); a blacklist entry ends up to a second before
its token is refused for its age (`redis.py:21`), which is why `RejectedUntilExp` speaks
of the time up to `exp` only; the migration chain in the project's README stops at
2cdac93874a4.  Signup, login, refresh and the Google callback set cookies on the
injected `Response` but return a `JSONResponse` of their own, whose headers FastAPI
does not merge, so no cookie is set or deleted, against "sets them as httponly; secure;
samesite=lax cookies"; the models let requests come with or without cookies.  Two
merge revisions (c16813fe91d9, c6ef36577539) join the same heads; `AppliedIsClosed` and
`UpgradeFailsOnlyOverRows` show that this does no harm.

## What is proved

Every property of the passing runs except `EveryRequestEnds`, and a few more, for all values of the constants that satisfy the modules' assumptions: a request has one
kind (`KindsDisjoint`), `Nil` is none of the things it stands in for (`NilIsNone`), keys
are distinct numbers (`KeyIsOrder`), links and interviews can be counted (`LinkIsFinite`,
`CreateIsFinite`), a second has ticks and a token a lifetime (`TimeIsCounted`), a page
has rows (`PageSizeIsPositive`), normalising twice is normalising once
(`NormalIsIdempotent`), the identities whose address may change are some of them or all
(`MovableAreSome`), and, for the migrations, the conditions of `MigrationHistory`,
which the run `migrations` evaluates on the files.  The sets of users, tokens, requests and
revisions may otherwise be of any size.

| Module | Theorems |
|---|---|
| `RefreshSessionsProofs` | `InductiveInvariant`: `Spec => []SessionInv`; `TypeCorrect`; `SessionsBacked`, `HashesUnique`, `RotationRevokes`: the state properties of the run `refresh`; `ResetAtomic`: `Spec => ResetIsAllOrNothing` |
| `RefreshRegistryProofs` | `Refinement`: `Spec => ImplementsRegistry`; `WaitingEnds`, `NoDeadlock`; `ReplacedOnce`, `ResetEndsAll`, `LogoutEnds`, `LiveTracked`: the four promises, under `SerialSpec`; `StrictRefinement`: `SerialSpec => ImplementsStrictRegistry` |
| `SessionRegistryProofs` | `RegistrySound`, `StrictRegistrySound`: in the registry a tracked token is live; in the strict one the two are the same |
| `OneTimeTokensProofs` | `TypeCorrect`, `LockedInOrder`, `Replaced`, `NoReuse`; `NobodyWaitsInACircle`; `Refinement`: `Spec => ImplementsRegister`; `OneLinkActive`, `SingleUse` and `StrictRefinement` under `SerialSpec` |
| `AccessTokensProofs` | `TypeCorrect`, `RevokedFirst`: `Spec => []BlacklistedAfterCommit`; `RejectedToTheEnd`: `Spec => RejectedUntilExp` |
| `WorkspacesProofs` | `TypeCorrect`, `OwnIsSeen`, `PagesHaveRows`, `InterviewsWhole`, `WholeIsShown` |
| `AccountsProofs` | `TypeCorrect`, `OwnAccounts`, `IdentitiesFound`, `SignupsHaveLinks`, `ReasonsGiven`, `ListedOnce` |
| `MigrationsProofs` | `InductiveInvariant`: `Spec => []MigrationsInv`; `CommandsCorrect`, `AppliedClosed`, `SchemaFollows`, `UpgradesWork`, `HeadMatches`; `NoWayBack`: `Spec => OnlyUndoneLeave` |

None of the safety properties is inductive by itself; each module's invariant adds what
a request has read and why that is still so when it acts on it.

*Sessions.*  That a rotation's `UPDATE` of a
session puts in a live token and takes out the revoked one depends on what was read two
awaits earlier still being so: `ReadsHold` says that the session found has the old hash
or is gone, and that no other has it.  This holds because whoever changes a session with
that hash holds the lock of the token (`WritesLocked`), which the request has
(`LocksOwned`).  For a reset, `SweepCoversMarks` says that the second snapshot includes
the session of every token the first statement has locked, because such a session can
change only by a transaction that holds the token.  `RowsExist` and `OwnersAgree` tie
the tokens a request acts on to the rows and users they belong to.  The proof has one
lemma per conjunct (`...Next`), each with one step per action; `StepCases` names the
actions once for all of them, and `SelectFinds` states what `SelectSession` returns.

*Refinement.*  `SessionInv` is not enough, and `RefreshRegistryProofs` adds three
facts: what a request acts on belongs to its user (`ActsForUser`), what a reset has
marked or is to sweep belongs to the account it resets (`SweptAreOwn`), and a password
has been set by a reset that is over (`PasswordsOfDone`), so the next reset sets another
one.  Each commit is then matched with the one action of the registry it stands for,
and every other step is a stutter.

*Waiting for sessions.*  The stages of a transaction (`Stage`) are numbered so that a
request waits only for requests at a later one: a reset before its first write for one
that has the user's row, a reset among the tokens for rotations and logouts that hold
one, these for a reset that is among the sessions.  `SessionInv`, with the fact that
the user's row admits one reset at a time (`OneResetEach`), gives `WaitingEnds`; and as
there are four stages, some request at the last one that occurs waits for nobody
(`NoDeadlock`), however many there are.

*One at a time.*  `FreshReads` is what overlapping destroys: what the request under way
has read (the password it checked, the token it found live, the tokens its bulk update
saw) is still so.  It holds because a step of one request leaves the others alone
(`OthersStay`) and no other is under way (`AtMostOne`).  The four commits then keep the
promises, which the register's actions state most briefly.

*Links.*  `Locks` says who may hold a row (an issuer one of its targets, a redeemer its
own link once it has flushed) and that a redeemer does; `Targets`, that issuers mark
committed links of their own user and table, so the link they commit with the marks
replaces them.  `LockOrder` is then a matter of `NextMark` taking the least key.

*Waiting for links.*  Of the links that somebody in a set of waiting requests is about
to write take the one with the greatest key (`Greatest`, by the fewest links above).
Its holder waits for no link, for that would have a still greater key (`NextIsLarger`),
or waits for the user's row, whose holder waits for nobody.  So the set is no circle.

*Links as a register.*  For `Refinement` the invariant needs one more fact, `OwnLinks`:
the link that a request redeems is of its own table and user.  An `IssueCommit` has then
closed links of one account and table, because an issuer that has nothing left to mark
holds all its targets and nothing else (`IssueSimulates`), and a commit of a redeemer
closes one link of the user it changes (`RedeemSimulates`); all other steps are stutters
(`StepKinds`).  What the docstrings promise is proved of `SerialSpec`, in which requests do
not overlap: one active link a user and table (`OneActiveLink`), single use
(`RedeemedOnce`), the strict register.  There `FreshReads` adds that the targets of the
issuer under way are *all* open links of the user, that the link presented is still
unused, and that a user for whom a verification link is made is not verified.

*Migrations.*  The schema a set of revisions makes (`SchemaOf`) does not mention an
order; that it is what running them in any permitted order leads to is
`SchemaOfUpgraded` and `SchemaOfDowngraded`, from `OneMaker`: no two revisions make or
remove the same thing, and what is removed was made by an ancestor.  In the middle of a
script the transaction sees `Between(now, at)`, the schema so far changed by the
statements that have run (`Progress`), and the revisions run so far are closed under
ancestors (`Order`).  `UpgradesFit` then says of each statement, looking only at the
script and the ancestors, that what it refers to is there, so it can fail over rows
only.  A downgrade is either right (`Undoes`) or `Doomed`, and a doomed statement fails
wherever the script is run from: that is why the wrong downgrades (those of
864df66fbeb7, ed6aad565b56 and 7ba4c8acd02e) do no harm beyond failing.  The conditions
are of files, not of executions; a new revision that breaks one of them, say by adding
what a parallel branch adds, fails the run `migrations` at its assumption.

*Access tokens.*  `EndsAfterCommit` bounds the remaining time a logout has computed from
below by what remains when it is used, however late; `KeyOutlives` is the arithmetic:
a key of whole seconds from any tick on ends no sooner than the second `exp` begins.
`KeyCoversExp` carries that over to a second logout of the same token, and
`RejectedToTheEnd` applies it to the token `Lookup` extracted, which is the one that
`ResolveToken` returns unless the header is broken.  `KeysOfLogouts` names the logout
behind every key; it has a committed revocation behind it (`EndsAfterCommit`).

*Workspaces.*  `InOwnWorkspace`: a resolved workspace is the request's own or one its
user is a member of.  `CountedAreThere`: between the two statements of a search the
workspace only grows, so a page before `total_pages` still has rows (`PageStart`,
`PageHasRows`).

*Accounts.*  `Unique` is the index, including accounts inserted and not yet committed;
`FreshProfile`, that a callback on its way to make an account still carries the address of
its identity, unless that one is in `moved`.  So two callbacks of an identity that has not
moved want the same address, and one of them at most inserts (`OneAccount`).  An identity
with two links is in `moved` (`SeveralLinks`), which is what `Reasons` needs for callbacks
that fail at their first `SELECT`.

Only model-checked: `EveryRequestEnds`, as liveness under fairness is beyond the prover
(`WaitingEnds` and `NoDeadlock` are the part of it that is a matter of states), and what
the recursive function in `Ancestors` computes: the proofs assume that it is an order
closed under parents (`AncestorsAreOrder`), and the run `migrations` evaluates it.

## Not modelled, and why

Hashes and random tokens are names: distinct, unguessable, never equal by accident.
Passwords are named by the reset that set them.  Rate limits, envelopes, cookies set on
responses, email contents, signature checks and the deletion of users (no code deletes
one) are left out, and so are clock skew between hosts and a Redis that loses its keys.
Serialization failures do not occur at READ COMMITTED.

## Plan

1. Abstract specifications of `Workspaces` and `Accounts` (one account per address, one
   book of interviews per user), and that the requests implement them.
2. The start of a Google login: the `oauth_state` cookie and the exchange of the code,
   so that two tabs of one browser, or a callback that is loaded twice, are covered.
3. Liveness of `OneTimeTokens` (every issuer and redeemer ends), from `NoCircle`.
4. A composition of `AccessTokens` and `RefreshSessions` in which a logout that commits
   and then dies meets a refresh.
