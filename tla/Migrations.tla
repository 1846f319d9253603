------------------------------ MODULE Migrations ------------------------------
(***************************************************************************)
(* The database schema and the Alembic revisions that change it, run by     *)
(* alembic/env.py while the tables are in use, for any history of revisions. *)
(* (Revisions has the one of this repository.)                              *)
(*                                                                          *)
(* env.py runs all the revisions of one command in ONE transaction, so a    *)
(* command takes effect at its commit or, if any statement fails, not at    *)
(* all (PostgreSQL rolls back DDL).  Statements run one at a time and a     *)
(* table that one has altered is locked for everybody else until the end;   *)
(* the other tables are in use between the statements.  Two commands never  *)
(* overlap here: one operator runs them.                                    *)
(***************************************************************************)
EXTENDS Naturals, Sequences, FiniteSets, Statements

CONSTANTS
    Table,      \* the tables
    Fillable,   \* those whose rows matter to a revision
    File,       \* revision -> the revisions it revises, its upgrade and downgrade
    ModelsNeed  \* the cells that the code of the newest release relies on

Revision == DOMAIN File

\* The revisions a revision builds on, at any distance.
Ancestors ==
    LET Above[r \in Revision] == UNION {{p} \cup Above[p] : p \in File[r].parents}
    IN  [r \in Revision |-> Above[r]]

\* (Fault: of a merge's parents only one is followed.)
DescendantsByOneParent ==
    LET Line[r \in Revision] ==
            IF File[r].parents = {} THEN {}
            ELSE LET p == CHOOSE p \in File[r].parents : TRUE IN {p} \cup Line[p]
    IN  [r \in Revision |-> {q \in Revision : r \in Line[q]}]

Descendants == [r \in Revision |-> {q \in Revision : r \in Ancestors[q]}]

\* The cells that an upgrade adds, and those of others that it removes.
Made == [r \in Revision |->
            UNION {Adds(File[r].up[i]) : i \in DOMAIN File[r].up}]
Unmade == [r \in Revision |->
            {cell \in UNION {Made[q] : q \in Revision} :
                \E i \in DOMAIN File[r].up : Removes(File[r].up[i], cell)}]

\* "alembic upgrade head" needs there to be one.
ASSUME OneHead ==
    Cardinality({r \in Revision : \A q \in Revision : r \notin File[q].parents}) = 1

\* No revision's script is under way.
Nothing == "none"
ASSUME NothingIsNone == Nothing \notin Revision

-----------------------------------------------------------------------------
(* The database and the command under way.                                  *)

VARIABLES
    applied,    \* revisions alembic_version stands for: its rows and their ancestors
    schema,     \* the committed schema
    filled,     \* tables of Fillable that have committed rows
    mode,       \* the command under way: "none", "up" or "down"
    todo,       \* the revisions it is to run
    ran,        \* those it has run in its transaction
    now,        \* the one whose script it is running
    at,         \* the statements of this script that are done
    work,       \* the schema as its transaction sees it
    outcome     \* how the last command ended

committed == <<applied, schema, filled>>
script    == <<now, at>>
command   == <<mode, todo, ran, script, work>>
vars      == <<committed, command, outcome>>

Outcome == [mode : {"none", "up", "down"}, error : {"none", "statement", "rows"}]

TypeOK ==
    /\ applied \subseteq Revision
    /\ \A cell \in schema \cup work : cell[1] \in Table
    /\ filled \subseteq Fillable
    /\ mode \in {"none", "up", "down"}
    /\ todo \subseteq Revision
    /\ ran \subseteq todo
    /\ now \in (todo \ ran) \cup {Nothing}
    /\ at \in Nat
    /\ outcome \in Outcome

\* An empty database.
Init ==
    /\ applied = {} /\ schema = {} /\ filled = {}
    /\ mode = "none" /\ todo = {} /\ ran = {} /\ work = {}
    /\ now = Nothing /\ at = 0
    /\ outcome = [mode |-> "none", error |-> "none"]

Script(r) == IF mode = "up" THEN File[r].up ELSE File[r].down

\* The tables that the transaction has altered, and so locked.
Locked ==
    {t \in Table :
        \/ \E r \in ran : \E i \in DOMAIN Script(r) : t \in Script(r)[i].on
        \/ now # Nothing /\ \E i \in 1..at : t \in Script(now)[i].on}

-----------------------------------------------------------------------------
(* Commands.                                                                *)

Begin(how, revisions) ==
    /\ mode = "none"
    /\ revisions # {}
    /\ mode' = how
    /\ todo' = revisions
    /\ ran' = {}
    /\ work' = schema
    /\ UNCHANGED <<committed, script, outcome>>

\* alembic upgrade r
BeginUpgrade(r) == Begin("up", ({r} \cup Ancestors[r]) \ applied)

\* alembic downgrade r
BeginDowngrade(r) == r \in applied /\ Begin("down", Descendants[r] \cap applied)

\* alembic downgrade base
BeginDowngradeBase == Begin("down", applied)

\* The transaction is over and the operator may give the next command.
End(error) ==
    /\ mode' = "none" /\ todo' = {} /\ ran' = {} /\ work' = {}
    /\ now' = Nothing /\ at' = 0
    /\ outcome' = [mode |-> mode, error |-> error]

\* (Fault: a database that commits each DDL statement on its own.)
RollbackKeepsTables(error) == End(error) /\ schema' = work /\ UNCHANGED <<applied, filled>>

Rollback(error) == End(error) /\ UNCHANGED committed

Start(r) ==
    /\ r \in todo \ ran /\ now = Nothing
    /\ now' = r /\ at' = 0
    /\ UNCHANGED <<committed, mode, todo, ran, work, outcome>>

\* (Fault: revisions run in any order.)
UpgradeAnyOrder(r) == mode = "up" /\ Start(r)

\* Revisions run after those they revise ...
Upgrade(r) ==
    /\ mode = "up"
    /\ File[r].parents \subseteq applied \cup ran
    /\ Start(r)

\* (Fault: revisions are undone in the order they were made.)
DowngradeOldestFirst(r) ==
    /\ mode = "down"
    /\ Ancestors[r] \cap todo \subseteq ran
    /\ Start(r)

\* ... and are undone before them.
Downgrade(r) ==
    /\ mode = "down"
    /\ Descendants[r] \cap applied \subseteq ran
    /\ Start(r)

\* (Fault: a statement that fails is passed over.)
ExecuteAnyway(op) ==
    /\ work' = IF Fits(op, work) /\ ~Blocked(op, filled) THEN Effect(op, work) ELSE work
    /\ at' = at + 1
    /\ UNCHANGED <<committed, mode, todo, ran, now, outcome>>

\* One statement; if it fails, so does the command.
Execute(op) ==
    \/ ~Fits(op, work) /\ Rollback("statement")
    \/ Fits(op, work) /\ Blocked(op, filled) /\ Rollback("rows")
    \/ /\ Fits(op, work) /\ ~Blocked(op, filled)
       /\ work' = Effect(op, work)
       /\ at' = at + 1
       /\ UNCHANGED <<committed, mode, todo, ran, now, outcome>>

Step == now # Nothing /\ at < Len(Script(now)) /\ Execute(Script(now)[at + 1])

\* The end of the script: alembic_version is updated.
Finish ==
    /\ now # Nothing /\ at = Len(Script(now))
    /\ ran' = ran \cup {now}
    /\ now' = Nothing /\ at' = 0
    /\ UNCHANGED <<committed, mode, todo, work, outcome>>

\* COMMIT, alembic_version included.  A dropped table loses its rows.
Commit ==
    /\ mode # "none" /\ ran = todo
    /\ applied' = IF mode = "up" THEN applied \cup todo ELSE applied \ todo
    /\ schema' = work
    /\ filled' = {t \in filled : <<t, "itself">> \in work}
    /\ End("none")

\* The process or the connection dies before the COMMIT.
Die == mode # "none" /\ Rollback("none")

-----------------------------------------------------------------------------
(* Traffic, served by the release that goes with the committed schema.      *)

Serve(rows) ==
    /\ filled' = rows
    /\ UNCHANGED <<applied, schema, command, outcome>>

\* A login inserts a session; somebody joins the waitlist.
Insert(t) ==
    /\ <<t, "itself">> \in schema
    /\ t \notin Locked
    /\ Serve(filled \cup {t})

\* The last session is logged out.  Nobody ever leaves the waitlist.
LastLogout ==
    /\ "active_sessions" \in filled \ Locked
    /\ Serve(filled \ {"active_sessions"})

Next ==
    \/ \E r \in Revision :
         BeginUpgrade(r) \/ BeginDowngrade(r) \/ Upgrade(r) \/ Downgrade(r)
    \/ BeginDowngradeBase \/ Step \/ Finish \/ Commit \/ Die
    \/ \E t \in Fillable : Insert(t)
    \/ LastLogout

Spec == Init /\ [][Next]_vars

-----------------------------------------------------------------------------
(* Properties.                                                              *)

\* A revision is never applied without all those it builds on, whichever
\* branch a command was aimed at and however the merges join the branches.
AppliedIsClosed ==
    \A r \in applied : Ancestors[r] \subseteq applied

\* What these revisions make, less what they remove.
SchemaOf(revisions) ==
    {cell \in UNION {Made[r] : r \in revisions} :
        \A r \in revisions : cell \notin Unmade[r]}

\* The schema is a function of the revisions applied, not of the way there:
\* the order in which the branches were run, commands that failed or died in
\* the middle, and downgrades that were taken back leave no trace.
SchemaIsOfApplied == schema = SchemaOf(applied)

\* Upgrades of any database that the revisions themselves have made fail for
\* one reason only, the rows of a table that is to get a column NOT NULL: no
\* branch adds what another has added, or misses what another has dropped.
\* Once the columns are there no upgrade fails.
UpgradeFailsOnlyOverRows ==
    outcome.mode = "up" /\ outcome.error # "none" =>
        /\ outcome.error = "rows"
        /\ \E r \in Revision \ applied : \E i \in DOMAIN File[r].up :
              File[r].up[i].kind = "not null"

\* A database at the head has what the models rely on: the unique columns
\* whose IntegrityError settles a race of two requests, and time zones in
\* every column that is compared with datetime.now(timezone.utc).
HeadMatchesModels == applied = Revision => ModelsNeed \subseteq schema

\* "alembic downgrade base | Wipe everything (dev only)"
DowngradeWorks ==
    ~(outcome.mode = "down" /\ outcome.error # "none")
=============================================================================
