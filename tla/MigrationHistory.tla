--------------------------- MODULE MigrationHistory ---------------------------
(***************************************************************************)
(* What a history of revisions must be like for Migrations to keep its      *)
(* promises: conditions on one script, or on two revisions, that can be     *)
(* looked up in the files, and the invariant that they are enough for.      *)
(***************************************************************************)
EXTENDS Migrations

Kind == New \cup {"drop table", "drop", "aware", "naive", "unnamed"}
Statement == [kind : Kind, on : SUBSET Table, part : STRING]

ASSUME FilesAreScripts ==
    \A r \in Revision :
        /\ File[r].parents \subseteq Revision
        /\ File[r].up \in Seq(Statement) /\ File[r].down \in Seq(Statement)

\* The graph of the revisions has no circle.
ASSUME AncestorsAreOrder ==
    \A r \in Revision :
        /\ Ancestors[r] = UNION {{p} \cup Ancestors[p] : p \in File[r].parents}
        /\ Ancestors[r] \subseteq Revision
        /\ \A q \in Ancestors[r] : Ancestors[q] \subseteq Ancestors[r]
        /\ r \notin Ancestors[r]

\* Two revisions make no cell in common and remove none in common, and a cell
\* is removed only by revisions that build on the one that makes it.
ASSUME OneMaker ==
    \A r, q \in Revision :
        /\ r # q => Made[r] \cap Made[q] = {}
        /\ r # q => Unmade[r] \cap Unmade[q] = {}
        /\ Made[r] \cap Unmade[q] # {} => r \in Ancestors[q]

\* No statement takes back what an earlier one of the same script has done.
ASSUME ScriptsGoForward ==
    \A r \in Revision : \A script1 \in {File[r].up, File[r].down} :
        \A j \in DOMAIN script1 : \A i \in 1..(j - 1) :
            \A cell \in Adds(script1[i]) : ~Removes(script1[j], cell)

\* What a statement of an upgrade refers to is there: an earlier one has added
\* it, or a revision it builds on has, and if ever it is removed then by this
\* revision later on or by one that builds on this.  What it is to create is
\* not there yet.
ASSUME UpgradesFit ==
    \A r \in Revision : \A i \in DOMAIN File[r].up :
        LET op == File[r].up[i]
            Earlier == {File[r].up[j] : j \in 1..(i - 1)} IN
        /\ op.kind \notin {"unnamed", "drop table"}
        /\ op.kind \in New => \A before \in Earlier : Cells(op) \cap Adds(before) = {}
        /\ \A cell \in Needs(op) :
              \/ \E before \in Earlier : cell \in Adds(before)
              \/ /\ \E q \in Ancestors[r] : cell \in Made[q]
                 /\ \A before \in Earlier : ~Removes(before, cell)
                 /\ \A q \in Revision : cell \in Unmade[q] => q = r \/ r \in Ancestors[q]

\* A statement of a downgrade that cannot succeed: it drops a constraint
\* without a name, or creates what is there before it and nobody removes.
Doomed(r, j) ==
    LET op == File[r].down[j] IN
    \/ op.kind = "unnamed"
    \/ /\ op.kind \in New
       /\ \E cell \in Cells(op) :
             /\ \E q \in Ancestors[r] : cell \in Made[q]
             /\ \A q \in Revision : cell \notin Unmade[q]
             /\ \A i \in 1..(j - 1) : ~Removes(File[r].down[i], cell)

\* A downgrade takes back what the upgrade has done, and no more unless it is
\* of a revision that builds on this one.
Undoes(r) ==
    LET down == File[r].down IN
    /\ UNION {Adds(down[j]) : j \in DOMAIN down} = Unmade[r]
    /\ \A cell \in Made[r] : \E j \in DOMAIN down : Removes(down[j], cell)
    /\ \A q \in Revision : \A cell \in Made[q] : \A j \in DOMAIN down :
          Removes(down[j], cell) => q = r \/ r \in Ancestors[q]

ASSUME DowngradesUndoOrFail ==
    \A r \in Revision : Undoes(r) \/ \E j \in DOMAIN File[r].down : Doomed(r, j)

ASSUME HeadIsWhatModelsNeed == ModelsNeed \subseteq SchemaOf(Revision)

-----------------------------------------------------------------------------
(* The inductive invariant.                                                 *)

Closed(revisions) == \A r \in revisions : Ancestors[r] \subseteq revisions

\* The revisions whose scripts have taken effect in the transaction.
Effective == IF mode = "up" THEN applied \cup ran ELSE applied \ ran

\* The transaction's schema in the middle of a script.
Between(r, k) ==
    {cell \in SchemaOf(Effective) : \A i \in 1..k : ~Removes(Script(r)[i], cell)}
    \cup UNION {Adds(Script(r)[i]) : i \in 1..k}

\* The revisions run in the order of their ancestry, here and at the end.
Order ==
    /\ mode = "none" => todo = {} /\ now = Nothing /\ at = 0
    /\ mode = "up" =>
          /\ todo \cap applied = {} /\ Closed(applied \cup todo)
          /\ now # Nothing => File[now].parents \subseteq Effective
    /\ mode = "down" =>
          /\ todo \subseteq applied /\ Closed(applied \ todo)
          /\ now # Nothing => Descendants[now] \cap applied \subseteq ran
          /\ \A r \in ran : Undoes(r)
    /\ mode # "none" => Closed(Effective)

\* What the transaction sees is the schema of the revisions it has run and,
\* within a script, that of the statements it has run.
Progress ==
    /\ mode # "none" /\ now = Nothing => work = SchemaOf(Effective)
    /\ now # Nothing =>
          /\ at <= Len(Script(now))
          /\ work = Between(now, at)
          /\ mode = "down" => \A j \in 1..at : ~Doomed(now, j)
    /\ mode = "none" => work = {}

\* At every point of a command, whichever revisions it runs and in whatever
\* order, its transaction sees what they and the statements so far make.
CommandInv == TypeOK /\ Order /\ Progress

MigrationsInv ==
    CommandInv /\ AppliedIsClosed /\ SchemaIsOfApplied /\ UpgradeFailsOnlyOverRows

\* No way back from a revision whose downgrade is wrong: what leaves the
\* database has been taken back, statement by statement, and all revisions
\* below it stay, for their downgrades come after it in the same transaction.
OnlyUndoneLeave == [][\A r \in applied \ applied' : Undoes(r)]_vars
=============================================================================
