--------------------------- MODULE MigrationsProofs ---------------------------
(***************************************************************************)
(* Migrations keeps its promises on every history of revisions that meets   *)
(* the conditions of MigrationHistory, whatever its size and its branches.  *)
(***************************************************************************)
EXTENDS MigrationHistory, TLAPS

-----------------------------------------------------------------------------
(* What the conditions say of the schema.                                   *)

LEMMA InSchema ==
    ASSUME NEW B, NEW cell
    PROVE  cell \in SchemaOf(B) <=> /\ \E r \in B : cell \in Made[r]
                                   /\ \A r \in B : cell \notin Unmade[r]
BY DEF SchemaOf

LEMMA AncestorsApplied ==
    ASSUME NEW B, B \subseteq Revision, Closed(B),
           NEW r \in Revision, File[r].parents \subseteq B
    PROVE  Ancestors[r] \subseteq B
BY AncestorsAreOrder DEF Closed

\* Running the upgrade of r adds what it makes and removes what it unmakes.
LEMMA SchemaOfUpgraded ==
    ASSUME NEW B, B \subseteq Revision, Closed(B), NEW r \in Revision \ B
    PROVE  SchemaOf(B \cup {r}) = {cell \in SchemaOf(B) : cell \notin Unmade[r]} \cup Made[r]
<1>1. ASSUME NEW cell \in Made[r], NEW q \in B \cup {r} PROVE cell \notin Unmade[q]
  BY AncestorsAreOrder, OneMaker DEF Closed
<1> SUFFICES ASSUME NEW cell
             PROVE  cell \in SchemaOf(B \cup {r}) <=>
                        (cell \in SchemaOf(B) /\ cell \notin Unmade[r]) \/ cell \in Made[r]
  OBVIOUS
<1> QED BY <1>1, InSchema

\* ... and running its downgrade takes both back.
LEMMA SchemaOfDowngraded ==
    ASSUME NEW B, B \subseteq Revision, Closed(B), NEW r \in B,
           \A q \in B : r \notin Ancestors[q]
    PROVE  SchemaOf(B \ {r}) = {cell \in SchemaOf(B) : cell \notin Made[r]} \cup Unmade[r]
<1>1. ASSUME NEW cell \in Unmade[r]
      PROVE  /\ \E q \in B \ {r} : cell \in Made[q]
             /\ \A q \in B \ {r} : cell \notin Unmade[q]
  <2>1. PICK q \in Revision : cell \in Made[q]
    BY DEF Unmade
  <2>2. q \in Ancestors[r]
    BY <2>1, OneMaker
  <2>3. q \in B \ {r}
    BY <2>2, AncestorsAreOrder DEF Closed
  <2> QED BY <2>1, <2>3, OneMaker
<1>2. \A cell \in Made[r] : \A q \in B \ {r} : cell \notin Made[q]
  BY OneMaker
<1> SUFFICES ASSUME NEW cell
             PROVE  cell \in SchemaOf(B \ {r}) <=>
                        (cell \in SchemaOf(B) /\ cell \notin Made[r]) \/ cell \in Unmade[r]
  OBVIOUS
<1> QED BY <1>1, <1>2, InSchema

\* The types of a script's parts.
LEMMA ScriptType ==
    ASSUME NEW r \in Revision
    PROVE  /\ Script(r) \in Seq(Statement)
           /\ Len(Script(r)) \in Nat /\ DOMAIN Script(r) = 1..Len(Script(r))
           /\ \A i \in 1..Len(Script(r)) : Script(r)[i] \in Statement
<1>1. Script(r) \in Seq(Statement)
  BY FilesAreScripts DEF Script
<1> QED BY <1>1

\* One more statement of a script has run.
LEMMA OneStatement ==
    ASSUME NEW r \in Revision, NEW k \in Nat, k < Len(Script(r))
    PROVE  Between(r, k + 1) = Effect(Script(r)[k + 1], Between(r, k))
<1> DEFINE op == Script(r)[k + 1]
<1>1. 1..(k + 1) = (1..k) \cup {k + 1} /\ k + 1 \in DOMAIN Script(r) /\ (k + 1) - 1 = k
  BY ScriptType
<1>2. \A i \in 1..k : \A cell \in Adds(Script(r)[i]) : ~Removes(op, cell)
  BY <1>1, ScriptsGoForward DEF Script
<1> QED BY <1>1, <1>2 DEF Between, Effect

\* The whole script has run.
LEMMA WholeScript ==
    ASSUME NEW r \in Revision, NEW B, B \subseteq Revision, NEW way,
           way = File[r].up \/ way = File[r].down,
           NEW cell
    PROVE  /\ cell \in UNION {Adds(way[i]) : i \in 1..Len(way)}
                <=> \E i \in DOMAIN way : cell \in Adds(way[i])
           /\ (\A i \in 1..Len(way) : ~Removes(way[i], cell))
                <=> \A i \in DOMAIN way : ~Removes(way[i], cell)
<1>1. way \in Seq(Statement)
  BY FilesAreScripts
<1>2. DOMAIN way = 1..Len(way)
  BY <1>1
<1> QED BY <1>2

LEMMA UpgradeDone ==
    ASSUME mode = "up", NEW r \in Revision, Effective \subseteq Revision,
           Closed(Effective), r \notin Effective
    PROVE  Between(r, Len(Script(r))) = SchemaOf(Effective \cup {r})
<1> DEFINE up == File[r].up
<1>1. Script(r) = up
  BY DEF Script
<1> SUFFICES ASSUME NEW cell
             PROVE  cell \in Between(r, Len(up)) <=> cell \in SchemaOf(Effective \cup {r})
  BY <1>1
<1>2. cell \in Made[r] <=> \E i \in DOMAIN up : cell \in Adds(up[i])
  BY DEF Made
<1>3. cell \in SchemaOf(Effective) =>
        (cell \in Unmade[r] <=> \E i \in DOMAIN up : Removes(up[i], cell))
  BY DEF SchemaOf, Unmade
<1>4. cell \in Between(r, Len(up)) <=>
        \/ cell \in SchemaOf(Effective) /\ \A i \in DOMAIN up : ~Removes(up[i], cell)
        \/ \E i \in DOMAIN up : cell \in Adds(up[i])
  BY <1>1, WholeScript DEF Between
<1>5. cell \in SchemaOf(Effective \cup {r}) <=>
        (cell \in SchemaOf(Effective) /\ cell \notin Unmade[r]) \/ cell \in Made[r]
  BY SchemaOfUpgraded
<1> QED BY <1>2, <1>3, <1>4, <1>5

LEMMA DowngradeDone ==
    ASSUME mode = "down", NEW r \in Effective, Effective \subseteq Revision,
           Closed(Effective), \A q \in Effective : r \notin Ancestors[q],
           \A j \in DOMAIN File[r].down : ~Doomed(r, j)
    PROVE  Between(r, Len(Script(r))) = SchemaOf(Effective \ {r})
<1> DEFINE down == File[r].down
<1>1. Script(r) = down
  BY DEF Script
<1> SUFFICES ASSUME NEW cell
             PROVE  cell \in Between(r, Len(down)) <=> cell \in SchemaOf(Effective \ {r})
  BY <1>1
<1>2. Undoes(r)
  BY DowngradesUndoOrFail
<1>3. cell \in Unmade[r] <=> \E j \in DOMAIN down : cell \in Adds(down[j])
  BY <1>2 DEF Undoes
<1>4. cell \in SchemaOf(Effective) =>
        (cell \in Made[r] <=> \E j \in DOMAIN down : Removes(down[j], cell))
  <2>1. cell \in Made[r] => \E j \in DOMAIN down : Removes(down[j], cell)
    BY <1>2 DEF Undoes
  <2>2. ASSUME NEW q \in Effective, cell \in Made[q],
               NEW j \in DOMAIN down, Removes(down[j], cell)
        PROVE  cell \in Made[r]
    BY <1>2, <2>2 DEF Undoes
  <2> QED BY <2>1, <2>2, InSchema
<1>5. cell \in Between(r, Len(down)) <=>
        \/ cell \in SchemaOf(Effective) /\ \A j \in DOMAIN down : ~Removes(down[j], cell)
        \/ \E j \in DOMAIN down : cell \in Adds(down[j])
  BY <1>1, WholeScript DEF Between
<1>6. cell \in SchemaOf(Effective \ {r}) <=>
        (cell \in SchemaOf(Effective) /\ cell \notin Made[r]) \/ cell \in Unmade[r]
  BY SchemaOfDowngraded
<1> QED BY <1>3, <1>4, <1>5, <1>6

\* In an upgrade every statement is accepted, but for the rows in its way.
LEMMA UpgradeStatementFits ==
    ASSUME mode = "up", NEW r \in Revision, Effective \subseteq Revision,
           Closed(Effective), r \notin Effective, File[r].parents \subseteq Effective,
           NEW k \in Nat, k < Len(Script(r))
    PROVE  Fits(Script(r)[k + 1], Between(r, k))
<1> DEFINE up == File[r].up
           op == up[k + 1]
           Earlier == {up[j] : j \in 1..k}
<1>1. Script(r) = up /\ k + 1 \in DOMAIN up /\ (k + 1) - 1 = k
  BY ScriptType DEF Script
<1>2. /\ op.kind \notin {"unnamed", "drop table"}
      /\ op.kind \in New => \A before \in Earlier : Cells(op) \cap Adds(before) = {}
      /\ \A cell \in Needs(op) :
            \/ \E before \in Earlier : cell \in Adds(before)
            \/ /\ \E q \in Ancestors[r] : cell \in Made[q]
               /\ \A before \in Earlier : ~Removes(before, cell)
               /\ \A q \in Revision : cell \in Unmade[q] => q = r \/ r \in Ancestors[q]
  BY <1>1, UpgradesFit
<1>3. \A cell : cell \in Between(r, k) <=>
          \/ cell \in SchemaOf(Effective) /\ \A before \in Earlier : ~Removes(before, cell)
          \/ \E before \in Earlier : cell \in Adds(before)
  BY <1>1 DEF Between
<1>4. Ancestors[r] \subseteq Effective
  BY AncestorsApplied
<1>5. ASSUME NEW cell \in Needs(op) PROVE cell \in Between(r, k)
  <2>1. CASE \E before \in Earlier : cell \in Adds(before)
    BY <2>1, <1>3
  <2>2. CASE /\ \E q \in Ancestors[r] : cell \in Made[q]
             /\ \A before \in Earlier : ~Removes(before, cell)
             /\ \A q \in Revision : cell \in Unmade[q] => q = r \/ r \in Ancestors[q]
    <3>1. \A q \in Effective : cell \notin Unmade[q]
      BY <2>2 DEF Closed
    <3>2. cell \in SchemaOf(Effective)
      BY <1>4, <2>2, <3>1, InSchema
    <3> QED BY <1>3, <2>2, <3>2
  <2> QED BY <1>2, <2>1, <2>2
<1>6. ASSUME op.kind \in New, NEW cell \in Cells(op) PROVE cell \notin Between(r, k)
  <2>1. cell \in Made[r]
    BY <1>1, <1>6 DEF Made, Adds, New
  <2>2. cell \notin SchemaOf(Effective)
    BY <2>1, OneMaker, InSchema
  <2>3. \A before \in Earlier : cell \notin Adds(before)
    BY <1>2, <1>6
  <2> QED BY <1>3, <2>2, <2>3
<1> QED BY <1>1, <1>2, <1>5, <1>6 DEF Fits

\* A statement that is doomed is never accepted.
LEMMA DoomedFails ==
    ASSUME mode = "down", NEW r \in Effective, Effective \subseteq Revision, Closed(Effective),
           NEW k \in Nat, k < Len(Script(r)), Doomed(r, k + 1)
    PROVE  ~Fits(Script(r)[k + 1], Between(r, k))
<1> DEFINE down == File[r].down
           op == down[k + 1]
<1>1. Script(r) = down /\ (k + 1) - 1 = k
  BY DEF Script
<1>2. CASE op.kind = "unnamed"
  BY <1>1, <1>2 DEF Fits
<1>3. CASE op.kind \in New /\ op.kind # "unnamed"
  <2>1. PICK cell \in Cells(op) :
             /\ \E q \in Ancestors[r] : cell \in Made[q]
             /\ \A q \in Revision : cell \notin Unmade[q]
             /\ \A i \in 1..k : ~Removes(down[i], cell)
    BY <1>1, <1>3 DEF Doomed
  <2>2. cell \in SchemaOf(Effective)
    BY <2>1, InSchema DEF Closed
  <2>3. cell \in Between(r, k)
    BY <1>1, <2>1, <2>2 DEF Between
  <2> QED BY <1>1, <1>3, <2>3 DEF Fits
<1> QED BY <1>2, <1>3 DEF Doomed

-----------------------------------------------------------------------------
(* The steps.                                                               *)

LEMMA InitInv == Init => MigrationsInv
<1> SUFFICES ASSUME Init PROVE MigrationsInv
  OBVIOUS
<1> USE DEF Init
<1>1. TypeOK
  BY DEF TypeOK, Outcome
<1>2. SchemaOf(applied) = {}
  BY DEF SchemaOf
<1> QED BY <1>1, <1>2 DEF MigrationsInv, CommandInv, AppliedIsClosed, SchemaIsOfApplied,
     UpgradeFailsOnlyOverRows, Order, Progress

\* What the invariant says of a script under way.
LEMMA UnderWay ==
    ASSUME MigrationsInv, now # Nothing
    PROVE  /\ now \in Revision /\ now \in todo \ ran /\ mode \in {"up", "down"}
           /\ Effective \subseteq Revision /\ Closed(Effective)
           /\ mode = "up" => now \notin Effective /\ File[now].parents \subseteq Effective
           /\ mode = "down" => now \in Effective /\ \A q \in Effective : now \notin Ancestors[q]
<1> USE DEF MigrationsInv, CommandInv
<1>1. now \in Revision /\ now \in todo \ ran /\ mode \in {"up", "down"}
  BY DEF TypeOK, Order
<1>2. Effective \subseteq Revision /\ Closed(Effective)
  BY <1>1 DEF TypeOK, Order, Effective
<1>3. mode = "up" => now \notin Effective /\ File[now].parents \subseteq Effective
  BY <1>1 DEF Order, Effective
<1>4. mode = "down" => now \in Effective /\ \A q \in Effective : now \notin Ancestors[q]
  BY <1>1, <1>2 DEF Order, Effective, Descendants
<1> QED BY <1>1, <1>2, <1>3, <1>4

\* What a command does not change as long as it is under way.
LEMMA CommittedStay ==
    ASSUME AppliedIsClosed, SchemaIsOfApplied, UpgradeFailsOnlyOverRows,
           UNCHANGED <<applied, schema, outcome>>
    PROVE  AppliedIsClosed' /\ SchemaIsOfApplied' /\ UpgradeFailsOnlyOverRows'
BY DEF AppliedIsClosed, SchemaIsOfApplied, UpgradeFailsOnlyOverRows

LEMMA BeginUpgradeInv ==
    ASSUME MigrationsInv, NEW r \in Revision, BeginUpgrade(r)
    PROVE  MigrationsInv'
<1> USE DEF MigrationsInv, CommandInv, BeginUpgrade, Begin, committed, script
<1>1. TypeOK'
  BY AncestorsAreOrder DEF TypeOK, Order
<1>2. AppliedIsClosed' /\ SchemaIsOfApplied' /\ UpgradeFailsOnlyOverRows'
  BY CommittedStay
<1>3. Closed(applied) /\ Effective' = applied
  BY DEF AppliedIsClosed, Closed, Effective
<1>4. Closed(applied \cup todo')
  BY AncestorsAreOrder DEF AppliedIsClosed, Closed
<1>5. now' = Nothing
  BY DEF Order
<1>6. Order'
  BY <1>3, <1>4, <1>5 DEF Order, Closed
<1>7. Progress'
  BY <1>3, <1>5 DEF Progress, SchemaIsOfApplied
<1> QED BY <1>1, <1>2, <1>6, <1>7

LEMMA BeginDowngradeInv ==
    ASSUME MigrationsInv, NEW revisions, revisions \subseteq applied,
           Closed(applied \ revisions), Begin("down", revisions)
    PROVE  MigrationsInv'
<1> USE DEF MigrationsInv, CommandInv, Begin, committed, script
<1>1. TypeOK'
  BY DEF TypeOK, Order
<1>2. AppliedIsClosed' /\ SchemaIsOfApplied' /\ UpgradeFailsOnlyOverRows'
  BY CommittedStay
<1>3. Closed(applied) /\ Effective' = applied
  BY DEF AppliedIsClosed, Closed, Effective
<1>4. now' = Nothing
  BY DEF Order
<1>5. Order'
  BY <1>3, <1>4 DEF Order, Closed
<1>6. Progress'
  BY <1>3, <1>4 DEF Progress, SchemaIsOfApplied
<1> QED BY <1>1, <1>2, <1>5, <1>6

LEMMA StartInv ==
    ASSUME MigrationsInv, NEW r \in Revision, Upgrade(r) \/ Downgrade(r)
    PROVE  MigrationsInv'
<1> USE DEF MigrationsInv, CommandInv, Upgrade, Downgrade, Start, committed
<1>1. TypeOK'
  BY NothingIsNone DEF TypeOK
<1>2. AppliedIsClosed' /\ SchemaIsOfApplied' /\ UpgradeFailsOnlyOverRows'
  BY CommittedStay
<1>3. Effective' = Effective /\ Script(r)' = Script(r)
  BY DEF Effective, Script
<1>4. Order'
  BY <1>3, NothingIsNone DEF Order, Closed, Effective
<1>5. Between(r, 0)' = SchemaOf(Effective)
  BY <1>3 DEF Between
<1>6. Progress'
  BY <1>3, <1>5, NothingIsNone, ScriptType DEF Progress
<1> QED BY <1>1, <1>2, <1>4, <1>6

\* A command that ends without its commit leaves what it has found.
LEMMA RollbackInv ==
    ASSUME MigrationsInv, mode # "none", NEW error, Rollback(error),
           error \in {"none", "statement", "rows"},
           mode = "up" /\ error # "none" =>
              /\ error = "rows"
              /\ \E r \in Revision \ applied : \E i \in DOMAIN File[r].up :
                    File[r].up[i].kind = "not null"
    PROVE  MigrationsInv'
<1> USE DEF MigrationsInv, CommandInv, Rollback, End, committed
<1>1. TypeOK'
  BY DEF TypeOK, Outcome
<1>2. AppliedIsClosed' /\ SchemaIsOfApplied'
  BY DEF AppliedIsClosed, SchemaIsOfApplied
<1>3. UpgradeFailsOnlyOverRows'
  BY DEF UpgradeFailsOnlyOverRows
<1>4. Order' /\ Progress'
  BY DEF Order, Progress
<1> QED BY <1>1, <1>2, <1>3, <1>4

LEMMA EffectType ==
    ASSUME NEW op \in Statement, NEW s, \A cell \in s : cell[1] \in Table
    PROVE  \A cell \in Effect(op, s) : cell[1] \in Table
<1>1. op.on \subseteq Table
  BY DEF Statement
<1>2. \A cell \in Adds(op) : cell[1] \in Table
  BY <1>1 DEF Adds, Cells, New
<1> QED BY <1>2 DEF Effect

LEMMA StepInv ==
    ASSUME MigrationsInv, Step
    PROVE  MigrationsInv'
<1> DEFINE op == Script(now)[at + 1]
<1> USE DEF MigrationsInv, CommandInv
<1>1. now # Nothing /\ at < Len(Script(now)) /\ at \in Nat /\ Execute(op)
  BY DEF Step, TypeOK
<1>2. /\ now \in Revision /\ now \in todo \ ran /\ mode \in {"up", "down"}
      /\ Effective \subseteq Revision /\ Closed(Effective)
      /\ mode = "up" => now \notin Effective /\ File[now].parents \subseteq Effective
      /\ mode = "down" => now \in Effective /\ \A q \in Effective : now \notin Ancestors[q]
  BY <1>1, UnderWay
<1>3. work = Between(now, at) /\ (mode = "down" => \A j \in 1..at : ~Doomed(now, j))
  BY <1>1 DEF Progress
<1>4. mode = "up" => Fits(op, work)
  BY <1>1, <1>2, <1>3, UpgradeStatementFits
<1>5. at + 1 \in DOMAIN Script(now) /\ op \in Statement
  BY <1>1, <1>2, ScriptType
<1>6. CASE ~Fits(op, work) /\ Rollback("statement")
  BY <1>2, <1>4, <1>6, RollbackInv
<1>7. CASE Fits(op, work) /\ Blocked(op, filled) /\ Rollback("rows")
  <2>1. mode = "up" => now \in Revision \ applied /\ File[now].up[at + 1].kind = "not null"
                      /\ at + 1 \in DOMAIN File[now].up
    BY <1>2, <1>5, <1>7 DEF Blocked, Script, Effective
  <2>2. mode # "none"
    BY <1>2
  <2> QED BY <1>7, <2>1, <2>2, RollbackInv
<1>8. CASE /\ Fits(op, work) /\ work' = Effect(op, work) /\ at' = at + 1
           /\ UNCHANGED <<committed, mode, todo, ran, now, outcome>>
  <2> USE <1>8 DEF committed
  <2>1. TypeOK'
    BY <1>1, <1>5, EffectType DEF TypeOK
  <2>2. AppliedIsClosed' /\ SchemaIsOfApplied' /\ UpgradeFailsOnlyOverRows'
    BY CommittedStay
  <2>3. Effective' = Effective /\ Script(now)' = Script(now)
    BY DEF Effective, Script
  <2>4. Order'
    BY <1>1, <1>2, <2>3 DEF Order
  <2>5. Between(now, at)' = Between(now, at + 1)
    BY <2>3 DEF Between
  <2>6. work' = Between(now, at + 1)
    BY <1>1, <1>2, <1>3, OneStatement
  <2>7. mode = "down" => ~Doomed(now, at + 1)
    BY <1>1, <1>2, <1>3, DoomedFails
  <2>8. mode = "down" => \A j \in 1..(at + 1) : ~Doomed(now, j)
    BY <1>1, <1>3, <2>7
  <2>9. at + 1 <= Len(Script(now))
    BY <1>1, <1>2, ScriptType
  <2> HIDE DEF op
  <2>10. Progress'
    BY <1>1, <1>2, <2>3, <2>5, <2>6, <2>8, <2>9 DEF Progress
  <2> QED BY <2>1, <2>2, <2>4, <2>10
<1> QED BY <1>1, <1>6, <1>7, <1>8 DEF Execute

LEMMA FinishInv ==
    ASSUME MigrationsInv, Finish
    PROVE  MigrationsInv'
<1> USE DEF MigrationsInv, CommandInv, Finish, committed
<1>1. /\ now \in Revision /\ now \in todo \ ran /\ mode \in {"up", "down"}
      /\ Effective \subseteq Revision /\ Closed(Effective)
      /\ mode = "up" => now \notin Effective /\ File[now].parents \subseteq Effective
      /\ mode = "down" => now \in Effective /\ \A q \in Effective : now \notin Ancestors[q]
  BY UnderWay
<1>2. TypeOK'
  BY <1>1 DEF TypeOK
<1>3. AppliedIsClosed' /\ SchemaIsOfApplied' /\ UpgradeFailsOnlyOverRows'
  BY CommittedStay
<1>4. work = Between(now, Len(Script(now)))
  BY DEF Progress
<1>5. CASE mode = "up"
  <2>1. Effective' = Effective \cup {now}
    BY <1>5 DEF Effective
  <2>2. work' = SchemaOf(Effective')
    BY <1>1, <1>4, <1>5, <2>1, UpgradeDone
  <2>3. Closed(Effective')
    BY <1>1, <1>5, <2>1, AncestorsApplied DEF Closed
  <2> QED BY <1>2, <1>3, <1>5, <2>2, <2>3 DEF Order, Progress
<1>6. CASE mode = "down"
  <2>1. Effective' = Effective \ {now}
    BY <1>6 DEF Effective
  <2>2. \A j \in DOMAIN File[now].down : ~Doomed(now, j)
    BY <1>1, <1>6, ScriptType DEF Progress, Script
  <2>3. work' = SchemaOf(Effective')
    BY <1>1, <1>4, <1>6, <2>1, <2>2, DowngradeDone
  <2>4. Closed(Effective')
    BY <1>1, <1>6, <2>1 DEF Closed
  <2>5. \A r \in ran' : Undoes(r)
    BY <1>1, <1>6, <2>2, DowngradesUndoOrFail DEF Order
  <2> QED BY <1>2, <1>3, <1>6, <2>3, <2>4, <2>5 DEF Order, Progress
<1> QED BY <1>1, <1>5, <1>6

LEMMA CommitInv ==
    ASSUME MigrationsInv, Commit
    PROVE  MigrationsInv'
<1> USE DEF MigrationsInv, CommandInv, Commit, End
<1>1. now = Nothing /\ mode \in {"up", "down"}
  BY DEF TypeOK
<1>2. applied' = Effective /\ schema' = SchemaOf(Effective)
  BY <1>1 DEF Effective, Progress
<1>3. TypeOK'
  BY <1>1 DEF TypeOK, Outcome
<1>4. AppliedIsClosed' /\ SchemaIsOfApplied'
  BY <1>1, <1>2 DEF Order, Closed, AppliedIsClosed, SchemaIsOfApplied
<1>5. UpgradeFailsOnlyOverRows'
  BY DEF UpgradeFailsOnlyOverRows
<1>6. Order' /\ Progress'
  BY DEF Order, Progress
<1> QED BY <1>3, <1>4, <1>5, <1>6

\* Requests change rows, and nothing happens.
LEMMA ServeInv ==
    ASSUME MigrationsInv, UNCHANGED <<applied, schema, command, outcome>>,
           filled' \subseteq Fillable
    PROVE  MigrationsInv'
<1> USE DEF MigrationsInv, CommandInv, command, script
<1>1. TypeOK'
  BY DEF TypeOK
<1>2. AppliedIsClosed' /\ SchemaIsOfApplied' /\ UpgradeFailsOnlyOverRows'
  BY CommittedStay
<1>3. Effective' = Effective /\ Between(now, at)' = Between(now, at)
  BY DEF Effective, Between, Script
<1>4. Order' /\ Progress'
  BY <1>3 DEF Order, Progress, Script
<1> QED BY <1>1, <1>2, <1>4

-----------------------------------------------------------------------------
(* The theorems.                                                            *)

\* MigrationsInv holds at every step of every command, on any history.
THEOREM InductiveInvariant == Spec => []MigrationsInv
<1>1. MigrationsInv /\ [Next]_vars => MigrationsInv'
  <2> SUFFICES ASSUME MigrationsInv, [Next]_vars PROVE MigrationsInv'
    OBVIOUS
  <2>1. ASSUME NEW r \in Revision, BeginDowngrade(r) PROVE MigrationsInv'
    <3>1. Closed(applied \ (Descendants[r] \cap applied))
      BY AncestorsAreOrder DEF MigrationsInv, CommandInv, TypeOK, AppliedIsClosed, Closed, Descendants
    <3> QED BY <2>1, <3>1, BeginDowngradeInv DEF BeginDowngrade
  <2>2. BeginDowngradeBase => MigrationsInv'
    <3>1. Closed(applied \ applied)
      BY DEF Closed
    <3> QED BY <3>1, BeginDowngradeInv DEF BeginDowngradeBase
  <2>3. Die => MigrationsInv'
    BY RollbackInv DEF Die
  <2>4. ASSUME NEW t \in Fillable, Insert(t) PROVE MigrationsInv'
    BY <2>4, ServeInv DEF Insert, Serve, MigrationsInv, CommandInv, TypeOK
  <2>5. LastLogout => MigrationsInv'
    BY ServeInv DEF LastLogout, Serve, MigrationsInv, CommandInv, TypeOK
  <2>6. UNCHANGED vars => MigrationsInv'
    BY ServeInv DEF vars, committed, MigrationsInv, CommandInv, TypeOK
  <2> QED BY <2>1, <2>2, <2>3, <2>4, <2>5, <2>6, BeginUpgradeInv, StartInv, StepInv,
             FinishInv, CommitInv DEF Next
<1> QED BY <1>1, InitInv, PTL DEF Spec

\* CommandInv: in the middle of any script, the transaction sees the schema of
\* the revisions it has run, changed by the statements it has run.
THEOREM CommandsCorrect == Spec => []CommandInv
BY InductiveInvariant, PTL DEF MigrationsInv

\* AppliedIsClosed: no sequence of commands leaves a revision applied without
\* those it builds on.
THEOREM AppliedClosed == Spec => []AppliedIsClosed
BY InductiveInvariant, PTL DEF MigrationsInv

\* SchemaIsOfApplied: the schema depends on the applied revisions alone.
THEOREM SchemaFollows == Spec => []SchemaIsOfApplied
BY InductiveInvariant, PTL DEF MigrationsInv

\* UpgradeFailsOnlyOverRows: an upgrade fails only over the rows of a table
\* that gets a column NOT NULL, in a revision that is not applied.
THEOREM UpgradesWork == Spec => []UpgradeFailsOnlyOverRows
BY InductiveInvariant, PTL DEF MigrationsInv

\* OnlyUndoneLeave: only revisions that their downgrades have taken back ever
\* leave the database.
THEOREM NoWayBack == Spec => OnlyUndoneLeave
<1>1. ASSUME MigrationsInv, [Next]_vars, NEW r \in applied \ applied' PROVE Undoes(r)
  <2>1. Commit
    BY <1>1 DEF Next, BeginUpgrade, BeginDowngrade, BeginDowngradeBase, Begin, Upgrade,
       Downgrade, Start, Step, Execute, Finish, Die, Rollback, Insert, LastLogout, Serve,
       committed, vars
  <2>2. mode = "down" /\ r \in ran
    BY <1>1, <2>1 DEF Commit, MigrationsInv, CommandInv, TypeOK
  <2> QED BY <1>1, <2>2 DEF MigrationsInv, CommandInv, Order
<1>2. MigrationsInv /\ [Next]_vars => \A r \in applied \ applied' : Undoes(r)
  BY <1>1
<1> QED BY <1>2, InductiveInvariant, PTL DEF Spec, OnlyUndoneLeave

\* HeadMatchesModels: if the revisions together make what the models need, a
\* database at the head has it, however it came there.
THEOREM HeadMatches == Spec => []HeadMatchesModels
<1>1. MigrationsInv => HeadMatchesModels
  BY HeadIsWhatModelsNeed DEF MigrationsInv, CommandInv, SchemaIsOfApplied, HeadMatchesModels
<1> QED BY <1>1, InductiveInvariant, PTL
=============================================================================
