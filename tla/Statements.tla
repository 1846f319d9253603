------------------------------ MODULE Statements ------------------------------
(***************************************************************************)
(* What the operations of alembic.op do to a database.                      *)
(*                                                                          *)
(* A schema is a set of cells <<table, part>>.  The part "itself" is the    *)
(* table as it was created; the others are columns, indexes and constraints *)
(* added to it, and "aware": its timestamps carry a time zone.              *)
(***************************************************************************)

Do(kind, tables, part) == [kind |-> kind, on |-> tables, part |-> part]

CreateTable(tables)   == Do("create table", tables, "itself")
DropTable(tables)     == Do("drop table", tables, "itself")
Add(tables, part)     == Do("add", tables, part)
AddNotNull(tables, c) == Do("not null", tables, c)   \* ... without a default
Drop(tables, part)    == Do("drop", tables, part)
DropUnnamed(tables)   == Do("unnamed", tables, "itself")  \* drop_constraint(None)
ToAware(tables, c)    == Do("aware", tables, c)      \* timestamps up to column c
ToNaive(tables, c)    == Do("naive", tables, c)

Cells(op) == op.on \X {op.part}

\* Tables with a foreign key to users, outside those dropped with it.
Referring == {"refresh_tokens", "email_verification_tokens"} \X {"itself"}

\* The kinds of statement that add the cells they name ...
New == {"create table", "add", "not null"}

\* ... and the cells that a statement refers to.
Needs(op) ==
    CASE op.kind \in {"add", "not null"} -> op.on \X {"itself"}
      [] op.kind \in {"drop table", "drop", "aware", "naive"} -> Cells(op)
      [] OTHER -> {}

\* (Fault: dropping a constraint without a name is accepted, and drops none.)
FitsUnnamed(op, s) ==
    /\ Needs(op) \subseteq s
    /\ op.kind \in New => Cells(op) \cap s = {}
    /\ op.kind = "drop table" /\ "users" \in op.on => Referring \cap s = {}

\* The statement is accepted by a database with schema s.
Fits(op, s) ==
    /\ Needs(op) \subseteq s
    /\ op.kind \in New => Cells(op) \cap s = {}
    /\ op.kind = "drop table" /\ "users" \in op.on => Referring \cap s = {}
    /\ op.kind # "unnamed"

Adds(op) == CASE op.kind \in New    -> Cells(op)
              [] op.kind = "aware"  -> op.on \X {"aware"}
              [] OTHER -> {}

Removes(op, cell) ==
    \/ op.kind = "drop table" /\ cell[1] \in op.on
    \/ op.kind = "drop"  /\ cell \in Cells(op)
    \/ op.kind = "naive" /\ cell \in op.on \X {"aware"}

Effect(op, s) == {cell \in s : ~Removes(op, cell)} \cup Adds(op)

\* Rows stand in the way: a column that is NOT NULL has no value for them.
Blocked(op, rows) == op.kind = "not null" /\ op.on \cap rows # {}
=============================================================================
