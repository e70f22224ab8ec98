----------------------------- MODULE SqlPolicy -----------------------------
(***************************************************************************)
(* The SQL gate of backend/sql/schema.py: what SqlValidator.validate lets  *)
(* through and how it rewrites it.  A statement is reduced to what the     *)
(* validator can tell apart: how sqlglot parses it, the tables it names,   *)
(* whether its outer SELECT has a LIMIT and whether the text ends inside a  *)
(* line comment.  Which tables a statement joins is not looked at.         *)
(***************************************************************************)
EXTENDS FiniteSets

CONSTANT Tables      \* the table names a generated statement can mention

(***************************************************************************)
(* Statements.  Only for a single SELECT do tables and LIMIT play a role;  *)
(* the validator returns before it looks at them in the other cases.       *)
(***************************************************************************)
Plain(k) == [kind |-> k, tables |-> {}, limited |-> FALSE, comment |-> FALSE]

Kinds == {"empty", "unparsable", "multi", "other", "select"}

SqlTexts ==
  { s \in [kind : Kinds, tables : SUBSET Tables,
           limited : BOOLEAN, comment : BOOLEAN] :
      s.kind # "select" => s = Plain(s.kind) }

EmptySql == Plain("empty")

Complaints == {"parse error", "only single SELECT", "only SELECT"} \cup Tables

\* " LIMIT n" goes to the end of the text; a line comment there swallows it.
AppendLimit(sql) == [sql EXCEPT !.limited = @ \/ ~sql.comment]

\* Mutant: one whitelisted table is enough.
ValidateAnyTable(sql, allowed) ==
  LET errors == CASE sql.kind = "unparsable" -> {"parse error"}
                  [] sql.kind = "multi"      -> {"only single SELECT"}
                  [] sql.kind \in {"other", "empty"} -> {"only SELECT"}
                  [] sql.tables \cap allowed # {} -> {}
                  [] OTHER -> sql.tables
  IN [valid  |-> errors = {},
      errors |-> errors,
      sql    |-> IF sql.kind = "select" THEN AppendLimit(sql) ELSE sql]

(***************************************************************************)
(* SqlValidator.validate: early returns for a parse error, several         *)
(* statements and a statement that is not a SELECT (an empty text parses   *)
(* to no statement and lands here), then the whitelist, one complaint per  *)
(* table outside it.  LIMIT is appended whenever the outer SELECT has      *)
(* none, to a statement that is then rejected too.                         *)
(***************************************************************************)
Validate(sql, allowed) ==
  LET errors == CASE sql.kind = "unparsable" -> {"parse error"}
                  [] sql.kind = "multi"      -> {"only single SELECT"}
                  [] sql.kind \in {"other", "empty"} -> {"only SELECT"}
                  [] OTHER -> sql.tables \ allowed
  IN [valid  |-> errors = {},
      errors |-> errors,
      sql    |-> IF sql.kind = "select" THEN AppendLimit(sql) ELSE sql]

\* What may reach the datasource: one SELECT over whitelisted tables, with a
\* LIMIT unless a comment at its end swallowed the one that was appended.
Safe(sql, allowed) == /\ sql.kind = "select"
                      /\ sql.tables \subseteq allowed
                      /\ sql.limited \/ sql.comment
=============================================================================
