---------------------------- MODULE PostgresRules ----------------------------
(***************************************************************************)
(* What the Postgres analyzer says of one statement: whether a conversion  *)
(* widens or narrows, and the one row of the rule table that answers a     *)
(* statement, in the vocabulary of the parser package.                     *)
(***************************************************************************)
EXTENDS Database

\* A statement of a kind on an object of a relation, all else left out.
Plain(kind, rel, obj) ==
    [kind |-> kind, rel |-> rel, obj |-> obj, new |-> "", type |-> NoType,
     cols |-> [c \in Columns |-> NoType], flags |-> {}]

-----------------------------------------------------------------------------
(* Widening and narrowing. *)

IntegerRank == [int2 |-> 1, int4 |-> 2, int8 |-> 3]

Compared(less, more) ==
    IF less THEN "narrowing" ELSE IF more THEN "widening" ELSE "same"

Character == {"text", "varchar"}

Bounded(t) == t.name # "text" /\ t.mods # << >>

CompareCharacter(from, to) ==
    IF Bounded(from) /\ Bounded(to)
    THEN Compared(to.mods[1] < from.mods[1], to.mods[1] > from.mods[1])
    ELSE Compared(Bounded(to) /\ ~Bounded(from), Bounded(from) /\ ~Bounded(to))

Precision(t) == t.mods[1]
Scale(t)     == IF Len(t.mods) = 2 THEN t.mods[2] ELSE 0

\* Mutant: a numeric without modifiers is read as one without digits.
CompareNumericAsDigits(from, to) ==
    LET p(t) == IF t.mods = << >> THEN 0 ELSE Precision(t)
        q(t) == IF t.mods = << >> THEN 0 ELSE Scale(t)
    IN  Compared(p(to) < p(from) \/ q(to) < q(from), p(to) > p(from) \/ q(to) > q(from))

CompareNumeric(from, to) ==
    IF from.mods # << >> /\ to.mods # << >>
    THEN Compared(Precision(to) < Precision(from) \/ Scale(to) < Scale(from),
                  Precision(to) > Precision(from) \/ Scale(to) > Scale(from))
    ELSE Compared(to.mods # << >> /\ from.mods = << >>, from.mods # << >> /\ to.mods = << >>)

\* The pairs the rule table names; everything else is unknown on purpose.
CompareTypes(from, to) ==
    CASE from.name \in DOMAIN IntegerRank ->
           IF to.name \notin DOMAIN IntegerRank THEN "unknown"
           ELSE Compared(IntegerRank[to.name] < IntegerRank[from.name],
                         IntegerRank[to.name] > IntegerRank[from.name])
      [] from.name \in Character /\ to.name \in Character -> CompareCharacter(from, to)
      [] from.name = "numeric" /\ to.name = "numeric"     -> CompareNumeric(from, to)
      [] from.name = "timestamptz" /\ to.name = "date"    -> "narrowing"
      [] from.name = "date" /\ to.name = "timestamptz"    -> "widening"
      [] OTHER -> IF from = to THEN "same" ELSE "unknown"

-----------------------------------------------------------------------------
(* The rule table. A verdict has a rule number, how bad it is, the lock,   *)
(* and an undo step: one that can be run, one for a human to complete, a   *)
(* note that there is nothing to undo, or none.                            *)

V(rule, rev, lock, undo) == [rule |-> rule, rev |-> rev, lock |-> lock, undo |-> undo]

\* Mutant: the fail-closed verdict carries no rule.
UnknownUnnamed == V(0, "UNKNOWN", "EXCLUSIVE", "none")

\* The fail-closed verdict.
Unknown == V(27, "UNKNOWN", "EXCLUSIVE", "none")

Row(kinds, verdict) == [kinds |-> kinds, verdict |-> verdict]

\* What takes away, renames or tightens.
TakingRows ==
    {Row({"DROP_TABLE"}, V(1, "IRREVERSIBLE", "EXCLUSIVE", "none")),
     Row({"DROP_COLUMN"}, V(2, "IRREVERSIBLE", "EXCLUSIVE", "none")),
     Row({"TRUNCATE"}, V(3, "IRREVERSIBLE", "EXCLUSIVE", "none")),
     Row({"DROP_SCHEMA", "DROP_DATABASE"}, V(4, "IRREVERSIBLE", "EXCLUSIVE", "none")),
     Row({"ALTER_SEQUENCE_RESTART"}, V(10, "IRREVERSIBLE", "SHORT", "none")),
     Row({"DROP_TYPE", "DROP_SEQUENCE", "DROP_EXTENSION"}, V(11, "IRREVERSIBLE", "EXCLUSIVE", "none")),
     Row({"RENAME_TABLE", "RENAME_COLUMN"}, V(12, "COSTLY", "SHORT", "step")),
     Row({"DROP_CONSTRAINT"}, V(13, "COSTLY", "SHORT", "partial")),
     Row({"DROP_VIEW", "DROP_FUNCTION", "DROP_TRIGGER"}, V(16, "COSTLY", "SHORT", "partial")),
     Row({"SET_NOT_NULL"}, V(17, "COSTLY", "FULL_SCAN", "step"))}

\* Creating tables, views and types, promoting, granting.
CreatingRows ==
    {Row({"CREATE_TABLE", "CREATE_VIEW", "CREATE_TYPE"}, V(25, "REVERSIBLE", "NONE", "step")),
     Row({"REPLACE_VIEW"}, V(28, "COSTLY", "SHORT", "partial")),
     Row({"DROP_MATERIALIZED_VIEW"}, V(29, "COSTLY", "EXCLUSIVE", "partial")),
     Row({"ADD_CONSTRAINT_USING_INDEX"}, V(30, "REVERSIBLE", "SHORT", "step")),
     Row({"VALIDATE_CONSTRAINT"}, V(31, "REVERSIBLE", "FULL_SCAN", "step")),
     Row({"GRANT", "REVOKE"}, V(32, "REVERSIBLE", "SHORT", "partial"))}

\* What migration tools emit around a change.
ToolRows ==
    {Row({"SET_VARIABLE"}, V(34, "REVERSIBLE", "NONE", "note")),
     Row({"LOCK_TABLE"}, V(35, "REVERSIBLE", "EXCLUSIVE", "note")),
     Row({"ANALYZE"}, V(36, "REVERSIBLE", "NONE", "note")),
     Row({"VACUUM"}, V(37, "REVERSIBLE", "NONE", "note")),
     Row({"VACUUM_FULL"}, V(38, "REVERSIBLE", "EXCLUSIVE", "note"))}

\* What is common in migrations written by hand.
HandwrittenRows ==
    {Row({"CREATE_EXTENSION"}, V(39, "REVERSIBLE", "SHORT", "step")),
     Row({"CREATE_SCHEMA"}, V(40, "REVERSIBLE", "NONE", "step")),
     Row({"CREATE_SEQUENCE"}, V(41, "REVERSIBLE", "NONE", "step")),
     Row({"CREATE_FUNCTION"}, V(42, "REVERSIBLE", "NONE", "step")),
     Row({"REPLACE_FUNCTION"}, V(43, "COSTLY", "SHORT", "partial")),
     Row({"CREATE_TRIGGER"}, V(44, "REVERSIBLE", "SHORT", "step")),
     Row({"CREATE_MATERIALIZED_VIEW"}, V(45, "REVERSIBLE", "FULL_SCAN", "step")),
     Row({"CREATE_MATERIALIZED_VIEW_NO_DATA"}, V(46, "REVERSIBLE", "NONE", "step")),
     Row({"REFRESH_MATERIALIZED_VIEW"}, V(47, "REVERSIBLE", "EXCLUSIVE", "note")),
     Row({"REFRESH_MATERIALIZED_VIEW_CONCURRENTLY"}, V(47, "REVERSIBLE", "FULL_SCAN", "note")),
     Row({"ADD_ENUM_VALUE"}, V(48, "IRREVERSIBLE", "SHORT", "none"))}

\* The rest.
OtherRows ==
    {Row({"CREATE_POLICY"}, V(49, "REVERSIBLE", "SHORT", "step")),
     Row({"DROP_POLICY"}, V(50, "COSTLY", "SHORT", "none")),
     Row({"ENABLE_ROW_LEVEL_SECURITY"}, V(51, "REVERSIBLE", "SHORT", "step")),
     Row({"DISABLE_ROW_LEVEL_SECURITY"}, V(52, "IRREVERSIBLE", "SHORT", "none")),
     Row({"RENAME_INDEX"}, V(53, "COSTLY", "SHORT", "step")),
     Row({"SET_REL_OPTIONS"}, V(54, "COSTLY", "SHORT", "none")),
     Row({"SET_LOGGED"}, V(55, "COSTLY", "TABLE_REWRITE", "none")),
     Row({"ATTACH_PARTITION"}, V(56, "REVERSIBLE", "FULL_SCAN", "step")),
     Row({"INSERT"}, V(58, "COSTLY", "SHORT", "none")),
     Row({"UPSERT"}, V(59, "IRREVERSIBLE", "SHORT", "none")),
     Row({"COMMENT"}, V(33, "REVERSIBLE", "SHORT", "partial")),
     Row({"DROP_NOT_NULL", "SET_DEFAULT"}, V(26, "REVERSIBLE", "SHORT", "step")),
     Row({"DROP_DEFAULT"}, V(26, "REVERSIBLE", "SHORT", "partial"))}

Rows == TakingRows \cup CreatingRows \cup ToolRows \cup HandwrittenRows \cup OtherRows

\* A conversion is judged by the type it replaces, if the changeset said.
ClassifyConversion(s, prior) ==
    CASE prior = NoType -> Unknown
      [] prior # NoType /\ CompareTypes(prior, s.type) = "narrowing" ->
           V(6, "IRREVERSIBLE", "TABLE_REWRITE", "none")
      [] prior # NoType /\ CompareTypes(prior, s.type) = "widening" ->
           V(7, "COSTLY", "TABLE_REWRITE", "step")
      [] OTHER -> Unknown

ClassifyAddColumn(s) ==
    CASE Has(s, "NOT NULL") /\ ~Has(s, "DEFAULT") -> V(18, "COSTLY", "EXCLUSIVE", "step")
      [] Has(s, "DEFAULT") /\ Has(s, "VOLATILE")  -> V(19, "REVERSIBLE", "TABLE_REWRITE", "step")
      [] OTHER -> V(20, "REVERSIBLE", "NONE", "step")

ClassifyAddConstraint(s) ==
    CASE Has(s, "NOT VALID") -> V(22, "REVERSIBLE", "SHORT", "step")
      [] ~Has(s, "NOT VALID") /\ s.flags \cap {"FOREIGN KEY", "CHECK"} # {} ->
           V(21, "REVERSIBLE", "FULL_SCAN", "step")
      [] OTHER -> Unknown

\* classify: exactly one rule for a statement. CASCADE overrides every other.
Classify(s, prior) ==
    IF Has(s, "CASCADE") THEN V(5, "IRREVERSIBLE", "EXCLUSIVE", "none") ELSE
    CASE s.kind = "ALTER_COLUMN_TYPE" -> ClassifyConversion(s, prior)
      [] s.kind \in {"DELETE", "UPDATE"} ->
           IF Has(s, "WHERE") THEN V(9, "IRREVERSIBLE", "SHORT", "none")
                              ELSE V(8, "IRREVERSIBLE", "EXCLUSIVE", "none")
      [] s.kind = "DROP_INDEX" ->
           IF Has(s, "CONCURRENTLY") THEN V(15, "COSTLY", "NONE", "partial")
                                     ELSE V(14, "COSTLY", "EXCLUSIVE", "partial")
      [] s.kind = "CREATE_INDEX" ->
           IF Has(s, "CONCURRENTLY") THEN V(24, "REVERSIBLE", "NONE", "step")
                                     ELSE V(23, "REVERSIBLE", "EXCLUSIVE", "step")
      [] s.kind = "DETACH_PARTITION" ->
           V(57, "COSTLY", IF Has(s, "CONCURRENTLY") THEN "NONE" ELSE "SHORT", "none")
      [] s.kind = "ADD_COLUMN"     -> ClassifyAddColumn(s)
      [] s.kind = "ADD_CONSTRAINT" -> ClassifyAddConstraint(s)
      [] \E r \in Rows : s.kind \in r.kinds ->
           (CHOOSE r \in Rows : s.kind \in r.kinds).verdict
      [] OTHER -> Unknown

=============================================================================
