------------------------------- MODULE Parser -------------------------------
(***************************************************************************)
(* From the parse tree of PostgreSQL's own grammar to the statements the   *)
(* rule table knows: every node is lifted by what it does, what has no     *)
(* name here stays UNRECOGNIZED, and one ALTER TABLE is as many statements *)
(* as it has commands.  The grammar itself, and the C stack it runs on,    *)
(* are outside: a script either yields its trees or does not parse.        *)
(***************************************************************************)
EXTENDS PostgresRules

\* A parse tree: the node, the object or the command it is about, the relation,
\* the objects named, and of the rest what a test of the code asks for.
Node(node, what, rel, names) ==
    [node |-> node, what |-> what, rel |-> rel, names |-> names, new |-> "",
     type |-> NoType, cols |-> [c \in Columns |-> NoType], with |-> << >>,
     calls |-> {}, cmds |-> << >>, flags |-> {}]

\* A command of an ALTER TABLE; its default is an expression, outermost first.
Command(what, name) ==
    [what |-> what, name |-> name, type |-> NoType, default |-> << >>, index |-> "", flags |-> {}]

\* A script as it is read: white space, something PostgreSQL's grammar rejects
\* or the guard before it refuses, or the trees of its statements.
Script(blank, parses, trees) == [blank |-> blank, parses |-> parses, trees |-> trees]

-----------------------------------------------------------------------------
(* Which kind a node is. *)

FirstOf(names) == IF names = << >> THEN "" ELSE names[1]

OneKind ==
    [DropdbStmt |-> "DROP_DATABASE", TruncateStmt |-> "TRUNCATE", DeleteStmt |-> "DELETE",
     UpdateStmt |-> "UPDATE", IndexStmt |-> "CREATE_INDEX", CreateStmt |-> "CREATE_TABLE",
     CreateEnumStmt |-> "CREATE_TYPE", CompositeTypeStmt |-> "CREATE_TYPE",
     CreateSchemaStmt |-> "CREATE_SCHEMA", CreateSeqStmt |-> "CREATE_SEQUENCE",
     CreateExtensionStmt |-> "CREATE_EXTENSION", CreateTrigStmt |-> "CREATE_TRIGGER",
     CommentStmt |-> "COMMENT", VariableSetStmt |-> "SET_VARIABLE", LockStmt |-> "LOCK_TABLE",
     CreatePolicyStmt |-> "CREATE_POLICY"]

\* Nodes that are one thing with a flag and another without it.
TwoKinds ==
    [ViewStmt           |-> <<"OR REPLACE", "REPLACE_VIEW", "CREATE_VIEW">>,
     CreateFunctionStmt |-> <<"OR REPLACE", "REPLACE_FUNCTION", "CREATE_FUNCTION">>,
     GrantStmt          |-> <<"IS GRANT", "GRANT", "REVOKE">>,
     RefreshMatViewStmt |-> <<"CONCURRENTLY", "REFRESH_MATERIALIZED_VIEW_CONCURRENTLY",
                              "REFRESH_MATERIALIZED_VIEW">>,
     InsertStmt         |-> <<"DO UPDATE", "UPSERT", "INSERT">>,
     AlterSeqStmt       |-> <<"RESTART", "ALTER_SEQUENCE_RESTART", "UNRECOGNIZED">>,
     AlterEnumStmt      |-> <<"RENAME VALUE", "UNRECOGNIZED", "ADD_ENUM_VALUE">>]

\* A function stands for procedures and routines too, a type for domains.
DropKinds ==
    [TABLE |-> "DROP_TABLE", SCHEMA |-> "DROP_SCHEMA", INDEX |-> "DROP_INDEX", VIEW |-> "DROP_VIEW",
     MATVIEW |-> "DROP_MATERIALIZED_VIEW", FUNCTION |-> "DROP_FUNCTION", TRIGGER |-> "DROP_TRIGGER",
     TYPE |-> "DROP_TYPE", SEQUENCE |-> "DROP_SEQUENCE", EXTENSION |-> "DROP_EXTENSION",
     POLICY |-> "DROP_POLICY"]

RenameKinds ==
    [TABLE |-> "RENAME_TABLE", COLUMN |-> "RENAME_COLUMN", INDEX |-> "RENAME_INDEX"]

VacuumKind(t) ==
    IF "VACUUM" \notin t.flags THEN "ANALYZE" ELSE IF "FULL" \in t.flags THEN "VACUUM_FULL" ELSE "VACUUM"

\* CREATE TABLE ... AS shares the node of a materialized view and stays unnamed.
CreateAsKind(t) ==
    IF t.what # "MATVIEW" THEN "UNRECOGNIZED"
    ELSE IF "NO DATA" \in t.flags THEN "CREATE_MATERIALIZED_VIEW_NO_DATA" ELSE "CREATE_MATERIALIZED_VIEW"

KindIn(kinds, what) == IF what \in DOMAIN kinds THEN kinds[what] ELSE "UNRECOGNIZED"

KindOf(t) ==
    CASE t.node = "DropStmt"          -> KindIn(DropKinds, t.what)
      [] t.node = "RenameStmt"        -> KindIn(RenameKinds, t.what)
      [] t.node = "VacuumStmt"        -> VacuumKind(t)
      [] t.node = "CreateTableAsStmt" -> CreateAsKind(t)
      [] t.node \in DOMAIN TwoKinds   ->
           IF TwoKinds[t.node][1] \in t.flags THEN TwoKinds[t.node][2] ELSE TwoKinds[t.node][3]
      [] OTHER -> KindIn(OneKind, t.node)

\* What of a node's flags a statement carries on.
FlagsOf(t) ==
    t.flags \cap CASE t.node = "DropStmt"     -> {"CASCADE", "CONCURRENTLY"}
                   [] t.node = "TruncateStmt" -> {"CASCADE"}
                   [] t.node = "IndexStmt"    -> {"CONCURRENTLY"}
                   [] t.node \in {"DeleteStmt", "UpdateStmt"} -> {"WHERE"}
                   [] OTHER -> {}

\* The object a node names: the first of several, and none if it is a type that
\* is dropped, for which the tree has a node of another sort.
ObjectOf(t) ==
    CASE t.node = "DropStmt" /\ t.what = "TYPE" -> ""
      [] t.node = "RenameStmt" /\ t.what \in {"TABLE", "INDEX"} -> t.rel
      [] OTHER -> FirstOf(t.names)

Lift(t, kind) ==
    [Plain(kind, t.rel, ObjectOf(t)) EXCEPT !.new = t.new, !.cols = t.cols, !.flags = FlagsOf(t)]

-----------------------------------------------------------------------------
(* Statements that hold others. *)

Modifying == {"DeleteStmt", "UpdateStmt", "InsertStmt"}

\* A SELECT is the first data-modifying statement in its WITH, an INSERT there
\* having no name; else the restart of the sequence it moves; else unnamed.
Select(t) ==
    LET held == {k \in DOMAIN t.with : t.with[k].node \in Modifying} IN
    CASE held # {} ->
           LET cte == t.with[CHOOSE k \in held : \A j \in held : k <= j]
           IN  Lift(cte, IF cte.node = "InsertStmt" THEN "UNRECOGNIZED" ELSE KindOf(cte))
      [] held = {} /\ "setval" \in t.calls -> Lift(t, "ALTER_SEQUENCE_RESTART")
      [] OTHER -> Lift(t, "UNRECOGNIZED")

\* Only a constant, whatever it is cast to, costs nothing per row.
IsVolatile(default) ==
    default # << >> /\ ~(/\ default[Len(default)] = "A_Const"
                         /\ \A k \in 1 .. Len(default) - 1 : default[k] = "TypeCast")

CommandKinds ==
    [DropColumn |-> "DROP_COLUMN", DropConstraint |-> "DROP_CONSTRAINT", SetNotNull |-> "SET_NOT_NULL",
     DropNotNull |-> "DROP_NOT_NULL", AlterColumnType |-> "ALTER_COLUMN_TYPE", AddColumn |-> "ADD_COLUMN",
     ValidateConstraint |-> "VALIDATE_CONSTRAINT", EnableRowSecurity |-> "ENABLE_ROW_LEVEL_SECURITY",
     DisableRowSecurity |-> "DISABLE_ROW_LEVEL_SECURITY", SetRelOptions |-> "SET_REL_OPTIONS",
     ResetRelOptions |-> "SET_REL_OPTIONS", SetLogged |-> "SET_LOGGED", SetUnLogged |-> "SET_LOGGED",
     AttachPartition |-> "ATTACH_PARTITION", DetachPartition |-> "DETACH_PARTITION"]

CommandKind(c) ==
    CASE c.what = "ColumnDefault" -> IF c.default # << >> THEN "SET_DEFAULT" ELSE "DROP_DEFAULT"
      [] c.what = "AddConstraint" -> IF c.index # "" THEN "ADD_CONSTRAINT_USING_INDEX" ELSE "ADD_CONSTRAINT"
      [] OTHER -> KindIn(CommandKinds, c.what)

CommandFlags(c) ==
    (c.flags \cap CASE c.what = "AddColumn"       -> {"CASCADE", "NOT NULL"}
                    [] c.what = "AddConstraint"   -> {"CASCADE", "NOT VALID", "FOREIGN KEY", "CHECK"}
                    [] c.what = "DetachPartition" -> {"CASCADE", "CONCURRENTLY"}
                    [] OTHER -> {"CASCADE"})
    \cup (IF c.what = "AddColumn" /\ c.default # << >> THEN {"DEFAULT"} ELSE {})
    \cup (IF c.what = "AddColumn" /\ IsVolatile(c.default) THEN {"VOLATILE"} ELSE {})

\* Mutant: an ALTER TABLE is its first command.
AlterTableOnce(t) ==
    IF t.cmds = << >> THEN <<Lift(t, "UNRECOGNIZED")>>
    ELSE <<[Plain(CommandKind(t.cmds[1]), t.rel, t.cmds[1].name) EXCEPT !.flags = CommandFlags(t.cmds[1])]>>

AlterTable(t) ==
    IF t.cmds = << >> THEN <<Lift(t, "UNRECOGNIZED")>>
    ELSE [k \in DOMAIN t.cmds |->
             [Plain(CommandKind(t.cmds[k]), t.rel, t.cmds[k].name) EXCEPT
                 !.new = t.cmds[k].index, !.type = t.cmds[k].type, !.flags = CommandFlags(t.cmds[k])]]

Convert(t) ==
    CASE t.node = "AlterTableStmt" -> AlterTable(t)
      [] t.node = "SelectStmt"     -> <<Select(t)>>
      [] OTHER                     -> <<Lift(t, KindOf(t))>>

\* The statements of a script that parses.
StatementsOf(script) ==
    UNION {{Convert(script.trees[k])[j] : j \in DOMAIN Convert(script.trees[k])} : k \in DOMAIN script.trees}

\* Of what PostgreSQL's grammar promises of a tree, what the properties rest on:
\* a DROP names something, and statements that run a WITH or call functions are
\* those that change rows, those that fill a table, and nodes without a kind.
Grammatical(t) ==
    /\ t.node = "DropStmt" => 1 \in DOMAIN t.names
    /\ DOMAIN t.with \subseteq Nat
    /\ t.with # << >> \/ t.calls # {} =>
          t.node \in Modifying \cup {"CreateTableAsStmt"} \/ KindOf(t) = "UNRECOGNIZED"

-----------------------------------------------------------------------------
(* What a statement brings into existence or removes: a class and a name.  *)

OfRelation ==
    [CREATE_TABLE |-> "table", CREATE_VIEW |-> "view", CREATE_SEQUENCE |-> "sequence"]

OfObject ==
    [CREATE_TYPE |-> "type", CREATE_INDEX |-> "index", CREATE_SCHEMA |-> "schema",
     CREATE_EXTENSION |-> "extension", CREATE_FUNCTION |-> "function", CREATE_TRIGGER |-> "trigger"]

OfBoth == [ADD_COLUMN |-> "column", ADD_CONSTRAINT |-> "constraint"]

Creates(s) ==
    CASE s.kind \in DOMAIN OfRelation -> {<<OfRelation[s.kind], s.rel>>}
      [] s.kind \in DOMAIN OfObject   -> {<<OfObject[s.kind], s.obj>>}
      [] s.kind \in DOMAIN OfBoth     -> {<<OfBoth[s.kind], s.rel, s.obj>>}
      [] OTHER -> {}

Dropped ==
    [DROP_TABLE |-> "table", DROP_VIEW |-> "view", DROP_TYPE |-> "type", DROP_INDEX |-> "index",
     DROP_SCHEMA |-> "schema", DROP_SEQUENCE |-> "sequence", DROP_EXTENSION |-> "extension",
     DROP_FUNCTION |-> "function", DROP_TRIGGER |-> "trigger"]

DroppedOf == [DROP_COLUMN |-> "column", DROP_CONSTRAINT |-> "constraint"]

Drops(s) ==
    CASE s.kind \in DOMAIN Dropped   -> {<<Dropped[s.kind], s.obj>>}
      [] s.kind \in DOMAIN DroppedOf -> {<<DroppedOf[s.kind], s.rel, s.obj>>}
      [] OTHER -> {}

\* checkSymmetry: what the up creates the down drops, and the other way round.
Symmetric(up, down) ==
    \A s \in StatementsOf(up) :
        /\ Creates(s) \subseteq UNION {Drops(r) : r \in StatementsOf(down)}
        /\ Drops(s) \subseteq UNION {Creates(r) : r \in StatementsOf(down)}

-----------------------------------------------------------------------------
(* What PostgreSQL does with a tree, whatever the code makes of it. *)

\* Rows, a sequence's position, or an object that holds them, are gone.
Loses(t) ==
    \/ t.node \in {"DropdbStmt", "TruncateStmt", "DeleteStmt", "UpdateStmt"}
    \/ t.node = "DropStmt" /\ (t.what \in {"TABLE", "SCHEMA", "SEQUENCE", "EXTENSION"} \/ "CASCADE" \in t.flags)
    \/ t.node = "InsertStmt" /\ "DO UPDATE" \in t.flags
    \/ t.node = "AlterSeqStmt" /\ "RESTART" \in t.flags
    \/ t.node = "AlterTableStmt" /\ \E k \in DOMAIN t.cmds : t.cmds[k].what = "DropColumn"

\* A WITH runs what it holds, wherever it stands, and functions are called.
Destroys(t) == Loses(t) \/ (\E k \in DOMAIN t.with : Loses(t.with[k])) \/ "setval" \in t.calls

\* Tables, views, indexes and columns that are there afterwards, or no more.
Makes(t) ==
    CASE t.node = "CreateStmt" -> {<<"table", t.rel>>}
      [] t.node = "ViewStmt" /\ "OR REPLACE" \notin t.flags -> {<<"view", t.rel>>}
      [] t.node = "IndexStmt" -> {<<"index", FirstOf(t.names)>>}
      [] t.node = "AlterTableStmt" ->
           {<<"column", t.rel, t.cmds[k].name>> : k \in {j \in DOMAIN t.cmds : t.cmds[j].what = "AddColumn"}}
      [] OTHER -> {}

Unmakes(t) ==
    CASE t.node = "DropStmt" /\ t.what = "TABLE" -> {<<"table", t.names[k]>> : k \in DOMAIN t.names}
      [] t.node = "DropStmt" /\ t.what = "VIEW"  -> {<<"view", t.names[k]>> : k \in DOMAIN t.names}
      [] t.node = "DropStmt" /\ t.what = "INDEX" -> {<<"index", t.names[k]>> : k \in DOMAIN t.names}
      [] t.node = "AlterTableStmt" ->
           {<<"column", t.rel, t.cmds[k].name>> : k \in {j \in DOMAIN t.cmds : t.cmds[j].what = "DropColumn"}}
      [] OTHER -> {}
=============================================================================
