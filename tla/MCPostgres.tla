---------------------------- MODULE MCPostgres ----------------------------
(***************************************************************************)
(* Two migrations over two tables with two columns, beside an existing     *)
(* table.                                                                  *)
(***************************************************************************)
EXTENDS Postgres

MCTables  == {"t", "u"}
MCColumns == {"a", "b"}
MCIndexes == {"i"}
MCConstraints == {"k"}

T(name, mods) == [name |-> name, mods |-> mods]

\* Each family of types, at the sizes where its comparison changes its mind:
\* what a column is declared to be, and what it is converted to.
MCDeclared ==
    {T("int8", << >>), T("varchar", <<2>>), T("numeric", <<3, 2>>), T("timestamptz", << >>)}
MCWanted ==
    {T("int2", << >>), T("text", << >>), T("varchar", <<1>>), T("numeric", << >>),
     T("numeric", <<2>>), T("date", << >>)}

int2 == T("int2", << >>)

Create(t, cols)  == [Plain("CREATE_TABLE", t, "") EXCEPT !.cols = cols]
Add(c, type, fl) == [Plain("ADD_COLUMN", "t", c) EXCEPT !.type = type, !.flags = fl]
Alter(t, c, type) == [Plain("ALTER_COLUMN_TYPE", t, c) EXCEPT !.type = type]
Flagged(s, fl)   == [s EXCEPT !.flags = fl]
Renamed(s, new)  == [s EXCEPT !.new = new]

OnlyA(type) == [c \in Columns |-> IF c = "a" THEN type ELSE NoType]

MCConversions ==
    {Create("t", OnlyA(type)) : type \in MCDeclared} \cup {Alter("t", "a", type) : type \in MCWanted}

MCStructure ==
    {Create("t", OnlyA(int2)), Add("b", int2, {}), Add("b", int2, {"NOT NULL"}),
     Add("a", int2, {"DEFAULT", "VOLATILE"}),
     Plain("DROP_COLUMN", "t", "a"), Plain("DROP_TABLE", "", "t"),
     Flagged(Plain("DROP_TABLE", "", "t"), {"CASCADE"}),
     Renamed(Plain("RENAME_TABLE", "", "u"), "t"), Renamed(Plain("RENAME_COLUMN", "t", "b"), "a"),
     Renamed(Plain("CREATE_INDEX", "t", "i"), "a"),
     Flagged(Renamed(Plain("CREATE_INDEX", "u", "i"), "a"), {"CONCURRENTLY"}),
     Plain("DROP_INDEX", "", "i"), Plain("SET_NOT_NULL", "t", "a"),
     Plain("SET_DEFAULT", "u", "a"), Plain("DROP_NOT_NULL", "u", "a"),
     Flagged(Plain("ADD_CONSTRAINT", "t", "k"), {"CHECK", "NOT VALID"}),
     Plain("VALIDATE_CONSTRAINT", "u", "k"),
     Renamed(Plain("ADD_CONSTRAINT_USING_INDEX", "t", "k"), "i"),
     Plain("DELETE", "t", ""), Plain("CREATE_SERVER", "", "")}

MCStatements == MCConversions \cup MCStructure

\* Statements that may find their work done already.
MCRepeating ==
    {Flagged(Create("u", OnlyA(int2)), {"IF NOT EXISTS"}), Plain("VALIDATE_CONSTRAINT", "u", "k"),
     Create("t", OnlyA(int2))}

Old == [EmptyDatabase EXCEPT
           !.there = {"u"}, !.column[<<"u", "a">>] = [type |-> T("int8", << >>), notNull |-> TRUE, default |-> FALSE]]

\* What the changeset meets: a table with a column and a constraint that were
\* there before it.
MCDatabases == {[Old EXCEPT !.constraint["k"] = [on |-> <<"u", Whole>>, valid |-> FALSE]]}
=============================================================================
