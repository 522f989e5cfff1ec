---------------------------- MODULE MCChangeset ----------------------------
(***************************************************************************)
(* A migration and its down, an older migration without one, a migration   *)
(* of the same name elsewhere, and files of other kinds, over a history    *)
(* with a branch that moves on, one that is forced, and an unrelated root. *)
(***************************************************************************)
EXTENDS Changeset

MCPaths ==
    {"m/1.up.sql", "m/1.down.sql", "m/1.sql", "m/0.sql", "n/1/up.sql", "n/1/down.sql", "m/p.yaml", "m/x.txt"}

MCDir == [p \in MCPaths |-> IF p \in {"n/1/up.sql", "n/1/down.sql"} THEN "n/1" ELSE "m"]

MCStem ==
    [p \in MCPaths |->
        CASE p = "m/0.sql" -> "0" [] p = "m/p.yaml" -> "p" [] p = "m/x.txt" -> "x" [] OTHER -> "1"]

MCSuffix ==
    [p \in MCPaths |->
        CASE p = "m/1.up.sql"   -> ".up.sql"
          [] p = "m/1.down.sql" -> ".down.sql"
          [] p = "n/1/up.sql"   -> "up.sql"
          [] p = "n/1/down.sql" -> "down.sql"
          [] p \in {"m/0.sql", "m/1.sql"} -> ".sql"
          [] OTHER -> "other"]

MCAbove == [d \in {"m", "n/1"} |-> IF d = "m" THEN "/" ELSE "n"]
MCBase  == [d \in {"m", "n/1"} |-> IF d = "m" THEN "m" ELSE "1"]

\* Two files of one migration are m/1.sql and m/1.up.sql.
MCAfter == [p \in MCPaths |-> IF p = "m/1.sql" THEN {"m/1.up.sql"} ELSE {}]

Holds(old, up, down, up2, down2, text) ==
    [p \in MCPaths |->
        CASE p = "m/0.sql" -> old      [] p = "m/1.up.sql" -> up   [] p = "m/1.down.sql" -> down
          [] p = "n/1/up.sql" -> up2   [] p = "n/1/down.sql" -> down2
          [] p = "m/x.txt" -> text     [] p = "m/1.sql" -> IF text = "d" THEN "e" ELSE "none"
          [] OTHER -> up]

MCContents == {"c", "d", "e", "big"}

\* 1 the fork, 2 the pull request, 3 base moved on, 4 a forced head that moves
\* the other migration, its down to a name no analyzer claims, 5 unrelated.
MCTree ==
    [c \in 1 .. 5 |->
        CASE c = 1 -> Holds("e", "none", "none", "c", "d", "none")
          [] c = 2 -> Holds("e", "c", "d", "e", "d", "none")
          [] c = 3 -> Holds("d", "none", "none", "d", "d", "none")
          [] c = 4 -> Holds("e", "c", "none", "none", "none", "d")
          [] c = 5 -> Holds("none", "big", "none", "none", "none", "none")]

MCScope == MCPaths \ {"m/x.txt"}
MCSupported == MCPaths \ {"m/x.txt"}

MCParents == [c \in 1 .. 5 |-> IF c \in {1, 5} THEN {} ELSE {1}]

MCCalls == [base : {1, 3}, head : {2, 4}]

MCDisks ==
    {[before |-> << >>, after |-> <<MCTree[2], MCTree[4]>>],
     [before |-> <<MCTree[1]>>, after |-> <<MCTree[4]>>],
     [before |-> <<MCTree[5]>>, after |-> <<MCTree[2]>>]}

-----------------------------------------------------------------------------

MCTables == {"t", "u"}
MCColumns == {"a"}

Doing(trees) == Script(FALSE, TRUE, trees)

Drop(what, rel, names) == Node("DropStmt", what, rel, names)
Altering(cmds) == [Node("AlterTableStmt", "", "t", << >>) EXCEPT !.cmds = cmds]
Delete == [Node("DeleteStmt", "", "t", << >>) EXCEPT !.flags = {"WHERE"}]

\* Rows move from one table to another.
Archive == [Node("InsertStmt", "", "u", << >>) EXCEPT !.with = <<Delete>>]

\* Ups, with each shape of loss and of addition.
MCUps ==
    {NoText, Script(FALSE, FALSE, << >>), Doing(<<Archive>>),
     Doing(<<Node("CreateStmt", "", "t", << >>), Node("IndexStmt", "", "t", <<"i">>)>>),
     Doing(<<Node("ViewStmt", "", "t", << >>), Drop("VIEW", "", <<"t">>)>>),
     Doing(<<Altering(<<Command("SetNotNull", "a"), Command("AddColumn", "a")>>)>>),
     Doing(<<[Node("SelectStmt", "", "", << >>) EXCEPT !.with = <<Node("SelectStmt", "", "", << >>), Delete>>]>>),
     Doing(<<[Node("SelectStmt", "", "", << >>) EXCEPT !.calls = {"setval"}],
             [Node("AlterSeqStmt", "", "s", << >>) EXCEPT !.flags = {"RESTART"}],
             [Node("InsertStmt", "", "t", << >>) EXCEPT !.flags = {"DO UPDATE"}]>>)}

\* Downs that take that back, that take back a part of it, or do nothing.
MCDowns ==
    {NoText, Script(FALSE, FALSE, << >>), Doing(<< >>),
     Doing(<<Drop("INDEX", "", <<"i">>), Drop("TABLE", "", <<"t", "u">>)>>),
     Doing(<<Drop("TABLE", "", <<"u", "t">>), Drop("INDEX", "", <<"i">>)>>),
     Doing(<<Drop("VIEW", "", <<"t">>), Drop("MATVIEW", "", <<"t">>)>>),
     Doing(<<Altering(<<Command("DropNotNull", "a"), Command("DropColumn", "a")>>)>>)}

MCSays ==
    [v \in MCContents |-> CASE v = "c" -> MCUps [] v = "d" -> MCDowns [] OTHER -> {Doing(<<Delete>>)}]
=============================================================================
