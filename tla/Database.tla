------------------------------ MODULE Database ------------------------------
(***************************************************************************)
(* PostgreSQL as far as the statements of a migration can tell: tables     *)
(* with columns, indexes and constraints on them, and which values a type  *)
(* can hold. The analyzer never sees it; its verdicts are about it.        *)
(*                                                                         *)
(* A statement is a record [kind, rel, obj, new, type, cols, flags] in the *)
(* vocabulary of the analyzer's parser package; new is the new name, the   *)
(* indexed column, or the index a constraint is promoted from. Of the      *)
(* flags, IF NOT EXISTS is one the parser does not read.                   *)
(***************************************************************************)
EXTENDS Integers, Sequences

CONSTANTS Tables, Columns, Indexes, Constraints

NoType   == [name |-> "none", mods |-> << >>]
NoColumn == [type |-> NoType, notNull |-> FALSE, default |-> FALSE]

\* Where an index or a constraint lives: a table and one of its columns, or
\* the table as a whole.
Nowhere == <<"none", "none">>
Whole   == "*"
Homes   == (Tables \X (Columns \cup {Whole})) \cup {Nowhere}

NoConstraint == [on |-> Nowhere, valid |-> FALSE]

\* A database; ok is FALSE once a statement was refused.
EmptyDatabase ==
    [ok |-> TRUE, there |-> {},
     column     |-> [c \in Tables \X Columns |-> NoColumn],
     index      |-> [i \in Indexes |-> Nowhere],
     constraint |-> [k \in Constraints |-> NoConstraint]]

Types == [name : STRING, mods : Seq(Nat)] \cup {NoType}

Column == [type : Types, notNull : BOOLEAN, default : BOOLEAN]

Database ==
    [ok : BOOLEAN, there : SUBSET Tables, column : [Tables \X Columns -> Column],
     index : [Indexes -> Homes], constraint : [Constraints -> [on : Homes, valid : BOOLEAN]]]

\* What lives somewhere lives on a table or a column that is there.
Lives(d, home) == home[1] \in d.there /\ (home[2] = Whole \/ d.column[home] # NoColumn)

\* A database that nothing was refused by, as PostgreSQL keeps it: columns are
\* of tables and have a type, and nothing outlives what it lives on.
Consistent(d) ==
    /\ d \in Database /\ d.ok
    /\ \A c \in Tables \X Columns :
          d.column[c] # NoColumn => c[1] \in d.there /\ d.column[c].type # NoType
    /\ \A i \in Indexes : d.index[i] # Nowhere => Lives(d, d.index[i])
    /\ \A k \in Constraints :
          d.constraint[k] # NoConstraint => Lives(d, d.constraint[k].on)

-----------------------------------------------------------------------------
(* What a type can hold. *)

IntegerBytes == [int2 |-> 2, int4 |-> 4, int8 |-> 8]

\* Digits before and after the point.
Digits(t) ==
    LET fraction == IF Len(t.mods) = 2 THEN t.mods[2] ELSE 0
    IN  [whole |-> t.mods[1] - fraction, fraction |-> fraction]

Unlimited(t) == t.name = "text" \/ t.mods = << >>

\* Every value of `from` is a value of `to`.
Keeps(from, to) ==
    \/ from = to
    \/ /\ from.name \in DOMAIN IntegerBytes /\ to.name \in DOMAIN IntegerBytes
       /\ IntegerBytes[from.name] <= IntegerBytes[to.name]
    \/ /\ from.name \in {"text", "varchar"} /\ to.name \in {"text", "varchar"}
       /\ Unlimited(to) \/ (~Unlimited(from) /\ from.mods[1] <= to.mods[1])
    \/ /\ from.name = "numeric" /\ to.name = "numeric"
       /\ \/ Unlimited(to)
          \/ /\ ~Unlimited(from)
             /\ Digits(from).whole <= Digits(to).whole
             /\ Digits(from).fraction <= Digits(to).fraction
    \/ from.name = "date" /\ to.name = "timestamptz"

-----------------------------------------------------------------------------
(* What a statement does. *)

Has(s, flag) == flag \in s.flags

Home(s) == <<s.rel, s.obj>>

There(d, c) == c[1] \in d.there /\ d.column[c] # NoColumn

ColumnKinds ==
    {"DROP_COLUMN", "ALTER_COLUMN_TYPE", "SET_NOT_NULL", "DROP_NOT_NULL", "SET_DEFAULT", "DROP_DEFAULT"}

\* The kinds of statements that change more than rows, by what they are about.
IndexKinds      == {"CREATE_INDEX", "DROP_INDEX"}
ConstraintKinds == {"ADD_CONSTRAINT", "ADD_CONSTRAINT_USING_INDEX", "VALIDATE_CONSTRAINT", "DROP_CONSTRAINT"}

\* A statement names tables where it means tables, and a column has a type.
WellNamed(s) ==
    /\ s.type \in Types /\ s.cols \in [Columns -> Types]
    /\ s.kind \in {"CREATE_TABLE"} \cup ConstraintKinds => s.rel \in Tables
    /\ s.kind = "RENAME_TABLE" => {s.obj, s.new} \subseteq Tables
    /\ s.kind = "DROP_TABLE" => s.obj \in Tables
    /\ s.kind \in ColumnKinds \cup {"ADD_COLUMN", "RENAME_COLUMN"} => Home(s) \in Tables \X Columns
    /\ s.kind \in {"ADD_COLUMN", "ALTER_COLUMN_TYPE"} => s.type # NoType
    /\ s.kind = "RENAME_COLUMN" => s.new \in Columns
    /\ s.kind \in IndexKinds => s.obj \in Indexes
    /\ s.kind = "CREATE_INDEX" => <<s.rel, s.new>> \in Tables \X Columns
    /\ s.kind \in ConstraintKinds => s.obj \in Constraints
    /\ s.kind = "ADD_CONSTRAINT_USING_INDEX" => s.new \in Indexes

\* The statement is not refused.
Accepts(d, s) ==
    /\ d.ok
    /\ CASE s.kind = "CREATE_TABLE" -> s.rel \notin d.there \/ Has(s, "IF NOT EXISTS")
         [] s.kind = "DROP_TABLE"   -> s.obj \in d.there
         [] s.kind = "ADD_COLUMN"   -> /\ s.rel \in d.there
                                       /\ There(d, Home(s)) => Has(s, "IF NOT EXISTS")
         [] s.kind \in ColumnKinds  -> There(d, Home(s))
         [] s.kind = "RENAME_TABLE" -> s.obj \in d.there /\ s.new \notin d.there
         [] s.kind = "RENAME_COLUMN"  -> There(d, Home(s)) /\ ~There(d, <<s.rel, s.new>>)
         [] s.kind = "CREATE_INDEX"   -> There(d, <<s.rel, s.new>>) /\ d.index[s.obj] = Nowhere
         [] s.kind = "DROP_INDEX"     -> d.index[s.obj] # Nowhere
         [] s.kind = "ADD_CONSTRAINT" -> s.rel \in d.there /\ d.constraint[s.obj] = NoConstraint
         [] s.kind = "ADD_CONSTRAINT_USING_INDEX" ->
              d.index[s.new][1] = s.rel /\ d.constraint[s.obj] = NoConstraint
         [] s.kind \in {"VALIDATE_CONSTRAINT", "DROP_CONSTRAINT"} ->
              d.constraint[s.obj].on[1] = s.rel
         [] OTHER -> TRUE

\* Database d when what lived at h lives at home[h].
Moved(d, home) ==
    [d EXCEPT !.index      = [i \in Indexes |-> home[d.index[i]]],
              !.constraint = [k \in Constraints |->
                                 IF home[d.constraint[k].on] = Nowhere THEN NoConstraint
                                 ELSE [d.constraint[k] EXCEPT !.on = home[@]]]]

WithColumns(d, column) == [d EXCEPT !.column = column]

Declared(type) == [type |-> type, notNull |-> FALSE, default |-> FALSE]

\* The database after an accepted statement. What lives on a table or on a
\* column goes where it goes. A promoted index belongs to its constraint.
Effect(d, s) ==
    CASE s.kind = "CREATE_TABLE" /\ s.rel \notin d.there ->
           WithColumns([d EXCEPT !.there = @ \cup {s.rel}],
                       [c \in Tables \X Columns |->
                           IF c[1] = s.rel THEN Declared(s.cols[c[2]]) ELSE d.column[c]])
      [] s.kind = "DROP_TABLE" ->
           Moved(WithColumns([d EXCEPT !.there = @ \ {s.obj}],
                             [c \in Tables \X Columns |->
                                 IF c[1] = s.obj THEN NoColumn ELSE d.column[c]]),
                 [h \in Homes |-> IF h[1] = s.obj THEN Nowhere ELSE h])
      [] s.kind = "RENAME_TABLE" ->
           Moved(WithColumns([d EXCEPT !.there = (@ \ {s.obj}) \cup {s.new}],
                             [c \in Tables \X Columns |->
                                 CASE c[1] = s.new -> d.column[<<s.obj, c[2]>>]
                                   [] c[1] = s.obj -> NoColumn
                                   [] OTHER        -> d.column[c]]),
                 [h \in Homes |-> IF h[1] = s.obj THEN <<s.new, h[2]>> ELSE h])
      [] s.kind = "ADD_COLUMN" /\ ~There(d, Home(s)) ->
           [d EXCEPT !.column[Home(s)] = [type |-> s.type, notNull |-> Has(s, "NOT NULL"),
                                          default |-> Has(s, "DEFAULT")]]
      [] s.kind = "DROP_COLUMN" ->
           Moved([d EXCEPT !.column[Home(s)] = NoColumn],
                 [h \in Homes |-> IF h = Home(s) THEN Nowhere ELSE h])
      [] s.kind = "RENAME_COLUMN" ->
           Moved([d EXCEPT !.column[<<s.rel, s.new>>] = d.column[Home(s)], !.column[Home(s)] = NoColumn],
                 [h \in Homes |-> IF h = Home(s) THEN <<s.rel, s.new>> ELSE h])
      [] s.kind = "ALTER_COLUMN_TYPE" -> [d EXCEPT !.column[Home(s)].type = s.type]
      [] s.kind \in {"SET_NOT_NULL", "DROP_NOT_NULL"} ->
           [d EXCEPT !.column[Home(s)].notNull = s.kind = "SET_NOT_NULL"]
      [] s.kind \in {"SET_DEFAULT", "DROP_DEFAULT"} ->
           [d EXCEPT !.column[Home(s)].default = s.kind = "SET_DEFAULT"]
      [] s.kind = "CREATE_INDEX" -> [d EXCEPT !.index[s.obj] = <<s.rel, s.new>>]
      [] s.kind = "DROP_INDEX"   -> [d EXCEPT !.index[s.obj] = Nowhere]
      [] s.kind = "ADD_CONSTRAINT" ->
           [d EXCEPT !.constraint[s.obj] = [on |-> <<s.rel, Whole>>, valid |-> ~Has(s, "NOT VALID")]]
      [] s.kind = "ADD_CONSTRAINT_USING_INDEX" ->
           [d EXCEPT !.constraint[s.obj] = [on |-> d.index[s.new], valid |-> TRUE],
                     !.index[s.new] = Nowhere]
      [] s.kind = "VALIDATE_CONSTRAINT" -> [d EXCEPT !.constraint[s.obj].valid = TRUE]
      [] s.kind = "DROP_CONSTRAINT"     -> [d EXCEPT !.constraint[s.obj] = NoConstraint]
      [] OTHER -> d

\* One line of a script: a refused statement ends the script where it is.
Perform(d, s) == IF Accepts(d, s) THEN Effect(d, s) ELSE [d EXCEPT !.ok = FALSE]

\* What there is to lose.
Objects(d) ==
    d.there \cup {c \in Tables \X Columns : There(d, c)}
            \cup {i \in Indexes : d.index[i] # Nowhere}
            \cup {k \in Constraints : d.constraint[k] # NoConstraint}
=============================================================================
