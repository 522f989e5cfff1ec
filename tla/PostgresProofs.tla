--------------------------- MODULE PostgresProofs ---------------------------
(***************************************************************************)
(* Postgres, for changesets of any size.                                   *)
(***************************************************************************)
EXTENDS Postgres, NaturalFacts, FiniteSetTheorems, SequenceTheorems

-----------------------------------------------------------------------------
(* Databases. *)

\* A database is what its parts are.
LEMMA SameDatabase ==
    ASSUME NEW d \in Database, NEW e \in Database,
           e.ok = d.ok, e.there = d.there, e.column = d.column,
           e.index = d.index, e.constraint = d.constraint
    PROVE  e = d
BY DEF Database

LEMMA Constants ==
    /\ NoType \in Types /\ NoColumn \in Column /\ NoColumn.type = NoType
    /\ Nowhere \in Homes /\ NoConstraint \in [on : Homes, valid : BOOLEAN]
    /\ \A t \in Tables, c \in Columns \cup {Whole} : <<t, c>> \in Homes /\ <<t, c>> # Nowhere
    /\ \A h \in Homes : h # Nowhere => h \in Tables \X (Columns \cup {Whole})
<1>1. NoType \in Types
  BY DEF Types
<1>2. NoColumn \in Column /\ NoColumn.type = NoType
  BY <1>1 DEF NoColumn, Column
<1> QED BY <1>1, <1>2, NamesAssumption DEF Nowhere, Homes, NoConstraint

LEMMA DeclaredIs ==
    ASSUME NEW t \in Types
    PROVE  /\ Declared(t) \in Column
           /\ Declared(t).type = t
           /\ t = NoType => Declared(t) = NoColumn
BY DEF Declared, NoColumn, Column

\* The parts of a statement that undoes another.
LEMMA PlainIs ==
    ASSUME NEW kind, NEW rel, NEW obj
    PROVE  /\ Plain(kind, rel, obj).kind = kind /\ Plain(kind, rel, obj).rel = rel
           /\ Plain(kind, rel, obj).obj = obj
BY DEF Plain

LEMMA RetypedIs ==
    ASSUME NEW kind, NEW rel, NEW obj, NEW x
    PROVE  LET u == [Plain(kind, rel, obj) EXCEPT !.type = x] IN
           u.kind = kind /\ u.rel = rel /\ u.obj = obj /\ u.type = x
BY DEF Plain

LEMMA RenamedIs ==
    ASSUME NEW kind, NEW rel, NEW obj, NEW x
    PROVE  LET u == [Plain(kind, rel, obj) EXCEPT !.new = x] IN
           u.kind = kind /\ u.rel = rel /\ u.obj = obj /\ u.new = x
BY DEF Plain

\* A database in parts.
Parts(d, there, column, index, constraint) ==
    [ok |-> d.ok, there |-> there, column |-> column, index |-> index, constraint |-> constraint]

IndexAt(d, home)      == [i \in Indexes |-> home[d.index[i]]]
ConstraintAt(d, home) ==
    [k \in Constraints |-> IF home[d.constraint[k].on] = Nowhere THEN NoConstraint
                           ELSE [d.constraint[k] EXCEPT !.on = home[@]]]

\* Where things live when a table, or what lives on a column, is gone or goes
\* by another name.
TableGone(t)    == [h \in Homes |-> IF h[1] = t THEN Nowhere ELSE h]
TableNow(t, n)  == [h \in Homes |-> IF h[1] = t THEN <<n, h[2]>> ELSE h]
HomeGone(c)     == [h \in Homes |-> IF h = c THEN Nowhere ELSE h]
HomeNow(c, n)   == [h \in Homes |-> IF h = c THEN n ELSE h]

\* The columns without those of a table, and with those under another name.
ColumnsWithout(d, t) == [c \in Tables \X Columns |-> IF c[1] = t THEN NoColumn ELSE d.column[c]]
ColumnsUnder(d, t, n) ==
    [c \in Tables \X Columns |->
        CASE c[1] = n -> d.column[<<t, c[2]>>]
          [] c[1] = t -> NoColumn
          [] OTHER    -> d.column[c]]

LEMMA MovedIs ==
    ASSUME NEW d \in Database, NEW there, NEW column, NEW home
    PROVE  Moved([[d EXCEPT !.there = there] EXCEPT !.column = column], home) =
             Parts(d, there, column, IndexAt(d, home), ConstraintAt(d, home))
<1> DEFINE e == [[d EXCEPT !.there = there] EXCEPT !.column = column]
<1>0. /\ e.index = d.index /\ e.constraint = d.constraint
  BY DEF Database
<1>1. e = Parts(d, there, column, d.index, d.constraint)
  <2> DEFINE d1 == [d EXCEPT !.there = there]
             R == [ok : BOOLEAN, there : {there}, column : {d.column},
                   index : {d.index}, constraint : {d.constraint}]
  <2>1. d1 \in R /\ d1.ok = d.ok
    BY DEF Database
  <2> HIDE DEF d1
  <2>2. [d1 EXCEPT !.column = column] = Parts(d, there, column, d.index, d.constraint)
    BY <2>1 DEF Parts
  <2> QED BY <2>2 DEF d1
<1>2. IndexAt(e, home) = IndexAt(d, home) /\ ConstraintAt(e, home) = ConstraintAt(d, home)
  BY <1>0 DEF IndexAt, ConstraintAt
<1>3. Moved(e, home) = [e EXCEPT !.index = IndexAt(e, home), !.constraint = ConstraintAt(e, home)]
  BY DEF Moved, IndexAt, ConstraintAt
<1> HIDE DEF e
<1>4. Moved(e, home) = Parts(d, there, column, IndexAt(d, home), ConstraintAt(d, home))
  BY <1>1, <1>2, <1>3 DEF Parts
<1> QED BY <1>4 DEF e

\* What each kind of statement makes of the parts.
LEMMA CreateTableIs ==
    ASSUME NEW d \in Database, NEW s, s.kind = "CREATE_TABLE", s.rel \notin d.there
    PROVE  Effect(d, s) =
             Parts(d, d.there \cup {s.rel},
                   [c \in Tables \X Columns |->
                       IF c[1] = s.rel THEN Declared(s.cols[c[2]]) ELSE d.column[c]],
                   d.index, d.constraint)
BY DEF Effect, WithColumns, Parts, Database

LEMMA DropTableIs ==
    ASSUME NEW d \in Database, NEW s, s.kind = "DROP_TABLE"
    PROVE  Effect(d, s) =
             Parts(d, d.there \ {s.obj}, ColumnsWithout(d, s.obj),
                   IndexAt(d, TableGone(s.obj)), ConstraintAt(d, TableGone(s.obj)))
BY MovedIs DEF Effect, WithColumns, ColumnsWithout, TableGone

LEMMA RenameTableIs ==
    ASSUME NEW d \in Database, NEW s, s.kind = "RENAME_TABLE"
    PROVE  Effect(d, s) =
             Parts(d, (d.there \ {s.obj}) \cup {s.new}, ColumnsUnder(d, s.obj, s.new),
                   IndexAt(d, TableNow(s.obj, s.new)), ConstraintAt(d, TableNow(s.obj, s.new)))
BY MovedIs DEF Effect, WithColumns, ColumnsUnder, TableNow

LEMMA AddColumnIs ==
    ASSUME NEW d \in Database, NEW s, s.kind = "ADD_COLUMN", ~There(d, Home(s))
    PROVE  Effect(d, s) =
             Parts(d, d.there,
                   [d.column EXCEPT ![Home(s)] = [type |-> s.type, notNull |-> Has(s, "NOT NULL"),
                                                  default |-> Has(s, "DEFAULT")]],
                   d.index, d.constraint)
BY DEF Effect, Parts, Database

LEMMA DropColumnIs ==
    ASSUME NEW d \in Database, NEW s, s.kind = "DROP_COLUMN"
    PROVE  Effect(d, s) = Parts(d, d.there, [d.column EXCEPT ![Home(s)] = NoColumn],
                                IndexAt(d, HomeGone(Home(s))), ConstraintAt(d, HomeGone(Home(s))))
<1>1. Effect(d, s) = Moved([d EXCEPT !.column[Home(s)] = NoColumn], HomeGone(Home(s)))
  BY DEF Effect, HomeGone
<1> QED BY <1>1 DEF Moved, Parts, IndexAt, ConstraintAt, Database

LEMMA RenameColumnIs ==
    ASSUME NEW d \in Database, NEW s, s.kind = "RENAME_COLUMN"
    PROVE  LET to == <<s.rel, s.new>> IN
           Effect(d, s) =
             Parts(d, d.there, [d.column EXCEPT ![to] = d.column[Home(s)], ![Home(s)] = NoColumn],
                   IndexAt(d, HomeNow(Home(s), to)), ConstraintAt(d, HomeNow(Home(s), to)))
<1> DEFINE to == <<s.rel, s.new>>
           column == [d.column EXCEPT ![to] = d.column[Home(s)], ![Home(s)] = NoColumn]
           home == HomeNow(Home(s), to)
<1>1. Effect(d, s) = Moved([d EXCEPT !.column[to] = d.column[Home(s)], !.column[Home(s)] = NoColumn], home)
  BY DEF Effect, HomeNow
<1>2. [d EXCEPT !.column[to] = d.column[Home(s)], !.column[Home(s)] = NoColumn] =
        [[d EXCEPT !.there = d.there] EXCEPT !.column = column]
  BY DEF Database
<1>3. Moved([[d EXCEPT !.there = d.there] EXCEPT !.column = column], home) =
        Parts(d, d.there, column, IndexAt(d, home), ConstraintAt(d, home))
  BY MovedIs
<1> QED BY <1>1, <1>2, <1>3

LEMMA AlterColumnIs ==
    ASSUME NEW d \in Database, NEW s
    PROVE  LET With(column) == Parts(d, d.there, column, d.index, d.constraint)
               c == Home(s)
           IN
           /\ s.kind = "ALTER_COLUMN_TYPE" =>
                Effect(d, s) = With([d.column EXCEPT ![c] = [@ EXCEPT !.type = s.type]])
           /\ s.kind = "SET_NOT_NULL" =>
                Effect(d, s) = With([d.column EXCEPT ![c] = [@ EXCEPT !.notNull = TRUE]])
           /\ s.kind = "DROP_NOT_NULL" =>
                Effect(d, s) = With([d.column EXCEPT ![c] = [@ EXCEPT !.notNull = FALSE]])
           /\ s.kind = "SET_DEFAULT" =>
                Effect(d, s) = With([d.column EXCEPT ![c] = [@ EXCEPT !.default = TRUE]])
           /\ s.kind = "DROP_DEFAULT" =>
                Effect(d, s) = With([d.column EXCEPT ![c] = [@ EXCEPT !.default = FALSE]])
BY DEF Effect, Parts, Database

LEMMA IndexIs ==
    ASSUME NEW d \in Database, NEW s
    PROVE  /\ s.kind = "CREATE_INDEX" =>
                Effect(d, s) = Parts(d, d.there, d.column, [d.index EXCEPT ![s.obj] = <<s.rel, s.new>>],
                                     d.constraint)
           /\ s.kind = "DROP_INDEX" =>
                Effect(d, s) = Parts(d, d.there, d.column, [d.index EXCEPT ![s.obj] = Nowhere],
                                     d.constraint)
BY DEF Effect, Parts, Database

LEMMA ConstraintIs ==
    ASSUME NEW d \in Database, NEW s
    PROVE  /\ s.kind = "ADD_CONSTRAINT" =>
                Effect(d, s) =
                  Parts(d, d.there, d.column, d.index,
                        [d.constraint EXCEPT ![s.obj] = [on |-> <<s.rel, Whole>>, valid |-> ~Has(s, "NOT VALID")]])
           /\ s.kind = "ADD_CONSTRAINT_USING_INDEX" =>
                Effect(d, s) =
                  Parts(d, d.there, d.column, [d.index EXCEPT ![s.new] = Nowhere],
                        [d.constraint EXCEPT ![s.obj] = [on |-> d.index[s.new], valid |-> TRUE]])
           /\ s.kind = "VALIDATE_CONSTRAINT" =>
                Effect(d, s) = Parts(d, d.there, d.column, d.index,
                                     [d.constraint EXCEPT ![s.obj].valid = TRUE])
           /\ s.kind = "DROP_CONSTRAINT" =>
                Effect(d, s) = Parts(d, d.there, d.column, d.index,
                                     [d.constraint EXCEPT ![s.obj] = NoConstraint])
BY DEF Effect, Parts, Database

-----------------------------------------------------------------------------
(* What lives on tables and columns. *)

LEMMA PartsAre ==
    ASSUME NEW d, NEW there, NEW column, NEW index, NEW constraint
    PROVE  LET e == Parts(d, there, column, index, constraint) IN
           /\ e.ok = d.ok /\ e.there = there
           /\ e.column = column /\ e.index = index /\ e.constraint = constraint
           /\ d \in Database /\ there \in SUBSET Tables
                 /\ column \in [Tables \X Columns -> Column] /\ index \in [Indexes -> Homes]
                 /\ constraint \in [Constraints -> [on : Homes, valid : BOOLEAN]] => e \in Database
BY DEF Parts, Database

LEMMA MovedTypes ==
    ASSUME NEW d \in Database, NEW home \in [Homes -> Homes]
    PROVE  /\ IndexAt(d, home) \in [Indexes -> Homes]
           /\ ConstraintAt(d, home) \in [Constraints -> [on : Homes, valid : BOOLEAN]]
           /\ \A k \in Constraints :
                 LET on == home[d.constraint[k].on] IN
                 IF on = Nowhere THEN ConstraintAt(d, home)[k] = NoConstraint
                 ELSE /\ ConstraintAt(d, home)[k].on = on
                      /\ ConstraintAt(d, home)[k].valid = d.constraint[k].valid
<1>1. \A k \in Constraints : d.constraint[k] \in [on : Homes, valid : BOOLEAN]
  BY DEF Database
<1>2. \A k \in Constraints :
        LET on == home[d.constraint[k].on]
            c  == [d.constraint[k] EXCEPT !.on = on]
        IN  c \in [on : Homes, valid : BOOLEAN] /\ c.on = on /\ c.valid = d.constraint[k].valid
  BY <1>1
<1> QED BY <1>1, <1>2, Constants DEF IndexAt, ConstraintAt, Database

\* What lived somewhere and is taken along, or goes with it.
LEMMA MovedConsistent ==
    ASSUME NEW d, Consistent(d), NEW home \in [Homes -> Homes], home[Nowhere] = Nowhere,
           NEW there \in SUBSET Tables, NEW column \in [Tables \X Columns -> Column],
           \A c \in Tables \X Columns : column[c] # NoColumn => c[1] \in there /\ column[c].type # NoType,
           NEW e, e = Parts(d, there, column, IndexAt(d, home), ConstraintAt(d, home)),
           \A h \in Homes : Lives(d, h) /\ home[h] # Nowhere => Lives(e, home[h])
    PROVE  Consistent(e)
<1>0. /\ d \in Database /\ d.ok
      /\ IndexAt(d, home) \in [Indexes -> Homes]
      /\ ConstraintAt(d, home) \in [Constraints -> [on : Homes, valid : BOOLEAN]]
  BY MovedTypes DEF Consistent
<1>1. /\ e \in Database /\ e.ok /\ e.there = there /\ e.column = column
      /\ e.index = IndexAt(d, home) /\ e.constraint = ConstraintAt(d, home)
  <2>1. /\ e.there = there /\ e.column = column
        /\ e.index = IndexAt(d, home) /\ e.constraint = ConstraintAt(d, home)
    BY DEF Parts
  <2>2. e.ok
    BY <1>0 DEF Parts
  <2>3. e \in Database
    BY <1>0 DEF Parts, Database
  <2> QED BY <2>1, <2>2, <2>3
<1>2. ASSUME NEW i \in Indexes, e.index[i] # Nowhere
      PROVE  Lives(e, e.index[i])
  BY <1>1, <1>2 DEF IndexAt, Consistent, Database
<1>3. ASSUME NEW k \in Constraints, e.constraint[k] # NoConstraint
      PROVE  Lives(e, e.constraint[k].on)
  <2>1. d.constraint[k].on \in Homes
    BY DEF Consistent, Database
  <2>2. home[d.constraint[k].on] # Nowhere /\ e.constraint[k].on = home[d.constraint[k].on]
    BY <1>1, <1>3, MovedTypes DEF Consistent
  <2>3. d.constraint[k] # NoConstraint
    BY <2>2 DEF NoConstraint
  <2> QED BY <2>1, <2>2, <2>3 DEF Consistent
<1> QED BY <1>1, <1>2, <1>3 DEF Consistent

\* What was taken along comes back.
LEMMA MovedBack ==
    ASSUME NEW d, Consistent(d), NEW home \in [Homes -> Homes], NEW back \in [Homes -> Homes],
           home[Nowhere] = Nowhere, back[Nowhere] = Nowhere,
           \A h \in Homes : Lives(d, h) => home[h] # Nowhere /\ back[home[h]] = h /\ h # Nowhere,
           NEW e \in Database, e.index = IndexAt(d, home), e.constraint = ConstraintAt(d, home)
    PROVE  IndexAt(e, back) = d.index /\ ConstraintAt(e, back) = d.constraint
<1>1. \A i \in Indexes : back[home[d.index[i]]] = d.index[i]
  BY DEF Consistent, Database
<1>2. IndexAt(e, back) = d.index
  BY <1>1 DEF IndexAt, Consistent, Database
<1>3. ASSUME NEW k \in Constraints
      PROVE  ConstraintAt(e, back)[k] = d.constraint[k]
  <2>0. /\ d.constraint[k] \in [on : Homes, valid : BOOLEAN]
        /\ ConstraintAt(e, back)[k] \in [on : Homes, valid : BOOLEAN]
    <3>1. ConstraintAt(e, back) \in [Constraints -> [on : Homes, valid : BOOLEAN]]
      BY MovedTypes
    <3> QED BY <3>1 DEF Consistent, Database
  <2>1. CASE d.constraint[k] = NoConstraint
    <3>1. home[d.constraint[k].on] = Nowhere
      BY <2>1 DEF NoConstraint
    <3>2. e.constraint[k] = NoConstraint
      BY <3>1, MovedTypes DEF Consistent
    <3>3. back[e.constraint[k].on] = Nowhere
      BY <3>2 DEF NoConstraint
    <3> QED BY <2>1, <3>3, MovedTypes
  <2>2. CASE d.constraint[k] # NoConstraint
    <3>1. Lives(d, d.constraint[k].on)
      BY <2>2 DEF Consistent
    <3>2. /\ home[d.constraint[k].on] # Nowhere /\ d.constraint[k].on # Nowhere
          /\ back[home[d.constraint[k].on]] = d.constraint[k].on
      BY <3>1, <2>0
    <3>3. e.constraint[k].on = home[d.constraint[k].on] /\ e.constraint[k].valid = d.constraint[k].valid
      BY <3>2, MovedTypes DEF Consistent
    <3>4. /\ ConstraintAt(e, back)[k].on = d.constraint[k].on
          /\ ConstraintAt(e, back)[k].valid = d.constraint[k].valid
      BY <3>2, <3>3, MovedTypes
    <3> QED BY <2>0, <3>4
  <2> QED BY <2>1, <2>2
<1>4. ConstraintAt(e, back) = d.constraint
  BY <1>3 DEF ConstraintAt, Consistent, Database
<1> QED BY <1>2, <1>4

\* What was not moved stays where it is.
LEMMA NotMoved ==
    ASSUME NEW d, Consistent(d), NEW back \in [Homes -> Homes], back[Nowhere] = Nowhere,
           \A h \in Homes : Lives(d, h) => back[h] = h /\ h # Nowhere,
           NEW e \in Database, e.index = d.index, e.constraint = d.constraint
    PROVE  IndexAt(e, back) = d.index /\ ConstraintAt(e, back) = d.constraint
<1> DEFINE home == [h \in Homes |-> h]
<1>1. d.index = IndexAt(d, home)
  BY DEF IndexAt, Consistent, Database
<1>2. d.constraint = ConstraintAt(d, home)
  <2>1. ASSUME NEW k \in Constraints
        PROVE  ConstraintAt(d, home)[k] = d.constraint[k]
    <3>0. /\ d \in Database
          /\ ConstraintAt(d, home) \in [Constraints -> [on : Homes, valid : BOOLEAN]]
      BY MovedTypes DEF Consistent
    <3>1. /\ d.constraint[k] \in [on : Homes, valid : BOOLEAN]
          /\ ConstraintAt(d, home)[k] \in [on : Homes, valid : BOOLEAN]
      BY <3>0 DEF Database
    <3>2. CASE d.constraint[k].on = Nowhere
      <4>1. d.constraint[k] = NoConstraint
        BY <3>1, <3>2 DEF Consistent
      <4> QED BY <3>1, <3>2, <4>1, MovedTypes DEF Consistent
    <3>3. CASE d.constraint[k].on # Nowhere
      BY <3>1, <3>3, MovedTypes DEF Consistent
    <3> QED BY <3>2, <3>3
  <2> QED BY <2>1 DEF ConstraintAt, Consistent, Database
<1> HIDE DEF home
<1>3. home \in [Homes -> Homes] /\ \A h \in Homes : home[h] = h
  BY DEF home
<1> QED BY <1>1, <1>2, <1>3, MovedBack, Constants

-----------------------------------------------------------------------------
(* Every step of a plan undoes its statement. *)

LEMMA UndoIs ==
    ASSUME NEW s, NEW prior
    PROVE  LET u == UndoStep(s, prior) IN
           /\ s.kind = "CREATE_TABLE" => u.kind = "DROP_TABLE" /\ u.obj = s.rel
           /\ s.kind = "ADD_COLUMN" => u.kind = "DROP_COLUMN" /\ Home(u) = Home(s)
           /\ s.kind = "ALTER_COLUMN_TYPE" =>
                 u.kind = "ALTER_COLUMN_TYPE" /\ Home(u) = Home(s) /\ u.type = prior
           /\ s.kind = "RENAME_TABLE" => u.kind = "RENAME_TABLE" /\ u.obj = s.new /\ u.new = s.obj
           /\ s.kind = "RENAME_COLUMN" =>
                 u.kind = "RENAME_COLUMN" /\ u.rel = s.rel /\ u.obj = s.new /\ u.new = s.obj
           /\ s.kind = "CREATE_INDEX" => u.kind = "DROP_INDEX" /\ u.obj = s.obj
           /\ s.kind = "SET_NOT_NULL" => u.kind = "DROP_NOT_NULL" /\ Home(u) = Home(s)
           /\ s.kind = "DROP_NOT_NULL" => u.kind = "SET_NOT_NULL" /\ Home(u) = Home(s)
           /\ s.kind = "SET_DEFAULT" => u.kind = "DROP_DEFAULT" /\ Home(u) = Home(s)
           /\ s.kind = "ADD_CONSTRAINT" => u.kind = "DROP_CONSTRAINT" /\ u.rel = s.rel /\ u.obj = s.obj
<1>1. ASSUME s.kind = "CREATE_TABLE"
      PROVE  LET u == UndoStep(s, prior) IN u.kind = "DROP_TABLE" /\ u.obj = s.rel
  <2>1. \E rel : UndoStep(s, prior) = Plain("DROP_TABLE", rel, s.rel)
    BY <1>1 DEF UndoStep
  <2> QED BY <2>1, PlainIs
<1>2. ASSUME s.kind = "ADD_COLUMN"
      PROVE  LET u == UndoStep(s, prior) IN u.kind = "DROP_COLUMN" /\ Home(u) = Home(s)
  <2>1. UndoStep(s, prior) = Plain("DROP_COLUMN", s.rel, s.obj)
    BY <1>2 DEF UndoStep
  <2> QED BY <2>1, PlainIs DEF Home
<1>3. ASSUME s.kind = "ALTER_COLUMN_TYPE"
      PROVE  LET u == UndoStep(s, prior) IN
             u.kind = "ALTER_COLUMN_TYPE" /\ Home(u) = Home(s) /\ u.type = prior
  <2>1. UndoStep(s, prior) = [Plain("ALTER_COLUMN_TYPE", s.rel, s.obj) EXCEPT !.type = prior]
    BY <1>3 DEF UndoStep
  <2> QED BY <2>1, RetypedIs DEF Home
<1>4. ASSUME s.kind = "RENAME_TABLE"
      PROVE  LET u == UndoStep(s, prior) IN u.kind = "RENAME_TABLE" /\ u.obj = s.new /\ u.new = s.obj
  <2>1. \E rel : UndoStep(s, prior) = [Plain("RENAME_TABLE", rel, s.new) EXCEPT !.new = s.obj]
    BY <1>4 DEF UndoStep
  <2> QED BY <2>1, RenamedIs
<1>5. ASSUME s.kind = "RENAME_COLUMN"
      PROVE  LET u == UndoStep(s, prior) IN
             u.kind = "RENAME_COLUMN" /\ u.rel = s.rel /\ u.obj = s.new /\ u.new = s.obj
  <2>1. UndoStep(s, prior) = [Plain("RENAME_COLUMN", s.rel, s.new) EXCEPT !.new = s.obj]
    BY <1>5 DEF UndoStep
  <2> QED BY <2>1, RenamedIs
<1>6. ASSUME s.kind = "CREATE_INDEX"
      PROVE  LET u == UndoStep(s, prior) IN u.kind = "DROP_INDEX" /\ u.obj = s.obj
  <2>1. \E rel : UndoStep(s, prior) = Plain("DROP_INDEX", rel, s.obj)
    BY <1>6 DEF UndoStep
  <2> QED BY <2>1, PlainIs
<1>7. LET u == UndoStep(s, prior) IN
      /\ s.kind = "SET_NOT_NULL" => u = Plain("DROP_NOT_NULL", s.rel, s.obj)
      /\ s.kind = "DROP_NOT_NULL" => u = Plain("SET_NOT_NULL", s.rel, s.obj)
      /\ s.kind = "SET_DEFAULT" => u = Plain("DROP_DEFAULT", s.rel, s.obj)
      /\ s.kind = "ADD_CONSTRAINT" => u = Plain("DROP_CONSTRAINT", s.rel, s.obj)
  BY DEF UndoStep
<1>8. LET u == UndoStep(s, prior) IN
      /\ s.kind = "SET_NOT_NULL" => u.kind = "DROP_NOT_NULL" /\ Home(u) = Home(s)
      /\ s.kind = "DROP_NOT_NULL" => u.kind = "SET_NOT_NULL" /\ Home(u) = Home(s)
      /\ s.kind = "SET_DEFAULT" => u.kind = "DROP_DEFAULT" /\ Home(u) = Home(s)
      /\ s.kind = "ADD_CONSTRAINT" => u.kind = "DROP_CONSTRAINT" /\ u.rel = s.rel /\ u.obj = s.obj
  BY <1>7, PlainIs DEF Home
<1> QED BY <1>1, <1>2, <1>3, <1>4, <1>5, <1>6, <1>8

LEMMA CreateTableUnwinds ==
    ASSUME NEW d, Consistent(d), NEW s, WellNamed(s), NEW prior,
           s.kind = "CREATE_TABLE", s.rel \notin d.there
    PROVE  Consistent(Effect(d, s)) /\ Perform(Effect(d, s), UndoStep(s, prior)) = d
<1> DEFINE there == d.there \cup {s.rel}
           column == [c \in Tables \X Columns |->
                           IF c[1] = s.rel THEN Declared(s.cols[c[2]]) ELSE d.column[c]]
           e == Parts(d, there, column, d.index, d.constraint)
           u == UndoStep(s, prior)
           back == TableGone(s.rel)
<1>1. Effect(d, s) = e
  BY CreateTableIs DEF Consistent
<1>2. /\ u.kind = "DROP_TABLE" /\ u.obj = s.rel
      /\ s.rel \in Tables /\ s.cols \in [Columns -> Types]
  BY UndoIs DEF WellNamed
<1>3. /\ column \in [Tables \X Columns -> Column]
      /\ \A c \in Tables \X Columns :
            column[c] # NoColumn => c[1] \in there /\ column[c].type # NoType
  BY <1>2, DeclaredIs DEF Consistent, Database
<1>4. e \in Database /\ e.ok /\ e.there = there /\ e.column = column
      /\ e.index = d.index /\ e.constraint = d.constraint
  <2>1. d \in Database /\ d.ok /\ there \in SUBSET Tables
    BY <1>2 DEF Consistent, Database
  <2> QED BY <2>1, <1>3 DEF Parts, Database
<1> HIDE DEF e, u
<1>5. ASSUME NEW h \in Homes, Lives(d, h)
      PROVE  Lives(e, h) /\ h # Nowhere /\ back[h] = h
  <2>1. h[1] \in d.there /\ h[1] # s.rel
    BY <1>5 DEF Lives
  <2>2. h # Nowhere
    BY <2>1, NamesAssumption DEF Consistent, Database, Nowhere
  <2>3. Lives(e, h)
    <3>1. CASE h[2] = Whole
      BY <2>1, <1>4, <3>1 DEF Lives
    <3>2. CASE h[2] # Whole
      <4>1. h \in Tables \X Columns
        BY <2>2, <3>2, Constants
      <4> QED BY <1>4, <1>5, <2>1, <3>2, <4>1 DEF Lives
    <3> QED BY <3>1, <3>2
  <2> QED BY <2>1, <2>2, <2>3 DEF TableGone
<1>6. Consistent(e)
  BY <1>3, <1>4, <1>5 DEF Consistent, Database
<1>7. IndexAt(e, back) = d.index /\ ConstraintAt(e, back) = d.constraint
  <2>1. back \in [Homes -> Homes] /\ back[Nowhere] = Nowhere
    BY Constants DEF TableGone
  <2> HIDE DEF back
  <2> QED BY <1>4, <1>5, <2>1, NotMoved
<1>8. Accepts(e, u)
  BY <1>2, <1>4 DEF Accepts, ColumnKinds
<1>9. Effect(e, u) = Parts(e, e.there \ {s.rel}, ColumnsWithout(e, s.rel), d.index, d.constraint)
  BY <1>2, <1>4, <1>7, DropTableIs
<1>10. e.there \ {s.rel} = d.there /\ ColumnsWithout(e, s.rel) = d.column
  BY <1>2, <1>4 DEF Consistent, Database, ColumnsWithout
<1>11. Effect(e, u) = d
  BY <1>4, <1>9, <1>10 DEF Parts, Consistent, Database
<1> QED BY <1>1, <1>6, <1>8, <1>11 DEF Perform, e, u

LEMMA Somewhere ==
    ASSUME NEW h, h[1] \in Tables
    PROVE  h # Nowhere
BY NamesAssumption DEF Nowhere

\* What lives somewhere lives on a table, or on a column of one.
LEMMA LivesSomewhere ==
    ASSUME NEW d, Consistent(d), NEW h \in Homes, Lives(d, h)
    PROVE  /\ h # Nowhere /\ h[1] \in d.there /\ h[1] \in Tables
           /\ h = <<h[1], h[2]>>
           /\ h[2] # Whole => h \in Tables \X Columns /\ h[2] \in Columns /\ d.column[h] # NoColumn
<1>1. h[1] \in d.there /\ h[1] \in Tables
  BY DEF Lives, Consistent, Database
<1>2. h # Nowhere
  BY <1>1, NamesAssumption DEF Nowhere
<1>3. h \in Tables \X (Columns \cup {Whole})
  BY <1>2, Constants
<1> QED BY <1>1, <1>2, <1>3 DEF Lives

\* A database rebuilt from the parts of another that nothing was refused by.
LEMMA Rebuilt ==
    ASSUME NEW d, Consistent(d), NEW e, Consistent(e)
    PROVE  Parts(e, d.there, d.column, d.index, d.constraint) = d
BY DEF Parts, Consistent, Database

LEMMA RenameTableUnwinds ==
    ASSUME NEW d, Consistent(d), NEW s, WellNamed(s), NEW prior,
           s.kind = "RENAME_TABLE", Accepts(d, s)
    PROVE  Consistent(Effect(d, s)) /\ Perform(Effect(d, s), UndoStep(s, prior)) = d
<1> DEFINE there == (d.there \ {s.obj}) \cup {s.new}
           column == ColumnsUnder(d, s.obj, s.new)
           home == TableNow(s.obj, s.new)
           back == TableNow(s.new, s.obj)
           e == Effect(d, s)
           u == UndoStep(s, prior)
<1>1. e = Parts(d, there, column, IndexAt(d, home), ConstraintAt(d, home))
  BY RenameTableIs DEF Consistent
<1>2. /\ s.obj \in Tables /\ s.new \in Tables
      /\ s.obj \in d.there /\ s.new \notin d.there /\ s.obj # s.new
      /\ u.kind = "RENAME_TABLE" /\ u.obj = s.new /\ u.new = s.obj
  BY UndoIs DEF WellNamed, Accepts, ColumnKinds
<1>3. /\ there \in SUBSET Tables
      /\ column \in [Tables \X Columns -> Column]
      /\ \A c \in Tables \X Columns :
            /\ c[1] = s.new => column[c] = d.column[<<s.obj, c[2]>>]
            /\ c[1] = s.obj => column[c] = NoColumn
            /\ c[1] \notin {s.obj, s.new} => column[c] = d.column[c]
      /\ \A c \in Tables \X Columns :
            column[c] # NoColumn => c[1] \in there /\ column[c].type # NoType
  BY <1>2, Constants DEF Consistent, Database, ColumnsUnder
<1>4. /\ home \in [Homes -> Homes] /\ home[Nowhere] = Nowhere
      /\ back \in [Homes -> Homes] /\ back[Nowhere] = Nowhere
  <2>1. \A h \in Homes, t \in Tables, n \in Tables : h[1] = t => <<n, h[2]>> \in Homes
    <3>1. \A h \in Homes, t \in Tables : h[1] = t => h # Nowhere
      BY NamesAssumption DEF Nowhere
    <3> QED BY <3>1, Constants
  <2>2. Nowhere \in Homes /\ Nowhere[1] \notin Tables
    BY NamesAssumption, Constants DEF Nowhere
  <2> QED BY <1>2, <2>1, <2>2 DEF TableNow
<1> HIDE DEF e, u
<1>5. ASSUME NEW h \in Homes, Lives(d, h)
      PROVE  /\ home[h] # Nowhere /\ back[home[h]] = h /\ h # Nowhere
             /\ home[h][1] \in there
             /\ home[h][2] = Whole \/ column[home[h]] # NoColumn
  <2>1. /\ h # Nowhere /\ h[1] \in d.there /\ h[1] \in Tables /\ h = <<h[1], h[2]>>
        /\ h[2] # Whole => h \in Tables \X Columns /\ h[2] \in Columns /\ d.column[h] # NoColumn
    BY <1>5, LivesSomewhere
  <2>2. CASE h[1] = s.obj
    <3>1. home[h] = <<s.new, h[2]>>
      BY <2>2 DEF TableNow
    <3>2. home[h] \in Homes /\ home[h] # Nowhere /\ back[home[h]] = h
      BY <1>2, <1>4, <2>1, <2>2, <3>1, NamesAssumption DEF TableNow, Nowhere
    <3>3. h[2] # Whole => column[home[h]] # NoColumn
      BY <1>2, <1>3, <2>1, <2>2, <3>1
    <3> QED BY <2>1, <3>1, <3>2, <3>3
  <2>3. CASE h[1] # s.obj
    <3>1. home[h] = h /\ h[1] # s.new
      BY <1>2, <2>1, <2>3 DEF TableNow
    <3>2. back[h] = h
      BY <3>1 DEF TableNow
    <3>3. h[2] # Whole => column[h] # NoColumn
      BY <1>3, <2>1, <2>3, <3>1
    <3> QED BY <2>1, <2>3, <3>1, <3>2, <3>3
  <2> QED BY <2>2, <2>3
<1>6. e.there = there /\ e.column = column /\ e.index = IndexAt(d, home) /\ e.constraint = ConstraintAt(d, home)
  BY <1>1 DEF Parts
<1> HIDE DEF there, column, home, back
<1>7. Consistent(e)
  <2>1. \A h \in Homes : Lives(d, h) /\ home[h] # Nowhere => Lives(e, home[h])
    BY <1>5, <1>6 DEF Lives
  <2> QED BY <1>1, <1>3, <1>4, <2>1, MovedConsistent
<1>8. IndexAt(e, back) = d.index /\ ConstraintAt(e, back) = d.constraint
  BY <1>4, <1>5, <1>6, <1>7, MovedBack DEF Consistent
<1>9. Accepts(e, u)
  BY <1>2, <1>6, <1>7 DEF Accepts, ColumnKinds, Consistent, there
<1>10. Effect(e, u) = Parts(e, (e.there \ {s.new}) \cup {s.obj}, ColumnsUnder(e, s.new, s.obj),
                            d.index, d.constraint)
  BY <1>2, <1>7, <1>8, RenameTableIs DEF Consistent, back
<1>11. (e.there \ {s.new}) \cup {s.obj} = d.there
  BY <1>2, <1>6 DEF Consistent, Database, there
<1>12. ColumnsUnder(e, s.new, s.obj) = d.column
  <2>1. ASSUME NEW c \in Tables \X Columns
        PROVE  ColumnsUnder(e, s.new, s.obj)[c] = d.column[c]
    <3>1. CASE c[1] = s.obj
      BY <1>2, <1>3, <1>6, <3>1 DEF ColumnsUnder
    <3>2. CASE c[1] = s.new
      BY <1>2, <3>2 DEF ColumnsUnder, Consistent
    <3>3. CASE c[1] \notin {s.obj, s.new}
      BY <1>3, <1>6, <3>3 DEF ColumnsUnder
    <3> QED BY <3>1, <3>2, <3>3
  <2> QED BY <2>1 DEF ColumnsUnder, Consistent, Database
<1>13. Effect(e, u) = d
  BY <1>7, <1>10, <1>11, <1>12, Rebuilt
<1> QED BY <1>7, <1>9, <1>13 DEF Perform, e, u

\* A column changed in place is still a column, and can be changed back.
LEMMA Changed ==
    ASSUME NEW col \in Column, NEW t \in Types, NEW b \in BOOLEAN
    PROVE  /\ [col EXCEPT !.type = t] \in Column /\ [col EXCEPT !.type = t].type = t
           /\ [[col EXCEPT !.type = t] EXCEPT !.type = col.type] = col
           /\ [col EXCEPT !.notNull = b] \in Column /\ [col EXCEPT !.notNull = b].type = col.type
           /\ col.notNull = b => [col EXCEPT !.notNull = b] = col
           /\ col.notNull # b => [[col EXCEPT !.notNull = b] EXCEPT !.notNull = ~b] = col
           /\ [col EXCEPT !.default = b] \in Column /\ [col EXCEPT !.default = b].type = col.type
           /\ col.default = b => [col EXCEPT !.default = b] = col
           /\ col.default # b => [[col EXCEPT !.default = b] EXCEPT !.default = ~b] = col
<1>1. /\ [col EXCEPT !.type = t] \in Column /\ [col EXCEPT !.type = t].type = t
      /\ [[col EXCEPT !.type = t] EXCEPT !.type = col.type] = col
  BY DEF Column
<1>2. /\ [col EXCEPT !.notNull = b] \in Column /\ [col EXCEPT !.notNull = b].type = col.type
      /\ col.notNull = b => [col EXCEPT !.notNull = b] = col
      /\ col.notNull # b => [[col EXCEPT !.notNull = b] EXCEPT !.notNull = ~b] = col
  BY DEF Column
<1>3. /\ [col EXCEPT !.default = b] \in Column /\ [col EXCEPT !.default = b].type = col.type
      /\ col.default = b => [col EXCEPT !.default = b] = col
      /\ col.default # b => [[col EXCEPT !.default = b] EXCEPT !.default = ~b] = col
  BY DEF Column
<1> QED BY <1>1, <1>2, <1>3

\* Nothing loses its home when a column becomes another, or one more.
LEMMA ColumnSetConsistent ==
    ASSUME NEW d, Consistent(d), NEW c \in Tables \X Columns, c[1] \in d.there,
           NEW col \in Column, col.type # NoType,
           NEW e, e = Parts(d, d.there, [d.column EXCEPT ![c] = col], d.index, d.constraint)
    PROVE  /\ Consistent(e) /\ There(e, c) /\ e.there = d.there
           /\ e.column = [d.column EXCEPT ![c] = col]
           /\ e.index = d.index /\ e.constraint = d.constraint
<1>1. /\ d \in Database /\ d.ok /\ e.there = d.there /\ e.ok
      /\ e.column = [d.column EXCEPT ![c] = col]
      /\ e.index = d.index /\ e.constraint = d.constraint
  BY DEF Parts, Consistent
<1>2. col # NoColumn
  BY Constants
<1>3. e \in Database
  BY <1>1 DEF Parts, Database
<1>4. \A x \in Tables \X Columns : e.column[x] = IF x = c THEN col ELSE d.column[x]
  BY <1>1 DEF Database
<1>5. ASSUME NEW h \in Homes, Lives(d, h)
      PROVE  Lives(e, h)
  BY <1>1, <1>2, <1>4, <1>5, LivesSomewhere DEF Lives
<1> HIDE DEF Parts
<1>6. Consistent(e)
  <2>1. \A x \in Tables \X Columns : e.column[x] # NoColumn => x[1] \in e.there /\ e.column[x].type # NoType
    BY <1>1, <1>4 DEF Consistent
  <2>2. \A i \in Indexes : e.index[i] # Nowhere => Lives(e, e.index[i])
    BY <1>1, <1>5 DEF Consistent, Database
  <2>3. \A k \in Constraints : e.constraint[k] # NoConstraint => Lives(e, e.constraint[k].on)
    BY <1>1, <1>5 DEF Consistent, Database
  <2> QED BY <1>1, <1>3, <2>1, <2>2, <2>3 DEF Consistent
<1> QED BY <1>1, <1>2, <1>4, <1>6 DEF There

LEMMA AddColumnUnwinds ==
    ASSUME NEW d, Consistent(d), NEW s, WellNamed(s), NEW prior,
           s.kind = "ADD_COLUMN", Accepts(d, s), ~There(d, Home(s))
    PROVE  Consistent(Effect(d, s)) /\ Perform(Effect(d, s), UndoStep(s, prior)) = d
<1> DEFINE c == Home(s)
           col == [type |-> s.type, notNull |-> Has(s, "NOT NULL"), default |-> Has(s, "DEFAULT")]
           e == Effect(d, s)
           u == UndoStep(s, prior)
           back == HomeGone(c)
<1>1. e = Parts(d, d.there, [d.column EXCEPT ![c] = col], d.index, d.constraint)
  BY AddColumnIs DEF Consistent
<1>2. /\ c \in Tables \X Columns /\ c[1] = s.rel /\ s.type \in Types /\ s.type # NoType
      /\ c \in Homes /\ c # Nowhere
      /\ u.kind = "DROP_COLUMN" /\ Home(u) = c
  BY UndoIs, Constants DEF WellNamed, ColumnKinds, Home
<1>3. s.rel \in d.there
  BY DEF Accepts, ColumnKinds
<1>4. col \in Column /\ col.type # NoType
  BY <1>2 DEF Column, Has
<1>5. d.column[c] = NoColumn
  BY <1>2, <1>3 DEF There
<1> HIDE DEF c, col, e, u
<1>6. /\ Consistent(e) /\ There(e, c) /\ e.there = d.there
      /\ e.column = [d.column EXCEPT ![c] = col]
      /\ e.index = d.index /\ e.constraint = d.constraint
  BY <1>1, <1>2, <1>3, <1>4, ColumnSetConsistent
<1>7. IndexAt(e, back) = d.index /\ ConstraintAt(e, back) = d.constraint
  <2>1. back \in [Homes -> Homes] /\ back[Nowhere] = Nowhere
    BY Constants DEF HomeGone
  <2>2. ASSUME NEW h \in Homes, Lives(d, h)
        PROVE  back[h] = h /\ h # Nowhere
    <3>1. h # Nowhere /\ h # c
      BY <1>2, <1>5, <2>2, LivesSomewhere, NamesAssumption DEF Lives
    <3> QED BY <3>1 DEF HomeGone
  <2> HIDE DEF back
  <2> QED BY <1>6, <2>1, <2>2, NotMoved DEF Consistent
<1>8. Accepts(e, u)
  BY <1>2, <1>6 DEF Accepts, ColumnKinds, Consistent
<1>9. Effect(e, u) = Parts(e, e.there, [e.column EXCEPT ![c] = NoColumn], d.index, d.constraint)
  BY <1>2, <1>6, <1>7, DropColumnIs DEF Consistent
<1>10. [e.column EXCEPT ![c] = NoColumn] = d.column
  BY <1>2, <1>5, <1>6 DEF Consistent, Database
<1>11. Effect(e, u) = d
  BY <1>6, <1>9, <1>10, Rebuilt
<1> QED BY <1>6, <1>8, <1>11 DEF Perform, e, u

LEMMA ColumnChangeUnwinds ==
    ASSUME NEW d, Consistent(d), NEW s, WellNamed(s), NEW prior,
           s.kind \in {"ALTER_COLUMN_TYPE", "SET_NOT_NULL", "DROP_NOT_NULL", "SET_DEFAULT", "DROP_DEFAULT"},
           Accepts(d, s)
    PROVE  /\ Consistent(Effect(d, s))
           /\ Effect(d, s) # d /\ s.kind # "DROP_DEFAULT"
                 /\ (s.kind = "ALTER_COLUMN_TYPE" => prior = d.column[Home(s)].type)
              => Perform(Effect(d, s), UndoStep(s, prior)) = d
<1> DEFINE c == Home(s)
           old == d.column[c]
           e == Effect(d, s)
           u == UndoStep(s, prior)
<1>1. /\ c \in Tables \X Columns /\ s.type \in Types
      /\ s.kind = "ALTER_COLUMN_TYPE" => s.type # NoType
  BY DEF WellNamed, ColumnKinds
<1>2. There(d, c)
  BY DEF Accepts, ColumnKinds
<1>3. /\ old \in Column /\ old.type \in Types /\ old.type # NoType
      /\ c[1] \in d.there
  BY <1>1, <1>2 DEF Consistent, Database, Column, There
<1> DEFINE new == CASE s.kind = "ALTER_COLUMN_TYPE" -> [old EXCEPT !.type = s.type]
                    [] s.kind = "SET_NOT_NULL"  -> [old EXCEPT !.notNull = TRUE]
                    [] s.kind = "DROP_NOT_NULL" -> [old EXCEPT !.notNull = FALSE]
                    [] s.kind = "SET_DEFAULT"   -> [old EXCEPT !.default = TRUE]
                    [] OTHER -> [old EXCEPT !.default = FALSE]
<1>4. new \in Column /\ new.type # NoType
  BY <1>1, <1>3, Changed
<1>5. e = Parts(d, d.there, [d.column EXCEPT ![c] = new], d.index, d.constraint)
  BY AlterColumnIs DEF Consistent
<1> HIDE DEF e, new
<1>6. /\ Consistent(e) /\ There(e, c) /\ e.there = d.there
      /\ e.column = [d.column EXCEPT ![c] = new]
      /\ e.index = d.index /\ e.constraint = d.constraint
  BY <1>1, <1>3, <1>4, <1>5, ColumnSetConsistent
<1>7. ASSUME e # d, s.kind # "DROP_DEFAULT",
             s.kind = "ALTER_COLUMN_TYPE" => prior = old.type
      PROVE  Accepts(e, u) /\ Effect(e, u) = d
  <2>1. new # old
    <3>1. SUFFICES ASSUME new = old PROVE FALSE
      OBVIOUS
    <3>2. e.column = d.column
      BY <1>1, <1>6, <3>1 DEF Consistent, Database
    <3> QED BY <1>5, <1>6, <1>7, <3>2, Rebuilt DEF Parts
  <2>2. Home(u) = c
    BY <1>7, UndoIs
  <2>3. /\ s.kind = "ALTER_COLUMN_TYPE" => u.kind = "ALTER_COLUMN_TYPE" /\ u.type = old.type
        /\ s.kind = "SET_NOT_NULL" => u.kind = "DROP_NOT_NULL"
        /\ s.kind = "DROP_NOT_NULL" => u.kind = "SET_NOT_NULL"
        /\ s.kind = "SET_DEFAULT" => u.kind = "DROP_DEFAULT"
    BY <1>7, UndoIs
  <2> HIDE DEF u, old, c
  <2>4. Accepts(e, u)
    BY <1>6, <1>7, <2>2, <2>3 DEF Accepts, ColumnKinds, Consistent
  <2>5. e.column[c] = new /\ [e.column EXCEPT ![c] = old] = d.column
    BY <1>1, <1>6 DEF Consistent, Database, old
  <2>6. Effect(e, u) = Parts(e, e.there, [e.column EXCEPT ![c] = old], e.index, e.constraint)
    <3>1. CASE s.kind = "ALTER_COLUMN_TYPE"
      <4>1. u.kind = "ALTER_COLUMN_TYPE" /\ u.type = old.type
        BY <2>3, <3>1
      <4>2. [new EXCEPT !.type = old.type] = old
        BY <1>1, <1>3, <3>1, Changed DEF new
      <4>3. Effect(e, u) = Parts(e, e.there, [e.column EXCEPT ![Home(u)] = [@ EXCEPT !.type = u.type]], e.index, e.constraint)
        BY <1>6, <4>1, AlterColumnIs DEF Consistent
      <4> QED BY <2>2, <2>5, <4>1, <4>2, <4>3
    <3>2. CASE s.kind = "SET_NOT_NULL"
      <4>1. u.kind = "DROP_NOT_NULL"
        BY <2>3, <3>2
      <4>2. new = [old EXCEPT !.notNull = TRUE]
        BY <3>2 DEF new
      <4>3. [new EXCEPT !.notNull = FALSE] = old
        BY <1>1, <1>3, <2>1, <4>2, Changed
      <4>4. Effect(e, u) = Parts(e, e.there, [e.column EXCEPT ![Home(u)] = [@ EXCEPT !.notNull = FALSE]], e.index, e.constraint)
        BY <1>6, <4>1, AlterColumnIs DEF Consistent
      <4> QED BY <2>2, <2>5, <4>3, <4>4
    <3>3. CASE s.kind = "DROP_NOT_NULL"
      <4>1. u.kind = "SET_NOT_NULL"
        BY <2>3, <3>3
      <4>2. new = [old EXCEPT !.notNull = FALSE]
        BY <3>3 DEF new
      <4>3. [new EXCEPT !.notNull = TRUE] = old
        BY <1>1, <1>3, <2>1, <4>2, Changed
      <4>4. Effect(e, u) = Parts(e, e.there, [e.column EXCEPT ![Home(u)] = [@ EXCEPT !.notNull = TRUE]], e.index, e.constraint)
        BY <1>6, <4>1, AlterColumnIs DEF Consistent
      <4> QED BY <2>2, <2>5, <4>3, <4>4
    <3>4. CASE s.kind = "SET_DEFAULT"
      <4>1. u.kind = "DROP_DEFAULT"
        BY <2>3, <3>4
      <4>2. new = [old EXCEPT !.default = TRUE]
        BY <3>4 DEF new
      <4>3. [new EXCEPT !.default = FALSE] = old
        BY <1>1, <1>3, <2>1, <4>2, Changed
      <4>4. Effect(e, u) = Parts(e, e.there, [e.column EXCEPT ![Home(u)] = [@ EXCEPT !.default = FALSE]], e.index, e.constraint)
        BY <1>6, <4>1, AlterColumnIs DEF Consistent
      <4> QED BY <2>2, <2>5, <4>3, <4>4
    <3> QED BY <1>7, <3>1, <3>2, <3>3, <3>4
  <2> QED BY <1>6, <2>4, <2>5, <2>6, Rebuilt
<1> HIDE DEF u
<1> QED BY <1>6, <1>7 DEF Perform, e, u

LEMMA RenameColumnUnwinds ==
    ASSUME NEW d, Consistent(d), NEW s, WellNamed(s), NEW prior,
           s.kind = "RENAME_COLUMN", Accepts(d, s)
    PROVE  Consistent(Effect(d, s)) /\ Perform(Effect(d, s), UndoStep(s, prior)) = d
<1> DEFINE from == Home(s)
           to == <<s.rel, s.new>>
           column == [d.column EXCEPT ![to] = d.column[from], ![from] = NoColumn]
           home == HomeNow(from, to)
           back == HomeNow(to, from)
           e == Effect(d, s)
           u == UndoStep(s, prior)
<1>1. e = Parts(d, d.there, column, IndexAt(d, home), ConstraintAt(d, home))
  BY RenameColumnIs DEF Consistent
<1>2. /\ from \in Tables \X Columns /\ to \in Tables \X Columns
      /\ from = <<s.rel, s.obj>> /\ from[1] = s.rel /\ to[1] = s.rel
      /\ from \in Homes /\ from # Nowhere /\ to \in Homes /\ to # Nowhere
      /\ from[2] # Whole /\ to[2] # Whole
      /\ u.kind = "RENAME_COLUMN" /\ u.rel = s.rel /\ u.obj = s.new /\ u.new = s.obj
  BY UndoIs, Constants, NamesAssumption DEF WellNamed, ColumnKinds, Home
<1>3. /\ s.rel \in d.there /\ d.column[from] # NoColumn /\ d.column[to] = NoColumn /\ from # to
  BY <1>2 DEF Accepts, ColumnKinds, There
<1>4. Home(u) = to /\ <<u.rel, u.new>> = from
  BY <1>2 DEF Home
<1> HIDE DEF e, u, from, to
<1>5. /\ column \in [Tables \X Columns -> Column]
      /\ \A c \in Tables \X Columns :
            column[c] = IF c = from THEN NoColumn ELSE IF c = to THEN d.column[from] ELSE d.column[c]
      /\ \A c \in Tables \X Columns :
            column[c] # NoColumn => c[1] \in d.there /\ column[c].type # NoType
  BY <1>2, <1>3, Constants DEF Consistent, Database
<1>6. /\ home \in [Homes -> Homes] /\ home[Nowhere] = Nowhere
      /\ back \in [Homes -> Homes] /\ back[Nowhere] = Nowhere
  BY <1>2, Constants DEF HomeNow
<1>7. ASSUME NEW h \in Homes, Lives(d, h)
      PROVE  /\ home[h] # Nowhere /\ back[home[h]] = h /\ h # Nowhere
             /\ home[h][1] \in d.there
             /\ home[h][2] = Whole \/ column[home[h]] # NoColumn
  <2>1. /\ h # Nowhere /\ h[1] \in d.there
        /\ h[2] # Whole => h \in Tables \X Columns /\ d.column[h] # NoColumn
    BY <1>7, LivesSomewhere
  <2>2. h # to
    BY <1>2, <1>3, <2>1
  <2>3. CASE h = from
    BY <1>2, <1>3, <1>5, <2>1, <2>3 DEF HomeNow
  <2>4. CASE h # from
    BY <1>5, <2>1, <2>2, <2>4 DEF HomeNow
  <2> QED BY <2>3, <2>4
<1>8. e.there = d.there /\ e.column = column /\ e.index = IndexAt(d, home) /\ e.constraint = ConstraintAt(d, home)
  BY <1>1 DEF Parts
<1> HIDE DEF column, home, back
<1>9. Consistent(e)
  <2>1. \A h \in Homes : Lives(d, h) /\ home[h] # Nowhere => Lives(e, home[h])
    BY <1>7, <1>8 DEF Lives
  <2>2. d.there \in SUBSET Tables
    BY DEF Consistent, Database
  <2> QED BY <1>1, <1>5, <1>6, <2>1, <2>2, MovedConsistent
<1>10. IndexAt(e, back) = d.index /\ ConstraintAt(e, back) = d.constraint
  BY <1>6, <1>7, <1>8, <1>9, MovedBack DEF Consistent
<1>11. There(e, Home(u)) /\ ~There(e, <<u.rel, u.new>>)
  BY <1>2, <1>3, <1>4, <1>5, <1>8 DEF There
<1>12. Accepts(e, u)
  BY <1>2, <1>9, <1>11 DEF Accepts, ColumnKinds, Consistent
<1>13. Effect(e, u) = Parts(e, e.there, [e.column EXCEPT ![from] = e.column[to], ![to] = NoColumn],
                            d.index, d.constraint)
  BY <1>2, <1>4, <1>9, <1>10, RenameColumnIs DEF Consistent, back
<1>14. [e.column EXCEPT ![from] = e.column[to], ![to] = NoColumn] = d.column
  BY <1>2, <1>3, <1>5, <1>8 DEF Consistent, Database
<1>15. Effect(e, u) = d
  BY <1>8, <1>9, <1>13, <1>14, Rebuilt
<1> QED BY <1>9, <1>12, <1>15 DEF Perform, e, u

\* What goes takes with it what lives on it.
LEMMA DropConsistent ==
    ASSUME NEW d, Consistent(d), NEW s, WellNamed(s),
           s.kind \in {"DROP_TABLE", "DROP_COLUMN"}, Accepts(d, s)
    PROVE  Consistent(Effect(d, s))
<1> DEFINE e == Effect(d, s)
<1>1. CASE s.kind = "DROP_TABLE"
  <2> DEFINE there == d.there \ {s.obj}
             column == ColumnsWithout(d, s.obj)
             home == TableGone(s.obj)
  <2>1. e = Parts(d, there, column, IndexAt(d, home), ConstraintAt(d, home))
    BY <1>1, DropTableIs DEF Consistent
  <2>2. /\ there \in SUBSET Tables
        /\ column \in [Tables \X Columns -> Column]
        /\ \A c \in Tables \X Columns : column[c] = IF c[1] = s.obj THEN NoColumn ELSE d.column[c]
        /\ \A c \in Tables \X Columns :
              column[c] # NoColumn => c[1] \in there /\ column[c].type # NoType
    BY Constants DEF Consistent, Database, ColumnsWithout
  <2>3. home \in [Homes -> Homes] /\ home[Nowhere] = Nowhere
    BY Constants DEF TableGone
  <2> HIDE DEF e
  <2>4. e.there = there /\ e.column = column
    BY <2>1 DEF Parts
  <2>5. ASSUME NEW h \in Homes, Lives(d, h), home[h] # Nowhere
        PROVE  Lives(e, home[h])
    <3>1. home[h] = h /\ h[1] # s.obj
      BY <2>5 DEF TableGone
    <3> QED BY <2>2, <2>4, <2>5, <3>1, LivesSomewhere DEF Lives
  <2> HIDE DEF there, column, home
  <2> QED BY <2>1, <2>2, <2>3, <2>5, MovedConsistent DEF e
<1>2. CASE s.kind = "DROP_COLUMN"
  <2> DEFINE column == [d.column EXCEPT ![Home(s)] = NoColumn]
             home == HomeGone(Home(s))
  <2>1. e = Parts(d, d.there, column, IndexAt(d, home), ConstraintAt(d, home))
    BY <1>2, DropColumnIs DEF Consistent
  <2>2. /\ d.there \in SUBSET Tables
        /\ column \in [Tables \X Columns -> Column]
        /\ \A c \in Tables \X Columns : column[c] = IF c = Home(s) THEN NoColumn ELSE d.column[c]
        /\ \A c \in Tables \X Columns :
              column[c] # NoColumn => c[1] \in d.there /\ column[c].type # NoType
    BY Constants DEF Consistent, Database
  <2>3. home \in [Homes -> Homes] /\ home[Nowhere] = Nowhere
    BY Constants DEF HomeGone
  <2> HIDE DEF e
  <2>4. e.there = d.there /\ e.column = column
    BY <2>1 DEF Parts
  <2>5. ASSUME NEW h \in Homes, Lives(d, h), home[h] # Nowhere
        PROVE  Lives(e, home[h])
    <3>1. home[h] = h /\ h # Home(s)
      BY <2>5 DEF HomeGone
    <3> QED BY <2>2, <2>4, <2>5, <3>1, LivesSomewhere DEF Lives
  <2> HIDE DEF column, home
  <2> QED BY <2>1, <2>2, <2>3, <2>5, MovedConsistent DEF e
<1> QED BY <1>1, <1>2

\* Indexes and constraints come and go while tables and columns stay.
LEMMA LivesAlike ==
    ASSUME NEW d, NEW e, e.there = d.there, e.column = d.column, NEW h
    PROVE  Lives(e, h) <=> Lives(d, h)
BY DEF Lives

LEMMA IndexChangeUnwinds ==
    ASSUME NEW d, Consistent(d), NEW s, WellNamed(s), NEW prior,
           s.kind \in IndexKinds, Accepts(d, s)
    PROVE  /\ Consistent(Effect(d, s))
           /\ s.kind = "CREATE_INDEX" => Perform(Effect(d, s), UndoStep(s, prior)) = d
<1> DEFINE on == IF s.kind = "CREATE_INDEX" THEN <<s.rel, s.new>> ELSE Nowhere
           e == Effect(d, s)
           u == UndoStep(s, prior)
<1>1. /\ d \in Database /\ d.ok /\ s.obj \in Indexes
      /\ e = Parts(d, d.there, d.column, [d.index EXCEPT ![s.obj] = on], d.constraint)
  BY IndexIs DEF Consistent, IndexKinds, WellNamed
<1>2. on \in Homes /\ (on # Nowhere => Lives(d, on))
  <2>1. CASE s.kind = "CREATE_INDEX"
    <3>1. on \in Homes
      BY <2>1, Constants DEF WellNamed, IndexKinds
    <3>2. There(d, on)
      BY <2>1 DEF Accepts, ColumnKinds
    <3> QED BY <3>1, <3>2 DEF Lives, There
  <2>2. CASE s.kind # "CREATE_INDEX"
    BY <2>2, Constants
  <2> QED BY <2>1, <2>2
<1> HIDE DEF e, on
<1>3. /\ e.ok /\ e.there = d.there /\ e.column = d.column /\ e.constraint = d.constraint
      /\ e.index = [d.index EXCEPT ![s.obj] = on]
      /\ e \in Database
  <2>1. /\ e.there = d.there /\ e.column = d.column /\ e.constraint = d.constraint
        /\ e.index = [d.index EXCEPT ![s.obj] = on]
    BY <1>1 DEF Parts
  <2>2. e.ok
    BY <1>1 DEF Parts
  <2>3. e \in Database
    BY <1>1, <1>2 DEF Parts, Database
  <2> QED BY <2>1, <2>2, <2>3
<1>4. Consistent(e)
  <2>1. \A i \in Indexes : e.index[i] # Nowhere => Lives(d, e.index[i])
    BY <1>1, <1>2, <1>3 DEF Consistent, Database
  <2>2. \A h : Lives(e, h) <=> Lives(d, h)
    BY <1>3, LivesAlike
  <2> QED BY <1>3, <2>1, <2>2 DEF Consistent
<1>5. ASSUME s.kind = "CREATE_INDEX"
      PROVE  Accepts(e, u) /\ Effect(e, u) = d
  <2>1. u.kind = "DROP_INDEX" /\ u.obj = s.obj
    BY <1>5, UndoIs
  <2>2. d.index[s.obj] = Nowhere
    BY <1>5 DEF Accepts, ColumnKinds
  <2>3. e.index[s.obj] # Nowhere
    <3>1. on = <<s.rel, s.new>>
      BY <1>5 DEF on
    <3>2. d.index \in [Indexes -> Homes]
      BY <1>1 DEF Database
    <3>3. e.index[s.obj] = <<s.rel, s.new>>
      BY <1>1, <1>3, <3>1, <3>2
    <3>4. s.rel \in Tables
      BY <1>5 DEF WellNamed, IndexKinds
    <3> QED BY <3>3, <3>4, Somewhere
  <2> HIDE DEF u
  <2>4. Accepts(e, u)
    BY <1>3, <2>1, <2>3 DEF Accepts, ColumnKinds
  <2>5. [e.index EXCEPT ![s.obj] = Nowhere] = d.index
    BY <1>1, <1>3, <2>2 DEF Database
  <2>6. Effect(e, u) = Parts(e, e.there, e.column, [e.index EXCEPT ![u.obj] = Nowhere], e.constraint)
    BY <1>3, <2>1, IndexIs
  <2>7. Effect(e, u) = Parts(e, d.there, d.column, d.index, d.constraint)
    BY <1>3, <2>1, <2>5, <2>6
  <2> QED BY <1>4, <2>4, <2>7, Rebuilt
<1> HIDE DEF u
<1> QED BY <1>4, <1>5 DEF Perform, e, u

LEMMA ConstraintChangeUnwinds ==
    ASSUME NEW d, Consistent(d), NEW s, WellNamed(s), NEW prior,
           s.kind \in ConstraintKinds, Accepts(d, s)
    PROVE  /\ Consistent(Effect(d, s))
           /\ s.kind = "ADD_CONSTRAINT" => Perform(Effect(d, s), UndoStep(s, prior)) = d
<1> DEFINE old == d.constraint[s.obj]
           new == CASE s.kind = "ADD_CONSTRAINT" -> [on |-> <<s.rel, Whole>>, valid |-> ~Has(s, "NOT VALID")]
                    [] s.kind = "ADD_CONSTRAINT_USING_INDEX" -> [on |-> d.index[s.new], valid |-> TRUE]
                    [] s.kind = "VALIDATE_CONSTRAINT" -> [old EXCEPT !.valid = TRUE]
                    [] OTHER -> NoConstraint
           index == IF s.kind = "ADD_CONSTRAINT_USING_INDEX" THEN [d.index EXCEPT ![s.new] = Nowhere]
                                                              ELSE d.index
           e == Effect(d, s)
           u == UndoStep(s, prior)
<1>1. /\ d \in Database /\ d.ok /\ s.obj \in Constraints /\ s.rel \in Tables
      /\ e = Parts(d, d.there, d.column, index, [d.constraint EXCEPT ![s.obj] = new])
  BY ConstraintIs DEF Consistent, ConstraintKinds, WellNamed
<1>a. /\ s.kind = "ADD_CONSTRAINT" => \E b \in BOOLEAN : new = [on |-> <<s.rel, Whole>>, valid |-> b]
      /\ s.kind = "ADD_CONSTRAINT_USING_INDEX" => new = [on |-> d.index[s.new], valid |-> TRUE]
      /\ s.kind = "VALIDATE_CONSTRAINT" => new = [old EXCEPT !.valid = TRUE]
      /\ s.kind = "DROP_CONSTRAINT" => new = NoConstraint
  <2>1. ASSUME s.kind = "ADD_CONSTRAINT"
        PROVE  \E b \in BOOLEAN : new = [on |-> <<s.rel, Whole>>, valid |-> b]
    <3>1. CASE Has(s, "NOT VALID")
      <4>1. new = [on |-> <<s.rel, Whole>>, valid |-> FALSE]
        BY <2>1, <3>1
      <4> QED BY <4>1
    <3>2. CASE ~Has(s, "NOT VALID")
      <4>1. new = [on |-> <<s.rel, Whole>>, valid |-> TRUE]
        BY <2>1, <3>2
      <4> QED BY <4>1
    <3> QED BY <3>1, <3>2
  <2> QED BY <2>1
<1>b. d.constraint \in [Constraints -> [on : Homes, valid : BOOLEAN]] /\ d.index \in [Indexes -> Homes]
  BY <1>1 DEF Database
<1> HIDE DEF e, new, old
<1>2. /\ new \in [on : Homes, valid : BOOLEAN]
      /\ new # NoConstraint => Lives(d, new.on)
  <2>1. CASE s.kind = "ADD_CONSTRAINT"
    <3>1. <<s.rel, Whole>> \in Homes
      BY <1>1, Constants
    <3>2. s.rel \in d.there
      BY <2>1 DEF Accepts, ColumnKinds
    <3>3. new \in [on : Homes, valid : BOOLEAN] /\ new.on = <<s.rel, Whole>>
      BY <1>a, <2>1, <3>1
    <3> QED BY <3>2, <3>3 DEF Lives
  <2>2. CASE s.kind = "ADD_CONSTRAINT_USING_INDEX"
    <3>1. s.new \in Indexes /\ d.index[s.new] \in Homes /\ d.index[s.new][1] = s.rel
      BY <1>b, <2>2 DEF WellNamed, Accepts, ColumnKinds
    <3>2. d.index[s.new] # Nowhere
      BY <1>1, <3>1, Somewhere
    <3>3. new = [on |-> d.index[s.new], valid |-> TRUE]
      BY <1>a, <2>2
    <3>4. new.on = d.index[s.new]
      BY <3>3
    <3>5. new \in [on : Homes, valid : BOOLEAN]
      BY <3>1, <3>3
    <3> QED BY <3>1, <3>2, <3>4, <3>5 DEF Consistent
  <2>3. CASE s.kind = "VALIDATE_CONSTRAINT"
    <3>1. old \in [on : Homes, valid : BOOLEAN] /\ old.on[1] = s.rel
      BY <1>1, <1>b, <2>3 DEF Accepts, ColumnKinds, old
    <3>2. old.on # Nowhere
      BY <1>1, <3>1, Somewhere
    <3>3. old # NoConstraint
      BY <3>2 DEF NoConstraint
    <3>4. new \in [on : Homes, valid : BOOLEAN] /\ new.on = old.on
      BY <1>a, <2>3, <3>1
    <3> QED BY <1>1, <3>3, <3>4 DEF Consistent, old
  <2>4. CASE s.kind = "DROP_CONSTRAINT"
    BY <1>a, <2>4, Constants
  <2> QED BY <2>1, <2>2, <2>3, <2>4 DEF ConstraintKinds
<1>3. /\ index \in [Indexes -> Homes]
      /\ \A i \in Indexes : index[i] # Nowhere => index[i] = d.index[i]
  BY <1>1, Constants DEF Database
<1> HIDE DEF index
<1>4. /\ e.ok /\ e.there = d.there /\ e.column = d.column /\ e.index = index
      /\ e.constraint = [d.constraint EXCEPT ![s.obj] = new]
      /\ e \in Database
  <2>1. /\ e.there = d.there /\ e.column = d.column /\ e.index = index
        /\ e.constraint = [d.constraint EXCEPT ![s.obj] = new]
    BY <1>1 DEF Parts
  <2>2. e.ok
    BY <1>1 DEF Parts
  <2>3. e \in Database
    BY <1>1, <1>2, <1>3 DEF Parts, Database
  <2> QED BY <2>1, <2>2, <2>3
<1>5. Consistent(e)
  <2>1. \A i \in Indexes : e.index[i] # Nowhere => Lives(d, e.index[i])
    BY <1>3, <1>4 DEF Consistent
  <2>2. ASSUME NEW k \in Constraints, e.constraint[k] # NoConstraint
        PROVE  Lives(d, e.constraint[k].on)
    <3>1. e.constraint[k] = IF k = s.obj THEN new ELSE d.constraint[k]
      BY <1>1, <1>4, <1>b
    <3>2. CASE k = s.obj
      BY <1>2, <2>2, <3>1, <3>2
    <3>3. CASE k # s.obj
      BY <2>2, <3>1, <3>3 DEF Consistent
    <3> QED BY <3>2, <3>3
  <2>3. \A h : Lives(e, h) <=> Lives(d, h)
    BY <1>4, LivesAlike
  <2> QED BY <1>4, <2>1, <2>2, <2>3 DEF Consistent
<1>6. ASSUME s.kind = "ADD_CONSTRAINT"
      PROVE  Accepts(e, u) /\ Effect(e, u) = d
  <2>1. u.kind = "DROP_CONSTRAINT" /\ u.rel = s.rel /\ u.obj = s.obj
    BY <1>6, UndoIs
  <2>2. d.constraint[s.obj] = NoConstraint
    BY <1>6 DEF Accepts, ColumnKinds
  <2>3. e.constraint[s.obj].on[1] = s.rel
    <3>1. e.constraint[s.obj] = new
      BY <1>1, <1>4, <1>b
    <3>2. new.on = <<s.rel, Whole>>
      BY <1>a, <1>6
    <3> QED BY <3>1, <3>2
  <2> HIDE DEF u
  <2>4. Accepts(e, u)
    BY <1>4, <2>1, <2>3 DEF Accepts, ColumnKinds
  <2>5. [e.constraint EXCEPT ![s.obj] = NoConstraint] = d.constraint
    BY <1>1, <1>4, <2>2 DEF Database
  <2>6. Effect(e, u) = Parts(e, e.there, e.column, e.index, [e.constraint EXCEPT ![u.obj] = NoConstraint])
    BY <1>4, <2>1, ConstraintIs
  <2>7. index = d.index
    BY <1>6 DEF index
  <2>8. Effect(e, u) = Parts(e, d.there, d.column, d.index, d.constraint)
    BY <1>4, <2>1, <2>5, <2>6, <2>7
  <2> QED BY <1>5, <2>4, <2>8, Rebuilt
<1> HIDE DEF u
<1> QED BY <1>5, <1>6 DEF Perform, e, u

LEMMA NothingDone ==
    ASSUME NEW d, NEW s,
           \/ s.kind = "CREATE_TABLE" /\ s.rel \in d.there
           \/ s.kind = "ADD_COLUMN" /\ There(d, Home(s))
           \/ s.kind \notin {"CREATE_TABLE", "ADD_COLUMN", "RENAME_TABLE", "RENAME_COLUMN", "DROP_TABLE"}
                            \cup ColumnKinds \cup IndexKinds \cup ConstraintKinds
    PROVE  Effect(d, s) = d
BY DEF Effect, ColumnKinds, IndexKinds, ConstraintKinds

\* A statement that is not refused leaves a database as PostgreSQL keeps it.
LEMMA EffectConsistent ==
    ASSUME NEW d, Consistent(d), NEW s, WellNamed(s), Accepts(d, s)
    PROVE  Consistent(Effect(d, s))
<1>1. CASE s.kind = "CREATE_TABLE"
  BY <1>1, NothingDone, CreateTableUnwinds
<1>2. CASE s.kind = "ADD_COLUMN"
  BY <1>2, NothingDone, AddColumnUnwinds
<1>3. CASE s.kind \in {"RENAME_TABLE", "RENAME_COLUMN"}
  BY <1>3, RenameTableUnwinds, RenameColumnUnwinds
<1>4. CASE s.kind \in {"DROP_TABLE", "DROP_COLUMN"}
  BY <1>4, DropConsistent
<1>5. CASE s.kind \in ColumnKinds \ {"DROP_COLUMN"}
  BY <1>5, ColumnChangeUnwinds DEF ColumnKinds
<1>6. CASE s.kind \in IndexKinds
  BY <1>6, IndexChangeUnwinds
<1>7. CASE s.kind \in ConstraintKinds
  BY <1>7, ConstraintChangeUnwinds
<1>8. CASE s.kind \notin {"CREATE_TABLE", "ADD_COLUMN", "RENAME_TABLE", "RENAME_COLUMN", "DROP_TABLE"}
                         \cup ColumnKinds \cup IndexKinds \cup ConstraintKinds
  BY <1>8, NothingDone
<1> QED BY <1>1, <1>2, <1>3, <1>4, <1>5, <1>6, <1>7, <1>8

LEMMA NothingToUndo ==
    ASSUME NEW d, Consistent(d), NEW s, NEW prior, UndoStep(s, NoType).kind = "NOTHING"
    PROVE  UndoStep(s, prior).kind = "NOTHING" /\ Perform(d, UndoStep(s, prior)) = d
<1> DEFINE u == UndoStep(s, prior)
<1>1. u.kind = "NOTHING"
  <2>1. s.kind # "ALTER_COLUMN_TYPE"
    BY UndoIs
  <2>2. u = UndoStep(s, NoType)
    BY <2>1 DEF UndoStep
  <2> QED BY <2>2
<1> HIDE DEF u
<1>2. Accepts(d, u)
  BY <1>1 DEF Accepts, ColumnKinds, Consistent
<1>3. Effect(d, u) = d
  BY <1>1, NothingDone DEF ColumnKinds, IndexKinds, ConstraintKinds
<1> QED BY <1>1, <1>2, <1>3 DEF Perform, u

-----------------------------------------------------------------------------
(* What the rule table says. *)

Verdicts == [rule : 1 .. 59, rev : {"REVERSIBLE", "COSTLY", "UNKNOWN", "IRREVERSIBLE"},
             lock : {"NONE", "SHORT", "FULL_SCAN", "TABLE_REWRITE", "EXCLUSIVE"},
             undo : {"step", "partial", "note", "none"}]

\* The kinds that are not answered by their kind alone.
FlaggedKinds == {"ALTER_COLUMN_TYPE", "DELETE", "UPDATE", "DROP_INDEX", "CREATE_INDEX",
                 "DETACH_PARTITION", "ADD_COLUMN", "ADD_CONSTRAINT"}

\* A row of the table: its verdict, and what it says of what takes away.
SoundRow(r) ==
    /\ FlaggedKinds \cap r.kinds = {}
    /\ r.verdict \in Verdicts /\ r.verdict.rule \notin {6, 7, 27}
    /\ {"DROP_TABLE", "DROP_COLUMN"} \cap r.kinds # {} => r.verdict.rev = "IRREVERSIBLE"
    /\ {"DROP_DEFAULT", "DROP_CONSTRAINT"} \cap r.kinds # {} => r.verdict.undo = "partial"

LEMMA RowsAreSound == \A r \in Rows : SoundRow(r)
<1>1. \A r \in TakingRows : SoundRow(r)
  BY DEF TakingRows, SoundRow, FlaggedKinds, Row, V, Verdicts
<1>2. \A r \in CreatingRows : SoundRow(r)
  BY DEF CreatingRows, SoundRow, FlaggedKinds, Row, V, Verdicts
<1>3. \A r \in ToolRows : SoundRow(r)
  BY DEF ToolRows, SoundRow, FlaggedKinds, Row, V, Verdicts
<1>4. \A r \in HandwrittenRows : SoundRow(r)
  BY DEF HandwrittenRows, SoundRow, FlaggedKinds, Row, V, Verdicts
<1>5. \A r \in OtherRows : SoundRow(r)
  BY DEF OtherRows, SoundRow, FlaggedKinds, Row, V, Verdicts
<1> QED BY <1>1, <1>2, <1>3, <1>4, <1>5 DEF Rows

LEMMA ComparisonIs ==
    ASSUME NEW from, NEW to
    PROVE  CompareTypes(from, to) \in {"narrowing", "widening", "same", "unknown"}
BY DEF CompareTypes, CompareCharacter, CompareNumeric, Compared

LEMMA ConversionIs ==
    ASSUME NEW s, NEW prior
    PROVE  LET v == ClassifyConversion(s, prior) IN
           /\ v \in Verdicts /\ v.rule \in {6, 7, 27}
           /\ v.rule = 6 => prior # NoType /\ CompareTypes(prior, s.type) = "narrowing"
           /\ v.rule = 7 => prior # NoType /\ CompareTypes(prior, s.type) = "widening"
           /\ v.rule = 27 => prior = NoType \/ CompareTypes(prior, s.type) \in {"same", "unknown"}
           /\ v.rev \in {"REVERSIBLE", "COSTLY"} => v.rule = 7
<1> DEFINE how == CompareTypes(prior, s.type)
           v == ClassifyConversion(s, prior)
<1>0. how \in {"narrowing", "widening", "same", "unknown"}
  BY ComparisonIs
<1> HIDE DEF how
<1>1. CASE prior # NoType /\ how = "narrowing"
  <2>1. v = V(6, "IRREVERSIBLE", "TABLE_REWRITE", "none")
    BY <1>1 DEF ClassifyConversion, how
  <2> QED BY <1>1, <2>1 DEF V, Verdicts, how
<1>2. CASE prior # NoType /\ how = "widening"
  <2>1. v = V(7, "COSTLY", "TABLE_REWRITE", "step")
    BY <1>2 DEF ClassifyConversion, how
  <2> QED BY <1>2, <2>1 DEF V, Verdicts, how
<1>3. CASE prior = NoType \/ how \in {"same", "unknown"}
  <2>1. v = V(27, "UNKNOWN", "EXCLUSIVE", "none")
    BY <1>3 DEF ClassifyConversion, Unknown, how
  <2> QED BY <1>3, <2>1 DEF V, Verdicts, how
<1> QED BY <1>0, <1>1, <1>2, <1>3

\* A verdict is a row of the table, or one of those that look at the flags.
LEMMA VerdictIs ==
    ASSUME NEW s, NEW prior
    PROVE  LET v == Classify(s, prior) IN
           /\ v \in Verdicts
           /\ s.kind = "ALTER_COLUMN_TYPE" /\ ~Has(s, "CASCADE") => v = ClassifyConversion(s, prior)
           /\ v.rule = 6 => s.kind = "ALTER_COLUMN_TYPE" /\ ~Has(s, "CASCADE")
           /\ v.rev \in {"REVERSIBLE", "COSTLY"} => ~Has(s, "CASCADE")
           /\ v.rev \in {"REVERSIBLE", "COSTLY"} /\ v.undo \in {"step", "note"} =>
                s.kind \notin {"DROP_TABLE", "DROP_COLUMN", "DROP_DEFAULT", "DROP_INDEX", "DROP_CONSTRAINT"}
<1> DEFINE v == Classify(s, prior)
           Asked(x) == /\ x \in Verdicts /\ x.rule # 6
                       /\ x.rev \in {"REVERSIBLE", "COSTLY"} /\ x.undo \in {"step", "note"} =>
                            s.kind \notin {"DROP_TABLE", "DROP_COLUMN", "DROP_DEFAULT", "DROP_INDEX", "DROP_CONSTRAINT"}
<1>0. s.kind \in FlaggedKinds => ~\E r \in Rows : s.kind \in r.kinds
  BY RowsAreSound DEF SoundRow
<1>1. CASE Has(s, "CASCADE")
  <2>1. v = V(5, "IRREVERSIBLE", "EXCLUSIVE", "none")
    BY <1>1 DEF Classify
  <2> QED BY <1>1, <2>1 DEF V, Verdicts
<1>2. CASE ~Has(s, "CASCADE") /\ s.kind = "ALTER_COLUMN_TYPE"
  <2>1. v = ClassifyConversion(s, prior)
    BY <1>0, <1>2 DEF Classify, FlaggedKinds
  <2> QED BY <1>2, <2>1, ConversionIs
<1>3. CASE ~Has(s, "CASCADE") /\ s.kind \in {"DELETE", "UPDATE", "DROP_INDEX", "CREATE_INDEX", "DETACH_PARTITION"}
  <2>1. \/ /\ s.kind \in {"DELETE", "UPDATE"}
           /\ v \in {V(9, "IRREVERSIBLE", "SHORT", "none"), V(8, "IRREVERSIBLE", "EXCLUSIVE", "none")}
        \/ /\ s.kind = "DROP_INDEX"
           /\ v \in {V(15, "COSTLY", "NONE", "partial"), V(14, "COSTLY", "EXCLUSIVE", "partial")}
        \/ /\ s.kind = "CREATE_INDEX"
           /\ v \in {V(24, "REVERSIBLE", "NONE", "step"), V(23, "REVERSIBLE", "EXCLUSIVE", "step")}
        \/ /\ s.kind = "DETACH_PARTITION"
           /\ v \in {V(57, "COSTLY", "NONE", "none"), V(57, "COSTLY", "SHORT", "none")}
    BY <1>0, <1>3 DEF Classify, FlaggedKinds
  <2>2. Asked(v)
    BY <2>1 DEF V, Verdicts
  <2> QED BY <1>3, <2>2
<1>4. CASE ~Has(s, "CASCADE") /\ s.kind \in {"ADD_COLUMN", "ADD_CONSTRAINT"}
  <2>1. v \in {V(18, "COSTLY", "EXCLUSIVE", "step"), V(19, "REVERSIBLE", "TABLE_REWRITE", "step"),
               V(20, "REVERSIBLE", "NONE", "step"), V(22, "REVERSIBLE", "SHORT", "step"),
               V(21, "REVERSIBLE", "FULL_SCAN", "step"), V(27, "UNKNOWN", "EXCLUSIVE", "none")}
    BY <1>0, <1>4 DEF Classify, FlaggedKinds, ClassifyAddColumn, ClassifyAddConstraint, Unknown
  <2>2. Asked(v)
    BY <1>4, <2>1 DEF V, Verdicts
  <2> QED BY <1>4, <2>2
<1>5. CASE /\ ~Has(s, "CASCADE")
           /\ s.kind \notin {"ALTER_COLUMN_TYPE", "DELETE", "UPDATE", "DROP_INDEX", "CREATE_INDEX",
                             "DETACH_PARTITION", "ADD_COLUMN", "ADD_CONSTRAINT"}
  <2>1. CASE \E r \in Rows : s.kind \in r.kinds
    <3> DEFINE row == CHOOSE r \in Rows : s.kind \in r.kinds
    <3>1. v = row.verdict
      BY <1>5, <2>1 DEF Classify
    <3>2. row \in Rows /\ s.kind \in row.kinds
      BY <2>1
    <3> HIDE DEF row, v
    <3>3. SoundRow(row)
      BY <3>2, RowsAreSound
    <3>4. Asked(v)
      BY <1>5, <3>1, <3>2, <3>3 DEF SoundRow
    <3> QED BY <1>5, <3>4 DEF v
  <2>2. CASE ~\E r \in Rows : s.kind \in r.kinds
    <3>1. v = V(27, "UNKNOWN", "EXCLUSIVE", "none")
      BY <1>5, <2>2 DEF Classify, Unknown
    <3> QED BY <1>5, <3>1 DEF V, Verdicts
  <2> QED BY <2>1, <2>2
<1> QED BY <1>1, <1>2, <1>3, <1>4, <1>5

\* Every step of a plan that can be run undoes its statement.
LEMMA StepUndone ==
    ASSUME NEW d, Consistent(d), NEW s, WellNamed(s), Accepts(d, s), NEW prior,
           Classify(s, prior).rev \in {"REVERSIBLE", "COSTLY"},
           Classify(s, prior).undo \in {"step", "note"},
           s.kind \notin {"ADD_CONSTRAINT_USING_INDEX", "VALIDATE_CONSTRAINT"},
           Effect(d, s) = d => UndoStep(s, NoType).kind = "NOTHING",
           s.kind = "ALTER_COLUMN_TYPE" => prior \in {NoType, d.column[Home(s)].type}
    PROVE  Perform(Effect(d, s), UndoStep(s, prior)) = d
<1>0. s.kind \notin {"DROP_TABLE", "DROP_COLUMN", "DROP_DEFAULT", "DROP_INDEX", "DROP_CONSTRAINT"}
  BY VerdictIs
<1>1. CASE Effect(d, s) = d
  BY <1>1, NothingToUndo
<1>2. CASE Effect(d, s) # d
  <2>1. CASE s.kind = "CREATE_TABLE"
    BY <1>2, <2>1, NothingDone, CreateTableUnwinds
  <2>2. CASE s.kind = "ADD_COLUMN"
    BY <1>2, <2>2, NothingDone, AddColumnUnwinds
  <2>3. CASE s.kind \in {"RENAME_TABLE", "RENAME_COLUMN"}
    BY <2>3, RenameTableUnwinds, RenameColumnUnwinds
  <2>4. CASE s.kind \in ColumnKinds
    <3>1. s.kind = "ALTER_COLUMN_TYPE" => prior = d.column[Home(s)].type
      BY VerdictIs, ConversionIs
    <3> QED BY <1>0, <1>2, <2>4, <3>1, ColumnChangeUnwinds DEF ColumnKinds
  <2>5. CASE s.kind \in IndexKinds
    BY <1>0, <2>5, IndexChangeUnwinds DEF IndexKinds
  <2>6. CASE s.kind \in ConstraintKinds
    BY <1>0, <2>6, ConstraintChangeUnwinds DEF ConstraintKinds
  <2>7. CASE s.kind \notin {"CREATE_TABLE", "ADD_COLUMN", "RENAME_TABLE", "RENAME_COLUMN", "DROP_TABLE"}
                           \cup ColumnKinds \cup IndexKinds \cup ConstraintKinds
    BY <1>2, <2>7, NothingDone
  <2> QED BY <1>0, <2>1, <2>2, <2>3, <2>4, <2>5, <2>6, <2>7
<1> QED BY <1>1, <1>2

-----------------------------------------------------------------------------
(* Narrowing. *)

LEMMA Modifiers ==
    ASSUME NEW t \in Types
    PROVE  /\ t.mods # << >> => t.mods[1] \in Nat
           /\ Scale(t) \in Nat /\ Digits(t).fraction = Scale(t)
           /\ t.mods # << >> => Digits(t).whole = Precision(t) - Scale(t)
<1>1. t.mods \in Seq(Nat)
  <2>1. NoType.mods = << >> /\ << >> \in Seq(Nat)
    BY DEF NoType
  <2> QED BY <2>1 DEF Types
<1>2. Scale(t) \in Nat
  BY <1>1 DEF Scale
<1>3. Digits(t) = [whole |-> t.mods[1] - Scale(t), fraction |-> Scale(t)]
  BY DEF Digits, Scale
<1> QED BY <1>1, <1>2, <1>3 DEF Precision

LEMMA Integer ==
    /\ DOMAIN IntegerRank = {"int2", "int4", "int8"} /\ DOMAIN IntegerBytes = DOMAIN IntegerRank
    /\ IntegerRank["int2"] = 1 /\ IntegerRank["int4"] = 2 /\ IntegerRank["int8"] = 3
    /\ IntegerBytes["int2"] = 2 /\ IntegerBytes["int4"] = 4 /\ IntegerBytes["int8"] = 8
BY DEF IntegerRank, IntegerBytes

\* A conversion the analyzer calls narrowing loses values.
LEMMA NarrowingIsLossy ==
    ASSUME NEW from \in Types, NEW to \in Types, CompareTypes(from, to) = "narrowing"
    PROVE  ~Keeps(from, to)
<1>1. CASE from.name \in DOMAIN IntegerRank
  <2>1. from.name \in {"int2", "int4", "int8"}
    BY <1>1, Integer
  <2>2. CompareTypes(from, to) = IF to.name \notin DOMAIN IntegerRank THEN "unknown"
                                 ELSE Compared(IntegerRank[to.name] < IntegerRank[from.name],
                                               IntegerRank[to.name] > IntegerRank[from.name])
    BY <2>1, Integer DEF CompareTypes, Character
  <2>3. to.name \in {"int2", "int4", "int8"} /\ IntegerRank[to.name] < IntegerRank[from.name]
    BY <2>2, Integer DEF Compared
  <2>4. ~(IntegerBytes[from.name] <= IntegerBytes[to.name])
    BY <2>1, <2>3, Integer
  <2>5. from # to
    BY <2>1, <2>3, Integer
  <2> QED BY <2>1, <2>3, <2>4, <2>5 DEF Keeps
<1>2. CASE from.name \in Character /\ to.name \in Character
  <2>1. CompareCharacter(from, to) = "narrowing"
    BY <1>2 DEF CompareTypes, Character, IntegerRank
  <2>2. \/ /\ Bounded(from) /\ Bounded(to) /\ to.mods[1] < from.mods[1]
        \/ Bounded(to) /\ ~Bounded(from)
    BY <2>1 DEF CompareCharacter, Compared
  <2> QED BY <1>2, <2>2, Modifiers DEF Keeps, Bounded, Unlimited, Character, IntegerBytes
<1>3. CASE from.name = "numeric" /\ to.name = "numeric"
  <2>1. CompareNumeric(from, to) = "narrowing"
    BY <1>3 DEF CompareTypes, Character, IntegerRank
  <2>2. CASE from.mods # << >> /\ to.mods # << >>
    <3>1. Precision(to) < Precision(from) \/ Scale(to) < Scale(from)
      BY <2>1, <2>2 DEF CompareNumeric, Compared
    <3>2. /\ Precision(to) \in Nat /\ Precision(from) \in Nat /\ Scale(to) \in Nat /\ Scale(from) \in Nat
          /\ Digits(from).whole = Precision(from) - Scale(from) /\ Digits(from).fraction = Scale(from)
          /\ Digits(to).whole = Precision(to) - Scale(to) /\ Digits(to).fraction = Scale(to)
      BY <2>2, Modifiers DEF Precision
    <3>3. ~(Digits(from).whole <= Digits(to).whole /\ Digits(from).fraction <= Digits(to).fraction)
      BY <3>1, <3>2
    <3>4. from # to
      BY <3>1, <3>2
    <3> QED BY <1>3, <2>2, <3>3, <3>4 DEF Keeps, Unlimited, IntegerBytes
  <2>3. CASE ~(from.mods # << >> /\ to.mods # << >>)
    <3>1. to.mods # << >> /\ from.mods = << >>
      BY <2>1, <2>3 DEF CompareNumeric, Compared
    <3> QED BY <1>3, <3>1 DEF Keeps, Unlimited, IntegerBytes
  <2> QED BY <2>2, <2>3
<1>4. CASE from.name = "timestamptz" /\ to.name = "date"
  BY <1>4 DEF Keeps, IntegerBytes
<1> QED BY <1>1, <1>2, <1>3, <1>4 DEF CompareTypes

-----------------------------------------------------------------------------
(* The invariant. *)

Schemas == [Tables \X Columns -> Types]

Nothing == Plain("NOTHING", "", "")
Steps   == {UndoStep(s, prior) : s \in Statements \cup {Nothing}, prior \in Types}

Findings ==
    [rule : 1 .. 59, rev : {"REVERSIBLE", "COSTLY", "UNKNOWN", "IRREVERSIBLE"},
     lock : {"NONE", "SHORT", "FULL_SCAN", "TABLE_REWRITE", "EXCLUSIVE"},
     undo : {"step", "partial", "note", "none"},
     step : Steps, file : Files, line : Nat, read : Nat]

Script == [s : Statements, file : Files, line : Nat, found : Database, known : Schemas]

Shape ==
    /\ handed \in Bijection(Files, Files)
    /\ order = IF phase \in {"handed", "failed"} THEN << >> ELSE [f \in Files |-> f]
    /\ at \in 1 .. NumFiles + 1
    /\ role \in [Files -> Roles]
    /\ script \in Seq(Script)
    /\ tracked \in Schemas
    /\ before \in Databases
    /\ Consistent(database)
    /\ phase \in {"handed", "reading", "returned", "failed"}
    /\ phase = "handed" => at = 1
    /\ phase = "returned" => at = NumFiles + 1
    /\ Len(script) <= MaxScript /\ Len(findings) <= Len(script) + at - 1

\* Files are read in order, and so are the lines of each.
InOrder ==
    /\ \A k \in DOMAIN script : script[k].file <= at /\ role[script[k].file] = "up"
    /\ \A j, k \in DOMAIN script :
          j < k => \/ script[j].file < script[k].file
                   \/ script[j].file = script[k].file /\ script[j].line <= script[k].line

\* What statement k meets; the one after the last, what there is.
Met(k)       == IF k \in DOMAIN script THEN script[k].found ELSE database
MetSchema(k) == IF k \in DOMAIN script THEN script[k].known ELSE tracked

\* Every statement meets what the ones before it have left.
Chain ==
    /\ Met(1) = before /\ MetSchema(1) = NothingKnown
    /\ \A k \in DOMAIN script :
          /\ Consistent(script[k].found) /\ Accepts(script[k].found, script[k].s)
          /\ Met(k + 1) = Effect(script[k].found, script[k].s)
          /\ MetSchema(k + 1) = Tracking(script[k].known, script[k].s)

\* The schema is what the statements said last of each column.
Said ==
    \A c \in Tables \X Columns, m \in 1 .. Len(script) + 1 :
        \/ /\ MetSchema(m)[c] = NoType
           /\ \A j \in 1 .. m - 1 : SaysOf(j, c) = {}
        \/ \E j \in 1 .. m - 1 : /\ SaysOf(j, c) = {MetSchema(m)[c]}
                                 /\ \A i \in j + 1 .. m - 1 : SaysOf(i, c) = {}

\* What the schema says of a column is true of the database.
Knows(d, known) ==
    \A c \in Tables \X Columns :
        known[c] # NoType => There(d, c) /\ d.column[c].type = known[c]

\* It is, as long as nothing is renamed and nothing finds its work done.
Followed ==
    ~Renames /\ ~Repeats =>
        /\ \A k \in DOMAIN script : Knows(script[k].found, script[k].known)
        /\ Knows(database, tracked)

PriorOf(e) == IF e.s.kind = "ALTER_COLUMN_TYPE" THEN e.known[Home(e.s)] ELSE NoType

\* Finding f is what the analyzer says of entry e of the script.
Answers(f, e) ==
    LET v == Classify(e.s, PriorOf(e)) IN
    /\ f.rule = v.rule /\ f.rev = v.rev /\ f.undo = v.undo
    /\ f.step = UndoStep(e.s, PriorOf(e))
    /\ f.file = e.file /\ f.line = e.line

\* Finding and statement are found at the same place: before the findings are
\* sorted, as long as every file parsed; and after, if all is known and every
\* statement has a line of its own.
Aligned ==
    /\ phase # "returned" /\ (\A f \in Files : f < at => role[f] # "broken") =>
          /\ \A k \in DOMAIN script : k \in DOMAIN findings /\ Answers(findings[k], script[k])
          /\ Len(findings) = Len(script) \/ at > NumFiles
    /\ (phase = "returned" => OneALine) /\ (\A k \in DOMAIN findings : findings[k].rev # "UNKNOWN") =>
          /\ Len(findings) = Len(script)
          /\ \A k \in DOMAIN script : Answers(findings[k], script[k])

BrokenBefore == {f \in Files : f < at /\ role[f] = "broken"}

Answered ==
    /\ \A k \in DOMAIN script : \E j \in DOMAIN findings :
          findings[j].file = script[k].file /\ findings[j].line = script[k].line
    /\ \A f \in BrokenBefore : \E j \in DOMAIN findings :
          findings[j].file = f /\ findings[j].rev = "UNKNOWN"
    /\ Len(findings) >= Len(script) + Cardinality(BrokenBefore)

IInv ==
    /\ Shape /\ findings \in Seq(Findings)
    /\ InOrder /\ Chain /\ Said /\ Followed /\ Aligned /\ Answered /\ NarrowingLoses

-----------------------------------------------------------------------------
(* Sequences and their orders. *)

LEMMA OneMore ==
    ASSUME NEW S, NEW s \in Seq(S), NEW e \in S
    PROVE  /\ Append(s, e) \in Seq(S) /\ Len(Append(s, e)) = Len(s) + 1
           /\ Append(s, e)[Len(s) + 1] = e
           /\ \A k \in 1 .. Len(s) : Append(s, e)[k] = s[k]
           /\ DOMAIN s = 1 .. Len(s) /\ Len(s) \in Nat
           /\ DOMAIN Append(s, e) = 1 .. Len(s) + 1
           /\ \A k \in DOMAIN s : s[k] \in S
OBVIOUS

LEMMA EmptySequence ==
    ASSUME NEW S
    PROVE  << >> \in Seq(S) /\ Len(<< >>) = 0 /\ DOMAIN << >> = {} /\ ~(1 \in DOMAIN << >>)
OBVIOUS

LEMMA FunctionIsSequence ==
    ASSUME NEW S, NEW n \in Nat, NEW f \in [1 .. n -> S]
    PROVE  f \in Seq(S) /\ Len(f) = n
<1>1. f \in Seq(S)
  BY SeqDef
<1> QED BY <1>1

\* A map of 1 .. n into itself that keeps the order moves nothing.
LEMMA Increasing ==
    ASSUME NEW n \in Nat, NEW f \in [1 .. n -> 1 .. n],
           \A j, k \in 1 .. n : j < k => f[j] < f[k]
    PROVE  f = [k \in 1 .. n |-> k]
<1>1. \A k \in 1 .. n : f[k] >= k
  <2> DEFINE T == {k \in 1 .. n : f[k] < k}
  <2>1. SUFFICES ASSUME T # {} PROVE FALSE
    OBVIOUS
  <2>2. PICK k \in T : \A j \in T : k <= j
    <3>1. T \in SUBSET Nat
      OBVIOUS
    <3> HIDE DEF T
    <3> QED BY <2>1, <3>1, LeastExists
  <2>3. f[k] \in 1 .. n /\ f[k] < k /\ f[f[k]] \in 1 .. n
    BY <2>2
  <2>4. f[f[k]] < f[k]
    BY <2>2, <2>3
  <2>5. f[k] \in T
    BY <2>3, <2>4
  <2> QED BY <2>2, <2>3, <2>5
<1>2. \A k \in 1 .. n : f[k] <= k
  <2> DEFINE T == {k \in 1 .. n : f[k] > k}
  <2>1. SUFFICES ASSUME T # {} PROVE FALSE
    OBVIOUS
  <2>2. PICK k \in T : \A j \in T : j <= k
    <3>1. T \in SUBSET (1 .. n)
      OBVIOUS
    <3> HIDE DEF T
    <3> QED BY <2>1, <3>1, GreatestExists
  <2>3. f[k] \in 1 .. n /\ f[k] > k /\ f[f[k]] \in 1 .. n
    BY <2>2
  <2>4. f[f[k]] > f[k]
    BY <2>2, <2>3
  <2>5. f[k] \in T
    BY <2>3, <2>4
  <2> QED BY <2>2, <2>3, <2>5
<1>3. \A k \in 1 .. n : f[k] = k
  BY <1>1, <1>2
<1> QED BY <1>3

LEMMA FilesAre ==
    LET inOrder == [f \in Files |-> f] IN
    /\ inOrder \in Seq(Files) /\ Len(inOrder) = NumFiles
    /\ inOrder \in Bijection(Files, Files)
    /\ IsFiniteSet(Files) /\ NumFiles \in Nat /\ MaxScript \in Nat
    /\ NumFiles \in 0 .. NumFiles + MaxScript
<1>1. /\ IsFiniteSet(Files) /\ NumFiles \in Nat /\ MaxScript \in Nat
      /\ NumFiles \in 0 .. NumFiles + MaxScript
  BY FilesAssumption, FS_Interval DEF Files
<1>2. [f \in Files |-> f] \in Bijection(Files, Files)
  BY DEF Bijection, Injection, IsInjective, Surjection
<1>3. [f \in Files |-> f] \in Seq(Files) /\ Len([f \in Files |-> f]) = NumFiles
  BY <1>1 DEF Files
<1> QED BY <1>1, <1>2, <1>3

\* Files that were handed over in some order are read in path order.
LEMMA SortedFiles ==
    ASSUME NEW fs \in Bijection(Files, Files), NEW o \in Sorted(fs, <)
    PROVE  o = [f \in Files |-> f]
<1>0. fs \in [Files -> Files] /\ DOMAIN fs = Files
  BY DEF Bijection, Surjection, Injection
<1>1. fs \in Seq(Files) /\ Len(fs) = NumFiles
  BY <1>0, FilesAssumption, FunctionIsSequence DEF Files
<1>2. PICK q \in Orders[Len(fs)] :
        /\ o = [k \in DOMAIN fs |-> fs[q[k]]]
        /\ \A j, k \in DOMAIN fs : j < k => fs[q[j]] < fs[q[k]]
  BY DEF Sorted
<1>3. q \in [Files -> Files]
  <2>1. NumFiles \in 0 .. NumFiles + MaxScript
    BY FilesAre
  <2>2. q \in Bijection(1 .. NumFiles, 1 .. NumFiles)
    BY <1>1, <1>2, <2>1 DEF Orders
  <2> QED BY <2>2 DEF Files, Bijection, Surjection, Injection
<1>4. o \in [Files -> Files]
  BY <1>0, <1>2, <1>3
<1>5. \A j, k \in Files : j < k => o[j] < o[k]
  BY <1>0, <1>2
<1> QED BY <1>4, <1>5, Increasing, FilesAre DEF Files

LEMMA BeforeIsStrict ==
    ASSUME NEW f \in Findings, NEW g \in Findings, Before(f, g)
    PROVE  ~Before(g, f)
<1>1. /\ f.file \in Int /\ f.line \in Int /\ f.rule \in Int /\ f.read \in Int
      /\ g.file \in Int /\ g.line \in Int /\ g.rule \in Int /\ g.read \in Int
  BY FilesAssumption DEF Findings, Files
<1> QED BY <1>1 DEF Before

\* Sorted findings are the findings, in an order.
LEMMA SortedFindings ==
    ASSUME NEW fs \in Seq(Findings), Len(fs) <= NumFiles + MaxScript, NEW o \in Sorted(fs, Before)
    PROVE  /\ o \in Seq(Findings) /\ Len(o) = Len(fs)
           /\ \A k \in DOMAIN fs : \E j \in DOMAIN o : o[j] = fs[k]
           /\ \A j \in DOMAIN o : \E k \in DOMAIN fs : o[j] = fs[k]
           /\ (\A j, k \in DOMAIN fs : j < k => Before(fs[j], fs[k])) => o = fs
<1> DEFINE n == Len(fs)
<1>0. /\ n \in Nat /\ DOMAIN fs = 1 .. n /\ n \in 0 .. NumFiles + MaxScript
      /\ \A k \in 1 .. n : fs[k] \in Findings
  BY FilesAssumption
<1>1. PICK q \in Orders[n] :
        /\ o = [k \in 1 .. n |-> fs[q[k]]]
        /\ \A j, k \in 1 .. n : j < k => Before(fs[q[j]], fs[q[k]])
  BY <1>0 DEF Sorted
<1>2. q \in [1 .. n -> 1 .. n] /\ \A k \in 1 .. n : \E j \in 1 .. n : q[j] = k
  BY <1>0 DEF Orders, Bijection, Surjection, Injection
<1> HIDE DEF n
<1>3. o \in [1 .. n -> Findings] /\ DOMAIN o = 1 .. n
  BY <1>0, <1>1, <1>2
<1>4. o \in Seq(Findings) /\ Len(o) = n
  BY <1>0, <1>3
<1>5. \A k \in 1 .. n : \E j \in 1 .. n : o[j] = fs[k]
  BY <1>1, <1>2
<1>6. \A j \in 1 .. n : \E k \in 1 .. n : o[j] = fs[k]
  BY <1>1, <1>2
<1>7. ASSUME \A j, k \in 1 .. n : j < k => Before(fs[j], fs[k])
      PROVE  o = fs
  <2>1. ASSUME NEW j \in 1 .. n, NEW k \in 1 .. n, j < k
        PROVE  q[j] < q[k]
    <3>1. Before(fs[q[j]], fs[q[k]]) /\ fs[q[j]] \in Findings /\ fs[q[k]] \in Findings
      <4>1. q[j] \in DOMAIN fs /\ q[k] \in DOMAIN fs
        BY <1>0, <1>2
      <4> QED BY <1>1, <2>1, <4>1
    <3>2. ~Before(fs[q[k]], fs[q[j]])
      BY <3>1, BeforeIsStrict
    <3>3. q[j] # q[k]
      BY <3>1, <3>2
    <3>4. ~(q[k] < q[j])
      <4>1. q[j] \in 1 .. n /\ q[k] \in 1 .. n
        BY <1>2
      <4> QED BY <1>7, <3>2, <4>1
    <3>5. q[j] \in Int /\ q[k] \in Int
      BY <1>2
    <3> QED BY <3>3, <3>4, <3>5
  <2>2. q = [k \in 1 .. n |-> k]
    BY <1>0, <1>2, <2>1, Increasing
  <2>3. o = [k \in 1 .. n |-> fs[k]]
    BY <1>1, <2>2
  <2> QED BY <1>0, <1>3, <2>3
<1> QED BY <1>0, <1>3, <1>4, <1>5, <1>6, <1>7 DEF n

-----------------------------------------------------------------------------
(* What a statement teaches the schema. *)

\* What a statement says of a column.
Says(s, c) ==
    CASE s.kind = "CREATE_TABLE" /\ s.rel = c[1] /\ s.cols[c[2]] # NoType -> {s.cols[c[2]]}
      [] s.kind \in {"ADD_COLUMN", "ALTER_COLUMN_TYPE"} /\ Home(s) = c -> {s.type}
      [] s.kind = "DROP_COLUMN" /\ Home(s) = c   -> {NoType}
      [] s.kind = "DROP_TABLE" /\ s.obj = c[1]   -> {NoType}
      [] OTHER -> {}

LEMMA SaysIs ==
    ASSUME NEW k, NEW c
    PROVE  SaysOf(k, c) = Says(script[k].s, c)
BY DEF SaysOf, Says

LEMMA TrackingIs ==
    ASSUME NEW known \in Schemas, NEW s, WellNamed(s)
    PROVE  /\ Tracking(known, s) \in Schemas
           /\ \A c \in Tables \X Columns :
                 Says(s, c) = IF Says(s, c) = {} THEN {} ELSE {Tracking(known, s)[c]}
           /\ \A c \in Tables \X Columns :
                 Says(s, c) = {} => Tracking(known, s)[c] = known[c]
<1> DEFINE new == Tracking(known, s)
<1>1. CASE s.kind = "CREATE_TABLE"
  <2>1. new = [c \in Tables \X Columns |->
                  IF c[1] = s.rel /\ s.cols[c[2]] # NoType THEN s.cols[c[2]] ELSE known[c]]
    BY <1>1 DEF Tracking
  <2>2. s.cols \in [Columns -> Types]
    BY DEF WellNamed
  <2>3. \A c \in Tables \X Columns :
          Says(s, c) = IF c[1] = s.rel /\ s.cols[c[2]] # NoType THEN {s.cols[c[2]]} ELSE {}
    BY <1>1 DEF Says
  <2> HIDE DEF new
  <2>4. new \in Schemas
    BY <2>1, <2>2 DEF Schemas
  <2>5. \A c \in Tables \X Columns :
          new[c] = IF c[1] = s.rel /\ s.cols[c[2]] # NoType THEN s.cols[c[2]] ELSE known[c]
    BY <2>1
  <2> QED BY <2>3, <2>4, <2>5 DEF new
<1>2. CASE s.kind \in {"ADD_COLUMN", "ALTER_COLUMN_TYPE", "DROP_COLUMN"}
  <2> DEFINE type == IF s.kind = "DROP_COLUMN" THEN NoType ELSE s.type
  <2>1. new = [known EXCEPT ![Home(s)] = type]
    BY <1>2 DEF Tracking
  <2>2. Home(s) \in Tables \X Columns /\ type \in Types
    BY <1>2, Constants DEF WellNamed, ColumnKinds
  <2>3. \A c \in Tables \X Columns : Says(s, c) = IF c = Home(s) THEN {type} ELSE {}
    BY <1>2 DEF Says
  <2> HIDE DEF new, type
  <2>4. new \in Schemas /\ \A c \in Tables \X Columns : new[c] = IF c = Home(s) THEN type ELSE known[c]
    BY <2>1, <2>2 DEF Schemas
  <2> QED BY <2>3, <2>4 DEF new
<1>3. CASE s.kind = "DROP_TABLE"
  <2>1. new = [c \in Tables \X Columns |-> IF c[1] = s.obj THEN NoType ELSE known[c]]
    BY <1>3 DEF Tracking
  <2>2. \A c \in Tables \X Columns : Says(s, c) = IF c[1] = s.obj THEN {NoType} ELSE {}
    BY <1>3 DEF Says
  <2> HIDE DEF new
  <2>3. new \in Schemas /\ \A c \in Tables \X Columns : new[c] = IF c[1] = s.obj THEN NoType ELSE known[c]
    BY <2>1, Constants DEF Schemas
  <2> QED BY <2>2, <2>3 DEF new
<1>4. CASE s.kind \notin {"CREATE_TABLE", "ADD_COLUMN", "ALTER_COLUMN_TYPE", "DROP_COLUMN", "DROP_TABLE"}
  BY <1>4 DEF Tracking, Says
<1> QED BY <1>1, <1>2, <1>3, <1>4

\* What the schema says of the database stays true, unless something is
\* renamed or finds its work done.
LEMMA ToldKept ==
    ASSUME NEW d, Consistent(d), NEW s, WellNamed(s), Accepts(d, s),
           NEW known \in Schemas, Knows(d, known),
           s.kind \notin {"RENAME_TABLE", "RENAME_COLUMN"},
           Effect(d, s) = d => UndoStep(s, NoType).kind = "NOTHING"
    PROVE  Knows(Effect(d, s), Tracking(known, s))
<1> DEFINE e == Effect(d, s)
           new == Tracking(known, s)
<1>0. /\ d \in Database
      /\ \A c \in Tables \X Columns : d.column[c] \in Column
  BY DEF Consistent, Database
<1>1. CASE s.kind = "CREATE_TABLE"
  <2>1. s.rel \notin d.there
    BY <1>1, NothingDone, UndoIs
  <2>2. s.cols \in [Columns -> Types]
    BY DEF WellNamed
  <2>3. /\ e.there = d.there \cup {s.rel}
        /\ e.column = [c \in Tables \X Columns |->
                          IF c[1] = s.rel THEN Declared(s.cols[c[2]]) ELSE d.column[c]]
    BY <1>0, <1>1, <2>1, CreateTableIs DEF Parts
  <2>4. new = [c \in Tables \X Columns |->
                  IF c[1] = s.rel /\ s.cols[c[2]] # NoType THEN s.cols[c[2]] ELSE known[c]]
    BY <1>1 DEF Tracking
  <2> HIDE DEF e, new
  <2>5. ASSUME NEW c \in Tables \X Columns, new[c] # NoType
        PROVE  There(e, c) /\ e.column[c].type = new[c]
    <3>1. CASE c[1] = s.rel /\ s.cols[c[2]] # NoType
      <4>1. s.cols[c[2]] \in Types /\ e.column[c] = Declared(s.cols[c[2]]) /\ new[c] = s.cols[c[2]]
        BY <2>2, <2>3, <2>4, <3>1
      <4> QED BY <2>3, <3>1, <4>1, DeclaredIs, Constants DEF There
    <3>2. CASE ~(c[1] = s.rel /\ s.cols[c[2]] # NoType)
      <4>1. There(d, c) /\ d.column[c].type = known[c] /\ new[c] = known[c]
        BY <2>4, <2>5, <3>2 DEF Knows
      <4>2. c[1] # s.rel
        BY <2>1, <4>1 DEF There
      <4> QED BY <2>3, <4>1, <4>2 DEF There
    <3> QED BY <3>1, <3>2
  <2> QED BY <2>5 DEF Knows, e, new
<1>2. CASE s.kind \in {"ADD_COLUMN", "ALTER_COLUMN_TYPE"}
  <2>1. Home(s) \in Tables \X Columns /\ Home(s)[1] = s.rel /\ s.type # NoType
    BY <1>2 DEF WellNamed, ColumnKinds, Home
  <2>2. s.rel \in d.there
    BY <1>2 DEF Accepts, ColumnKinds, There, Home
  <2>3. PICK col : col.type = s.type /\ e.there = d.there /\ e.column = [d.column EXCEPT ![Home(s)] = col]
    <3>1. CASE s.kind = "ADD_COLUMN"
      <4>1. ~There(d, Home(s))
        BY <3>1, NothingDone, UndoIs
      <4> DEFINE col == [type |-> s.type, notNull |-> Has(s, "NOT NULL"), default |-> Has(s, "DEFAULT")]
      <4>2. e = Parts(d, d.there, [d.column EXCEPT ![Home(s)] = col], d.index, d.constraint)
        BY <1>0, <3>1, <4>1, AddColumnIs
      <4>3. col.type = s.type
        OBVIOUS
      <4> HIDE DEF col, e
      <4>4. e.there = d.there /\ e.column = [d.column EXCEPT ![Home(s)] = col]
        BY <4>2 DEF Parts
      <4> QED BY <4>3, <4>4
    <3>2. CASE s.kind = "ALTER_COLUMN_TYPE"
      <4> DEFINE col == [d.column[Home(s)] EXCEPT !.type = s.type]
      <4>1. e = Parts(d, d.there, [d.column EXCEPT ![Home(s)] = col], d.index, d.constraint)
        BY <1>0, <2>1, <3>2, AlterColumnIs
      <4>2. col.type = s.type
        BY <1>0, <2>1 DEF Column
      <4> HIDE DEF col, e
      <4>3. e.there = d.there /\ e.column = [d.column EXCEPT ![Home(s)] = col]
        BY <4>1 DEF Parts
      <4> QED BY <4>2, <4>3
    <3> QED BY <1>2, <3>1, <3>2
  <2>4. new = [known EXCEPT ![Home(s)] = s.type]
    BY <1>2 DEF Tracking
  <2> HIDE DEF e, new
  <2>5. ASSUME NEW c \in Tables \X Columns, new[c] # NoType
        PROVE  There(e, c) /\ e.column[c].type = new[c]
    <3>1. e.column[c] = (IF c = Home(s) THEN col ELSE d.column[c]) /\
          new[c] = (IF c = Home(s) THEN s.type ELSE known[c])
      BY <1>0, <2>3, <2>4 DEF Database, Schemas
    <3>2. CASE c = Home(s)
      BY <2>1, <2>2, <2>3, <3>1, <3>2, Constants DEF There
    <3>3. CASE c # Home(s)
      BY <2>3, <2>5, <3>1, <3>3 DEF There, Knows
    <3> QED BY <3>2, <3>3
  <2> QED BY <2>5 DEF Knows, e, new
<1>3. CASE s.kind \in {"DROP_COLUMN", "DROP_TABLE"}
  <2> DEFINE Gone(c) == IF s.kind = "DROP_COLUMN" THEN c = Home(s) ELSE c[1] = s.obj
  <2>1. ASSUME NEW c \in Tables \X Columns
        PROVE  /\ Gone(c) => new[c] = NoType
               /\ ~Gone(c) => /\ new[c] = known[c] /\ e.column[c] = d.column[c]
                              /\ c[1] \in d.there => c[1] \in e.there
    <3>1. CASE s.kind = "DROP_COLUMN"
      <4>1. new = [known EXCEPT ![Home(s)] = NoType]
        BY <3>1 DEF Tracking
      <4>2. e.there = d.there /\ e.column = [d.column EXCEPT ![Home(s)] = NoColumn]
        BY <1>0, <3>1, DropColumnIs DEF Parts
      <4> HIDE DEF e, new
      <4> QED BY <1>0, <3>1, <4>1, <4>2 DEF Database, Schemas
    <3>2. CASE s.kind = "DROP_TABLE"
      <4>1. new = [x \in Tables \X Columns |-> IF x[1] = s.obj THEN NoType ELSE known[x]]
        BY <3>2 DEF Tracking
      <4>2. e.there = d.there \ {s.obj} /\ e.column = ColumnsWithout(d, s.obj)
        BY <1>0, <3>2, DropTableIs DEF Parts
      <4> HIDE DEF e, new
      <4> QED BY <3>2, <4>1, <4>2 DEF ColumnsWithout
    <3> QED BY <1>3, <3>1, <3>2
  <2> HIDE DEF e, new, Gone
  <2> QED BY <2>1 DEF Knows, There, e, new
<1>4. CASE s.kind \in {"SET_NOT_NULL", "DROP_NOT_NULL", "SET_DEFAULT", "DROP_DEFAULT"}
  <2>1. Home(s) \in Tables \X Columns /\ There(d, Home(s))
    BY <1>4 DEF WellNamed, Accepts, ColumnKinds
  <2>2. new = known
    BY <1>4 DEF Tracking
  <2>3. d.column[Home(s)] \in Column /\ d.column[Home(s)].type \in Types /\ d.column[Home(s)].type # NoType
    BY <1>0, <2>1 DEF Column, Consistent, There
  <2>4. PICK col : /\ col.type = d.column[Home(s)].type /\ e.there = d.there
                   /\ e.column = [d.column EXCEPT ![Home(s)] = col]
    <3> DEFINE old == d.column[Home(s)]
               changed == CASE s.kind = "SET_NOT_NULL"  -> [old EXCEPT !.notNull = TRUE]
                         [] s.kind = "DROP_NOT_NULL" -> [old EXCEPT !.notNull = FALSE]
                         [] s.kind = "SET_DEFAULT"   -> [old EXCEPT !.default = TRUE]
                         [] OTHER -> [old EXCEPT !.default = FALSE]
    <3>1. changed.type = old.type
      BY <1>4, <2>3, Changed
    <3>2. e = Parts(d, d.there, [d.column EXCEPT ![Home(s)] = changed], d.index, d.constraint)
      BY <1>0, <1>4, AlterColumnIs
    <3> HIDE DEF e, changed
    <3>3. e.there = d.there /\ e.column = [d.column EXCEPT ![Home(s)] = changed]
      BY <3>2 DEF Parts
    <3> QED BY <3>1, <3>3
  <2> HIDE DEF e, new
  <2>5. ASSUME NEW c \in Tables \X Columns
        PROVE  e.column[c] = IF c = Home(s) THEN col ELSE d.column[c]
    BY <1>0, <2>4 DEF Database
  <2>6. ASSUME NEW c \in Tables \X Columns, new[c] # NoType
        PROVE  There(e, c) /\ e.column[c].type = new[c]
    <3>1. There(d, c) /\ d.column[c].type = known[c]
      BY <2>2, <2>6 DEF Knows
    <3> QED BY <2>2, <2>3, <2>4, <2>5, <3>1, Constants DEF There
  <2> QED BY <2>6 DEF Knows, e, new
<1>5. CASE s.kind \in IndexKinds \cup ConstraintKinds
  <2>1. new = known
    BY <1>5 DEF Tracking, IndexKinds, ConstraintKinds
  <2> HIDE DEF new
  <2>3. e.there = d.there /\ e.column = d.column
    <3>1. CASE s.kind \in IndexKinds
      BY <1>0, <3>1, IndexIs DEF Parts, IndexKinds
    <3>2. CASE s.kind = "ADD_CONSTRAINT"
      BY <1>0, <3>2 DEF Effect, Database
    <3>3. CASE s.kind = "ADD_CONSTRAINT_USING_INDEX"
      BY <1>0, <3>3 DEF Effect, Database
    <3>4. CASE s.kind = "VALIDATE_CONSTRAINT"
      BY <1>0, <3>4 DEF Effect, Database
    <3>5. CASE s.kind = "DROP_CONSTRAINT"
      BY <1>0, <3>5 DEF Effect, Database
    <3> QED BY <1>5, <3>1, <3>2, <3>3, <3>4, <3>5 DEF ConstraintKinds
  <2> HIDE DEF e
  <2> QED BY <2>1, <2>3 DEF Knows, There, e, new
<1>6. CASE s.kind \notin {"CREATE_TABLE", "ADD_COLUMN", "RENAME_TABLE", "RENAME_COLUMN", "DROP_TABLE"}
                         \cup ColumnKinds \cup IndexKinds \cup ConstraintKinds
  <2>1. new = known
    BY <1>6 DEF Tracking, ColumnKinds
  <2>2. e = d
    BY <1>6, NothingDone
  <2> QED BY <2>1, <2>2
<1> QED BY <1>1, <1>2, <1>3, <1>4, <1>5, <1>6 DEF ColumnKinds

-----------------------------------------------------------------------------
(* The invariant holds. *)

LEMMA FindingIs ==
    ASSUME Len(findings) \in Nat, NEW v \in Verdicts, NEW s \in Statements \cup {Nothing},
           NEW prior \in Types, NEW file \in Files, NEW line \in Nat
    PROVE  LET f == Finding(v, s, prior, file, line) IN
           /\ f \in Findings
           /\ f.rule = v.rule /\ f.rev = v.rev /\ f.undo = v.undo /\ f.step = UndoStep(s, prior)
           /\ f.file = file /\ f.line = line
<1> DEFINE step == UndoStep(s, prior)
           f == Finding(v, s, prior, file, line)
<1>1. step \in Steps
  BY DEF Steps
<1> HIDE DEF step
<1>2. f = [rule |-> v.rule, rev |-> v.rev, lock |-> v.lock, undo |-> v.undo,
           step |-> step, file |-> file, line |-> line, read |-> Len(findings) + 1]
  BY DEF Finding, step
<1> HIDE DEF f
<1>3. /\ f.rule = v.rule /\ f.rev = v.rev /\ f.undo = v.undo /\ f.step = step
      /\ f.file = file /\ f.line = line
  BY <1>2
<1>4. f \in Findings
  BY <1>1, <1>2 DEF Findings, Verdicts
<1> QED BY <1>3, <1>4 DEF f, step

LEMMA UnreadIs ==
    ASSUME Len(findings) \in Nat, NEW file \in Files
    PROVE  /\ Unread(file) \in Findings /\ Unread(file).file = file
           /\ Unread(file).rule = 27 /\ Unread(file).rev = "UNKNOWN" /\ Unread(file).line = 1
<1>1. Unknown \in Verdicts /\ Unknown.rule = 27 /\ Unknown.rev = "UNKNOWN"
  BY DEF Unknown, V, Verdicts
<1>2. Unread(file) = Finding(Unknown, Nothing, NoType, file, 1)
  BY DEF Unread, Nothing
<1> QED BY <1>1, <1>2, FindingIs, Constants

LEMMA Broken ==
    /\ IsFiniteSet(BrokenBefore) /\ Cardinality(BrokenBefore) \in Nat
    /\ at \in Nat => /\ at' = at + 1 /\ role' = role /\ role[at] # "broken" => BrokenBefore' = BrokenBefore
                     /\ at' = at + 1 /\ role' = role => BrokenBefore' \subseteq BrokenBefore \cup {at}
<1>1. BrokenBefore \subseteq Files
  BY DEF BrokenBefore
<1>2. IsFiniteSet(BrokenBefore)
  BY <1>1, FilesAre, FS_Subset
<1>3. \A f \in Files : f \in Int
  BY FilesAssumption DEF Files
<1>4. ASSUME at \in Nat, at' = at + 1, role' = role
      PROVE  /\ role[at] # "broken" => BrokenBefore' = BrokenBefore
             /\ BrokenBefore' \subseteq BrokenBefore \cup {at}
  BY <1>3, <1>4 DEF BrokenBefore
<1> QED BY <1>2, <1>4, FS_CardinalityType

LEMMA ScriptIs ==
    ASSUME script \in Seq(Script)
    PROVE  /\ Len(script) \in Nat /\ DOMAIN script = 1 .. Len(script)
           /\ \A k \in DOMAIN script :
                 /\ script[k].s \in Statements /\ WellNamed(script[k].s)
                 /\ script[k].file \in Files /\ script[k].file \in Int /\ script[k].line \in Int
                 /\ script[k].found \in Database /\ script[k].known \in Schemas
<1>1. \A k \in DOMAIN script : script[k] \in Script
  OBVIOUS
<1>2. \A f \in Files : f \in Int
  BY FilesAssumption DEF Files
<1> QED BY <1>1, <1>2, StatementsAssumption DEF Script

\* A call that has read nothing.
Fresh ==
    /\ handed \in Bijection(Files, Files) /\ role \in [Files -> Roles] /\ before \in Databases
    /\ phase \in {"handed", "failed"} /\ order = << >> /\ at = 1
    /\ script = << >> /\ findings = << >>
    /\ tracked = NothingKnown /\ database = before

LEMMA FreshInv == Fresh => IInv
<1> SUFFICES ASSUME Fresh PROVE IInv
  OBVIOUS
<1> USE DEF Fresh
<1>1. /\ script \in Seq(Script) /\ Len(script) = 0 /\ DOMAIN script = {} /\ 1 \notin DOMAIN script
      /\ findings \in Seq(Findings) /\ Len(findings) = 0 /\ DOMAIN findings = {}
  BY EmptySequence
<1>2. tracked \in Schemas
  BY Constants DEF NothingKnown, Schemas
<1>3. Shape
  BY <1>1, <1>2, FilesAre, DatabasesAssumption DEF Shape
<1>4. InOrder
  BY <1>1 DEF InOrder
<1>5. Chain
  BY <1>1 DEF Chain, Met, MetSchema
<1>6. Said
  <2>1. ASSUME NEW c \in Tables \X Columns, NEW m \in 1 .. Len(script) + 1
        PROVE  MetSchema(m)[c] = NoType /\ \A j \in 1 .. m - 1 : SaysOf(j, c) = {}
    <3>1. m = 1
      BY <1>1
    <3>2. MetSchema(m)[c] = NoType
      BY <1>1, <3>1 DEF MetSchema, NothingKnown
    <3> QED BY <3>1, <3>2
  <2> QED BY <2>1 DEF Said
<1>7. Followed
  BY <1>1 DEF Followed, Knows, NothingKnown
<1>8. Aligned
  BY <1>1 DEF Aligned
<1>9. Answered
  <2>1. BrokenBefore = {}
    BY FilesAre DEF BrokenBefore, Files
  <2>2. Cardinality(BrokenBefore) = 0
    BY <2>1, FS_EmptySet
  <2> QED BY <1>1, <2>1, <2>2 DEF Answered
<1>10. NarrowingLoses
  BY <1>1 DEF NarrowingLoses
<1> QED BY <1>1, <1>3, <1>4, <1>5, <1>6, <1>7, <1>8, <1>9, <1>10 DEF IInv

\* What was read and met does not change while nothing more is read.
LEMMA SameHistory ==
    ASSUME Chain, Said, Followed, UNCHANGED <<script, tracked, before, database>>
    PROVE  Chain' /\ Said' /\ Followed'
<1>1. Chain'
  BY DEF Chain, Met, MetSchema
<1>2. Said'
  <2>1. \A k, c : SaysOf(k, c)' = SaysOf(k, c) /\ MetSchema(k)' = MetSchema(k)
    BY DEF SaysOf, MetSchema
  <2> QED BY <2>1 DEF Said
<1>3. Followed'
  BY DEF Followed, Renames, Repeats
<1> QED BY <1>1, <1>2, <1>3

\* While files are read, the one that is being read is the one at that place.
LEMMA Place ==
    ASSUME Shape, phase = "reading", at <= Len(order)
    PROVE  at \in Files /\ order[at] = at /\ at <= NumFiles /\ Len(order) = NumFiles
<1>1. order = [f \in Files |-> f] /\ Len(order) = NumFiles
  BY FilesAre DEF Shape
<1>2. at \in Files
  BY <1>1, FilesAssumption DEF Shape, Files
<1> QED BY <1>1, <1>2

LEMMA PassOverStep ==
    ASSUME IInv, phase = "reading", at <= Len(order), role[order[at]] # "broken", at' = at + 1,
           UNCHANGED <<handed, order, role, script, tracked, before, database, findings, phase>>
    PROVE  IInv'
<1>1. at \in Nat /\ at <= NumFiles /\ NumFiles \in Nat /\ role[at] # "broken"
  BY Place, FilesAre DEF IInv, Shape
<1>2. Shape' /\ findings' \in Seq(Findings)
  BY <1>1 DEF IInv, Shape
<1>3. InOrder'
  <2>1. \A k \in DOMAIN script : script[k].file \in Int
    BY ScriptIs DEF IInv, Shape
  <2> QED BY <1>1, <2>1 DEF IInv, InOrder
<1>4. Chain' /\ Said' /\ Followed'
  BY SameHistory DEF IInv
<1>5. Aligned'
  BY <1>1, FilesAssumption DEF IInv, Aligned, OneALine, Files
<1>6. Answered'
  <2>1. BrokenBefore' = BrokenBefore
    BY <1>1, Broken
  <2> QED BY <2>1 DEF IInv, Answered
<1>7. NarrowingLoses'
  BY DEF IInv, NarrowingLoses
<1> QED BY <1>2, <1>3, <1>4, <1>5, <1>6, <1>7 DEF IInv

LEMMA UnreadStep ==
    ASSUME IInv, phase = "reading", at <= Len(order), role[order[at]] = "broken" \/ at = Len(order),
           findings' = Append(findings, Unread(order[at])), at' = at + 1,
           UNCHANGED <<handed, order, role, script, tracked, before, database, phase>>
    PROVE  IInv'
<1> DEFINE n == Len(findings)
<1>1. /\ at \in Nat /\ at \in Files /\ order[at] = at /\ at <= NumFiles /\ NumFiles \in Nat
      /\ role[at] = "broken" \/ at = NumFiles
  BY Place, FilesAre DEF IInv, Shape
<1>2. /\ findings' \in Seq(Findings) /\ n \in Nat /\ Len(findings') = n + 1
      /\ DOMAIN findings = 1 .. n /\ DOMAIN findings' = 1 .. n + 1
      /\ \A k \in 1 .. n : findings'[k] = findings[k]
      /\ findings'[n + 1].file = at /\ findings'[n + 1].rule = 27 /\ findings'[n + 1].rev = "UNKNOWN"
  <2>1. findings \in Seq(Findings) /\ n \in Nat
    BY DEF IInv
  <2>2. /\ Unread(at) \in Findings /\ Unread(at).file = at
        /\ Unread(at).rule = 27 /\ Unread(at).rev = "UNKNOWN"
    BY <1>1, <2>1, UnreadIs
  <2> QED BY <1>1, <2>1, <2>2, OneMore
<1>3. script \in Seq(Script) /\ Len(script) \in Nat /\ DOMAIN script = 1 .. Len(script)
  BY DEF IInv, Shape
<1> HIDE DEF n
<1>4. Shape'
  BY <1>1, <1>2, <1>3 DEF IInv, Shape, n
<1>5. InOrder'
  <2>1. \A k \in DOMAIN script : script[k].file \in Int
    BY <1>3, ScriptIs
  <2> QED BY <1>1, <2>1 DEF IInv, InOrder
<1>6. Chain' /\ Said' /\ Followed'
  BY SameHistory DEF IInv
<1>7. Aligned'
  <2>1. ASSUME \A f \in Files : f < at' => role[f] # "broken"
        PROVE  /\ \A k \in DOMAIN script : k \in DOMAIN findings' /\ Answers(findings'[k], script[k])
               /\ at' > NumFiles
    <3>1. \A f \in Files : f < at => role[f] # "broken"
      BY <1>1, <2>1, FilesAssumption DEF Files
    <3>2. \A k \in DOMAIN script : k \in DOMAIN findings /\ Answers(findings[k], script[k])
      BY <3>1 DEF IInv, Aligned
    <3>3. at = NumFiles
      BY <1>1, <2>1
    <3> QED BY <1>1, <1>2, <3>2, <3>3
  <2>2. ~\A k \in DOMAIN findings' : findings'[k].rev # "UNKNOWN"
    BY <1>2
  <2> QED BY <2>1, <2>2 DEF Aligned
<1>8. Answered'
  <2>1. \A k \in DOMAIN findings : k \in DOMAIN findings' /\ findings'[k] = findings[k]
    BY <1>2
  <2>2. \A k \in DOMAIN script : \E j \in DOMAIN findings' :
           findings'[j].file = script[k].file /\ findings'[j].line = script[k].line
    BY <2>1 DEF IInv, Answered
  <2>3. BrokenBefore' \subseteq BrokenBefore \cup {at}
    BY <1>1, Broken
  <2>4. \A f \in BrokenBefore' : \E j \in DOMAIN findings' :
           findings'[j].file = f /\ findings'[j].rev = "UNKNOWN"
    <3>1. n + 1 \in DOMAIN findings'
      BY <1>2
    <3> QED BY <1>2, <2>1, <2>3, <3>1 DEF IInv, Answered
  <2>5. /\ Cardinality(BrokenBefore') <= Cardinality(BrokenBefore) + 1
        /\ Cardinality(BrokenBefore') \in Nat /\ Cardinality(BrokenBefore) \in Nat
    <3>1. IsFiniteSet(BrokenBefore) /\ Cardinality(BrokenBefore) \in Nat
      BY Broken
    <3>2. /\ IsFiniteSet(BrokenBefore \cup {at})
          /\ Cardinality(BrokenBefore \cup {at}) \in {Cardinality(BrokenBefore), Cardinality(BrokenBefore) + 1}
      BY <3>1, FS_AddElement
    <3>3. /\ IsFiniteSet(BrokenBefore')
          /\ Cardinality(BrokenBefore') <= Cardinality(BrokenBefore \cup {at})
      BY <2>3, <3>2, FS_Subset
    <3>4. Cardinality(BrokenBefore') \in Nat
      BY <3>3, FS_CardinalityType
    <3> QED BY <3>1, <3>2, <3>3, <3>4
  <2>6. Len(findings') >= Len(script) + Cardinality(BrokenBefore')
    <3>1. n >= Len(script) + Cardinality(BrokenBefore)
      BY DEF IInv, Answered, n
    <3> QED BY <1>2, <1>3, <2>5, <3>1
  <2> QED BY <2>2, <2>4, <2>6 DEF Answered
<1>9. NarrowingLoses'
  BY <1>2 DEF IInv, NarrowingLoses
<1> QED BY <1>2, <1>4, <1>5, <1>6, <1>7, <1>8, <1>9 DEF IInv

LEMMA ReadStep ==
    ASSUME IInv, NEW s \in Statements, NEW line \in Lines, Read(s, line)
    PROVE  IInv'
<1>0. PICK n \in Nat, m \in Nat : n = Len(script) /\ m = Len(findings)
  <2>1. Len(script) \in Nat /\ Len(findings) \in Nat
    BY ScriptIs DEF IInv, Shape
  <2> QED BY <2>1
<1> DEFINE e == Line(s, line)
           v == Classify(s, Prior(s))
           f == Finding(v, s, Prior(s), order[at], line)
<1>1. /\ phase = "reading" /\ at <= Len(order)
      /\ at \in Files /\ at \in Int /\ order[at] = at /\ at <= NumFiles /\ NumFiles \in Nat
      /\ role[at] = "up" /\ WellNamed(s) /\ Accepts(database, s) /\ n < MaxScript
  BY <1>0, Place, FilesAssumption, StatementsAssumption DEF IInv, Shape, Read, Reading, Files
<1>2. /\ script \in Seq(Script) /\ n \in Nat /\ DOMAIN script = 1 .. n
      /\ findings \in Seq(Findings) /\ m \in Nat /\ DOMAIN findings = 1 .. m
      /\ tracked \in Schemas /\ Consistent(database) /\ database \in Database
      /\ \A k \in DOMAIN script : script[k].file \in Int /\ script[k].line \in Int
  BY <1>0, ScriptIs DEF IInv, Shape, Consistent
<1>3. line \in Nat /\ line # 0
  <2>1. \A k \in DOMAIN script : script[k] \in Script /\ script[k].line \in Nat
    <3>1. \A k \in DOMAIN script : script[k] \in Script
      BY <1>2
    <3> QED BY <3>1 DEF Script
  <2>2. DOMAIN script # {} => Len(script) \in DOMAIN script
    BY <1>2
  <2> QED BY <2>1, <2>2 DEF Lines
<1>4. Prior(s) \in Types
  BY <1>1, <1>2, Constants DEF Prior, Schemas, WellNamed, ColumnKinds
<1>5. /\ v \in Verdicts /\ f \in Findings
      /\ f.rule = v.rule /\ f.rev = v.rev /\ f.undo = v.undo /\ f.step = UndoStep(s, Prior(s))
      /\ f.file = at /\ f.line = line
  BY <1>1, <1>2, <1>3, <1>4, VerdictIs, FindingIs
<1>6. /\ e \in Script
      /\ e.s = s /\ e.file = at /\ e.line = line /\ e.found = database /\ e.known = tracked
  BY <1>1, <1>2, <1>3 DEF Line, Script
<1>7. /\ script' = Append(script, e) /\ findings' = Append(findings, f)
      /\ tracked' = Tracking(tracked, s) /\ database' = Effect(database, s)
      /\ UNCHANGED <<handed, order, at, role, before, phase>>
  BY DEF Read
<1> HIDE DEF e, f
<1>8. /\ script' \in Seq(Script) /\ Len(script') = n + 1 /\ DOMAIN script' = 1 .. n + 1
      /\ script'[n + 1] = e /\ \A k \in 1 .. n : script'[k] = script[k]
  BY <1>0, <1>2, <1>6, <1>7, OneMore
<1>9. /\ findings' \in Seq(Findings) /\ Len(findings') = m + 1 /\ DOMAIN findings' = 1 .. m + 1
      /\ findings'[m + 1] = f /\ \A k \in 1 .. m : findings'[k] = findings[k]
  BY <1>0, <1>2, <1>5, <1>7, OneMore
<1> HIDE DEF v
<1>10. Shape'
  <2>1. tracked' \in Schemas /\ Consistent(database')
    BY <1>1, <1>2, <1>7, TrackingIs, EffectConsistent
  <2>2. Len(script') <= MaxScript /\ Len(findings') <= Len(script') + at' - 1
    <3>1. m <= n + at - 1
      BY <1>0 DEF IInv, Shape
    <3>2. at \in Int /\ MaxScript \in Nat
      BY <1>1, FilesAre
    <3> QED BY <1>1, <1>2, <1>7, <1>8, <1>9, <3>1, <3>2
  <2> QED BY <1>1, <1>7, <1>8, <2>1, <2>2 DEF IInv, Shape
<1>11. InOrder'
  <2>1. \A k \in DOMAIN script' : script'[k].file <= at' /\ role'[script'[k].file] = "up"
    <3>1. \A k \in 1 .. n : script[k].file <= at /\ role[script[k].file] = "up"
      BY <1>2 DEF IInv, InOrder
    <3>2. \A k \in 1 .. n + 1 : k \in 1 .. n \/ k = n + 1
      BY <1>2
    <3> QED BY <1>1, <1>6, <1>7, <1>8, <3>1, <3>2
  <2>2. ASSUME NEW j \in DOMAIN script', NEW k \in DOMAIN script', j < k
        PROVE  \/ script'[j].file < script'[k].file
               \/ script'[j].file = script'[k].file /\ script'[j].line <= script'[k].line
    <3>1. CASE k \in 1 .. n
      <4>1. j \in 1 .. n
        BY <1>2, <1>8, <2>2, <3>1
      <4> QED BY <1>2, <1>8, <2>2, <3>1, <4>1 DEF IInv, InOrder
    <3>2. CASE k = n + 1
      <4>1. /\ j \in 1 .. n /\ n \in 1 .. n /\ script[j].file <= at /\ script[n].file <= at
            /\ script'[j] = script[j] /\ script'[k] = e
            /\ script[j].file \in Int /\ script[j].line \in Int
            /\ script[n].file \in Int /\ script[n].line \in Int
        <5>1. j \in 1 .. n /\ n \in 1 .. n
          BY <1>2, <1>8, <2>2, <3>2
        <5> QED BY <1>2, <1>8, <3>2, <5>1 DEF IInv, InOrder
      <4>2. CASE script[j].file = at
        <5>1. \/ script[j].file < script[n].file
              \/ script[j].file = script[n].file /\ script[j].line <= script[n].line
              \/ j = n
          <6>1. j \in DOMAIN script /\ n \in DOMAIN script
            BY <1>2, <4>1
          <6>2. j < n \/ j = n
            BY <1>0, <4>1
          <6> QED BY <6>1, <6>2 DEF IInv, InOrder
        <5>2. script[j].line <= script[n].line
          BY <1>1, <4>1, <4>2, <5>1
        <5>3. {i \in DOMAIN script : script[i].file = order[at]} # {}
          BY <1>1, <1>2, <4>1, <4>2
        <5>4. line \in {script[n].line, script[n].line + 1}
          BY <1>0, <5>3 DEF Lines
        <5>5. script[n].line <= line
          BY <4>1, <5>4
        <5> QED BY <1>3, <1>6, <4>1, <4>2, <5>2, <5>5
      <4>3. CASE script[j].file # at
        BY <1>1, <1>6, <4>1, <4>3
      <4> QED BY <4>2, <4>3
    <3> QED BY <1>2, <1>8, <3>1, <3>2
  <2> QED BY <2>1, <2>2 DEF InOrder
<1>12. /\ \A k \in 1 .. n + 1 : Met(k)' = Met(k) /\ MetSchema(k)' = MetSchema(k)
       /\ Met(n + 1) = database /\ MetSchema(n + 1) = tracked
       /\ Met(n + 2)' = database' /\ MetSchema(n + 2)' = tracked'
  <2>1. /\ n + 1 \notin DOMAIN script /\ n + 2 \notin DOMAIN script' /\ n + 1 \in DOMAIN script'
        /\ \A k \in 1 .. n + 1 : k \in 1 .. n \/ k = n + 1
    BY <1>2, <1>8
  <2>2. \A k \in 1 .. n : k \in DOMAIN script /\ k \in DOMAIN script'
    BY <1>2, <1>8
  <2>3. Met(n + 1)' = database /\ MetSchema(n + 1)' = tracked
    BY <1>6, <1>8, <2>1 DEF Met, MetSchema
  <2>4. \A k \in 1 .. n : Met(k)' = Met(k) /\ MetSchema(k)' = MetSchema(k)
    BY <1>8, <2>2 DEF Met, MetSchema
  <2>5. /\ Met(n + 1) = database /\ MetSchema(n + 1) = tracked
        /\ Met(n + 2)' = database' /\ MetSchema(n + 2)' = tracked'
    BY <2>1 DEF Met, MetSchema
  <2> QED BY <2>1, <2>3, <2>4, <2>5
<1>13. Chain'
  <2>1. Met(1)' = before' /\ MetSchema(1)' = NothingKnown
    BY <1>2, <1>7, <1>12 DEF IInv, Chain
  <2>2. ASSUME NEW k \in DOMAIN script'
        PROVE  /\ Consistent(script'[k].found) /\ Accepts(script'[k].found, script'[k].s)
               /\ Met(k + 1)' = Effect(script'[k].found, script'[k].s)
               /\ MetSchema(k + 1)' = Tracking(script'[k].known, script'[k].s)
    <3>1. CASE k \in 1 .. n
      <4>1. k + 1 \in 1 .. n + 1
        BY <1>2, <3>1
      <4> QED BY <1>2, <1>8, <1>12, <3>1, <4>1 DEF IInv, Chain
    <3>2. CASE k = n + 1
      <4>1. k + 1 = n + 2
        BY <1>2, <3>2
      <4> QED BY <1>1, <1>2, <1>6, <1>7, <1>8, <1>12, <3>2, <4>1
    <3> QED BY <1>2, <1>8, <3>1, <3>2
  <2> QED BY <2>1, <2>2 DEF Chain
<1>14. Said'
  <2>0. 1 .. Len(script') + 1 = 1 .. n + 2
    BY <1>0, <1>8
  <2> SUFFICES ASSUME NEW c \in Tables \X Columns, NEW i \in 1 .. n + 2
               PROVE  \/ /\ MetSchema(i)'[c] = NoType
                         /\ \A j \in 1 .. i - 1 : SaysOf(j, c)' = {}
                      \/ \E j \in 1 .. i - 1 : /\ SaysOf(j, c)' = {MetSchema(i)'[c]}
                                               /\ \A l \in j + 1 .. i - 1 : SaysOf(l, c)' = {}
    BY <2>0 DEF Said
  <2>1. \A j \in 1 .. n : SaysOf(j, c)' = SaysOf(j, c)
    BY <1>8 DEF SaysOf
  <2>2. SaysOf(n + 1, c)' = Says(s, c)
    BY <1>6, <1>8 DEF SaysOf, Says
  <2>3. \A x \in 1 .. n + 1 :
          \/ /\ MetSchema(x)[c] = NoType
             /\ \A j \in 1 .. x - 1 : SaysOf(j, c) = {}
          \/ \E j \in 1 .. x - 1 : /\ SaysOf(j, c) = {MetSchema(x)[c]}
                                   /\ \A l \in j + 1 .. x - 1 : SaysOf(l, c) = {}
    BY <1>0 DEF IInv, Said
  <2>4. CASE i \in 1 .. n + 1
    <3>1. MetSchema(i)' = MetSchema(i)
      BY <1>12, <2>4
    <3>2. \A j \in 1 .. i - 1 : j \in 1 .. n
      BY <1>2, <2>4
    <3>3. \A j \in 1 .. i - 1 : \A l \in j + 1 .. i - 1 : l \in 1 .. n
      BY <1>2, <2>4
    <3> QED BY <2>1, <2>3, <2>4, <3>1, <3>2, <3>3
  <2>5. CASE i = n + 2
    <3>1. MetSchema(i)' = Tracking(tracked, s) /\ MetSchema(n + 1) = tracked
      BY <1>7, <1>12, <2>5
    <3>2. CASE Says(s, c) = {}
      <4>1. MetSchema(i)'[c] = MetSchema(n + 1)[c]
        BY <1>1, <1>2, <3>1, <3>2, TrackingIs
      <4>2. /\ n + 1 \in 1 .. n + 1
            /\ \A j \in 1 .. i - 1 : j \in 1 .. (n + 1) - 1 \/ j = n + 1
            /\ \A j \in 1 .. (n + 1) - 1 : j \in 1 .. i - 1 /\ j \in 1 .. n
            /\ \A j \in 1 .. n : \A l \in j + 1 .. i - 1 : l \in j + 1 .. (n + 1) - 1 \/ l = n + 1
            /\ \A j \in 1 .. n : \A l \in j + 1 .. (n + 1) - 1 : l \in 1 .. n
        BY <1>2, <2>5
      <4>3. CASE MetSchema(n + 1)[c] = NoType /\ \A j \in 1 .. (n + 1) - 1 : SaysOf(j, c) = {}
        BY <2>1, <2>2, <3>2, <4>1, <4>2, <4>3
      <4>4. ASSUME NEW j \in 1 .. (n + 1) - 1, SaysOf(j, c) = {MetSchema(n + 1)[c]},
                   \A l \in j + 1 .. (n + 1) - 1 : SaysOf(l, c) = {}
            PROVE  /\ j \in 1 .. i - 1 /\ SaysOf(j, c)' = {MetSchema(i)'[c]}
                   /\ \A l \in j + 1 .. i - 1 : SaysOf(l, c)' = {}
        BY <2>1, <2>2, <3>2, <4>1, <4>2, <4>4
      <4> QED BY <2>3, <4>2, <4>3, <4>4
    <3>3. CASE Says(s, c) # {}
      <4>1. SaysOf(n + 1, c)' = {MetSchema(i)'[c]}
        BY <1>1, <1>2, <2>2, <3>1, <3>3, TrackingIs
      <4>2. n + 1 \in 1 .. i - 1 /\ \A l \in (n + 1) + 1 .. i - 1 : FALSE
        BY <1>2, <2>5
      <4> QED BY <4>1, <4>2
    <3> QED BY <3>2, <3>3
  <2> QED BY <1>2, <2>4, <2>5
<1>15. Followed'
  <2> SUFFICES ASSUME ~Renames', ~Repeats'
               PROVE  /\ \A k \in DOMAIN script' : Knows(script'[k].found, script'[k].known)
                      /\ Knows(database', tracked')
    BY DEF Followed
  <2>1. n + 1 \in DOMAIN script' /\ \A k \in DOMAIN script : k \in DOMAIN script' /\ script'[k] = script[k]
    BY <1>2, <1>8
  <2>2. ~Renames /\ s.kind \notin {"RENAME_TABLE", "RENAME_COLUMN"}
    BY <1>6, <1>8, <2>1 DEF Renames
  <2>3. ~Repeats /\ (Effect(database, s) = database => UndoStep(s, NoType).kind = "NOTHING")
    BY <1>6, <1>8, <2>1 DEF Repeats
  <2>4. (\A k \in DOMAIN script : Knows(script[k].found, script[k].known)) /\ Knows(database, tracked)
    BY <2>2, <2>3 DEF IInv, Followed
  <2>5. Knows(database', tracked')
    BY <1>1, <1>2, <1>7, <2>2, <2>3, <2>4, ToldKept
  <2>6. \A k \in DOMAIN script' : k \in DOMAIN script \/ k = n + 1
    BY <1>2, <1>8
  <2> QED BY <1>6, <1>8, <2>1, <2>4, <2>5, <2>6
<1>16. Answers(f, e)
  <2>1. PriorOf(e) = Prior(s)
    BY <1>6 DEF PriorOf, Prior
  <2> QED BY <1>5, <1>6, <2>1 DEF Answers, v
<1>17. ASSUME m = n, \A k \in DOMAIN script : Answers(findings[k], script[k])
       PROVE  /\ Len(findings') = Len(script')
              /\ \A k \in DOMAIN script' : k \in DOMAIN findings' /\ Answers(findings'[k], script'[k])
  <2>1. \A k \in 1 .. n + 1 : k \in 1 .. n \/ k = n + 1
    BY <1>2
  <2> QED BY <1>2, <1>8, <1>9, <1>16, <1>17, <2>1
<1>18. Aligned'
  <2>1. ASSUME \A i \in Files : i < at' => role'[i] # "broken"
        PROVE  /\ Len(findings') = Len(script')
               /\ \A k \in DOMAIN script' : k \in DOMAIN findings' /\ Answers(findings'[k], script'[k])
    <3>1. /\ \A k \in DOMAIN script : Answers(findings[k], script[k])
          /\ m = n \/ at > NumFiles
      BY <1>0, <1>1, <1>7, <2>1 DEF IInv, Aligned
    <3>2. m = n
      BY <1>1, <3>1
    <3> QED BY <1>17, <3>1, <3>2
  <2>2. ASSUME \A k \in DOMAIN findings' : findings'[k].rev # "UNKNOWN"
        PROVE  /\ Len(findings') = Len(script')
               /\ \A k \in DOMAIN script' : Answers(findings'[k], script'[k])
    <3>1. \A k \in DOMAIN findings : findings[k].rev # "UNKNOWN"
      <4>1. \A k \in 1 .. m : k \in 1 .. m + 1
        BY <1>2
      <4> QED BY <1>2, <1>9, <2>2, <4>1
    <3>2. m = n /\ \A k \in DOMAIN script : Answers(findings[k], script[k])
      BY <1>0, <1>1, <3>1 DEF IInv, Aligned
    <3> QED BY <1>17, <3>2
  <2> QED BY <2>1, <2>2 DEF Aligned
<1>19. Answered'
  <2>1. /\ \A k \in DOMAIN findings : k \in DOMAIN findings' /\ findings'[k] = findings[k]
        /\ m + 1 \in DOMAIN findings'
    BY <1>2, <1>9
  <2>2. BrokenBefore' = BrokenBefore
    BY <1>7 DEF BrokenBefore
  <2>3. ASSUME NEW k \in DOMAIN script'
        PROVE  \E j \in DOMAIN findings' :
                  findings'[j].file = script'[k].file /\ findings'[j].line = script'[k].line
    <3>1. CASE k \in 1 .. n
      <4>1. PICK j \in DOMAIN findings :
              findings[j].file = script[k].file /\ findings[j].line = script[k].line
        BY <1>2, <3>1 DEF IInv, Answered
      <4> QED BY <1>8, <2>1, <3>1, <4>1
    <3>2. CASE k = n + 1
      BY <1>5, <1>6, <1>8, <1>9, <2>1, <3>2
    <3> QED BY <1>2, <1>8, <3>1, <3>2
  <2>4. ASSUME NEW i \in BrokenBefore
        PROVE  \E j \in DOMAIN findings' : findings'[j].file = i /\ findings'[j].rev = "UNKNOWN"
    <3>1. PICK j \in DOMAIN findings : findings[j].file = i /\ findings[j].rev = "UNKNOWN"
      BY DEF IInv, Answered
    <3> QED BY <2>1, <3>1
  <2>5. Len(findings') >= Len(script') + Cardinality(BrokenBefore')
    <3>1. m >= n + Cardinality(BrokenBefore)
      BY <1>0 DEF IInv, Answered
    <3> QED BY <1>2, <1>8, <1>9, <2>2, <3>1, Broken
  <2> QED BY <2>2, <2>3, <2>4, <2>5 DEF Answered
<1>20. NarrowingLoses'
  <2>1. \A k \in DOMAIN script : k \in DOMAIN script' /\ script'[k] = script[k]
    BY <1>2, <1>8
  <2> SUFFICES ASSUME NEW k \in DOMAIN findings', findings'[k].rule = 6
               PROVE  \E j \in DOMAIN script' :
                         /\ script'[j].file = findings'[k].file /\ script'[j].line = findings'[k].line
                         /\ script'[j].s.kind = "ALTER_COLUMN_TYPE"
                         /\ ~Keeps(findings'[k].step.type, script'[j].s.type)
    BY DEF NarrowingLoses
  <2>2. CASE k \in 1 .. m
    <3>1. PICK j \in DOMAIN script :
            /\ script[j].file = findings[k].file /\ script[j].line = findings[k].line
            /\ script[j].s.kind = "ALTER_COLUMN_TYPE"
            /\ ~Keeps(findings[k].step.type, script[j].s.type)
      BY <1>2, <1>9, <2>2 DEF IInv, NarrowingLoses
    <3> QED BY <1>9, <2>1, <2>2, <3>1
  <2>3. CASE k = m + 1
    <3>1. /\ v.rule = 6
          /\ s.kind = "ALTER_COLUMN_TYPE" /\ ~Has(s, "CASCADE") /\ v = ClassifyConversion(s, Prior(s))
      BY <1>5, <1>9, <2>3, VerdictIs DEF v
    <3>2. CompareTypes(Prior(s), s.type) = "narrowing"
      BY <3>1, ConversionIs
    <3>3. ~Keeps(Prior(s), s.type)
      BY <1>1, <1>4, <3>2, NarrowingIsLossy DEF WellNamed
    <3>4. f.step.type = Prior(s)
      BY <1>5, <3>1, UndoIs
    <3>5. n + 1 \in DOMAIN script'
      BY <1>2, <1>8
    <3> QED BY <1>5, <1>6, <1>8, <1>9, <2>3, <3>1, <3>3, <3>4, <3>5
  <2> QED BY <1>2, <1>9, <2>2, <2>3
<1> QED BY <1>8, <1>9, <1>10, <1>11, <1>13, <1>14, <1>15, <1>18, <1>19, <1>20 DEF IInv

\* After the last file: as many findings as there are orders for.
LEMMA AllRead ==
    ASSUME IInv, phase = "reading", at > Len(order)
    PROVE  /\ at = NumFiles + 1 /\ findings \in Seq(Findings)
           /\ Len(findings) <= NumFiles + MaxScript
<1>1. order = [f \in Files |-> f] /\ Len(order) = NumFiles /\ NumFiles \in Nat /\ MaxScript \in Nat
  BY FilesAre DEF IInv, Shape
<1>2. /\ at \in 1 .. NumFiles + 1 /\ Len(script) <= MaxScript
      /\ Len(findings) <= Len(script) + at - 1 /\ Len(script) \in Nat /\ Len(findings) \in Nat
  BY DEF IInv, Shape
<1> QED BY <1>1, <1>2 DEF IInv

LEMMA ReturnStep ==
    ASSUME IInv, Return
    PROVE  IInv'
<1>0. Shape /\ script \in Seq(Script) /\ findings \in Seq(Findings)
  BY DEF IInv, Shape
<1>1. /\ phase = "reading" /\ at > Len(order) /\ phase' = "returned"
      /\ UNCHANGED <<handed, order, at, role, script, tracked, before, database>>
  BY DEF Return
<1>2. at = NumFiles + 1 /\ Len(findings) <= NumFiles + MaxScript
  BY <1>1, AllRead
<1>3. findings' \in Sorted(findings, Before)
  BY DEF Return
<1>4. /\ findings' \in Seq(Findings) /\ Len(findings') = Len(findings)
      /\ \A k \in DOMAIN findings : \E j \in DOMAIN findings' : findings'[j] = findings[k]
      /\ \A j \in DOMAIN findings' : \E k \in DOMAIN findings : findings'[j] = findings[k]
      /\ (\A j, k \in DOMAIN findings : j < k => Before(findings[j], findings[k])) => findings' = findings
  BY <1>0, <1>2, <1>3, SortedFindings
<1>5. Shape'
  BY <1>0, <1>1, <1>2, <1>4 DEF Shape
<1>6. InOrder'
  BY <1>1 DEF IInv, InOrder
<1>7. Chain' /\ Said' /\ Followed'
  BY <1>1, SameHistory DEF IInv
<1>8. Aligned'
  <2> SUFFICES ASSUME OneALine, \A k \in DOMAIN findings' : findings'[k].rev # "UNKNOWN"
               PROVE  /\ Len(findings') = Len(script)
                      /\ \A k \in DOMAIN script : Answers(findings'[k], script[k])
    BY <1>1 DEF Aligned, OneALine
  <2>1. \A k \in DOMAIN findings : findings[k].rev # "UNKNOWN"
    BY <1>4
  <2>2. /\ Len(findings) = Len(script)
        /\ \A k \in DOMAIN script : Answers(findings[k], script[k])
    BY <1>1, <2>1 DEF IInv, Aligned
  <2>3. ASSUME NEW j \in DOMAIN findings, NEW k \in DOMAIN findings, j < k
        PROVE  Before(findings[j], findings[k])
    <3>1. j \in DOMAIN script /\ k \in DOMAIN script /\ j # k
      BY <1>0, <2>2, <2>3
    <3>2. /\ findings[j].file = script[j].file /\ findings[j].line = script[j].line
          /\ findings[k].file = script[k].file /\ findings[k].line = script[k].line
      BY <2>2, <3>1 DEF Answers
    <3>3. \/ script[j].file < script[k].file
          \/ script[j].file = script[k].file /\ script[j].line <= script[k].line
      BY <2>3, <3>1 DEF IInv, InOrder
    <3>4. ~(script[j].file = script[k].file /\ script[j].line = script[k].line)
      BY <3>1 DEF OneALine
    <3>5. script[j].line \in Int /\ script[k].line \in Int
      BY <1>0, <3>1, ScriptIs
    <3> QED BY <3>2, <3>3, <3>4, <3>5 DEF Before
  <2>4. findings' = findings
    BY <1>4, <2>3
  <2> QED BY <2>2, <2>4
<1>9. Answered'
  <2>1. BrokenBefore' = BrokenBefore
    BY <1>1 DEF BrokenBefore
  <2>2. ASSUME NEW k \in DOMAIN script
        PROVE  \E j \in DOMAIN findings' :
                  findings'[j].file = script[k].file /\ findings'[j].line = script[k].line
    <3>1. PICK i \in DOMAIN findings :
            findings[i].file = script[k].file /\ findings[i].line = script[k].line
      BY DEF IInv, Answered
    <3>2. PICK j \in DOMAIN findings' : findings'[j] = findings[i]
      BY <1>4
    <3> QED BY <3>1, <3>2
  <2>3. ASSUME NEW f \in BrokenBefore
        PROVE  \E j \in DOMAIN findings' : findings'[j].file = f /\ findings'[j].rev = "UNKNOWN"
    <3>1. PICK i \in DOMAIN findings : findings[i].file = f /\ findings[i].rev = "UNKNOWN"
      BY DEF IInv, Answered
    <3>2. PICK j \in DOMAIN findings' : findings'[j] = findings[i]
      BY <1>4
    <3> QED BY <3>1, <3>2
  <2> QED BY <1>1, <1>4, <2>1, <2>2, <2>3 DEF IInv, Answered
<1>10. NarrowingLoses'
  <2> SUFFICES ASSUME NEW k \in DOMAIN findings', findings'[k].rule = 6
               PROVE  \E j \in DOMAIN script :
                         /\ script[j].file = findings'[k].file /\ script[j].line = findings'[k].line
                         /\ script[j].s.kind = "ALTER_COLUMN_TYPE"
                         /\ ~Keeps(findings'[k].step.type, script[j].s.type)
    BY <1>1 DEF NarrowingLoses
  <2>1. PICK i \in DOMAIN findings : findings'[k] = findings[i]
    BY <1>4
  <2> QED BY <2>1 DEF IInv, NarrowingLoses
<1> QED BY <1>4, <1>5, <1>6, <1>7, <1>8, <1>9, <1>10 DEF IInv

LEMMA SortStep ==
    ASSUME IInv, Sort
    PROVE  IInv'
<1>1. /\ phase = "handed" /\ phase' = "reading" /\ handed \in Bijection(Files, Files)
      /\ UNCHANGED <<handed, at, role, script, tracked, before, database, findings>>
  BY DEF Sort, IInv, Shape
<1>2. order' \in Sorted(handed, <)
  BY DEF Sort
<1>3. order' = [f \in Files |-> f]
  BY <1>1, <1>2, SortedFiles
<1>4. Shape' /\ findings' \in Seq(Findings)
  BY <1>1, <1>3 DEF IInv, Shape
<1>5. InOrder'
  BY <1>1 DEF IInv, InOrder
<1>6. Chain' /\ Said' /\ Followed'
  BY <1>1, SameHistory DEF IInv
<1>7. Aligned'
  BY <1>1 DEF IInv, Aligned, OneALine
<1>8. Answered' /\ NarrowingLoses'
  BY <1>1 DEF IInv, Answered, BrokenBefore, NarrowingLoses
<1> QED BY <1>4, <1>5, <1>6, <1>7, <1>8 DEF IInv

LEMMA StandStill ==
    ASSUME IInv, UNCHANGED vars
    PROVE  IInv'
<1> USE DEF vars
<1>1. Shape' /\ InOrder' /\ findings' \in Seq(Findings)
  BY DEF IInv, Shape, InOrder
<1>2. Chain' /\ Said' /\ Followed'
  BY SameHistory DEF IInv
<1>3. Aligned'
  BY DEF IInv, Aligned, OneALine
<1>4. Answered' /\ NarrowingLoses'
  BY DEF IInv, Answered, BrokenBefore, NarrowingLoses
<1> QED BY <1>1, <1>2, <1>3, <1>4 DEF IInv

\* The inductive invariant: while files are read, findings and statements
\* stand at the same places, every statement met what the ones before it left,
\* and the schema is what they said last of each column.
THEOREM Invariance == Spec => []IInv
<1>1. Init => IInv
  BY FreshInv DEF Init, Fresh
<1>2. IInv /\ [Next]_vars => IInv'
  <2> SUFFICES ASSUME IInv, [Next]_vars PROVE IInv'
    OBVIOUS
  <2>1. CASE Sort
    BY <2>1, SortStep
  <2>2. CASE PassOver
    BY <2>2, PassOverStep DEF PassOver, Reading
  <2>3. CASE Unparsable
    BY <2>3, UnreadStep DEF Unparsable, Reading
  <2>4. CASE Interrupted
    BY <2>4, UnreadStep DEF Interrupted, Reading
  <2>5. CASE EndOfFile
    BY <2>5, PassOverStep DEF EndOfFile, Reading
  <2>6. CASE Return
    BY <2>6, ReturnStep
  <2>7. CASE Cancelled
    <3>1. Fresh'
      BY <2>7 DEF Cancelled, Fresh, IInv, Shape
    <3>2. (Fresh => IInv)'
      BY FreshInv, PTL
    <3> QED BY <3>1, <3>2
  <2>8. ASSUME NEW s \in Statements, NEW line \in Lines, Read(s, line)
        PROVE  IInv'
    BY <2>8, ReadStep
  <2>9. CASE UNCHANGED vars
    BY <2>9, StandStill
  <2> QED BY <2>1, <2>2, <2>3, <2>4, <2>5, <2>6, <2>7, <2>8, <2>9 DEF Next
<1> QED BY <1>1, <1>2, PTL DEF Spec

-----------------------------------------------------------------------------
(* The theorems. *)

\* The files are read in path order, the database refuses nothing of what is
\* read, and every finding carries a rule and a reversibility of the table.
THEOREM Typing == Spec => []TypeOK
<1>1. IInv => TypeOK
  <2> SUFFICES ASSUME IInv PROVE TypeOK
    OBVIOUS
  <2>1. {handed, order} \subseteq {<< >>} \cup Bijection(Files, Files)
    BY FilesAre DEF IInv, Shape
  <2>2. \A k \in DOMAIN script : script[k].s \in Statements /\ script[k].file \in Files
    BY ScriptIs DEF IInv, Shape
  <2>3. DOMAIN tracked = Tables \X Columns
    BY DEF IInv, Shape, Schemas
  <2>4. \A k \in DOMAIN findings :
          /\ findings[k].rule \in 1 .. 59 /\ findings[k].file \in Files
          /\ findings[k].rev \in {"REVERSIBLE", "COSTLY", "UNKNOWN", "IRREVERSIBLE"}
    <3>1. \A k \in DOMAIN findings : findings[k] \in Findings
      BY DEF IInv
    <3> QED BY <3>1 DEF Findings
  <2> QED BY <2>1, <2>2, <2>3, <2>4 DEF IInv, Shape, Consistent, TypeOK
<1> QED BY <1>1, Invariance, PTL

\* Nothing of the changeset goes unanswered: what Analyze returns has a
\* finding at the file and line of every statement, and an UNKNOWN for every
\* migration that did not parse, however the findings were sorted.
THEOREM Answering == Spec => []NothingUnanswered
<1>1. IInv => NothingUnanswered
  <2> SUFFICES ASSUME IInv, Returned PROVE NothingUnanswered
    BY DEF NothingUnanswered
  <2>1. at = NumFiles + 1
    BY DEF IInv, Shape, Returned
  <2>2. \A f \in Files : f < at
    BY <2>1, FilesAssumption DEF Files
  <2>3. BrokenBefore = {f \in Files : role[f] = "broken"}
    BY <2>2 DEF BrokenBefore
  <2> QED BY <2>3 DEF IInv, Answered, NothingUnanswered
<1> QED BY <1>1, Invariance, PTL

\* A conversion that the analyzer calls narrowing loses values: an F is never
\* its own invention.
THEOREM NarrowingIs == Spec => []NarrowingLoses
<1>1. IInv => NarrowingLoses
  BY DEF IInv
<1> QED BY <1>1, Invariance, PTL

\* Statements are read in the order in which they apply.
LEMMA PrecedesIs ==
    ASSUME IInv, NEW j \in DOMAIN script, NEW k \in DOMAIN script
    PROVE  Precedes(j, k) <=> j < k
<1>1. /\ j \in Int /\ k \in Int
      /\ script[j].file \in Int /\ script[k].file \in Int
  BY ScriptIs DEF IInv, Shape
<1>2. /\ j < k => script[j].file < script[k].file \/ script[j].file = script[k].file
      /\ k < j => script[k].file < script[j].file \/ script[k].file = script[j].file
  BY DEF IInv, InOrder
<1>3. j < k \/ k < j \/ j = k
  BY <1>1
<1> QED BY <1>1, <1>2, <1>3 DEF Precedes

\* What the changeset said last of a column is what the schema holds of it.
LEMMA LastSaid ==
    ASSUME IInv, NEW k \in DOMAIN script, NEW c \in Tables \X Columns
    PROVE  LET past  == {j \in DOMAIN script : Precedes(j, k) /\ SaysOf(j, c) # {}}
               last  == {j \in past : \A i \in past : i = j \/ Precedes(i, j)}
               prior == UNION {SaysOf(j, c) : j \in last}
           IN  prior \ {NoType} = {script[k].known[c]} \ {NoType}
<1> DEFINE past  == {j \in DOMAIN script : Precedes(j, k) /\ SaysOf(j, c) # {}}
           last  == {j \in past : \A i \in past : i = j \/ Precedes(i, j)}
           prior == UNION {SaysOf(j, c) : j \in last}
           t     == script[k].known[c]
<1>1. Len(script) \in Nat /\ DOMAIN script = 1 .. Len(script) /\ k \in 1 .. Len(script) + 1
  BY ScriptIs DEF IInv, Shape
<1>2. MetSchema(k)[c] = t
  BY DEF MetSchema
<1>3. \A j \in DOMAIN script : Precedes(j, k) <=> j \in 1 .. k - 1
  <2>1. \A j \in DOMAIN script : j < k <=> j \in 1 .. k - 1
    BY <1>1
  <2> QED BY <2>1, PrecedesIs
<1>4. \A j \in 1 .. k - 1 : j \in DOMAIN script
  BY <1>1
<1>5. \/ t = NoType /\ \A j \in 1 .. k - 1 : SaysOf(j, c) = {}
      \/ \E j \in 1 .. k - 1 : SaysOf(j, c) = {t} /\ \A i \in j + 1 .. k - 1 : SaysOf(i, c) = {}
  BY <1>1, <1>2 DEF IInv, Said
<1>6. CASE t = NoType /\ \A j \in 1 .. k - 1 : SaysOf(j, c) = {}
  <2>1. past = {}
    BY <1>3, <1>6
  <2>2. prior = {}
    BY <2>1
  <2> HIDE DEF prior, t
  <2>3. prior \ {NoType} = {t} \ {NoType}
    BY <1>6, <2>2
  <2> QED BY <2>3 DEF prior, t
<1>7. CASE \E j \in 1 .. k - 1 : SaysOf(j, c) = {t} /\ \A i \in j + 1 .. k - 1 : SaysOf(i, c) = {}
  <2>1. PICK j \in 1 .. k - 1 : SaysOf(j, c) = {t} /\ \A i \in j + 1 .. k - 1 : SaysOf(i, c) = {}
    BY <1>7
  <2>2. j \in past
    BY <1>3, <1>4, <2>1
  <2>3. ASSUME NEW i \in past PROVE i = j \/ Precedes(i, j)
    <3>1. i \in DOMAIN script /\ i \in 1 .. k - 1 /\ SaysOf(i, c) # {}
      BY <1>3
    <3>2. i \notin j + 1 .. k - 1
      BY <2>1, <3>1
    <3>3. i <= j
      BY <1>1, <3>1, <3>2
    <3>4. i = j \/ i < j
      BY <1>1, <3>1, <3>3
    <3> QED BY <1>4, <3>1, <3>4, PrecedesIs
  <2>4. ASSUME NEW i \in last PROVE i = j
    <3>1. i = j \/ Precedes(j, i)
      BY <2>2
    <3>2. i = j \/ Precedes(i, j)
      BY <2>3
    <3>3. i \in DOMAIN script /\ j \in DOMAIN script
      BY <1>4
    <3>4. ~(i < j /\ j < i)
      BY <1>1, <3>3
    <3> QED BY <3>1, <3>2, <3>3, <3>4, PrecedesIs
  <2> HIDE DEF past
  <2>5. last = {j}
    BY <2>2, <2>3, <2>4
  <2> HIDE DEF last
  <2>6. prior = {t}
    BY <2>1, <2>5
  <2> QED BY <2>6 DEF past, last
<1> QED BY <1>5, <1>6, <1>7

\* A conversion is judged by the last thing that the changeset, in path
\* order, said of its column, whatever order the caller knows, whichever
\* statements come between, and in however many files.
THEOREM Judging == Spec => []JudgedByItsPast
<1>1. IInv => JudgedByItsPast
  <2> SUFFICES ASSUME IInv, phase = "reading", \A f \in Files : role[f] # "broken",
                      NEW k \in DOMAIN script,
                      script[k].s.kind = "ALTER_COLUMN_TYPE", ~Has(script[k].s, "CASCADE")
               PROVE  LET c     == Home(script[k].s)
                          past  == {j \in DOMAIN script : Precedes(j, k) /\ SaysOf(j, c) # {}}
                          last  == {j \in past : \A i \in past : i = j \/ Precedes(i, j)}
                          prior == UNION {SaysOf(j, c) : j \in last}
                      IN  /\ findings[k].rule = 7 => \E t \in prior \ {NoType} :
                                                        CompareTypes(t, script[k].s.type) = "widening"
                          /\ findings[k].rule = 6 => \E t \in prior \ {NoType} :
                                                        CompareTypes(t, script[k].s.type) = "narrowing"
                          /\ findings[k].rule = 27 => \A t \in prior \ {NoType} :
                                                        CompareTypes(t, script[k].s.type) \in {"same", "unknown"}
    BY DEF JudgedByItsPast
  <2> DEFINE c     == Home(script[k].s)
             past  == {j \in DOMAIN script : Precedes(j, k) /\ SaysOf(j, c) # {}}
             last  == {j \in past : \A i \in past : i = j \/ Precedes(i, j)}
             prior == UNION {SaysOf(j, c) : j \in last}
             t     == script[k].known[c]
  <2>1. c \in Tables \X Columns
    BY ScriptIs DEF IInv, Shape, WellNamed, ColumnKinds
  <2>2. prior \ {NoType} = {t} \ {NoType}
    BY <2>1, LastSaid
  <2>3. Answers(findings[k], script[k])
    BY DEF IInv, Aligned
  <2>4. PriorOf(script[k]) = t
    BY DEF PriorOf
  <2>5. findings[k].rule = ClassifyConversion(script[k].s, t).rule
    <3> HIDE DEF t
    <3>1. findings[k].rule = Classify(script[k].s, t).rule
      BY <2>3, <2>4 DEF Answers
    <3>2. Classify(script[k].s, t) = ClassifyConversion(script[k].s, t)
      BY VerdictIs
    <3> QED BY <3>1, <3>2
  <2> HIDE DEF t, prior
  <2>6. /\ findings[k].rule = 6 => t # NoType /\ CompareTypes(t, script[k].s.type) = "narrowing"
        /\ findings[k].rule = 7 => t # NoType /\ CompareTypes(t, script[k].s.type) = "widening"
        /\ findings[k].rule = 27 => t = NoType \/ CompareTypes(t, script[k].s.type) \in {"same", "unknown"}
    BY <2>5, ConversionIs
  <2>7. /\ findings[k].rule = 7 => \E x \in prior \ {NoType} :
                                      CompareTypes(x, script[k].s.type) = "widening"
        /\ findings[k].rule = 6 => \E x \in prior \ {NoType} :
                                      CompareTypes(x, script[k].s.type) = "narrowing"
        /\ findings[k].rule = 27 => \A x \in prior \ {NoType} :
                                      CompareTypes(x, script[k].s.type) \in {"same", "unknown"}
    BY <2>2, <2>6
  <2> QED BY <2>7 DEF prior
<1> QED BY <1>1, Invariance, PTL

\* The databases that the plan of n findings leaves, from the last to the first.
Leaves(f, n) ==
    \A i \in 0 .. n : f[i] = IF i = n THEN database ELSE Perform(f[i + 1], findings[i + 1].step)

\* The plan says what they are.
LEMMA FromTheRight ==
    ASSUME NEW n \in Nat, NEW f, Leaves(f, n), NEW g, Leaves(g, n)
    PROVE  f[0] = g[0]
<1> DEFINE Apart == {k \in 1 .. n + 1 : f[k - 1] # g[k - 1]}
<1>1. SUFFICES ASSUME 1 \in Apart PROVE FALSE
  OBVIOUS
<1>2. PICK k \in Apart : \A j \in Apart : j <= k
  <2>1. Apart \in SUBSET (1 .. n + 1) /\ n + 1 \in Nat
    OBVIOUS
  <2> HIDE DEF Apart
  <2> QED BY <1>1, <2>1, GreatestExists
<1>3. k \in 1 .. n + 1 /\ k - 1 \in 0 .. n /\ f[k - 1] # g[k - 1]
  BY <1>2
<1>4. k - 1 # n
  <2>1. f[n] = g[n]
    BY DEF Leaves
  <2> QED BY <1>3, <2>1
<1>5. k + 1 \in 1 .. n + 1 /\ ~(k + 1 <= k) /\ (k + 1) - 1 = k /\ (k - 1) + 1 = k
  BY <1>3, <1>4
<1>6. k + 1 \notin Apart
  BY <1>2, <1>5
<1>7. f[k] = g[k]
  BY <1>5, <1>6
<1>8. /\ f[k - 1] = Perform(f[k], findings[k].step)
      /\ g[k - 1] = Perform(g[k], findings[k].step)
  BY <1>3, <1>4, <1>5 DEF Leaves
<1> QED BY <1>3, <1>7, <1>8

\* An undo plan every step of which can be run gives back the database that
\* the changeset met, whatever its statements, its files and their number, and
\* whatever database that was.
THEOREM Unwinding == Spec => []PlanUnwinds
<1>1. IInv => PlanUnwinds
  <2> SUFFICES ASSUME IInv, Returned, Runnable, OneALine, ~Repeats, ~Promotes, ~(Renames /\ Converts)
               PROVE  Unwound(findings) = before
    BY DEF PlanUnwinds
  <2> DEFINE n == Len(findings)
             met == [i \in 0 .. n |-> Met(i + 1)]
  <2>1. /\ n = Len(script) /\ n \in Nat /\ DOMAIN script = 1 .. n /\ DOMAIN findings = 1 .. n
        /\ \A k \in 1 .. n : Answers(findings[k], script[k])
    <3>1. \A k \in DOMAIN findings : findings[k].rev # "UNKNOWN"
      BY DEF Runnable, Complete
    <3>2. n = Len(script) /\ \A k \in DOMAIN script : Answers(findings[k], script[k])
      BY <3>1 DEF IInv, Aligned, Returned
    <3>3. n \in Nat /\ DOMAIN script = 1 .. Len(script) /\ DOMAIN findings = 1 .. n
      BY ScriptIs DEF IInv, Shape
    <3> HIDE DEF n
    <3> QED BY <3>2, <3>3
  <2> HIDE DEF n
  <2>2. ASSUME NEW k \in 1 .. n
        PROVE  Perform(Met(k + 1), findings[k].step) = Met(k)
    <3> DEFINE d == script[k].found
               s == script[k].s
               prior == PriorOf(script[k])
    <3>1. k \in DOMAIN script /\ k \in DOMAIN findings
      BY <2>1
    <3>2. Consistent(d) /\ Accepts(d, s) /\ WellNamed(s) /\ Met(k) = d /\ Met(k + 1) = Effect(d, s)
      BY <3>1, ScriptIs DEF IInv, Shape, Chain, Met
    <3>3. Classify(s, prior).rev \in {"REVERSIBLE", "COSTLY"} /\ Classify(s, prior).undo \in {"step", "note"}
      BY <2>1, <3>1 DEF Answers, Runnable, Complete
    <3>4. findings[k].step = UndoStep(s, prior)
      BY <2>1 DEF Answers
    <3>5. s.kind \notin {"ADD_CONSTRAINT_USING_INDEX", "VALIDATE_CONSTRAINT"}
      BY <3>1 DEF Promotes
    <3>6. Effect(d, s) = d => UndoStep(s, NoType).kind = "NOTHING"
      BY <3>1 DEF Repeats
    <3>7. s.kind = "ALTER_COLUMN_TYPE" => prior \in {NoType, d.column[Home(s)].type}
      <4> SUFFICES ASSUME s.kind = "ALTER_COLUMN_TYPE", prior # NoType
                   PROVE  prior = d.column[Home(s)].type
        OBVIOUS
      <4>1. ~Renames
        BY <3>1 DEF Converts
      <4>2. Knows(d, script[k].known)
        BY <3>1, <4>1 DEF IInv, Followed
      <4>3. Home(s) \in Tables \X Columns /\ prior = script[k].known[Home(s)]
        BY <3>2 DEF WellNamed, ColumnKinds, PriorOf
      <4> QED BY <4>2, <4>3 DEF Knows
    <3> HIDE DEF d, s, prior
    <3> QED BY <3>2, <3>3, <3>4, <3>5, <3>6, <3>7, StepUndone
  <2>3. met = [i \in 0 .. n |-> IF i = n THEN database ELSE Perform(met[i + 1], findings[i + 1].step)]
    <3>1. Met(n + 1) = database
      BY <2>1 DEF Met
    <3>2. ASSUME NEW i \in 0 .. n, i # n
          PROVE  Met(i + 1) = Perform(met[i + 1], findings[i + 1].step)
      <4>1. i + 1 \in 0 .. n /\ i + 1 \in 1 .. n
        BY <2>1, <3>2
      <4> QED BY <2>2, <4>1
    <3> QED BY <3>1, <3>2
  <2> DEFINE left == CHOOSE l : l = [i \in 0 .. n |-> IF i = n THEN database
                                                     ELSE Perform(l[i + 1], findings[i + 1].step)]
  <2>4. left = [i \in 0 .. n |-> IF i = n THEN database ELSE Perform(left[i + 1], findings[i + 1].step)]
    BY <2>3
  <2>5. Unwound(findings) = left[0]
    BY DEF Unwound, n
  <2>6. met[0] = before
    <3>1. 0 \in 0 .. n /\ 0 + 1 = 1
      BY <2>1
    <3> QED BY <3>1 DEF IInv, Chain
  <2>7. n \in Nat
    BY <2>1
  <2> HIDE DEF left, met
  <2>8. Leaves(left, n) /\ Leaves(met, n)
    BY <2>3, <2>4 DEF Leaves
  <2>9. left[0] = met[0]
    BY <2>7, <2>8, FromTheRight
  <2> QED BY <2>5, <2>6, <2>9
<1> QED BY <1>1, Invariance, PTL

-----------------------------------------------------------------------------
(* The contract of analyzers. *)

\* Nothing is found in what is no migration, and what is found in one that does
\* not parse is found at its first line.
Placed ==
    \A k \in DOMAIN findings :
        /\ role[findings[k].file] # "passed over"
        /\ role[findings[k].file] = "broken" => findings[k].line = 1

LEMMA OneFinding ==
    ASSUME findings \in Seq(Findings), NEW f, findings' = Append(findings, f)
    PROVE  \A k \in DOMAIN findings' :
              findings'[k] = f \/ \E j \in DOMAIN findings : findings'[k] = findings[j]
<1>1. findings \in Seq(Findings \cup {f})
  OBVIOUS
<1>2. /\ DOMAIN findings = 1 .. Len(findings) /\ DOMAIN findings' = 1 .. Len(findings) + 1
      /\ Len(findings) \in Nat /\ findings'[Len(findings) + 1] = f
      /\ \A k \in 1 .. Len(findings) : findings'[k] = findings[k]
  BY <1>1, OneMore
<1> QED BY <1>2

\* One more finding in its place.
LEMMA PlacedMore ==
    ASSUME IInv, Placed, NEW f, findings' = Append(findings, f), role' = role,
           role[f.file] # "passed over", role[f.file] = "broken" => f.line = 1
    PROVE  Placed'
<1>1. \A k \in DOMAIN findings' :
        findings'[k] = f \/ \E j \in DOMAIN findings : findings'[k] = findings[j]
  BY OneFinding DEF IInv
<1> QED BY <1>1 DEF Placed

LEMMA PlacedStep ==
    ASSUME IInv, Placed, [Next]_vars
    PROVE  Placed'
<1>1. CASE Sort \/ PassOver \/ EndOfFile \/ UNCHANGED vars
  <2>1. UNCHANGED <<role, findings>>
    BY <1>1 DEF Sort, PassOver, EndOfFile, vars
  <2> QED BY <2>1 DEF Placed
<1>2. CASE Unparsable \/ Interrupted
  <2>1. /\ phase = "reading" /\ at <= Len(order) /\ role[order[at]] \in {"up", "broken"}
        /\ findings' = Append(findings, Unread(order[at])) /\ role' = role
    BY <1>2 DEF Unparsable, Interrupted, Reading
  <2>2. order[at] \in Files /\ Len(findings) \in Nat
    BY <2>1, Place DEF IInv
  <2>3. Unread(order[at]).file = order[at] /\ Unread(order[at]).line = 1
    BY <2>2, UnreadIs
  <2> QED BY <2>1, <2>3, PlacedMore
<1>3. ASSUME NEW s \in Statements, NEW line \in Lines, Read(s, line)
      PROVE  Placed'
  <2> DEFINE v == Classify(s, Prior(s))
             f == Finding(v, s, Prior(s), order[at], line)
  <2>1. role[order[at]] = "up" /\ findings' = Append(findings, f) /\ role' = role
    BY <1>3 DEF Read, Reading
  <2>2. f.file = order[at]
    BY DEF Finding
  <2> HIDE DEF f
  <2> QED BY <2>1, <2>2, PlacedMore
<1>4. CASE Return
  <2>1. phase = "reading" /\ at > Len(order) /\ findings' \in Sorted(findings, Before) /\ role' = role
    BY <1>4 DEF Return
  <2>2. findings \in Seq(Findings) /\ Len(findings) <= NumFiles + MaxScript
    BY <2>1, AllRead
  <2>3. \A j \in DOMAIN findings' : \E k \in DOMAIN findings : findings'[j] = findings[k]
    BY <2>1, <2>2, SortedFindings
  <2> QED BY <2>1, <2>3 DEF Placed
<1>5. CASE Cancelled
  <2>1. findings' = << >>
    BY <1>5 DEF Cancelled
  <2>2. DOMAIN findings' = {}
    BY <2>1, EmptySequence
  <2> QED BY <2>2 DEF Placed
<1> QED BY <1>1, <1>2, <1>3, <1>4, <1>5 DEF Next

\* What a call that returned gave its caller: an answer to all it was owed, and
\* nothing of files that are no migrations.
Settled ==
    Returned => /\ \A o \in Owed : Contract!Answered(o, Told)
                /\ \A t \in Told : role[t.file] # "passed over" /\ t.file \in Files

LEMMA SettledInv ==
    ASSUME IInv, Placed
    PROVE  Settled
<1> SUFFICES ASSUME Returned
             PROVE  /\ \A o \in Owed : Contract!Answered(o, Told)
                    /\ \A t \in Told : role[t.file] # "passed over" /\ t.file \in Files
  BY DEF Settled
<1>1. \A k \in DOMAIN findings :
        [file |-> findings[k].file, at |-> <<findings[k].file, findings[k].line>>, rev |-> findings[k].rev] \in Told
  BY DEF Told
<1>2. at = NumFiles + 1 /\ order = [f \in Files |-> f]
  BY DEF IInv, Shape, Returned
<1>3. ASSUME NEW t \in Told
      PROVE  role[t.file] # "passed over" /\ t.file \in Files
  <2>1. PICK k \in DOMAIN findings : t.file = findings[k].file
    BY DEF Told
  <2>2. findings[k] \in Findings
    BY DEF IInv
  <2> QED BY <2>1, <2>2 DEF Placed, Findings
<1>4. ASSUME NEW o \in Owed
      PROVE  Contract!Answered(o, Told)
  <2>1. CASE \E k \in DOMAIN script : o = [at |-> <<script[k].file, script[k].line>>, legible |-> TRUE]
    <3>1. PICK k \in DOMAIN script : o = [at |-> <<script[k].file, script[k].line>>, legible |-> TRUE]
      BY <2>1
    <3>2. PICK j \in DOMAIN findings :
            findings[j].file = script[k].file /\ findings[j].line = script[k].line
      BY DEF IInv, Answered
    <3> QED BY <1>1, <3>1, <3>2 DEF Contract!Answered
  <2>2. CASE \E i \in 1 .. at - 1 : role[order[i]] = "broken" /\ o = [at |-> <<order[i], 1>>, legible |-> FALSE]
    <3>1. PICK i \in 1 .. at - 1 : role[order[i]] = "broken" /\ o = [at |-> <<order[i], 1>>, legible |-> FALSE]
      BY <2>2
    <3>2. i \in Files /\ i < at /\ order[i] = i
      BY <1>2, FilesAssumption DEF Files
    <3>3. PICK j \in DOMAIN findings : findings[j].file = i /\ findings[j].rev = "UNKNOWN"
      BY <3>1, <3>2 DEF IInv, Answered, BrokenBefore
    <3>4. findings[j].line = 1
      BY <3>1, <3>2, <3>3 DEF Placed
    <3>5. [file |-> i, at |-> <<i, 1>>, rev |-> "UNKNOWN"] \in Told
      BY <1>1, <3>3, <3>4
    <3> QED BY <3>1, <3>2, <3>5 DEF Contract!Answered
  <2> QED BY <2>1, <2>2 DEF Owed
<1> QED BY <1>3, <1>4

\* Nothing is owed before a file was read.
LEMMA OwesNothing == at = 1 /\ script = << >> => Owed = {}
<1> SUFFICES ASSUME at = 1, script = << >> PROVE Owed = {}
  OBVIOUS
<1>1. DOMAIN script = {} /\ 1 .. at - 1 = {}
  BY EmptySequence
<1> QED BY <1>1 DEF Owed

LEMMA EarlierFiles ==
    ASSUME NEW m \in Int, NEW n \in Int, m <= n, NEW j \in 1 .. m - 1
    PROVE  j \in 1 .. n - 1
OBVIOUS

\* Reading on forgets nothing.
LEMMA OwedGrows ==
    ASSUME UNCHANGED role, at \in Int, at' \in Int, at <= at',
           order' = order \/ at = 1,
           \A k \in DOMAIN script : k \in DOMAIN script' /\ script'[k] = script[k]
    PROVE  Owed \subseteq Owed'
<1> SUFFICES ASSUME NEW o \in Owed PROVE o \in Owed'
  OBVIOUS
<1>1. CASE \E k \in DOMAIN script : o = [at |-> <<script[k].file, script[k].line>>, legible |-> TRUE]
  <2>1. PICK k \in DOMAIN script : o = [at |-> <<script[k].file, script[k].line>>, legible |-> TRUE]
    BY <1>1
  <2>2. k \in DOMAIN script' /\ script'[k] = script[k]
    OBVIOUS
  <2> QED BY <2>1, <2>2 DEF Owed
<1>2. CASE \E i \in 1 .. at - 1 : role[order[i]] = "broken" /\ o = [at |-> <<order[i], 1>>, legible |-> FALSE]
  <2>1. PICK i \in 1 .. at - 1 : role[order[i]] = "broken" /\ o = [at |-> <<order[i], 1>>, legible |-> FALSE]
    BY <1>2
  <2>2. i \in 1 .. at' - 1
    BY EarlierFiles
  <2>3. order' = order /\ role' = role
    OBVIOUS
  <2> QED BY <2>1, <2>2, <2>3 DEF Owed
<1> QED BY <1>1, <1>2 DEF Owed

\* A statement more.
LEMMA ScriptGrows ==
    ASSUME script \in Seq(Script), NEW e, script' = Append(script, e)
    PROVE  \A k \in DOMAIN script : k \in DOMAIN script' /\ script'[k] = script[k]
<1>1. script \in Seq(Script \cup {e})
  OBVIOUS
<1>2. /\ DOMAIN script = 1 .. Len(script) /\ DOMAIN script' = 1 .. Len(script) + 1
      /\ Len(script) \in Nat
      /\ \A k \in 1 .. Len(script) : script'[k] = script[k]
  BY <1>1, OneMore
<1> QED BY <1>2

\* One step of the analyzer is a step of the contract, or one nobody sees.
LEMMA StepKeepsContract ==
    ASSUME IInv, Settled', [Next]_vars
    PROVE  [Contract!Next]_(Contract!vars)
<1>1. at \in Int /\ script \in Seq(Script) /\ (phase = "handed" => order = << >>)
  BY FilesAssumption DEF IInv, Shape
<1>2. ~Returned => Told = {}
  BY DEF Told
<1>3. ~Returned' => Told' = {}
  BY DEF Told
<1>4. (at = 1 /\ script = << >> => Owed = {})'
  BY OwesNothing, PTL
<1>5. CASE Sort
  <2>1. phase = "handed" /\ phase' = "reading" /\ at = 1 /\ UNCHANGED <<at, role, script>>
    BY <1>5 DEF Sort, IInv, Shape
  <2>2. Owed \subseteq Owed'
    BY <1>1, <2>1, OwedGrows
  <2>3. Contract!Look
    BY <1>2, <1>3, <2>1, <2>2 DEF Contract!Look, Returned
  <2> QED BY <2>3 DEF Contract!Next
<1>6. CASE PassOver \/ Unparsable \/ Interrupted \/ EndOfFile
  <2>1. phase = "reading" /\ phase' = "reading" /\ at' = at + 1 /\ UNCHANGED <<order, role, script>>
    BY <1>6 DEF PassOver, Unparsable, Interrupted, EndOfFile, Reading
  <2>2. Owed \subseteq Owed'
    BY <1>1, <2>1, OwedGrows
  <2>3. Contract!Look
    BY <1>2, <1>3, <2>1, <2>2 DEF Contract!Look, Returned
  <2> QED BY <2>3 DEF Contract!Next
<1>7. ASSUME NEW s \in Statements, NEW line \in Lines, Read(s, line)
      PROVE  Contract!Next
  <2>1. /\ phase = "reading" /\ phase' = "reading" /\ UNCHANGED <<order, at, role>>
        /\ script' = Append(script, Line(s, line))
    BY <1>7 DEF Read, Reading
  <2>2. \A k \in DOMAIN script : k \in DOMAIN script' /\ script'[k] = script[k]
    BY <1>1, <2>1, ScriptGrows
  <2>3. Owed \subseteq Owed'
    BY <1>1, <2>1, <2>2, OwedGrows
  <2>4. Contract!Look
    BY <1>2, <1>3, <2>1, <2>3 DEF Contract!Look, Returned
  <2> QED BY <2>4 DEF Contract!Next
<1>8. CASE Return
  <2>1. phase = "reading" /\ phase' = "returned" /\ UNCHANGED <<order, at, role, script>>
    BY <1>8 DEF Return
  <2>2. Owed \subseteq Owed'
    BY <1>1, <2>1, OwedGrows
  <2>3. Returned'
    BY <2>1 DEF Returned
  <2>4. /\ (\A o \in Owed : Contract!Answered(o, Told))'
        /\ (\A t \in Told : role[t.file] # "passed over" /\ t.file \in Files)'
    BY <2>3 DEF Settled
  <2>5. Contract!Report
    BY <2>1, <2>2, <2>4 DEF Contract!Report, Contract!Answered, Contract!Within
  <2> QED BY <2>5 DEF Contract!Next
<1>9. CASE Cancelled
  <2>1. phase \in {"handed", "reading"} /\ phase' = "failed" /\ at' = 1 /\ script' = << >> /\ role' = role
    BY <1>9 DEF Cancelled
  <2>2. Owed' = {}
    BY <1>4, <2>1
  <2>3. Contract!Fail
    BY <1>3, <2>1, <2>2 DEF Contract!Fail, Returned
  <2> QED BY <2>3 DEF Contract!Next
<1>10. CASE UNCHANGED vars
  <2>1. UNCHANGED <<order, at, role, script, findings, phase>>
    BY <1>10 DEF vars
  <2>2. Owed' = Owed
    BY <2>1 DEF Owed
  <2>3. Told' = Told
    BY <2>1 DEF Told, Returned
  <2> QED BY <2>1, <2>2, <2>3 DEF Contract!vars
<1> QED BY <1>5, <1>6, <1>7, <1>8, <1>9, <1>10 DEF Next

\* The analyzer keeps the contract of analyzer.go for any
\* statements, migrations and databases: a nil error never comes with an
\* incomplete result, nor an error with findings.
THEOREM ContractKept == Spec => ImplementsAnalyzer
<1>1. Init => Contract!Init /\ Placed
  <2> SUFFICES ASSUME Init PROVE Contract!Init /\ Placed
    OBVIOUS
  <2>1. /\ at = 1 /\ script = << >> /\ phase = "handed"
        /\ DOMAIN findings = {}
    BY EmptySequence DEF Init
  <2>2. Owed = {} /\ Told = {}
    BY <2>1, OwesNothing DEF Told
  <2> QED BY <2>1, <2>2 DEF Contract!Init, Placed
<1>2. IInv /\ Placed /\ [Next]_vars => Placed'
  BY PlacedStep
<1>3. IInv /\ Placed => Settled
  BY SettledInv
<1>4. IInv /\ Settled' /\ [Next]_vars => [Contract!Next]_(Contract!vars)
  BY StepKeepsContract
<1> QED BY <1>1, <1>2, <1>3, <1>4, Invariance, PTL DEF Spec, ImplementsAnalyzer, Contract!Spec
=============================================================================
