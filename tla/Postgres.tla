------------------------------ MODULE Postgres ------------------------------
(***************************************************************************)
(* The Postgres analyzer: up migrations in path order, each statement      *)
(* classified by the rule table and then applied to a schema that tracks   *)
(* the column types the changeset has declared, for a conversion can only  *)
(* be judged against the type it replaces.  The findings are sorted, and   *)
(* the engine's undo plan walks them backwards.                            *)
(*                                                                         *)
(* A database runs the same statements beside the analyzer, which never    *)
(* looks at it.  Names are already folded to lower case and stripped of    *)
(* their schema, as the tracker keys them.  Files are numbered in path     *)
(* order; the statements of one are chosen as they are read.               *)
(***************************************************************************)
EXTENDS PostgresRules, FiniteSets, SequencesExt

CONSTANTS
    NumFiles,    \* migration files of the changeset
    Statements,  \* statements a migration may contain
    Databases,   \* databases a changeset may meet
    MaxScript    \* bound on the statements read

ASSUME FilesAssumption == NumFiles \in Nat /\ MaxScript \in Nat

\* No table is called what stands for no table, and no column what stands for
\* the whole of one.
ASSUME NamesAssumption == "none" \notin Tables /\ Whole \notin Columns

ASSUME StatementsAssumption == \A s \in Statements : WellNamed(s)

ASSUME DatabasesAssumption == \A d \in Databases : Consistent(d)

Files == 1 .. NumFiles

\* An up migration that parses; one that does not, or is refused before the
\* parser's stack is at risk; a down migration, a removed file or no .sql.
Roles == {"up", "broken", "passed over"}

VARIABLES
    handed,    \* the files in the order the caller passed them
    order,     \* the files in the order they are read
    at,        \* which of them is being read
    role,      \* role[f]
    script,    \* the statements read so far: file, line, and (history, for the
               \* properties) the database and the schema each of them found
    tracked,   \* the schema: the type each column was last known to have
    before,    \* the database the changeset meets
    database,  \* and what the statements read so far make of it
    findings,
    phase

vars == <<handed, order, at, role, script, tracked, before, database, findings, phase>>

-----------------------------------------------------------------------------
(* The undo step of a finding, as a statement. *)

\* What a finding's undo does to the database; NOTHING stands for a note, and
\* for what is undone beside the tables.
UndoStep(s, prior) ==
    CASE s.kind = "CREATE_TABLE"      -> Plain("DROP_TABLE", "", s.rel)
      [] s.kind = "ADD_COLUMN"        -> Plain("DROP_COLUMN", s.rel, s.obj)
      [] s.kind = "ALTER_COLUMN_TYPE" -> [Plain("ALTER_COLUMN_TYPE", s.rel, s.obj) EXCEPT !.type = prior]
      [] s.kind = "RENAME_TABLE"      -> [Plain("RENAME_TABLE", "", s.new) EXCEPT !.new = s.obj]
      [] s.kind = "RENAME_COLUMN"     -> [Plain("RENAME_COLUMN", s.rel, s.new) EXCEPT !.new = s.obj]
      [] s.kind = "CREATE_INDEX"      -> Plain("DROP_INDEX", "", s.obj)
      [] s.kind = "SET_NOT_NULL"      -> Plain("DROP_NOT_NULL", s.rel, s.obj)
      [] s.kind = "DROP_NOT_NULL"     -> Plain("SET_NOT_NULL", s.rel, s.obj)
      [] s.kind = "SET_DEFAULT"       -> Plain("DROP_DEFAULT", s.rel, s.obj)
      [] s.kind \in {"ADD_CONSTRAINT", "ADD_CONSTRAINT_USING_INDEX", "VALIDATE_CONSTRAINT"} ->
           Plain("DROP_CONSTRAINT", s.rel, s.obj)
      [] OTHER -> Plain("NOTHING", "", "")

Finding(v, s, prior, file, line) ==
    [rule |-> v.rule, rev |-> v.rev, lock |-> v.lock, undo |-> v.undo,
     step |-> UndoStep(s, prior), file |-> file, line |-> line, read |-> Len(findings) + 1]

-----------------------------------------------------------------------------
(* The tracked schema. *)

\* schema.apply. Types are recorded under the name the statement used.
Tracking(known, s) ==
    CASE s.kind = "CREATE_TABLE" ->
           [c \in Tables \X Columns |->
               IF c[1] = s.rel /\ s.cols[c[2]] # NoType THEN s.cols[c[2]] ELSE known[c]]
      [] s.kind \in {"ADD_COLUMN", "ALTER_COLUMN_TYPE"} -> [known EXCEPT ![Home(s)] = s.type]
      [] s.kind = "DROP_COLUMN" -> [known EXCEPT ![Home(s)] = NoType]
      [] s.kind = "DROP_TABLE" ->
           [c \in Tables \X Columns |-> IF c[1] = s.obj THEN NoType ELSE known[c]]
      [] OTHER -> known

Prior(s) == IF s.kind = "ALTER_COLUMN_TYPE" THEN tracked[Home(s)] ELSE NoType

-----------------------------------------------------------------------------
(* One call of Analyze. *)

NothingKnown == [c \in Tables \X Columns |-> NoType]

Init ==
    /\ handed \in Bijection(Files, Files)
    /\ role \in [Files -> Roles]
    /\ order = << >> /\ at = 1
    /\ script = << >> /\ findings = << >>
    /\ tracked = NothingKnown
    /\ before \in Databases /\ database = before
    /\ phase = "handed"

\* Mutant: the files are read as the caller passed them.
TakeAsHanded ==
    /\ phase = "handed"
    /\ order' = handed
    /\ phase' = "reading"
    /\ UNCHANGED <<handed, at, role, script, tracked, before, database, findings>>

\* The orders that the files, or as many findings as a call can hold, can be in.
Orders == [n \in 0 .. NumFiles + MaxScript |-> Bijection(1 .. n, 1 .. n)]

\* A sequence in an order, from the least to the greatest.
Sorted(s, Less(_, _)) ==
    {[k \in DOMAIN s |-> s[q[k]]] :
        q \in {o \in Orders[Len(s)] : \A j, k \in DOMAIN s : j < k => Less(s[o[j]], s[o[k]])}}

\* Migrations apply in path order, whatever order the caller knows.
Sort ==
    /\ phase = "handed"
    /\ order' \in Sorted(handed, <)
    /\ phase' = "reading"
    /\ UNCHANGED <<handed, at, role, script, tracked, before, database, findings>>

Reading(r) == phase = "reading" /\ at <= Len(order) /\ role[order[at]] = r

PassOver ==
    /\ Reading("passed over")
    /\ at' = at + 1
    /\ UNCHANGED <<handed, order, role, script, tracked, before, database, findings, phase>>

\* Mutant: a file that does not parse has no statements.
Overlook ==
    /\ Reading("broken")
    /\ at' = at + 1
    /\ UNCHANGED <<handed, order, role, script, tracked, before, database, findings, phase>>

Unread(f) == Finding(Unknown, Plain("NOTHING", "", ""), NoType, f, 1)

\* A file that does not parse is one UNKNOWN, and erases nothing else.
Unparsable ==
    /\ Reading("broken")
    /\ findings' = Append(findings, Unread(order[at]))
    /\ at' = at + 1
    /\ UNCHANGED <<handed, order, role, script, tracked, before, database, phase>>

\* The context ends between the check of the last file and its parsing: the
\* parser refuses, and the file counts as one that does not parse. (With files
\* left the next check ends the call: Cancelled.)
Interrupted ==
    /\ Reading("up") /\ at = Len(order)
    /\ \A k \in DOMAIN script : script[k].file # order[at]
    /\ findings' = Append(findings, Unread(order[at]))
    /\ at' = at + 1
    /\ UNCHANGED <<handed, order, role, script, tracked, before, database, phase>>

\* The line of a statement: the next one, or the line of the one before it.
\* The commands of one ALTER TABLE are statements that share a line.
Lines ==
    LET here == {k \in DOMAIN script : script[k].file = order[at]}
        last == IF here = {} THEN 0 ELSE script[Len(script)].line
    IN  {last, last + 1} \ {0}

Line(s, line) ==
    [s |-> s, file |-> order[at], line |-> line, found |-> database, known |-> tracked]

\* Mutant: the schema learns of a statement before it is classified.
ReadTracked(s, line) ==
    LET prior == IF s.kind = "ALTER_COLUMN_TYPE" THEN Tracking(tracked, s)[Home(s)] ELSE NoType
    IN  /\ Reading("up") /\ Len(script) < MaxScript
        /\ Accepts(database, s)
        /\ findings' = Append(findings, Finding(Classify(s, prior), s, prior, order[at], line))
        /\ tracked' = Tracking(tracked, s)
        /\ database' = Effect(database, s)
        /\ script' = Append(script, Line(s, line))
        /\ UNCHANGED <<handed, order, at, role, before, phase>>

\* One statement of a migration that runs: classified, then applied.
Read(s, line) ==
    /\ Reading("up") /\ Len(script) < MaxScript
    /\ Accepts(database, s)
    /\ findings' = Append(findings, Finding(Classify(s, Prior(s)), s, Prior(s), order[at], line))
    /\ tracked' = Tracking(tracked, s)
    /\ database' = Effect(database, s)
    /\ script' = Append(script, Line(s, line))
    /\ UNCHANGED <<handed, order, at, role, before, phase>>

EndOfFile ==
    /\ Reading("up")
    /\ at' = at + 1
    /\ UNCHANGED <<handed, order, role, script, tracked, before, database, findings, phase>>

\* SortFindings: by file, line and rule, otherwise as they were read.
Before(f, g) ==
    \/ f.file < g.file
    \/ f.file = g.file /\ f.line < g.line
    \/ f.file = g.file /\ f.line = g.line /\ f.rule < g.rule
    \/ f.file = g.file /\ f.line = g.line /\ f.rule = g.rule /\ f.read < g.read

Return ==
    /\ phase = "reading" /\ at > Len(order)
    /\ findings' \in Sorted(findings, Before)
    /\ phase' = "returned"
    /\ UNCHANGED <<handed, order, at, role, script, tracked, before, database>>

\* The context is looked at before every file: an error, and no findings.
Cancelled ==
    /\ \/ phase = "handed"
       \/ /\ phase = "reading" /\ at <= Len(order)
          /\ \A k \in DOMAIN script : script[k].file # order[at]
    /\ findings' = << >> /\ script' = << >>
    /\ order' = << >> /\ at' = 1
    /\ tracked' = NothingKnown
    /\ database' = before
    /\ phase' = "failed"
    /\ UNCHANGED <<handed, role, before>>

Next ==
    \/ Sort \/ PassOver \/ Unparsable \/ Interrupted \/ EndOfFile \/ Return \/ Cancelled
    \/ /\ phase = "reading" /\ at <= Len(order)
       /\ \E s \in Statements, line \in Lines : Read(s, line)

Spec == Init /\ [][Next]_vars

-----------------------------------------------------------------------------
(* The undo plan. *)

Complete == \A k \in DOMAIN findings : findings[k].rev \in {"REVERSIBLE", "COSTLY"}

\* Every step of the plan can be run as it stands.
Runnable == Complete /\ \A k \in DOMAIN findings : findings[k].undo \in {"step", "note"}

\* Mutant: the plan is walked forwards.
UnwoundForwards(fs) == FoldLeft(LAMBDA d, f : Perform(d, f.step), database, fs)

\* The database after the plan, which walks the findings backwards.
Unwound(fs) ==
    LET left[n \in 0 .. Len(fs)] ==
          IF n = Len(fs) THEN database ELSE Perform(left[n + 1], fs[n + 1].step)
    IN  left[0]

-----------------------------------------------------------------------------
(* What must hold. *)

Returned == phase = "returned"

TypeOK ==
    /\ {handed, order} \subseteq {<< >>} \cup Bijection(Files, Files)
    /\ at \in 1 .. NumFiles + 1
    /\ role \in [Files -> Roles]
    /\ \A k \in DOMAIN script : script[k].s \in Statements /\ script[k].file \in Files
    /\ DOMAIN tracked = Tables \X Columns
    /\ database.ok
    /\ \A k \in DOMAIN findings : /\ findings[k].rule \in 1 .. 59 /\ findings[k].file \in Files
                                  /\ findings[k].rev \in {"REVERSIBLE", "COSTLY", "UNKNOWN", "IRREVERSIBLE"}
    /\ phase \in {"handed", "reading", "returned", "failed"}

\* Statement k of the script says what type column c has, or that it has none.
SaysOf(k, c) ==
    LET s == script[k].s IN
    CASE s.kind = "CREATE_TABLE" /\ s.rel = c[1] /\ s.cols[c[2]] # NoType -> {s.cols[c[2]]}
      [] s.kind \in {"ADD_COLUMN", "ALTER_COLUMN_TYPE"} /\ Home(s) = c -> {s.type}
      [] s.kind = "DROP_COLUMN" /\ Home(s) = c   -> {NoType}
      [] s.kind = "DROP_TABLE" /\ s.obj = c[1]   -> {NoType}
      [] OTHER -> {}

\* Statement j comes before statement k in the order in which migrations apply.
Precedes(j, k) ==
    script[j].file < script[k].file \/ (script[j].file = script[k].file /\ j < k)

\* A conversion is judged by the last thing that the changeset, in path order,
\* said of its column, and by nothing else: not by the order in which the
\* files were passed, not by the conversion itself, not by a column that was
\* dropped meanwhile. (Before the findings are sorted, finding and statement
\* are found at the same place.)
JudgedByItsPast ==
    phase = "reading" /\ (\A f \in Files : role[f] # "broken") =>
        \A k \in DOMAIN script :
            script[k].s.kind = "ALTER_COLUMN_TYPE" /\ ~Has(script[k].s, "CASCADE") =>
                LET c     == Home(script[k].s)
                    past  == {j \in DOMAIN script : Precedes(j, k) /\ SaysOf(j, c) # {}}
                    last  == {j \in past : \A i \in past : i = j \/ Precedes(i, j)}
                    prior == UNION {SaysOf(j, c) : j \in last}
                IN  /\ findings[k].rule = 7 => \E t \in prior \ {NoType} :
                                                  CompareTypes(t, script[k].s.type) = "widening"
                    /\ findings[k].rule = 6 => \E t \in prior \ {NoType} :
                                                  CompareTypes(t, script[k].s.type) = "narrowing"
                    /\ findings[k].rule = 27 => \A t \in prior \ {NoType} :
                                                  CompareTypes(t, script[k].s.type) \in {"same", "unknown"}

\* Nothing of the changeset goes unanswered: what is returned has a finding
\* for every statement of every migration, at its file and line, and an
\* UNKNOWN for every migration that could not be read.
NothingUnanswered ==
    Returned =>
        /\ \A k \in DOMAIN script : \E j \in DOMAIN findings :
              findings[j].file = script[k].file /\ findings[j].line = script[k].line
        /\ \A f \in Files : role[f] = "broken" =>
              \E j \in DOMAIN findings : findings[j].file = f /\ findings[j].rev = "UNKNOWN"
        /\ Len(findings) >= Len(script) + Cardinality({f \in Files : role[f] = "broken"})

\* What has to be answered: the statements that were read, and the migrations
\* among those read so far that do not parse.
Owed ==
    {[at |-> <<script[k].file, script[k].line>>, legible |-> TRUE] : k \in DOMAIN script} \cup
    {[at |-> <<order[i], 1>>, legible |-> FALSE] : i \in {j \in 1 .. at - 1 : role[order[j]] = "broken"}}

Told ==
    {[file |-> findings[k].file, at |-> <<findings[k].file, findings[k].line>>, rev |-> findings[k].rev] :
        k \in {j \in DOMAIN findings : Returned}}

Contract ==
    INSTANCE Analyzer WITH
        claimed <- {f \in Files : role[f] # "passed over"},
        owed    <- Owed,
        told    <- Told,
        state   <- IF phase \in {"handed", "reading"} THEN "working" ELSE phase

\* "It must never return a nil error alongside an incomplete result"
\* (analyzer.go): what is returned has a finding at the file and line of every
\* statement of every migration and an UNKNOWN for every migration that could
\* not be read, and none of files that are no migrations; a call that is cut
\* short returns an error and nothing else.
ImplementsAnalyzer == Contract!Spec

\* A conversion between declared types that is called narrowing does lose
\* values: an F is never the analyzer's own invention.
NarrowingLoses ==
    \A k \in DOMAIN findings :
        findings[k].rule = 6 => \E j \in DOMAIN script :
            /\ script[j].file = findings[k].file /\ script[j].line = findings[k].line
            /\ script[j].s.kind = "ALTER_COLUMN_TYPE"
            /\ ~Keeps(findings[k].step.type, script[j].s.type)

Renames  == \E k \in DOMAIN script : script[k].s.kind \in {"RENAME_TABLE", "RENAME_COLUMN"}
Converts == \E k \in DOMAIN script : script[k].s.kind = "ALTER_COLUMN_TYPE"

\* The second halves of the patterns the rule table calls safe.
Promotes == \E k \in DOMAIN script :
                script[k].s.kind \in {"ADD_CONSTRAINT_USING_INDEX", "VALIDATE_CONSTRAINT"}

\* Statements that have an inverse and found their work done.
Repeats  == \E k \in DOMAIN script :
                /\ Effect(script[k].found, script[k].s) = script[k].found
                /\ UndoStep(script[k].s, NoType).kind # "NOTHING"

OneALine == \A j, k \in DOMAIN script :
                script[j].file = script[k].file /\ script[j].line = script[k].line => j = k

\* "Dropping it returns the schema to its prior state exactly" (rules.go): an
\* undo plan every step of which can be run gives back the database that the
\* changeset met, in whatever files the changes lie and whatever builds on
\* what, provided every statement has a line of its own and changes something,
\* no constraint is promoted or validated, and no conversion meets a rename
\* (which the schema does not follow; it takes four statements to be misled).
PlanUnwinds ==
    Returned /\ Runnable /\ OneALine /\ ~Repeats /\ ~Promotes /\ ~(Renames /\ Converts) =>
        Unwound(findings) = before

\* "An undo plan that destroys a pre-existing object is worse than no undo
\* plan" (RULES.md): what was there before the changeset and survived it
\* survives its plan.
PlanSpares ==
    Returned /\ Runnable => Objects(before) \cap Objects(database) \subseteq Objects(Unwound(findings))
=============================================================================
