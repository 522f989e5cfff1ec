----------------------------- MODULE Changeset -----------------------------
(***************************************************************************)
(* A changeset as the Postgres analyzer looks for its down migrations: the *)
(* files a provider returned are paired by place and identity, and every   *)
(* up is asked whether its down exists, parses and takes back what the up  *)
(* does.  The analyzer's own pass over the up migrations is Postgres.      *)
(*                                                                         *)
(* What a content says is settled when it is first parsed.                 *)
(***************************************************************************)
EXTENDS Provider, Parser

CONSTANTS
    Stem,      \* Stem[p]: the name of p without its suffix
    Suffix,    \* Suffix[p]: ".up.sql", "down.sql", ...
    Above,     \* Above[d]: the directory d is in
    Base,      \* Base[d]: the last part of d
    Says,      \* Says[v]: the scripts that content v may be
    After      \* After[p]: the paths that sort after p

ASSUME NamesAssumption ==
    /\ DOMAIN Says = Contents /\ DOMAIN Stem = Paths /\ DOMAIN Suffix = Paths /\ After \in [Paths -> SUBSET Paths]
    /\ \A p \in Paths : Dir[p] \in DOMAIN Above \cap DOMAIN Base
    /\ \A p, q \in Paths :
          Above[Dir[p]] = Above[Dir[q]] /\ Base[Dir[p]] = Base[Dir[q]] => Dir[p] = Dir[q]
    /\ \A p \in Paths : p \notin After[p]

ASSUME SaysAssumption ==
    \A v \in Contents : \A script \in Says[v] : \A k \in DOMAIN script.trees : Grammatical(script.trees[k])

VARIABLES
    meaning,   \* meaning[v]: the script that content v is
    todo,      \* migrations not looked at yet
    ended,     \* the caller's context is over
    statuses,  \* what was found out about the others
    step

downs == <<meaning, todo, ended, statuses, step>>

-----------------------------------------------------------------------------
(* Pairs. *)

\* The two layouts: a suffix on the name, or a directory per migration.
IsDown(p)      == Suffix[p] \in {".down.sql", "down.sql"}
InDirectory(p) == Suffix[p] \in {"up.sql", "down.sql"}
IsMigration(p) == Suffix[p] \in {".up.sql", ".down.sql", "up.sql", "down.sql", ".sql"}
IsUp(p)        == IsMigration(p) /\ ~IsDown(p)

\* A migration is known by its place and its name.
Identity(p) ==
    IF InDirectory(p)
    THEN <<Above[Dir[p]], Base[Dir[p]]>>
    ELSE <<Dir[p], Stem[p]>>

Migrations == {f \in files : IsMigration(f.path)}

\* The files on one side of a migration; of several, the last in the order of
\* their paths is kept.
Last(fs) == {f \in fs : \A g \in fs : g.path \notin After[f.path]}

UpOf(id)   == Last({f \in Migrations : IsUp(f.path) /\ Identity(f.path) = id})
DownOf(id) == Last({f \in Migrations : IsDown(f.path) /\ Identity(f.path) = id})

-----------------------------------------------------------------------------
(* One call of ValidateDownMigrations. *)

NoText == Script(TRUE, TRUE, << >>)

\* What text v may turn out to be.
Readings(v) ==
    IF v = Absent THEN {NoText} ELSE IF v \in DOMAIN meaning THEN {meaning[v]} ELSE Says[v]

\* The context is looked at before anything else.
Begin ==
    /\ phase = "done" /\ step = "waiting"
    /\ step' = "validating"
    /\ todo' = {Identity(f.path) : f \in {g \in Migrations : IsUp(g.path)}}
    /\ UNCHANGED <<vars, meaning, ended, statuses>>

Refuse ==
    /\ phase = "done" /\ step = "waiting"
    /\ step' = "failed"
    /\ ended' = TRUE
    /\ UNCHANGED <<vars, meaning, todo, statuses>>

Status(id, down, exists, parses, symmetric) ==
    [up |-> {f.path : f \in UpOf(id)}, down |-> {f.path : f \in down},
     exists |-> exists, parses |-> parses, symmetric |-> symmetric]

Missing(id) ==
    /\ step = "validating" /\ id \in todo /\ DownOf(id) = {}
    /\ todo' = todo \ {id}
    /\ statuses' = statuses \cup {Status(id, {}, FALSE, FALSE, FALSE)}
    /\ UNCHANGED <<vars, meaning, ended, step>>

\* Mutant: a down that went away is read as it was.
TextOfEither(f) == IF f.is = Absent THEN f.was ELSE f.is

\* A down is read as it is at head.
Text(f) == f.is

Knowing(v, script, known) ==
    IF v = Absent THEN known
    ELSE [x \in DOMAIN known \cup {v} |-> IF x = v THEN script ELSE known[x]]

\* The three levels, each behind the one before it. A context that is over
\* makes the down, or the up, one that does not parse.
Accompanied(id) ==
    /\ step = "validating" /\ id \in todo
    /\ \E up \in UpOf(id), down \in DownOf(id) :
       \E d \in Readings(Text(down)), u \in Readings(up.is) :
       \E cut \in IF ended THEN {"down"} ELSE {"never", "down", "up"} :
          LET parses == ~d.blank /\ d.parses /\ cut # "down"
          IN  /\ Text(down) = up.is => d = u
              /\ statuses' = statuses \cup
                   {Status(id, {down}, TRUE, parses, parses /\ u.parses /\ cut # "up" /\ Symmetric(u, d))}
              /\ ended' = (cut # "never")
              /\ meaning' = Knowing(Text(down), d, Knowing(up.is, u, meaning))
    /\ todo' = todo \ {id}
    /\ UNCHANGED <<vars, step>>

Answer ==
    /\ step = "validating" /\ todo = {}
    /\ step' = "validated"
    /\ UNCHANGED <<vars, meaning, todo, ended, statuses>>

ChangesetInit ==
    /\ Init
    /\ meaning = << >> /\ todo = {} /\ ended = FALSE /\ statuses = {} /\ step = "waiting"

Validation == Begin \/ Refuse \/ Answer \/ \E id \in todo : Missing(id) \/ Accompanied(id)

ChangesetNext == (Next /\ UNCHANGED downs) \/ Validation

ChangesetSpec == ChangesetInit /\ [][ChangesetNext]_<<vars, downs>>

-----------------------------------------------------------------------------
(* What must hold. *)

Validated == step = "validated"

\* f is what the commit under review, or the directory after it, holds.
AtHead(f) ==
    /\ f.status # "REMOVED"
    /\ source = "fs" \/ \E h \in seen.head : f.is = Tree[h][f.path]

Effects(Of(_), script) == UNION {Of(script.trees[k]) : k \in DOMAIN script.trees}

\* A status that reassures is earned: a down is said to parse only if it is in
\* the reviewed tree, beside its up (or in the other layout), has text and
\* parses, and to be symmetric only if it removes every table, view, index and
\* column that its up adds. (That a down exists is said of one the change
\* removes, too, and no grade rests on it.) And no up is left without a status,
\* unless another goes by the same name in the same place.
DownsVouched ==
    Validated =>
        /\ \A s \in statuses : s.parses =>
              \E f, g \in files :
                 /\ f.path \in s.down /\ IsDown(f.path) /\ AtHead(f)
                 /\ g.path \in s.up
                 /\ InDirectory(f.path) = InDirectory(g.path) => Dir[f.path] = Dir[g.path]
                 /\ meaning[f.is].parses /\ ~meaning[f.is].blank
                 /\ s.symmetric /\ g.is # Absent =>
                       Effects(Makes, meaning[g.is]) \subseteq Effects(Unmakes, meaning[f.is])
        /\ \A f \in files :
              IsUp(f.path) /\ (\A g \in files : IsUp(g.path) /\ Identity(g.path) = Identity(f.path) => g = f) =>
                 \E s \in statuses : f.path \in s.up

\* The verdict on what a tree was lifted to. (Conversions are judged by what
\* the changeset declared; without that they are unknown.)
Graded(t) == {Classify(s, NoType).rev : s \in StatementsOf(Script(FALSE, TRUE, <<t>>))}

Severe == {"IRREVERSIBLE", "UNKNOWN"}

MetTrees == UNION {{meaning[v].trees[k] : k \in DOMAIN meaning[v].trees} : v \in DOMAIN meaning}

\* No loss is hidden by the shape of a statement: whatever destroys rows, or
\* the position of a sequence, in whichever node, command or WITH it is found,
\* is graded as that or as unknown. What an INSERT holds in its WITH, or it, the
\* query of a materialized view or an expression of an ALTER TABLE calls, is not
\* looked at, and left out here.
LossNamed ==
    \A t \in MetTrees :
        Destroys(t) /\ (t.node \notin {"InsertStmt", "CreateTableAsStmt", "AlterTableStmt"} \/ Loses(t))
            => Graded(t) \cap Severe # {}

\* "Where a statement type can carry a destructive effect ... it is classified
\* by that effect or it is UNKNOWN" (SPECIFICATION.md).
EffectNamed == \A t \in MetTrees : Destroys(t) => Graded(t) \cap Severe # {}
=============================================================================
