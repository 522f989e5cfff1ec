------------------------------ MODULE Certify ------------------------------
(***************************************************************************)
(* One call of Engine.Certify: the analyzers run in registry order, their  *)
(* findings are enriched from a production snapshot, the policy is applied *)
(* and the certificate assembled.  An analyzer may fail, any step beneath  *)
(* the recover boundary may panic, and the caller's context may be         *)
(* cancelled between any two steps.                                        *)
(*                                                                         *)
(* Everything the call reads (the changeset, the policy, the snapshot) is  *)
(* chosen in Init and never changes; paths are already in the repository's *)
(* namespace, the one every path-keyed decision is made in.                *)
(***************************************************************************)
EXTENDS Verdict, Sequences

CONSTANTS
    Paths,          \* paths of the repository
    Rules,          \* rule IDs
    NumAnalyzers,   \* how many analyzers the registry holds
    Claims,         \* Claims[a]: the paths analyzer a supports
    Validators,     \* the analyzers that also validate down migrations
    Reportable,     \* Reportable[a]: the findings analyzer a may report
    Ups,            \* the up migrations, each of which needs a down
    Dir,            \* Dir[p]: the directory of p
    MigrationNamed, \* directories below a segment named for migrations
    Sql,            \* paths ending in .sql
    Script,         \* paths ending in .py, .rb, .js or .ts
    Ignorable,      \* paths a policy's ignore list may match
    Policies,       \* policies a run may be given, NoPolicy among them
    NoPolicy,
    Snapshots,      \* snapshots a run may be given, NoSnapshot among them
    NoSnapshot

\* The registry, in name order.
Analyzers == 1 .. NumAnalyzers

ASSUME AnalyzersAssumption == NumAnalyzers \in Nat

ASSUME PathsAssumption ==
    /\ Claims \in [Analyzers -> SUBSET Paths]
    /\ Validators \subseteq Analyzers
    /\ Ups \subseteq Paths
    /\ Ignorable \subseteq Paths

\* A policy lists overrides and waivers in file order.  paths is what the
\* waiver's glob matches (every path when it has none), live says it has not
\* expired on the day of the run.
PolicyType ==
    {NoPolicy} \cup
    [overrides : Seq([rule : Rules, severity : Reversibilities \ {"REVERSIBLE"}]),
     waivers   : Seq([rule : Rules, paths : SUBSET Paths, live : BOOLEAN])]

\* A snapshot knows which columns hold nulls and how long a lock on a table
\* lasts; the subject of a finding is named by the file it is found in.
SnapshotType ==
    {NoSnapshot} \cup [nulls : SUBSET Paths, lasts : [Paths -> Bands]]

Finding ==
    [id : Nat, rule : Rules \cup {"ENGINE_PANIC"}, file : Paths \cup {""},
     rev : Reversibilities \cup {Unset}, lock : LockHazards, band : Bands, undo : BOOLEAN]

ASSUME InputsAssumption ==
    /\ Reportable \in [Analyzers -> SUBSET Finding]
    /\ Policies \subseteq PolicyType
    /\ Snapshots \subseteq SnapshotType

\* A report is finite, its findings are told apart by their ids, and no
\* analyzer knows how long a lock lasts: only a snapshot does.
ASSUME FindingsAssumption ==
    /\ \A a \in Analyzers : /\ IsFiniteSet(Reportable[a])
                             /\ \A f \in Reportable[a] : f.band = ""
    /\ \A a, b \in Analyzers : \A f \in Reportable[a], g \in Reportable[b] :
          f.id = g.id => f = g

VARIABLES
    read,        \* files handed to Certify
    enumerated,  \* every path the provider listed; {} when it did not say
    ignored,     \* paths the policy excluded before reading
    policy,
    snapshot,
    cancelled,   \* the caller's context is done
    phase,
    turn,        \* the analyzer whose turn it is
    findings,    \* what the analyzers reported, as they reported it
    downs,       \* down-migration statuses
    errors,      \* failures to complete analysis
    enriched,    \* the findings after enrichment
    cert,        \* the certificate returned
    failed       \* Certify returned an error as well

inputs == <<read, enumerated, ignored, policy, snapshot>>
vars   == <<read, enumerated, ignored, policy, snapshot, cancelled, phase,
            turn, findings, downs, errors, enriched, cert, failed>>

-----------------------------------------------------------------------------
(* Coverage: what the run was able to read, measured against what exists.  *)

Supported(p) == \E a \in Analyzers : p \in Claims[a]

\* A path that plausibly holds a migration.
Candidate(p) == p \in Sql \/ (p \in Script /\ Dir[p] \in MigrationNamed)

\* A directory is a migration directory by its name, or because an analyzer
\* claims some listed path in it.
MigrationDirectories(listed) ==
    {Dir[p] : p \in {q \in listed : Supported(q) \/ Dir[q] \in MigrationNamed}}

\* Without an enumeration the files stand in for it.
Listed == IF enumerated = {} THEN read ELSE enumerated

\* Mutant: coverage measured against what was read, not against what exists.
UnsupportedOfRead ==
    {p \in read : ~Supported(p) /\ (Dir[p] \in MigrationDirectories(read) \/ Candidate(p))}

Unsupported ==
    {p \in Listed : /\ ~(p \in read /\ Supported(p))
                    /\ Dir[p] \in MigrationDirectories(Listed) \/ Candidate(p)}

\* Mutant: a changeset with nothing to read counts as analyzed.
OutcomeOfEmpty ==
    IF Unsupported # {} /\ (\A p \in read : ~Supported(p))
    THEN "UNSUPPORTED_CONTENT" ELSE "ANALYZED"

Outcome ==
    IF \E p \in read : Supported(p) THEN "ANALYZED"
    ELSE IF Unsupported # {} THEN "UNSUPPORTED_CONTENT" ELSE "NO_CANDIDATES"

\* Mutant: what was read is all there is to cover.
CoverageOfRead == IF \A p \in read : Supported(p) THEN "FULL" ELSE "PARTIAL"

Coverage == IF Unsupported = {} THEN "FULL" ELSE "PARTIAL"

IgnoredCandidates == {p \in ignored : Candidate(p)}

-----------------------------------------------------------------------------
(* Enrichment: production context for one finding.                         *)

SizedRules == {"PG006", "PG007", "PG021"}   \* rewrites and validating scans

\* Only work that reads or rewrites the whole table lasts longer on a larger one.
ScalesWithSize(f) == f.lock \in {"FULL_SCAN", "TABLE_REWRITE"}

BandFor(f) == IF ScalesWithSize(f) THEN snapshot.lasts[f.file] ELSE ""

EnrichFinding(f) ==
    CASE f.rule \in SizedRules -> [f EXCEPT !.band = BandFor(f)]
      [] f.rule = "PG017" /\ f.file \in snapshot.nulls ->
           [f EXCEPT !.rev = IF Severity(f.rev) > Severity("WILL_FAIL")
                             THEN f.rev ELSE "WILL_FAIL"]
      [] f.rule = "PG017" /\ f.file \notin snapshot.nulls -> [f EXCEPT !.band = BandFor(f)]
      [] OTHER -> f

Enriched(fs) ==
    IF snapshot = NoSnapshot THEN fs ELSE {EnrichFinding(f) : f \in fs}

-----------------------------------------------------------------------------
(* The policy: overrides tighten first, then waivers set findings aside.   *)

Overrides == IF policy = NoPolicy THEN << >> ELSE policy.overrides

Matching(f) == {k \in DOMAIN Overrides : Overrides[k].rule = f.rule}

\* What override k finds: the verdict left by the matching override before it.
Before(f, k) ==
    LET earlier == {j \in Matching(f) : j < k}
    IN  IF earlier = {} THEN f.rev
        ELSE Overrides[CHOOSE j \in earlier : \A i \in earlier : i <= j].severity

\* Mutant: an override may lower a verdict.
WeakensNothing(f) == FALSE

\* An override that would lower a verdict makes the policy an error.
Weakens(f) ==
    \E k \in Matching(f) :
        Severity(Overrides[k].severity) < Severity(Before(f, k))

Tighten(f) == [f EXCEPT !.rev = Before(f, Len(Overrides) + 1)]

\* Mutant: a waiver reaches an UNKNOWN.
WaivableUnknown(f) == f.rev \in Reversibilities \ {"WILL_FAIL"}

\* No waiver reaches a verdict nobody understood or one that is not a risk.
Waivable(f) == f.rev \in Reversibilities \ {"UNKNOWN", "WILL_FAIL"}

Covers(w, f) == w.live /\ w.rule = f.rule /\ f.file \in w.paths

\* The waiver that fires on a finding: the first that covers it.
Fires(k, f) ==
    /\ Waivable(f)
    /\ Covers(policy.waivers[k], f)
    /\ \A j \in 1 .. k - 1 : ~Covers(policy.waivers[j], f)

\* Mutant: the waivers that fired are remembered by rule, not by position.
DecideByRule(fs) ==
    IF policy = NoPolicy
    THEN [all |-> fs, waived |-> {}, dead |-> {}]
    ELSE LET all    == {Tighten(f) : f \in fs}
             waived == {f \in all : \E k \in DOMAIN policy.waivers : Fires(k, f)}
         IN  [all    |-> all,
              waived |-> waived,
              dead   |-> {k \in DOMAIN policy.waivers :
                             \/ \A f \in waived : f.rule # policy.waivers[k].rule
                             \/ \E j \in 1 .. k - 1 :
                                   policy.waivers[j].rule = policy.waivers[k].rule}]

Decide(fs) ==
    IF policy = NoPolicy
    THEN [all |-> fs, waived |-> {}, dead |-> {}]
    ELSE LET all == {Tighten(f) : f \in fs} IN
         [all    |-> all,
          waived |-> {f \in all : \E k \in DOMAIN policy.waivers : Fires(k, f)},
          dead   |-> {k \in DOMAIN policy.waivers : \A f \in all : ~Fires(k, f)}]

-----------------------------------------------------------------------------
(* Certificates. *)

NoCert == [grade |-> "none"]

PanicFinding == [id |-> 0, rule |-> "ENGINE_PANIC", file |-> "", rev |-> "UNKNOWN",
                 lock |-> "EXCLUSIVE", band |-> "", undo |-> FALSE]

\* The verdict of a run that could not start, or that panicked: whatever it
\* had concluded is discarded.
BrokenCert(fs) ==
    [grade |-> "F", effective |-> "F", gate |-> Gate("F", "FULL", {}),
     outcome |-> "ANALYZED", coverage |-> "FULL", unanalyzed |-> {}, ignored |-> {},
     findings |-> fs, waived |-> {}, dead |-> {},
     undo |-> [complete |-> FALSE, steps |-> {}]]

ScoreOf(fs) == Score(fs, downs, errors, Outcome, Unsupported)

Certificate(decision) ==
    LET kept  == decision.all \ decision.waived
        grade == ScoreOf(decision.all)
    IN  [grade      |-> grade,
         effective  |-> IF decision.waived = {} THEN grade ELSE ScoreOf(kept),
         gate       |-> Gate(grade, Coverage, IgnoredCandidates),
         outcome    |-> Outcome,
         coverage   |-> Coverage,
         unanalyzed |-> Unsupported,
         ignored    |-> ignored,
         findings   |-> kept,
         waived     |-> decision.waived,
         dead       |-> decision.dead,
         undo       |-> UndoPlan(decision.all)]

-----------------------------------------------------------------------------
(* The run.                                                                *)

Init ==
    /\ ignored \in SUBSET Ignorable
    /\ read \in SUBSET {p \in Paths \ ignored : Supported(p)}
    /\ enumerated \in SUBSET (Paths \ ignored)
    /\ policy \in Policies
    /\ snapshot \in Snapshots
    /\ cancelled = FALSE
    /\ phase = "start"
    /\ turn = 1
    /\ findings = {} /\ enriched = {} /\ downs = {} /\ errors = {}
    /\ cert = NoCert
    /\ failed = FALSE

\* Mutant: the certificate is not assigned to the named result.
ReturnNothing(c, err) ==
    /\ phase' = "done"
    /\ failed' = err
    /\ UNCHANGED cert

Return(c, err) ==
    /\ phase' = "done"
    /\ cert' = c
    /\ failed' = err

\* The context is checked once before any analyzer runs.
Start ==
    /\ phase = "start"
    /\ \/ /\ cancelled
          /\ Return(BrokenCert({}), TRUE)
       \/ /\ ~cancelled
          /\ phase' = "run"
          /\ UNCHANGED <<cert, failed>>
    /\ UNCHANGED <<inputs, cancelled, turn, findings, downs, errors, enriched>>

NextTurn ==
    /\ turn' = turn + 1
    /\ phase' = "run"

\* What analyzer a has to go on: the files it claims.
Visible(a) == {f \in Reportable[a] : f.file \in read \cap Claims[a]}

AnalyzeOK ==
    /\ phase = "run" /\ turn \in Analyzers /\ ~cancelled
    /\ \E fs \in SUBSET Visible(turn) : findings' = findings \cup fs
    /\ IF turn \in Validators
       THEN phase' = "validate" /\ UNCHANGED turn
       ELSE NextTurn
    /\ UNCHANGED <<inputs, cancelled, downs, errors, enriched, cert, failed>>

\* An analyzer that fails reports nothing and does not stop the others; its
\* down migrations are not validated.
AnalyzeFails ==
    /\ phase = "run" /\ turn \in Analyzers
    /\ errors' = errors \cup {<<turn, "analyze">>}
    /\ NextTurn
    /\ UNCHANGED <<inputs, cancelled, findings, downs, enriched, cert, failed>>

\* A down migration that does not exist is never parsed.
DownStatuses(p) ==
    {d \in [up : {p}, exists : BOOLEAN, parses : BOOLEAN] : d.parses => d.exists}

ValidateOK ==
    /\ phase = "validate" /\ ~cancelled
    /\ \E ds \in [Ups \cap read \cap Claims[turn] ->
                     UNION {DownStatuses(p) : p \in Ups}] :
          /\ \A p \in DOMAIN ds : ds[p] \in DownStatuses(p)
          /\ downs' = downs \cup {ds[p] : p \in DOMAIN ds}
    /\ NextTurn
    /\ UNCHANGED <<inputs, cancelled, findings, errors, enriched, cert, failed>>

ValidateFails ==
    /\ phase = "validate"
    /\ errors' = errors \cup {<<turn, "validate">>}
    /\ NextTurn
    /\ UNCHANGED <<inputs, cancelled, findings, downs, enriched, cert, failed>>

Enrich ==
    /\ phase = "run" /\ turn \notin Analyzers
    /\ enriched' = Enriched(findings)
    /\ phase' = "decide"
    /\ UNCHANGED <<inputs, cancelled, turn, findings, downs, errors, cert, failed>>

\* Policy, outcome, score and certificate: one run of sequential code that
\* consults nothing the environment can still change.
Conclude ==
    /\ phase = "decide"
    /\ IF \E f \in enriched : Weakens(f)
       THEN Return(BrokenCert({}), TRUE)
       ELSE Return(Certificate(Decide(enriched)), errors # {})
    /\ UNCHANGED <<inputs, cancelled, turn, findings, downs, errors, enriched>>

\* A panic anywhere beneath the recover boundary.
Panic ==
    /\ phase # "done"
    /\ Return(BrokenCert({PanicFinding}), TRUE)
    /\ UNCHANGED <<inputs, cancelled, turn, findings, downs, errors, enriched>>

\* The caller's context ends: a timeout or a shutdown. Nothing looks at it
\* once the analyzers are through.
Cancel ==
    /\ phase \in {"start", "run", "validate"} /\ ~cancelled
    /\ cancelled' = TRUE
    /\ UNCHANGED <<inputs, phase, turn, findings, downs, errors, enriched, cert, failed>>

Analyze  == AnalyzeOK \/ AnalyzeFails
Validate == ValidateOK \/ ValidateFails

Work == Start \/ Analyze \/ Validate \/ Enrich \/ Conclude
Next == Work \/ Panic \/ Cancel

Spec == Init /\ [][Next]_vars

\* Certify is a plain call: the goroutine that makes it keeps running. Nothing
\* is assumed of the panic or of the context.
FairSpec == Spec /\ WF_vars(Work)

-----------------------------------------------------------------------------
(* What must hold. *)

DownStatus == [up : Ups, exists : BOOLEAN, parses : BOOLEAN]

Certificates ==
    [grade : Grades, effective : Grades, gate : GateStatuses, outcome : Outcomes,
     coverage : Coverages, unanalyzed : SUBSET Paths, ignored : SUBSET Paths,
     findings : SUBSET Finding, waived : SUBSET Finding, dead : SUBSET Nat,
     undo : [complete : BOOLEAN, steps : SUBSET Finding]]

\* Types of everything the run keeps; a certificate exists exactly when the
\* call has returned (Engine.Certify never returns without one).
TypeOK ==
    /\ read \subseteq Paths /\ enumerated \subseteq Paths /\ ignored \subseteq Paths
    /\ policy \in PolicyType /\ snapshot \in SnapshotType
    /\ cancelled \in BOOLEAN /\ failed \in BOOLEAN
    /\ phase \in {"start", "run", "validate", "decide", "done"}
    /\ turn \in Nat
    /\ findings \subseteq Finding /\ enriched \subseteq Finding
    /\ downs \subseteq DownStatus
    /\ errors \subseteq (Analyzers \X {"analyze", "validate"})
    /\ IF phase = "done" THEN cert \in Certificates ELSE cert = NoCert

Done == phase = "done"

\* PASS is the only verdict an agent may merge on.  It is never given unless
\* every analyzer completed, every listed path that an analyzer claims or that
\* could hold a migration was read by an analyzer that claims it, the policy
\* hid no candidate, and no analyzer reported anything but a reversible change
\* under a short lock - whatever a waiver or a snapshot said about it
\* afterwards.
PassMeansVouched ==
    Done /\ cert.gate = "PASS" =>
        /\ ~failed /\ errors = {}
        /\ \A p \in Listed :
              Candidate(p) \/ Dir[p] \in MigrationNamed \/ Supported(p) =>
                  \E a \in Analyzers : p \in read \cap Claims[a]
        /\ \A p \in ignored : ~Candidate(p)
        /\ \A f \in findings : f.rev = "REVERSIBLE" /\ f.lock \in {"NONE", "SHORT"}
        /\ \A d \in downs : d.parses

\* An analysis that broke anywhere - an analyzer, a validator, a panic, the
\* policy, a cancelled context - is an F on every axis and an error as well.
BrokenMeansF ==
    Done /\ (failed \/ errors # {}) =>
        failed /\ cert.grade = "F" /\ cert.effective = "F" /\ cert.gate = "FAIL"

\* No waiver reaches a statement production proves will not apply, nor one
\* nobody understood unless an override has already given it a name: the
\* grade CI compares stays F.
WaiverStopsAtUnknown ==
    Done /\ (\E f \in enriched : \/ f.rev = "WILL_FAIL"
                                 \/ f.rev = "UNKNOWN" /\ Matching(f) = {})
        => cert.effective = "F"

\* "No configuration moves it": policy and snapshot together never lift the
\* grade above what the findings alone, as the analyzers reported them, earn,
\* and nothing but a waiver that fired parts the grade CI compares from it.
GradeNeverLifted ==
    Done /\ ~failed =>
        /\ Rank(cert.grade) <= Rank(ScoreOf(findings))
        /\ cert.grade # cert.effective => cert.waived # {}

\* The undo plan never claims to be complete when an analyzer reported a
\* change with no reverse, waived ones included. (A verdict outside the
\* enumeration fails the grade, and is not looked at by the plan.)
UndoPlanHonest ==
    Done /\ cert.undo.complete =>
        \A f \in findings : f.rev \in {"REVERSIBLE", "COSTLY", Unset}

\* A run that read nothing an analyzer claims has no grade to give: it is
\* N/A, or F because it broke; never a measured grade, never PASS.
NothingReadNeverGraded ==
    Done /\ (\A p \in read : ~Supported(p)) =>
        /\ cert.gate # "PASS"
        /\ cert.grade = "N/A" \/ (cert.grade = "F" /\ failed)

\* A waiver reported dead could be deleted without changing the verdict.
DeadWaiversAreDead ==
    Done /\ policy # NoPolicy /\ ~failed =>
        cert.waived = {f \in Decide(enriched).all :
                          Waivable(f) /\ \E k \in DOMAIN policy.waivers \ cert.dead :
                                            Covers(policy.waivers[k], f)}

\* Grade, coverage, outcome, gate and error: what the exit code and the
\* action's outputs are made from.
Assessment ==
    [grade |-> cert.grade, effective |-> cert.effective, gate |-> cert.gate,
     outcome |-> cert.outcome, coverage |-> cert.coverage, broken |-> failed]

Promised ==
    INSTANCE Promise WITH
        evidence <- findings,
        trouble  <- errors # {},
        answer   <- IF Done THEN Assessment ELSE NoCert

\* The call keeps what callers are promised: it answers, once, with axes that
\* never contradict each other (no incomplete or broken run is graded, PASS
\* means A, waivers only raise), and no failure, evidence or verdict seen on
\* the way is ever graded away.
ImplementsPromise == Promised!Spec
=============================================================================
