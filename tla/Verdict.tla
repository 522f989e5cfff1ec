------------------------------ MODULE Verdict ------------------------------
(***************************************************************************)
(* The vocabulary of a certificate and the scoring rules: what a finding   *)
(* is, which grade a set of findings earns, and what the merge gate makes  *)
(* of a grade.  Pure operators over records; every engine module uses them.*)
(*                                                                         *)
(* A finding is a record [id, rule, file, rev, lock, band, undo]: id tells  *)
(* two findings of one report apart (the code keeps a slice and sorts it,  *)
(* so the order carries no information), undo says whether it has a step. *)
(***************************************************************************)
EXTENDS Integers, FiniteSets

-----------------------------------------------------------------------------
(* Verdicts on one change. *)

Reversibilities == {"REVERSIBLE", "COSTLY", "UNKNOWN", "IRREVERSIBLE", "WILL_FAIL"}

\* A verdict nobody set. It is not a value of the enumeration and sorts above
\* every one that is.
Unset == "UNSET"

Severity(r) ==
    CASE r = "REVERSIBLE"   -> 0
      [] r = "COSTLY"       -> 1
      [] r = "UNKNOWN"      -> 2
      [] r = "IRREVERSIBLE" -> 3
      [] r = "WILL_FAIL"    -> 4
      [] OTHER              -> 5

LockHazards == {"NONE", "SHORT", "FULL_SCAN", "TABLE_REWRITE", "EXCLUSIVE"}

LockSeverity(l) ==
    CASE l = "NONE"          -> 0
      [] l = "SHORT"         -> 1
      [] l = "FULL_SCAN"     -> 2
      [] l = "TABLE_REWRITE" -> 3
      [] l = "EXCLUSIVE"     -> 4
      [] OTHER               -> 5

\* How long the lock is held, from a production snapshot; "" when none spoke.
Bands == {"", "NEGLIGIBLE", "NOTICEABLE", "DISRUPTIVE", "OUTAGE"}

BandCap(b) ==
    CASE b = "DISRUPTIVE" -> {"B"}
      [] b = "OUTAGE"     -> {"C"}
      [] OTHER            -> {}

-----------------------------------------------------------------------------
(* Grades. *)

Measured == {"A", "B", "C", "F"}
Grades   == Measured \cup {"N/A"}

Rank(g) ==
    CASE g = "F" -> 0
      [] g = "C" -> 1
      [] g = "B" -> 2
      [] g = "A" -> 3
      [] OTHER   -> -1

\* Grade.Cap folded over a set of grades: caps commute, so what remains is the
\* worst of them.
Worst(gs) == CHOOSE g \in gs : \A h \in gs : Rank(g) <= Rank(h)

Outcomes     == {"ANALYZED", "NO_CANDIDATES", "UNSUPPORTED_CONTENT"}
Coverages    == {"FULL", "PARTIAL"}
GateStatuses == {"PASS", "FAIL", "NOT_APPLICABLE"}

\* The merge gate handed to autonomous agents.
Gate(g, coverage, ignoredCandidates) ==
    CASE g = "N/A" -> "NOT_APPLICABLE"
      [] g = "A" /\ coverage = "FULL" /\ ignoredCandidates = {} -> "PASS"
      [] OTHER -> "FAIL"

-----------------------------------------------------------------------------
(* Scoring. *)

\* A finding that forces grade F: a verdict outside the enumeration does too.
IsBlocking(f) ==
    \/ f.rev \notin Reversibilities
    \/ f.rev \in {"IRREVERSIBLE", "UNKNOWN", "WILL_FAIL"}

Costly(fs) == {f \in fs : f.rev = "COSTLY"}

\* Every migration has a down migration that exists and parses. Symmetry is
\* advisory and never reaches the grade.
DownSound(downs) == \A d \in downs : d.exists /\ d.parses

LockAtLeast(fs, l) == \E f \in fs : LockSeverity(f.lock) >= LockSeverity(l)

Assigned(fs) ==
    CASE Cardinality(Costly(fs)) >= 3 -> "C"
      [] Cardinality(Costly(fs)) \in 1 .. 2 -> "B"
      [] OTHER -> "A"

\* Every ceiling that applies to an analyzed changeset, the A row included.
Ceilings(fs, downs) ==
    (UNION {BandCap(f.band) : f \in fs})
        \cup (IF DownSound(downs) THEN {} ELSE {"C"})
        \cup (IF LockAtLeast(fs, "TABLE_REWRITE") THEN {"B"} ELSE {})
        \cup (IF \/ \E f \in fs : f.rev # "REVERSIBLE"
                 \/ LockAtLeast(fs, "FULL_SCAN")
                 \/ ~DownSound(downs)
              THEN {"B"} ELSE {})

MeasuredGrade(fs, downs) == Worst({Assigned(fs)} \cup Ceilings(fs, downs))

\* Mutant: failures are not looked at.
ScoreAnyway(fs, downs, errors, outcome, unsupported) ==
    IF \E f \in fs : IsBlocking(f) THEN "F"
    ELSE IF outcome # "ANALYZED" THEN "N/A"
    ELSE IF unsupported # {} THEN "F" ELSE MeasuredGrade(fs, downs)

\* score: failures first, then blocking findings, then what the run could do.
Score(fs, downs, errors, outcome, unsupported) ==
    CASE errors # {} -> "F"
      [] errors = {} /\ (\E f \in fs : IsBlocking(f)) -> "F"
      [] errors = {} /\ (\A f \in fs : ~IsBlocking(f)) ->
           (CASE outcome = "ANALYZED" ->
                   IF unsupported # {} THEN "F" ELSE MeasuredGrade(fs, downs)
              [] outcome \in {"NO_CANDIDATES", "UNSUPPORTED_CONTENT"} -> "N/A"
              [] OTHER -> "F")

-----------------------------------------------------------------------------
(* What a caller of the engine has to go on: the fields of a certificate   *)
(* that exit codes and outputs are made from, and whether Certify returned *)
(* an error beside it.                                                     *)

Assessments ==
    {v \in [grade : Grades, effective : Grades, gate : GateStatuses,
            outcome : Outcomes, coverage : Coverages, broken : BOOLEAN] :
        /\ v.outcome = "NO_CANDIDATES" => v.coverage = "FULL"
        /\ v.outcome = "UNSUPPORTED_CONTENT" => v.coverage = "PARTIAL"
        /\ v.broken => v.grade = "F"
        /\ ~v.broken => (v.grade = "N/A" <=> v.outcome # "ANALYZED")
        /\ v.coverage = "PARTIAL" => v.grade \in {"F", "N/A"}
        /\ v.grade \in {"N/A"} \/ v.coverage = "PARTIAL" \/ v.broken => v.effective = v.grade
        /\ Rank(v.grade) <= Rank(v.effective)
        /\ v.gate = "PASS" => v.grade = "A"
        /\ v.gate = "NOT_APPLICABLE" <=> v.grade = "N/A"}

-----------------------------------------------------------------------------
(* The undo plan: replaced as a whole when any finding has no reverse. *)

\* Mutant: only IRREVERSIBLE spoils the plan.
UnreversibleByLetter(fs) == {f \in fs : f.rev = "IRREVERSIBLE"}

Unreversible(fs) == {f \in fs : f.rev \in {"IRREVERSIBLE", "UNKNOWN", "WILL_FAIL"}}

UndoPlan(fs) ==
    IF Unreversible(fs) # {}
    THEN [complete |-> FALSE, steps |-> Unreversible(fs)]
    ELSE [complete |-> TRUE,  steps |-> {f \in fs : f.undo}]
=============================================================================
