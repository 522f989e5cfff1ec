--------------------------- MODULE CertifyProofs ---------------------------
(***************************************************************************)
(* What Certify promises for every registry, repository, policy and        *)
(* snapshot: the invariants of certify.cfg, proved from one inductive      *)
(* invariant and from facts about the scoring rules that hold for every    *)
(* set of findings: what grade A takes, and that more or worse evidence    *)
(* never scores better.                                                    *)
(***************************************************************************)
EXTENDS Certify, NaturalFacts, FiniteSetTheorems, TLAPS

-----------------------------------------------------------------------------
(* Scoring. *)

\* Of a nonempty set of measured grades, Worst picks a member that ranks
\* lowest: applying every cap in turn leaves the strictest of them.
LEMMA WorstIsLeast ==
    ASSUME NEW gs \in SUBSET Measured, gs # {}
    PROVE  /\ Worst(gs) \in gs
           /\ \A h \in gs : Rank(Worst(gs)) <= Rank(h)
<1> DEFINE Least(g) == g \in gs /\ \A h \in gs : Rank(g) <= Rank(h)
<1>1. \E g \in gs : \A h \in gs : Rank(g) <= Rank(h)
  <2>1. CASE "F" \in gs
    BY <2>1 DEF Measured, Rank
  <2>2. CASE "F" \notin gs /\ "C" \in gs
    BY <2>2 DEF Measured, Rank
  <2>3. CASE "F" \notin gs /\ "C" \notin gs /\ "B" \in gs
    BY <2>3 DEF Measured, Rank
  <2>4. CASE "F" \notin gs /\ "C" \notin gs /\ "B" \notin gs
    <3>1. gs = {"A"}
      BY <2>4 DEF Measured
    <3> QED BY <3>1 DEF Rank
  <2> QED BY <2>1, <2>2, <2>3, <2>4
<1> QED BY <1>1 DEF Worst

\* An analyzed changeset earns a measured grade, and every ceiling bites.
LEMMA MeasuredGradeType ==
    ASSUME NEW fs, NEW ds
    PROVE  /\ MeasuredGrade(fs, ds) \in Measured
           /\ MeasuredGrade(fs, ds) \in {Assigned(fs)} \cup Ceilings(fs, ds)
           /\ Rank(MeasuredGrade(fs, ds)) <= Rank(Assigned(fs))
           /\ \A c \in Ceilings(fs, ds) : Rank(MeasuredGrade(fs, ds)) <= Rank(c)
<1>1. Assigned(fs) \in Measured
  BY DEF Assigned, Measured
<1>2. Ceilings(fs, ds) \subseteq Measured
  <2>1. \A b : BandCap(b) \subseteq Measured
    BY DEF BandCap, Measured
  <2>2. UNION {BandCap(f.band) : f \in fs} \subseteq Measured
    BY <2>1
  <2> QED BY <2>2 DEF Ceilings, Measured
<1> QED BY <1>1, <1>2, WorstIsLeast DEF MeasuredGrade

\* Score always answers with a grade.
LEMMA ScoreType ==
    ASSUME NEW fs, NEW ds, NEW es, NEW o, NEW us
    PROVE  Score(fs, ds, es, o, us) \in Grades
<1>1. CASE es = {} /\ (\A f \in fs : ~IsBlocking(f)) /\ o = "ANALYZED" /\ us = {}
  BY <1>1, MeasuredGradeType DEF Score, Grades
<1>2. CASE ~(es = {} /\ (\A f \in fs : ~IsBlocking(f)) /\ o = "ANALYZED" /\ us = {})
  BY <1>2 DEF Score, Grades, Measured
<1> QED BY <1>1, <1>2

\* What the outcome, a failure and an unread file leave of a score.
LEMMA ScoreKinds ==
    ASSUME NEW fs, NEW ds, NEW es, NEW o \in Outcomes, NEW us
    PROVE  /\ es # {} => Score(fs, ds, es, o, us) = "F"
           /\ es = {} /\ o = "ANALYZED" => Score(fs, ds, es, o, us) \in Measured
           /\ es = {} /\ o = "ANALYZED" /\ us # {} => Score(fs, ds, es, o, us) = "F"
           /\ es = {} /\ o # "ANALYZED" /\ fs = {} => Score(fs, ds, es, o, us) = "N/A"
<1>1. CASE es # {}
  BY <1>1 DEF Score
<1>2. CASE es = {} /\ o # "ANALYZED"
  BY <1>2 DEF Score, Outcomes
<1>3. CASE es = {} /\ o = "ANALYZED" /\ \E f \in fs : IsBlocking(f)
  BY <1>3 DEF Score, Measured
<1>4. CASE es = {} /\ o = "ANALYZED" /\ \A f \in fs : ~IsBlocking(f)
  BY <1>4, MeasuredGradeType DEF Score, Measured
<1> QED BY <1>1, <1>2, <1>3, <1>4

\* Grade A is earned only by a run that completed, read all it was asked to,
\* and found nothing but reversible changes under a short lock.
LEMMA OnlyCleanRunsEarnA ==
    ASSUME NEW fs, NEW ds, NEW es, NEW o, NEW us,
           \A f \in fs : f.lock \in LockHazards,
           Score(fs, ds, es, o, us) = "A"
    PROVE  /\ es = {} /\ o = "ANALYZED" /\ us = {}
           /\ \A f \in fs : f.rev = "REVERSIBLE" /\ f.lock \in {"NONE", "SHORT"}
           /\ \A d \in ds : d.exists /\ d.parses
<1>1. es = {} /\ (\A f \in fs : ~IsBlocking(f))
  BY DEF Score
<1>2. o = "ANALYZED" /\ us = {} /\ MeasuredGrade(fs, ds) = "A"
  BY <1>1 DEF Score
<1>3. "B" \notin Ceilings(fs, ds)
  BY <1>2, MeasuredGradeType DEF Rank
<1>4. /\ \A f \in fs : f.rev = "REVERSIBLE"
      /\ ~LockAtLeast(fs, "FULL_SCAN")
      /\ DownSound(ds)
  BY <1>3 DEF Ceilings
<1>5. \A f \in fs : f.lock \in {"NONE", "SHORT"}
  BY <1>4 DEF LockAtLeast, LockSeverity, LockHazards
<1> QED BY <1>1, <1>2, <1>4, <1>5 DEF DownSound

-----------------------------------------------------------------------------
(* Monotonicity. *)

Verdicts == Reversibilities \cup {Unset}

\* g says of a change at least what f says of it: a verdict no milder (and
\* unset only when f's is), the same lock, and every ceiling f's lock duration
\* imposes.
AtLeastAsBad(g, f) ==
    /\ f.rev \in Verdicts /\ g.rev \in Reversibilities \cup {f.rev}
    /\ Severity(f.rev) <= Severity(g.rev)
    /\ g.lock = f.lock
    /\ BandCap(f.band) \subseteq BandCap(g.band)

LEMMA SeverityType == \A r : Severity(r) \in 0 .. 5
BY DEF Severity

\* A blocking verdict stays blocking when it gets worse, and a verdict that
\* is not REVERSIBLE does not become it.
LEMMA WorseVerdicts ==
    ASSUME NEW f, NEW g, AtLeastAsBad(g, f)
    PROVE  /\ IsBlocking(f) => IsBlocking(g)
           /\ f.rev # "REVERSIBLE" => g.rev # "REVERSIBLE"
           /\ f.rev = "COSTLY" /\ ~IsBlocking(g) => g.rev = "COSTLY"
BY DEF AtLeastAsBad, Verdicts, Unset, Reversibilities, Severity, IsBlocking

\* When every finding of fs is matched, one to one, by a finding of gs that
\* says at least as much, gs has at least as many COSTLY findings.
LEMMA CostlyGrows ==
    ASSUME NEW fs, NEW gs, IsFiniteSet(gs), NEW h \in Injection(fs, gs),
           \A f \in fs : AtLeastAsBad(h[f], f),
           \A g \in gs : ~IsBlocking(g)
    PROVE  /\ IsFiniteSet(Costly(fs)) /\ IsFiniteSet(Costly(gs))
           /\ Cardinality(Costly(fs)) <= Cardinality(Costly(gs))
<1> DEFINE k == [f \in Costly(fs) |-> h[f]]
<1>1. \A f \in Costly(fs) : h[f] \in Costly(gs)
  BY WorseVerdicts DEF Costly, Injection
<1>2. k \in Injection(Costly(fs), Costly(gs))
  BY <1>1 DEF Injection, IsInjective, Costly
<1>3. IsFiniteSet(Costly(gs))
  BY FS_Subset DEF Costly
<1> QED BY <1>2, <1>3, FS_Injection

\* Under one outcome, evidence that says at least as much never earns a
\* better grade.
LEMMA WorseEvidenceScoresNoBetter ==
    ASSUME NEW fs, NEW gs, IsFiniteSet(gs), NEW h \in Injection(fs, gs),
           \A f \in fs : AtLeastAsBad(h[f], f),
           NEW ds, NEW es, NEW us
    PROVE  Rank(Score(gs, ds, es, "ANALYZED", us)) <= Rank(Score(fs, ds, es, "ANALYZED", us))
<1> DEFINE S(x) == Score(x, ds, es, "ANALYZED", us)
<1>0. \A f \in fs : h[f] \in gs
  BY DEF Injection
<1>r. \A g : Rank(g) \in Int
  BY DEF Rank
<1>1. CASE es # {}
  <2>1. S(gs) = "F" /\ S(fs) = "F"
    BY <1>1 DEF Score
  <2> QED BY <2>1, <1>r
<1>2. CASE es = {} /\ \E g \in gs : IsBlocking(g)
  <2>1. S(gs) = "F"
    BY <1>2 DEF Score
  <2>2. S(fs) \in Measured
    <3>1. CASE (\A f \in fs : ~IsBlocking(f)) /\ us = {}
      BY <1>2, <3>1, MeasuredGradeType DEF Score
    <3>2. CASE ~((\A f \in fs : ~IsBlocking(f)) /\ us = {})
      BY <1>2, <3>2 DEF Score, Measured
    <3> QED BY <3>1, <3>2
  <2> QED BY <2>1, <2>2 DEF Measured, Rank
<1>3. CASE es = {} /\ \A g \in gs : ~IsBlocking(g)
  <2>1. \A f \in fs : ~IsBlocking(f)
    BY <1>0, <1>3, WorseVerdicts
  <2>2. CASE us # {}
    <3>1. S(gs) = "F" /\ S(fs) = "F"
      BY <1>3, <2>1, <2>2 DEF Score
    <3> QED BY <3>1, <1>r
  <2>3. CASE us = {}
    <3>1. S(fs) = MeasuredGrade(fs, ds) /\ S(gs) = MeasuredGrade(gs, ds)
      BY <1>3, <2>1, <2>3 DEF Score
    <3>2. Rank(Assigned(gs)) <= Rank(Assigned(fs))
      <4>1. /\ Cardinality(Costly(fs)) \in Nat /\ Cardinality(Costly(gs)) \in Nat
            /\ Cardinality(Costly(fs)) <= Cardinality(Costly(gs))
        BY <1>3, CostlyGrows, FS_CardinalityType
      <4> QED BY <4>1 DEF Assigned, Rank
    <3>3. Ceilings(fs, ds) \subseteq Ceilings(gs, ds)
      <4>1. UNION {BandCap(f.band) : f \in fs} \subseteq UNION {BandCap(g.band) : g \in gs}
        BY <1>0 DEF AtLeastAsBad
      <4>2. \A l : LockAtLeast(fs, l) => LockAtLeast(gs, l)
        BY <1>0 DEF AtLeastAsBad, LockAtLeast
      <4>3. (\E f \in fs : f.rev # "REVERSIBLE") => \E g \in gs : g.rev # "REVERSIBLE"
        BY <1>0, WorseVerdicts
      <4> QED BY <4>1, <4>2, <4>3 DEF Ceilings
    <3>4. MeasuredGrade(fs, ds) \in {Assigned(fs)} \cup Ceilings(fs, ds)
      BY MeasuredGradeType
    <3>5. /\ Rank(MeasuredGrade(gs, ds)) <= Rank(Assigned(gs))
          /\ \A c \in Ceilings(gs, ds) : Rank(MeasuredGrade(gs, ds)) <= Rank(c)
      BY MeasuredGradeType
    <3>6. Rank(MeasuredGrade(gs, ds)) <= Rank(MeasuredGrade(fs, ds))
      <4>1. CASE MeasuredGrade(fs, ds) = Assigned(fs)
        BY <1>r, <3>2, <3>5, <4>1
      <4>2. CASE MeasuredGrade(fs, ds) \in Ceilings(fs, ds)
        BY <3>3, <3>5, <4>2
      <4> QED BY <3>4, <4>1, <4>2
    <3> QED BY <3>1, <3>6
  <2> QED BY <2>2, <2>3
<1> QED BY <1>1, <1>2, <1>3

-----------------------------------------------------------------------------
(* The inductive invariant. *)

\* Findings are what analyzers may report about files they were handed.
Found ==
    /\ IsFiniteSet(findings)
    /\ \A f \in findings :
          /\ f.file \in read /\ Supported(f.file)
          /\ \E a \in Analyzers : f \in Reportable[a]

Weakened == \E f \in enriched : Weakens(f)

\* The only two ways to return: broken, with everything discarded, or with
\* the certificate of the enriched findings.
Shape ==
    /\ phase = "validate" => turn \in Analyzers
    /\ phase = "decide" => enriched = Enriched(findings)
    /\ phase = "done" =>
          \/ /\ failed
             /\ cert = BrokenCert({}) \/ cert = BrokenCert({PanicFinding})
          \/ /\ enriched = Enriched(findings) /\ ~Weakened
             /\ cert = Certificate(Decide(enriched))
             /\ failed = (errors # {})

IInv == TypeOK /\ Found /\ Shape

-----------------------------------------------------------------------------
(* Enrichment and overrides keep a finding's identity and never make it    *)
(* milder.                                                                 *)

\* The ratchet of Enrich, for one finding of an analyzer.
LEMMA EnrichmentRatchet ==
    ASSUME snapshot \in SnapshotType, snapshot # NoSnapshot,
           NEW f \in Finding, f.file \in Paths, BandCap(f.band) = {}
    PROVE  /\ EnrichFinding(f) \in Finding
           /\ EnrichFinding(f).id = f.id /\ EnrichFinding(f).file = f.file
           /\ AtLeastAsBad(EnrichFinding(f), f)
<1>1. snapshot.lasts \in [Paths -> Bands]
  BY DEF SnapshotType
<1>2. BandFor(f) \in Bands
  BY <1>1 DEF BandFor, Bands
<1>4. f.rev \in Verdicts /\ f.lock \in LockHazards
  BY DEF Finding, Verdicts
<1>5. CASE \/ f.rule \in SizedRules
           \/ f.rule = "PG017" /\ f.file \notin snapshot.nulls
  <2>1. EnrichFinding(f) = [f EXCEPT !.band = BandFor(f)]
    BY <1>5 DEF EnrichFinding, SizedRules
  <2>2. Severity(f.rev) <= Severity(f.rev)
    BY SeverityType
  <2> QED BY <1>2, <1>4, <2>1, <2>2 DEF Finding, AtLeastAsBad
<1>6. CASE f.rule \notin SizedRules /\ f.rule = "PG017" /\ f.file \in snapshot.nulls
  <2> DEFINE r == IF Severity(f.rev) > Severity("WILL_FAIL") THEN f.rev ELSE "WILL_FAIL"
  <2>1. EnrichFinding(f) = [f EXCEPT !.rev = r]
    BY <1>6 DEF EnrichFinding
  <2>2. r \in Reversibilities \cup {f.rev} /\ Severity(f.rev) <= Severity(r)
    <3>1. CASE Severity(f.rev) > Severity("WILL_FAIL")
      BY <1>4, <3>1, SeverityType
    <3>2. CASE ~(Severity(f.rev) > Severity("WILL_FAIL"))
      BY <3>2, SeverityType DEF Reversibilities
    <3> QED BY <3>1, <3>2
  <2> HIDE DEF r
  <2> QED BY <1>4, <2>1, <2>2 DEF Finding, AtLeastAsBad, Verdicts
<1>7. CASE f.rule \notin SizedRules /\ f.rule # "PG017"
  <2>1. EnrichFinding(f) = f
    BY <1>7 DEF EnrichFinding
  <2>2. Severity(f.rev) <= Severity(f.rev)
    BY SeverityType
  <2> QED BY <1>4, <2>1, <2>2 DEF AtLeastAsBad
<1> QED BY <1>5, <1>6, <1>7

\* The verdict an override finds is a verdict, and no milder than what the
\* analyzer reported as long as no override weakens it.
LEMMA OverridesRatchet ==
    ASSUME policy \in PolicyType, NEW f \in Finding
    PROVE  /\ Tighten(f) \in Finding
           /\ Tighten(f).id = f.id /\ Tighten(f).file = f.file
           /\ ~Weakens(f) => AtLeastAsBad(Tighten(f), f)
<1> DEFINE O  == [rule : Rules, severity : Reversibilities \ {"REVERSIBLE"}]
           os == Overrides
           ov(k) == Overrides[k].severity
<1>1. /\ os \in Seq(O)
      /\ Len(os) \in Nat /\ DOMAIN os = 1 .. Len(os)
  BY DEF PolicyType, Overrides
<1>2. \A k \in DOMAIN os : ov(k) \in Reversibilities
  <2>1. \A k \in DOMAIN os : os[k] \in O
    <3> HIDE DEF O, os
    <3> QED BY <1>1
  <2> QED BY <2>1
<1>3. Matching(f) \subseteq 1 .. Len(os)
  BY <1>1 DEF Matching
<1>4. f.rev \in Verdicts
  BY DEF Finding, Verdicts
<1>5. ASSUME NEW k \in Nat
      PROVE  \/ Before(f, k) = f.rev
             \/ \E j \in Matching(f) : j < k /\ Before(f, k) = ov(j)
  <2> DEFINE earlier == {j \in Matching(f) : j < k}
  <2>1. CASE earlier = {}
    BY <2>1 DEF Before
  <2>2. CASE earlier # {}
    <3>1. earlier \in SUBSET (1 .. Len(os))
      BY <1>3
    <3>2. \E j \in earlier : \A i \in earlier : i <= j
      <4> HIDE DEF earlier
      <4> QED BY <1>1, <2>2, <3>1, GreatestExists
    <3> DEFINE last == CHOOSE j \in earlier : \A i \in earlier : i <= j
    <3>3. last \in earlier
      BY <3>2
    <3>4. Before(f, k) = ov(last)
      BY <2>2 DEF Before
    <3> QED BY <3>3, <3>4
  <2> QED BY <2>1, <2>2
<1> DEFINE n == Len(os) + 1
<1>6. Before(f, n) \in Reversibilities \cup {f.rev}
  BY <1>1, <1>2, <1>3, <1>4, <1>5
<1>7. ASSUME ~Weakens(f)
      PROVE  Severity(f.rev) <= Severity(Before(f, n))
  <2> DEFINE Milder == {k \in Matching(f) : Severity(ov(k)) < Severity(f.rev)}
  <2>1. Milder = {}
    <3>1. SUFFICES ASSUME Milder # {} PROVE FALSE
      OBVIOUS
    <3>2. Milder \in SUBSET Nat
      BY <1>3
    <3>3. \E k \in Milder : \A j \in Milder : k <= j
      <4> HIDE DEF Milder
      <4> QED BY <3>1, <3>2, LeastExists
    <3>4. PICK k \in Milder : \A j \in Milder : k <= j
      BY <3>3
    <3>5. ~(Severity(ov(k)) < Severity(Before(f, k)))
      BY <1>7, <3>4 DEF Weakens
    <3>6. k \in Nat
      BY <3>2, <3>4
    <3>7. CASE Before(f, k) = f.rev
      BY <3>4, <3>5, <3>7
    <3>8. CASE \E j \in Matching(f) : j < k /\ Before(f, k) = ov(j)
      <4>1. PICK j \in Matching(f) : j < k /\ Before(f, k) = ov(j)
        BY <3>8
      <4>2. j \notin Milder /\ j \in Nat
        BY <1>3, <3>4, <3>6, <4>1
      <4>3. ~(Severity(ov(j)) < Severity(f.rev))
        BY <4>1, <4>2
      <4> QED BY <3>4, <3>5, <4>1, <4>3, SeverityType
    <3> QED BY <1>5, <3>6, <3>7, <3>8
  <2>2. CASE Before(f, n) = f.rev
    BY <2>2, SeverityType
  <2>3. CASE \E j \in Matching(f) : j < n /\ Before(f, n) = ov(j)
    BY <2>1, <2>3, SeverityType
  <2> QED BY <1>1, <1>5, <2>2, <2>3
<1>8. Tighten(f) = [f EXCEPT !.rev = Before(f, n)]
  BY DEF Tighten
<1> HIDE DEF n
<1>9. Tighten(f) \in Finding /\ Tighten(f).id = f.id /\ Tighten(f).file = f.file
  BY <1>6, <1>8 DEF Finding, Verdicts
<1>10. ASSUME ~Weakens(f) PROVE AtLeastAsBad(Tighten(f), f)
  BY <1>4, <1>6, <1>7, <1>8, <1>10 DEF Finding, AtLeastAsBad
<1> QED BY <1>9, <1>10

-----------------------------------------------------------------------------
(* What the score is computed from says at least what the analyzers said.  *)

Enrichs(f)  == IF snapshot = NoSnapshot THEN f ELSE EnrichFinding(f)
Tightens(f) == IF policy = NoPolicy THEN f ELSE Tighten(f)

LEMMA Transitive ==
    ASSUME NEW f, NEW g, NEW h, AtLeastAsBad(h, g), AtLeastAsBad(g, f)
    PROVE  AtLeastAsBad(h, f)
BY SeverityType DEF AtLeastAsBad

LEMMA Reflexive ==
    ASSUME NEW f \in Finding
    PROVE  AtLeastAsBad(f, f)
<1>1. f.rev \in Verdicts
  BY DEF Finding, Verdicts
<1> QED BY <1>1, SeverityType DEF AtLeastAsBad

LEMMA FoundFindings ==
    ASSUME Found, NEW f \in findings
    PROVE  f \in Finding /\ f.file \in Paths /\ BandCap(f.band) = {}
<1>1. PICK a \in Analyzers : f \in Reportable[a]
  BY DEF Found
<1>2. f \in Finding
  BY <1>1, InputsAssumption
<1>3. f.file \in Paths
  BY PathsAssumption DEF Found, Supported
<1>4. f.band = ""
  BY <1>1, FindingsAssumption
<1>5. BandCap(f.band) = {}
  BY <1>4 DEF BandCap
<1> QED BY <1>2, <1>3, <1>5

LEMMA EnrichedFindings ==
    ASSUME TypeOK, Found, NEW f \in findings
    PROVE  /\ Enrichs(f) \in Finding /\ Enrichs(f).id = f.id /\ Enrichs(f).file = f.file
           /\ AtLeastAsBad(Enrichs(f), f)
<1>1. CASE snapshot = NoSnapshot
  BY <1>1, FoundFindings, Reflexive DEF Enrichs
<1>2. CASE snapshot # NoSnapshot
  BY <1>2, FoundFindings, EnrichmentRatchet DEF Enrichs, TypeOK
<1> QED BY <1>1, <1>2

LEMMA DecidedFindings ==
    ASSUME TypeOK, NEW f \in Finding
    PROVE  /\ Tightens(f) \in Finding /\ Tightens(f).id = f.id /\ Tightens(f).file = f.file
           /\ ~Weakens(f) => AtLeastAsBad(Tightens(f), f)
<1>1. CASE policy = NoPolicy
  BY <1>1, Reflexive DEF Tightens
<1>2. CASE policy # NoPolicy
  BY <1>2, OverridesRatchet DEF Tightens, TypeOK
<1> QED BY <1>1, <1>2

\* Enrichment and the policy lose no finding and make none milder.
LEMMA EvidenceOnlyGrows ==
    ASSUME TypeOK, Found, enriched = Enriched(findings), NEW all,
           all = Decide(enriched).all
    PROVE  /\ enriched = {Enrichs(f) : f \in findings}
           /\ all = {Tightens(g) : g \in enriched}
           /\ enriched \subseteq Finding /\ all \subseteq Finding
           /\ IsFiniteSet(all)
           /\ ~Weakened =>
                 \E h \in Injection(findings, all) :
                    \A f \in findings : AtLeastAsBad(h[f], f)
<1>1. enriched = {Enrichs(f) : f \in findings}
  BY DEF Enriched, Enrichs
<1>2. all = {Tightens(g) : g \in enriched}
  BY DEF Decide, Tightens
<1>3. enriched \subseteq Finding
  BY <1>1, EnrichedFindings
<1>4. all \subseteq Finding
  BY <1>2, <1>3, DecidedFindings
<1> DEFINE h == [f \in findings |-> Tightens(Enrichs(f))]
<1>5. h \in Surjection(findings, all)
  BY <1>1, <1>2 DEF Surjection
<1>6. IsFiniteSet(all)
  BY <1>5, FS_Surjection DEF Found
<1>7. ASSUME ~Weakened
      PROVE  \E k \in Injection(findings, all) : \A f \in findings : AtLeastAsBad(k[f], f)
  <2>1. \A f \in findings : h[f].id = f.id
    BY <1>1, <1>3, EnrichedFindings, DecidedFindings
  <2>2. ASSUME NEW f \in findings, NEW g \in findings, f.id = g.id
        PROVE  f = g
    BY <2>2, FindingsAssumption DEF Found
  <2>3. h \in Injection(findings, all)
    <3>1. h \in [findings -> all]
      BY <1>5 DEF Surjection
    <3>2. \A f, g \in findings : h[f] = h[g] => f = g
      <4> HIDE DEF h
      <4> QED BY <2>1, <2>2
    <3> HIDE DEF h
    <3> QED BY <3>1, <3>2 DEF Injection, IsInjective
  <2>4. ASSUME NEW f \in findings
        PROVE  AtLeastAsBad(h[f], f)
    <3>1. Enrichs(f) \in enriched /\ ~Weakens(Enrichs(f))
      BY <1>1, <1>7 DEF Weakened
    <3>2. AtLeastAsBad(Tightens(Enrichs(f)), Enrichs(f))
      BY <1>3, <3>1, DecidedFindings
    <3> QED BY <3>2, EnrichedFindings, Transitive
  <2> QED BY <2>3, <2>4
<1> HIDE DEF h
<1> QED BY <1>1, <1>2, <1>3, <1>4, <1>6, <1>7

-----------------------------------------------------------------------------
(* Certificates are well-typed. *)

LEMMA GateType ==
    ASSUME NEW g, NEW c, NEW i
    PROVE  /\ Gate(g, c, i) \in GateStatuses
           /\ Gate(g, c, i) = "PASS" => g = "A" /\ c = "FULL" /\ i = {}
BY DEF Gate, GateStatuses

LEMMA BrokenCertType ==
    /\ BrokenCert({}) \in Certificates
    /\ BrokenCert({PanicFinding}) \in Certificates
<1>1. PanicFinding \in Finding
  <2>1. "UNKNOWN" \in Reversibilities \cup {Unset} /\ "EXCLUSIVE" \in LockHazards /\ "" \in Bands
    BY DEF Reversibilities, LockHazards, Bands
  <2>2. "" \in Paths \cup {""} /\ 0 \in Nat /\ FALSE \in BOOLEAN
    OBVIOUS
  <2> QED BY <2>1, <2>2 DEF PanicFinding, Finding
<1>2. ASSUME NEW fs \in SUBSET Finding
      PROVE  BrokenCert(fs) \in Certificates
  <2>1. Gate("F", "FULL", {}) \in GateStatuses
    BY GateType
  <2> QED BY <2>1 DEF BrokenCert, Certificates, Grades, Measured, Outcomes, Coverages
<1> QED BY <1>1, <1>2

LEMMA CertificateOfDecision ==
    ASSUME TypeOK, NEW d,
           d.all \subseteq Finding, d.waived \subseteq d.all, d.dead \subseteq Nat
    PROVE  Certificate(d) \in Certificates
<1>1. UndoPlan(d.all) \in [complete : BOOLEAN, steps : SUBSET Finding]
  BY DEF UndoPlan, Unreversible
<1>2. \A fs : ScoreOf(fs) \in Grades
  BY ScoreType DEF ScoreOf
<1>3. Unsupported \in SUBSET Paths /\ Outcome \in Outcomes /\ Coverage \in Coverages
  BY DEF TypeOK, Unsupported, Listed, Outcome, Outcomes, Coverage, Coverages
<1>4. Gate(ScoreOf(d.all), Coverage, IgnoredCandidates) \in GateStatuses
  BY GateType
<1>5. ignored \in SUBSET Paths
  BY DEF TypeOK
<1>6. d.waived \in SUBSET Finding /\ (d.all \ d.waived) \in SUBSET Finding
  OBVIOUS
<1>7. (IF d.waived = {} THEN ScoreOf(d.all) ELSE ScoreOf(d.all \ d.waived)) \in Grades
  BY <1>2
<1>8. d.dead \in SUBSET Nat
  OBVIOUS
<1> QED BY <1>1, <1>2, <1>3, <1>4, <1>5, <1>6, <1>7, <1>8 DEF Certificate, Certificates

LEMMA CertificateType ==
    ASSUME TypeOK, Found, enriched = Enriched(findings)
    PROVE  Certificate(Decide(enriched)) \in Certificates
<1>1. Decide(enriched).all \subseteq Finding
  BY EvidenceOnlyGrows
<1>2. /\ Decide(enriched).waived \subseteq Decide(enriched).all
      /\ Decide(enriched).dead \subseteq Nat
  <2>1. policy # NoPolicy => DOMAIN policy.waivers \subseteq Nat
    BY DEF TypeOK, PolicyType
  <2> QED BY <2>1 DEF Decide
<1> QED BY <1>1, <1>2, CertificateOfDecision

-----------------------------------------------------------------------------
(* The invariant is inductive. *)

LEMMA InitIInv == Init => IInv
<1> SUFFICES ASSUME Init PROVE IInv
  OBVIOUS
<1>1. TypeOK
  BY InputsAssumption, PathsAssumption DEF Init, TypeOK
<1>2. Found
  BY FS_EmptySet DEF Init, Found
<1> QED BY <1>1, <1>2 DEF Init, Shape, IInv

LEMMA ReturnBroken ==
    ASSUME IInv, UNCHANGED <<inputs, cancelled, turn, findings, downs, errors, enriched>>,
           Return(BrokenCert({}), TRUE) \/ Return(BrokenCert({PanicFinding}), TRUE)
    PROVE  IInv'
<1>1. BrokenCert({})' = BrokenCert({}) /\ BrokenCert({PanicFinding})' = BrokenCert({PanicFinding})
  BY DEF BrokenCert
<1> QED BY BrokenCertType DEF IInv, TypeOK, Found, Shape, Return, inputs, Supported

\* Between the first step and the last nothing is concluded.
LEMMA StillRunning ==
    ASSUME IInv, inputs' = inputs, cert' = cert, failed' = failed,
           cancelled' \in BOOLEAN, turn' \in Nat, downs' \subseteq DownStatus,
           errors' \subseteq (Analyzers \X {"analyze", "validate"}),
           phase \in {"start", "run", "validate"},
           phase' \in {"start", "run"} \/ (phase' = "validate" /\ turn' \in Analyzers),
           enriched' = enriched
    PROVE  /\ findings' = findings => IInv'
           /\ \A a \in Analyzers : \A fs \in SUBSET Visible(a) :
                 findings' = findings \cup fs => IInv'
<1>1. ASSUME Found', findings' \subseteq Finding PROVE IInv'
  BY <1>1 DEF IInv, TypeOK, Shape, inputs
<1>2. ASSUME findings' = findings PROVE IInv'
  BY <1>1, <1>2 DEF IInv, TypeOK, Found, inputs
<1>3. ASSUME NEW a \in Analyzers, NEW fs \in SUBSET Visible(a), findings' = findings \cup fs
      PROVE  IInv'
  <2>1. fs \subseteq Reportable[a] /\ Reportable[a] \subseteq Finding
    BY InputsAssumption DEF Visible
  <2>2. IsFiniteSet(fs)
    BY <2>1, FindingsAssumption, FS_Subset
  <2>3. IsFiniteSet(findings')
    BY <1>3, <2>2, FS_Union DEF IInv, Found
  <2>4. \A f \in fs : f.file \in read /\ Supported(f.file) /\ f \in Reportable[a]
    BY <2>1 DEF Visible, Supported
  <2>5. Found'
    BY <1>3, <2>3, <2>4 DEF IInv, Found, inputs
  <2> QED BY <1>1, <1>3, <2>1, <2>5 DEF IInv, TypeOK
<1> QED BY <1>2, <1>3

LEMMA NextIInv == IInv /\ [Next]_vars => IInv'
<1> SUFFICES ASSUME IInv, [Next]_vars PROVE IInv'
  OBVIOUS
<1>t. /\ cancelled \in BOOLEAN /\ turn \in Nat /\ downs \subseteq DownStatus
      /\ errors \subseteq (Analyzers \X {"analyze", "validate"})
  BY DEF IInv, TypeOK
<1>1. CASE Start
  <2>1. CASE cancelled
    BY <1>1, <2>1, ReturnBroken DEF Start
  <2>2. CASE ~cancelled
    BY <1>1, <1>t, <2>2, StillRunning DEF Start
  <2> QED BY <2>1, <2>2
<1>2. CASE AnalyzeOK
  <2>1. PICK fs \in SUBSET Visible(turn) : findings' = findings \cup fs
    BY <1>2 DEF AnalyzeOK
  <2>2. turn \in Analyzers
    BY <1>2 DEF AnalyzeOK
  <2>3. \/ phase' = "validate" /\ turn' = turn
        \/ phase' = "run" /\ turn' = turn + 1
    BY <1>2 DEF AnalyzeOK, NextTurn
  <2> QED BY <1>2, <1>t, <2>1, <2>2, <2>3, StillRunning DEF AnalyzeOK
<1>3. CASE AnalyzeFails
  <2>1. errors' \subseteq (Analyzers \X {"analyze", "validate"})
    BY <1>3, <1>t DEF AnalyzeFails
  <2> QED BY <1>3, <1>t, <2>1, StillRunning DEF AnalyzeFails, NextTurn
<1>4. CASE ValidateOK
  <2>1. downs' \subseteq DownStatus
    <3>1. PICK ds \in [Ups \cap read \cap Claims[turn] -> UNION {DownStatuses(p) : p \in Ups}] :
             downs' = downs \cup {ds[p] : p \in DOMAIN ds}
      BY <1>4 DEF ValidateOK
    <3>2. UNION {DownStatuses(p) : p \in Ups} \subseteq DownStatus
      BY DEF DownStatuses, DownStatus
    <3> QED BY <1>t, <3>1, <3>2
  <2> QED BY <1>4, <1>t, <2>1, StillRunning DEF ValidateOK, NextTurn
<1>5. CASE ValidateFails
  <2>1. turn \in Analyzers
    BY <1>5 DEF ValidateFails, IInv, Shape
  <2>2. errors' \subseteq (Analyzers \X {"analyze", "validate"})
    BY <1>5, <1>t, <2>1 DEF ValidateFails
  <2> QED BY <1>5, <1>t, <2>2, StillRunning DEF ValidateFails, NextTurn
<1>6. CASE Enrich
  <2>1. enriched' = {Enrichs(f) : f \in findings}
    BY <1>6 DEF Enrich, Enriched, Enrichs
  <2>2. enriched' \subseteq Finding
    BY <2>1, EnrichedFindings DEF IInv
  <2>3. enriched' = Enriched(findings)'
    BY <1>6 DEF Enrich, inputs, Enriched, EnrichFinding, BandFor
  <2> QED BY <1>6, <2>2, <2>3 DEF Enrich, inputs, IInv, TypeOK, Found, Shape
<1>7. CASE Conclude
  <2>1. CASE Weakened
    BY <1>7, <2>1, ReturnBroken DEF Conclude, Weakened
  <2>2. CASE ~Weakened
    <3>1. enriched = Enriched(findings)
      BY <1>7 DEF Conclude, IInv, Shape
    <3>2. /\ phase' = "done" /\ failed' = (errors # {})
          /\ cert' = Certificate(Decide(enriched))
      BY <1>7, <2>2 DEF Conclude, Weakened, Return
    <3>3. cert' \in Certificates
      BY <3>1, <3>2, CertificateType DEF IInv
    <3>4. UNCHANGED <<inputs, cancelled, turn, findings, downs, errors, enriched>>
      BY <1>7 DEF Conclude
    <3>5. Enriched(findings)' = Enriched(findings) /\ Weakened' = Weakened
          /\ Certificate(Decide(enriched))' = Certificate(Decide(enriched))
      BY <3>4 DEF inputs, Enriched, EnrichFinding, BandFor, Weakened, Weakens, Before,
                  Matching, Overrides, Certificate, Decide, Tighten, Fires, Covers, Waivable,
                  ScoreOf, Outcome, Unsupported, Listed, Coverage, IgnoredCandidates,
                  MigrationDirectories, Candidate, Supported
    <3>6. Shape'
      BY <2>2, <3>1, <3>2, <3>4, <3>5 DEF Shape
    <3> QED BY <3>2, <3>3, <3>4, <3>6 DEF inputs, IInv, TypeOK, Found
  <2> QED BY <2>1, <2>2
<1>8. CASE Panic
  BY <1>8, ReturnBroken DEF Panic
<1>9. CASE Cancel
  BY <1>9, <1>t, StillRunning DEF Cancel, IInv, Shape
<1>10. CASE UNCHANGED vars
  <2>1. /\ inputs' = inputs /\ cancelled' = cancelled /\ phase' = phase /\ turn' = turn
        /\ findings' = findings /\ downs' = downs /\ errors' = errors
        /\ enriched' = enriched /\ cert' = cert /\ failed' = failed
    BY <1>10 DEF vars, inputs
  <2>2. TypeOK' /\ Found'
    BY <2>1 DEF inputs, IInv, TypeOK, Found, Supported
  <2>3. Enriched(findings)' = Enriched(findings) /\ Weakened' = Weakened
        /\ Certificate(Decide(enriched))' = Certificate(Decide(enriched))
    BY <2>1 DEF inputs, Enriched, EnrichFinding, BandFor, Weakened, Weakens, Before,
                Matching, Overrides, Certificate, Decide, Tighten, Fires, Covers, Waivable,
                ScoreOf, Outcome, Unsupported, Listed, Coverage, IgnoredCandidates,
                MigrationDirectories, Candidate, Supported
  <2>4. BrokenCert({})' = BrokenCert({}) /\ BrokenCert({PanicFinding})' = BrokenCert({PanicFinding})
    BY DEF BrokenCert
  <2>5. Shape'
    BY <2>1, <2>3, <2>4 DEF IInv, Shape
  <2> QED BY <2>2, <2>5 DEF IInv
<1> QED
  BY <1>1, <1>2, <1>3, <1>4, <1>5, <1>6, <1>7, <1>8, <1>9, <1>10
  DEF Next, Work, Analyze, Validate

LEMMA Invariance == Spec => []IInv
<1> QED BY InitIInv, NextIInv, PTL DEF Spec

-----------------------------------------------------------------------------
(* What a returned certificate can be. *)

\* A broken run's certificate says F everywhere and claims nothing.
LEMMA BrokenSaysF ==
    ASSUME cert = BrokenCert({}) \/ cert = BrokenCert({PanicFinding})
    PROVE  /\ cert.grade = "F" /\ cert.effective = "F" /\ cert.gate = "FAIL"
           /\ ~cert.undo.complete /\ cert.waived = {}
BY DEF BrokenCert, Gate

\* What the fields of a certificate that was earned are computed from.
LEMMA EarnedFields ==
    ASSUME IInv, Done, NEW D, D = Decide(enriched),
           cert = Certificate(D)
    PROVE  /\ cert.grade = ScoreOf(D.all)
           /\ cert.effective = IF D.waived = {} THEN ScoreOf(D.all)
                                               ELSE ScoreOf(D.all \ D.waived)
           /\ cert.gate = Gate(ScoreOf(D.all), Coverage, IgnoredCandidates)
           /\ cert.waived = D.waived /\ cert.dead = D.dead
           /\ cert.undo = UndoPlan(D.all)
           /\ D.waived \subseteq D.all
           /\ \A f \in D.waived : Waivable(f)
BY DEF Certificate, Decide, Fires

\* Findings exist only where a claimed file was read.
LEMMA FindingsNeedFiles ==
    ASSUME IInv, NEW D, D = Decide(enriched), enriched = Enriched(findings)
    PROVE  /\ Outcome # "ANALYZED" => findings = {} /\ D.all = {}
           /\ D.all # {} => Outcome = "ANALYZED"
<1>1. findings # {} => Outcome = "ANALYZED"
  BY DEF IInv, Found, Outcome
<1>2. findings = {} => D.all = {}
  BY EvidenceOnlyGrows DEF IInv
<1> QED BY <1>1, <1>2

-----------------------------------------------------------------------------
(* The invariants, each in the states where the inductive one holds. *)

LEMMA PassVouched == IInv => PassMeansVouched
<1> SUFFICES ASSUME IInv, Done, cert.gate = "PASS"
             PROVE  /\ ~failed /\ errors = {}
                    /\ \A p \in Listed : Candidate(p) \/ Dir[p] \in MigrationNamed \/ Supported(p)
                                          => \E a \in Analyzers : p \in read \cap Claims[a]
                    /\ \A p \in ignored : ~Candidate(p)
                    /\ \A f \in findings : f.rev = "REVERSIBLE" /\ f.lock \in {"NONE", "SHORT"}
                    /\ \A d \in downs : d.parses
  BY DEF PassMeansVouched
<1> DEFINE D == Decide(enriched)
<1>1. /\ enriched = Enriched(findings) /\ ~Weakened /\ cert = Certificate(D)
      /\ failed = (errors # {})
  BY BrokenSaysF DEF IInv, Shape, Done
<1>2. /\ ScoreOf(D.all) = "A" /\ Coverage = "FULL" /\ IgnoredCandidates = {}
  <2>1. cert.gate = Gate(ScoreOf(D.all), Coverage, IgnoredCandidates)
    BY <1>1, EarnedFields
  <2> HIDE DEF D
  <2> QED BY <2>1, GateType
<1>3. /\ D.all \subseteq Finding
      /\ \E h \in Injection(findings, D.all) : \A f \in findings : AtLeastAsBad(h[f], f)
  BY <1>1, EvidenceOnlyGrows DEF IInv
<1> HIDE DEF D
<1>4. \A f \in D.all : f.lock \in LockHazards
  BY <1>3 DEF Finding
<1>5. /\ errors = {} /\ Unsupported = {}
      /\ \A f \in D.all : f.rev = "REVERSIBLE" /\ f.lock \in {"NONE", "SHORT"}
      /\ \A d \in downs : d.exists /\ d.parses
  BY <1>2, <1>4, OnlyCleanRunsEarnA DEF ScoreOf
<1>6. \A f \in findings : f.rev = "REVERSIBLE" /\ f.lock \in {"NONE", "SHORT"}
  <2>1. PICK h \in Injection(findings, D.all) : \A f \in findings : AtLeastAsBad(h[f], f)
    BY <1>3
  <2>2. \A f \in findings : h[f] \in D.all
    BY DEF Injection
  <2> QED BY <1>5, <2>1, <2>2, WorseVerdicts DEF AtLeastAsBad
<1>7. ASSUME NEW p \in Listed, Candidate(p) \/ Dir[p] \in MigrationNamed \/ Supported(p)
      PROVE  \E a \in Analyzers : p \in read \cap Claims[a]
  <2>1. Candidate(p) \/ Dir[p] \in MigrationDirectories(Listed)
    BY <1>7 DEF MigrationDirectories
  <2>2. p \in read /\ Supported(p)
    BY <1>5, <2>1 DEF Unsupported
  <2> QED BY <2>2 DEF Supported
<1> QED BY <1>1, <1>2, <1>5, <1>6, <1>7 DEF IgnoredCandidates

LEMMA BrokenF == IInv => BrokenMeansF
<1> SUFFICES ASSUME IInv, Done, failed \/ errors # {}
             PROVE  failed /\ cert.grade = "F" /\ cert.effective = "F" /\ cert.gate = "FAIL"
  BY DEF BrokenMeansF
<1>1. CASE failed /\ (cert = BrokenCert({}) \/ cert = BrokenCert({PanicFinding}))
  BY <1>1, BrokenSaysF
<1>2. CASE cert = Certificate(Decide(enriched)) /\ failed = (errors # {})
  <2>1. \A fs : ScoreOf(fs) = "F"
    BY <1>2 DEF ScoreOf, Score
  <2>2. \A c, i : Gate("F", c, i) = "FAIL"
    BY DEF Gate
  <2> QED BY <1>2, <2>1, <2>2, EarnedFields
<1> QED BY <1>1, <1>2 DEF IInv, Shape, Done

LEMMA WaiverStops == IInv => WaiverStopsAtUnknown
<1> SUFFICES ASSUME IInv, Done, NEW f \in enriched,
                    f.rev = "WILL_FAIL" \/ (f.rev = "UNKNOWN" /\ Matching(f) = {})
             PROVE  cert.effective = "F"
  BY DEF WaiverStopsAtUnknown
<1> DEFINE D == Decide(enriched)
           g == Tightens(f)
<1>1. CASE enriched = Enriched(findings) /\ ~Weakened /\ cert = Certificate(D)
  <2>1. f \in Finding /\ g \in D.all
    BY <1>1, EvidenceOnlyGrows DEF IInv
  <2>2. AtLeastAsBad(g, f)
    BY <1>1, <2>1, DecidedFindings DEF IInv, Weakened
  <2>3. IsBlocking(g) /\ ~Waivable(g)
    <3>1. CASE f.rev = "UNKNOWN" /\ Matching(f) = {}
      <4>1. g.rev = f.rev
        BY <2>1, <3>1 DEF Tightens, Tighten, Before, Finding
      <4> QED BY <3>1, <4>1 DEF IsBlocking, Waivable
    <3>2. CASE f.rev = "WILL_FAIL"
      <4>1. g.rev = "WILL_FAIL"
        BY <2>2, <3>2 DEF AtLeastAsBad, Severity, Reversibilities
      <4> QED BY <4>1 DEF IsBlocking, Waivable
    <3> QED BY <3>1, <3>2
  <2> HIDE DEF D, g
  <2>4. \A fs : g \in fs => ScoreOf(fs) = "F"
    BY <2>3 DEF ScoreOf, Score
  <2>5. g \notin D.waived
    BY <1>1, <2>3, EarnedFields DEF D
  <2> QED BY <1>1, <2>1, <2>4, <2>5, EarnedFields DEF D
<1> QED BY <1>1, BrokenSaysF DEF IInv, Shape, Done

\* A waiver only ever raises the grade CI compares, and only when it fired.
LEMMA WaiverRaises ==
    IInv /\ Done => /\ Rank(cert.grade) <= Rank(cert.effective)
                    /\ cert.grade # cert.effective => cert.waived # {}
<1> SUFFICES ASSUME IInv, Done
             PROVE  /\ Rank(cert.grade) <= Rank(cert.effective)
                    /\ cert.grade # cert.effective => cert.waived # {}
  OBVIOUS
<1> DEFINE D == Decide(enriched)
<1>1. CASE cert.grade = cert.effective
  BY <1>1 DEF Rank
<1>2. CASE cert.grade # cert.effective
  <2>1. enriched = Enriched(findings) /\ cert = Certificate(D)
    BY <1>2, BrokenSaysF DEF IInv, Shape, Done
  <2>2. /\ D.waived # {} /\ D.waived \subseteq D.all /\ cert.waived = D.waived
        /\ cert.grade = ScoreOf(D.all) /\ cert.effective = ScoreOf(D.all \ D.waived)
    BY <1>2, <2>1, EarnedFields
  <2>3. Outcome = "ANALYZED"
    BY <2>1, <2>2, FindingsNeedFiles
  <2>4. D.all \subseteq Finding /\ IsFiniteSet(D.all)
    BY <2>1, EvidenceOnlyGrows DEF IInv
  <2> HIDE DEF D
  <2> DEFINE h == [f \in D.all \ D.waived |-> f]
  <2>5. h \in Injection(D.all \ D.waived, D.all)
    BY DEF Injection, IsInjective
  <2>6. \A f \in D.all \ D.waived : AtLeastAsBad(h[f], f)
    BY <2>4, Reflexive
  <2> HIDE DEF h
  <2> QED BY <2>2, <2>3, <2>4, <2>5, <2>6, WorseEvidenceScoresNoBetter DEF ScoreOf
<1> QED BY <1>1, <1>2

LEMMA NeverLifted == IInv => GradeNeverLifted
<1> SUFFICES ASSUME IInv, Done, ~failed
             PROVE  /\ Rank(cert.grade) <= Rank(ScoreOf(findings))
                    /\ cert.grade # cert.effective => cert.waived # {}
  BY DEF GradeNeverLifted
<1> DEFINE D == Decide(enriched)
<1>1. enriched = Enriched(findings) /\ ~Weakened /\ cert = Certificate(D)
  BY DEF IInv, Shape, Done
<1>2. cert.grade = ScoreOf(D.all)
  BY <1>1, EarnedFields
<1>3. ASSUME Outcome = "ANALYZED" PROVE Rank(cert.grade) <= Rank(ScoreOf(findings))
  <2>1. PICK h \in Injection(findings, D.all) : \A f \in findings : AtLeastAsBad(h[f], f)
    BY <1>1, EvidenceOnlyGrows DEF IInv
  <2>2. IsFiniteSet(D.all)
    BY <1>1, EvidenceOnlyGrows DEF IInv
  <2> HIDE DEF D
  <2> QED BY <1>2, <1>3, <2>1, <2>2, WorseEvidenceScoresNoBetter DEF ScoreOf
<1>4. ASSUME Outcome # "ANALYZED" PROVE Rank(cert.grade) <= Rank(ScoreOf(findings))
  <2>1. D.all = findings
    BY <1>1, <1>4, FindingsNeedFiles
  <2> QED BY <1>2, <2>1 DEF Rank
<1> QED BY <1>3, <1>4, WaiverRaises

LEMMA UndoHonest == IInv => UndoPlanHonest
<1> SUFFICES ASSUME IInv, Done, cert.undo.complete, NEW f \in findings
             PROVE  f.rev \in {"REVERSIBLE", "COSTLY", Unset}
  BY DEF UndoPlanHonest
<1> DEFINE D == Decide(enriched)
<1>1. enriched = Enriched(findings) /\ ~Weakened /\ cert = Certificate(D)
  BY BrokenSaysF DEF IInv, Shape, Done
<1>2. PICK h \in Injection(findings, D.all) : \A e \in findings : AtLeastAsBad(h[e], e)
  BY <1>1, EvidenceOnlyGrows DEF IInv
<1>3. h[f] \in D.all /\ AtLeastAsBad(h[f], f)
  BY <1>2 DEF Injection
<1>4. cert.undo = UndoPlan(D.all)
  BY <1>1, EarnedFields
<1> HIDE DEF D
<1>5. h[f].rev \notin {"IRREVERSIBLE", "UNKNOWN", "WILL_FAIL"}
  BY <1>3, <1>4 DEF UndoPlan, Unreversible
<1> QED BY <1>3, <1>5 DEF AtLeastAsBad, Verdicts, Severity, Reversibilities

LEMMA NothingRead == IInv => NothingReadNeverGraded
<1> SUFFICES ASSUME IInv, Done, \A p \in read : ~Supported(p)
             PROVE  /\ cert.gate # "PASS"
                    /\ cert.grade = "N/A" \/ (cert.grade = "F" /\ failed)
  BY DEF NothingReadNeverGraded
<1> DEFINE D == Decide(enriched)
<1>1. CASE failed /\ (cert = BrokenCert({}) \/ cert = BrokenCert({PanicFinding}))
  BY <1>1, BrokenSaysF
<1>2. CASE /\ enriched = Enriched(findings) /\ cert = Certificate(D)
           /\ failed = (errors # {})
  <2>1. Outcome \in {"NO_CANDIDATES", "UNSUPPORTED_CONTENT"}
    BY DEF Outcome
  <2>2. D.all = {}
    BY <1>2, <2>1, FindingsNeedFiles
  <2>3. ScoreOf(D.all) = IF errors # {} THEN "F" ELSE "N/A"
    BY <2>1, <2>2 DEF ScoreOf, Score
  <2>4. /\ cert.grade = ScoreOf(D.all)
        /\ cert.gate = Gate(ScoreOf(D.all), Coverage, IgnoredCandidates)
    BY <1>2, EarnedFields
  <2> HIDE DEF D
  <2>5. cert.gate # "PASS"
    BY <2>3, <2>4, GateType
  <2> QED BY <1>2, <2>3, <2>4, <2>5
<1> QED BY <1>1, <1>2 DEF IInv, Shape, Done

LEMMA DeadAreDead == IInv => DeadWaiversAreDead
<1> SUFFICES ASSUME IInv, Done, policy # NoPolicy, ~failed
             PROVE  cert.waived = {f \in Decide(enriched).all :
                                     Waivable(f) /\ \E k \in DOMAIN policy.waivers \ cert.dead :
                                                       Covers(policy.waivers[k], f)}
  BY DEF DeadWaiversAreDead
<1> DEFINE D == Decide(enriched)
           W == DOMAIN policy.waivers
<1>1. cert = Certificate(D)
  BY DEF IInv, Shape, Done
<1>2. cert.waived = D.waived /\ cert.dead = D.dead
  BY <1>1, EarnedFields
<1>3. /\ D.waived = {f \in D.all : \E k \in W : Fires(k, f)}
      /\ D.dead = {k \in W : \A f \in D.all : ~Fires(k, f)}
  BY DEF Decide
<1>4. \E n \in Nat : W = 1 .. n
  BY DEF IInv, TypeOK, PolicyType
<1> HIDE DEF D, W
<1>5. ASSUME NEW f, NEW k \in W, Waivable(f), Covers(policy.waivers[k], f)
      PROVE  \E j \in W : Fires(j, f)
  <2> DEFINE C == {j \in W : Covers(policy.waivers[j], f)}
  <2>1. C \in SUBSET Nat /\ C # {}
    BY <1>4, <1>5
  <2>2. \E j \in C : \A i \in C : j <= i
    <3> HIDE DEF C
    <3> QED BY <2>1, LeastExists
  <2>3. PICK j \in C : \A i \in C : j <= i
    BY <2>2
  <2>4. \A i \in 1 .. j - 1 : i \in W /\ i \notin C
    BY <1>4, <2>1, <2>3
  <2> QED BY <1>5, <2>3, <2>4 DEF Fires
<1> QED BY <1>2, <1>3, <1>5 DEF Fires, W, D

\* Grade, coverage, outcome, gate and error never contradict each other.
LEMMA AxesAgree == IInv /\ Done => Assessment \in Assessments
<1> SUFFICES ASSUME IInv, Done PROVE Assessment \in Assessments
  OBVIOUS
<1> DEFINE D == Decide(enriched)
           V == [grade : Grades, effective : Grades, gate : GateStatuses,
                 outcome : Outcomes, coverage : Coverages, broken : BOOLEAN]
<1>1. Assessment \in V
  <2>1. cert \in Certificates /\ failed \in BOOLEAN
    BY DEF IInv, TypeOK, Done
  <2> QED BY <2>1 DEF Certificates, Assessment
<1>2. CASE failed /\ (cert = BrokenCert({}) \/ cert = BrokenCert({PanicFinding}))
  <2>1. Assessment = [grade |-> "F", effective |-> "F", gate |-> "FAIL",
                      outcome |-> "ANALYZED", coverage |-> "FULL", broken |-> TRUE]
    <3>1. failed = TRUE
      BY <1>2 DEF IInv, TypeOK
    <3>2. /\ cert.grade = "F" /\ cert.effective = "F" /\ cert.gate = "FAIL"
          /\ cert.outcome = "ANALYZED" /\ cert.coverage = "FULL"
      BY <1>2 DEF BrokenCert, Gate
    <3> QED BY <3>1, <3>2 DEF Assessment
  <2> QED BY <1>1, <2>1 DEF Assessments, Rank
<1>3. CASE /\ enriched = Enriched(findings) /\ cert = Certificate(D)
           /\ failed = (errors # {})
  <2> DEFINE g == ScoreOf(D.all)
             e == IF D.waived = {} THEN g ELSE ScoreOf(D.all \ D.waived)
  <2>1. Assessment = [grade |-> g, effective |-> e, gate |-> Gate(g, Coverage, IgnoredCandidates),
                      outcome |-> Outcome, coverage |-> Coverage, broken |-> errors # {}]
    BY <1>3 DEF Assessment, Certificate
  <2>2. Rank(g) <= Rank(e)
    <3>1. cert.grade = g /\ cert.effective = e
      BY <1>3, EarnedFields
    <3> QED BY <3>1, WaiverRaises
  <2>3. D.waived \subseteq D.all /\ (Outcome # "ANALYZED" => D.all = {})
    BY <1>3, EarnedFields, FindingsNeedFiles
  <2> HIDE DEF D
  <2>4. /\ Outcome = "NO_CANDIDATES" => Unsupported = {}
        /\ Outcome = "UNSUPPORTED_CONTENT" => Unsupported # {}
        /\ Outcome \in Outcomes
    BY DEF Outcome, Outcomes
  <2>5. /\ errors # {} => g = "F" /\ e = "F"
        /\ errors = {} /\ Outcome = "ANALYZED" => g \in Measured
        /\ errors = {} /\ Outcome = "ANALYZED" /\ Unsupported # {} => g = "F" /\ e = "F"
        /\ errors = {} /\ Outcome # "ANALYZED" => g = "N/A" /\ e = "N/A"
    <3>1. D.waived # {} => Outcome = "ANALYZED"
      BY <2>3
    <3>2. Outcome # "ANALYZED" => D.all = {}
      BY <2>3
    <3> QED BY <2>4, <3>1, <3>2, ScoreKinds DEF ScoreOf
  <2>6. /\ Gate(g, Coverage, IgnoredCandidates) = "PASS" => g = "A"
        /\ Gate(g, Coverage, IgnoredCandidates) = "NOT_APPLICABLE" <=> g = "N/A"
    BY DEF Gate
  <2>7. Coverage = (IF Unsupported = {} THEN "FULL" ELSE "PARTIAL")
    BY DEF Coverage
  <2> HIDE DEF g, e
  <2>8. /\ Outcome = "NO_CANDIDATES" => Coverage = "FULL"
        /\ Outcome = "UNSUPPORTED_CONTENT" => Coverage = "PARTIAL"
        /\ errors # {} => g = "F"
        /\ ~(errors # {}) => (g = "N/A" <=> Outcome # "ANALYZED")
        /\ Coverage = "PARTIAL" => g \in {"F", "N/A"}
        /\ g = "N/A" \/ Coverage = "PARTIAL" \/ errors # {} => e = g
    BY <2>4, <2>5, <2>7 DEF Measured
  <2> HIDE DEF V
  <2> QED BY <1>1, <2>1, <2>2, <2>6, <2>8 DEF Assessments, V
<1> QED BY <1>2, <1>3 DEF IInv, Shape, Done

-----------------------------------------------------------------------------
(* The refinement. *)

\* Evidence with every migration undone by a down of its own: what a run that
\* looked at everything would score.
Earned == Score(findings, {}, {}, "ANALYZED", {})

\* Missing downs, failures and gaps only ever lower a score.
LEMMA EvidenceIsCeiling ==
    Outcome = "ANALYZED" => Rank(ScoreOf(findings)) <= Rank(Earned)
<1> SUFFICES ASSUME Outcome = "ANALYZED" PROVE Rank(ScoreOf(findings)) <= Rank(Earned)
  OBVIOUS
<1>1. Earned \in Measured
  BY ScoreKinds DEF Earned, Outcomes
<1>2. CASE ScoreOf(findings) = "F"
  BY <1>1, <1>2 DEF Measured, Rank
<1>3. CASE ScoreOf(findings) # "F"
  <2>1. /\ ScoreOf(findings) = MeasuredGrade(findings, downs)
        /\ Earned = MeasuredGrade(findings, {})
    BY <1>3 DEF ScoreOf, Score, Earned
  <2>2. MeasuredGrade(findings, {}) \in {Assigned(findings)} \cup Ceilings(findings, {})
    BY MeasuredGradeType
  <2>3. Ceilings(findings, {}) \subseteq Ceilings(findings, downs)
    BY DEF Ceilings, DownSound
  <2>4. \A c \in {Assigned(findings)} \cup Ceilings(findings, downs) :
           Rank(MeasuredGrade(findings, downs)) <= Rank(c)
    BY MeasuredGradeType
  <2> QED BY <2>1, <2>2, <2>3, <2>4
<1> QED BY <1>2, <1>3

AnswersFairly ==
    Done => /\ Assessment \in Assessments
            /\ errors # {} => failed
            /\ Rank(cert.grade) <= Rank(Earned)
            /\ cert.gate = "PASS" =>
                 \A f \in findings : f.rev = "REVERSIBLE" /\ f.lock \in {"NONE", "SHORT"}

LEMMA AnswerIsFair == IInv => AnswersFairly
<1> SUFFICES ASSUME IInv, Done
             PROVE  /\ Assessment \in Assessments
                    /\ errors # {} => failed
                    /\ Rank(cert.grade) <= Rank(Earned)
                    /\ cert.gate = "PASS" =>
                         \A f \in findings : f.rev = "REVERSIBLE" /\ f.lock \in {"NONE", "SHORT"}
  BY DEF AnswersFairly
<1>1. Assessment \in Assessments
  BY AxesAgree
<1>2. errors # {} => failed
  BY BrokenF DEF BrokenMeansF
<1>3. Rank(cert.grade) <= Rank(Earned)
  <2>1. Earned \in Measured
    BY ScoreKinds DEF Earned, Outcomes
  <2>2. CASE failed
    BY <2>1, <2>2, BrokenF DEF BrokenMeansF, Measured, Rank
  <2>3. CASE ~failed /\ Outcome = "ANALYZED"
    <3>1. Rank(cert.grade) <= Rank(ScoreOf(findings))
      BY <2>3, NeverLifted DEF GradeNeverLifted
    <3>2. Rank(ScoreOf(findings)) \in Int /\ Rank(Earned) \in Int /\ Rank(cert.grade) \in Int
      BY DEF Rank
    <3> QED BY <2>3, <3>1, <3>2, EvidenceIsCeiling
  <2>4. CASE ~failed /\ Outcome # "ANALYZED"
    <3>1. cert.grade = "N/A"
      BY <2>4, NothingRead DEF NothingReadNeverGraded, Outcome
    <3> QED BY <2>1, <3>1 DEF Measured, Rank
  <2> QED BY <2>2, <2>3, <2>4
<1>4. cert.gate = "PASS" =>
        \A f \in findings : f.rev = "REVERSIBLE" /\ f.lock \in {"NONE", "SHORT"}
  BY PassVouched DEF PassMeansVouched
<1> QED BY <1>1, <1>2, <1>3, <1>4

\* Until the call returns, all it does is look.
LEMMA LooksUntilItReturns ==
    ASSUME TypeOK, Next
    PROVE  /\ phase # "done"
           /\ phase' # "done" => findings \subseteq findings' /\ errors \subseteq errors'
           /\ phase' = "done" => UNCHANGED <<findings, errors>>
<1>1. CASE Start
  BY <1>1 DEF Start, Return
<1>2. CASE Analyze
  BY <1>2 DEF Analyze, AnalyzeOK, AnalyzeFails, NextTurn
<1>3. CASE Validate
  BY <1>3 DEF Validate, ValidateOK, ValidateFails, NextTurn
<1>4. CASE Enrich
  BY <1>4 DEF Enrich
<1>5. CASE Conclude
  BY <1>5 DEF Conclude, Return
<1>6. CASE Panic
  BY <1>6 DEF Panic, Return
<1>7. CASE Cancel
  BY <1>7 DEF Cancel
<1> QED BY <1>1, <1>2, <1>3, <1>4, <1>5, <1>6, <1>7 DEF Next, Work

\* Promise speaks of grades in the words of this module.
LEMMA SameVocabulary ==
    /\ Promised!Assessments = Assessments
    /\ \A g : Promised!Rank(g) = Rank(g)
    /\ \A fs : Promised!Score(fs, {}, {}, "ANALYZED", {}) = Score(fs, {}, {}, "ANALYZED", {})
<1>1. \A g : Promised!Rank(g) = Rank(g)
  BY DEF Promised!Rank, Rank
<1>2. /\ Promised!Grades = Grades /\ Promised!GateStatuses = GateStatuses
      /\ Promised!Outcomes = Outcomes /\ Promised!Coverages = Coverages
  BY DEF Promised!Grades, Promised!Measured, Promised!GateStatuses, Promised!Outcomes,
         Promised!Coverages, Grades, Measured, GateStatuses, Outcomes, Coverages
<1>3. Promised!Assessments = Assessments
  BY <1>1, <1>2 DEF Promised!Assessments, Assessments
<1>4. \A gs : Promised!Worst(gs) = Worst(gs)
  BY <1>1 DEF Promised!Worst, Worst
<1>5. \A fs : Promised!Assigned(fs) = Assigned(fs)
  <2>1. \A S : Promised!Cardinality(S) = Cardinality(S)
    BY DEF Promised!Cardinality, Cardinality
  <2> QED BY <2>1 DEF Promised!Assigned, Assigned, Promised!Costly, Costly
<1>6. \A b : Promised!BandCap(b) = BandCap(b)
  BY DEF Promised!BandCap, BandCap
<1>7. \A fs, l : Promised!LockAtLeast(fs, l) = LockAtLeast(fs, l)
  BY DEF Promised!LockAtLeast, LockAtLeast, Promised!LockSeverity, LockSeverity
<1>8. ASSUME NEW fs PROVE Promised!Ceilings(fs, {}) = Ceilings(fs, {})
  <2>1. {Promised!BandCap(f.band) : f \in fs} = {BandCap(f.band) : f \in fs}
    BY <1>6
  <2> QED BY <1>7, <2>1 DEF Promised!Ceilings, Ceilings, Promised!DownSound, DownSound
<1>9. \A fs : Promised!MeasuredGrade(fs, {}) = MeasuredGrade(fs, {})
  BY <1>4, <1>5, <1>8 DEF Promised!MeasuredGrade, MeasuredGrade
<1>10. \A f : Promised!IsBlocking(f) = IsBlocking(f)
  BY DEF Promised!IsBlocking, IsBlocking, Promised!Reversibilities, Reversibilities
<1>11. \A fs : Promised!Score(fs, {}, {}, "ANALYZED", {}) = Score(fs, {}, {}, "ANALYZED", {})
  BY <1>9, <1>10 DEF Promised!Score, Score
<1> QED BY <1>1, <1>3, <1>11

LEMMA StepKeepsPromise ==
    ASSUME IInv, IInv', AnswersFairly', [Next]_vars
    PROVE  [Promised!Next]_(Promised!vars)
<1>1. CASE UNCHANGED vars
  BY <1>1 DEF vars, Promised!vars, Done, Assessment
<1>2. CASE Next /\ phase' # "done"
  <2>1. ~Done /\ ~Done' /\ findings \subseteq findings' /\ errors \subseteq errors'
    BY <1>2, LooksUntilItReturns DEF IInv, Done
  <2>2. Promised!Look
    BY <2>1 DEF Promised!Look, Promised!NoAnswer, NoCert
  <2> QED BY <2>2 DEF Promised!Next
<1>3. CASE Next /\ phase' = "done"
  <2>1. ~Done /\ Done' /\ UNCHANGED <<findings, errors>>
    BY <1>3, LooksUntilItReturns DEF IInv, Done
  <2>2. /\ Assessment' \in Assessments
        /\ errors # {} => failed'
        /\ Rank(cert'.grade) <= Rank(Earned)
        /\ cert'.gate = "PASS" =>
             \A f \in findings : f.rev = "REVERSIBLE" /\ f.lock \in {"NONE", "SHORT"}
    BY <2>1 DEF AnswersFairly, Earned
  <2>3. Assessment'.grade = cert'.grade /\ Assessment'.gate = cert'.gate /\ Assessment'.broken = failed'
    BY DEF Assessment
  <2>4. Assessment' \in Promised!Assessments
    BY <2>2, SameVocabulary
  <2>5. Promised!Give
    BY <2>1, <2>2, <2>3, <2>4, SameVocabulary DEF Promised!Give, Promised!Earned, Earned, Promised!NoAnswer, NoCert
  <2> QED BY <2>5 DEF Promised!Next
<1> QED BY <1>1, <1>2, <1>3

-----------------------------------------------------------------------------
(* The theorems. *)

\* Everything the run keeps has its type, and a certificate exists exactly
\* when Certify has returned.
THEOREM TypeCorrect == Spec => []TypeOK
<1>1. IInv => TypeOK
  BY DEF IInv
<1> QED BY <1>1, Invariance, PTL

\* The merge gate never says PASS of a run that left something unexamined:
\* whatever the registry, the policy, the snapshot and the failures.
THEOREM PassVouchedFor == Spec => []PassMeansVouched
<1> QED BY PassVouched, Invariance, PTL

\* Any failure of the analysis is an F on every axis, and an error.
THEOREM BrokenIsF == Spec => []BrokenMeansF
<1> QED BY BrokenF, Invariance, PTL

\* No waiver lifts the effective grade over a WILL_FAIL, or over an UNKNOWN
\* that no override renamed.
THEOREM WaiversStop == Spec => []WaiverStopsAtUnknown
<1> QED BY WaiverStops, Invariance, PTL

\* Neither the policy nor production context lifts the grade.
THEOREM GradeIsCeiling == Spec => []GradeNeverLifted
<1> QED BY NeverLifted, Invariance, PTL

\* A complete undo plan stands beside reversible changes only.
THEOREM UndoPlanIsHonest == Spec => []UndoPlanHonest
<1> QED BY UndoHonest, Invariance, PTL

\* A run that read no claimed file is never graded, unless it broke.
THEOREM NothingReadUngraded == Spec => []NothingReadNeverGraded
<1> QED BY NothingRead, Invariance, PTL

\* The waivers a certificate names as dead decided nothing.
THEOREM DeadWaivers == Spec => []DeadWaiversAreDead
<1> QED BY DeadAreDead, Invariance, PTL

\* Every step of the call is a step of what callers are promised, or one the
\* caller can not tell from none: the safety part of the refinement.
THEOREM PromiseIsKept == Spec => Promised!Safe
<1>1. Init => Promised!Init
  BY DEF Init, Promised!Init, Promised!NoAnswer, Done, NoCert
<1>2. IInv' => AnswersFairly'
  BY AnswerIsFair, PTL
<1>3. IInv /\ IInv' /\ [Next]_vars => [Promised!Next]_(Promised!vars)
  BY <1>2, StepKeepsPromise
<1> QED BY <1>1, <1>3, Invariance, PTL DEF Spec, Promised!Safe
=============================================================================
