-------------------------- MODULE TerraformProofs --------------------------
(***************************************************************************)
(* What the Terraform analyzer answers, for any catalog, any policy, any   *)
(* number of plans and any changes in them.                                *)
(***************************************************************************)
EXTENDS Terraform, FiniteSetTheorems, SequenceTheorems, TLAPS

-----------------------------------------------------------------------------
(* The inductive invariant. *)

\* What was said of a type before line n of policy p.
SaidBefore(p, t, class, n) ==
    Embedded[t] = class \/ \E k \in 1 .. n - 1 : p[k] = [type |-> t, class |-> class]

\* And by all of it.
SaidBy(p, t, class) == Embedded[t] = class \/ \E k \in DOMAIN p : p[k] = [type |-> t, class |-> class]

\* A line that is permitted whenever the lines before it were.
Accepted(p, k) ==
    /\ p[k].type \in Types /\ p[k].class \in Classes
    /\ p[k].class = "STATELESS" => ~SaidBefore(p, p[k].type, "STATEFUL", k)

\* The policy is what the file says, once it was loaded.
FileFollows ==
    /\ phase = "loading" => policy = << >> /\ line = 1
    /\ phase \in {"configuring", "reading", "returned", "failed"} => Legible(file) /\ policy = Resolved(file)
    /\ phase = "refused" =>
          \/ ~Legible(file)
          \/ policy = Resolved(file) /\ line <= Len(policy) /\ ~Accepted(policy, line)
    /\ added => file.lists # << >>

\* The catalog is what the embedded one and the lines merged so far say, the
\* worst of it.
CatalogFollows ==
    /\ \A k \in 1 .. line - 1 : Accepted(policy, k)
    /\ \A t \in Types :
        /\ catalog[t] = "STATEFUL" <=> SaidBefore(policy, t, "STATEFUL", line)
        /\ catalog[t] = "STATELESS" => SaidBefore(policy, t, "STATELESS", line)
        /\ catalog[t] = "none" => ~SaidBefore(policy, t, "STATELESS", line)

PhaseFollows ==
    /\ phase \in {"loading", "configuring", "refused"} => findings = {} /\ at = 1
    /\ phase \in {"reading", "returned", "failed"} => line = Len(policy) + 1
    /\ phase = "returned" => at = NumFiles + 1

Due == {f \in Files : f \in Claimed /\ f \notin removed}

\* The findings are those of the plans read so far, by the catalog there is.
FindingsFollow ==
    /\ \A f \in Files : plan[f] = {} \/ \E p \in Plans[f] : plan[f] = {p}
    /\ \A f \in Due : f < at => plan[f] # {}
    /\ phase \in {"reading", "returned", "failed"} =>
          findings = UNION {UNION {AnalyzeFile(f, p) : p \in plan[f]} : f \in {g \in Due : g < at}}

\* A destruction that only the catalog can answer for.
Unsettled(c) ==
    c.mode = "managed" /\ Destroys(c) /\ ~HasDisabledSafety(c.before) /\ ~HasStatefulEvidence(c.before)

\* Policy file d has no line that is refused and speaks of every type the
\* plans destroy.
SettledBy(d) ==
    /\ Legible(d)
    /\ \A k \in DOMAIN Resolved(d) : Accepted(Resolved(d), k)
    /\ \A f \in Due : plan[f] # {}
    /\ \A f \in Due : \A p \in plan[f] : p.ok => \A c \in p.changes :
          Unsettled(c) => SaidBy(Resolved(d), c.type, "STATEFUL") \/ SaidBy(Resolved(d), c.type, "STATELESS")

\* The block's key is the only one in a file that has a version.
OneKey(d) == d.version /\ Len(d.lists) = 1

AddedFollows == added /\ OneKey(file) => SettledBy(file)

IInv == TypeOK /\ FileFollows /\ CatalogFollows /\ PhaseFollows /\ FindingsFollow /\ AddedFollows

-----------------------------------------------------------------------------
(* One change. *)

\* What a plan may ask for: every list of actions is one of the seven.
LEMMA ActionsOf ==
    ASSUME NEW c, c.actions \in PlanActions
    PROVE  /\ Destroys(c) <=> c.actions \in {<<"delete">>, <<"delete", "create">>, <<"create", "delete">>}
           /\ Does(c, "update") <=> c.actions = <<"update">>
           /\ Does(c, "create") <=> c.actions \in {<<"create">>, <<"delete", "create">>, <<"create", "delete">>}
<1>1. CASE c.actions \in {<<"no-op">>, <<"create">>, <<"read">>, <<"update">>, <<"delete">>}
  <2>1. DOMAIN c.actions = 1 .. 1
    BY <1>1
  <2>2. \A a : Does(c, a) <=> c.actions[1] = a
    BY <2>1 DEF Does
  <2> QED BY <1>1, <2>2 DEF Destroys
<1>2. CASE c.actions \in {<<"delete", "create">>, <<"create", "delete">>}
  <2>1. DOMAIN c.actions = 1 .. 2
    BY <1>2
  <2>2. \A a : Does(c, a) <=> c.actions[1] = a \/ c.actions[2] = a
    BY <2>1 DEF Does
  <2> QED BY <1>2, <2>2 DEF Destroys
<1> QED BY <1>1, <1>2 DEF PlanActions

\* A destruction is answered once: by evidence or a class that holds something,
\* by a class that does not, or by nobody.
LEMMA DestructionAnswered ==
    ASSUME NEW c, c.type \in Types, TypeOK
    PROVE  LET v == ClassifyDestroy(c) IN
           /\ v.rev \in {"IRREVERSIBLE", "COSTLY", "UNKNOWN"}
           /\ v.rule # "TF009"
           /\ v.rule = "TF010" <=> /\ ~HasDisabledSafety(c.before) /\ ~HasStatefulEvidence(c.before)
                                   /\ catalog[c.type] = "none"
           /\ v.rev = "COSTLY" => /\ ~HasDisabledSafety(c.before) /\ ~HasStatefulEvidence(c.before)
                                  /\ catalog[c.type] = "STATELESS"
<1>1. catalog[c.type] \in {"STATEFUL", "STATELESS", "none"}
  BY DEF TypeOK, Classes
<1>2. CASE HasDisabledSafety(c.before) \/ ClassOf(c) = "STATEFUL"
  BY <1>1, <1>2 DEF ClassifyDestroy, ClassOf, V
<1>3. CASE ~HasDisabledSafety(c.before) /\ ClassOf(c) = "STATELESS"
  BY <1>1, <1>3 DEF ClassifyDestroy, ClassOf, V
<1>4. CASE ~HasDisabledSafety(c.before) /\ ClassOf(c) \notin {"STATEFUL", "STATELESS"}
  BY <1>1, <1>4 DEF ClassifyDestroy, ClassOf, V
<1> QED BY <1>1, <1>2, <1>3, <1>4

\* What the one verdict on a change says of it.
LEMMA Classified ==
    ASSUME NEW c, c.mode \in {"managed", "data"}, c.type \in Types, c.actions \in PlanActions, TypeOK,
           NEW v \in Classify(c)
    PROVE  /\ v.rev \in Revs
           /\ v.rule = "TF010" => Unsettled(c) /\ catalog[c.type] = "none"
           /\ v.rev \in {"COSTLY", "REVERSIBLE"} /\ Destroys(c) =>
                 /\ v.rev = "COSTLY" /\ catalog[c.type] = "STATELESS"
                 /\ ~HasDisabledSafety(c.before) /\ ~HasStatefulEvidence(c.before)
           /\ v.rev = "REVERSIBLE" /\ c.actions = <<"update">> =>
                 \A t \in SafetyTransitions : ~Fires(t, c)
<1>0. c.mode = "managed"
  BY DEF Classify
<1>1. CASE Destroys(c)
  <2>1. v = ClassifyDestroy(c) /\ c.actions # <<"update">>
    BY <1>0, <1>1, ActionsOf DEF Classify
  <2> QED BY <1>0, <1>1, <2>1, DestructionAnswered DEF Revs, Unsettled
<1>2. CASE ~Destroys(c) /\ c.actions = <<"update">>
  <2>1. v = ClassifyUpdate(c)
    BY <1>0, <1>2 DEF Classify
  <2>2. CASE \E t \in SafetyTransitions : Fires(t, c)
    BY <1>2, <2>1, <2>2 DEF ClassifyUpdate, V, Revs
  <2>3. CASE ~\E t \in SafetyTransitions : Fires(t, c)
    BY <1>2, <2>1, <2>3 DEF ClassifyUpdate, V, Revs
  <2> QED BY <2>2, <2>3
<1>3. CASE ~Destroys(c) /\ c.actions # <<"update">>
  <2>1. v = V("TF008", "REVERSIBLE")
    BY <1>0, <1>3 DEF Classify
  <2> QED BY <1>3, <2>1 DEF V, Revs
<1> QED BY <1>1, <1>2, <1>3

\* Whatever makes, changes or destroys a managed resource has one verdict.
LEMMA AnsweredOnce ==
    ASSUME NEW c, c.mode \in {"managed", "data"}, c.actions \in PlanActions
    PROVE  /\ \A v, w \in Classify(c) : v = w
           /\ Managed(c) => Classify(c) # {}
           /\ Unsettled(c) => Classify(c) = {ClassifyDestroy(c)}
<1>1. CASE c.mode = "data"
  BY <1>1 DEF Classify, Unsettled, Managed
<1>2. CASE c.mode = "managed" /\ Destroys(c)
  <2>1. c.actions \notin {<<"update">>, <<"create">>}
    BY <1>2, ActionsOf
  <2> QED BY <1>2, <2>1 DEF Classify
<1>3. CASE c.mode = "managed" /\ ~Destroys(c)
  <2>1. CASE c.actions = <<"update">>
    BY <1>3, <2>1 DEF Classify, Unsettled
  <2>2. CASE c.actions = <<"create">>
    BY <1>3, <2>2 DEF Classify, Unsettled
  <2>3. CASE c.actions \notin {<<"update">>, <<"create">>}
    <3>1. Classify(c) = {}
      BY <1>3, <2>3 DEF Classify
    <3> QED BY <1>3, <2>3, <3>1, ActionsOf DEF Unsettled, Destroys, Managed
  <2> QED BY <2>1, <2>2, <2>3
<1> QED BY <1>1, <1>2, <1>3

\* A finding of a plan is the one UNKNOWN of an unreadable file, or the verdict
\* on one of its changes.
LEMMA FindingOfPlan ==
    ASSUME NEW f \in Files, NEW p \in Plans[f], NEW g \in AnalyzeFile(f, p)
    PROVE  /\ g.file = f
           /\ ~p.ok => g = Finding(V("TF009", "UNKNOWN"), f, {})
           /\ p.ok => \E c \in p.changes : \E v \in Classify(c) : g = Finding(v, f, {c})
<1>1. CASE ~p.ok
  BY <1>1 DEF AnalyzeFile, Finding, V
<1>2. CASE p.ok
  BY <1>2 DEF AnalyzeFile, Finding
<1> QED BY <1>1, <1>2

\* Two findings about one change of one plan are one finding.
LEMMA OneFindingEach ==
    ASSUME NEW f \in Files, NEW p \in Plans[f], p.ok, NEW c \in p.changes
    PROVE  /\ \A g, h \in AnalyzeFile(f, p) : c \in g.about /\ c \in h.about => g = h
           /\ Managed(c) =>
                 \E g \in AnalyzeFile(f, p) : c \in g.about
           /\ Unsettled(c) => Finding(ClassifyDestroy(c), f, {c}) \in AnalyzeFile(f, p)
<1>1. c.mode \in {"managed", "data"} /\ c.type \in Types /\ c.actions \in PlanActions
  BY PlansAssumption
<1>2. AnalyzeFile(f, p) = UNION {{Finding(v, f, {d}) : v \in Classify(d)} : d \in p.changes}
  BY DEF AnalyzeFile
<1>3. ASSUME NEW g \in AnalyzeFile(f, p), c \in g.about
      PROVE  \E v \in Classify(c) : g = Finding(v, f, {c})
  BY <1>2, <1>3 DEF Finding
<1>4. ASSUME NEW v \in Classify(c)
      PROVE  Finding(v, f, {c}) \in AnalyzeFile(f, p) /\ c \in Finding(v, f, {c}).about
  <2>1. Finding(v, f, {c}).about = {c}
    BY DEF Finding
  <2>2. Finding(v, f, {c}) \in {Finding(w, f, {c}) : w \in Classify(c)}
    OBVIOUS
  <2> QED BY <1>2, <2>1, <2>2
<1> QED BY <1>1, <1>3, <1>4, AnsweredOnce

-----------------------------------------------------------------------------
(* The block that is printed. *)

\* A finite set, laid out as a sequence, is the range of it.
LEMMA LaidOut ==
    ASSUME NEW S, IsFiniteSet(S)
    PROVE  /\ SetToSeq(S) \in Seq(S)
           /\ \A x \in S : \E k \in DOMAIN SetToSeq(S) : SetToSeq(S)[k] = x
<1> DEFINE n == Cardinality(S)
<1>1. n \in Nat
  BY FS_CardinalityType
<1>2. \E f \in [1 .. n -> S] : IsInjective(f)
  <2>1. IsFiniteSet(1 .. n) /\ Cardinality(1 .. n) = n
    BY <1>1, FS_Interval
  <2>2. ExistsBijection(1 .. n, S)
    BY <2>1, FS_SameCardinalityBij
  <2> QED BY <2>2 DEF ExistsBijection, Bijection, Injection, IsInjective
<1>3. SetToSeq(S) \in [1 .. n -> S] /\ IsInjective(SetToSeq(S))
  BY <1>2 DEF SetToSeq
<1>4. SetToSeq(S) \in Surjection(1 .. n, S)
  <2>1. SetToSeq(S) \in Injection(1 .. n, S)
    BY <1>3 DEF Injection
  <2>2. Cardinality(1 .. n) = Cardinality(S)
    BY <1>1, FS_Interval
  <2> QED BY <2>1, <2>2, FS_Injection
<1> QED BY <1>1, <1>3, <1>4 DEF Surjection

\* The block has one key, and behind it every type it was printed for, as
\* stateful, and nothing else.
LEMMA SnippetNames ==
    ASSUME NEW T, T \subseteq Types, T # {}
    PROVE  \E B \in Seq(Entries) :
              /\ PolicySnippet(T) = <<B>>
              /\ \A k \in DOMAIN B : B[k].type \in Types /\ B[k].class = "STATEFUL"
              /\ \A t \in T : \E k \in DOMAIN B : B[k] = [type |-> t, class |-> "STATEFUL"]
<1> DEFINE E == {[type |-> t, class |-> "STATEFUL"] : t \in T}
<1>1. IsFiniteSet(T)
  BY TypesAssumption, FS_Subset
<1>2. IsFiniteSet(E)
  <2> DEFINE f == [t \in T |-> [type |-> t, class |-> "STATEFUL"]]
  <2>1. f \in Surjection(T, E)
    BY DEF Surjection
  <2> QED BY <1>1, <2>1, FS_Surjection
<1>3. PolicySnippet(T) = <<SetToSeq(E)>>
  BY DEF PolicySnippet
<1>4. /\ SetToSeq(E) \in Seq(E)
      /\ \A x \in E : \E k \in DOMAIN SetToSeq(E) : SetToSeq(E)[k] = x
  BY <1>2, LaidOut
<1>5. ASSUME NEW e \in E
      PROVE  e \in Entries /\ e.type \in Types /\ e.class = "STATEFUL"
  <2>1. PICK t \in T : e = [type |-> t, class |-> "STATEFUL"]
    OBVIOUS
  <2>2. t \in Types \cup {""} /\ "STATEFUL" \in Words
    BY TypesAssumption DEF Classes
  <2> QED BY <2>1, <2>2 DEF Entries
<1> HIDE DEF E
<1>6. \A k \in DOMAIN SetToSeq(E) : SetToSeq(E)[k] \in E
  BY <1>4
<1>7. SetToSeq(E) \in Seq(Entries)
  BY <1>4, <1>5, SeqMonotonic
<1>8. \A t \in T : [type |-> t, class |-> "STATEFUL"] \in E
  BY DEF E
<1> QED BY <1>3, <1>4, <1>5, <1>6, <1>7, <1>8

\* Only types of the plans are printed.
LEMMA UnclassifiedAreTypes ==
    ASSUME TypeOK, FindingsFollow, phase = "returned"
    PROVE  UnclassifiedTypes \subseteq Types
<1>1. SUFFICES ASSUME NEW x \in UnclassifiedTypes
               PROVE  x \in Types
  OBVIOUS
<1>2. PICK g \in findings : \E c \in g.about : x = c.type
  BY DEF UnclassifiedTypes
<1>3. PICK c \in g.about : x = c.type
  BY <1>2
<1>4. g \in UNION {UNION {AnalyzeFile(f, p) : p \in plan[f]} : f \in {h \in Due : h < at}}
  BY <1>2 DEF FindingsFollow
<1>5. PICK f \in Due : g \in UNION {AnalyzeFile(f, p) : p \in plan[f]}
  BY <1>4
<1>6. PICK p \in plan[f] : g \in AnalyzeFile(f, p)
  BY <1>5
<1>7. f \in Files /\ p \in Plans[f]
  BY <1>5, <1>6 DEF TypeOK, Due
<1>8. c \in p.changes
  <2>1. CASE ~p.ok
    BY <1>3, <1>6, <1>7, <2>1, FindingOfPlan DEF Finding
  <2>2. CASE p.ok
    BY <1>3, <1>6, <1>7, <2>2, FindingOfPlan DEF Finding
  <2> QED BY <2>1, <2>2
<1> QED BY <1>3, <1>7, <1>8, PlansAssumption

-----------------------------------------------------------------------------
(* Merging the policy. *)

\* What a line may say depends on the lines before it alone.
LEMMA PermittedIsAccepted ==
    ASSUME TypeOK, CatalogFollows, line <= Len(policy)
    PROVE  Permitted(policy[line]) <=> Accepted(policy, line)
<1>1. CASE policy[line].type \notin Types \/ policy[line].class \notin Classes
  BY <1>1 DEF Permitted, Accepted
<1>2. CASE policy[line].type \in Types /\ policy[line].class \in Classes
  <2>1. catalog[policy[line].type] \in {"STATEFUL", "STATELESS", "none"}
    BY <1>2 DEF TypeOK, Classes
  <2>2. catalog[policy[line].type] = "STATEFUL" <=> SaidBefore(policy, policy[line].type, "STATEFUL", line)
    BY <1>2 DEF CatalogFollows
  <2> QED BY <1>2, <2>1, <2>2 DEF Permitted, Accepted, Severity, Classes
<1> QED BY <1>1, <1>2

LEMMA InitInv ==
    ASSUME Init
    PROVE  IInv
<1> USE DEF Init
<1>1. TypeOK
  <2>1. policy \in Seq(Loaded) /\ Len(policy) = 0
    BY EmptySeq
  <2>2. line \in 1 .. Len(policy) + 1 /\ at \in 1 .. NumFiles + 1
    BY <2>1, FilesAssumption
  <2>3. plan = [f \in Files |-> plan[f]] /\ \A f \in Files : plan[f] \subseteq Plans[f]
    OBVIOUS
  <2>4. catalog \in [Types -> Classes \cup {"none"}] /\ file \in Documents
    BY TypesAssumption
  <2> QED BY <2>1, <2>2, <2>3, <2>4 DEF TypeOK
<1>2. CatalogFollows
  <2>1. 1 .. line - 1 = {}
    OBVIOUS
  <2>2. \A t \in Types : Embedded[t] \in {"STATEFUL", "STATELESS", "none"}
    BY TypesAssumption DEF Classes
  <2> QED BY <2>1, <2>2 DEF CatalogFollows, SaidBefore
<1>3. PhaseFollows /\ FileFollows
  BY DEF PhaseFollows, FileFollows
<1>4. FindingsFollow
  BY DEF FindingsFollow, Due, Files
<1>5. AddedFollows
  BY DEF AddedFollows
<1> QED BY <1>1, <1>2, <1>3, <1>4, <1>5 DEF IInv

\* What the file settles does not depend on the run.
LEMMA StaysSettled ==
    ASSUME AddedFollows, UNCHANGED <<file, removed, plan, added>>
    PROVE  AddedFollows'
BY DEF AddedFollows, SettledBy, Due

\* A legible file is what its lines are loaded as.
LEMMA LoadedAs ==
    ASSUME NEW d \in Documents
    PROVE  /\ Listed(d) \in Seq(Entries)
           /\ Legible(d) =>
                 /\ \A k \in DOMAIN Listed(d) : Listed(d)[k].type # "" /\ Upper[Listed(d)[k].class] \in Classes
                 /\ Resolved(d) \in Seq(Loaded)
<1>1. Listed(d) \in Seq(Entries)
  <2>1. CASE d.lists = << >>
    BY <2>1, EmptySeq DEF Listed
  <2>2. CASE d.lists # << >>
    <3>1. d.lists \in Seq(Seq(Entries))
      BY DEF Documents
    <3>2. 1 \in 1 .. Len(d.lists)
      BY <2>2, <3>1, EmptySeq, LenProperties
    <3> QED BY <2>2, <3>1, <3>2, ElementOfSeq DEF Listed
  <2> QED BY <2>1, <2>2
<1>2. ASSUME Legible(d)
      PROVE  /\ \A k \in DOMAIN Listed(d) : Listed(d)[k].type # "" /\ Upper[Listed(d)[k].class] \in Classes
             /\ Resolved(d) \in Seq(Loaded)
  <2>1. Len(Listed(d)) \in Nat /\ DOMAIN Listed(d) = 1 .. Len(Listed(d))
    BY <1>1, LenProperties
  <2>2. \A k \in DOMAIN Listed(d) : Listed(d)[k].type # "" /\ Upper[Listed(d)[k].class] \in Classes
    <3>1. CASE d = NoFile
      <4>1. Listed(d) = << >> /\ Len(<< >>) = 0
        BY <3>1 DEF NoFile, Listed
      <4>2. DOMAIN Listed(d) = {}
        BY <2>1, <4>1
      <4> QED BY <4>2
    <3>2. CASE d # NoFile
      BY <1>2, <3>2 DEF Legible
    <3> QED BY <3>1, <3>2
  <2>3. ASSUME NEW k \in DOMAIN Listed(d)
        PROVE  Resolve(Listed(d)[k]) \in Loaded
    <3>1. Listed(d)[k] \in Entries
      BY <1>1, <2>1, ElementOfSeq
    <3>2. Listed(d)[k].type \in Types /\ Upper[Listed(d)[k].class] \in Classes
      BY <2>2, <3>1 DEF Entries
    <3> QED BY <3>2 DEF Resolve, Loaded
  <2>4. Resolved(d) \in [1 .. Len(Listed(d)) -> Loaded]
    BY <2>1, <2>3 DEF Resolved
  <2>5. Resolved(d) \in Seq(Loaded)
    BY <2>1, <2>4, IsASeq DEF Resolved
  <2> QED BY <2>2, <2>5
<1> QED BY <1>1, <1>2

LEMMA LoadInv ==
    ASSUME IInv, Load
    PROVE  IInv'
<1> USE DEF IInv
<1>0. /\ phase = "loading" /\ phase' = "configuring" /\ line = 1
      /\ Legible(file) /\ policy' = Resolved(file)
      /\ UNCHANGED <<file, line, catalog, removed, plan, at, findings, added>>
  BY DEF Load, FileFollows
<1>1. TypeOK'
  <2>1. policy' \in Seq(Loaded)
    BY <1>0, LoadedAs DEF TypeOK
  <2>2. Len(policy') \in Nat
    BY <2>1, LenProperties
  <2>3. line' \in 1 .. Len(policy') + 1
    BY <1>0, <2>2
  <2> QED BY <1>0, <2>1, <2>3 DEF TypeOK
<1>2. CatalogFollows'
  <2>1. \A t, class : SaidBefore(policy, t, class, line) <=> Embedded[t] = class
    BY <1>0 DEF SaidBefore
  <2>2. \A t, class : SaidBefore(policy, t, class, line)' <=> Embedded[t] = class
    BY <1>0 DEF SaidBefore
  <2> QED BY <1>0, <2>1, <2>2 DEF CatalogFollows
<1>3. PhaseFollows' /\ FileFollows'
  BY <1>0 DEF PhaseFollows, FileFollows, Legible, Resolved, Listed
<1>4. FindingsFollow'
  BY <1>0 DEF FindingsFollow, Due, Files
<1>5. AddedFollows'
  BY <1>0, StaysSettled
<1> QED BY <1>1, <1>2, <1>3, <1>4, <1>5

LEMMA RefuseFileInv ==
    ASSUME IInv, RefuseFile
    PROVE  IInv'
<1> USE DEF IInv
<1>0. /\ phase = "loading" /\ phase' = "refused" /\ ~Legible(file)
      /\ UNCHANGED <<file, policy, line, catalog, removed, plan, at, findings, added>>
  BY DEF RefuseFile
<1>1. TypeOK'
  BY <1>0 DEF TypeOK
<1>2. CatalogFollows'
  BY <1>0 DEF CatalogFollows, Accepted, SaidBefore
<1>3. PhaseFollows' /\ FileFollows'
  BY <1>0 DEF PhaseFollows, FileFollows, Legible, Listed
<1>4. FindingsFollow'
  BY <1>0 DEF FindingsFollow, Due, Files
<1>5. AddedFollows'
  BY <1>0, StaysSettled
<1> QED BY <1>1, <1>2, <1>3, <1>4, <1>5

LEMMA ApplyOverrideInv ==
    ASSUME IInv, ApplyOverride
    PROVE  IInv'
<1> USE DEF IInv
<1>t. PICK t : t = policy[line].type
  OBVIOUS
<1>0. /\ phase = "configuring" /\ line \in 1 .. Len(policy) /\ Len(policy) \in Nat
      /\ line' = line + 1 /\ catalog' = [catalog EXCEPT ![t] = policy[line].class]
      /\ UNCHANGED <<file, policy, removed, plan, at, findings, added, phase>>
  BY <1>t DEF ApplyOverride, Configuring, TypeOK
<1>1. Accepted(policy, line)
  BY <1>0, PermittedIsAccepted DEF ApplyOverride
<1>2. policy[line] \in Loaded
  BY <1>0, ElementOfSeq DEF TypeOK
<1>3. TypeOK'
  BY <1>t, <1>0, <1>1 DEF TypeOK, Accepted
<1>4. CatalogFollows'
  <2>1. \A k \in 1 .. line : Accepted(policy, k)
    BY <1>0, <1>1 DEF CatalogFollows
  <2>2. \A k \in 1 .. line' - 1 : Accepted(policy, k)'
    BY <1>0, <2>1 DEF Accepted, SaidBefore
  <2>3. ASSUME NEW s \in Types, NEW class
        PROVE  SaidBefore(policy, s, class, line)' <=>
                  SaidBefore(policy, s, class, line) \/ policy[line] = [type |-> s, class |-> class]
    <3>1. 1 .. line' - 1 = (1 .. line - 1) \cup {line}
      BY <1>0
    <3> QED BY <1>0, <3>1 DEF SaidBefore
  <2>4. ASSUME NEW s \in Types, s # t
        PROVE  /\ catalog'[s] = catalog[s]
               /\ \A class : SaidBefore(policy, s, class, line)' <=> SaidBefore(policy, s, class, line)
    <3>1. catalog'[s] = catalog[s]
      BY <1>0, <2>4 DEF TypeOK
    <3>2. \A class : policy[line] # [type |-> s, class |-> class]
      BY <1>t, <2>4
    <3> QED BY <2>3, <3>1, <3>2
  <2>5. catalog'[t] = policy[line].class /\ policy[line].class \in Classes /\ t \in Types
    BY <1>t, <1>0, <1>1 DEF TypeOK, Accepted
  <2>6. CASE policy[line].class = "STATEFUL"
    <3>1. policy[line] = [type |-> t, class |-> "STATEFUL"]
      BY <1>t, <1>2, <2>6 DEF Loaded
    <3>2. SaidBefore(policy, t, "STATEFUL", line)'
      BY <2>3, <2>5, <3>1
    <3> QED BY <2>2, <2>4, <2>5, <2>6, <3>2 DEF CatalogFollows
  <2>7. CASE policy[line].class = "STATELESS"
    <3>1. policy[line] = [type |-> t, class |-> "STATELESS"]
      BY <1>t, <1>2, <2>7 DEF Loaded
    <3>2. SaidBefore(policy, t, "STATELESS", line)' /\ ~SaidBefore(policy, t, "STATEFUL", line)'
      <4>1. ~SaidBefore(policy, t, "STATEFUL", line)
        BY <1>t, <1>1, <2>7 DEF Accepted
      <4>2. policy[line] # [type |-> t, class |-> "STATEFUL"]
        BY <2>7
      <4> QED BY <2>3, <2>5, <3>1, <4>1, <4>2
    <3> QED BY <2>2, <2>4, <2>5, <2>7, <3>2 DEF CatalogFollows
  <2> QED BY <2>5, <2>6, <2>7 DEF Classes
<1>5. PhaseFollows' /\ FileFollows'
  BY <1>0 DEF PhaseFollows, FileFollows, Legible, Resolved, Listed
<1>6. FindingsFollow'
  BY <1>0 DEF FindingsFollow, Due, Files
<1>7. AddedFollows'
  BY <1>0, StaysSettled
<1> QED BY <1>3, <1>4, <1>5, <1>6, <1>7

LEMMA RefuseOverrideInv ==
    ASSUME IInv, RefuseOverride
    PROVE  IInv'
<1> USE DEF IInv
<1>0. /\ phase = "configuring" /\ phase' = "refused" /\ line <= Len(policy)
      /\ UNCHANGED <<file, policy, line, catalog, removed, plan, at, findings, added>>
  BY DEF RefuseOverride, Configuring
<1>1. ~Accepted(policy, line)
  BY <1>0, PermittedIsAccepted DEF RefuseOverride
<1>2. TypeOK'
  BY <1>0 DEF TypeOK
<1>3. CatalogFollows'
  BY <1>0 DEF CatalogFollows, Accepted, SaidBefore
<1>4. PhaseFollows' /\ FileFollows'
  BY <1>0, <1>1 DEF PhaseFollows, FileFollows, Legible, Resolved, Listed, Accepted, SaidBefore
<1>5. FindingsFollow' /\ AddedFollows'
  BY <1>0, StaysSettled DEF FindingsFollow, Due, Files
<1> QED BY <1>2, <1>3, <1>4, <1>5

LEMMA ReadyInv ==
    ASSUME IInv, Ready
    PROVE  IInv'
<1> USE DEF IInv
<1>0. /\ phase = "configuring" /\ phase' = "reading" /\ line = Len(policy) + 1
      /\ UNCHANGED <<file, policy, line, catalog, removed, plan, at, findings, added>>
  BY DEF Ready, TypeOK
<1>1. TypeOK'
  BY <1>0 DEF TypeOK
<1>2. CatalogFollows' /\ AddedFollows'
  BY <1>0, StaysSettled DEF CatalogFollows, Accepted, SaidBefore
<1>3. PhaseFollows' /\ FileFollows'
  BY <1>0 DEF PhaseFollows, FileFollows, Legible, Resolved, Listed
<1>4. FindingsFollow'
  <2>1. findings = {} /\ at = 1
    BY <1>0 DEF PhaseFollows
  <2>2. {g \in Due : g < at} = {}
    BY <2>1 DEF Due, Files
  <2> QED BY <1>0, <2>1, <2>2 DEF FindingsFollow, Due, Files
<1> QED BY <1>1, <1>2, <1>3, <1>4

-----------------------------------------------------------------------------
(* Reading the plans. *)

\* The next plan that is read is one of those the file may contain.
LEMMA ContainedIsPlan ==
    ASSUME TypeOK, NEW f \in Files, NEW p \in Contained(f)
    PROVE  p \in Plans[f] /\ (plan[f] # {} => p \in plan[f])
BY DEF Contained, TypeOK

LEMMA PassOverInv ==
    ASSUME IInv, PassOver
    PROVE  IInv'
<1> USE DEF IInv
<1>0. /\ phase = "reading" /\ at \in Files /\ at \notin Due /\ at' = at + 1
      /\ UNCHANGED <<file, policy, line, catalog, removed, plan, findings, added, phase>>
  BY FilesAssumption DEF PassOver, Reading, Supports, TypeOK, Due, Files
<1>1. TypeOK'
  BY <1>0, FilesAssumption DEF TypeOK, Files
<1>2. CatalogFollows' /\ AddedFollows'
  BY <1>0, StaysSettled DEF CatalogFollows, Accepted, SaidBefore
<1>3. PhaseFollows' /\ FileFollows'
  BY <1>0 DEF PhaseFollows, FileFollows, Legible, Resolved, Listed
<1>4. FindingsFollow'
  <2>1. Due' = Due /\ {g \in Due : g < at'} = {g \in Due : g < at}
    BY <1>0, FilesAssumption DEF Due, Files
  <2>2. \A f \in Files : \A p : AnalyzeFile(f, p)' = AnalyzeFile(f, p)
    BY <1>0 DEF AnalyzeFile, Classify, ClassifyDestroy, ClassOf, ClassifyUpdate
  <2>3. Due \subseteq Files
    BY DEF Due
  <2> QED BY <1>0, <2>1, <2>2, <2>3 DEF FindingsFollow
<1> QED BY <1>1, <1>2, <1>3, <1>4

LEMMA ReadPlanInv ==
    ASSUME IInv, ReadPlan
    PROVE  IInv'
<1> USE DEF IInv
<1>0. PICK p \in Contained(at) :
        /\ plan' = [plan EXCEPT ![at] = {p}]
        /\ findings' = findings \cup AnalyzeFile(at, p)
  BY DEF ReadPlan
<1>1. /\ phase = "reading" /\ at \in Files /\ at \in Due /\ at' = at + 1
      /\ UNCHANGED <<file, policy, line, catalog, removed, added, phase>>
  BY FilesAssumption DEF ReadPlan, Reading, Supports, TypeOK, Due, Files
<1>2. p \in Plans[at] /\ (plan[at] # {} => plan[at] = {p})
  BY <1>1, ContainedIsPlan DEF FindingsFollow
<1>3. \A f \in Files : plan'[f] = IF f = at THEN {p} ELSE plan[f]
  BY <1>0, <1>1 DEF TypeOK
<1>4. TypeOK'
  <2>1. \A g \in AnalyzeFile(at, p) : g.file \in Files /\ g.rev \in Revs
    <3>1. SUFFICES ASSUME NEW g \in AnalyzeFile(at, p)
                   PROVE  g.file \in Files /\ g.rev \in Revs
      OBVIOUS
    <3>2. CASE ~p.ok
      BY <1>1, <1>2, <3>1, <3>2, FindingOfPlan DEF Finding, V, Revs
    <3>3. CASE p.ok
      <4>1. PICK c \in p.changes : \E v \in Classify(c) : g = Finding(v, at, {c})
        <5>1. at \in Files /\ p \in Plans[at]
          BY <1>1, <1>2
        <5> QED BY <5>1, <3>1, <3>3, FindingOfPlan
      <4>2. PICK v \in Classify(c) : g = Finding(v, at, {c})
        BY <4>1
      <4>3. v.rev \in Revs
        BY <1>1, <1>2, <4>1, PlansAssumption, Classified
      <4> QED BY <1>1, <4>2, <4>3 DEF Finding
    <3> QED BY <3>2, <3>3
  <2>2. \A g \in findings' : g.file \in Files /\ g.rev \in Revs
    BY <1>0, <2>1 DEF TypeOK
  <2>3. plan' = [f \in Files |-> plan'[f]] /\ \A f \in Files : plan'[f] \subseteq Plans[f]
    BY <1>0, <1>2, <1>3 DEF TypeOK
  <2>4. at' \in 1 .. NumFiles + 1
    BY <1>1, FilesAssumption DEF Files
  <2> QED BY <1>1, <2>2, <2>3, <2>4 DEF TypeOK
<1>5. CatalogFollows'
  BY <1>1 DEF CatalogFollows, Accepted, SaidBefore
<1>6. PhaseFollows' /\ FileFollows'
  BY <1>1 DEF PhaseFollows, FileFollows, Legible, Resolved, Listed
<1>7. Due' = Due /\ Due \subseteq Files
  BY <1>1 DEF Due, Files
<1>8. AddedFollows'
  <2>1. ASSUME added, OneKey(file)
        PROVE  SettledBy(file)'
    <3>1. SettledBy(file)
      BY <2>1 DEF AddedFollows
    <3>2. \A f \in Due : plan'[f] = plan[f]
      BY <1>1, <1>2, <1>3, <1>7, <3>1 DEF SettledBy
    <3> QED BY <1>1, <1>7, <3>1, <3>2 DEF SettledBy
  <2> QED BY <1>1, <2>1 DEF AddedFollows
<1>9. FindingsFollow'
  <2>1. \A f \in Files : plan'[f] = {} \/ \E q \in Plans[f] : plan'[f] = {q}
    BY <1>2, <1>3 DEF FindingsFollow
  <2>2. \A f \in Due : f < at' => plan'[f] # {}
    BY <1>1, <1>3, <1>7, FilesAssumption DEF FindingsFollow, Files
  <2>3. \A f \in Files : \A q : AnalyzeFile(f, q)' = AnalyzeFile(f, q)
    BY <1>1 DEF AnalyzeFile, Classify, ClassifyDestroy, ClassOf, ClassifyUpdate
  <2>4. {g \in Due : g < at'} = {g \in Due : g < at} \cup {at}
    <3>1. \A g \in Due : g \in Int
      BY <1>7, FilesAssumption DEF Files
    <3>2. at \in Int /\ at \in Due /\ at' = at + 1
      BY <1>1, FilesAssumption DEF Files
    <3>3. \A g \in Due : g < at' <=> g < at \/ g = at
      BY <3>1, <3>2
    <3> QED BY <3>2, <3>3
  <2>5. at \notin {g \in Due : g < at}
    BY <1>1, FilesAssumption DEF Files
  <2>6. findings' = UNION {UNION {AnalyzeFile(f, q) : q \in plan'[f]} : f \in {g \in Due : g < at'}}
    <3>1. UNION {AnalyzeFile(at, q) : q \in plan'[at]} = AnalyzeFile(at, p)
      BY <1>1, <1>3
    <3>2. \A f \in {g \in Due : g < at} : plan'[f] = plan[f]
      BY <1>3, <1>7, <2>5
    <3> QED BY <1>0, <1>1, <2>4, <3>1, <3>2 DEF FindingsFollow
  <2> QED BY <1>1, <1>7, <2>1, <2>2, <2>3, <2>6 DEF FindingsFollow
<1> QED BY <1>4, <1>5, <1>6, <1>8, <1>9

LEMMA ReturnInv ==
    ASSUME IInv, Return \/ Cancelled
    PROVE  IInv'
<1> USE DEF IInv
<1>0. /\ phase = "reading" /\ phase' \in {"returned", "failed"}
      /\ phase' = "returned" => at = NumFiles + 1
      /\ UNCHANGED <<file, policy, line, catalog, removed, plan, at, findings, added>>
  BY FilesAssumption DEF Return, Cancelled, TypeOK
<1>1. TypeOK'
  BY <1>0 DEF TypeOK
<1>2. CatalogFollows' /\ AddedFollows'
  BY <1>0, StaysSettled DEF CatalogFollows, Accepted, SaidBefore
<1>3. PhaseFollows' /\ FileFollows'
  BY <1>0 DEF PhaseFollows, FileFollows, Legible, Resolved, Listed
<1>4. FindingsFollow'
  <2>1. \A f \in Files : \A p : AnalyzeFile(f, p)' = AnalyzeFile(f, p)
    BY <1>0 DEF AnalyzeFile, Classify, ClassifyDestroy, ClassOf, ClassifyUpdate
  <2>2. Due' = Due /\ Due \subseteq Files
    BY <1>0 DEF Due, Files
  <2> QED BY <1>0, <2>1, <2>2 DEF FindingsFollow
<1> QED BY <1>1, <1>2, <1>3, <1>4

-----------------------------------------------------------------------------
(* The block is put into the policy file. *)

\* Behind the lines that were there, under the one key, the block makes a file
\* that settles every type.
LEMMA BlockBehindList ==
    ASSUME IInv, phase = "returned",
           NEW B \in Seq(Entries),
           \A k \in DOMAIN B : B[k].type \in Types /\ B[k].class = "STATEFUL",
           \A t \in UnclassifiedTypes : \E k \in DOMAIN B : B[k] = [type |-> t, class |-> "STATEFUL"],
           NEW d \in Documents, OneKey(d), Listed(d) = Listed(file) \o B
    PROVE  SettledBy(d)
<1> USE DEF IInv
<1> DEFINE L == Listed(file)
           R == Resolved(d)
<1>0. /\ Legible(file) /\ policy = Resolved(file) /\ line = Len(policy) + 1 /\ at = NumFiles + 1
      /\ Due \subseteq Files
  BY DEF FileFollows, PhaseFollows, Due
<1>1. L \in Seq(Entries)
  BY LoadedAs DEF TypeOK
<1>2. /\ Len(L) \in Nat /\ Len(B) \in Nat /\ DOMAIN L = 1 .. Len(L) /\ DOMAIN B = 1 .. Len(B)
      /\ DOMAIN Listed(d) = 1 .. Len(L) + Len(B)
      /\ \A k \in 1 .. Len(L) : Listed(d)[k] = L[k]
      /\ \A k \in 1 .. Len(B) : Listed(d)[Len(L) + k] = B[k]
  BY <1>1, ConcatProperties, LenProperties
<1>3. DOMAIN policy = 1 .. Len(L) /\ DOMAIN policy = 1 .. line - 1
  <2>1. DOMAIN policy = DOMAIN L
    BY <1>0 DEF Resolved
  <2>2. policy \in Seq(Loaded)
    BY DEF TypeOK
  <2>3. Len(policy) \in Nat /\ DOMAIN policy = 1 .. Len(policy)
    BY <2>2, LenProperties
  <2> QED BY <1>0, <1>2, <2>1, <2>3
<1>4. DOMAIN R = 1 .. Len(L) + Len(B)
  BY <1>2 DEF Resolved
<1>5. \A k \in DOMAIN policy : k \in DOMAIN R /\ R[k] = policy[k]
  <2>1. \A k \in 1 .. Len(L) : k \in 1 .. Len(L) + Len(B)
    BY <1>2
  <2> QED BY <1>0, <1>2, <1>3, <1>4, <2>1 DEF Resolved
<1>6. ASSUME NEW k \in DOMAIN B
      PROVE  Len(L) + k \in DOMAIN R /\ R[Len(L) + k] = [type |-> B[k].type, class |-> "STATEFUL"]
  <2>1. Len(L) + k \in 1 .. Len(L) + Len(B)
    BY <1>2
  <2>2. Upper["STATEFUL"] = "STATEFUL"
    BY TypesAssumption DEF Classes
  <2> QED BY <1>2, <1>4, <2>1, <2>2 DEF Resolved, Resolve
<1>7. \A k \in DOMAIN R : k \in DOMAIN policy \/ \E i \in DOMAIN B : k = Len(L) + i
  <2>1. ASSUME NEW k \in 1 .. Len(L) + Len(B), k \notin 1 .. Len(L)
        PROVE  \E i \in 1 .. Len(B) : k = Len(L) + i
    <3>1. k - Len(L) \in 1 .. Len(B) /\ k = Len(L) + (k - Len(L))
      BY <1>2, <2>1
    <3> QED BY <3>1
  <2> QED BY <1>2, <1>3, <1>4, <2>1
<1>8. Legible(d)
  <2>1. \A k \in DOMAIN L : L[k].type # "" /\ Upper[L[k].class] \in Classes
    BY <1>0, LoadedAs DEF TypeOK
  <2>2. \A k \in DOMAIN B : B[k].type # "" /\ Upper[B[k].class] \in Classes
    BY TypesAssumption DEF Classes
  <2>3. ASSUME NEW k \in DOMAIN Listed(d)
        PROVE  Listed(d)[k].type # "" /\ Upper[Listed(d)[k].class] \in Classes
    <3>1. CASE k \in DOMAIN L
      BY <1>2, <2>1, <3>1
    <3>2. CASE k \notin DOMAIN L
      <4>1. PICK i \in DOMAIN B : k = Len(L) + i
        BY <1>2, <1>3, <1>4, <1>7, <3>2
      <4> QED BY <1>2, <2>2, <4>1
    <3> QED BY <3>1, <3>2
  <2>4. d.version /\ Len(d.lists) = 1
    BY DEF OneKey
  <2>5. d.version /\ Len(d.lists) <= 1
    BY <2>4
  <2> QED BY <2>3, <2>5 DEF Legible
<1> HIDE DEF R, L
<1>9. ASSUME NEW k \in DOMAIN R
      PROVE  Accepted(R, k)
  <2>1. CASE k \in DOMAIN policy
    <3>1. Accepted(policy, k)
      BY <1>3, <2>1 DEF CatalogFollows
    <3>2. \A i \in 1 .. k - 1 : R[i] = policy[i]
      BY <1>2, <1>3, <1>5, <2>1
    <3>3. \A t, class : SaidBefore(R, t, class, k) <=> SaidBefore(policy, t, class, k)
      BY <3>2 DEF SaidBefore
    <3> QED BY <1>5, <2>1, <3>1, <3>3 DEF Accepted
  <2>2. CASE k \notin DOMAIN policy
    <3>1. PICK i \in DOMAIN B : k = Len(L) + i
      BY <1>7, <2>2
    <3>2. R[k] = [type |-> B[i].type, class |-> "STATEFUL"] /\ B[i].type \in Types
      BY <1>6, <3>1
    <3>3. R[k].type \in Types /\ R[k].class = "STATEFUL"
      BY <3>2
    <3> QED BY <3>3 DEF Accepted, Classes
  <2> QED BY <2>1, <2>2
<1>10. \A f \in Due : plan[f] # {}
  BY <1>0, FilesAssumption DEF FindingsFollow, Files
<1>11. ASSUME NEW f \in Due, NEW p \in plan[f], p.ok, NEW c \in p.changes, Unsettled(c)
       PROVE  SaidBy(R, c.type, "STATEFUL") \/ SaidBy(R, c.type, "STATELESS")
  <2>1. f \in Files /\ p \in Plans[f] /\ f < at
    BY <1>0, <1>11, FilesAssumption DEF TypeOK, Files
  <2>2. c.type \in Types
    BY <1>11, <2>1, PlansAssumption
  <2>3. CASE catalog[c.type] = "none"
    <3> DEFINE g == Finding(ClassifyDestroy(c), f, {c})
    <3>1. g \in AnalyzeFile(f, p)
      BY <1>11, <2>1, OneFindingEach
    <3>2. g \in findings
      BY <1>11, <2>1, <3>1 DEF FindingsFollow
    <3>3. g.rule = "TF010" /\ g.about = {c}
      BY <1>11, <2>2, <2>3, DestructionAnswered DEF Finding, Unsettled
    <3>4. c.type \in UnclassifiedTypes
      BY <3>2, <3>3 DEF UnclassifiedTypes
    <3>5. PICK k \in DOMAIN B : B[k] = [type |-> c.type, class |-> "STATEFUL"]
      BY <3>4
    <3>6. Len(L) + k \in DOMAIN R /\ R[Len(L) + k] = [type |-> c.type, class |-> "STATEFUL"]
      BY <1>6, <3>5
    <3> QED BY <3>6 DEF SaidBy
  <2>4. CASE catalog[c.type] # "none"
    <3>1. PICK class \in Classes : SaidBefore(policy, c.type, class, line)
      BY <2>2, <2>4 DEF CatalogFollows, Classes, TypeOK
    <3>2. SaidBy(R, c.type, class)
      BY <1>3, <1>5, <3>1 DEF SaidBefore, SaidBy
    <3> QED BY <3>1, <3>2 DEF Classes
  <2> QED BY <2>3, <2>4
<1> QED BY <1>8, <1>9, <1>10, <1>11 DEF SettledBy, R

LEMMA RunAgainInv ==
    ASSUME IInv, NEW d \in Documents, d.lists # << >>, OneKey(d) => SettledBy(d), RunAgain(d)
    PROVE  IInv'
<1> USE DEF IInv
<1>0. /\ phase = "returned" /\ phase' = "loading" /\ added' /\ file' = d
      /\ policy' = << >> /\ line' = 1 /\ at' = 1 /\ findings' = {} /\ catalog' = Embedded
      /\ UNCHANGED <<removed, plan>>
  BY DEF RunAgain
<1>1. TypeOK'
  <2>1. policy' \in Seq(Loaded) /\ Len(policy') = 0
    BY <1>0, EmptySeq
  <2>2. line' \in 1 .. Len(policy') + 1 /\ at' \in 1 .. NumFiles + 1
    BY <1>0, <2>1, FilesAssumption
  <2>3. catalog' \in [Types -> Classes \cup {"none"}]
    BY <1>0, TypesAssumption
  <2>4. added' \in BOOLEAN
    BY DEF RunAgain
  <2> QED BY <1>0, <2>1, <2>2, <2>3, <2>4 DEF TypeOK, Files
<1>2. CatalogFollows'
  <2>1. 1 .. line' - 1 = {}
    BY <1>0
  <2>2. \A t \in Types : Embedded[t] \in {"STATEFUL", "STATELESS", "none"}
    BY TypesAssumption DEF Classes
  <2> QED BY <1>0, <2>1, <2>2 DEF CatalogFollows, SaidBefore
<1>3. PhaseFollows' /\ FileFollows'
  BY <1>0 DEF PhaseFollows, FileFollows
<1>4. Due' = Due /\ Due \subseteq Files
  BY <1>0 DEF Due, Files
<1>5. FindingsFollow'
  <2>1. \A f \in Due : ~(f < 1)
    BY <1>4, FilesAssumption DEF Files
  <2> QED BY <1>0, <1>4, <2>1 DEF FindingsFollow
<1>6. AddedFollows'
  <2>1. SettledBy(d)' <=> SettledBy(d)
    BY <1>0, <1>4 DEF SettledBy
  <2>2. SettledBy(file)' <=> SettledBy(d)'
    BY <1>0 DEF SettledBy
  <2> QED BY <1>0, <2>1, <2>2 DEF AddedFollows, OneKey
<1> QED BY <1>1, <1>2, <1>3, <1>5, <1>6

\* Pasted as it is printed, the block is a key of its own behind those there are.
LEMMA PasteInv ==
    ASSUME IInv, Paste
    PROVE  IInv'
<1> DEFINE d == [file EXCEPT !.lists = @ \o PolicySnippet(UnclassifiedTypes)]
<1>1. phase = "returned" /\ UnclassifiedTypes # {} /\ RunAgain(d)
  BY DEF Paste, RunAgain
<1>2. UnclassifiedTypes \subseteq Types
  BY <1>1, UnclassifiedAreTypes DEF IInv
<1>3. PICK B \in Seq(Entries) :
        /\ PolicySnippet(UnclassifiedTypes) = <<B>>
        /\ \A k \in DOMAIN B : B[k].type \in Types /\ B[k].class = "STATEFUL"
        /\ \A t \in UnclassifiedTypes : \E k \in DOMAIN B : B[k] = [type |-> t, class |-> "STATEFUL"]
  BY <1>1, <1>2, SnippetNames
<1>4. file \in Documents /\ file.lists \in Seq(Seq(Entries)) /\ file.version \in BOOLEAN
  BY DEF IInv, TypeOK, Documents
<1>5. d.version = file.version /\ d.lists = file.lists \o <<B>>
  BY <1>3, <1>4 DEF Documents
<1>6. /\ d.lists \in Seq(Seq(Entries)) /\ Len(d.lists) = Len(file.lists) + 1 /\ Len(file.lists) \in Nat
      /\ d.lists[Len(file.lists) + 1] = B
  <2>1. <<B>> \in Seq(Seq(Entries)) /\ Len(<<B>>) = 1 /\ <<B>>[1] = B
    OBVIOUS
  <2>2. /\ file.lists \o <<B>> \in Seq(Seq(Entries))
        /\ Len(file.lists \o <<B>>) = Len(file.lists) + Len(<<B>>)
        /\ \A i \in 1 .. Len(<<B>>) : (file.lists \o <<B>>)[Len(file.lists) + i] = <<B>>[i]
    BY <1>4, <2>1, ConcatProperties
  <2>3. (file.lists \o <<B>>)[Len(file.lists) + 1] = B
    <3>1. 1 \in 1 .. Len(<<B>>)
      BY <2>1
    <3> QED BY <2>1, <2>2, <3>1
  <2>4. Len(file.lists) \in Nat
    BY <1>4, LenProperties
  <2> QED BY <1>5, <2>1, <2>2, <2>3, <2>4
<1>7. d \in Documents /\ d.lists # << >>
  <2>1. d.lists # << >>
    BY <1>6, EmptySeq
  <2>2. d \in Documents
    BY <1>4, <1>5, <1>6 DEF Documents
  <2> QED BY <2>1, <2>2
<1> HIDE DEF d
<1>8. ASSUME OneKey(d)
      PROVE  SettledBy(d)
  <2>1. Len(file.lists) = 0
    BY <1>6, <1>8 DEF OneKey
  <2>2. file.lists = << >>
    BY <1>4, <2>1, EmptySeq
  <2>3. Listed(file) = << >> /\ Listed(d) = B
    BY <1>6, <1>7, <2>1, <2>2 DEF Listed
  <2>4. << >> \o B = B
    BY <1>3, ConcatEmptySeq
  <2> QED BY <1>1, <1>3, <1>7, <1>8, <2>3, <2>4, BlockBehindList
<1> QED BY <1>1, <1>7, <1>8, RunAgainInv

\* Merged with the list the file had, its entries come behind those.
LEMMA MergeInv ==
    ASSUME IInv, Merge
    PROVE  IInv'
<1> DEFINE e == [file EXCEPT !.lists = PolicySnippet(UnclassifiedTypes)]
           d == [version |-> TRUE, lists |-> <<Listed(file) \o Listed(e)>>]
<1>1. phase = "returned" /\ UnclassifiedTypes # {} /\ RunAgain(d)
  BY DEF Merge, RunAgain
<1>2. UnclassifiedTypes \subseteq Types
  BY <1>1, UnclassifiedAreTypes DEF IInv
<1>3. PICK B \in Seq(Entries) :
        /\ PolicySnippet(UnclassifiedTypes) = <<B>>
        /\ \A k \in DOMAIN B : B[k].type \in Types /\ B[k].class = "STATEFUL"
        /\ \A t \in UnclassifiedTypes : \E k \in DOMAIN B : B[k] = [type |-> t, class |-> "STATEFUL"]
  BY <1>1, <1>2, SnippetNames
<1>4. file \in Documents /\ Listed(file) \in Seq(Entries)
  BY LoadedAs DEF IInv, TypeOK
<1>5. Listed(e) = B
  <2>1. e.lists = <<B>>
    BY <1>3, <1>4 DEF Documents
  <2>2. <<B>> # << >> /\ <<B>>[1] = B
    OBVIOUS
  <2> QED BY <2>1, <2>2 DEF Listed
<1> HIDE DEF e
<1>6. Listed(file) \o B \in Seq(Entries)
  BY <1>3, <1>4, ConcatProperties
<1>7. d \in Documents /\ d.lists # << >> /\ OneKey(d) /\ Listed(d) = Listed(file) \o B
  <2> DEFINE l == Listed(file) \o B
  <2>1. d = [version |-> TRUE, lists |-> <<l>>]
    BY <1>5
  <2>2. l \in Seq(Entries)
    BY <1>6
  <2> HIDE DEF l, d
  <2>3. <<l>> \in Seq(Seq(Entries)) /\ Len(<<l>>) = 1 /\ <<l>>[1] = l /\ <<l>> # << >>
    BY <2>2
  <2>4. d.version = TRUE /\ d.lists = <<l>>
    BY <2>1
  <2>5. d \in Documents
    BY <2>1, <2>3 DEF Documents
  <2>6. OneKey(d)
    BY <2>3, <2>4 DEF OneKey
  <2>7. Listed(d) = l
    BY <2>3, <2>4 DEF Listed
  <2> QED BY <2>3, <2>4, <2>5, <2>6, <2>7 DEF l
<1> HIDE DEF d
<1>8. SettledBy(d)
  BY <1>1, <1>3, <1>7, BlockBehindList
<1> QED BY <1>1, <1>7, <1>8, RunAgainInv

-----------------------------------------------------------------------------
(* The theorems. *)

LEMMA InvPreserved ==
    ASSUME IInv, [Next]_vars
    PROVE  IInv'
<1>1. CASE ApplyOverride
  BY <1>1, ApplyOverrideInv
<1>2. CASE RefuseOverride
  BY <1>2, RefuseOverrideInv
<1>3. CASE Ready
  BY <1>3, ReadyInv
<1>4. CASE PassOver
  BY <1>4, PassOverInv
<1>5. CASE ReadPlan
  BY <1>5, ReadPlanInv
<1>6. CASE Return \/ Cancelled
  BY <1>6, ReturnInv
<1>7. CASE Paste
  BY <1>7, PasteInv
<1>8. CASE Merge
  BY <1>8, MergeInv
<1>9. CASE Load
  BY <1>9, LoadInv
<1>10. CASE RefuseFile
  BY <1>10, RefuseFileInv
<1>11. CASE UNCHANGED vars
  <2>1. UNCHANGED <<file, policy, line, catalog, removed, plan, at, findings, added, phase>>
    BY <1>11 DEF vars
  <2>2. TypeOK' /\ CatalogFollows' /\ PhaseFollows'
    BY <2>1 DEF IInv, TypeOK, CatalogFollows, PhaseFollows, Accepted, SaidBefore
  <2>3. FileFollows' /\ AddedFollows'
    BY <2>1, StaysSettled DEF IInv, FileFollows, Legible, Resolved, Listed, Accepted, SaidBefore
  <2>4. FindingsFollow'
    <3>1. \A f \in Files : \A p : AnalyzeFile(f, p)' = AnalyzeFile(f, p)
      BY <2>1 DEF AnalyzeFile, Classify, ClassifyDestroy, ClassOf, ClassifyUpdate
    <3>2. Due' = Due /\ Due \subseteq Files
      BY <2>1 DEF Due
    <3> QED BY <2>1, <3>1, <3>2 DEF IInv, FindingsFollow
  <2> QED BY <2>2, <2>3, <2>4 DEF IInv
<1> QED BY <1>1, <1>2, <1>3, <1>4, <1>5, <1>6, <1>7, <1>8, <1>9, <1>10, <1>11 DEF Next

LEMMA AlwaysInv == Spec => []IInv
BY InitInv, InvPreserved, PTL DEF Spec

\* A plan that was read, and a finding of it, from the findings there are.
LEMMA FindingFrom ==
    ASSUME IInv, NEW g \in findings
    PROVE  \E f \in Due : \E p \in Plans[f] : p \in plan[f] /\ g \in AnalyzeFile(f, p)
<1>1. phase \in {"reading", "returned", "failed"}
  BY DEF IInv, TypeOK, PhaseFollows
<1>2. g \in UNION {UNION {AnalyzeFile(f, p) : p \in plan[f]} : f \in {h \in Due : h < at}}
  BY <1>1 DEF IInv, FindingsFollow
<1>3. PICK f \in Due : g \in UNION {AnalyzeFile(f, p) : p \in plan[f]}
  BY <1>2
<1>4. PICK p \in plan[f] : g \in AnalyzeFile(f, p)
  BY <1>3
<1>5. p \in Plans[f]
  BY <1>3, <1>4 DEF IInv, TypeOK, Due
<1> QED BY <1>3, <1>4, <1>5

\* Once every line is merged, the catalog is the worst anybody said.
LEMMA CatalogIsWorst ==
    ASSUME IInv, phase \in {"reading", "returned", "failed"}, NEW t \in Types
    PROVE  /\ catalog[t] = "STATEFUL" <=> Said(t, "STATEFUL")
           /\ catalog[t] = "STATELESS" => Said(t, "STATELESS")
           /\ catalog[t] = "none" => ~Said(t, "STATELESS")
<1>1. line - 1 = Len(policy) /\ DOMAIN policy = 1 .. line - 1
  <2>1. policy \in Seq(Loaded)
    BY DEF IInv, TypeOK
  <2>2. Len(policy) \in Nat /\ DOMAIN policy = 1 .. Len(policy)
    BY <2>1, LenProperties
  <2> QED BY <2>2 DEF IInv, PhaseFollows
<1>2. \A class : Said(t, class) <=> SaidBefore(policy, t, class, line)
  BY <1>1 DEF Said, SaidBefore
<1> QED BY <1>2 DEF IInv, CatalogFollows

LEMMA NeverTalkedDownInv ==
    ASSUME IInv
    PROVE  NeverTalkedDown
<1>1. SUFFICES ASSUME NEW g \in findings, NEW d \in g.about
               PROVE  /\ g.rev \in {"COSTLY", "REVERSIBLE"} /\ Destroys(d) =>
                            /\ g.rev = "COSTLY"
                            /\ Said(d.type, "STATELESS") /\ ~Said(d.type, "STATEFUL")
                            /\ \A k \in StatefulEvidence : Value(d.before, k) \in {"absent", "null", "empty"}
                            /\ \A k \in DisabledSafety : Value(d.before, k) # "true"
                      /\ g.rev = "REVERSIBLE" /\ d.actions = <<"update">> =>
                            /\ \A k \in Guards : Value(d.before, k) = "true" => Value(d.after, k) # "false"
                            /\ \A k \in DisabledSafety : Value(d.before, k) = "false" => Value(d.after, k) # "true"
                            /\ \A k \in Windows : Value(d.before, k) = "positive" => Value(d.after, k) # "zero"
  BY DEF NeverTalkedDown
<1>2. PICK f \in Due : \E p \in Plans[f] : p \in plan[f] /\ g \in AnalyzeFile(f, p)
  BY FindingFrom
<1>3. PICK p \in Plans[f] : p \in plan[f] /\ g \in AnalyzeFile(f, p)
  BY <1>2
<1>4. f \in Files
  BY DEF Due
<1>5. p.ok
  BY <1>3, <1>4, FindingOfPlan DEF Finding
<1>6. PICK c \in p.changes : \E v \in Classify(c) : g = Finding(v, f, {c})
  BY <1>3, <1>4, <1>5, FindingOfPlan
<1>7. PICK v \in Classify(c) : g = Finding(v, f, {c})
  BY <1>6
<1>8. d = c /\ g.rev = v.rev
  BY <1>7 DEF Finding
<1>9. c.mode \in {"managed", "data"} /\ c.type \in Types /\ c.actions \in PlanActions
  BY <1>4, PlansAssumption
<1>10. /\ v.rev \in {"COSTLY", "REVERSIBLE"} /\ Destroys(c) =>
             /\ v.rev = "COSTLY" /\ catalog[c.type] = "STATELESS"
             /\ ~HasDisabledSafety(c.before) /\ ~HasStatefulEvidence(c.before)
       /\ v.rev = "REVERSIBLE" /\ c.actions = <<"update">> =>
             \A t \in SafetyTransitions : ~Fires(t, c)
  BY <1>9, Classified DEF IInv
<1>11. ASSUME v.rev \in {"COSTLY", "REVERSIBLE"}, Destroys(c)
       PROVE  /\ g.rev = "COSTLY"
              /\ Said(d.type, "STATELESS") /\ ~Said(d.type, "STATEFUL")
              /\ \A k \in StatefulEvidence : Value(d.before, k) \in {"absent", "null", "empty"}
              /\ \A k \in DisabledSafety : Value(d.before, k) # "true"
  <2>1. phase \in {"reading", "returned", "failed"}
    BY DEF IInv, TypeOK, PhaseFollows
  <2>2. Said(c.type, "STATELESS") /\ ~Said(c.type, "STATEFUL")
    BY <1>9, <1>10, <1>11, <2>1, CatalogIsWorst
  <2> QED BY <1>8, <1>10, <1>11, <2>2 DEF HasStatefulEvidence, HasDisabledSafety, MeaningfullySet
<1>12. ASSUME v.rev = "REVERSIBLE", c.actions = <<"update">>
       PROVE  /\ \A k \in Guards : Value(d.before, k) = "true" => Value(d.after, k) # "false"
              /\ \A k \in DisabledSafety : Value(d.before, k) = "false" => Value(d.after, k) # "true"
              /\ \A k \in Windows : Value(d.before, k) = "positive" => Value(d.after, k) # "zero"
  <2>1. \A t \in SafetyTransitions : ~(Value(d.before, t.key) = t.from /\ Value(d.after, t.key) = t.to)
    BY <1>8, <1>10, <1>12 DEF Fires
  <2>2. \A k \in Guards : [key |-> k, from |-> "true", to |-> "false"] \in SafetyTransitions
    BY DEF SafetyTransitions
  <2>3. \A k \in DisabledSafety : [key |-> k, from |-> "false", to |-> "true"] \in SafetyTransitions
    BY DEF SafetyTransitions
  <2>4. \A k \in Windows : [key |-> k, from |-> "positive", to |-> "zero"] \in SafetyTransitions
    BY DEF SafetyTransitions
  <2> QED BY <2>1, <2>2, <2>3, <2>4
<1> QED BY <1>8, <1>11, <1>12

LEMMA NothingUnansweredInv ==
    ASSUME IInv
    PROVE  NothingUnanswered
<1>1. SUFFICES ASSUME phase = "returned", NEW f \in Files
               PROVE  IF f \notin Claimed \/ f \in removed
                      THEN \A g \in findings : g.file # f
                      ELSE LET here == {g \in findings : g.file = f} IN
                           /\ plan[f] # {}
                           /\ \A p \in plan[f] :
                              IF ~p.ok THEN \E g \in here : g.rev = "UNKNOWN"
                              ELSE \A c \in p.changes :
                                      Managed(c) =>
                                          /\ \E g \in here : c \in g.about
                                          /\ \A g, h \in here : c \in g.about /\ c \in h.about => g = h
  BY DEF NothingUnanswered, Returned
<1>2. \A g \in findings : \E h \in Due : \E p \in Plans[h] : p \in plan[h] /\ g \in AnalyzeFile(h, p) /\ g.file = h
  BY FindingFrom, FindingOfPlan DEF Due
<1>3. CASE f \notin Due
  BY <1>2, <1>3 DEF Due
<1>4. CASE f \in Due
  <2> DEFINE here == {g \in findings : g.file = f}
  <2>1. plan[f] # {} /\ f < at
    BY <1>1, <1>4, FilesAssumption DEF IInv, FindingsFollow, PhaseFollows, Files
  <2>2. ASSUME NEW p \in plan[f]
        PROVE  /\ p \in Plans[f] /\ AnalyzeFile(f, p) \subseteq here
               /\ here \subseteq AnalyzeFile(f, p)
    <3>1. p \in Plans[f] /\ plan[f] = {p}
      BY DEF IInv, TypeOK, FindingsFollow
    <3>2. AnalyzeFile(f, p) \subseteq findings
      BY <1>1, <1>4, <2>1, <2>2 DEF IInv, FindingsFollow
    <3>3. \A g \in AnalyzeFile(f, p) : g.file = f
      BY <3>1, FindingOfPlan
    <3>4. here \subseteq AnalyzeFile(f, p)
      BY <1>2, <3>1
    <3> QED BY <3>1, <3>2, <3>3, <3>4
  <2>3. ASSUME NEW p \in plan[f], ~p.ok
        PROVE  \E g \in here : g.rev = "UNKNOWN"
    <3>1. AnalyzeFile(f, p) = {Finding(V("TF009", "UNKNOWN"), f, {})}
      BY <2>3 DEF AnalyzeFile
    <3>2. Finding(V("TF009", "UNKNOWN"), f, {}).rev = "UNKNOWN"
      BY DEF Finding, V
    <3> QED BY <2>2, <3>1, <3>2
  <2>4. ASSUME NEW p \in plan[f], p.ok, NEW c \in p.changes,
               Managed(c)
        PROVE  /\ \E g \in here : c \in g.about
               /\ \A g, h \in here : c \in g.about /\ c \in h.about => g = h
    <3>1. /\ \A g, h \in AnalyzeFile(f, p) : c \in g.about /\ c \in h.about => g = h
          /\ \E g \in AnalyzeFile(f, p) : c \in g.about
      BY <2>2, <2>4, OneFindingEach
    <3> QED BY <2>2, <3>1
  <2>5. \A p \in plan[f] : p.ok \in BOOLEAN
    BY <2>2, PlansAssumption
  <2> HIDE DEF here
  <2>6. /\ plan[f] # {}
        /\ \A p \in plan[f] :
              IF ~p.ok THEN \E g \in here : g.rev = "UNKNOWN"
              ELSE \A c \in p.changes :
                      Managed(c) =>
                          /\ \E g \in here : c \in g.about
                          /\ \A g, h \in here : c \in g.about /\ c \in h.about => g = h
    BY <2>1, <2>3, <2>4
  <2> QED BY <1>4, <2>6 DEF Due, here
<1> QED BY <1>3, <1>4

LEMMA SnippetSettlesInv ==
    ASSUME IInv
    PROVE  SnippetSettles
<1>1. CASE added /\ ~OneKey(file)
  <2>1. file.lists # << >> /\ file.lists \in Seq(Seq(Entries))
    BY <1>1 DEF IInv, FileFollows, TypeOK, Documents
  <2>2. Len(file.lists) \in Nat /\ Len(file.lists) # 0
    BY <2>1, EmptySeq, LenProperties
  <2>3. ~Legible(file)
    <3>1. file # NoFile
      BY <2>1 DEF NoFile
    <3>2. Len(file.lists) <= 1 => Len(file.lists) = 1
      <4> \A n \in Nat : n # 0 /\ n <= 1 => n = 1
        OBVIOUS
      <4> QED BY <2>2
    <3> QED BY <1>1, <3>1, <3>2 DEF Legible, OneKey
  <2>4. phase \in {"loading", "refused"}
    BY <2>3 DEF IInv, FileFollows, TypeOK
  <2> QED BY <1>1, <2>4 DEF IInv, PhaseFollows, SnippetSettles, OneKey
<1>2. CASE added /\ OneKey(file)
  <2>1. SettledBy(file)
    BY <1>2 DEF IInv, AddedFollows
  <2>2. phase # "refused"
    <3>1. ASSUME phase = "refused"
          PROVE  FALSE
      <4>1. policy = Resolved(file) /\ line <= Len(policy) /\ ~Accepted(policy, line)
        BY <2>1, <3>1 DEF IInv, FileFollows, SettledBy
      <4>2. policy \in Seq(Loaded) /\ line \in 1 .. Len(policy) + 1
        BY DEF IInv, TypeOK
      <4>3. line \in DOMAIN policy
        BY <4>1, <4>2, LenProperties
      <4> QED BY <2>1, <4>1, <4>3 DEF SettledBy
    <3> QED BY <3>1
  <2>3. ASSUME NEW g \in findings, g.rule = "TF010", NEW d \in g.about
        PROVE  FALSE
    <3>1. PICK f \in Due : \E p \in Plans[f] : p \in plan[f] /\ g \in AnalyzeFile(f, p)
      BY FindingFrom
    <3>2. PICK p \in Plans[f] : p \in plan[f] /\ g \in AnalyzeFile(f, p)
      BY <3>1
    <3>3. f \in Files
      BY DEF Due
    <3>4. p.ok
      BY <2>3, <3>2, <3>3, FindingOfPlan DEF Finding
    <3>5. PICK c \in p.changes : \E v \in Classify(c) : g = Finding(v, f, {c})
      BY <3>2, <3>3, <3>4, FindingOfPlan
    <3>6. PICK v \in Classify(c) : g = Finding(v, f, {c})
      BY <3>5
    <3>7. v.rule = "TF010"
      BY <2>3, <3>6 DEF Finding
    <3>8. c.mode \in {"managed", "data"} /\ c.type \in Types /\ c.actions \in PlanActions
      BY <3>3, PlansAssumption
    <3>9. Unsettled(c) /\ catalog[c.type] = "none"
      BY <3>7, <3>8, Classified DEF IInv
    <3>10. phase \in {"reading", "returned", "failed"}
      BY DEF IInv, TypeOK, PhaseFollows
    <3>11. policy = Resolved(file)
      BY <3>10 DEF IInv, FileFollows
    <3>12. Said(c.type, "STATEFUL") \/ Said(c.type, "STATELESS")
      BY <2>1, <3>2, <3>4, <3>9, <3>11 DEF SettledBy, SaidBy, Said
    <3> QED BY <3>8, <3>9, <3>10, <3>12, CatalogIsWorst
  <2>4. UnclassifiedTypes = {}
    BY <2>3 DEF UnclassifiedTypes
  <2> QED BY <1>2, <2>2, <2>4 DEF SnippetSettles, OneKey
<1> QED BY <1>1, <1>2 DEF SnippetSettles

\* The state is what the code can hold: a catalog has defined classes only,
\* whatever the lines of the policy say.
THEOREM TypeCorrect == Spec => []TypeOK
BY AlwaysInv, PTL DEF IInv

\* No destruction is called recreatable against the catalog, any line of the
\* policy or what the resource itself shows, and no update reversible that
\* switches a way back off (catalog.go, evidence.go, rules.go).
THEOREM VerdictsNeverTalkedDown == Spec => []NeverTalkedDown
BY AlwaysInv, NeverTalkedDownInv, PTL

\* Every managed change of every plan has exactly one verdict, every plan that
\* cannot be read is UNKNOWN, and nothing else is spoken of (terraform.go).
THEOREM EveryChangeAnswered == Spec => []NothingUnanswered
BY AlwaysInv, NothingUnansweredInv, PTL

\* The printed block settles every type, and is not refused, in any policy file
\* that has a version and no other terraform_types: key once the block is in
\* it, be it pasted there or merged with the list the file had; in every other
\* file it is pasted into, its own header makes the run be refused before any
\* plan is read (suggest.go, load.go).
THEOREM BlockSettles == Spec => []SnippetSettles
BY AlwaysInv, SnippetSettlesInv, PTL

-----------------------------------------------------------------------------
(* What the engine is owed. *)

\* What one file that was read has to be answered for.
OwedFor(f, p) ==
    IF p.ok THEN {[at |-> <<f, {c}>>, legible |-> TRUE] : c \in {d \in p.changes : Managed(d)}}
    ELSE {[at |-> <<f, {}>>, legible |-> FALSE]}

LEMMA OwedIs ==
    Owed = UNION {UNION {OwedFor(f, p) : p \in plan[f]} : f \in {g \in Claimed \ removed : g < at}}
BY DEF Owed, OwedFor

\* What a call that returned gave its caller: an answer to all it was owed, and
\* nothing of other files.
Settled ==
    Returned => /\ \A o \in Owed : Contract!Answered(o, Told)
                /\ \A f \in findings : f.file \in Claimed \ removed

LEMMA SettledInv ==
    ASSUME IInv
    PROVE  Settled
<1> SUFFICES ASSUME Returned
             PROVE  /\ \A o \in Owed : Contract!Answered(o, Told)
                    /\ \A f \in findings : f.file \in Claimed \ removed
  BY DEF Settled
<1>1. ASSUME NEW g \in findings
      PROVE  g.file \in Claimed \ removed
  <2>1. PICK f \in Due : \E p \in Plans[f] : p \in plan[f] /\ g \in AnalyzeFile(f, p)
    BY FindingFrom
  <2> QED BY <2>1, FindingOfPlan DEF Due
<1>2. ASSUME NEW o \in Owed
      PROVE  Contract!Answered(o, Told)
  <2>1. PICK f \in Claimed \ removed : f < at /\ \E p \in plan[f] : o \in OwedFor(f, p)
    BY OwedIs
  <2>2. PICK p \in plan[f] : o \in OwedFor(f, p)
    BY <2>1
  <2>3. f \in Files /\ f \in Due /\ p \in Plans[f]
    BY <2>1, <2>2, FilesAssumption DEF Due, IInv, TypeOK
  <2>4. AnalyzeFile(f, p) \subseteq findings
    BY <2>1, <2>2, <2>3 DEF IInv, FindingsFollow, Returned
  <2>5. \A g \in AnalyzeFile(f, p) : [file |-> g.file, at |-> <<g.file, g.about>>, rev |-> g.rev] \in Told
    BY <2>4 DEF Told
  <2>6. CASE ~p.ok
    <3> DEFINE g == Finding(V("TF009", "UNKNOWN"), f, {})
    <3>1. g \in AnalyzeFile(f, p)
      BY <2>6 DEF AnalyzeFile
    <3>2. g.file = f /\ g.about = {} /\ g.rev = "UNKNOWN"
      BY DEF Finding, V
    <3>3. o = [at |-> <<f, {}>>, legible |-> FALSE]
      BY <2>2, <2>6 DEF OwedFor
    <3> HIDE DEF g
    <3>4. [file |-> f, at |-> <<f, {}>>, rev |-> "UNKNOWN"] \in Told
      BY <2>5, <3>1, <3>2
    <3> QED BY <3>3, <3>4 DEF Contract!Answered
  <2>7. CASE p.ok
    <3>1. PICK c \in p.changes : Managed(c) /\ o = [at |-> <<f, {c}>>, legible |-> TRUE]
      BY <2>2, <2>7 DEF OwedFor
    <3>2. PICK v \in Classify(c) : TRUE
      BY <2>3, <2>7, <3>1, PlansAssumption, AnsweredOnce
    <3> DEFINE g == Finding(v, f, {c})
    <3>3. g \in AnalyzeFile(f, p)
      BY <2>7, <3>2 DEF AnalyzeFile
    <3>4. g.file = f /\ g.about = {c}
      BY DEF Finding
    <3> HIDE DEF g
    <3>5. [file |-> f, at |-> <<f, {c}>>, rev |-> g.rev] \in Told
      BY <2>5, <3>3, <3>4
    <3> QED BY <3>1, <3>5 DEF Contract!Answered
  <2> QED BY <2>3, <2>6, <2>7, PlansAssumption
<1> QED BY <1>1, <1>2

\* Nothing is owed before a file was read.
LEMMA OwesNothing == at = 1 => Owed = {}
<1>1. \A f \in Claimed : ~(f < 1)
  BY FilesAssumption DEF Files
<1>2. at = 1 => {f \in Claimed \ removed : f < at} = {}
  BY <1>1
<1> QED BY <1>2, OwedIs

\* Reading on forgets nothing.
LEMMA OwedGrows ==
    ASSUME UNCHANGED removed, at \in Int, at' \in Int, at <= at',
           \A f \in Claimed \ removed : f < at => plan[f] \subseteq plan'[f]
    PROVE  Owed \subseteq Owed'
<1>1. \A f \in Claimed : f \in Int
  BY FilesAssumption DEF Files
<1>2. ASSUME NEW o \in Owed
      PROVE  o \in Owed'
  <2>1. PICK f \in Claimed \ removed : f < at /\ \E p \in plan[f] : o \in OwedFor(f, p)
    BY OwedIs
  <2>2. PICK p \in plan[f] : o \in OwedFor(f, p)
    BY <2>1
  <2>3. f \in Claimed \ removed' /\ f < at' /\ p \in plan'[f]
    BY <1>1, <2>1, <2>2
  <2> QED BY <2>2, <2>3 DEF Owed, OwedFor
<1> QED BY <1>2

\* One step of the run is a step of the contract, or one nobody sees.
LEMMA StepKeepsContract ==
    ASSUME IInv, Settled', [Next]_vars
    PROVE  [Contract!Next]_(Contract!vars)
<1>1. at \in Int /\ removed \subseteq Files
  BY DEF IInv, TypeOK
<1>2. ~Returned => Told = {}
  BY DEF Told
<1>3. ~Returned' => Told' = {}
  BY DEF Told
<1>4. (at = 1 => Owed = {})'
  BY OwesNothing, PTL
<1>5. CASE Load \/ ApplyOverride \/ Ready
  <2>1. /\ phase \in {"loading", "configuring"} /\ phase' \in {"configuring", "reading"}
        /\ UNCHANGED <<removed, plan, at>>
    BY <1>5 DEF Load, ApplyOverride, Ready, Configuring
  <2>2. ~Returned /\ ~Returned'
    BY <2>1 DEF Returned
  <2>3. Owed \subseteq Owed'
    BY <1>1, <2>1, OwedGrows
  <2>4. Contract!Look
    BY <1>2, <1>3, <2>1, <2>2, <2>3 DEF Contract!Look, Told
  <2> QED BY <2>4 DEF Contract!Next
<1>6. CASE RefuseFile \/ RefuseOverride \/ Cancelled
  <2>1. phase \in {"loading", "configuring", "reading"} /\ phase' \in {"refused", "failed"} /\ UNCHANGED removed
    BY <1>6 DEF RefuseFile, RefuseOverride, Cancelled, Configuring
  <2>2. at' = 1
    BY <1>6 DEF RefuseFile, RefuseOverride, Cancelled, Configuring, IInv, PhaseFollows
  <2>3. Owed' = {}
    BY <1>4, <2>2
  <2>4. Contract!Fail
    BY <1>3, <2>1, <2>3 DEF Contract!Fail, Told, Returned
  <2> QED BY <2>4 DEF Contract!Next
<1>7. CASE PassOver \/ ReadPlan
  <2>1. phase = "reading" /\ phase' = "reading" /\ at' = at + 1 /\ UNCHANGED removed
    BY <1>7 DEF PassOver, ReadPlan, Reading
  <2>2. ~Returned /\ ~Returned'
    BY <2>1 DEF Returned
  <2>3. \A f \in Claimed \ removed : f < at => plan[f] \subseteq plan'[f]
    BY <1>1, <1>7, FilesAssumption DEF PassOver, ReadPlan, Files, IInv, TypeOK
  <2>4. Owed \subseteq Owed'
    BY <1>1, <2>1, <2>3, OwedGrows
  <2>5. Contract!Look
    BY <1>2, <1>3, <2>1, <2>2, <2>4 DEF Contract!Look, Told
  <2> QED BY <2>5 DEF Contract!Next
<1>8. CASE Return
  <2>1. phase = "reading" /\ phase' = "returned" /\ UNCHANGED <<removed, plan, at>>
    BY <1>8 DEF Return
  <2>2. Returned'
    BY <2>1 DEF Returned
  <2>3. Owed \subseteq Owed'
    BY <1>1, <2>1, OwedGrows
  <2>4. /\ (\A o \in Owed : Contract!Answered(o, Told))'
        /\ (\A f \in findings : f.file \in Claimed \ removed)'
    BY <2>2 DEF Settled
  <2>5. (\A t \in Told : t.file \in Claimed \ removed)'
    BY <2>4 DEF Told
  <2>6. Contract!Report
    BY <2>1, <2>3, <2>4, <2>5 DEF Contract!Report, Contract!Answered, Contract!Within, Told
  <2> QED BY <2>6 DEF Contract!Next
<1>9. CASE Paste \/ Merge
  <2>1. phase = "returned" /\ phase' = "loading" /\ at' = 1 /\ UNCHANGED removed
    BY <1>9 DEF Paste, Merge, RunAgain
  <2>2. Owed' = {}
    BY <1>4, <2>1
  <2>3. Contract!Again
    BY <1>3, <2>1, <2>2 DEF Contract!Again, Told, Returned
  <2> QED BY <2>3 DEF Contract!Next
<1>10. CASE UNCHANGED vars
  <2>1. UNCHANGED <<removed, plan, at, findings, phase>>
    BY <1>10 DEF vars
  <2>2. Owed' = Owed
    BY <2>1 DEF Owed
  <2>3. Told' = Told
    BY <2>1 DEF Told, Returned
  <2> QED BY <2>1, <2>2, <2>3 DEF Contract!vars
<1> QED BY <1>5, <1>6, <1>7, <1>8, <1>9, <1>10 DEF Next

\* The analyzer keeps the contract of analyzer.go for any catalog, policy and
\* plans: a nil error never comes with an incomplete result, nor an error with
\* findings, in the run after the block was added neither.
THEOREM ContractKept == Spec => ImplementsAnalyzer
<1>1. Init => Contract!Init
  BY OwesNothing DEF Init, Contract!Init, Told, Returned
<1>2. IInv => Settled
  BY SettledInv
<1>3. IInv /\ Settled' /\ [Next]_vars => [Contract!Next]_(Contract!vars)
  BY StepKeepsContract
<1> QED BY <1>1, <1>2, <1>3, AlwaysInv, PTL DEF Spec, ImplementsAnalyzer, Contract!Spec
=============================================================================
